----------------------------- MODULE WebLogins -----------------------------
(***************************************************************************)
(* Logins to the web pages: the failure counts and lockouts a process      *)
(* keeps per client address, the audit row of every attempt, and the       *)
(* blocks set at Cloudflare, by the failures of an address or by hand.     *)
(* Requests are served by several threads: the lock is looked up before    *)
(* the credentials are, a row is looked up before the rule is asked for,   *)
(* and Cloudflare may carry out a request whose answer never arrives.      *)
(*                                                                         *)
(* An address is one that parses; blocking is configured.  A lockout ends  *)
(* at any time after it began: its length is left out.  What lies between  *)
(* two calls to database or Cloudflare is one step.                        *)
(***************************************************************************)
EXTENDS Integers, FiniteSets

CONSTANTS
  Clients,      (* client addresses                                        *)
  Workers,      (* threads that serve requests                             *)
  Allowlist,    (* cloudflare_ip_block_allowlist                           *)
  MaxAttempts,  (* web_login_max_attempts                                  *)
  BlockAfter,   (* cloudflare_auto_block_failed_login_attempts             *)
  MaxFailures,  (* bound on the failures of a client in a row              *)
  MaxRules      (* bound on the rules ever made at Cloudflare              *)

ASSUME LoginAssumption ==
  /\ IsFiniteSet(Workers) /\ Workers # {}
  /\ Allowlist \subseteq Clients
  /\ MaxAttempts \in Nat \ {0} /\ BlockAfter \in Nat \ {0}
  /\ MaxFailures \in Nat /\ MaxRules \in Nat

VARIABLES
  attempts,  (* FAILED_LOGIN_ATTEMPTS: failed_count, and locked_until is ahead *)
  request,   (* per thread: the request it serves                          *)
  audits,    (* web_login_audits: which events each client has a row of    *)
  blocks,    (* cloudflare_ip_blocks                                       *)
  rules,     (* external: the access rules at Cloudflare                   *)
  made,      (* how many were ever made: the last id                       *)
  strays,    (* history: rules whose row could not be stored               *)
  severed,   (* history: rules whose removal was not, or not known to be,  *)
             (* carried through to the row                                 *)
  judged     (* history, per client since its last success: attempts       *)
             (* judged under its lock, failures outside of it since the    *)
             (* last lockout ended, and whether there was one              *)

logins == << attempts, judged >>
remote == << rules, made, strays, severed >>
vars   == << attempts, request, audits, blocks, rules, made, strays, severed, judged >>

NoClient == "no client"
NoRule   == 0

Idle      == [pc |-> "idle", client |-> NoClient, source |-> "manual", count |-> 0,
              audit |-> "none", rule |-> NoRule]
Unfailed  == [count |-> 0, locked |-> FALSE]
Unjudged  == [underLock |-> 0, sinceLock |-> 0, lockedOnce |-> FALSE]

Init ==
  /\ attempts = [c \in Clients |-> Unfailed]
  /\ request = [w \in Workers |-> Idle]
  /\ audits = {} /\ blocks = {}
  /\ rules = {} /\ made = 0
  /\ strays = {} /\ severed = {}
  /\ judged = [c \in Clients |-> Unjudged]

-----------------------------------------------------------------------------
(* record_web_login_failure, record_web_login_success: the row is added to *)
(* the transaction, with the count of the moment, and the failed address   *)
(* is blocked when that count has reached the threshold.  The variant      *)
(* Below is off by one.                                                    *)
Allowlisted(c) == c \in Allowlist

BlocksBelow(c, count) == count + 1 >= BlockAfter /\ ~ Allowlisted(c)
Blocks(c, count)      == count >= BlockAfter /\ ~ Allowlisted(c)

FailedAudit    == "failed"
SucceededAudit == "succeeded"

Failed(w, c, count) ==
  request' = [request EXCEPT ![w] =
    [pc |-> IF Blocks(c, count) THEN "find" ELSE "commit", client |-> c,
     source |-> "automatic", count |-> count, audit |-> FailedAudit, rule |-> NoRule]]

(* A login, by password or passkey.  A locked address is refused before    *)
(* anything is compared; the refusal is recorded but does not count.  The  *)
(* variant Unchecked leaves the check out.                                 *)
IsLockedUnchecked(c) == FALSE
IsLocked(c)          == attempts[c].locked

Login(w, c) ==
  /\ request[w].pc = "idle"
  /\ IF IsLocked(c)
     THEN Failed(w, c, attempts[c].count)
     ELSE request' = [request EXCEPT ![w] = [Idle EXCEPT !.pc = "verify", !.client = c]]
  /\ UNCHANGED << logins, audits, blocks, remote >>

(* record_login_failure: under a lock failures do not count, but a count   *)
(* at the limit locks again.  It outlives the lock: the first failure      *)
(* behind it locks at once.  The variants let the count go with the lock,  *)
(* and lock one failure late.                                              *)
AfterFailureLate(a) ==
  LET n == IF a.locked THEN a.count ELSE a.count + 1
  IN [count |-> n, locked |-> n > MaxAttempts]
AfterFailure(a) ==
  LET n == IF a.locked THEN a.count ELSE a.count + 1
  IN [count |-> n, locked |-> a.locked \/ n >= MaxAttempts]

JudgedAfter(j, locked) ==
  [j EXCEPT !.underLock = IF locked THEN j.underLock + 1 ELSE 0,
            !.sinceLock = IF locked THEN j.sinceLock ELSE j.sinceLock + 1]

VerifyWrong(w) ==
  LET c == request[w].client
      a == AfterFailure(attempts[c])
  IN /\ request[w].pc = "verify"
     /\ attempts[c].count < MaxFailures
     /\ attempts' = [attempts EXCEPT ![c] = a]
     /\ Failed(w, c, a.count)
     /\ judged' = [judged EXCEPT ![c] = JudgedAfter(judged[c], attempts[c].locked)]
     /\ UNCHANGED << audits, blocks, remote >>

(* clear_login_failures drops count and lock.                              *)
VerifyRight(w) ==
  LET c == request[w].client
  IN /\ request[w].pc = "verify"
     /\ attempts' = [attempts EXCEPT ![c] = Unfailed]
     /\ judged' = [judged EXCEPT ![c] = Unjudged]
     /\ request' = [request EXCEPT ![w].pc = "commit", ![w].audit = SucceededAudit]
     /\ UNCHANGED << audits, blocks, remote >>

(* Time passes locked_until.  The variant starts the count anew.           *)
ExpiredReset(a) == Unfailed
Expired(a)      == [a EXCEPT !.locked = FALSE]

LockoutEnds(c) ==
  /\ attempts[c].locked
  /\ attempts' = [attempts EXCEPT ![c] = Expired(attempts[c])]
  /\ judged' = [judged EXCEPT ![c] =
                   [underLock |-> 0, sinceLock |-> 0, lockedOnce |-> TRUE]]
  /\ UNCHANGED << request, audits, blocks, remote >>

-----------------------------------------------------------------------------
(* What a request has added is committed, with its audit row; the form     *)
(* that sets a block has none.  The variant adds one to every request.     *)
CommittedAlways(r) == audits \union {<<r.client, r.audit>>}
Committed(r) == audits \union (IF r.audit = "none" THEN {} ELSE {<<r.client, r.audit>>})
Done(w)      == request' = [request EXCEPT ![w] = Idle]

(* The variant Open leaves the audit row to a later commit.                *)
StoredWithBlockOpen(r) == audits
StoredWithBlock(r)     == Committed(r)

Commit(w) ==
  /\ request[w].pc = "commit"
  /\ \/ audits' = Committed(request[w])
     \/ UNCHANGED audits                    (* the database does not answer *)
  /\ Done(w)
  /\ UNCHANGED << logins, blocks, remote >>

(* _create_app_cloudflare_block: the form on the Diagnostics page, or the  *)
(* failures of an address.                                                 *)
BlockForm(w, c) ==
  /\ request[w].pc = "idle"
  /\ ~ Allowlisted(c)
  /\ request' = [request EXCEPT ![w] = [Idle EXCEPT !.pc = "find", !.client = c]]
  /\ UNCHANGED << logins, audits, blocks, remote >>

BlocksOf(c) == {b \in blocks : b.ip = c}

(* A request that goes on without a block: an attempt commits its audit,   *)
(* the form answers.                                                       *)
WithoutBlock(w) ==
  IF request[w].source = "automatic"
  THEN request' = [request EXCEPT ![w].pc = "commit"]
  ELSE Done(w)

FindBlock(w) ==
  /\ request[w].pc = "find"
  /\ IF BlocksOf(request[w].client) = {}
     THEN request' = [request EXCEPT ![w].pc = "create"]
     ELSE WithoutBlock(w)
  /\ UNCHANGED << logins, audits, blocks, remote >>

(* create_cloudflare_ip_block.  A lost answer is an error like a refusal;  *)
(* Cloudflare may or may not refuse a second rule for an address.          *)
MakesRule(w) ==
  /\ made < MaxRules
  /\ made' = made + 1
  /\ rules' = rules \union {[id |-> made + 1, ip |-> request[w].client]}

CreateRule(w) ==
  /\ request[w].pc = "create"
  /\ \/ /\ MakesRule(w)
        /\ request' = [request EXCEPT ![w].pc = "store", ![w].rule = made + 1]
        /\ UNCHANGED strays
     \/ /\ MakesRule(w)
        /\ strays' = strays \union {made + 1}
        /\ WithoutBlock(w)
     \/ /\ WithoutBlock(w)
        /\ UNCHANGED << rules, made, strays >>
  /\ UNCHANGED << logins, audits, blocks, severed >>

(* The row, with the audit added before it; another thread may have stored *)
(* one for the address meanwhile, or the database may not answer.          *)
StoreBlock(w) ==
  LET r == request[w]
  IN /\ r.pc = "store"
     /\ \/ /\ BlocksOf(r.client) = {}
           /\ blocks' = blocks \union {[ip |-> r.client, rule |-> r.rule,
                                        source |-> r.source, failures |-> r.count]}
           /\ audits' = StoredWithBlock(r)
           /\ UNCHANGED strays
        \/ /\ strays' = strays \union {r.rule}
           /\ UNCHANGED << blocks, audits >>
     /\ Done(w)
     /\ UNCHANGED << logins, rules, made, severed >>

-----------------------------------------------------------------------------
(* unblock_login_ip_form, _remove_app_cloudflare_block: the rule goes      *)
(* first, then the row.  The variant RowFirst swaps them.                  *)
Unblock(w, c) ==
  /\ request[w].pc = "idle"
  /\ \E b \in BlocksOf(c) :
       request' = [request EXCEPT ![w] = [Idle EXCEPT !.pc = "delete", !.client = c,
                                                      !.rule = b.rule]]
  /\ UNCHANGED << logins, audits, blocks, remote >>

RemovedWithRequestFirst(w) == {b \in blocks : b.rule # request[w].rule}
RemovedWithRequest(w)      == blocks

(* Rules are addressed by their id; the variant goes by the address.       *)
LeftByAddress(w) == {r \in rules : r.ip # request[w].client}
Left(w)          == {r \in rules : r.id # request[w].rule}

(* The rule is deleted and the app is told; or it is deleted and the       *)
(* answer is lost; or nothing happens, as when the rule is not there.      *)
DeleteRule(w) ==
  /\ request[w].pc = "delete"
  /\ \/ /\ Left(w) # rules
        /\ rules' = Left(w)
        /\ \/ /\ request' = [request EXCEPT ![w].pc = "remove"]
              /\ UNCHANGED severed
           \/ /\ severed' = severed \union {request[w].rule}
              /\ Done(w)
     \/ /\ Done(w)
        /\ UNCHANGED << rules, severed >>
  /\ blocks' = RemovedWithRequest(w)
  /\ UNCHANGED << logins, audits, made, strays >>

RemoveRow(w) ==
  LET id == request[w].rule
  IN /\ request[w].pc = "remove"
     /\ \/ /\ blocks' = {b \in blocks : b.rule # id}
           /\ UNCHANGED severed
        \/ /\ severed' = severed \union {id}
           /\ UNCHANGED blocks
     /\ Done(w)
     /\ UNCHANGED << logins, audits, rules, made, strays >>

(* The process ends and starts: counts and locks were in memory, and what  *)
(* was under way stays as it is.                                           *)
Restart ==
  /\ \E w \in Workers : request[w].pc # "idle"
  /\ strays' = strays \union {request[w].rule : w \in {v \in Workers : request[v].pc = "store"}}
  /\ severed' = severed \union {request[w].rule : w \in {v \in Workers : request[v].pc = "remove"}}
  /\ attempts' = [c \in Clients |-> Unfailed]
  /\ judged' = [c \in Clients |-> Unjudged]
  /\ request' = [w \in Workers |-> Idle]
  /\ UNCHANGED << audits, blocks, rules, made >>

Next ==
  \/ \E w \in Workers, c \in Clients : Login(w, c) \/ BlockForm(w, c) \/ Unblock(w, c)
  \/ \E w \in Workers :
       \/ VerifyWrong(w) \/ VerifyRight(w) \/ Commit(w)
       \/ FindBlock(w) \/ CreateRule(w) \/ StoreBlock(w)
       \/ DeleteRule(w) \/ RemoveRow(w)
  \/ \E c \in Clients : LockoutEnds(c)
  \/ Restart

Spec == Init /\ [][Next]_vars

-----------------------------------------------------------------------------
Steps == {"idle", "verify", "commit", "find", "create", "store", "delete", "remove"}

(* Every variable has its type.                                            *)
TypeOK ==
  /\ attempts \in [Clients -> [count : 0..MaxFailures, locked : BOOLEAN]]
  /\ request \in [Workers -> [pc : Steps, client : Clients \union {NoClient},
                              source : {"automatic", "manual"}, count : 0..MaxFailures,
                              audit : {"none", "failed", "succeeded"},
                              rule : 0..MaxRules]]
  /\ audits \subseteq Clients \X {"failed", "succeeded"}
  /\ made \in 0..MaxRules
  /\ blocks \subseteq [ip : Clients, rule : 1..made, source : {"automatic", "manual"},
                       failures : 0..MaxFailures]
  /\ rules \subseteq [id : 1..made, ip : Clients]
  /\ strays \subseteq 1..made /\ severed \subseteq 1..made
  /\ judged \in [Clients -> [underLock : Nat, sinceLock : Nat, lockedOnce : BOOLEAN]]

(* The lock is looked up in one step and the credentials in another, but   *)
(* under a lock no more attempts are judged than other threads had passed  *)
(* the look-up when it fell.                                               *)
FewJudgedUnderLock ==
  \A c \in Clients : judged[c].underLock < Cardinality(Workers)

(* Between two lockouts of an address lies one failed attempt, and before  *)
(* the first fewer than the limit: an expired lockout is no fresh start,   *)
(* and only a success gives one.                                           *)
LocksAgainAtOnce ==
  \A c \in Clients :
    ~ attempts[c].locked =>
      judged[c].sinceLock < (IF judged[c].lockedOnce THEN 1 ELSE MaxAttempts)

(* An address is blocked by itself only after that many failures of its    *)
(* own; the row says how many, and an audit row of a refused attempt was   *)
(* stored with it, whatever became of the request afterwards.              *)
AutoBlockEarned ==
  \A b \in blocks : b.source = "automatic" =>
    /\ b.failures >= BlockAfter
    /\ <<b.ip, "failed">> \in audits

(* No rule is left at Cloudflare that the application does not know of,    *)
(* but those whose answer or whose row was lost when they were made: an    *)
(* address a user has unblocked is not blocked, whatever threads did with  *)
(* it at once.                                                             *)
RulesAreKnown ==
  \A r \in rules :
    \/ \E b \in blocks : b.rule = r.id
    \/ \E w \in Workers : request[w].pc = "store" /\ request[w].rule = r.id
    \/ r.id \in strays

(* A row shown as an active block has its rule, unless the removal of the  *)
(* rule is under way or its end was lost.                                  *)
RowsHaveRules ==
  \A b \in blocks :
    \/ \E r \in rules : r.id = b.rule /\ r.ip = b.ip
    \/ \E w \in Workers : request[w].pc = "remove" /\ request[w].rule = b.rule
    \/ b.rule \in severed
=============================================================================
