-------------------------- MODULE WebLoginsProofs --------------------------
(***************************************************************************)
(* Theorems about WebLogins, for any addresses, threads, limits and        *)
(* bounds.  Lockouts and blocks share nothing but the requests that lead   *)
(* from one to the other, and are proved apart.  At the end, theorems of   *)
(* AppHealth, the monitor that tells the user of lockouts and blocks.      *)
(***************************************************************************)
EXTENDS WebLogins, AppHealth, FiniteSetTheorems, TLAPS

RequestType ==
  [pc : Steps, client : Clients \union {NoClient}, source : {"automatic", "manual"},
   count : 0..MaxFailures, audit : {"none", "failed", "succeeded"}, rule : 0..MaxRules]

(* A request knows its client, asks for no rule still to be made, and      *)
(* stores or removes a rule it knows.                                      *)
Known(r, ids) ==
  /\ r.pc # "idle" => r.client \in Clients
  /\ r.rule <= ids
  /\ r.pc \in {"store", "delete", "remove"} => r.rule # 0

RequestsKnown == \A w \in Workers : Known(request[w], made)

Typed == TypeOK /\ RequestsKnown

-----------------------------------------------------------------------------
(* Types.                                                                  *)

(* The initial state is typed.                                             *)
LEMMA InitTyped == Init => Typed
  <1> SUFFICES ASSUME Init PROVE Typed
    OBVIOUS
  <1>1. request \in [Workers -> RequestType]
    BY LoginAssumption DEF Init, Idle, NoRule, RequestType, Steps
  <1>2. /\ attempts \in [Clients -> [count : 0..MaxFailures, locked : BOOLEAN]]
        /\ judged \in [Clients -> [underLock : Nat, sinceLock : Nat, lockedOnce : BOOLEAN]]
    BY LoginAssumption DEF Init, Unfailed, Unjudged
  <1>3. /\ audits = {} /\ blocks = {} /\ rules = {} /\ strays = {} /\ severed = {}
        /\ made \in 0..MaxRules
    BY LoginAssumption DEF Init
  <1>4. TypeOK
    BY <1>1, <1>2, <1>3 DEF TypeOK, RequestType
  <1>5. RequestsKnown
    BY DEF Init, RequestsKnown, Known, Idle, NoRule
  <1> QED
    BY <1>4, <1>5 DEF Typed

(* A thread that serves nothing, or has just taken a request, is typed.    *)
LEMMA IdleType == Idle \in RequestType /\ Idle.pc = "idle" /\ Idle.rule = 0
  BY LoginAssumption DEF Idle, NoRule, RequestType, Steps

(* One thread goes on with a typed request, and the rules made only grow.  *)
LEMMA RequestTyped ==
  ASSUME Typed, NEW w \in Workers, NEW r \in RequestType, Known(r, made'),
         made' \in Nat, made <= made', request' = [request EXCEPT ![w] = r]
  PROVE  request' \in [Workers -> RequestType] /\ RequestsKnown'
  <1>1. request \in [Workers -> RequestType] /\ made \in Nat
    BY DEF Typed, TypeOK, RequestType
  <1>2. request' \in [Workers -> RequestType]
    BY <1>1
  <1>3. \A v \in Workers : request'[v] = IF v = w THEN r ELSE request[v]
    BY <1>1
  <1>4. ASSUME NEW v \in Workers PROVE Known(request'[v], made')
    <2>1. CASE v = w
      BY <2>1, <1>3
    <2>2. CASE v # w
      <3>1. request[v].rule \in Nat /\ Known(request[v], made)
        BY <1>1 DEF Typed, RequestsKnown, RequestType
      <3> QED
        BY <1>1, <1>3, <2>2, <3>1 DEF Known
    <2> QED
      BY <2>1, <2>2
  <1> QED
    BY <1>2, <1>4 DEF RequestsKnown

(* A failed attempt that has been counted.                                 *)
LEMMA FailedTyped ==
  ASSUME Typed, NEW w \in Workers, NEW c \in Clients, NEW n \in 0..MaxFailures,
         Failed(w, c, n), made' = made
  PROVE  request' \in [Workers -> RequestType] /\ RequestsKnown'
  <1> DEFINE step == IF Blocks(c, n) THEN "find" ELSE "commit"
             r  == [pc |-> step, client |-> c, source |-> "automatic", count |-> n,
                    audit |-> FailedAudit, rule |-> NoRule]
  <1>1. step \in Steps
    BY DEF Steps
  <1>2. request' = [request EXCEPT ![w] = r]
    BY DEF Failed
  <1>3. made \in Nat /\ made' \in Nat /\ made <= made'
    BY DEF Typed, TypeOK
  <1> HIDE DEF step
  <1>4. /\ r \in RequestType /\ r.client = c /\ r.rule = 0
        /\ r.pc \in {"find", "commit"}
    BY <1>1, LoginAssumption DEF NoRule, RequestType, FailedAudit, step
  <1> HIDE DEF r
  <1>5. Known(r, made')
    BY <1>3, <1>4 DEF Known
  <1> QED
    BY <1>2, <1>3, <1>4, <1>5, RequestTyped

(* A request that has just been taken, for a client.                       *)
LEMMA AskedType ==
  ASSUME NEW c \in Clients, NEW step \in {"verify", "find"}
  PROVE  /\ [Idle EXCEPT !.pc = step, !.client = c] \in RequestType
         /\ [Idle EXCEPT !.pc = step, !.client = c].pc = step
         /\ [Idle EXCEPT !.pc = step, !.client = c].client = c
         /\ [Idle EXCEPT !.pc = step, !.client = c].rule = 0
  <1>1. step \in Steps
    BY DEF Steps
  <1> QED
    BY <1>1, IdleType DEF RequestType

(* A request that has just been taken, for the rule of a block.            *)
LEMMA AskedRuleType ==
  ASSUME NEW c \in Clients, NEW id \in 0..MaxRules
  PROVE  /\ [Idle EXCEPT !.pc = "delete", !.client = c, !.rule = id] \in RequestType
         /\ [Idle EXCEPT !.pc = "delete", !.client = c, !.rule = id].pc = "delete"
         /\ [Idle EXCEPT !.pc = "delete", !.client = c, !.rule = id].client = c
         /\ [Idle EXCEPT !.pc = "delete", !.client = c, !.rule = id].rule = id
  BY IdleType DEF RequestType, Steps

(* A request that waits for its credentials, or looks for a block.         *)
LEMMA NewRequestTyped ==
  ASSUME Typed, NEW w \in Workers, NEW c \in Clients, NEW step \in {"verify", "find"},
         request' = [request EXCEPT ![w] = [Idle EXCEPT !.pc = step, !.client = c]],
         made' = made
  PROVE  request' \in [Workers -> RequestType] /\ RequestsKnown'
  <1> DEFINE r == [Idle EXCEPT !.pc = step, !.client = c]
  <1>1. made \in Nat
    BY LoginAssumption DEF Typed, TypeOK
  <1>2. r \in RequestType /\ r.pc = step /\ r.client = c /\ r.rule = 0
    BY AskedType
  <1>3. request' = [request EXCEPT ![w] = r]
    OBVIOUS
  <1> HIDE DEF r
  <1>4. Known(r, made') /\ made' \in Nat /\ made <= made'
    BY <1>1, <1>2 DEF Known
  <1> QED
    BY <1>2, <1>3, <1>4, RequestTyped

(* An idle thread knows all it has to.                                     *)
LEMMA DoneTyped ==
  ASSUME Typed, NEW w \in Workers, Done(w), made' \in Nat, made <= made'
  PROVE  request' \in [Workers -> RequestType] /\ RequestsKnown'
  <1>1. Idle \in RequestType /\ Known(Idle, made')
    BY IdleType DEF Known
  <1>2. request' = [request EXCEPT ![w] = Idle]
    BY DEF Done
  <1> QED
    BY <1>1, <1>2, RequestTyped

(* A request that goes on from one step to the next.                       *)
LEMMA GoesOnTyped ==
  ASSUME Typed, NEW w \in Workers, request[w].pc # "idle",
         NEW step \in {"commit", "create", "remove"}, step = "remove" => request[w].pc = "delete",
         request' = [request EXCEPT ![w] = [request[w] EXCEPT !.pc = step]],
         made' \in Nat, made <= made'
  PROVE  request' \in [Workers -> RequestType] /\ RequestsKnown'
  <1> DEFINE r == [request[w] EXCEPT !.pc = step]
  <1>1. /\ request[w] \in RequestType /\ Known(request[w], made)
        /\ made \in Nat /\ step \in Steps
    BY DEF Typed, TypeOK, RequestsKnown, RequestType, Steps
  <1>2. r \in RequestType /\ r.pc = step /\ r.client = request[w].client /\ r.rule = request[w].rule
    BY <1>1 DEF RequestType
  <1>3. request' = [request EXCEPT ![w] = r]
    OBVIOUS
  <1> HIDE DEF r
  <1>4. r.rule \in Nat
    BY <1>2 DEF RequestType
  <1>5. Known(r, made')
    BY <1>1, <1>2, <1>4 DEF Known
  <1> QED
    BY <1>2, <1>3, <1>5, RequestTyped

(* A request that goes on without a block.                                 *)
LEMMA WithoutBlockTyped ==
  ASSUME Typed, NEW w \in Workers, request[w].pc # "idle", WithoutBlock(w),
         made' \in Nat, made <= made'
  PROVE  request' \in [Workers -> RequestType] /\ RequestsKnown'
  <1>1. CASE request[w].source = "automatic"
    <2>1. request' = [request EXCEPT ![w] = [request[w] EXCEPT !.pc = "commit"]]
      BY <1>1 DEF WithoutBlock
    <2> QED
      BY <2>1, GoesOnTyped
  <1>2. CASE request[w].source # "automatic"
    BY <1>2, DoneTyped DEF WithoutBlock
  <1> QED
    BY <1>1, <1>2

(* The audit rows of a committed request are those of a client.            *)
LEMMA CommittedType ==
  ASSUME Typed, NEW w \in Workers, request[w].pc # "idle"
  PROVE  Committed(request[w]) \subseteq Clients \X {"failed", "succeeded"}
  <1>1. /\ request[w].client \in Clients
        /\ request[w].audit \in {"none", "failed", "succeeded"}
        /\ audits \subseteq Clients \X {"failed", "succeeded"}
    BY DEF Typed, TypeOK, RequestsKnown, Known
  <1> QED
    BY <1>1 DEF Committed

-----------------------------------------------------------------------------
(* The parts of the state that a login and a block change.                 *)

AttemptsTyped ==
  /\ attempts \in [Clients -> [count : 0..MaxFailures, locked : BOOLEAN]]
  /\ judged \in [Clients -> [underLock : Nat, sinceLock : Nat, lockedOnce : BOOLEAN]]

BlocksTyped ==
  /\ made \in 0..MaxRules
  /\ blocks \subseteq [ip : Clients, rule : 1..made, source : {"automatic", "manual"},
                       failures : 0..MaxFailures]
  /\ rules \subseteq [id : 1..made, ip : Clients]
  /\ strays \subseteq 1..made /\ severed \subseteq 1..made

(* The parts make the whole.                                               *)
LEMMA TypedParts ==
  TypeOK <=> /\ AttemptsTyped /\ BlocksTyped /\ request \in [Workers -> RequestType]
             /\ audits \subseteq Clients \X {"failed", "succeeded"}
  BY DEF TypeOK, AttemptsTyped, BlocksTyped, RequestType

(* An attempt keeps the types.                                             *)
LEMMA LoginTyped ==
  ASSUME Typed, NEW w \in Workers, NEW c \in Clients, Login(w, c)
  PROVE  Typed'
  <1>1. /\ UNCHANGED << attempts, judged, audits, blocks, rules, made, strays, severed >>
        /\ AttemptsTyped /\ BlocksTyped /\ made \in Nat
        /\ audits \subseteq Clients \X {"failed", "succeeded"}
    BY TypedParts DEF Login, logins, remote, Typed, BlocksTyped
  <1>2. request' \in [Workers -> RequestType] /\ RequestsKnown'
    <2>1. CASE IsLocked(c)
      <3>1. attempts[c].count \in 0..MaxFailures
        BY <1>1 DEF AttemptsTyped
      <3>2. Failed(w, c, attempts[c].count) /\ made' = made
        BY <1>1, <2>1 DEF Login
      <3> QED
        BY <3>1, <3>2, FailedTyped
    <2>2. CASE ~IsLocked(c)
      <3>1. request' = [request EXCEPT ![w] = [Idle EXCEPT !.pc = "verify", !.client = c]]
        BY <2>2 DEF Login
      <3> QED
        BY <1>1, <3>1, NewRequestTyped
    <2> QED
      BY <2>1, <2>2
  <1>3. AttemptsTyped' /\ BlocksTyped' /\ audits' \subseteq Clients \X {"failed", "succeeded"}
    BY <1>1 DEF AttemptsTyped, BlocksTyped
  <1> QED
    BY <1>2, <1>3, TypedParts DEF Typed, TypeOK, AttemptsTyped, BlocksTyped, RequestType

(* A judged attempt keeps the types.                                       *)
LEMMA VerifyTyped ==
  ASSUME Typed, NEW w \in Workers, VerifyWrong(w) \/ VerifyRight(w)
  PROVE  Typed'
  <1> DEFINE c == request[w].client
  <1>1. request[w].pc = "verify"
    BY DEF VerifyWrong, VerifyRight
  <1>2. /\ UNCHANGED << audits, blocks, rules, made, strays, severed >> /\ c \in Clients
        /\ AttemptsTyped /\ BlocksTyped /\ made \in Nat /\ made' \in Nat /\ made <= made'
        /\ audits \subseteq Clients \X {"failed", "succeeded"}
    BY <1>1, TypedParts
    DEF VerifyWrong, VerifyRight, remote, Typed, BlocksTyped, RequestsKnown, Known
  <1> HIDE DEF c
  <1>3. /\ attempts[c].count \in 0..MaxFailures /\ attempts[c].locked \in BOOLEAN
        /\ judged[c].underLock \in Nat /\ judged[c].sinceLock \in Nat
    BY <1>2 DEF AttemptsTyped
  <1>4. CASE VerifyWrong(w)
    <2> DEFINE a == AfterFailure(attempts[c])
    <2>1. /\ attempts[c].count < MaxFailures /\ attempts' = [attempts EXCEPT ![c] = a]
          /\ judged' = [judged EXCEPT ![c] = JudgedAfter(judged[c], attempts[c].locked)]
          /\ Failed(w, c, a.count) /\ made' = made
      BY <1>2, <1>4 DEF VerifyWrong, c
    <2>2. a \in [count : 0..MaxFailures, locked : BOOLEAN] /\ a.count \in 0..MaxFailures
      BY <1>3, <2>1, LoginAssumption DEF AfterFailure
    <2>3. JudgedAfter(judged[c], attempts[c].locked)
            \in [underLock : Nat, sinceLock : Nat, lockedOnce : BOOLEAN]
      <3>1. judged[c] \in [underLock : Nat, sinceLock : Nat, lockedOnce : BOOLEAN]
        BY <1>2 DEF AttemptsTyped
      <3> DEFINE under == IF attempts[c].locked THEN judged[c].underLock + 1 ELSE 0
                 since == IF attempts[c].locked THEN judged[c].sinceLock
                          ELSE judged[c].sinceLock + 1
      <3>2. under \in Nat /\ since \in Nat
        BY <1>3
      <3>3. JudgedAfter(judged[c], attempts[c].locked) =
              [judged[c] EXCEPT !.underLock = under, !.sinceLock = since]
        BY DEF JudgedAfter
      <3> HIDE DEF under, since
      <3> QED
        BY <3>1, <3>2, <3>3
    <2> HIDE DEF a
    <2>4. AttemptsTyped'
      BY <1>2, <2>1, <2>2, <2>3 DEF AttemptsTyped
    <2>5. request' \in [Workers -> RequestType] /\ RequestsKnown'
      BY <1>2, <2>1, <2>2, FailedTyped
    <2> QED
      BY <1>2, <2>4, <2>5, TypedParts
      DEF Typed, TypeOK, AttemptsTyped, BlocksTyped, RequestType
  <1>5. CASE VerifyRight(w)
    <2>1. /\ attempts' = [attempts EXCEPT ![c] = Unfailed]
          /\ judged' = [judged EXCEPT ![c] = Unjudged]
      BY <1>5 DEF VerifyRight, c
    <2>2. AttemptsTyped'
      BY <1>2, <2>1, LoginAssumption DEF AttemptsTyped, Unfailed, Unjudged
    <2> DEFINE r == [request[w] EXCEPT !.pc = "commit", !.audit = SucceededAudit]
    <2>3. request \in [Workers -> RequestType] /\ request[w] \in RequestType
          /\ request[w].rule <= made
      BY TypedParts DEF Typed, RequestsKnown, Known
    <2>4. request' = [request EXCEPT ![w] = r]
      BY <1>5, <2>3 DEF VerifyRight
    <2>5. r \in RequestType /\ r.pc = "commit" /\ r.client = c /\ r.rule = request[w].rule
      BY <2>3 DEF RequestType, SucceededAudit, Steps, c
    <2> HIDE DEF r
    <2>6. Known(r, made')
      BY <1>2, <2>3, <2>5 DEF Known
    <2>7. request' \in [Workers -> RequestType] /\ RequestsKnown'
      BY <1>2, <2>4, <2>5, <2>6, RequestTyped
    <2> QED
      BY <1>2, <2>2, <2>7, TypedParts
      DEF Typed, TypeOK, AttemptsTyped, BlocksTyped, RequestType
  <1> QED
    BY <1>4, <1>5

(* The end of a lockout keeps the types.                                   *)
LEMMA LockoutTyped ==
  ASSUME Typed, NEW c \in Clients, LockoutEnds(c)
  PROVE  Typed'
  <1>1. /\ UNCHANGED << request, audits, blocks, rules, made, strays, severed >>
        /\ AttemptsTyped
    BY TypedParts DEF LockoutEnds, remote, Typed
  <1>2. Expired(attempts[c]) \in [count : 0..MaxFailures, locked : BOOLEAN]
    BY <1>1 DEF AttemptsTyped, Expired
  <1>3. AttemptsTyped'
    BY <1>1, <1>2 DEF AttemptsTyped, LockoutEnds
  <1> QED
    BY <1>1, <1>3 DEF Typed, TypeOK, RequestsKnown, AttemptsTyped

(* The steps of a request beside its login keep the types.                 *)
LEMMA BlockTyped ==
  ASSUME Typed, NEW w \in Workers,
         \/ Commit(w) \/ FindBlock(w) \/ CreateRule(w) \/ StoreBlock(w)
         \/ DeleteRule(w) \/ RemoveRow(w)
  PROVE  Typed'
  <1>1. /\ AttemptsTyped /\ BlocksTyped /\ UNCHANGED << attempts, judged >>
        /\ request \in [Workers -> RequestType] /\ request[w] \in RequestType
        /\ audits \subseteq Clients \X {"failed", "succeeded"}
        /\ made \in Nat /\ made <= MaxRules /\ MaxRules \in Nat
    BY TypedParts, LoginAssumption
    DEF Typed, BlocksTyped, logins, Commit, FindBlock, CreateRule, StoreBlock, DeleteRule, RemoveRow
  <1>2. /\ request[w].pc \in {"commit", "find", "create", "store", "delete", "remove"}
        /\ request[w].pc # "idle"
    BY DEF Commit, FindBlock, CreateRule, StoreBlock, DeleteRule, RemoveRow
  <1>3. /\ Known(request[w], made) /\ request[w].client \in Clients
        /\ request[w].rule <= made /\ request[w].rule \in Nat
    BY <1>1, <1>2 DEF Typed, RequestsKnown, RequestType, Known
  <1>4. AttemptsTyped'
    BY <1>1 DEF AttemptsTyped
  <1>5. Committed(request[w]) \subseteq Clients \X {"failed", "succeeded"}
    BY <1>2, CommittedType
  <1>7. ASSUME BlocksTyped', audits' \subseteq Clients \X {"failed", "succeeded"},
               request' \in [Workers -> RequestType], RequestsKnown'
        PROVE  Typed'
    BY <1>4, <1>7 DEF Typed, TypeOK, AttemptsTyped, BlocksTyped, RequestType
  <1>8. CASE Commit(w)
    <2>1. Done(w) /\ UNCHANGED << blocks, rules, made, strays, severed >>
          /\ (audits' = Committed(request[w]) \/ audits' = audits)
      BY <1>8 DEF Commit, remote
    <2>2. request' \in [Workers -> RequestType] /\ RequestsKnown'
      BY <1>1, <2>1, DoneTyped
    <2>3. BlocksTyped'
      BY <1>1, <2>1 DEF BlocksTyped
    <2> QED
      BY <1>1, <1>5, <1>7, <2>1, <2>2, <2>3
  <1>9. CASE FindBlock(w)
    <2>1. UNCHANGED << audits, blocks, rules, made, strays, severed >>
      BY <1>9 DEF FindBlock, remote
    <2>2. request' \in [Workers -> RequestType] /\ RequestsKnown'
      <3>1. \/ request' = [request EXCEPT ![w] = [request[w] EXCEPT !.pc = "create"]]
            \/ WithoutBlock(w)
        BY <1>9 DEF FindBlock
      <3> QED
        BY <1>1, <1>2, <2>1, <3>1, GoesOnTyped, WithoutBlockTyped
    <2>3. BlocksTyped'
      BY <1>1, <2>1 DEF BlocksTyped
    <2> QED
      BY <1>1, <1>7, <2>1, <2>2, <2>3
  <1>10. CASE CreateRule(w)
    <2>1. /\ UNCHANGED << audits, blocks, severed >> /\ request[w].pc = "create"
          /\ \/ /\ MakesRule(w) /\ strays' = strays
                /\ request' = [request EXCEPT ![w].pc = "store", ![w].rule = made + 1]
             \/ MakesRule(w) /\ strays' = strays \union {made + 1} /\ WithoutBlock(w)
             \/ WithoutBlock(w) /\ UNCHANGED << rules, made, strays >>
      BY <1>10 DEF CreateRule
    <2>2. ASSUME MakesRule(w)
          PROVE  /\ made' = made + 1 /\ made' \in 0..MaxRules /\ made' \in 1..MaxRules
                 /\ rules' \subseteq [id : 1..made', ip : Clients]
      <3>1. made' = made + 1 /\ made < MaxRules
            /\ rules' = rules \union {[id |-> made + 1, ip |-> request[w].client]}
        BY <2>2 DEF MakesRule
      <3>2. made' \in 0..MaxRules /\ made' \in 1..MaxRules /\ 1..made \subseteq 1..made'
        BY <1>1, <3>1
      <3>3. rules \subseteq [id : 1..made', ip : Clients]
        BY <1>1, <3>2 DEF BlocksTyped
      <3>4. made + 1 \in 1..made'
        BY <1>1, <3>1
      <3> QED
        BY <1>3, <3>1, <3>2, <3>3, <3>4
    <2>3. BlocksTyped'
      <3>1. CASE MakesRule(w)
        <4>1. 1..made \subseteq 1..made' /\ made + 1 \in 1..made'
          BY <1>1, <2>2, <3>1
        <4>2. blocks \subseteq [ip : Clients, rule : 1..made', source : {"automatic", "manual"},
                                failures : 0..MaxFailures]
          BY <1>1, <4>1 DEF BlocksTyped
        <4> QED
          BY <1>1, <2>1, <2>2, <3>1, <4>1, <4>2 DEF BlocksTyped
      <3>2. CASE UNCHANGED << rules, made, strays >>
        BY <1>1, <2>1, <3>2 DEF BlocksTyped
      <3> QED
        BY <2>1, <3>1, <3>2
    <2>4. request' \in [Workers -> RequestType] /\ RequestsKnown'
      <3>1. made' \in Nat /\ made <= made'
        BY <1>1, <2>1, <2>2
      <3>2. CASE WithoutBlock(w)
        BY <1>2, <3>1, <3>2, WithoutBlockTyped
      <3>3. CASE /\ MakesRule(w)
                 /\ request' = [request EXCEPT ![w].pc = "store", ![w].rule = made + 1]
        <4> DEFINE r == [request[w] EXCEPT !.pc = "store", !.rule = made + 1]
        <4>1. made + 1 \in 0..MaxRules /\ made' = made + 1
          BY <2>2, <3>3
        <4>2. r \in RequestType /\ r.pc = "store" /\ r.client = request[w].client /\ r.rule = made + 1
          BY <1>1, <4>1 DEF RequestType, Steps
        <4>3. request' = [request EXCEPT ![w] = r]
          BY <1>1, <3>3
        <4> HIDE DEF r
        <4>4. Known(r, made')
          BY <1>1, <1>3, <4>1, <4>2 DEF Known
        <4> QED
          BY <3>1, <4>2, <4>3, <4>4, RequestTyped
      <3> QED
        BY <2>1, <3>2, <3>3
    <2> QED
      BY <1>1, <1>7, <2>1, <2>3, <2>4
  <1>11. CASE StoreBlock(w)
    <2>1. /\ Done(w) /\ UNCHANGED << rules, made, severed >> /\ request[w].pc = "store"
          /\ \/ /\ blocks' = blocks \union
                    {[ip |-> request[w].client, rule |-> request[w].rule,
                      source |-> request[w].source, failures |-> request[w].count]}
                /\ audits' = Committed(request[w]) /\ strays' = strays
             \/ strays' = strays \union {request[w].rule} /\ UNCHANGED << blocks, audits >>
      BY <1>11 DEF StoreBlock, StoredWithBlock
    <2>2. request' \in [Workers -> RequestType] /\ RequestsKnown'
      BY <1>1, <2>1, DoneTyped
    <2>3. request[w].rule \in 1..made /\ request[w].rule \in 1..MaxRules
      BY <1>1, <1>3, <2>1 DEF Known
    <2>4. [ip |-> request[w].client, rule |-> request[w].rule,
           source |-> request[w].source, failures |-> request[w].count]
             \in [ip : Clients, rule : 1..made, source : {"automatic", "manual"},
                  failures : 0..MaxFailures]
      BY <1>1, <1>3, <2>3 DEF RequestType
    <2>5. BlocksTyped'
      BY <1>1, <2>1, <2>3, <2>4 DEF BlocksTyped
    <2> QED
      BY <1>1, <1>5, <1>7, <2>1, <2>2, <2>5
  <1>12. CASE DeleteRule(w)
    <2>1. /\ UNCHANGED << audits, blocks, made, strays >> /\ request[w].pc = "delete"
          /\ rules' = Left(w) \/ rules' = rules
          /\ severed' = severed \/ severed' = severed \union {request[w].rule}
          /\ request' = [request EXCEPT ![w].pc = "remove"] \/ Done(w)
      BY <1>12 DEF DeleteRule, RemovedWithRequest
    <2>2. request' \in [Workers -> RequestType] /\ RequestsKnown'
      <3>1. CASE Done(w)
        BY <1>1, <2>1, <3>1, DoneTyped
      <3>2. CASE request' = [request EXCEPT ![w].pc = "remove"]
        <4>1. request' = [request EXCEPT ![w] = [request[w] EXCEPT !.pc = "remove"]]
          BY <3>2
        <4>2. made' \in Nat /\ made <= made'
          BY <1>1, <2>1
        <4>3. "remove" \in {"commit", "create", "remove"}
          OBVIOUS
        <4> QED
          BY <1>2, <2>1, <4>1, <4>2, <4>3, GoesOnTyped
      <3> QED
        BY <2>1, <3>1, <3>2
    <2>3. request[w].rule \in 1..made
      BY <1>1, <1>3, <2>1 DEF Known
    <2>4. BlocksTyped'
      BY <1>1, <2>1, <2>3 DEF BlocksTyped, Left
    <2> QED
      BY <1>1, <1>7, <2>1, <2>2, <2>4
  <1>13. CASE RemoveRow(w)
    <2>1. /\ Done(w) /\ UNCHANGED << audits, rules, made, strays >> /\ request[w].pc = "remove"
          /\ blocks' \subseteq blocks
          /\ severed' = severed \/ severed' = severed \union {request[w].rule}
      BY <1>13 DEF RemoveRow
    <2>2. request' \in [Workers -> RequestType] /\ RequestsKnown'
      BY <1>1, <2>1, DoneTyped
    <2>3. request[w].rule \in 1..made
      BY <1>1, <1>3, <2>1 DEF Known
    <2>4. BlocksTyped'
      BY <1>1, <2>1, <2>3 DEF BlocksTyped
    <2> QED
      BY <1>1, <1>7, <2>1, <2>2, <2>4
  <1> QED
    BY <1>8, <1>9, <1>10, <1>11, <1>12, <1>13

(* A form that sets or lifts a block keeps the types.                      *)
LEMMA FormTyped ==
  ASSUME Typed, NEW w \in Workers, NEW c \in Clients, BlockForm(w, c) \/ Unblock(w, c)
  PROVE  Typed'
  <1>1. /\ UNCHANGED << attempts, judged, audits, blocks, rules, made, strays, severed >>
    BY DEF BlockForm, Unblock, logins, remote
  <1>0. /\ AttemptsTyped /\ BlocksTyped /\ made \in Nat /\ made <= MaxRules
        /\ MaxRules \in Nat /\ audits \subseteq Clients \X {"failed", "succeeded"}
    BY TypedParts, LoginAssumption DEF Typed, BlocksTyped
  <1>2. request' \in [Workers -> RequestType] /\ RequestsKnown'
    <2>1. CASE BlockForm(w, c)
      <3>1. request' = [request EXCEPT ![w] = [Idle EXCEPT !.pc = "find", !.client = c]]
        BY <2>1 DEF BlockForm
      <3> QED
        BY <1>0, <1>1, <3>1, NewRequestTyped
    <2>2. CASE Unblock(w, c)
      <3>1. PICK b \in BlocksOf(c) :
              request' = [request EXCEPT ![w] = [Idle EXCEPT !.pc = "delete", !.client = c,
                                                             !.rule = b.rule]]
        BY <2>2 DEF Unblock
      <3>2. PICK id \in 0..MaxRules : id = b.rule /\ id \in 1..made
        <4>1. b.rule \in 1..made /\ b.rule \in 0..MaxRules
          BY <1>0 DEF BlocksOf, BlocksTyped
        <4> QED
          BY <4>1
      <3> DEFINE r == [Idle EXCEPT !.pc = "delete", !.client = c, !.rule = id]
      <3>3. r \in RequestType /\ r.pc = "delete" /\ r.client = c /\ r.rule = id
        BY AskedRuleType
      <3>4. request' = [request EXCEPT ![w] = r]
        BY <3>1, <3>2
      <3> HIDE DEF r
      <3>5. Known(r, made') /\ made' \in Nat /\ made <= made'
        BY <1>0, <1>1, <3>2, <3>3 DEF Known
      <3> QED
        BY <3>3, <3>4, <3>5, RequestTyped
    <2> QED
      BY <2>1, <2>2
  <1>3. AttemptsTyped' /\ BlocksTyped' /\ audits' \subseteq Clients \X {"failed", "succeeded"}
    BY <1>0, <1>1 DEF AttemptsTyped, BlocksTyped
  <1> QED
    BY <1>2, <1>3, TypedParts DEF Typed, TypeOK, AttemptsTyped, BlocksTyped, RequestType

(* A restart keeps the types.                                              *)
LEMMA RestartTyped ==
  ASSUME Typed, Restart
  PROVE  Typed'
  <1>1. /\ UNCHANGED << audits, blocks, rules, made >> /\ request' = [w \in Workers |-> Idle]
        /\ attempts' = [c \in Clients |-> Unfailed] /\ judged' = [c \in Clients |-> Unjudged]
        /\ BlocksTyped /\ request \in [Workers -> RequestType] /\ made \in Nat
        /\ audits \subseteq Clients \X {"failed", "succeeded"}
    BY TypedParts, LoginAssumption DEF Restart, Typed, BlocksTyped
  <1>2. ASSUME NEW w \in Workers, request[w].pc \in {"store", "remove"}
        PROVE  request[w].rule \in 1..made
    BY <1>1, <1>2 DEF Typed, RequestsKnown, Known, RequestType
  <1>3. strays' \subseteq 1..made /\ severed' \subseteq 1..made
    BY <1>1, <1>2 DEF Restart, BlocksTyped
  <1>4. BlocksTyped'
    BY <1>1, <1>3 DEF BlocksTyped
  <1>5. AttemptsTyped'
    BY <1>1, LoginAssumption DEF AttemptsTyped, Unfailed, Unjudged
  <1>6. request' \in [Workers -> RequestType] /\ RequestsKnown'
    BY <1>1, IdleType DEF RequestsKnown, Known
  <1> QED
    BY <1>1, <1>4, <1>5, <1>6 DEF Typed, TypeOK, AttemptsTyped, BlocksTyped, RequestType

(* Every step keeps the types.                                             *)
LEMMA StepTyped == Typed /\ [Next]_vars => Typed'
  <1> SUFFICES ASSUME Typed, [Next]_vars PROVE Typed'
    OBVIOUS
  <1>1. CASE UNCHANGED vars
    BY <1>1 DEF vars, Typed, TypeOK, RequestsKnown
  <1>2. CASE Next
    BY <1>2, LoginTyped, VerifyTyped, LockoutTyped, BlockTyped, FormTyped, RestartTyped DEF Next
  <1> QED
    BY <1>1, <1>2

(* Type correctness.                                                       *)
THEOREM LoginsTypeCorrect == Spec => []TypeOK
  <1>1. Typed => TypeOK
    BY DEF Typed
  <1> QED
    BY <1>1, InitTyped, StepTyped, PTL DEF Spec

-----------------------------------------------------------------------------
(* The count outlives the lock.                                            *)

Counting ==
  \A c \in Clients :
    /\ attempts[c].locked \/ judged[c].lockedOnce => attempts[c].count >= MaxAttempts
    /\ ~ attempts[c].locked /\ judged[c].lockedOnce => judged[c].sinceLock = 0
    /\ ~ attempts[c].locked /\ ~ judged[c].lockedOnce =>
         judged[c].sinceLock = attempts[c].count /\ attempts[c].count < MaxAttempts

(* What an attempt that is judged wrong makes of the count.                *)
LEMMA VerifyWrongCounts ==
  ASSUME Typed, NEW w \in Workers, VerifyWrong(w)
  PROVE  LET c == request[w].client
             n == IF attempts[c].locked THEN attempts[c].count ELSE attempts[c].count + 1
         IN /\ c \in Clients /\ attempts[c].count \in Nat /\ attempts[c].locked \in BOOLEAN
            /\ \A d \in Clients \ {c} : attempts'[d] = attempts[d] /\ judged'[d] = judged[d]
            /\ attempts'[c].count = n
            /\ (attempts'[c].locked <=> attempts[c].locked \/ n >= MaxAttempts)
            /\ (judged'[c].lockedOnce <=> judged[c].lockedOnce)
            /\ judged'[c].sinceLock = IF attempts[c].locked THEN judged[c].sinceLock
                                      ELSE judged[c].sinceLock + 1
            /\ judged'[c].underLock = IF attempts[c].locked THEN judged[c].underLock + 1 ELSE 0
  <1> DEFINE c == request[w].client
  <1>1. c \in Clients
    BY DEF VerifyWrong, Typed, RequestsKnown, Known
  <1>2. AttemptsTyped
    BY TypedParts DEF Typed
  <1>3. /\ attempts' = [attempts EXCEPT ![c] = AfterFailure(attempts[c])]
        /\ judged' = [judged EXCEPT ![c] = JudgedAfter(judged[c], attempts[c].locked)]
    BY DEF VerifyWrong
  <1> HIDE DEF c
  <1>4. /\ attempts'[c] = AfterFailure(attempts[c])
        /\ judged'[c] = JudgedAfter(judged[c], attempts[c].locked)
        /\ \A d \in Clients \ {c} : attempts'[d] = attempts[d] /\ judged'[d] = judged[d]
    BY <1>1, <1>2, <1>3 DEF AttemptsTyped
  <1>5. attempts[c].count \in Nat /\ attempts[c].locked \in BOOLEAN
    BY <1>1, <1>2, LoginAssumption DEF AttemptsTyped
  <1> DEFINE n    == IF attempts[c].locked THEN attempts[c].count ELSE attempts[c].count + 1
             lock == attempts[c].locked \/ n >= MaxAttempts
  <1>6. attempts'[c].count = n /\ (attempts'[c].locked <=> lock)
    <2>1. attempts'[c] = [count |-> n, locked |-> lock]
      BY <1>4 DEF AfterFailure
    <2> HIDE DEF n, lock
    <2> QED
      BY <2>1
  <1>7. judged[c] \in [underLock : Nat, sinceLock : Nat, lockedOnce : BOOLEAN]
    BY <1>1, <1>2 DEF AttemptsTyped
  <1>8. /\ (judged'[c].lockedOnce <=> judged[c].lockedOnce)
        /\ judged'[c].sinceLock = IF attempts[c].locked THEN judged[c].sinceLock
                                  ELSE judged[c].sinceLock + 1
        /\ judged'[c].underLock = IF attempts[c].locked THEN judged[c].underLock + 1 ELSE 0
    BY <1>4, <1>7 DEF JudgedAfter
  <1> QED
    BY <1>1, <1>4, <1>5, <1>6, <1>8 DEF c

(* The steps that leave counts and locks alone, or start them anew.        *)
LEMMA LoginSteps ==
  ASSUME Typed, [Next]_vars
  PROVE  \/ UNCHANGED logins
         \/ \E w \in Workers : VerifyWrong(w) \/ VerifyRight(w)
         \/ \E c \in Clients : LockoutEnds(c)
         \/ Restart
  BY DEF Next, vars, logins, Login, BlockForm, Unblock, Commit, FindBlock, CreateRule, StoreBlock,
         DeleteRule, RemoveRow

(* A success starts a client anew.                                         *)
LEMMA VerifyRightCounts ==
  ASSUME Typed, NEW w \in Workers, VerifyRight(w)
  PROVE  LET c == request[w].client
         IN /\ c \in Clients
            /\ \A d \in Clients \ {c} : attempts'[d] = attempts[d] /\ judged'[d] = judged[d]
            /\ attempts'[c] = Unfailed /\ judged'[c] = Unjudged
  <1>1. request[w].client \in Clients /\ AttemptsTyped
    BY TypedParts DEF VerifyRight, Typed, RequestsKnown, Known
  <1> QED
    BY <1>1 DEF VerifyRight, AttemptsTyped

(* The end of a lockout keeps the count.                                   *)
LEMMA LockoutCounts ==
  ASSUME Typed, NEW c \in Clients, LockoutEnds(c)
  PROVE  /\ \A d \in Clients \ {c} : attempts'[d] = attempts[d] /\ judged'[d] = judged[d]
         /\ attempts[c].locked /\ ~ attempts'[c].locked
         /\ attempts'[c].count = attempts[c].count
         /\ judged'[c] = [underLock |-> 0, sinceLock |-> 0, lockedOnce |-> TRUE]
  <1>1. AttemptsTyped
    BY TypedParts DEF Typed
  <1>2. attempts[c] \in [count : 0..MaxFailures, locked : BOOLEAN]
    BY <1>1 DEF AttemptsTyped
  <1>3. attempts' = [attempts EXCEPT ![c] = Expired(attempts[c])] /\ attempts[c].locked
    BY DEF LockoutEnds
  <1>4. judged' = [judged EXCEPT ![c] = [underLock |-> 0, sinceLock |-> 0, lockedOnce |-> TRUE]]
    BY DEF LockoutEnds
  <1>5. attempts'[c] = Expired(attempts[c])
    BY <1>1, <1>3 DEF AttemptsTyped
  <1> QED
    BY <1>1, <1>2, <1>3, <1>4, <1>5 DEF AttemptsTyped, Expired

(* Every step keeps the count in line with the lock.                       *)
LEMMA CountingStep == Typed /\ Counting /\ [Next]_vars => Counting'
  <1> SUFFICES ASSUME Typed, Counting, [Next]_vars PROVE Counting'
    OBVIOUS
  <1>1. CASE UNCHANGED logins
    BY <1>1 DEF Counting, logins
  <1>2. ASSUME NEW w \in Workers, VerifyWrong(w) PROVE Counting'
    <2> DEFINE c == request[w].client
    <2>1. c \in Clients
      BY <1>2, VerifyWrongCounts
    <2> DEFINE n == IF attempts[c].locked THEN attempts[c].count ELSE attempts[c].count + 1
    <2>2. /\ attempts[c].count \in Nat /\ attempts[c].locked \in BOOLEAN
          /\ \A d \in Clients \ {c} : attempts'[d] = attempts[d] /\ judged'[d] = judged[d]
          /\ attempts'[c].count = n
          /\ (attempts'[c].locked <=> attempts[c].locked \/ n >= MaxAttempts)
          /\ (judged'[c].lockedOnce <=> judged[c].lockedOnce)
          /\ judged'[c].sinceLock = IF attempts[c].locked THEN judged[c].sinceLock
                                    ELSE judged[c].sinceLock + 1
      BY <1>2, VerifyWrongCounts
    <2> HIDE DEF c
    <2>3. /\ attempts'[c].locked \/ judged'[c].lockedOnce => attempts'[c].count >= MaxAttempts
          /\ ~ attempts'[c].locked /\ judged'[c].lockedOnce => judged'[c].sinceLock = 0
          /\ ~ attempts'[c].locked /\ ~ judged'[c].lockedOnce =>
               judged'[c].sinceLock = attempts'[c].count /\ attempts'[c].count < MaxAttempts
      BY <2>1, <2>2, LoginAssumption DEF Counting
    <2> QED
      BY <2>2, <2>3 DEF Counting
  <1>3. ASSUME NEW w \in Workers, VerifyRight(w) PROVE Counting'
    BY <1>3, VerifyRightCounts, LoginAssumption DEF Counting, Unfailed, Unjudged
  <1>4. ASSUME NEW c \in Clients, LockoutEnds(c) PROVE Counting'
    BY <1>4, LockoutCounts DEF Counting
  <1>5. CASE Restart
    BY <1>5, LoginAssumption DEF Restart, Counting, Unfailed, Unjudged
  <1> QED
    BY <1>1, <1>2, <1>3, <1>4, <1>5, LoginSteps

(* Between two lockouts lies one failed attempt, and before the first      *)
(* fewer than the limit.                                                   *)
THEOREM LockoutsRepeat == Spec => []LocksAgainAtOnce
  <1>1. Init => Counting
    BY LoginAssumption DEF Init, Counting, Unfailed, Unjudged
  <1>2. Typed /\ Counting => LocksAgainAtOnce
    BY LoginAssumption DEF Counting, LocksAgainAtOnce
  <1> QED
    BY <1>1, <1>2, InitTyped, StepTyped, CountingStep, PTL DEF Spec

-----------------------------------------------------------------------------
(* Threads between the look-up of the lock and the judgement.              *)

Verifying(c) == {w \in Workers : request[w].pc = "verify" /\ request[w].client = c}

(* A client's share of the invariant.                                      *)
Overlap(c) ==
  IF attempts[c].locked
  THEN judged[c].underLock + Cardinality(Verifying(c)) < Cardinality(Workers)
  ELSE judged[c].underLock = 0

Overlaps == \A c \in Clients : Overlap(c)

Asks(w) == \E c \in Clients : Login(w, c) \/ BlockForm(w, c) \/ Unblock(w, c)

Works(w) ==
  \/ VerifyWrong(w) \/ VerifyRight(w) \/ Commit(w) \/ FindBlock(w) \/ CreateRule(w)
  \/ StoreBlock(w) \/ DeleteRule(w) \/ RemoveRow(w)

(* A step of one thread leaves the requests of the others alone.           *)
LEMMA OneThread ==
  ASSUME Typed, NEW w \in Workers, Asks(w) \/ Works(w)
  PROVE  \A v \in Workers \ {w} : request'[v] = request[v]
  <1>1. request \in [Workers -> RequestType]
    BY TypedParts DEF Typed
  <1>2. CASE Asks(w)
    BY <1>1, <1>2 DEF Asks, Login, BlockForm, Unblock, Failed
  <1>3. CASE Works(w)
    BY <1>1, <1>3 DEF Works, VerifyWrong, VerifyRight, Commit, FindBlock, CreateRule, StoreBlock,
                      DeleteRule, RemoveRow, Failed, Done, WithoutBlock
  <1> QED
    BY <1>2, <1>3

(* A failed attempt waits for no judgement.                                *)
LEMMA FailedAsks ==
  ASSUME Typed, NEW w \in Workers, NEW c, NEW n, Failed(w, c, n)
  PROVE  request'[w].pc \in {"find", "commit"}
  <1> DEFINE step == IF Blocks(c, n) THEN "find" ELSE "commit"
             r  == [pc |-> step, client |-> c, source |-> "automatic", count |-> n,
                    audit |-> FailedAudit, rule |-> NoRule]
  <1>1. request \in [Workers -> RequestType]
    BY TypedParts DEF Typed
  <1>2. request' = [request EXCEPT ![w] = r]
    BY DEF Failed
  <1>3. step \in {"find", "commit"}
    OBVIOUS
  <1> HIDE DEF step
  <1> QED
    BY <1>1, <1>2, <1>3

(* A request to lift a block is about its rule.                            *)
LEMMA UnblockAsks ==
  ASSUME Typed, NEW w \in Workers, NEW c \in Clients, Unblock(w, c)
  PROVE  /\ request'[w].pc = "delete" /\ request'[w].client = c
         /\ \E b \in blocks : b.ip = c /\ b.rule = request'[w].rule
  <1>1. request \in [Workers -> RequestType] /\ BlocksTyped
    BY TypedParts DEF Typed
  <1>2. PICK b \in BlocksOf(c) :
          request' = [request EXCEPT ![w] = [Idle EXCEPT !.pc = "delete", !.client = c,
                                                         !.rule = b.rule]]
    BY DEF Unblock
  <1>3. PICK id \in 0..MaxRules : id = b.rule
    <2>1. b.rule \in 1..made
      BY <1>1, <1>2 DEF BlocksOf, BlocksTyped
    <2>2. made <= MaxRules /\ made \in Nat /\ MaxRules \in Nat
      BY <1>1, LoginAssumption DEF BlocksTyped
    <2>3. b.rule \in 0..MaxRules
      BY <2>1, <2>2
    <2> QED
      BY <2>3
  <1> DEFINE r == [Idle EXCEPT !.pc = "delete", !.client = c, !.rule = id]
  <1>4. r.pc = "delete" /\ r.client = c /\ r.rule = id
    BY AskedRuleType
  <1>5. request'[w] = r
    BY <1>1, <1>2, <1>3
  <1> HIDE DEF r
  <1> QED
    BY <1>3, <1>4, <1>5 DEF BlocksOf

(* Only a login whose address is not locked waits to be judged.            *)
LEMMA AsksToVerify ==
  ASSUME Typed, NEW w \in Workers, Asks(w) \/ Works(w), request'[w].pc = "verify"
  PROVE  ~ attempts[request'[w].client].locked
  <1>1. request \in [Workers -> RequestType]
    BY TypedParts DEF Typed
  <1>2. CASE Asks(w)
    <2>1. ASSUME NEW c \in Clients, BlockForm(w, c) \/ Unblock(w, c) PROVE FALSE
      <3>1. CASE BlockForm(w, c)
        <4>1. request' = [request EXCEPT ![w] = [Idle EXCEPT !.pc = "find", !.client = c]]
          BY <3>1 DEF BlockForm
        <4>2. request'[w].pc = "find"
          BY <1>1, <4>1, AskedType
        <4> QED
          BY <4>2
      <3>2. CASE Unblock(w, c)
        BY <3>2, UnblockAsks
      <3> QED
        BY <2>1, <3>1, <3>2
    <2>2. ASSUME NEW c \in Clients, Login(w, c) PROVE ~ attempts[request'[w].client].locked
      <3>1. CASE IsLocked(c)
        <4>1. Failed(w, c, attempts[c].count)
          BY <2>2, <3>1 DEF Login
        <4> QED
          BY <4>1, FailedAsks
      <3>2. CASE ~ IsLocked(c)
        <4>1. request'[w] = [Idle EXCEPT !.pc = "verify", !.client = c]
          BY <1>1, <2>2, <3>2 DEF Login
        <4>2. request'[w].client = c
          BY <4>1, IdleType DEF RequestType
        <4> QED
          BY <3>2, <4>2 DEF IsLocked
      <3> QED
        BY <3>1, <3>2
    <2> QED
      BY <1>2, <2>1, <2>2 DEF Asks
  <1>3. CASE Works(w)
    <2>1. \/ Done(w) \/ WithoutBlock(w)
          \/ \E c \in {request[w].client}, n \in {AfterFailure(attempts[request[w].client]).count} :
               Failed(w, c, n)
          \/ request'[w].pc \in {"commit", "create", "store", "remove"}
      BY <1>1, <1>3 DEF Works, VerifyWrong, VerifyRight, Commit, FindBlock, CreateRule, StoreBlock,
                        DeleteRule, RemoveRow, RequestType
    <2>2. request'[w].pc # "verify"
      BY <1>1, <2>1, IdleType DEF Done, WithoutBlock, Failed, RequestType
    <2> QED
      BY <2>2
  <1> QED
    BY <1>2, <1>3

(* Under a lock no thread joins those that wait for their judgement.       *)
LEMMA VerifyingStep ==
  ASSUME Typed, [Next]_vars, NEW c \in Clients, attempts[c].locked
  PROVE  Verifying(c)' \subseteq Verifying(c)
  <1> SUFFICES ASSUME NEW v \in Workers, request'[v].pc = "verify", request'[v].client = c
               PROVE  request[v].pc = "verify" /\ request[v].client = c
    BY DEF Verifying
  <1>1. CASE UNCHANGED request
    BY <1>1
  <1>2. ASSUME NEW w \in Workers, Asks(w) \/ Works(w) PROVE request'[v] = request[v]
    BY <1>2, OneThread, AsksToVerify
  <1>3. CASE Restart
    BY <1>3, IdleType DEF Restart
  <1>4. \/ UNCHANGED request \/ Restart \/ \E w \in Workers : Asks(w) \/ Works(w)
    BY DEF Next, vars, LockoutEnds, Asks, Works
  <1> QED
    BY <1>1, <1>2, <1>3, <1>4

(* Every step keeps their number below that of the threads.                *)
LEMMA OverlapsStep == Typed /\ Overlaps /\ [Next]_vars => Overlaps'
  <1> SUFFICES ASSUME Typed, Overlaps, [Next]_vars PROVE Overlaps'
    OBVIOUS
  <1>1. /\ IsFiniteSet(Workers) /\ Cardinality(Workers) \in Nat
        /\ \A S \in SUBSET Workers : IsFiniteSet(S) /\ Cardinality(S) \in Nat
      BY LoginAssumption, FS_Subset, FS_CardinalityType
  <1>2. \A S \in SUBSET Workers : \A T \in SUBSET S : Cardinality(T) <= Cardinality(S)
    BY <1>1, FS_Subset
  <1>3. \A c \in Clients : Verifying(c) \in SUBSET Workers /\ Verifying(c)' \in SUBSET Workers
    BY DEF Verifying
  <1>4. \A c \in Clients : judged[c].underLock \in Nat /\ attempts[c].locked \in BOOLEAN
    BY TypedParts DEF Typed, AttemptsTyped
  <1>5. ASSUME NEW c \in Clients, attempts[c].locked
        PROVE  Cardinality(Verifying(c)') <= Cardinality(Verifying(c))
    BY <1>2, <1>3, <1>5, VerifyingStep
  <1>6. ASSUME NEW c \in Clients, attempts'[c] = attempts[c], judged'[c] = judged[c]
        PROVE  Overlap(c)'
    BY <1>1, <1>3, <1>4, <1>5, <1>6 DEF Overlaps, Overlap
  <1>7. CASE UNCHANGED logins
    BY <1>6, <1>7 DEF Overlaps, logins
  <1>8. ASSUME NEW w \in Workers, VerifyWrong(w) PROVE Overlaps'
    <2>0. PICK c \in Clients : c = request[w].client
      BY <1>8, VerifyWrongCounts
    <2>1. /\ c \in Clients /\ request[w].pc = "verify"
          /\ \A d \in Clients \ {c} : attempts'[d] = attempts[d] /\ judged'[d] = judged[d]
          /\ judged'[c].underLock = IF attempts[c].locked THEN judged[c].underLock + 1 ELSE 0
      BY <1>8, <2>0, VerifyWrongCounts DEF VerifyWrong
    <2>2. w \in Verifying(c) /\ w \notin Verifying(c)'
      <3>1. request'[w].pc # "verify"
        <4>1. Failed(w, c, AfterFailure(attempts[c]).count)
          BY <1>8, <2>0 DEF VerifyWrong
        <4> QED
          BY <4>1, FailedAsks
      <3> QED
        BY <2>0, <2>1, <3>1 DEF Verifying
    <2>3. Overlap(c)'
      <3>1. CASE attempts[c].locked
        <4>1. Verifying(c)' \subseteq Verifying(c) \ {w}
          BY <2>1, <2>2, <3>1, VerifyingStep
        <4>2. Cardinality(Verifying(c) \ {w}) = Cardinality(Verifying(c)) - 1
          BY <1>1, <1>3, <2>1, <2>2, FS_RemoveElement
        <4>3. Verifying(c) \ {w} \in SUBSET Workers
          BY <1>3, <2>1
        <4>4. Cardinality(Verifying(c)') <= Cardinality(Verifying(c)) - 1
          BY <1>2, <4>1, <4>2, <4>3
        <4>5. attempts'[c].locked
          BY <1>8, <2>0, <3>1, VerifyWrongCounts
        <4> QED
          BY <1>1, <1>3, <1>4, <2>1, <3>1, <4>4, <4>5 DEF Overlaps, Overlap
      <3>2. CASE ~ attempts[c].locked
        <4>1. Verifying(c)' \subseteq Workers \ {w}
          BY <1>3, <2>1, <2>2
        <4>2. Cardinality(Workers \ {w}) = Cardinality(Workers) - 1
          BY <1>1, FS_RemoveElement
        <4>3. Cardinality(Verifying(c)') <= Cardinality(Workers) - 1
          BY <1>2, <4>1, <4>2
        <4>4. Cardinality(Verifying(c)') \in Nat
          BY <1>1, <1>3, <2>1
        <4> QED
          BY <1>1, <2>1, <3>2, <4>3, <4>4 DEF Overlap
      <3> QED
        BY <3>1, <3>2
    <2> QED
      <3>1. ASSUME NEW d \in Clients \ {c} PROVE Overlap(d)'
        BY <1>6, <2>1
      <3> QED
        BY <2>3, <3>1 DEF Overlaps
  <1>9. ASSUME NEW w \in Workers, VerifyRight(w) PROVE Overlaps'
    <2>1. PICK c \in Clients : c = request[w].client
      BY <1>9, VerifyRightCounts
    <2>2. attempts'[c] = Unfailed /\ judged'[c] = Unjudged
      BY <1>9, <2>1, VerifyRightCounts
    <2>3. Overlap(c)'
      BY <2>2 DEF Overlap, Unfailed, Unjudged
    <2>4. ASSUME NEW d \in Clients \ {c} PROVE Overlap(d)'
      BY <1>6, <1>9, <2>1, VerifyRightCounts
    <2> QED
      BY <2>3, <2>4 DEF Overlaps
  <1>10. ASSUME NEW c \in Clients, LockoutEnds(c) PROVE Overlaps'
    <2>1. Overlap(c)'
      BY <1>10, LockoutCounts DEF Overlap
    <2>2. ASSUME NEW d \in Clients \ {c} PROVE Overlap(d)'
      BY <1>6, <1>10, LockoutCounts
    <2> QED
      BY <2>1, <2>2 DEF Overlaps
  <1>11. CASE Restart
    BY <1>11 DEF Restart, Overlaps, Overlap, Unfailed, Unjudged
  <1> QED
    BY <1>7, <1>8, <1>9, <1>10, <1>11, LoginSteps

(* Under a lock fewer attempts are judged than there are threads.          *)
THEOREM LockBinds == Spec => []FewJudgedUnderLock
  <1>1. Init => Overlaps
    BY DEF Init, Overlaps, Overlap, Unfailed, Unjudged
  <1>2. Typed /\ Overlaps => FewJudgedUnderLock
    <2>1. Cardinality(Workers) \in Nat \ {0}
      BY LoginAssumption, FS_CardinalityType, FS_EmptySet
    <2>2. \A c \in Clients : Cardinality(Verifying(c)) \in Nat
      BY LoginAssumption, FS_Subset, FS_CardinalityType DEF Verifying
    <2>3. Typed => \A c \in Clients : judged[c].underLock \in Nat
      BY TypedParts DEF Typed, AttemptsTyped
    <2> QED
      BY <2>1, <2>2, <2>3 DEF Overlaps, Overlap, FewJudgedUnderLock
  <1> QED
    BY <1>1, <1>2, InitTyped, StepTyped, OverlapsStep, PTL DEF Spec

-----------------------------------------------------------------------------
(* Rules at Cloudflare and their rows.                                     *)

(* A rule whose row is to go is gone; a rule whose row is to be stored is  *)
(* there, no row has it, and no other thread is about to.                  *)
Removed == \A w \in Workers : request[w].pc = "remove" => \A r \in rules : r.id # request[w].rule

Stored ==
  \A w \in Workers : request[w].pc = "store" =>
    /\ [id |-> request[w].rule, ip |-> request[w].client] \in rules
    /\ \A b \in blocks : b.rule # request[w].rule

Apart ==
  \A v, w \in Workers :
    v # w /\ request[v].pc = "store" /\ request[w].pc \in {"store", "delete", "remove"} =>
      request[v].rule # request[w].rule

Handed == Removed /\ Stored /\ Apart

(* Which steps change the tables, and what a thread that stores or removes *)
(* a row does next.                                                        *)
LEMMA TableSteps ==
  ASSUME NEW w \in Workers, Asks(w) \/ Works(w)
  PROVE  /\ strays \subseteq strays' /\ severed \subseteq severed' /\ audits \subseteq audits'
         /\ UNCHANGED blocks \/ StoreBlock(w) \/ RemoveRow(w)
         /\ UNCHANGED rules \/ DeleteRule(w) \/ (CreateRule(w) /\ MakesRule(w))
         /\ request[w].pc = "store" => StoreBlock(w)
         /\ request[w].pc = "remove" => RemoveRow(w)
  <1>1. CASE Asks(w)
    BY <1>1 DEF Asks, Login, BlockForm, Unblock, remote
  <1>2. CASE Works(w)
    BY <1>2 DEF Works, VerifyWrong, VerifyRight, Commit, FindBlock, CreateRule, StoreBlock,
                DeleteRule, RemoveRow, RemovedWithRequest, StoredWithBlock, Committed, remote
  <1> QED
    BY <1>1, <1>2

(* How a thread comes to store, delete or remove.                          *)
LEMMA Moves ==
  ASSUME Typed, NEW w \in Workers, Asks(w) \/ Works(w),
         request'[w].pc \in {"store", "delete", "remove"}
  PROVE  \/ /\ request'[w].pc = "store" /\ CreateRule(w) /\ MakesRule(w)
            /\ request'[w].client = request[w].client /\ request'[w].rule = made + 1
         \/ /\ request'[w].pc = "delete" /\ UNCHANGED << rules, blocks >>
            /\ \E b \in blocks : b.rule = request'[w].rule
         \/ /\ request'[w].pc = "remove" /\ DeleteRule(w) /\ rules' = Left(w)
            /\ request[w].pc = "delete" /\ request'[w].rule = request[w].rule
  <1>1. request \in [Workers -> RequestType] /\ request[w] \in RequestType
    BY TypedParts DEF Typed
  <1>2. ASSUME NEW c \in Clients, Login(w, c) PROVE FALSE
    <2>1. CASE IsLocked(c)
      <3>1. Failed(w, c, attempts[c].count)
        BY <1>2, <2>1 DEF Login
      <3>2. request'[w].pc \in {"find", "commit"}
        BY <3>1, FailedAsks
      <3> QED
        BY <3>2
    <2>2. CASE ~ IsLocked(c)
      <3>1. request' = [request EXCEPT ![w] = [Idle EXCEPT !.pc = "verify", !.client = c]]
        BY <1>2, <2>2 DEF Login
      <3>2. request'[w].pc = "verify"
        BY <1>1, <3>1, AskedType
      <3> QED
        BY <3>2
    <2> QED
      BY <2>1, <2>2
  <1>3. ASSUME NEW c \in Clients, BlockForm(w, c) PROVE FALSE
    <2>1. request' = [request EXCEPT ![w] = [Idle EXCEPT !.pc = "find", !.client = c]]
      BY <1>3 DEF BlockForm
    <2>2. request'[w].pc = "find"
      BY <1>1, <2>1, AskedType
    <2> QED
      BY <2>2
  <1>4. ASSUME NEW c \in Clients, Unblock(w, c)
        PROVE  /\ request'[w].pc = "delete" /\ UNCHANGED << rules, blocks >>
               /\ \E b \in blocks : b.rule = request'[w].rule
    BY <1>4, UnblockAsks DEF Unblock, remote
  <1>5. ASSUME VerifyWrong(w) PROVE FALSE
    <2>1. Failed(w, request[w].client, AfterFailure(attempts[request[w].client]).count)
      BY <1>5 DEF VerifyWrong
    <2>2. request'[w].pc \in {"find", "commit"}
      BY <2>1, FailedAsks
    <2> QED
      BY <2>2
  <1>6. ASSUME VerifyRight(w) PROVE FALSE
    <2>1. request'[w].pc = "commit"
      BY <1>1, <1>6 DEF VerifyRight, RequestType
    <2> QED
      BY <2>1
  <1>7. ASSUME Done(w) \/ WithoutBlock(w) PROVE FALSE
    <2>1. request'[w].pc \in {"idle", "commit"}
      BY <1>1, <1>7, IdleType DEF Done, WithoutBlock, RequestType
    <2> QED
      BY <2>1
  <1>8. ASSUME FindBlock(w) PROVE FALSE
    <2>1. WithoutBlock(w) \/ request' = [request EXCEPT ![w].pc = "create"]
      BY <1>8 DEF FindBlock
    <2>2. ~ WithoutBlock(w)
      BY <1>7
    <2>3. request'[w].pc = "create"
      BY <1>1, <2>1, <2>2 DEF RequestType
    <2> QED
      BY <2>3
  <1>9. ASSUME Commit(w) \/ StoreBlock(w) \/ RemoveRow(w) PROVE FALSE
    BY <1>7, <1>9 DEF Commit, StoreBlock, RemoveRow
  <1>10. ASSUME CreateRule(w)
         PROVE  /\ request'[w].pc = "store" /\ MakesRule(w)
                /\ request'[w].client = request[w].client /\ request'[w].rule = made + 1
    <2>1. /\ MakesRule(w)
          /\ request' = [request EXCEPT ![w].pc = "store", ![w].rule = made + 1]
      BY <1>7, <1>10 DEF CreateRule
    <2>2. request'[w] = [request[w] EXCEPT !.pc = "store", !.rule = made + 1]
      BY <1>1, <2>1
    <2> QED
      BY <1>1, <2>1, <2>2 DEF RequestType
  <1>11. ASSUME DeleteRule(w)
         PROVE  /\ request'[w].pc = "remove" /\ rules' = Left(w)
                /\ request[w].pc = "delete" /\ request'[w].rule = request[w].rule
    <2>1. /\ request[w].pc = "delete" /\ rules' = Left(w)
          /\ request' = [request EXCEPT ![w].pc = "remove"]
      BY <1>7, <1>11 DEF DeleteRule
    <2> QED
      BY <1>1, <2>1 DEF RequestType
  <1> QED
    BY <1>2, <1>3, <1>4, <1>5, <1>6, <1>8, <1>9, <1>10, <1>11 DEF Asks, Works

(* A step of one thread keeps who has which rule.                          *)
LEMMA HandedThread ==
  ASSUME Typed, Handed, NEW w \in Workers, Asks(w) \/ Works(w)
  PROVE  Handed'
  <1>1. /\ \A v \in Workers \ {w} : request'[v] = request[v]
        /\ \A v \in Workers : request[v].rule \in Nat /\ request[v].rule <= made
        /\ made \in Nat
        /\ \A b \in blocks : b.rule \in Nat /\ b.rule <= made
        /\ \A r \in rules : r.id \in Nat /\ r.id <= made
    BY OneThread, TypedParts DEF Typed, RequestsKnown, Known, RequestType, BlocksTyped
  <1>2. \/ UNCHANGED rules
        \/ request[w].pc = "delete" /\ rules' \subseteq rules
             /\ \A r \in rules : r.id # request[w].rule => r \in rules'
        \/ rules' = rules \union {[id |-> made + 1, ip |-> request[w].client]}
    BY TableSteps DEF DeleteRule, CreateRule, MakesRule, Left
  <1>3. Removed'
    <2> SUFFICES ASSUME NEW v \in Workers, request'[v].pc = "remove", NEW r \in rules'
                 PROVE  r.id # request'[v].rule
      BY DEF Removed
    <2>1. CASE v = w
      BY <2>1, Moves DEF Left
    <2>2. CASE v # w
      BY <1>1, <1>2, <2>2 DEF Handed, Removed
    <2> QED
      BY <2>1, <2>2
  <1>4. Stored'
    <2> SUFFICES ASSUME NEW v \in Workers, request'[v].pc = "store"
                 PROVE  /\ [id |-> request'[v].rule, ip |-> request'[v].client] \in rules'
                        /\ \A b \in blocks' : b.rule # request'[v].rule
      BY DEF Stored
    <2>1. CASE v = w
      <3>1. /\ CreateRule(w) /\ MakesRule(w)
            /\ request'[v].client = request[w].client /\ request'[v].rule = made + 1
        BY <2>1, Moves
      <3> QED
        BY <1>1, <3>1 DEF CreateRule, MakesRule
    <2>2. CASE v # w
      <3>1. request'[v] = request[v] /\ request[v].pc = "store"
        BY <1>1, <2>2
      <3>2. request[w].pc \in {"store", "delete"} => request[w].rule # request[v].rule
        BY <2>2, <3>1 DEF Handed, Apart
      <3>3. [id |-> request[v].rule, ip |-> request[v].client] \in rules'
        BY <1>2, <3>1, <3>2 DEF Handed, Stored
      <3>4. \A b \in blocks' : b \in blocks \/ (request[w].pc = "store" /\ b.rule = request[w].rule)
        BY TableSteps DEF StoreBlock, RemoveRow
      <3> QED
        BY <3>1, <3>2, <3>3, <3>4 DEF Handed, Stored
    <2> QED
      BY <2>1, <2>2
  <1>5. Apart'
    <2> SUFFICES ASSUME NEW v \in Workers, NEW u \in Workers, v # u, request'[v].pc = "store",
                        request'[u].pc \in {"store", "delete", "remove"}
                 PROVE  request'[v].rule # request'[u].rule
      BY DEF Apart
    <2>1. CASE v = w
      <3>1. request'[v].rule = made + 1
        BY <2>1, Moves
      <3> QED
        BY <1>1, <2>1, <3>1
    <2>2. CASE u = w
      <3>1. request'[v] = request[v] /\ request[v].rule <= made
        BY <1>1, <2>2
      <3>2. CASE request'[u].pc = "store"
        <4>1. request'[u].rule = made + 1
          BY <2>2, <3>2, Moves
        <4> QED
          BY <1>1, <3>1, <4>1
      <3>3. CASE request'[u].pc = "delete"
        <4>1. \E b \in blocks : b.rule = request'[u].rule
          BY <2>2, <3>3, Moves
        <4> QED
          BY <3>1, <4>1 DEF Handed, Stored
      <3>4. CASE request'[u].pc = "remove"
        <4>1. request[u].pc = "delete" /\ request'[u].rule = request[u].rule
          BY <2>2, <3>4, Moves
        <4> QED
          BY <3>1, <4>1 DEF Handed, Apart
      <3> QED
        BY <3>2, <3>3, <3>4
    <2>3. CASE v # w /\ u # w
      <3>1. request'[v] = request[v] /\ request'[u] = request[u]
        BY <1>1, <2>3
      <3> QED
        BY <3>1 DEF Handed, Apart
    <2> QED
      BY <2>1, <2>2, <2>3
  <1> QED
    BY <1>3, <1>4, <1>5 DEF Handed

(* What is not a step of one thread: the end of a lockout, a restart.      *)
LEMMA Others ==
  ASSUME [Next]_vars
  PROVE  \/ \E w \in Workers : Asks(w) \/ Works(w)
         \/ UNCHANGED << request, audits, blocks, rules, made, strays, severed >>
         \/ Restart
  BY DEF Next, vars, LockoutEnds, Asks, Works, remote

(* Every step keeps it.                                                    *)
LEMMA HandedStep == Typed /\ Handed /\ [Next]_vars => Handed'
  <1> SUFFICES ASSUME Typed, Handed, [Next]_vars PROVE Handed'
    OBVIOUS
  <1>1. CASE UNCHANGED << request, audits, blocks, rules, made, strays, severed >>
    BY <1>1 DEF Handed, Removed, Stored, Apart
  <1>2. CASE Restart
    BY <1>2, IdleType DEF Restart, Handed, Removed, Stored, Apart
  <1> QED
    BY <1>1, <1>2, Others, HandedThread

(* No rule is left at Cloudflare that the application does not know of,    *)
(* but those whose answer or whose row was lost when they were made.       *)
LEMMA KnownStep == Typed /\ Handed /\ RulesAreKnown /\ [Next]_vars => RulesAreKnown'
  <1> SUFFICES ASSUME Typed, Handed, RulesAreKnown, [Next]_vars, NEW r \in rules'
               PROVE  \/ \E b \in blocks' : b.rule = r.id
                      \/ \E w \in Workers : request'[w].pc = "store" /\ request'[w].rule = r.id
                      \/ r.id \in strays'
    BY DEF RulesAreKnown
  <1>1. CASE UNCHANGED << request, audits, blocks, rules, made, strays, severed >>
    BY <1>1 DEF RulesAreKnown
  <1>2. CASE Restart
    BY <1>2 DEF Restart, RulesAreKnown
  <1>3. ASSUME NEW w \in Workers, Asks(w) \/ Works(w)
        PROVE  \/ \E b \in blocks' : b.rule = r.id
               \/ \E v \in Workers : request'[v].pc = "store" /\ request'[v].rule = r.id
               \/ r.id \in strays'
    <2>1. CASE r \notin rules
      <3>1. CreateRule(w) /\ MakesRule(w) /\ r.id = made + 1
        BY <1>3, <2>1, TableSteps DEF MakesRule, DeleteRule, Left
      <3>2. made # made + 1
        BY TypedParts DEF Typed, BlocksTyped
      <3>3. CASE request'[w].pc = "store"
        <4>1. request'[w].rule = made + 1
          BY <1>3, <3>3, Moves
        <4> QED
          BY <3>1, <3>3, <4>1
      <3>4. CASE strays' = strays \union {made + 1}
        BY <3>1, <3>4
      <3>5. request'[w].pc = "store" \/ strays' = strays \union {made + 1}
        <4>1. request \in [Workers -> RequestType]
          BY TypedParts DEF Typed
        <4>2. made' # made
          BY <3>1, <3>2 DEF MakesRule
        <4> QED
          BY <3>1, <4>1, <4>2 DEF CreateRule, RequestType
      <3> QED
        BY <3>3, <3>4, <3>5
    <2>2. CASE \E b \in blocks : r \in rules /\ b.rule = r.id
      <3>1. PICK b \in blocks : b.rule = r.id
        BY <2>2
      <3>2. b \in blocks'
        <4>1. CASE RemoveRow(w)
          <5>1. request[w].rule # r.id
            BY <2>2, <4>1 DEF RemoveRow, Handed, Removed
          <5> QED
            BY <3>1, <4>1, <5>1 DEF RemoveRow
        <4>2. CASE ~ RemoveRow(w)
          BY <1>3, <4>2, TableSteps DEF StoreBlock
        <4> QED
          BY <4>1, <4>2
      <3> QED
        BY <3>1, <3>2
    <2>3. CASE \E v \in Workers : request[v].pc = "store" /\ request[v].rule = r.id
      <3>1. PICK v \in Workers : request[v].pc = "store" /\ request[v].rule = r.id
        BY <2>3
      <3>2. CASE v = w
        <4>1. StoreBlock(w)
          BY <1>3, <3>1, <3>2, TableSteps
        <4>2. \/ \E b \in blocks' : b.rule = request[w].rule
              \/ request[w].rule \in strays'
          <5> DEFINE b == [ip |-> request[w].client, rule |-> request[w].rule,
                           source |-> request[w].source, failures |-> request[w].count]
          <5>1. b \in blocks' \/ request[w].rule \in strays'
            BY <4>1 DEF StoreBlock
          <5>2. b.rule = request[w].rule
            OBVIOUS
          <5> QED
            BY <5>1, <5>2
        <4> QED
          BY <3>1, <3>2, <4>2
      <3>3. CASE v # w
        BY <1>3, <3>1, <3>3, OneThread
      <3> QED
        BY <3>2, <3>3
    <2>4. CASE r.id \in strays
      BY <1>3, <2>4, TableSteps
    <2> QED
      BY <2>1, <2>2, <2>3, <2>4 DEF RulesAreKnown
  <1> QED
    BY <1>1, <1>2, <1>3, Others

(* A row shown as an active block has its rule, unless its removal is      *)
(* under way or its end was lost.                                          *)
LEMMA RowsStep == Typed /\ Handed /\ RowsHaveRules /\ [Next]_vars => RowsHaveRules'
  <1> SUFFICES ASSUME Typed, Handed, RowsHaveRules, [Next]_vars, NEW b \in blocks'
               PROVE  \/ \E r \in rules' : r.id = b.rule /\ r.ip = b.ip
                      \/ \E w \in Workers : request'[w].pc = "remove" /\ request'[w].rule = b.rule
                      \/ b.rule \in severed'
    BY DEF RowsHaveRules
  <1>1. CASE UNCHANGED << request, audits, blocks, rules, made, strays, severed >>
    BY <1>1 DEF RowsHaveRules
  <1>2. CASE Restart
    BY <1>2 DEF Restart, RowsHaveRules
  <1>3. ASSUME NEW w \in Workers, Asks(w) \/ Works(w)
        PROVE  \/ \E r \in rules' : r.id = b.rule /\ r.ip = b.ip
               \/ \E v \in Workers : request'[v].pc = "remove" /\ request'[v].rule = b.rule
               \/ b.rule \in severed'
    <2>1. CASE b \notin blocks
      <3>1. /\ StoreBlock(w) /\ request[w].pc = "store" /\ rules' = rules
            /\ b.rule = request[w].rule /\ b.ip = request[w].client
        BY <1>3, <2>1, TableSteps DEF StoreBlock, RemoveRow
      <3>2. [id |-> b.rule, ip |-> b.ip] \in rules
        BY <3>1 DEF Handed, Stored
      <3> QED
        BY <3>1, <3>2
    <2>2. CASE \E r \in rules : r.id = b.rule /\ r.ip = b.ip
      <3>1. PICK r \in rules : r.id = b.rule /\ r.ip = b.ip
        BY <2>2
      <3>2. CASE r \in rules'
        BY <3>1, <3>2
      <3>3. CASE r \notin rules'
        <4>1. /\ DeleteRule(w) /\ request[w].rule = b.rule /\ rules' = Left(w)
          BY <1>3, <3>1, <3>3, TableSteps DEF MakesRule, DeleteRule, Left
        <4>2. \/ b.rule \in severed' \/ request' = [request EXCEPT ![w].pc = "remove"]
          BY <3>1, <3>3, <4>1 DEF DeleteRule
        <4>3. request[w] \in RequestType /\ request \in [Workers -> RequestType]
          BY TypedParts DEF Typed
        <4>4. CASE request' = [request EXCEPT ![w].pc = "remove"]
          <5>1. request'[w].pc = "remove" /\ request'[w].rule = request[w].rule
            BY <4>3, <4>4 DEF RequestType
          <5> QED
            BY <4>1, <5>1
        <4> QED
          BY <4>2, <4>4
      <3> QED
        BY <3>2, <3>3
    <2>3. CASE b \in blocks /\ \E v \in Workers : request[v].pc = "remove" /\ request[v].rule = b.rule
      <3>1. PICK v \in Workers : request[v].pc = "remove" /\ request[v].rule = b.rule
        BY <2>3
      <3>2. CASE v = w
        <4>1. RemoveRow(w)
          BY <1>3, <3>1, <3>2, TableSteps
        <4> QED
          BY <2>3, <3>1, <3>2, <4>1 DEF RemoveRow
      <3>3. CASE v # w
        BY <1>3, <3>1, <3>3, OneThread
      <3> QED
        BY <3>2, <3>3
    <2>4. CASE b.rule \in severed
      BY <1>3, <2>4, TableSteps
    <2> QED
      BY <2>1, <2>2, <2>3, <2>4 DEF RowsHaveRules
  <1> QED
    BY <1>1, <1>2, <1>3, Others

(* The application knows the rules at Cloudflare: what a user lifts is     *)
(* lifted, whatever other threads do with it at once.                      *)
THEOREM NoForgottenRules == Spec => []RulesAreKnown
  <1>1. Init => Handed /\ RulesAreKnown
    BY DEF Init, Idle, Handed, Removed, Stored, Apart, RulesAreKnown
  <1> QED
    BY <1>1, InitTyped, StepTyped, HandedStep, KnownStep, PTL DEF Spec

(* The blocks the application shows are blocks at Cloudflare.              *)
THEOREM ShownBlocksBlock == Spec => []RowsHaveRules
  <1>1. Init => Handed /\ RowsHaveRules
    BY DEF Init, Idle, Handed, Removed, Stored, Apart, RowsHaveRules
  <1> QED
    BY <1>1, InitTyped, StepTyped, HandedStep, RowsStep, PTL DEF Spec

-----------------------------------------------------------------------------
(* Blocks set by themselves.                                               *)

(* A request that blocks by itself has the failures it takes, and carries  *)
(* the audit row of the attempt.                                           *)
Earned ==
  \A w \in Workers :
    request[w].source = "automatic" /\ request[w].pc \in {"find", "create", "store"} =>
      request[w].count >= BlockAfter /\ request[w].audit = "failed"

(* A failed attempt earns its block, or asks for none.                     *)
LEMMA FailedEarns ==
  ASSUME Typed, NEW w \in Workers, NEW c, NEW n, Failed(w, c, n)
  PROVE  request'[w].pc = "commit" \/ (request'[w].count >= BlockAfter /\ request'[w].audit = "failed")
  <1> DEFINE step == IF Blocks(c, n) THEN "find" ELSE "commit"
             r  == [pc |-> step, client |-> c, source |-> "automatic", count |-> n,
                    audit |-> FailedAudit, rule |-> NoRule]
  <1>1. request \in [Workers -> RequestType]
    BY TypedParts DEF Typed
  <1>2. request' = [request EXCEPT ![w] = r]
    BY DEF Failed
  <1>3. step = "commit" \/ n >= BlockAfter
    BY DEF Blocks
  <1> HIDE DEF step
  <1> QED
    BY <1>1, <1>2, <1>3 DEF FailedAudit

(* A thread's step keeps it.                                               *)
LEMMA EarnedThread ==
  ASSUME Typed, Earned, NEW w \in Workers, Asks(w) \/ Works(w)
  PROVE  Earned'
  <1>1. request \in [Workers -> RequestType] /\ request[w] \in RequestType
    BY TypedParts DEF Typed
  <1>2. \A v \in Workers \ {w} : request'[v] = request[v]
    BY OneThread
  <1> SUFFICES ASSUME request'[w].source = "automatic", request'[w].pc \in {"find", "create", "store"}
               PROVE  request'[w].count >= BlockAfter /\ request'[w].audit = "failed"
    BY <1>2 DEF Earned
  <1> DEFINE Goal == request'[w].count >= BlockAfter /\ request'[w].audit = "failed"
  <1>3. ASSUME NEW c \in Clients, Login(w, c) PROVE Goal
    <2>1. CASE IsLocked(c)
      <3>1. Failed(w, c, attempts[c].count)
        BY <1>3, <2>1 DEF Login
      <3> QED
        BY <3>1, FailedEarns
    <2>2. CASE ~ IsLocked(c)
      <3>1. request' = [request EXCEPT ![w] = [Idle EXCEPT !.pc = "verify", !.client = c]]
        BY <1>3, <2>2 DEF Login
      <3>2. request'[w].pc = "verify"
        BY <1>1, <3>1, AskedType
      <3> QED
        BY <3>2
    <2> QED
      BY <2>1, <2>2
  <1>4. ASSUME NEW c \in Clients, BlockForm(w, c) PROVE FALSE
    <2> DEFINE r == [Idle EXCEPT !.pc = "find", !.client = c]
    <2>1. request'[w] = r
      BY <1>1, <1>4 DEF BlockForm
    <2>2. r.source = Idle.source
      BY IdleType DEF RequestType
    <2> HIDE DEF r
    <2> QED
      BY <2>1, <2>2 DEF Idle
  <1>5. ASSUME NEW c \in Clients, Unblock(w, c) PROVE FALSE
    BY <1>5, UnblockAsks
  <1>6. ASSUME VerifyWrong(w) PROVE Goal
    <2>1. Failed(w, request[w].client, AfterFailure(attempts[request[w].client]).count)
      BY <1>6 DEF VerifyWrong
    <2> QED
      BY <2>1, FailedEarns
  <1>7. ASSUME VerifyRight(w) PROVE FALSE
    <2>1. request'[w].pc = "commit"
      BY <1>1, <1>7 DEF VerifyRight, RequestType
    <2> QED
      BY <2>1
  <1>8. ASSUME Done(w) \/ WithoutBlock(w) PROVE FALSE
    <2>1. request'[w].pc \in {"idle", "commit"}
      BY <1>1, <1>8, IdleType DEF Done, WithoutBlock, RequestType
    <2> QED
      BY <2>1
  <1>9. ASSUME FindBlock(w) PROVE Goal
    <2>1. request' = [request EXCEPT ![w].pc = "create"] /\ request[w].pc = "find"
      BY <1>8, <1>9 DEF FindBlock
    <2>2. /\ request'[w].source = request[w].source /\ request'[w].count = request[w].count
          /\ request'[w].audit = request[w].audit
      BY <1>1, <2>1 DEF RequestType
    <2> QED
      BY <2>1, <2>2 DEF Earned
  <1>10. ASSUME CreateRule(w) PROVE Goal
    <2>1. /\ request' = [request EXCEPT ![w].pc = "store", ![w].rule = made + 1]
          /\ request[w].pc = "create"
      BY <1>8, <1>10 DEF CreateRule
    <2>2. request'[w] = [request[w] EXCEPT !.pc = "store", !.rule = made + 1]
      BY <1>1, <2>1
    <2>3. /\ request'[w].source = request[w].source /\ request'[w].count = request[w].count
          /\ request'[w].audit = request[w].audit
      BY <1>1, <2>2 DEF RequestType
    <2> QED
      BY <2>1, <2>3 DEF Earned
  <1>11. ASSUME Commit(w) \/ StoreBlock(w) \/ RemoveRow(w) PROVE FALSE
    BY <1>8, <1>11 DEF Commit, StoreBlock, RemoveRow
  <1>12. ASSUME DeleteRule(w) PROVE FALSE
    <2>1. request' = [request EXCEPT ![w].pc = "remove"]
      BY <1>8, <1>12 DEF DeleteRule
    <2>2. request'[w].pc = "remove"
      BY <1>1, <2>1 DEF RequestType
    <2> QED
      BY <2>2
  <1> QED
    BY <1>3, <1>4, <1>5, <1>6, <1>7, <1>9, <1>10, <1>11, <1>12 DEF Asks, Works

(* Every step keeps it, and every block set by itself is earned.           *)
LEMMA EarnedStep == Typed /\ Earned /\ AutoBlockEarned /\ [Next]_vars => (Earned /\ AutoBlockEarned)'
  <1> SUFFICES ASSUME Typed, Earned, AutoBlockEarned, [Next]_vars
               PROVE  Earned' /\ AutoBlockEarned'
    OBVIOUS
  <1>1. CASE UNCHANGED << request, audits, blocks, rules, made, strays, severed >>
    BY <1>1 DEF Earned, AutoBlockEarned
  <1>2. CASE Restart
    BY <1>2 DEF Restart, Idle, Earned, AutoBlockEarned
  <1>3. ASSUME NEW w \in Workers, Asks(w) \/ Works(w) PROVE Earned' /\ AutoBlockEarned'
    <2>1. Earned'
      BY <1>3, EarnedThread
    <2>2. ASSUME NEW b \in blocks', b.source = "automatic"
          PROVE  b.failures >= BlockAfter /\ <<b.ip, "failed">> \in audits'
      <3>1. CASE b \in blocks
        BY <1>3, <2>2, <3>1, TableSteps DEF AutoBlockEarned
      <3>2. CASE b \notin blocks
        <4>1. /\ request[w].pc = "store" /\ audits' = Committed(request[w])
              /\ b = [ip |-> request[w].client, rule |-> request[w].rule,
                      source |-> request[w].source, failures |-> request[w].count]
          BY <1>3, <2>2, <3>2, TableSteps DEF StoreBlock, RemoveRow, StoredWithBlock
        <4>2. /\ b.ip = request[w].client /\ b.source = request[w].source
              /\ b.failures = request[w].count
          BY <4>1
        <4>3. request[w].count >= BlockAfter /\ request[w].audit = "failed"
          BY <2>2, <4>1, <4>2 DEF Earned
        <4> QED
          BY <4>1, <4>2, <4>3 DEF Committed
      <3> QED
        BY <3>1, <3>2
    <2> QED
      BY <2>1, <2>2 DEF AutoBlockEarned
  <1> QED
    BY <1>1, <1>2, <1>3, Others

(* An address is blocked by itself only after that many failures, with     *)
(* the audit row of a refused attempt.                                     *)
THEOREM BlocksAreEarned == Spec => []AutoBlockEarned
  <1>1. Init => Earned /\ AutoBlockEarned
    BY DEF Init, Idle, Earned, AutoBlockEarned
  <1> QED
    BY <1>1, InitTyped, StepTyped, EarnedStep, PTL DEF Spec

-----------------------------------------------------------------------------
(***************************************************************************)
(* The app health monitor, which tells the user of lockouts and blocks     *)
(* among other things, for every set of health states and every bound:     *)
(* theorems of AppHealth.                                                  *)
(***************************************************************************)
(* A message that was sent is what the user was told last; and the clock   *)
(* of high latency started no earlier than the last check that found it    *)
(* low, so that a report with latency in it is of latency that lasted.     *)
MonitorInv ==
  /\ RecordedIsTold
  /\ pc = "sent" => told = report
  /\ elapsed \in {None} \union 0..Sustained
  /\ slowFor \in 0..Sustained
  /\ elapsed <= slowFor
  /\ report \intersect LatencyIssues # {} => slowFor >= Sustained

(* Nothing has been told at the start.                                     *)
LEMMA InitMonitorInv == HealthInit => MonitorInv
BY BoundsAssumption DEF HealthInit, MonitorInv, RecordedIsTold, None, LatencyIssues

(* A check restarts or keeps the clock of latency, and leaves latency to   *)
(* the report only when it has lasted.                                     *)
LEMMA CheckKeepsMonitorInv == ASSUME MonitorInv, CheckHealth PROVE MonitorInv'
<1> DEFINE found == Issues(health)
<1>1. Since(found) \in {None} \union 0..Sustained
  BY BoundsAssumption DEF Since, MonitorInv, None
<1>2. CASE found \intersect LatencyIssues = {}
  <2>1. elapsed' = None /\ slowFor' = 0
    BY <1>2 DEF CheckHealth, Since
  <2>2. Lasting(found) /\ report' = found
    BY <1>2 DEF CheckHealth, Lasting, Since, Tellable
  <2> QED
    BY <2>1, <2>2, <1>2, BoundsAssumption DEF CheckHealth, MonitorInv, RecordedIsTold, None
<1>3. CASE found \intersect LatencyIssues # {}
  <2>1. slowFor' = slowFor /\ elapsed' = Since(found)
    BY <1>3 DEF CheckHealth
  <2>2. elapsed' <= slowFor'
    BY <2>1, <1>3, BoundsAssumption DEF Since, MonitorInv, None
  <2>3. Lasting(found) => slowFor >= Sustained
    BY <1>1, <2>1, <2>2, <1>3, BoundsAssumption DEF Lasting, Since, MonitorInv, None
  <2>4. report' \intersect LatencyIssues # {} => slowFor' >= Sustained
    <3>1. CASE report' = report
      BY <3>1, <2>1 DEF MonitorInv
    <3>2. CASE report' = Tellable(found)
      <4>1. ~Lasting(found) => report' \intersect LatencyIssues = {}
        BY <3>2 DEF Tellable
      <4> QED
        BY <4>1, <2>3, <2>1
    <3> QED
      BY <3>1, <3>2 DEF CheckHealth
  <2> QED
    BY <1>1, <2>1, <2>2, <2>4 DEF CheckHealth, MonitorInv, RecordedIsTold
<1> QED
  BY <1>2, <1>3

(* Message, file and restart: between the message and the write that       *)
(* records it, unrecorded holds.                                           *)
LEMMA NotifyKeepsMonitorInv ==
  ASSUME MonitorInv, Deliver \/ RecordSent \/ RecordSame \/ SendFails
  PROVE  MonitorInv'
<1>1. CASE Deliver
  BY <1>1 DEF Deliver, MonitorInv, RecordedIsTold
<1>2. CASE RecordSent
  BY <1>2 DEF RecordSent, CheckEnds, MonitorInv, RecordedIsTold
<1>3. CASE RecordSame
  <2>1. ~unrecorded => told = report
    BY <1>3 DEF RecordSame, Due, MonitorInv, RecordedIsTold
  <2> QED
    BY <1>3, <2>1 DEF RecordSame, CheckEnds, MonitorInv, RecordedIsTold
<1>4. CASE SendFails
  BY <1>4 DEF SendFails, CheckEnds, MonitorInv, RecordedIsTold
<1> QED
  BY <1>1, <1>2, <1>3, <1>4

(* Accidents lose what is under way and nothing that was told.             *)
LEMMA AccidentsKeepMonitorInv ==
  ASSUME MonitorInv, CheckRaises \/ WriteFails \/ MonitorRestarts
  PROVE  MonitorInv'
<1>1. CASE WriteFails
  BY <1>1 DEF WriteFails, FileLost, CheckEnds, MonitorInv, RecordedIsTold
<1>2. CASE MonitorRestarts
  BY <1>2, BoundsAssumption
  DEF MonitorRestarts, FileLost, MonitorInv, RecordedIsTold, None, LatencyIssues
<1>3. CASE CheckRaises
  BY <1>3 DEF CheckRaises, MonitorInv, RecordedIsTold
<1> QED
  BY <1>1, <1>2, <1>3

(* Time and health change nothing that was recorded.                       *)
LEMMA TimeKeepsMonitorInv == ASSUME MonitorInv, HealthChanges \/ Tick PROVE MonitorInv'
<1>1. CASE HealthChanges
  BY <1>1 DEF HealthChanges, MonitorInv, RecordedIsTold
<1>2. CASE Tick
  <2>1. /\ elapsed' \in {None} \union 0..Sustained
        /\ slowFor' \in 0..Sustained /\ slowFor <= slowFor'
        /\ elapsed' <= slowFor'
    BY <1>2, BoundsAssumption DEF Tick, Longer, MonitorInv, None
  <2> QED
    BY <1>2, <2>1, BoundsAssumption DEF Tick, MonitorInv, RecordedIsTold
<1> QED
  BY <1>1, <1>2

(* The invariant is inductive.                                             *)
LEMMA NextMonitorInv == MonitorInv /\ [HealthNext]_healthVars => MonitorInv'
<1> SUFFICES ASSUME MonitorInv, [HealthNext]_healthVars PROVE MonitorInv'
  OBVIOUS
<1>1. CASE UNCHANGED healthVars
  BY <1>1 DEF healthVars, MonitorInv, RecordedIsTold
<1> QED
  BY <1>1, CheckKeepsMonitorInv, NotifyKeepsMonitorInv, AccidentsKeepMonitorInv, TimeKeepsMonitorInv
  DEF HealthNext

(* It holds in every execution.                                            *)
LEMMA MonitorInvariance == HealthSpec => []MonitorInv
BY InitMonitorInv, NextMonitorInv, PTL DEF HealthSpec

-----------------------------------------------------------------------------
(* What a check reports is among the issues there can be.                  *)
LEMMA TellableType == ASSUME health \in Healths PROVE Tellable(Issues(health)) \subseteq AllIssues
<1>1. Issues(health) \subseteq AllIssues
  BY DEF AllIssues
<1> QED
  BY <1>1 DEF Tellable

(* The next check comes within the interval.                               *)
LEMMA DelayType == \A since \in {None} \union 0..Sustained : Delay(since) \in 0..Interval
BY BoundsAssumption DEF Delay, None

(* One step keeps the types.                                               *)
LEMMA MonitorStepTyped == HealthTypeOK /\ [HealthNext]_healthVars => HealthTypeOK'
<1> SUFFICES ASSUME HealthTypeOK, [HealthNext]_healthVars PROVE HealthTypeOK'
  OBVIOUS
<1>1. CASE HealthChanges
  BY <1>1 DEF HealthChanges, HealthTypeOK
<1>2. CASE Tick
  BY <1>2, BoundsAssumption DEF Tick, Longer, HealthTypeOK, None
<1>3. CASE CheckHealth
  <2>1. elapsed' \in {None} \union 0..Sustained /\ elapsed' = Since(Issues(health))
    BY <1>3, BoundsAssumption DEF CheckHealth, Since, HealthTypeOK, None
  <2>2. slowFor' \in 0..Sustained
    BY <1>3, BoundsAssumption DEF CheckHealth, HealthTypeOK
  <2>3. /\ pc' \in {"wait", "notify", "sent"}
        /\ wait' \in 0..Interval
        /\ report' \subseteq AllIssues
    BY <1>3, <2>1, DelayType, TellableType DEF CheckHealth, HealthTypeOK
  <2> QED
    BY <1>3, <2>1, <2>2, <2>3 DEF CheckHealth, HealthTypeOK
<1>4. CASE Deliver
  BY <1>4 DEF Deliver, HealthTypeOK
<1>5. CASE RecordSent
  BY <1>5, DelayType DEF RecordSent, CheckEnds, HealthTypeOK
<1>6. CASE RecordSame
  BY <1>6, DelayType DEF RecordSame, CheckEnds, HealthTypeOK
<1>7. CASE SendFails
  <2>1. accidents' \in 0..MaxAccidents
    BY <1>7, BoundsAssumption DEF SendFails, HealthTypeOK
  <2>2. pc' = "wait" /\ wait' \in 0..Interval
    BY <1>7, DelayType DEF SendFails, CheckEnds, HealthTypeOK
  <2> QED
    BY <1>7, <2>1, <2>2 DEF SendFails, HealthTypeOK
<1>8. CASE WriteFails
  <2>1. accidents' \in 0..MaxAccidents
    BY <1>8, BoundsAssumption DEF WriteFails, HealthTypeOK
  <2>2. pc' = "wait" /\ wait' \in 0..Interval
    BY <1>8, DelayType DEF WriteFails, CheckEnds, HealthTypeOK
  <2>3. unrecorded' \in BOOLEAN /\ (saved' = saved \/ saved' = {})
    BY <1>8 DEF WriteFails, FileLost, HealthTypeOK
  <2> QED
    BY <1>8, <2>1, <2>2, <2>3 DEF WriteFails, HealthTypeOK
<1>9. CASE MonitorRestarts
  <2>1. health' \in Healths
    BY <1>9, RestartAssumption, Zenon DEF MonitorRestarts, HealthTypeOK
  <2>2. /\ pc' = "wait" /\ wait' = 0 /\ elapsed' = None /\ report' = {} /\ slowFor' = 0
        /\ told' = told /\ accidents' = accidents + 1 /\ accidents < MaxAccidents
        /\ FileLost
    BY <1>9 DEF MonitorRestarts
  <2>3. /\ wait' \in 0..Interval /\ slowFor' \in 0..Sustained
        /\ accidents' \in 0..MaxAccidents
    BY <2>2, BoundsAssumption DEF HealthTypeOK
  <2>4. unrecorded' \in BOOLEAN /\ (saved' = saved \/ saved' = {})
    BY <2>2 DEF FileLost, HealthTypeOK
  <2> QED
    BY <2>1, <2>2, <2>3, <2>4 DEF HealthTypeOK
<1>10. CASE UNCHANGED healthVars
  BY <1>10 DEF healthVars, HealthTypeOK
<1>11. CASE CheckRaises
  <2>1. accidents' \in 0..MaxAccidents
    BY <1>11, BoundsAssumption DEF CheckRaises, HealthTypeOK
  <2> QED
    BY <1>11, <2>1 DEF CheckRaises, HealthTypeOK
<1> QED
  BY <1>1, <1>2, <1>3, <1>4, <1>5, <1>6, <1>7, <1>8, <1>9, <1>10, <1>11 DEF HealthNext

(* The next check is never further away than the interval, and every       *)
(* issue told or recorded is one that can be found.                        *)
THEOREM AppHealthTypeCorrect == HealthSpec => []HealthTypeOK
<1>1. ASSUME HealthInit PROVE HealthTypeOK
  <2>1. /\ wait \in 0..Interval /\ slowFor \in 0..Sustained /\ accidents \in 0..MaxAccidents
    BY <1>1, BoundsAssumption DEF HealthInit
  <2> QED
    BY <1>1, <2>1 DEF HealthInit, HealthTypeOK
<1> QED
  BY <1>1, MonitorStepTyped, PTL DEF HealthSpec

-----------------------------------------------------------------------------
(* The state file holds what the user was told last, unless a failure of a *)
(* message, a write or the process left it without it: what                *)
(* PushoverAppHealthNotifier compares the next issues with.                *)
THEOREM FileFollowsMessages == HealthSpec => []RecordedIsTold
<1>1. MonitorInv => RecordedIsTold
  BY DEF MonitorInv
<1> QED
  BY <1>1, MonitorInvariance, PTL

(* Two messages in a row differ, with that exception.                      *)
THEOREM NoMessageTwice == HealthSpec => NoRepeat
<1>1. MonitorInv /\ Deliver => report # told \/ unrecorded
  BY DEF MonitorInv, Deliver, Due, RecordedIsTold
<1>2. MonitorInv => [Deliver => report # told \/ unrecorded]_healthVars
  BY <1>1
<1> QED
  BY <1>2, MonitorInvariance, PTL DEF NoRepeat

(* A message about latency comes when Sustained has passed since the last  *)
(* check that found latency low, and since the start of the process.       *)
THEOREM LatencyToldWhenSustained == HealthSpec => LatencyNotToldEarly
<1>1. MonitorInv =>
        [Deliver /\ report \intersect LatencyIssues # {} => slowFor >= Sustained]_healthVars
  BY DEF MonitorInv
<1> QED
  BY <1>1, MonitorInvariance, PTL DEF LatencyNotToldEarly
=============================================================================
