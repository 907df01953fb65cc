----------------------------- MODULE AppHealth -----------------------------
(***************************************************************************)
(* The monitor thread that checks the app's health and tells the user by a *)
(* push message when the set of issues has changed.                        *)
(*                                                                         *)
(* What was told last is remembered in a state file: the message is sent   *)
(* first and the file written next, and either may fail or the process die *)
(* in between.  High database latency is told only when it lasts.          *)
(***************************************************************************)
EXTENDS Integers

CONSTANTS
  Healths,      (* what the monitored signals can be                        *)
  Interval,     (* app_health_monitor_interval_seconds, in instants         *)
  Sustained,    (* app_health_db_latency_sustained_seconds, in instants     *)
  MaxAccidents  (* bound on failed messages, writes and checks, and restarts*)

ASSUME HealthsAssumption ==
  Healths \subseteq
    [ database : {"up", "failing", "down"},
      latency  : {"low", "warning", "critical", "unmeasured"},
      disk     : {"ok", "warning", "critical"},
      lockouts : BOOLEAN,
      blocks   : BOOLEAN ]
ASSUME RestartAssumption ==
  \A h \in Healths : [h EXCEPT !.lockouts = FALSE] \in Healths
ASSUME BoundsAssumption ==
  Interval \in Nat \ {0} /\ Sustained \in Nat \ {0} /\ MaxAccidents \in Nat

VARIABLES
  health,      (* the monitored signals                                     *)
  pc,          (* the monitor: waiting, notifying, message sent, or ended   *)
  wait,        (* instants to the next check                                *)
  elapsed,     (* since latency was first found high; None when it is not   *)
  report,      (* the issues to be told                                     *)
  saved,       (* the issues in the state file; {} if it is not readable    *)
  told,        (* history: the issues of the last message that arrived      *)
  unrecorded,  (* history: that message may not be the one in the file      *)
  slowFor,     (* history: instants since a check that found latency low    *)
  accidents    (* how many there were                                       *)

healthVars == << health, pc, wait, elapsed, report, saved, told, unrecorded, slowFor, accidents >>

None == -1

-----------------------------------------------------------------------------
(* The issues a check finds: their keys and severities.  While the         *)
(* database is away nothing is known of its latency, nor of the blocks.    *)
LatencyIssue ==
  [ low |-> {}, warning |-> {"database.latency_warning"},
    critical |-> {"database.latency_critical"}, unmeasured |-> {"database.latency_unavailable"} ]
DiskIssue ==
  [ ok |-> {}, warning |-> {"disk:warning"}, critical |-> {"disk:critical"} ]

Issues(h) ==
  (IF h.database = "down" THEN {"database.unavailable"} ELSE LatencyIssue[h.latency])
  \union {i \in {"health_monitor.database_check_failed"} : h.database = "failing"}
  \union DiskIssue[h.disk]
  \union {i \in {"security.login_lockout"} : h.lockouts}
  \union {i \in {"security.cloudflare_blocks"} : h.blocks /\ h.database = "up"}

(* The issues that are told only when they last.                           *)
LatencyIssues == {"database.latency_warning", "database.latency_critical"}

AllIssues == UNION {Issues(h) : h \in Healths}

HealthInit ==
  /\ health \in Healths
  /\ pc = "wait" /\ wait = 0
  /\ elapsed = None
  /\ report = {}
  /\ saved = {} /\ told = {} /\ unrecorded = FALSE
  /\ slowFor = 0
  /\ accidents = 0

-----------------------------------------------------------------------------
HealthChanges ==
  /\ health' \in Healths \ {health}
  /\ UNCHANGED << pc, wait, elapsed, report, saved, told, unrecorded, slowFor, accidents >>

(* Beyond Sustained no duration is told from a longer one.                 *)
Longer(n) == IF n < Sustained THEN n + 1 ELSE Sustained

Tick ==
  /\ wait' = IF wait > 0 THEN wait - 1 ELSE 0
  /\ elapsed' = IF elapsed = None THEN None ELSE Longer(elapsed)
  /\ slowFor' = Longer(slowFor)
  /\ UNCHANGED << health, pc, report, saved, told, unrecorded, accidents >>

(* The next check comes after the interval, or when the time that latency  *)
(* must last is up.  The variant waits for that time alone.                *)
DelayRemaining(since) == IF since = None THEN Interval ELSE Sustained - since
Delay(since) ==
  IF since = None \/ since >= Sustained \/ Sustained - since > Interval
  THEN Interval
  ELSE Sustained - since

(* The start of high latency, as of a check that found these issues; and   *)
(* what the check leaves to tell.  The variant forgets nothing.            *)
SinceKept(found) ==
  IF elapsed = None /\ found \intersect LatencyIssues # {} THEN 0 ELSE elapsed
Since(found) ==
  IF found \intersect LatencyIssues = {} THEN None
  ELSE IF elapsed = None THEN 0 ELSE elapsed

Lasting(found) == Since(found) = None \/ Since(found) >= Sustained
Tellable(found) == IF Lasting(found) THEN found ELSE found \ LatencyIssues

CheckHealth ==
  /\ pc = "wait" /\ wait = 0
  /\ LET found == Issues(health)
     IN  /\ elapsed' = Since(found)
         /\ slowFor' = IF found \intersect LatencyIssues = {} THEN 0 ELSE slowFor
         /\ IF ~Lasting(found) /\ Tellable(found) = {}
            THEN wait' = Delay(Since(found)) /\ UNCHANGED << pc, report >>
            ELSE pc' = "notify" /\ report' = Tellable(found) /\ UNCHANGED wait
  /\ UNCHANGED << health, saved, told, unrecorded, accidents >>

(* A check that raises while it collects the signals, as when a login      *)
(* changes the table of failed logins while it is counted, ends the thread *)
(* that runs it: only the telling catches its exceptions.                  *)
CheckRaises ==
  /\ pc = "wait" /\ wait = 0
  /\ accidents < MaxAccidents /\ accidents' = accidents + 1
  /\ pc' = "ended"
  /\ UNCHANGED << health, wait, elapsed, report, saved, told, unrecorded, slowFor >>

-----------------------------------------------------------------------------
(* A message is due when the issues differ from those in the file, and     *)
(* when they are gone and the file holds some.  The variants tell every    *)
(* time, and never that the app is healthy again.                          *)
DueAlways   == report # {} \/ \E s \in saved : s # {}
DueDegraded == report # {} /\ saved # {report}
Due ==
  \/ report # {} /\ saved # {report}
  \/ report = {} /\ \E s \in saved : s # {}

CheckEnds == pc' = "wait" /\ wait' = Delay(elapsed)

Deliver ==
  /\ pc = "notify" /\ Due
  /\ told' = report /\ unrecorded' = TRUE
  /\ pc' = "sent"
  /\ UNCHANGED << health, wait, elapsed, report, saved, slowFor, accidents >>

RecordSent ==
  /\ pc = "sent"
  /\ saved' = {report} /\ unrecorded' = FALSE
  /\ CheckEnds
  /\ UNCHANGED << health, elapsed, report, told, slowFor, accidents >>

RecordSame ==
  /\ pc = "notify" /\ ~Due
  /\ saved' = {report}
  /\ CheckEnds
  /\ UNCHANGED << health, elapsed, report, told, unrecorded, slowFor, accidents >>

(* A request that fails may have arrived all the same.  The file is not    *)
(* written: the next check tries again.  The variant writes it.            *)
SendFailsRecorded ==
  /\ pc = "notify" /\ Due
  /\ accidents < MaxAccidents /\ accidents' = accidents + 1
  /\ saved' = {report}
  /\ CheckEnds
  /\ UNCHANGED << health, elapsed, report, told, unrecorded, slowFor >>
SendFails ==
  /\ pc = "notify" /\ Due
  /\ accidents < MaxAccidents /\ accidents' = accidents + 1
  /\ \/ told' = report /\ unrecorded' = TRUE
     \/ UNCHANGED << told, unrecorded >>
  /\ CheckEnds
  /\ UNCHANGED << health, elapsed, report, saved, slowFor >>

Writing == pc = "sent" \/ (pc = "notify" /\ ~Due)

(* The file is opened for writing, which empties it, and then written.     *)
FileLost ==
  \/ UNCHANGED << saved, unrecorded >>
  \/ (Writing /\ saved' = {} /\ unrecorded' = TRUE)

WriteFails ==
  /\ Writing
  /\ accidents < MaxAccidents /\ accidents' = accidents + 1
  /\ FileLost
  /\ CheckEnds
  /\ UNCHANGED << health, elapsed, report, told, slowFor >>

(* A new process checks at once; lockouts were in the old one's memory.    *)
MonitorRestarts ==
  /\ accidents < MaxAccidents /\ accidents' = accidents + 1
  /\ FileLost
  /\ health' = [health EXCEPT !.lockouts = FALSE]
  /\ pc' = "wait" /\ wait' = 0
  /\ elapsed' = None /\ report' = {} /\ slowFor' = 0
  /\ UNCHANGED told

MonitorStep == CheckHealth \/ Deliver \/ RecordSent \/ RecordSame

HealthNext ==
  \/ HealthChanges \/ Tick
  \/ CheckHealth \/ Deliver \/ RecordSent \/ RecordSame
  \/ CheckRaises \/ SendFails \/ WriteFails \/ MonitorRestarts

HealthSpec == HealthInit /\ [][HealthNext]_healthVars

(* Time passes, and the thread runs on for as long as it lives: nothing    *)
(* else blocks it, and nothing is assumed of a thread that has ended.      *)
Fairness == WF_healthVars(Tick) /\ WF_healthVars(MonitorStep)
FairSpec == HealthSpec /\ Fairness

-----------------------------------------------------------------------------
(* Properties.                                                             *)

HealthTypeOK ==
  /\ health \in Healths
  /\ pc \in {"wait", "notify", "sent", "ended"} /\ wait \in 0..Interval
  /\ elapsed \in {None} \union 0..Sustained /\ slowFor \in 0..Sustained
  /\ report \subseteq AllIssues /\ told \subseteq AllIssues
  /\ saved = {} \/ \E s \in SUBSET AllIssues : saved = {s}
  /\ unrecorded \in BOOLEAN
  /\ accidents \in 0..MaxAccidents

(* The state file holds what the user was told last, whatever the order in *)
(* which messages, writes and restarts failed, unless one of them left it  *)
(* without the last message that arrived.                                  *)
RecordedIsTold ==
  ~unrecorded => saved = {told} \/ (saved = {} /\ told = {})

(* The user is not told twice in a row the same, with that exception.      *)
NoRepeat == [][Deliver => report # told \/ unrecorded]_healthVars

(* Latency is not told unless it has been high for the time it must last:  *)
(* within it no check found it low and the process did not start.          *)
LatencyNotToldEarly ==
  [][Deliver /\ report \intersect LatencyIssues # {} => slowFor >= Sustained]_healthVars

(* When health stays as it is, the user comes to know it and is not told   *)
(* anything else: degraded, changed, or restored.  Excepted are a message  *)
(* that is not in the file, and a monitor whose thread has ended: the      *)
(* checks are meant to go on until they are stopped, and do not when one   *)
(* raises.                                                                 *)
ToldWhatHolds ==
  \A h \in Healths :
    <>[](health = h) => <>[](told = Issues(h) \/ unrecorded \/ pc = "ended")
=============================================================================
