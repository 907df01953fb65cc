------------------------------ MODULE Backups ------------------------------
(***************************************************************************)
(* The automatic backups: the scheduler that makes one when the process    *)
(* starts and every six hours behind that, the safety backup an emergency  *)
(* rebuild asks for from a request thread, and the pruning that follows    *)
(* each.  Storage and database may fail at any step and the process may    *)
(* die between any two.                                                    *)
(*                                                                         *)
(* A file is its name: the instant and the reason it carries.  What is in  *)
(* a backup, and restoring one, are not modelled here.                     *)
(***************************************************************************)
EXTENDS Integers, FiniteSetsExt

CONSTANTS
  Recent,          (* AUTOMATIC_RECENT_BACKUPS_TO_KEEP                      *)
  PriorDays,       (* AUTOMATIC_PRIOR_DAILY_BACKUP_DAYS_TO_KEEP             *)
  Interval,        (* AUTOMATIC_BACKUP_INTERVAL_SECONDS, in instants        *)
  DayLength,       (* instants in a local day                               *)
  MaxTime,         (* bound on the clock                                    *)
  MaxEmergencies,  (* bound on emergency rebuilds                           *)
  MaxCrashes,      (* bound on restarts of the process                      *)
  MaxOutages       (* bound on outages of storage or database               *)

ASSUME RetentionAssumption == Recent \in Nat \ {0} /\ PriorDays \in Nat
ASSUME BoundsAssumption ==
  /\ Interval \in Nat \ {0} /\ DayLength \in Nat \ {0} /\ MaxTime \in Nat
  /\ MaxEmergencies \in Nat /\ MaxCrashes \in Nat /\ MaxOutages \in Nat

VARIABLES
  now,          (* wall clock                                               *)
  files,        (* the backups in the backup directory                      *)
  made,         (* history: the backups ever written                        *)
  reason,       (* what the scheduler's next backup is made for             *)
  wake,         (* when it is due                                           *)
  job,          (* per worker: the backup it is making                      *)
  storage,      (* storage and database answer                              *)
  emergencies, crashes, outages    (* how many there were                   *)

vars == << now, files, made, reason, wake, job, storage, emergencies, crashes, outages >>

Workers == {"scheduler", "request"}
Idle    == [pc |-> "idle", file |-> [at |-> 0, reason |-> "startup"]]
DayOf(t) == t \div DayLength

Init ==
  /\ now = 0
  /\ files = {} /\ made = {}
  /\ reason = "startup" /\ wake = 0
  /\ job = [w \in Workers |-> Idle]
  /\ storage = TRUE
  /\ emergencies = 0 /\ crashes = 0 /\ outages = 0

-----------------------------------------------------------------------------
(* A backup takes less than an instant: none begun before the last tick is *)
(* still under way at the next.  The clock stands still at its bound.      *)
Tick ==
  /\ \A w \in Workers : job[w].pc # "idle" => job[w].file.at = now
  /\ now' = Min({now + 1, MaxTime})
  /\ UNCHANGED << files, made, reason, wake, job, storage, emergencies, crashes, outages >>

Begin(w, why) ==
  /\ job[w].pc = "idle"
  /\ job' = [job EXCEPT ![w] = [pc |-> "write", file |-> [at |-> now, reason |-> why]]]

BeginScheduled ==
  /\ now >= wake
  /\ Begin("scheduler", reason)
  /\ UNCHANGED << now, files, made, reason, wake, storage, emergencies, crashes, outages >>

(* The variant ByDefault leaves out the reason.                            *)
EmergencyReasonByDefault == "scheduled"
EmergencyReason          == "emergency"

BeginEmergency ==
  /\ emergencies < MaxEmergencies
  /\ Begin("request", EmergencyReason)
  /\ emergencies' = emergencies + 1
  /\ UNCHANGED << now, files, made, reason, wake, storage, crashes, outages >>

(* The file appears at once, when its temporary copy is renamed.           *)
WriteFile(w) ==
  /\ job[w].pc = "write"
  /\ storage
  /\ files' = files \union {job[w].file}
  /\ made' = made \union {job[w].file}
  /\ job' = [job EXCEPT ![w].pc = "prune"]
  /\ UNCHANGED << now, reason, wake, storage, emergencies, crashes, outages >>

(* Retention: the newest files (any order among those of one second), and  *)
(* the newest of each prior day, days counted from the start of the job.   *)
(* The variants sort oldest first, and count the day itself as the first   *)
(* of the prior days.                                                      *)
NewestSetsUnsorted(n) ==
  {S \in SUBSET files : /\ Cardinality(S) = Min({n, Cardinality(files)})
                        /\ \A f \in S, g \in files \ S : f.at <= g.at}
NewestSets(n) ==
  {S \in SUBSET files : /\ Cardinality(S) = Min({n, Cardinality(files)})
                        /\ \A f \in S, g \in files \ S : g.at <= f.at}

PriorOffByOne(today) == {today - k : k \in 0..(PriorDays - 1)}
Prior(today)         == {today - k : k \in 1..PriorDays}

NewestOf(S) == {f \in S : \A g \in S : g.at <= f.at}
DailyOf(d)  == NewestOf({f \in files : DayOf(f.at) = d})

Retained(today) ==
  {recent \union daily :
     recent \in NewestSets(Recent),
     daily  \in {S \in SUBSET UNION {DailyOf(d) : d \in Prior(today)} :
                   \A d \in Prior(today) : Cardinality(S \intersect DailyOf(d)) =
                                           Min({1, Cardinality(DailyOf(d))})}}

(* The scheduler sleeps for the interval; a failure makes it try again     *)
(* soon, with the reason it had.  The variant Stopping ends its task.      *)
Sleeps(w) ==
  IF w = "scheduler"
  THEN reason' = "scheduled" /\ wake' = now + Interval
  ELSE UNCHANGED << reason, wake >>

(* A file that cannot be deleted, or a directory that cannot be listed, is *)
(* logged: the backup has succeeded.                                       *)
Prune(w) ==
  /\ job[w].pc = "prune"
  /\ \E kept \in Retained(DayOf(job[w].file.at)), undeleted \in SUBSET files :
       /\ storage => undeleted = {}
       /\ files' = kept \union undeleted
  /\ job' = [job EXCEPT ![w] = Idle]
  /\ Sleeps(w)
  /\ UNCHANGED << now, made, storage, emergencies, crashes, outages >>

(* A backup fails before its file is there, or when it cannot be verified. *)
JobFailsStopping(w) ==
  /\ job[w].pc # "idle"
  /\ ~storage
  /\ job' = [job EXCEPT ![w] = Idle]
  /\ wake' = IF w = "scheduler" THEN MaxTime + 1 ELSE wake
  /\ UNCHANGED << now, files, made, reason, storage, emergencies, crashes, outages >>
JobFails(w) ==
  /\ job[w].pc # "idle"
  /\ ~storage
  /\ job' = [job EXCEPT ![w] = Idle]
  /\ UNCHANGED << now, files, made, reason, wake, storage, emergencies, crashes, outages >>

(* The process dies and starts again: a new scheduler begins at once.      *)
Restart ==
  /\ crashes < MaxCrashes
  /\ crashes' = crashes + 1
  /\ job' = [w \in Workers |-> Idle]
  /\ reason' = "startup" /\ wake' = now
  /\ UNCHANGED << now, files, made, storage, emergencies, outages >>

StorageFails ==
  /\ storage /\ outages < MaxOutages
  /\ storage' = FALSE /\ outages' = outages + 1
  /\ UNCHANGED << now, files, made, reason, wake, job, emergencies, crashes >>

StorageRecovers ==
  /\ ~storage
  /\ storage' = TRUE
  /\ UNCHANGED << now, files, made, reason, wake, job, emergencies, crashes, outages >>

JobStep(w) == WriteFile(w) \/ Prune(w) \/ JobFails(w)

Next ==
  \/ Tick
  \/ BeginScheduled \/ BeginEmergency
  \/ \E w \in Workers : JobStep(w)
  \/ Restart \/ StorageFails \/ StorageRecovers

Spec == Init /\ [][Next]_vars

(* The scheduler's task runs on for as long as the process lives; outages  *)
(* end, and they and the restarts are bounded.                             *)
Fairness ==
  /\ WF_vars(BeginScheduled)
  /\ WF_vars(JobStep("scheduler"))
  /\ WF_vars(StorageRecovers)

FairSpec == Spec /\ Fairness

-----------------------------------------------------------------------------
(* Properties.                                                             *)

TypeOK ==
  LET names == [at : 0..MaxTime, reason : {"startup", "scheduled", "emergency"}]
  IN  /\ now \in 0..MaxTime /\ wake \in 0..(MaxTime + Interval)
      /\ files \subseteq made /\ made \subseteq names
      /\ reason \in {"startup", "scheduled"}
      /\ job["scheduler"].file.reason \in {"startup", "scheduled"}
      /\ job["request"] = Idle \/ job["request"].file.reason = "emergency"
      /\ storage \in BOOLEAN

(* The newest backups made are there, whichever worker wrote and pruned    *)
(* and whatever crashed in between: no backup older than one that is gone  *)
(* is among the last Recent.                                               *)
NewestKept ==
  \A f \in made \ files : Cardinality({g \in files : g.at >= f.at}) >= Recent

(* A prior day that had a backup still has one, the last of its day: four  *)
(* restarts in a row do not push the days before out of the directory.     *)
DailyKept ==
  \A k \in 1..PriorDays :
    LET that == {f \in made : DayOf(f.at) = DayOf(now) - k}
    IN  that # {} => NewestOf(that) \intersect files # {}

(* A process that started, or failed to make a backup, makes one once the  *)
(* storage answers.                                                        *)
StartupBackupMade == reason = "startup" ~> reason = "scheduled"
=============================================================================
