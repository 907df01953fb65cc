------------------------- MODULE OdometerProcessor -------------------------
(***************************************************************************)
(* The rolling odometer and the automatic processing pass.                 *)
(*                                                                         *)
(* OwnTracks rows are stored by the HTTP endpoint; a processing pass, run  *)
(* by the endpoint itself after each payload and by a timer thread, folds  *)
(* the rows behind the checkpoint into the odometer anchor, stamps them,   *)
(* regenerates trips day by day (each day commits), and purges old rows.   *)
(* A manual reading overwrites the anchor from a third thread, which does  *)
(* not take the processing lock.                                           *)
(*                                                                         *)
(* A pass works on the objects its session loaded and writes back only the *)
(* columns that differ from what it loaded, at its first commit: that is   *)
(* Flush below.  Miles are in tenths, the precision the code keeps.        *)
(***************************************************************************)
EXTENDS Integers, Sequences, FiniteSetsExt, Functions

CONSTANTS
  Messages,      (* distinct OwnTracks payloads a phone may send            *)
  CapturedAt,    (* [Messages -> time]: the payload's tst                   *)
  MilesBetween,  (* [Messages \X Messages -> Nat]: owntracks_segment_miles  *)
  Transition,    (* the messages that are confirmed waypoint transitions    *)
  Readings,      (* odometer values the user may enter                      *)
  DayLength,     (* instants in a local day                                 *)
  Retention,     (* age, in days, from which processed rows are purged      *)
  LateRows,      (* environment: the phone may deliver queued payloads late *)
  SavesMayRace,  (* environment: a reading may be saved during a pass       *)
  MaxTime,       (* bound on the clock                                      *)
  MaxRows,       (* bound on stored rows                                    *)
  MaxSaves,      (* bound on manual readings                                *)
  MaxFailures    (* bound on failed passes and process crashes              *)

ASSUME CapturedAssumption == CapturedAt \in [Messages -> Nat]
ASSUME MilesAssumption == MilesBetween \in [Messages \X Messages -> Nat]
ASSUME SetsAssumption == Transition \subseteq Messages /\ Readings \subseteq Nat
ASSUME BoundsAssumption ==
  /\ DayLength \in Nat \ {0}
  /\ Retention \in Nat
  /\ MaxTime \in Nat
  /\ MaxRows \in Nat
  /\ MaxSaves \in Nat
  /\ MaxFailures \in Nat
  /\ LateRows \in BOOLEAN
  /\ SavesMayRace \in BOOLEAN

VARIABLES
  now,           (* wall clock                                              *)
  log,           (* owntracks_locations in insertion order: row id = index  *)
  purged,        (* ids of the rows deleted by retention                    *)
  stamp,         (* row id -> owntracks_locations.odometer_miles            *)
  checkpoint,    (* the trip_processing_checkpoints row                     *)
  lock,          (* holder of _PROCESSING_LOCK                              *)
  pass,          (* per worker: the processing pass it runs                 *)
  save,          (* the manual reading being saved, if any                  *)
  saves,         (* number of manual readings committed                     *)
  failures,      (* number of failed passes and crashes so far              *)
  folds,         (* history: committed passes that took row id as new       *)
  generatedFrom  (* history: the rows each day's generation has seen        *)

vars == << now, log, purged, stamp, checkpoint, lock, pass, save, saves,
           failures, folds, generatedFrom >>

Workers == {"http", "timer"}
Nobody  == "nobody"
RowIds  == 1..MaxRows

NoCheckpoint == [exists |-> FALSE, miles |-> 0, at |-> 0, last |-> 0]
Unstamped    == -1
NoStamps     == [r \in RowIds |-> Unstamped]
NoSave       == [pending |-> FALSE, miles |-> 0, at |-> 0]

(* last is last_owntracks_location_id (0 for NULL), since the anchor time  *)
(* the rows are compared with, latest the newest counted tst.              *)
IdlePass ==
  [ pc |-> "idle", asof |-> 0, touched |-> {}, base |-> NoCheckpoint,
    last |-> 0, since |-> 0, latest |-> 0, miles |-> 0, fresh |-> {},
    todo |-> {}, prev |-> 0, stamps |-> NoStamps, days |-> {}, flushed |-> FALSE ]

DayOf(t)   == t \div DayLength
Days       == (-1)..DayOf(MaxTime)
Time(r)    == CapturedAt[log[r]]
Table      == {r \in RowIds : r <= Len(log)} \ purged
Before(r, q) == Time(r) < Time(q) \/ (Time(r) = Time(q) /\ r <= q)
Earliest(S) == {r \in S : \A q \in S : Before(r, q)}  \* one row, unless S = {}

InPass(w) == pass[w].pc \in {"count", "days", "finish", "purge"}

(* A pass that created the checkpoint holds its uncommitted INSERT.        *)
InsertPending ==
  \E w \in Workers : InPass(w) /\ ~pass[w].base.exists /\ ~pass[w].flushed

Init ==
  /\ now = 0
  /\ log = << >>
  /\ purged = {}
  /\ stamp = NoStamps
  /\ checkpoint = NoCheckpoint
  /\ lock = Nobody
  /\ pass = [w \in Workers |-> IdlePass]
  /\ save = NoSave
  /\ saves = 0
  /\ failures = 0
  /\ folds = [r \in RowIds |-> 0]
  /\ generatedFrom = [d \in Days |-> {}]

-----------------------------------------------------------------------------
(* The environment and the entry points of a pass.                         *)

Tick ==
  /\ now < MaxTime
  /\ now' = now + 1
  /\ UNCHANGED << log, purged, stamp, checkpoint, lock, pass, save, saves,
                  failures, folds, generatedFrom >>

Stored(m) == \E r \in Table : log[r] = m

(* A phone that is online sends m as it happens; one that was offline may  *)
(* deliver its queue later and in any order.                               *)
Deliverable(m) == IF LateRows THEN CapturedAt[m] <= now ELSE CapturedAt[m] = now

Requested(days) == [IdlePass EXCEPT !.pc = "waiting", !.asof = now, !.touched = days]

(* POST /owntracks: the row is committed unless an exact copy is stored,   *)
(* then the same handler asks for a pass over the payload's day.  The      *)
(* handler never yields, so the next payload waits for the pass to end.    *)
StoreRow(m) ==
  /\ pass["http"].pc = "idle"
  /\ Deliverable(m)
  /\ Stored(m) \/ Len(log) < MaxRows
  /\ log' = IF Stored(m) THEN log ELSE Append(log, m)
  /\ LET d == DayOf(CapturedAt[m])
     IN  pass' = [pass EXCEPT !["http"] = Requested({d, d - 1})]
  /\ UNCHANGED << now, purged, stamp, checkpoint, lock, save, saves, failures,
                  folds, generatedFrom >>

(* The interval of the AutomaticTripProcessor thread has elapsed.          *)
RequestTimer ==
  /\ pass["timer"].pc = "idle"
  /\ pass' = [pass EXCEPT !["timer"] = Requested({})]
  /\ UNCHANGED << now, log, purged, stamp, checkpoint, lock, save, saves,
                  failures, folds, generatedFrom >>

-----------------------------------------------------------------------------
(* The pass.                                                               *)

NewRows == {r \in Table : r > checkpoint.last}

(* Definitions named for a slip (here an off-by-one) are wrong variants of *)
(* the definition after them, against which the properties are tested.     *)
LastTakenOffByOne == IF NewRows = {} THEN checkpoint.last ELSE Max(NewRows) + 1
LastTaken == IF NewRows = {} THEN checkpoint.last ELSE Max(NewRows)

(* The path also holds the row the checkpoint points at, while retained.   *)
PathRowsNoPrevious == NewRows
PathRows ==
  IF NewRows = {} THEN {} ELSE NewRows \union ({checkpoint.last} \intersect Table)

(* The anchor time rows are compared with (a single value): the loaded one *)
(* or, for the very first pass, just before the oldest new row, or the     *)
(* pass's own start when it finds no row.                                  *)
AnchorTimes(w) ==
  IF checkpoint.exists THEN {checkpoint.at}
  ELSE IF NewRows = {} THEN {pass[w].asof}
  ELSE {Time(r) - 1 : r \in Earliest(NewRows)}

DaysTouched(rows) ==
  UNION {{DayOf(Time(r)), DayOf(Time(r)) - 1} : r \in rows}

DaysToProcessRecent(rows, asof, touched) ==
  {DayOf(asof), DayOf(asof) - 1} \union touched
DaysToProcess(rows, asof, touched) ==
  DaysTouched(rows) \union {DayOf(asof), DayOf(asof) - 1} \union touched

LockFreeAlways == TRUE
LockFree == lock = Nobody

(* Take the lock, load (or insert) the checkpoint and load the new rows.   *)
AcquireAndLoad(w) ==
  /\ pass[w].pc = "waiting"
  /\ LockFree
  /\ lock' = w
  /\ \E since \in AnchorTimes(w) :
       pass' = [pass EXCEPT ![w] =
         [@ EXCEPT !.pc     = IF PathRows = {} THEN "days" ELSE "count",
                   !.base   = checkpoint,
                   !.last   = LastTaken,
                   !.since  = since,
                   !.latest = since,
                   !.miles  = checkpoint.miles,
                   !.fresh  = NewRows,
                   !.todo   = PathRows,
                   !.days   = DaysToProcess(NewRows, pass[w].asof, pass[w].touched)]]
  /\ UNCHANGED << now, log, purged, stamp, checkpoint, save, saves, failures,
                  folds, generatedFrom >>

(* One iteration of _owntracks_odometer_advance: rows in (tst, id) order,  *)
(* counting a new row only when it is later than the loaded anchor.        *)
CountsEveryNewRow(w, r) == r \in pass[w].fresh
Counts(w, r) == r \in pass[w].fresh /\ Time(r) > pass[w].since

SegmentMiles(q, r) == IF q = 0 THEN 0 ELSE MilesBetween[<<log[q], log[r]>>]

CountRow(w) ==
  /\ pass[w].pc = "count"
  /\ \E r \in Earliest(pass[w].todo) :
       LET rest  == pass[w].todo \ {r}
           miles == pass[w].miles + SegmentMiles(pass[w].prev, r)
           step  == [pass[w] EXCEPT !.todo = rest, !.prev = r,
                                    !.pc = IF rest = {} THEN "days" ELSE "count"]
       IN  pass' = [pass EXCEPT ![w] =
             IF Counts(w, r)
             THEN [step EXCEPT !.miles  = miles,
                               !.latest = Time(r),
                               !.stamps[r] = miles]
             ELSE step]
  /\ UNCHANGED << now, log, purged, stamp, checkpoint, lock, save, saves,
                  failures, folds, generatedFrom >>

(* The UPDATE of the session's first commit: a column is written only when *)
(* the pass changed it; the others keep what the table holds by now.       *)
Written(w) ==
  LET p == pass[w]
      column(new, loaded, stored) ==
        IF p.base.exists /\ new = loaded THEN stored ELSE new
  IN  [ exists |-> TRUE,
        miles  |-> column(p.miles, p.base.miles, checkpoint.miles),
        at     |-> column(p.latest, p.base.at, checkpoint.at),
        last   |-> column(p.last, p.base.last, checkpoint.last) ]

Flush(w) ==
  IF pass[w].flushed
  THEN UNCHANGED << checkpoint, stamp, folds >>
  ELSE /\ checkpoint' = Written(w)
       /\ stamp' = [r \in RowIds |-> IF pass[w].stamps[r] = Unstamped
                                     THEN stamp[r] ELSE pass[w].stamps[r]]
       /\ folds' = [r \in RowIds |->
                      IF r \in pass[w].fresh THEN folds[r] + 1 ELSE folds[r]]

HasTransition(d) == \E r \in Table : log[r] \in Transition /\ DayOf(Time(r)) = d

(* _generate_for_date: the earliest remaining day is generated from the    *)
(* rows stored by now; it commits when the day holds a transition.         *)
GenerateDay(w) ==
  /\ pass[w].pc = "days"
  /\ \E d \in pass[w].days :
       LET rest == pass[w].days \ {d}
           done == [pass[w] EXCEPT !.days = rest,
                                   !.pc = IF rest = {} THEN "finish" ELSE "days"]
       IN  /\ \A e \in pass[w].days : d <= e
           /\ IF HasTransition(d)
              THEN /\ Flush(w)
                   /\ pass' = [pass EXCEPT ![w] = [done EXCEPT !.flushed = TRUE]]
              ELSE /\ pass' = [pass EXCEPT ![w] = done]
                   /\ UNCHANGED << checkpoint, stamp, folds >>
           /\ generatedFrom' = [generatedFrom EXCEPT ![d] = @ \union Table]
  /\ UNCHANGED << now, log, purged, lock, save, saves, failures >>

(* The commits that follow the last day: one when trip odometers were      *)
(* repaired (trips are not modelled here), one when there were new rows.   *)
CommitPass(w) ==
  /\ pass[w].pc = "finish"
  /\ \/ /\ Flush(w)
        /\ pass' = [pass EXCEPT ![w].pc = "purge", ![w].flushed = TRUE]
     \/ /\ pass[w].fresh = {}
        /\ pass' = [pass EXCEPT ![w].pc = "purge"]
        /\ UNCHANGED << checkpoint, stamp, folds >>
  /\ UNCHANGED << now, log, purged, lock, save, saves, failures, generatedFrom >>

ExpiredUnprocessed(w) ==
  {r \in Table : DayOf(Time(r)) < DayOf(pass[w].asof) - Retention}
Expired(w) ==
  {r \in Table : /\ r <= pass[w].last
                 /\ DayOf(Time(r)) < DayOf(pass[w].asof) - Retention}

(* Retention runs last: without a checkpoint it returns before committing, *)
(* and the session rolls back a checkpoint that was only inserted.         *)
PurgeAndRelease(w) ==
  /\ pass[w].pc = "purge"
  /\ IF pass[w].last = 0
     THEN UNCHANGED << checkpoint, stamp, folds, purged >>
     ELSE Flush(w) /\ purged' = purged \union Expired(w)
  /\ pass' = [pass EXCEPT ![w] = IdlePass]
  /\ lock' = Nobody
  /\ UNCHANGED << now, log, save, saves, failures, generatedFrom >>

(* Any exception in the pass: the caller logs it, the session rolls back   *)
(* what is not committed and the lock is released.                         *)
PassFails(w) ==
  /\ InPass(w)
  /\ failures < MaxFailures
  /\ failures' = failures + 1
  /\ pass' = [pass EXCEPT ![w] = IdlePass]
  /\ lock' = Nobody
  /\ UNCHANGED << now, log, purged, stamp, checkpoint, save, saves, folds,
                  generatedFrom >>

(* The process dies and restarts: only committed rows survive.             *)
Crash ==
  /\ failures < MaxFailures
  /\ \E w \in Workers : pass[w].pc # "idle"
  /\ failures' = failures + 1
  /\ pass' = [w \in Workers |-> IdlePass]
  /\ lock' = Nobody
  /\ save' = NoSave
  /\ UNCHANGED << now, log, purged, stamp, checkpoint, saves, folds,
                  generatedFrom >>

PassStep(w) ==
  \/ AcquireAndLoad(w)
  \/ CountRow(w)
  \/ GenerateDay(w)
  \/ CommitPass(w)
  \/ PurgeAndRelease(w)

-----------------------------------------------------------------------------
(* The manual reading (POST /diagnostics/odometer), on its own thread.     *)

(* The request fixes the reading and its time, then realigns the trips.    *)
BeginSave(v) ==
  /\ ~save.pending
  /\ saves < MaxSaves
  /\ save' = [pending |-> TRUE, miles |-> v, at |-> now]
  /\ UNCHANGED << now, log, purged, stamp, checkpoint, lock, pass, saves,
                  failures, folds, generatedFrom >>

(* It writes both anchor columns without looking at what they held.  An    *)
(* INSERT of its own waits for one a pass has not committed yet.           *)
CommitSave ==
  /\ save.pending
  /\ ~InsertPending
  /\ SavesMayRace \/ lock = Nobody
  /\ checkpoint' = [ exists |-> TRUE, miles |-> save.miles, at |-> save.at,
                     last |-> checkpoint.last ]
  /\ save' = NoSave
  /\ saves' = saves + 1
  /\ UNCHANGED << now, log, purged, stamp, lock, pass, failures, folds,
                  generatedFrom >>

(* The request ends in an error: rejected alignment, lost database, or the *)
(* unique violation when a pass inserted the checkpoint first.             *)
AbandonSave ==
  /\ save.pending
  /\ save' = NoSave
  /\ UNCHANGED << now, log, purged, stamp, checkpoint, lock, pass, saves,
                  failures, folds, generatedFrom >>

-----------------------------------------------------------------------------

Next ==
  \/ Tick
  \/ \E m \in Messages : StoreRow(m)
  \/ RequestTimer
  \/ \E w \in Workers : PassStep(w) \/ PassFails(w)
  \/ Crash
  \/ \E v \in Readings : BeginSave(v)
  \/ CommitSave
  \/ AbandonSave

Spec == Init /\ [][Next]_vars

(* The timer thread loops for as long as the process lives and a started   *)
(* pass runs on; failures are bounded, so one pass is not failed for ever. *)
FairnessWithoutTimer == \A w \in Workers : WF_vars(PassStep(w))
Fairness ==
  /\ WF_vars(RequestTimer)
  /\ \A w \in Workers : WF_vars(PassStep(w))

FairSpec == Spec /\ Fairness

-----------------------------------------------------------------------------
(* Properties.                                                             *)

CheckpointType ==
  [exists : BOOLEAN, miles : Nat, at : Int, last : 0..MaxRows]

Stamping == [RowIds -> Nat \union {Unstamped}]

PassType ==
  [ pc : {"idle", "waiting", "count", "days", "finish", "purge"},
    asof : Nat, touched : SUBSET Int, base : CheckpointType,
    last : 0..MaxRows, since : Int, latest : Int, miles : Nat,
    fresh : SUBSET RowIds, todo : SUBSET RowIds, prev : 0..MaxRows,
    stamps : Stamping, days : SUBSET Int, flushed : BOOLEAN ]

(* Every variable keeps its type, over the steps of both workers and the   *)
(* manual reading.                                                         *)
TypeOK ==
  /\ now \in Nat
  /\ log \in Seq(Messages) /\ Len(log) <= MaxRows
  /\ purged \subseteq RowIds
  /\ stamp \in Stamping
  /\ checkpoint \in CheckpointType
  /\ lock \in Workers \union {Nobody}
  /\ pass \in [Workers -> PassType]
  /\ save \in [pending : BOOLEAN, miles : Nat, at : Nat]
  /\ saves \in Nat /\ failures \in Nat
  /\ folds \in [RowIds -> Nat]
  /\ generatedFrom \in [Days -> SUBSET RowIds]

(* The rows behind the checkpoint were taken as new by exactly one         *)
(* committed pass, the others by none: whatever the interleaving of HTTP   *)
(* passes, timer passes, failures and crashes, no row is skipped by the    *)
(* odometer and none is counted twice.                                     *)
FoldedExactlyOnce ==
  \A r \in RowIds : folds[r] = IF r <= checkpoint.last THEN 1 ELSE 0

(* Retention never deletes a row no committed pass has taken, even one     *)
(* that was stored late, already past the cutoff, while the pass ran.      *)
PurgedRowsWereFolded == \A r \in purged : folds[r] > 0

(* Two workers with their locks, sessions, failures and restarts are, seen *)
(* from the tables, one ledger that takes each row in one batch and never  *)
(* moves back but for the user, unless a reading is saved during a pass.   *)
Ledger == INSTANCE OdometerLedger WITH
            rows <- Len(log), taken <- checkpoint.last,
            miles <- checkpoint.miles, gone <- purged

ImplementsLedger == Ledger!Spec

(* Until the first manual reading the stamps rise with tst, over passes    *)
(* and within one, and the anchor is never behind a stamp: rows delivered  *)
(* late cannot make the odometer run backwards.                            *)
Stamped == {r \in RowIds : stamp[r] # Unstamped}

StampsFollowTime ==
  saves = 0 =>
    \A r \in Stamped :
      /\ stamp[r] <= checkpoint.miles
      /\ Time(r) <= checkpoint.at
      /\ \A q \in Stamped : Time(q) < Time(r) => stamp[q] <= stamp[r]

(* Until the first manual reading, and as long as rows come in tst order,  *)
(* the anchor is the length of the path through the rows taken so far,     *)
(* however passes, failures and restarts split it: the segment between the *)
(* last row of one pass and the first of the next is counted once.  (The   *)
(* first row may be older than the anchor a pass without rows has set; a   *)
(* late row is never counted, nor is the first row of a pass with the tst  *)
(* of the last one of the pass before; the segment behind a purged row is  *)
(* lost.  None of these cases is claimed here.)                            *)
InOrder == \A r, q \in 1..Len(log) : r < q => Time(r) < Time(q)

PathLength(rows, n) ==
  SumFunctionOnSet([r \in 2..n |-> MilesBetween[<<rows[r - 1], rows[r]>>]], 2..n)

OdometerIsPathLength ==
  saves = 0 /\ purged = {} /\ InOrder /\ 1 \in Stamped =>
    checkpoint.miles = PathLength(log, checkpoint.last)

(* The commit of a pass adds the miles the pass counted to the anchor the  *)
(* table holds by then: a reading saved in the meantime is not overwritten.*)
CommitKeepsReadings ==
  [][\A w \in Workers :
       ~pass[w].flushed /\ pass'[w].flushed =>
         checkpoint'.miles = checkpoint.miles + (pass[w].miles - pass[w].base.miles)]_vars

(* Once a pass has taken a row, its day and the day before (its trip may   *)
(* have begun there) are generated again from a table that holds the row:  *)
(* it is done, or in the days the running pass still has to generate.  A   *)
(* pass that fails between two days breaks it.                             *)
RowDaysRegenerated ==
  \A r \in 1..checkpoint.last : \A d \in DaysTouched({r}) :
    \/ r \in generatedFrom[d]
    \/ \E w \in Workers : InPass(w) /\ pass[w].flushed /\ d \in pass[w].days

RegeneratedUnlessFailed == failures = 0 => RowDaysRegenerated

(* No stored row waits for ever: again and again the passes catch up with  *)
(* all that was stored, despite failed passes and crashes.                 *)
StoredRowsAreFolded == []<>(checkpoint.last = Len(log))
=============================================================================
