---------------------- MODULE OdometerProcessorProofs ----------------------
(***************************************************************************)
(* Theorems about OdometerProcessor, for any messages, clocks, bounds and  *)
(* environment.  The strengthening ties what a running pass has loaded to  *)
(* what the table holds: only the holder of the lock is inside a pass, so  *)
(* until its first commit the checkpoint still points where it pointed     *)
(* when the pass read it, and the rows it took are exactly the ones behind *)
(* the new checkpoint.                                                     *)
(***************************************************************************)
EXTENDS OdometerProcessor, ArithmeticFacts

(* What the manual reading cannot disturb: which rows have been taken.     *)
PassesFollowCheckpoint ==
  /\ purged \subseteq 1..checkpoint.last
  /\ checkpoint.last <= Len(log)
  /\ \A w \in Workers :
       /\ pass[w].todo \subseteq 1..Len(log) /\ pass[w].prev \in 0..Len(log)
       /\ InPass(w) \/ ~pass[w].flushed
  /\ \A w \in Workers : InPass(w) =>
       /\ lock = w
       /\ IF pass[w].flushed
          THEN pass[w].last = checkpoint.last
          ELSE /\ pass[w].last \in checkpoint.last..Len(log)
               /\ pass[w].base.last = checkpoint.last
               /\ pass[w].fresh =
                    {r \in RowIds : checkpoint.last < r /\ r <= pass[w].last}

IInv == TypeOK /\ FoldedExactlyOnce /\ PassesFollowCheckpoint

(* The initial state satisfies the strengthened invariant.                 *)
LEMMA InitIInv == Init => IInv
  <1> SUFFICES ASSUME Init PROVE IInv
    OBVIOUS
  <1> USE BoundsAssumption
  <1>1. TypeOK
    BY DEF Init, TypeOK, PassType, Stamping, NoStamps, Unstamped, IdlePass, CheckpointType, NoCheckpoint,
           NoSave, Workers, Nobody, RowIds
  <1>2. FoldedExactlyOnce
    BY DEF Init, FoldedExactlyOnce, NoCheckpoint, RowIds
  <1>3. PassesFollowCheckpoint
    BY DEF Init, PassesFollowCheckpoint, InPass, IdlePass, NoCheckpoint
  <1> QED
    BY <1>1, <1>2, <1>3 DEF IInv

(* The rows a pass takes are an interval that ends at the newest row: none *)
(* behind the checkpoint, and none in between was purged.                  *)
LEMMA LastTakenInterval ==
  ASSUME IInv
  PROVE  /\ LastTaken \in checkpoint.last..Len(log)
         /\ LastTaken \in 0..MaxRows
         /\ NewRows = {r \in RowIds : checkpoint.last < r /\ r <= LastTaken}
  <1> USE BoundsAssumption
  <1>1. /\ checkpoint.last \in Nat /\ Len(log) \in Nat /\ Len(log) <= MaxRows
        /\ checkpoint.last <= Len(log)
        /\ purged \subseteq 1..checkpoint.last
    BY DEF IInv, TypeOK, CheckpointType, PassesFollowCheckpoint
  <1>2. NewRows = {r \in RowIds : checkpoint.last < r /\ r <= Len(log)}
    BY <1>1 DEF NewRows, Table, RowIds
  <1>3. CASE checkpoint.last = Len(log)
    <2>1. NewRows = {}
      BY <1>1, <1>2, <1>3 DEF RowIds
    <2> QED
      BY <1>1, <1>2, <1>3, <2>1 DEF LastTaken
  <1>4. CASE checkpoint.last < Len(log)
    <2>1. Len(log) \in NewRows /\ \A r \in NewRows : Len(log) >= r
      BY <1>1, <1>2, <1>4 DEF RowIds
    <2>2. Max(NewRows) \in NewRows /\ \A r \in NewRows : Max(NewRows) >= r
      BY <2>1 DEF Max
    <2>3. Max(NewRows) = Len(log)
      BY <1>1, <1>2, <2>1, <2>2 DEF RowIds
    <2>4. LastTaken = Len(log)
      BY <2>1, <2>3 DEF LastTaken
    <2> QED
      BY <1>1, <1>2, <1>4, <2>4
  <1> QED
    BY <1>1, <1>3, <1>4

-----------------------------------------------------------------------------
(* Type correctness, one step per action.                                  *)

(* The tst of a stored row is an instant.                                  *)
LEMMA TimeType ==
  ASSUME TypeOK, NEW r \in 1..Len(log)
  PROVE  log[r] \in Messages /\ Time(r) \in Nat
  BY CapturedAssumption DEF TypeOK, Time

(* What the first commit of a pass writes is a checkpoint.                 *)
LEMMA WrittenType ==
  ASSUME TypeOK, NEW w \in Workers
  PROVE  Written(w) \in CheckpointType
  BY DEF TypeOK, PassType, CheckpointType, Written

(* The first commit of a pass keeps checkpoint, stamps and folds typed.    *)
LEMMA FlushType ==
  ASSUME TypeOK, NEW w \in Workers, Flush(w)
  PROVE  checkpoint' \in CheckpointType /\ stamp' \in Stamping /\ folds' \in [RowIds -> Nat]
  <1>1. CASE pass[w].flushed
    BY <1>1 DEF TypeOK, Flush
  <1>2. CASE ~pass[w].flushed
    <2>1. checkpoint' \in CheckpointType
      BY <1>2, WrittenType DEF Flush
    <2>a. stamp \in Stamping /\ pass[w].stamps \in Stamping
      BY DEF TypeOK, PassType
    <2>2. stamp' \in Stamping
      BY <1>2, <2>a DEF Flush, Stamping
    <2>3. folds' \in [RowIds -> Nat]
      BY <1>2 DEF Flush, TypeOK
    <2> QED
      BY <2>1, <2>2, <2>3
  <1> QED
    BY <1>1, <1>2

(* The local day of an instant is an integer.                              *)
LEMMA DayType ==
  ASSUME NEW t \in Int
  PROVE  DayOf(t) \in Int /\ DayOf(t) - 1 \in Int
  BY BoundsAssumption DEF DayOf

(* The rows still in the table have ids of the model.                      *)
LEMMA TableType == ASSUME TypeOK PROVE Table \subseteq RowIds /\ Table \subseteq 1..Len(log)
  BY DEF Table, TypeOK, RowIds

(* A worker that runs no pass is in a typed state.                         *)
LEMMA IdlePassType == IdlePass \in PassType
  BY BoundsAssumption DEF IdlePass, PassType, CheckpointType, NoCheckpoint, Stamping, NoStamps, Unstamped

(* Taking the lock and loading checkpoint and rows keeps the types.        *)
LEMMA AcquireType ==
  ASSUME IInv, NEW w \in Workers, AcquireAndLoad(w)
  PROVE  TypeOK'
  <1> USE BoundsAssumption
  <1>0. TypeOK
    BY DEF IInv
  <1>1. PICK since \in AnchorTimes(w) :
       pass' = [pass EXCEPT ![w] =
         [@ EXCEPT !.pc     = IF PathRows = {} THEN "days" ELSE "count",
                   !.base   = checkpoint,
                   !.last   = LastTaken,
                   !.since  = since,
                   !.latest = since,
                   !.miles  = checkpoint.miles,
                   !.fresh  = NewRows,
                   !.todo   = PathRows,
                   !.days   = DaysToProcess(NewRows, pass[w].asof, pass[w].touched)]]
    BY DEF AcquireAndLoad
  <1>2. NewRows \subseteq RowIds /\ NewRows \subseteq 1..Len(log)
    BY <1>0, TableType DEF NewRows
  <1>3. PathRows \subseteq RowIds
    BY <1>0, <1>2, TableType DEF PathRows
  <1>4. pass[w] \in PassType /\ checkpoint \in CheckpointType
    BY <1>0 DEF TypeOK
  <1>5. since \in Int
    <2>1. CASE checkpoint.exists
      BY <2>1, <1>1, <1>4 DEF AnchorTimes, CheckpointType
    <2>2. CASE ~checkpoint.exists /\ NewRows = {}
      BY <2>2, <1>1, <1>4 DEF AnchorTimes, PassType
    <2>3. CASE ~checkpoint.exists /\ NewRows # {}
      <3>1. PICK r \in Earliest(NewRows) : since = Time(r) - 1
        BY <2>3, <1>1 DEF AnchorTimes
      <3>2. r \in 1..Len(log)
        BY <3>1, <1>2 DEF Earliest
      <3> QED
        BY <3>1, <3>2, <1>0, TimeType
    <2> QED
      BY <2>1, <2>2, <2>3
  <1>6. DaysToProcess(NewRows, pass[w].asof, pass[w].touched) \in SUBSET Int
    <2>1. \A r \in NewRows : {DayOf(Time(r)), DayOf(Time(r)) - 1} \subseteq Int
      BY <1>0, <1>2, TimeType, DayType
    <2>2. DaysTouched(NewRows) \subseteq Int
      BY <2>1 DEF DaysTouched
    <2>3. pass[w].asof \in Nat /\ pass[w].touched \subseteq Int
      BY <1>4 DEF PassType
    <2>4. DayOf(pass[w].asof) \in Int
      BY <2>3, DayType
    <2> QED
      BY <2>2, <2>3, <2>4 DEF DaysToProcess
  <1>7. LastTaken \in 0..MaxRows
    BY LastTakenInterval
  <1>8. pass' \in [Workers -> PassType]
    <2> DEFINE p == [pass[w] EXCEPT !.pc     = IF PathRows = {} THEN "days" ELSE "count",
                   !.base   = checkpoint,
                   !.last   = LastTaken,
                   !.since  = since,
                   !.latest = since,
                   !.miles  = checkpoint.miles,
                   !.fresh  = NewRows,
                   !.todo   = PathRows,
                   !.days   = DaysToProcess(NewRows, pass[w].asof, pass[w].touched)]
    <2>1. p \in PassType
      <3>1. checkpoint.miles \in Nat
        BY <1>4 DEF CheckpointType
      <3> QED
        BY <1>2, <1>3, <1>4, <1>5, <1>6, <1>7, <3>1 DEF PassType
    <2>2. pass' = [pass EXCEPT ![w] = p]
      BY <1>1
    <2> HIDE DEF p
    <2> QED
      BY <2>1, <2>2, <1>0 DEF TypeOK
  <1> QED
    BY <1>0, <1>8 DEF TypeOK, AcquireAndLoad, Stamping

(* Counting one row of the path keeps the types.                           *)
LEMMA CountType ==
  ASSUME IInv, NEW w \in Workers, CountRow(w)
  PROVE  TypeOK'
  <1> USE BoundsAssumption
  <1>0. TypeOK /\ pass[w] \in PassType
    BY DEF IInv, TypeOK
  <1> DEFINE rest(r)  == pass[w].todo \ {r}
             miles(r) == pass[w].miles + SegmentMiles(pass[w].prev, r)
             step(r)  == [pass[w] EXCEPT !.todo = rest(r), !.prev = r,
                            !.pc = IF rest(r) = {} THEN "days" ELSE "count"]
             next(r)  == IF Counts(w, r)
                         THEN [step(r) EXCEPT !.miles = miles(r), !.latest = Time(r),
                                              !.stamps[r] = miles(r)]
                         ELSE step(r)
  <1>1. PICK r \in Earliest(pass[w].todo) : pass' = [pass EXCEPT ![w] = next(r)]
    BY DEF CountRow
  <1>2. r \in RowIds /\ r \in 1..Len(log) /\ r \in pass[w].todo
    BY <1>0, <1>1 DEF Earliest, IInv, PassesFollowCheckpoint, PassType
  <1>3. step(r) \in PassType
    <2>1. rest(r) \in SUBSET RowIds /\ r \in 0..MaxRows
      BY <1>0, <1>2 DEF PassType, RowIds
    <2> HIDE DEF rest
    <2> QED
      BY <1>0, <2>1 DEF PassType
  <1>4. Time(r) \in Int
    BY <1>0, <1>2, TimeType
  <1>5. miles(r) \in Nat
    <2>1. pass[w].prev \in 0..Len(log) /\ pass[w].miles \in Nat
      BY <1>0 DEF IInv, PassesFollowCheckpoint, PassType
    <2>2. SegmentMiles(pass[w].prev, r) \in Nat
      <3>1. CASE pass[w].prev = 0
        BY <3>1 DEF SegmentMiles
      <3>2. CASE pass[w].prev # 0
        <4>1. pass[w].prev \in 1..Len(log)
          BY <2>1, <3>2
        <4>2. log[pass[w].prev] \in Messages /\ log[r] \in Messages
          BY <4>1, <1>0, <1>2, TimeType
        <4> QED
          BY <4>2, <3>2, MilesAssumption DEF SegmentMiles
      <3> QED
        BY <3>1, <3>2
    <2> QED
      BY <2>1, <2>2
  <1>6. next(r) \in PassType
    <2> HIDE DEF step, miles
    <2>1. step(r).stamps \in Stamping
      BY <1>3 DEF PassType
    <2>2. [step(r).stamps EXCEPT ![r] = miles(r)] \in Stamping
      BY <2>1, <1>5 DEF Stamping
    <2>3. [step(r) EXCEPT !.miles = miles(r), !.latest = Time(r), !.stamps[r] = miles(r)] \in PassType
      BY <2>2, <1>3, <1>4, <1>5 DEF PassType
    <2> QED
      BY <2>3, <1>3
  <1> HIDE DEF next
  <1>7. pass' \in [Workers -> PassType]
    BY <1>0, <1>1, <1>6 DEF TypeOK
  <1> QED
    BY <1>0, <1>7 DEF TypeOK, CountRow, Stamping

(* Generating one day keeps the types.                                     *)
LEMMA DaysType ==
  ASSUME TypeOK, NEW w \in Workers, GenerateDay(w)
  PROVE  TypeOK'
  <1> USE BoundsAssumption
  <1>0. pass[w] \in PassType /\ Table \subseteq RowIds
    BY TableType DEF TypeOK
  <1> DEFINE done(d) == [pass[w] EXCEPT !.days = pass[w].days \ {d},
                           !.pc = IF pass[w].days \ {d} = {} THEN "finish" ELSE "days"]
             next(d) == [done(d) EXCEPT !.flushed = TRUE]
  <1>1. PICK d \in pass[w].days :
          /\ \/ Flush(w) /\ pass' = [pass EXCEPT ![w] = next(d)]
             \/ /\ pass' = [pass EXCEPT ![w] = done(d)]
                /\ UNCHANGED << checkpoint, stamp, folds >>
          /\ generatedFrom' = [generatedFrom EXCEPT ![d] = @ \union Table]
    BY DEF GenerateDay
  <1>2. done(d) \in PassType
    BY <1>0 DEF PassType
  <1> HIDE DEF done
  <1>3. next(d) \in PassType
    BY <1>2 DEF PassType
  <1>4. checkpoint' \in CheckpointType /\ stamp' \in Stamping /\ folds' \in [RowIds -> Nat]
    BY <1>1, FlushType DEF TypeOK
  <1>5. generatedFrom' \in [Days -> SUBSET RowIds]
    BY <1>0, <1>1 DEF TypeOK
  <1> HIDE DEF next
  <1>6. pass' \in [Workers -> PassType]
    BY <1>1, <1>2, <1>3 DEF TypeOK
  <1> QED
    BY <1>4, <1>5, <1>6 DEF TypeOK, GenerateDay

(* The commits behind the last day keep the types.                         *)
LEMMA CommitType ==
  ASSUME TypeOK, NEW w \in Workers, CommitPass(w)
  PROVE  TypeOK'
  <1> DEFINE idle == [pass[w] EXCEPT !.pc = "purge"]
             next == [pass[w] EXCEPT !.pc = "purge", !.flushed = TRUE]
  <1>1. pass[w] \in PassType /\ pass \in [Workers -> PassType]
    BY DEF TypeOK
  <1>2. idle \in PassType /\ next \in PassType
    BY <1>1 DEF PassType
  <1>3. /\ \/ Flush(w) /\ pass' = [pass EXCEPT ![w] = next]
           \/ /\ pass' = [pass EXCEPT ![w] = idle]
              /\ UNCHANGED << checkpoint, stamp, folds >>
    BY <1>1 DEF CommitPass
  <1>4. checkpoint' \in CheckpointType /\ stamp' \in Stamping /\ folds' \in [RowIds -> Nat]
    BY <1>3, FlushType DEF TypeOK
  <1> HIDE DEF next, idle
  <1>5. pass' \in [Workers -> PassType]
    BY <1>1, <1>2, <1>3
  <1> QED
    BY <1>4, <1>5 DEF TypeOK, CommitPass

(* The retention step keeps the types.                                     *)
LEMMA PurgeType ==
  ASSUME TypeOK, NEW w \in Workers, PurgeAndRelease(w)
  PROVE  TypeOK'
  <1>1. checkpoint' \in CheckpointType /\ stamp' \in Stamping /\ folds' \in [RowIds -> Nat]
    BY FlushType DEF TypeOK, PurgeAndRelease
  <1>2. pass' \in [Workers -> PassType]
    BY IdlePassType DEF TypeOK, PurgeAndRelease
  <1>3. purged' \subseteq RowIds
    BY TableType DEF TypeOK, PurgeAndRelease, Expired
  <1> QED
    BY <1>1, <1>2, <1>3 DEF TypeOK, PurgeAndRelease

(* Every step keeps the types: type correctness is inductive.              *)
LEMMA StepType ==
  ASSUME IInv, [Next]_vars
  PROVE  TypeOK'
  <1> USE BoundsAssumption, SetsAssumption
  <1>0. TypeOK
    BY DEF IInv
  <1>1. CASE UNCHANGED vars
    BY <1>0, <1>1 DEF TypeOK, vars
  <1>2. CASE Tick
    BY <1>0, <1>2 DEF TypeOK, Tick
  <1>3. ASSUME NEW m \in Messages, StoreRow(m) PROVE TypeOK'
    <2>1. DayOf(CapturedAt[m]) \in Int /\ DayOf(CapturedAt[m]) - 1 \in Int
      BY CapturedAssumption, DayType
    <2>2. Requested({DayOf(CapturedAt[m]), DayOf(CapturedAt[m]) - 1}) \in PassType
      BY <1>0, <2>1, IdlePassType DEF Requested, PassType, TypeOK
    <2>3. pass' \in [Workers -> PassType]
      BY <1>0, <1>3, <2>2 DEF TypeOK, StoreRow
    <2>4. log' \in Seq(Messages) /\ Len(log') <= MaxRows
      BY <1>0, <1>3 DEF TypeOK, StoreRow
    <2> QED
      BY <1>0, <1>3, <2>3, <2>4 DEF TypeOK, StoreRow
  <1>4. CASE RequestTimer
    <2>1. Requested({}) \in PassType
      BY <1>0, IdlePassType DEF Requested, PassType, TypeOK
    <2>2. pass' \in [Workers -> PassType]
      BY <1>0, <1>4, <2>1 DEF TypeOK, RequestTimer
    <2> QED
      BY <1>0, <1>4, <2>2 DEF TypeOK, RequestTimer
  <1>5. ASSUME NEW w \in Workers, PassStep(w) PROVE TypeOK'
    BY <1>0, <1>5, AcquireType, CountType, DaysType, CommitType, PurgeType DEF PassStep
  <1>6. ASSUME NEW w \in Workers, PassFails(w) PROVE TypeOK'
    BY <1>0, <1>6, IdlePassType DEF TypeOK, PassFails
  <1>7. CASE Crash
    BY <1>0, <1>7, IdlePassType DEF TypeOK, Crash, NoSave
  <1>8. ASSUME NEW v \in Readings, BeginSave(v) PROVE TypeOK'
    BY <1>0, <1>8 DEF TypeOK, BeginSave
  <1>9. CASE CommitSave
    BY <1>0, <1>9 DEF TypeOK, CommitSave, CheckpointType, NoSave
  <1>10. CASE AbandonSave
    BY <1>0, <1>10 DEF TypeOK, AbandonSave, NoSave
  <1> QED
    BY <1>1, <1>2, <1>3, <1>4, <1>5, <1>6, <1>7, <1>8, <1>9, <1>10 DEF Next

-----------------------------------------------------------------------------
(* Exactly once.                                                           *)

(* Only the holder of the lock is inside a pass.                           *)
LEMMA OnlyHolder ==
  ASSUME IInv, NEW w \in Workers, InPass(w), NEW v \in Workers, v # w
  PROVE  ~InPass(v)
  BY DEF IInv, PassesFollowCheckpoint

(* A first commit takes exactly the rows between the old and the new       *)
(* checkpoint, and leaves the checkpoint where the pass has read up to.    *)
LEMMA FlushTakes ==
  ASSUME IInv, NEW w \in Workers, InPass(w), Flush(w)
  PROVE  /\ checkpoint'.last = pass[w].last
         /\ checkpoint.last <= checkpoint'.last /\ checkpoint'.last <= Len(log)
         /\ \A r \in RowIds : folds'[r] = IF r <= checkpoint'.last THEN 1 ELSE 0
  <1>1. /\ checkpoint.last \in Nat /\ Len(log) \in Nat /\ pass[w].last \in Nat
        /\ folds \in [RowIds -> Nat] /\ RowIds \subseteq Nat
    <2>1. /\ checkpoint \in CheckpointType /\ pass[w] \in PassType
          /\ log \in Seq(Messages) /\ folds \in [RowIds -> Nat]
      BY DEF IInv, TypeOK
    <2>2. 0..MaxRows \subseteq Nat
      OBVIOUS
    <2>3. checkpoint.last \in 0..MaxRows
      BY <2>1 DEF CheckpointType
    <2>4. pass[w].last \in 0..MaxRows
      BY <2>1 DEF PassType
    <2> QED
      BY <2>1, <2>2, <2>3, <2>4 DEF RowIds
  <1>2. \A r \in RowIds : folds[r] = IF r <= checkpoint.last THEN 1 ELSE 0
    BY DEF IInv, FoldedExactlyOnce
  <1>3. CASE pass[w].flushed
    <2>1. UNCHANGED << checkpoint, stamp, folds >>
      BY <1>3 DEF Flush
    <2>2. pass[w].last = checkpoint.last /\ checkpoint.last <= Len(log)
      BY <1>3 DEF IInv, PassesFollowCheckpoint
    <2> QED
      BY <1>1, <1>2, <2>1, <2>2
  <1>4. CASE ~pass[w].flushed
    <2>1. /\ pass[w].last \in checkpoint.last..Len(log)
          /\ pass[w].base.last = checkpoint.last
          /\ pass[w].fresh = {r \in RowIds : checkpoint.last < r /\ r <= pass[w].last}
      BY <1>4 DEF IInv, PassesFollowCheckpoint
    <2>2. checkpoint'.last = pass[w].last
      BY <1>4, <2>1 DEF Flush, Written
    <2>3. folds' = [r \in RowIds |-> IF r \in pass[w].fresh THEN folds[r] + 1 ELSE folds[r]]
      BY <1>4 DEF Flush
    <2>4. ASSUME NEW r \in RowIds
          PROVE  folds'[r] = IF r <= checkpoint'.last THEN 1 ELSE 0
      <3>1. CASE r <= checkpoint.last
        BY <3>1, <1>1, <1>2, <2>1, <2>2, <2>3
      <3>2. CASE checkpoint.last < r /\ r <= pass[w].last
        BY <3>2, <1>1, <1>2, <2>1, <2>2, <2>3
      <3>3. CASE pass[w].last < r
        BY <3>3, <1>1, <1>2, <2>1, <2>2, <2>3
      <3> QED
        BY <3>1, <3>2, <3>3, <1>1
    <2>5. checkpoint.last <= checkpoint'.last /\ checkpoint'.last <= Len(log)
      BY <1>1, <2>1, <2>2
    <2> QED
      BY <2>2, <2>4, <2>5, Zenon
  <1> QED
    BY <1>3, <1>4

(* A step that leaves rows, checkpoint and lock alone and starts no pass.  *)
LEMMA QuietStep ==
  ASSUME IInv, UNCHANGED << purged, folds >>, checkpoint'.last = checkpoint.last,
         UNCHANGED << log, lock, pass >>
  PROVE  FoldedExactlyOnce' /\ PassesFollowCheckpoint'
  <1>1. FoldedExactlyOnce'
    BY DEF IInv, FoldedExactlyOnce
  <1>2. PassesFollowCheckpoint'
    BY DEF IInv, PassesFollowCheckpoint, InPass
  <1> QED
    BY <1>1, <1>2

(* A requested pass waits and has read nothing yet.                        *)
LEMMA RequestedFields ==
  ASSUME NEW days
  PROVE  /\ Requested(days).pc = "waiting"
         /\ Requested(days).todo = {} /\ Requested(days).prev = 0
         /\ ~Requested(days).flushed
  BY DEF Requested, IdlePass

(* A worker asks for a pass; the HTTP one may store a row first.           *)
LEMMA RequestStep ==
  ASSUME IInv, NEW w \in Workers, NEW days,
         pass' = [pass EXCEPT ![w] = Requested(days)],
         Len(log') \in Nat, Len(log) <= Len(log'),
         UNCHANGED << purged, folds, checkpoint, lock >>
  PROVE  FoldedExactlyOnce' /\ PassesFollowCheckpoint'
  <1>0. /\ pass \in [Workers -> PassType] /\ Len(log) \in Nat
        /\ checkpoint.last \in Nat
    BY DEF IInv, TypeOK, CheckpointType
  <1>1. FoldedExactlyOnce'
    BY DEF IInv, FoldedExactlyOnce
  <1>2. \A v \in Workers :
          IF v = w THEN pass'[v] = Requested(days) ELSE pass'[v] = pass[v]
    BY <1>0
  <1>3. ~InPass(w)'
    BY <1>2, RequestedFields DEF InPass
  <1>4. purged' \subseteq 1..checkpoint'.last /\ checkpoint'.last <= Len(log')
    BY <1>0 DEF IInv, PassesFollowCheckpoint
  <1>5. ASSUME NEW v \in Workers
        PROVE  /\ pass'[v].todo \subseteq 1..Len(log') /\ pass'[v].prev \in 0..Len(log')
               /\ InPass(v)' \/ ~pass'[v].flushed
    <2>1. CASE v = w
      BY <2>1, <1>2, RequestedFields
    <2>2. CASE v # w
      <3>1. /\ pass[v].todo \subseteq 1..Len(log) /\ pass[v].prev \in 0..Len(log)
            /\ InPass(v) \/ ~pass[v].flushed
        BY DEF IInv, PassesFollowCheckpoint
      <3> QED
        BY <2>2, <3>1, <1>0, <1>2 DEF InPass
    <2> QED
      BY <2>1, <2>2
  <1>6. ASSUME NEW v \in Workers, InPass(v)'
        PROVE  /\ lock' = v
               /\ IF pass'[v].flushed
                  THEN pass'[v].last = checkpoint'.last
                  ELSE /\ pass'[v].last \in checkpoint'.last..Len(log')
                       /\ pass'[v].base.last = checkpoint'.last
                       /\ pass'[v].fresh =
                            {r \in RowIds : checkpoint'.last < r /\ r <= pass'[v].last}
    <2>1. v # w /\ pass'[v] = pass[v] /\ InPass(v)
      BY <1>2, <1>3, <1>6 DEF InPass
    <2>2. pass[v].last \in Nat
      BY <1>0 DEF PassType
    <2> QED
      BY <1>0, <2>1, <2>2 DEF IInv, PassesFollowCheckpoint
  <1> QED
    BY <1>1, <1>4, <1>5, <1>6 DEF PassesFollowCheckpoint

Running(p) == p.pc \in {"count", "days", "finish", "purge"}

(* What the pass of the lock's holder has to satisfy after its step.       *)
Follows(w, p) ==
  /\ p.todo \subseteq 1..Len(log) /\ p.prev \in 0..Len(log)
  /\ Running(p) \/ ~p.flushed
  /\ Running(p) =>
       /\ lock' = w
       /\ IF p.flushed
          THEN p.last = checkpoint'.last
          ELSE /\ p.last \in checkpoint'.last..Len(log)
               /\ p.base.last = checkpoint'.last
               /\ p.fresh = {r \in RowIds : checkpoint'.last < r /\ r <= p.last}

(* Steps that end a pass, or continue it without writing, keep             *)
(* FoldedExactlyOnce and the link between passes and the checkpoint.       *)
LEMMA HolderStep ==
  ASSUME IInv, NEW w \in Workers, NEW p, Follows(w, p),
         \A v \in Workers : v # w => ~InPass(v),
         pass' = [pass EXCEPT ![w] = p], log' = log,
         purged' \subseteq 1..checkpoint'.last, checkpoint'.last <= Len(log)
  PROVE  PassesFollowCheckpoint'
  <1>1. \A v \in Workers : IF v = w THEN pass'[v] = p ELSE pass'[v] = pass[v]
    BY DEF IInv, TypeOK
  <1>2. ASSUME NEW v \in Workers
        PROVE  /\ pass'[v].todo \subseteq 1..Len(log') /\ pass'[v].prev \in 0..Len(log')
               /\ InPass(v)' \/ ~pass'[v].flushed
    BY <1>1 DEF Follows, IInv, PassesFollowCheckpoint, InPass, Running
  <1>3. ASSUME NEW v \in Workers, InPass(v)'
        PROVE  /\ lock' = v
               /\ IF pass'[v].flushed
                  THEN pass'[v].last = checkpoint'.last
                  ELSE /\ pass'[v].last \in checkpoint'.last..Len(log')
                       /\ pass'[v].base.last = checkpoint'.last
                       /\ pass'[v].fresh =
                            {r \in RowIds : checkpoint'.last < r /\ r <= pass'[v].last}
    <2>1. v = w
      BY <1>1, <1>3 DEF InPass
    <2>2. pass'[v] = p /\ Running(p)
      BY <2>1, <1>1, <1>3 DEF InPass, Running
    <2> QED
      BY <2>1, <2>2 DEF Follows
  <1> QED
    BY <1>2, <1>3 DEF PassesFollowCheckpoint

(* A worker that runs no pass claims nothing of the checkpoint.            *)
LEMMA IdleFollows ==
  ASSUME IInv, NEW w \in Workers
  PROVE  Follows(w, IdlePass)
  BY DEF Follows, IdlePass, Running, IInv, TypeOK

(* A pass that takes the lock starts from the checkpoint of the table.     *)
LEMMA AcquireStep ==
  ASSUME IInv, NEW w \in Workers, AcquireAndLoad(w)
  PROVE  FoldedExactlyOnce' /\ PassesFollowCheckpoint'
  <1>1. FoldedExactlyOnce'
    BY DEF AcquireAndLoad, IInv, FoldedExactlyOnce
  <1>2. \A v \in Workers : ~InPass(v)
    BY DEF IInv, PassesFollowCheckpoint, AcquireAndLoad, LockFree, Nobody, Workers
  <1>3. PICK since \in AnchorTimes(w) :
       pass' = [pass EXCEPT ![w] =
         [@ EXCEPT !.pc     = IF PathRows = {} THEN "days" ELSE "count",
                   !.base   = checkpoint,
                   !.last   = LastTaken,
                   !.since  = since,
                   !.latest = since,
                   !.miles  = checkpoint.miles,
                   !.fresh  = NewRows,
                   !.todo   = PathRows,
                   !.days   = DaysToProcess(NewRows, pass[w].asof, pass[w].touched)]]
    BY DEF AcquireAndLoad
  <1> DEFINE p == [pass[w] EXCEPT !.pc     = IF PathRows = {} THEN "days" ELSE "count",
                   !.base   = checkpoint,
                   !.last   = LastTaken,
                   !.since  = since,
                   !.latest = since,
                   !.miles  = checkpoint.miles,
                   !.fresh  = NewRows,
                   !.todo   = PathRows,
                   !.days   = DaysToProcess(NewRows, pass[w].asof, pass[w].touched)]
  <1>4. PathRows \subseteq 1..Len(log)
    BY TableType DEF PathRows, NewRows, IInv
  <1>5. pass[w].prev \in 0..Len(log) /\ pass[w] \in PassType
    BY DEF IInv, TypeOK, PassesFollowCheckpoint
  <1>6. /\ p.base = checkpoint /\ p.last = LastTaken /\ p.fresh = NewRows
        /\ p.todo = PathRows /\ p.prev = pass[w].prev /\ p.flushed = pass[w].flushed
    BY <1>5 DEF PassType
  <1>7. ~pass[w].flushed
    BY DEF IInv, PassesFollowCheckpoint, AcquireAndLoad, InPass
  <1>8. /\ LastTaken \in checkpoint.last..Len(log)
        /\ NewRows = {r \in RowIds : checkpoint.last < r /\ r <= LastTaken}
    BY LastTakenInterval
  <1>9. pass' = [pass EXCEPT ![w] = p]
    BY <1>3
  <1> HIDE DEF p
  <1>10. UNCHANGED << log, purged, checkpoint >> /\ lock' = w
    BY DEF AcquireAndLoad
  <1>11. Follows(w, p)
    BY <1>4, <1>5, <1>6, <1>7, <1>8, <1>10 DEF Follows, Running, p
  <1>12. purged' \subseteq 1..checkpoint'.last /\ checkpoint'.last <= Len(log)
    BY <1>10 DEF IInv, PassesFollowCheckpoint
  <1> QED
    BY <1>1, <1>2, <1>9, <1>10, <1>11, <1>12, HolderStep

(* Counting a row moves neither the checkpoint nor what was taken.         *)
LEMMA CountStep ==
  ASSUME IInv, NEW w \in Workers, CountRow(w)
  PROVE  FoldedExactlyOnce' /\ PassesFollowCheckpoint'
  <1>1. FoldedExactlyOnce'
    BY DEF CountRow, IInv, FoldedExactlyOnce
  <1>2. InPass(w) /\ \A v \in Workers : v # w => ~InPass(v)
    BY OnlyHolder DEF InPass, CountRow
  <1>3. UNCHANGED << log, purged, checkpoint, lock >>
    BY DEF CountRow
  <1> DEFINE rest(r)  == pass[w].todo \ {r}
             miles(r) == pass[w].miles + SegmentMiles(pass[w].prev, r)
             step(r)  == [pass[w] EXCEPT !.todo = rest(r), !.prev = r,
                            !.pc = IF rest(r) = {} THEN "days" ELSE "count"]
             next(r)  == IF Counts(w, r)
                         THEN [step(r) EXCEPT !.miles = miles(r), !.latest = Time(r),
                                              !.stamps[r] = miles(r)]
                         ELSE step(r)
  <1>4. PICK r \in Earliest(pass[w].todo) : pass' = [pass EXCEPT ![w] = next(r)]
    BY DEF CountRow
  <1>5. r \in pass[w].todo
    BY DEF Earliest
  <1>6. pass[w] \in PassType /\ pass[w].todo \subseteq 1..Len(log)
    BY DEF IInv, TypeOK, PassesFollowCheckpoint
  <1>7. /\ step(r).todo \subseteq 1..Len(log) /\ step(r).prev = r
        /\ step(r).pc \in {"days", "count"}
        /\ step(r).flushed = pass[w].flushed /\ step(r).last = pass[w].last
        /\ step(r).base = pass[w].base /\ step(r).fresh = pass[w].fresh
    BY <1>5, <1>6 DEF PassType
  <1> HIDE DEF step
  <1>8. /\ next(r).todo = step(r).todo /\ next(r).prev = step(r).prev
        /\ next(r).pc = step(r).pc
        /\ next(r).flushed = step(r).flushed /\ next(r).last = step(r).last
        /\ next(r).base = step(r).base /\ next(r).fresh = step(r).fresh
    <2>1. step(r) \in PassType
      <3>1. rest(r) \in SUBSET RowIds /\ r \in 0..MaxRows
        BY <1>5, <1>6 DEF PassType, RowIds
      <3> HIDE DEF rest
      <3> QED
        BY <1>6, <3>1 DEF step, PassType
    <2> QED
      BY <2>1 DEF PassType
  <1> HIDE DEF next
  <1>9. Follows(w, next(r))
    BY <1>2, <1>3, <1>5, <1>6, <1>7, <1>8 DEF Follows, Running, IInv, PassesFollowCheckpoint
  <1>10. purged' \subseteq 1..checkpoint'.last /\ checkpoint'.last <= Len(log)
    BY <1>3 DEF IInv, PassesFollowCheckpoint
  <1> QED
    BY <1>1, <1>2, <1>3, <1>4, <1>9, <1>10, HolderStep

(* A day's commit, the first of the pass or not, takes the rows once.      *)
LEMMA DayStep ==
  ASSUME IInv, NEW w \in Workers, GenerateDay(w)
  PROVE  FoldedExactlyOnce' /\ PassesFollowCheckpoint'
  <1>1. InPass(w) /\ \A v \in Workers : v # w => ~InPass(v)
    BY OnlyHolder DEF InPass, GenerateDay
  <1>2. UNCHANGED << log, purged, lock >>
    BY DEF GenerateDay
  <1>3. /\ pass[w] \in PassType /\ lock = w /\ Len(log) \in Nat
        /\ purged \subseteq 1..checkpoint.last /\ checkpoint.last <= Len(log)
        /\ checkpoint.last \in Nat
    BY <1>1 DEF IInv, TypeOK, PassesFollowCheckpoint, CheckpointType
  <1> DEFINE done(d) == [pass[w] EXCEPT !.days = pass[w].days \ {d},
                           !.pc = IF pass[w].days \ {d} = {} THEN "finish" ELSE "days"]
             next(d) == [done(d) EXCEPT !.flushed = TRUE]
  <1>4. PICK d \in pass[w].days :
          \/ Flush(w) /\ pass' = [pass EXCEPT ![w] = next(d)]
          \/ /\ pass' = [pass EXCEPT ![w] = done(d)]
             /\ UNCHANGED << checkpoint, stamp, folds >>
    BY DEF GenerateDay
  <1>5. /\ done(d) \in PassType
        /\ done(d).todo = pass[w].todo /\ done(d).prev = pass[w].prev
        /\ done(d).pc \in {"finish", "days"}
        /\ done(d).flushed = pass[w].flushed /\ done(d).last = pass[w].last
        /\ done(d).base = pass[w].base /\ done(d).fresh = pass[w].fresh
    BY <1>3 DEF PassType
  <1> HIDE DEF done
  <1>6. CASE Flush(w) /\ pass' = [pass EXCEPT ![w] = next(d)]
    <2>1. /\ next(d).todo = pass[w].todo /\ next(d).prev = pass[w].prev
          /\ next(d).pc = done(d).pc /\ next(d).flushed /\ next(d).last = pass[w].last
      BY <1>5 DEF PassType
    <2> HIDE DEF next
    <2>2. /\ checkpoint'.last = pass[w].last
          /\ checkpoint.last <= checkpoint'.last /\ checkpoint'.last <= Len(log)
          /\ \A r \in RowIds : folds'[r] = IF r <= checkpoint'.last THEN 1 ELSE 0
      BY <1>1, <1>6, FlushTakes
    <2>3. Follows(w, next(d))
      BY <1>1, <1>2, <1>3, <1>5, <2>1, <2>2 DEF Follows, Running, IInv, PassesFollowCheckpoint
    <2>4. pass[w].last \in Nat
      BY <1>3 DEF PassType
    <2>5. purged' \subseteq 1..checkpoint'.last
      BY <1>2, <1>3, <2>2, <2>4
    <2> QED
      BY <1>1, <1>2, <1>6, <2>2, <2>3, <2>5, HolderStep DEF FoldedExactlyOnce
  <1>7. CASE /\ pass' = [pass EXCEPT ![w] = done(d)]
             /\ UNCHANGED << checkpoint, stamp, folds >>
    <2>1. Follows(w, done(d))
      BY <1>1, <1>2, <1>3, <1>5, <1>7 DEF Follows, Running, IInv, PassesFollowCheckpoint
    <2>2. FoldedExactlyOnce'
      BY <1>7 DEF IInv, FoldedExactlyOnce
    <2> QED
      BY <1>1, <1>2, <1>3, <1>7, <2>1, <2>2, HolderStep
  <1> QED
    BY <1>4, <1>6, <1>7

(* The commits behind the days take the rows once.                         *)
LEMMA CommitStep ==
  ASSUME IInv, NEW w \in Workers, CommitPass(w)
  PROVE  FoldedExactlyOnce' /\ PassesFollowCheckpoint'
  <1>1. InPass(w) /\ \A v \in Workers : v # w => ~InPass(v)
    BY OnlyHolder DEF InPass, CommitPass
  <1>2. UNCHANGED << log, purged, lock >>
    BY DEF CommitPass
  <1>3. /\ pass[w] \in PassType /\ lock = w /\ Len(log) \in Nat
        /\ purged \subseteq 1..checkpoint.last /\ checkpoint.last <= Len(log)
        /\ checkpoint.last \in Nat /\ pass \in [Workers -> PassType]
    BY <1>1 DEF IInv, TypeOK, PassesFollowCheckpoint, CheckpointType
  <1> DEFINE idle == [pass[w] EXCEPT !.pc = "purge"]
             next == [pass[w] EXCEPT !.pc = "purge", !.flushed = TRUE]
  <1>4. \/ Flush(w) /\ pass' = [pass EXCEPT ![w] = next]
        \/ /\ pass' = [pass EXCEPT ![w] = idle]
           /\ UNCHANGED << checkpoint, stamp, folds >>
    BY <1>3 DEF CommitPass
  <1>5. /\ next.todo = pass[w].todo /\ next.prev = pass[w].prev /\ next.pc = "purge"
        /\ next.flushed /\ next.last = pass[w].last
    BY <1>3 DEF PassType
  <1>6. /\ idle.todo = pass[w].todo /\ idle.prev = pass[w].prev /\ idle.pc = "purge"
        /\ idle.flushed = pass[w].flushed /\ idle.last = pass[w].last
        /\ idle.base = pass[w].base /\ idle.fresh = pass[w].fresh
    BY <1>3 DEF PassType
  <1> HIDE DEF next, idle
  <1>7. CASE Flush(w) /\ pass' = [pass EXCEPT ![w] = next]
    <2>1. /\ checkpoint'.last = pass[w].last
          /\ checkpoint.last <= checkpoint'.last /\ checkpoint'.last <= Len(log)
          /\ \A r \in RowIds : folds'[r] = IF r <= checkpoint'.last THEN 1 ELSE 0
      BY <1>1, <1>7, FlushTakes
    <2>2. Follows(w, next)
      BY <1>1, <1>2, <1>3, <1>5, <2>1 DEF Follows, Running, IInv, PassesFollowCheckpoint
    <2>3. pass[w].last \in Nat
      BY <1>3 DEF PassType
    <2>4. purged' \subseteq 1..checkpoint'.last
      BY <1>2, <1>3, <2>1, <2>3
    <2> QED
      BY <1>1, <1>2, <1>7, <2>1, <2>2, <2>4, HolderStep DEF FoldedExactlyOnce
  <1>8. CASE /\ pass' = [pass EXCEPT ![w] = idle]
             /\ UNCHANGED << checkpoint, stamp, folds >>
    <2>1. Follows(w, idle)
      BY <1>1, <1>2, <1>3, <1>6, <1>8 DEF Follows, Running, IInv, PassesFollowCheckpoint
    <2>2. FoldedExactlyOnce'
      BY <1>8 DEF IInv, FoldedExactlyOnce
    <2> QED
      BY <1>1, <1>2, <1>3, <1>8, <2>1, <2>2, HolderStep
  <1> QED
    BY <1>4, <1>7, <1>8

(* Retention may be the first commit; it deletes only rows behind it.      *)
LEMMA PurgeStep ==
  ASSUME IInv, NEW w \in Workers, PurgeAndRelease(w)
  PROVE  FoldedExactlyOnce' /\ PassesFollowCheckpoint'
  <1>1. InPass(w) /\ \A v \in Workers : v # w => ~InPass(v)
    BY OnlyHolder DEF InPass, PurgeAndRelease
  <1>2. log' = log /\ pass' = [pass EXCEPT ![w] = IdlePass]
    BY DEF PurgeAndRelease
  <1>3. /\ pass[w] \in PassType /\ Len(log) \in Nat
        /\ purged \subseteq 1..checkpoint.last /\ checkpoint.last <= Len(log)
        /\ checkpoint.last \in Nat /\ RowIds \subseteq Nat \ {0}
    BY <1>1 DEF IInv, TypeOK, PassesFollowCheckpoint, CheckpointType, RowIds
  <1>4. Follows(w, IdlePass)
    BY IdleFollows
  <1>5. CASE pass[w].last = 0
    <2>1. UNCHANGED << checkpoint, folds, purged >>
      BY <1>5 DEF PurgeAndRelease
    <2>2. FoldedExactlyOnce'
      BY <2>1 DEF IInv, FoldedExactlyOnce
    <2> QED
      BY <1>1, <1>2, <1>3, <1>4, <2>1, <2>2, HolderStep
  <1>6. CASE pass[w].last # 0
    <2>1. /\ checkpoint'.last = pass[w].last
          /\ checkpoint.last <= checkpoint'.last /\ checkpoint'.last <= Len(log)
          /\ \A r \in RowIds : folds'[r] = IF r <= checkpoint'.last THEN 1 ELSE 0
      BY <1>1, <1>6, FlushTakes DEF PurgeAndRelease
    <2>2. purged' = purged \union Expired(w)
      BY <1>6 DEF PurgeAndRelease
    <2>3. \A r \in Expired(w) : r \in RowIds /\ r <= pass[w].last
      BY DEF Expired, Table
    <2>4. pass[w].last \in Nat
      BY <1>3 DEF PassType
    <2>5. purged' \subseteq 1..checkpoint'.last
      <3>1. \A r \in purged : r \in 1..pass[w].last
        BY <1>3, <2>1, <2>4
      <3>2. ASSUME NEW r \in Expired(w) PROVE r \in 1..pass[w].last
        <4>1. r \in Nat \ {0} /\ r <= pass[w].last
          BY <1>3, <2>3
        <4> QED
          BY <4>1, <2>4
      <3> QED
        BY <2>1, <2>2, <3>1, <3>2
    <2> QED
      BY <1>1, <1>2, <1>4, <2>1, <2>5, HolderStep DEF FoldedExactlyOnce
  <1> QED
    BY <1>5, <1>6

(* A failed pass takes nothing back that it committed.                     *)
LEMMA FailStep ==
  ASSUME IInv, NEW w \in Workers, PassFails(w)
  PROVE  FoldedExactlyOnce' /\ PassesFollowCheckpoint'
  <1>1. InPass(w) /\ \A v \in Workers : v # w => ~InPass(v)
    BY OnlyHolder DEF PassFails
  <1>2. /\ pass' = [pass EXCEPT ![w] = IdlePass]
        /\ UNCHANGED << log, purged, checkpoint, folds >>
    BY DEF PassFails
  <1>3. FoldedExactlyOnce'
    BY <1>2 DEF IInv, FoldedExactlyOnce
  <1>4. purged' \subseteq 1..checkpoint'.last /\ checkpoint'.last <= Len(log)
    BY <1>2 DEF IInv, PassesFollowCheckpoint
  <1> QED
    BY <1>1, <1>2, <1>3, <1>4, IdleFollows, HolderStep

(* A restart ends every pass and leaves the tables as committed.           *)
LEMMA CrashStep ==
  ASSUME IInv, Crash
  PROVE  FoldedExactlyOnce' /\ PassesFollowCheckpoint'
  <1>1. FoldedExactlyOnce'
    BY DEF Crash, IInv, FoldedExactlyOnce
  <1>2. \A w \in Workers : pass'[w] = IdlePass
    BY DEF Crash
  <1>3. Len(log) \in Nat
    BY DEF IInv, TypeOK
  <1>4. \A w \in Workers :
          /\ pass'[w].todo = {} /\ pass'[w].prev = 0 /\ ~pass'[w].flushed
          /\ ~InPass(w)'
    BY <1>2 DEF IdlePass, InPass
  <1> QED
    BY <1>1, <1>3, <1>4 DEF Crash, IInv, PassesFollowCheckpoint

(* The strengthened invariant is inductive.                                *)
LEMMA StepIInv ==
  ASSUME IInv, [Next]_vars
  PROVE  IInv'
  <1>1. TypeOK'
    BY StepType
  <1> SUFFICES FoldedExactlyOnce' /\ PassesFollowCheckpoint'
    BY <1>1 DEF IInv
  <1>2. CASE UNCHANGED vars
    BY <1>2, QuietStep DEF vars
  <1>3. CASE Tick
    BY <1>3, QuietStep DEF Tick
  <1>4. ASSUME NEW m \in Messages, StoreRow(m)
        PROVE  FoldedExactlyOnce' /\ PassesFollowCheckpoint'
    <2>1. log \in Seq(Messages)
      BY DEF IInv, TypeOK
    <2>2. Len(log') \in Nat /\ Len(log) <= Len(log')
      BY <1>4, <2>1 DEF StoreRow
    <2> DEFINE days == {DayOf(CapturedAt[m]), DayOf(CapturedAt[m]) - 1}
    <2>3. /\ pass' = [pass EXCEPT !["http"] = Requested(days)]
          /\ UNCHANGED << purged, folds, checkpoint, lock >>
      BY <1>4 DEF StoreRow
    <2> HIDE DEF days
    <2> QED
      BY <2>2, <2>3, RequestStep DEF Workers
  <1>5. CASE RequestTimer
    <2>1. /\ pass' = [pass EXCEPT !["timer"] = Requested({})]
          /\ UNCHANGED << log, purged, folds, checkpoint, lock >>
      BY <1>5 DEF RequestTimer
    <2>2. Len(log') \in Nat /\ Len(log) <= Len(log')
      BY <2>1 DEF IInv, TypeOK
    <2> QED
      BY <2>1, <2>2, RequestStep DEF Workers
  <1>6. ASSUME NEW w \in Workers, PassStep(w)
        PROVE  FoldedExactlyOnce' /\ PassesFollowCheckpoint'
    BY <1>6, AcquireStep, CountStep, DayStep, CommitStep, PurgeStep DEF PassStep
  <1>7. ASSUME NEW w \in Workers, PassFails(w)
        PROVE  FoldedExactlyOnce' /\ PassesFollowCheckpoint'
    BY <1>7, FailStep
  <1>8. CASE Crash
    BY <1>8, CrashStep
  <1>9. ASSUME NEW v \in Readings, BeginSave(v)
        PROVE  FoldedExactlyOnce' /\ PassesFollowCheckpoint'
    BY <1>9, QuietStep DEF BeginSave
  <1>10. CASE CommitSave
    BY <1>10, QuietStep DEF CommitSave
  <1>11. CASE AbandonSave
    BY <1>11, QuietStep DEF AbandonSave
  <1> QED
    BY <1>2, <1>3, <1>4, <1>5, <1>6, <1>7, <1>8, <1>9, <1>10, <1>11 DEF Next

(* The strengthened invariant holds in every execution.                    *)
LEMMA SpecIInv == Spec => []IInv
  <1>1. Init => IInv
    BY InitIInv
  <1>2. IInv /\ [Next]_vars => IInv'
    BY StepIInv
  <1> QED
    BY <1>1, <1>2, PTL DEF Spec

(* Every variable keeps its type in every execution.                       *)
THEOREM TypeCorrect == Spec => []TypeOK
  <1>1. IInv => TypeOK
    BY DEF IInv
  <1> QED
    BY <1>1, SpecIInv, PTL

(* Whatever the number of messages, rows, readings, failures and crashes,  *)
(* and however the two workers and the manual reading interleave, the rows *)
(* up to the checkpoint are folded into the odometer exactly once.         *)
THEOREM RowsFoldedExactlyOnce == Spec => []FoldedExactlyOnce
  <1>1. IInv => FoldedExactlyOnce
    BY DEF IInv
  <1> QED
    BY <1>1, SpecIInv, PTL

(* Retention deletes only rows that a committed pass has folded.           *)
THEOREM OnlyFoldedRowsPurged == Spec => []PurgedRowsWereFolded
  <1>1. IInv => PurgedRowsWereFolded
    <2> SUFFICES ASSUME IInv, NEW r \in purged PROVE folds[r] > 0
      BY DEF PurgedRowsWereFolded
    <2>1. r \in RowIds /\ r \in 1..checkpoint.last
      BY DEF IInv, TypeOK, PassesFollowCheckpoint
    <2>2. folds[r] = IF r <= checkpoint.last THEN 1 ELSE 0
      BY <2>1 DEF IInv, FoldedExactlyOnce
    <2>3. checkpoint.last \in 0..MaxRows
      BY DEF IInv, TypeOK, CheckpointType
    <2> QED
      BY <2>1, <2>2, <2>3, BoundsAssumption
  <1> QED
    BY <1>1, SpecIInv, PTL

-----------------------------------------------------------------------------
(***************************************************************************)
(* OdometerProcessor implements OdometerLedger: the steps of a pass, its   *)
(* failures and restarts change nothing the ledger shows, but for the one  *)
(* commit that takes a batch of rows, and the deletion behind it.          *)
(***************************************************************************)

(* What a pass that has not committed yet knows of the miles in the table: *)
(* without a reading saved meanwhile they are those it loaded; it only     *)
(* adds to them, and only for new rows, which it has committed before it   *)
(* deletes any.                                                            *)
Kept(p, miles) ==
  Running(p) /\ ~p.flushed =>
    /\ p.miles >= p.base.miles
    /\ p.fresh = {} => p.miles = p.base.miles
    /\ ~SavesMayRace \/ ~p.base.exists => miles = p.base.miles
    /\ p.pc = "purge" => p.fresh = {}

MilesKept == \A w \in Workers : Kept(pass[w], checkpoint.miles)

LInv == IInv /\ MilesKept

-----------------------------------------------------------------------------
(* The invariant.                                                          *)

(* A step of the lock's holder has to look after its own pass only.        *)
LEMMA HolderKeeps ==
  ASSUME IInv, NEW w \in Workers, NEW p, Kept(p, checkpoint'.miles),
         \A v \in Workers : v # w => ~InPass(v),
         pass' = [pass EXCEPT ![w] = p]
  PROVE  MilesKept'
  <1>1. \A v \in Workers : pass'[v] = IF v = w THEN p ELSE pass[v]
    BY DEF IInv, TypeOK
  <1>2. \A v \in Workers : v # w => ~Running(pass[v])
    BY DEF InPass, Running
  <1>3. ASSUME NEW v \in Workers PROVE Kept(pass'[v], checkpoint'.miles)
    <2>1. CASE v = w
      BY <2>1, <1>1
    <2>2. CASE v # w
      BY <2>2, <1>1, <1>2 DEF Kept
    <2> QED
      BY <2>1, <2>2
  <1> QED
    BY <1>3 DEF MilesKept

(* A pass that is not running knows nothing, nor one that has committed.   *)
LEMMA NothingToKeep ==
  ASSUME NEW p, NEW m, ~Running(p) \/ p.flushed
  PROVE  Kept(p, m)
  BY DEF Kept

(* A step that starts no pass and leaves the miles alone.                  *)
LEMMA RequestKeeps ==
  ASSUME IInv, MilesKept, NEW w \in Workers, NEW days,
         pass' = [pass EXCEPT ![w] = Requested(days)], UNCHANGED checkpoint
  PROVE  MilesKept'
  <1>1. \A v \in Workers : pass'[v] = IF v = w THEN Requested(days) ELSE pass[v]
    BY DEF IInv, TypeOK
  <1>2. ~Running(Requested(days))
    BY RequestedFields DEF Running
  <1>3. ASSUME NEW v \in Workers PROVE Kept(pass'[v], checkpoint'.miles)
    <2>1. CASE v = w
      BY <2>1, <1>1, <1>2, NothingToKeep
    <2>2. CASE v # w
      BY <2>2, <1>1 DEF MilesKept
    <2> QED
      BY <2>1, <2>2
  <1> QED
    BY <1>3 DEF MilesKept

(* A pass starts from the miles it loads.                                  *)
LEMMA AcquireKeeps ==
  ASSUME IInv, NEW w \in Workers, AcquireAndLoad(w)
  PROVE  MilesKept'
  <1>1. \A v \in Workers : ~InPass(v)
    BY DEF IInv, PassesFollowCheckpoint, AcquireAndLoad, LockFree, Nobody, Workers
  <1>2. PICK since \in AnchorTimes(w) :
       pass' = [pass EXCEPT ![w] =
         [@ EXCEPT !.pc     = IF PathRows = {} THEN "days" ELSE "count",
                   !.base   = checkpoint,
                   !.last   = LastTaken,
                   !.since  = since,
                   !.latest = since,
                   !.miles  = checkpoint.miles,
                   !.fresh  = NewRows,
                   !.todo   = PathRows,
                   !.days   = DaysToProcess(NewRows, pass[w].asof, pass[w].touched)]]
    BY DEF AcquireAndLoad
  <1> DEFINE p == [pass[w] EXCEPT !.pc     = IF PathRows = {} THEN "days" ELSE "count",
                   !.base   = checkpoint,
                   !.last   = LastTaken,
                   !.since  = since,
                   !.latest = since,
                   !.miles  = checkpoint.miles,
                   !.fresh  = NewRows,
                   !.todo   = PathRows,
                   !.days   = DaysToProcess(NewRows, pass[w].asof, pass[w].touched)]
  <1>3. pass[w] \in PassType /\ checkpoint.miles \in Nat
    BY DEF IInv, TypeOK, CheckpointType
  <1>4. p.base = checkpoint /\ p.miles = checkpoint.miles /\ p.pc \in {"days", "count"}
    BY <1>3 DEF PassType
  <1>5. pass' = [pass EXCEPT ![w] = p] /\ checkpoint' = checkpoint
    BY <1>2 DEF AcquireAndLoad
  <1> HIDE DEF p
  <1>6. Kept(p, checkpoint'.miles)
    BY <1>3, <1>4, <1>5 DEF Kept
  <1> QED
    BY <1>1, <1>5, <1>6, HolderKeeps

(* A counted row adds miles, and only a new row is counted.                *)
LEMMA CountKeeps ==
  ASSUME IInv, MilesKept, NEW w \in Workers, CountRow(w)
  PROVE  MilesKept'
  <1>1. InPass(w) /\ \A v \in Workers : v # w => ~InPass(v)
    BY OnlyHolder DEF InPass, CountRow
  <1>2. checkpoint' = checkpoint
    BY DEF CountRow
  <1> DEFINE rest(r)  == pass[w].todo \ {r}
             miles(r) == pass[w].miles + SegmentMiles(pass[w].prev, r)
             step(r)  == [pass[w] EXCEPT !.todo = rest(r), !.prev = r,
                            !.pc = IF rest(r) = {} THEN "days" ELSE "count"]
             next(r)  == IF Counts(w, r)
                         THEN [step(r) EXCEPT !.miles = miles(r), !.latest = Time(r),
                                              !.stamps[r] = miles(r)]
                         ELSE step(r)
  <1>3. PICK r \in Earliest(pass[w].todo) : pass' = [pass EXCEPT ![w] = next(r)]
    BY DEF CountRow
  <1>4. /\ pass[w] \in PassType /\ r \in 1..Len(log)
        /\ pass[w].prev \in 0..Len(log) /\ log \in Seq(Messages)
    BY DEF IInv, TypeOK, PassesFollowCheckpoint, Earliest
  <1>5. SegmentMiles(pass[w].prev, r) \in Nat
    <2>1. log[r] \in Messages
      BY <1>4
    <2>2. CASE pass[w].prev = 0
      BY <2>2 DEF SegmentMiles
    <2>3. CASE pass[w].prev # 0
      <3>1. log[pass[w].prev] \in Messages
        BY <1>4, <2>3
      <3> QED
        BY <2>1, <2>3, <3>1, MilesAssumption DEF SegmentMiles
    <2> QED
      BY <2>2, <2>3
  <1>6. pass[w].miles \in Nat /\ pass[w].base.miles \in Nat
    BY <1>4 DEF PassType, CheckpointType
  <1>7. /\ step(r).miles = pass[w].miles /\ step(r).base = pass[w].base
        /\ step(r).fresh = pass[w].fresh /\ step(r).flushed = pass[w].flushed
        /\ step(r).pc \in {"days", "count"} /\ Running(step(r))
    BY <1>4 DEF PassType, Running
  <1>8. step(r) \in PassType
    <2>1. rest(r) \in SUBSET RowIds /\ r \in 0..MaxRows
      BY <1>3, <1>4 DEF PassType, RowIds, Earliest
    <2> HIDE DEF rest
    <2> QED
      BY <1>4, <2>1 DEF PassType
  <1>9. CASE Counts(w, r)
    <2>1. /\ next(r).miles = miles(r) /\ next(r).base = pass[w].base
          /\ next(r).fresh = pass[w].fresh /\ next(r).flushed = pass[w].flushed
          /\ next(r).pc \in {"days", "count"}
      <3> HIDE DEF step, miles
      <3> QED
        BY <1>7, <1>8, <1>9 DEF PassType
    <2> HIDE DEF next
    <2>2. pass[w].fresh # {}
      BY <1>9 DEF Counts
    <2>3. Running(pass[w]) /\ Kept(pass[w], checkpoint.miles)
      BY <1>1 DEF InPass, Running, MilesKept
    <2>4. Kept(next(r), checkpoint'.miles)
      BY <1>2, <1>5, <1>6, <2>1, <2>2, <2>3 DEF Kept
    <2> QED
      BY <1>1, <1>3, <2>4, HolderKeeps
  <1>10. CASE ~Counts(w, r)
    <2>1. next(r) = step(r)
      BY <1>10
    <2> HIDE DEF next, step
    <2>2. Running(pass[w]) /\ Kept(pass[w], checkpoint.miles)
      BY <1>1 DEF InPass, Running, MilesKept
    <2>3. Kept(next(r), checkpoint'.miles)
      BY <1>2, <1>6, <1>7, <2>1, <2>2 DEF Kept
    <2> QED
      BY <1>1, <1>3, <2>3, HolderKeeps
  <1> QED
    BY <1>9, <1>10

(* After its first commit a pass has nothing to keep, before it the table  *)
(* has not changed.                                                        *)
LEMMA DayKeeps ==
  ASSUME IInv, MilesKept, NEW w \in Workers, GenerateDay(w)
  PROVE  MilesKept'
  <1>1. InPass(w) /\ \A v \in Workers : v # w => ~InPass(v)
    BY OnlyHolder DEF InPass, GenerateDay
  <1>2. pass[w] \in PassType /\ pass \in [Workers -> PassType]
    BY DEF IInv, TypeOK
  <1> DEFINE done(d) == [pass[w] EXCEPT !.days = pass[w].days \ {d},
                           !.pc = IF pass[w].days \ {d} = {} THEN "finish" ELSE "days"]
             next(d) == [done(d) EXCEPT !.flushed = TRUE]
  <1>3. PICK d \in pass[w].days :
          \/ pass' = [pass EXCEPT ![w] = next(d)]
          \/ pass' = [pass EXCEPT ![w] = done(d)] /\ UNCHANGED checkpoint
    BY DEF GenerateDay
  <1>4. /\ done(d) \in PassType
        /\ done(d).miles = pass[w].miles /\ done(d).base = pass[w].base
        /\ done(d).fresh = pass[w].fresh /\ done(d).flushed = pass[w].flushed
        /\ done(d).pc \in {"finish", "days"}
    BY <1>2 DEF PassType
  <1> HIDE DEF done
  <1>5. CASE pass' = [pass EXCEPT ![w] = next(d)]
    <2>1. next(d).flushed
      BY <1>4 DEF PassType
    <2> HIDE DEF next
    <2> QED
      BY <1>1, <1>5, <2>1, NothingToKeep, HolderKeeps
  <1>6. CASE pass' = [pass EXCEPT ![w] = done(d)] /\ UNCHANGED checkpoint
    <2>1. Running(pass[w]) /\ Kept(pass[w], checkpoint.miles)
      BY <1>1 DEF InPass, Running, MilesKept
    <2>2. Kept(done(d), checkpoint'.miles)
      BY <1>4, <1>6, <2>1 DEF Kept
    <2> QED
      BY <1>1, <1>6, <2>2, HolderKeeps
  <1> QED
    BY <1>3, <1>5, <1>6

(* Only a pass without new rows goes on to deletion uncommitted.           *)
LEMMA CommitKeeps ==
  ASSUME IInv, MilesKept, NEW w \in Workers, CommitPass(w)
  PROVE  MilesKept'
  <1>1. InPass(w) /\ \A v \in Workers : v # w => ~InPass(v)
    BY OnlyHolder DEF InPass, CommitPass
  <1>2. pass[w] \in PassType /\ pass \in [Workers -> PassType]
    BY DEF IInv, TypeOK
  <1> DEFINE idle == [pass[w] EXCEPT !.pc = "purge"]
             next == [pass[w] EXCEPT !.pc = "purge", !.flushed = TRUE]
  <1>3. \/ pass' = [pass EXCEPT ![w] = next]
        \/ /\ pass' = [pass EXCEPT ![w] = idle]
           /\ pass[w].fresh = {} /\ UNCHANGED checkpoint
    BY <1>2 DEF CommitPass
  <1>4. next.flushed
    BY <1>2 DEF PassType
  <1>5. /\ idle.miles = pass[w].miles /\ idle.base = pass[w].base
        /\ idle.fresh = pass[w].fresh /\ idle.flushed = pass[w].flushed
    BY <1>2 DEF PassType
  <1> HIDE DEF next, idle
  <1>6. CASE pass' = [pass EXCEPT ![w] = next]
    BY <1>1, <1>4, <1>6, NothingToKeep, HolderKeeps
  <1>7. CASE /\ pass' = [pass EXCEPT ![w] = idle]
             /\ pass[w].fresh = {} /\ UNCHANGED checkpoint
    <2>1. Running(pass[w]) /\ Kept(pass[w], checkpoint.miles)
      BY <1>1 DEF InPass, Running, MilesKept
    <2>2. Kept(idle, checkpoint'.miles)
      BY <1>5, <1>7, <2>1 DEF Kept
    <2> QED
      BY <1>1, <1>7, <2>2, HolderKeeps
  <1> QED
    BY <1>3, <1>6, <1>7

(* A reading waits for an inserted checkpoint, and for the lock where it   *)
(* may not race.                                                           *)
LEMMA SaveKeeps ==
  ASSUME IInv, MilesKept, CommitSave
  PROVE  MilesKept'
  <1>1. pass' = pass
    BY DEF CommitSave
  <1>2. ASSUME NEW w \in Workers PROVE Kept(pass[w], checkpoint'.miles)
    <2>1. CASE ~Running(pass[w]) \/ pass[w].flushed
      BY <2>1, NothingToKeep
    <2>2. CASE Running(pass[w]) /\ ~pass[w].flushed
      <3>1. InPass(w) /\ lock = w /\ w # Nobody
        BY <2>2 DEF IInv, PassesFollowCheckpoint, InPass, Running, Workers, Nobody
      <3>2. SavesMayRace /\ pass[w].base.exists
        BY <2>2, <3>1 DEF CommitSave, InsertPending
      <3>3. Kept(pass[w], checkpoint.miles)
        BY DEF MilesKept
      <3> QED
        BY <2>2, <3>2, <3>3 DEF Kept
    <2> QED
      BY <2>1, <2>2
  <1> QED
    BY <1>1, <1>2 DEF MilesKept

(* The invariant of the refinement is inductive.                           *)
LEMMA StepLInv ==
  ASSUME LInv, [Next]_vars
  PROVE  LInv'
  <1>0. IInv /\ MilesKept
    BY DEF LInv
  <1>1. IInv'
    BY <1>0, StepIInv
  <1> SUFFICES MilesKept'
    BY <1>1 DEF LInv
  <1>2. ASSUME UNCHANGED << pass, checkpoint >> PROVE MilesKept'
    BY <1>0, <1>2 DEF MilesKept
  <1>3. ASSUME NEW m \in Messages, StoreRow(m) PROVE MilesKept'
    BY <1>0, <1>3, RequestKeeps DEF StoreRow, Workers
  <1>4. CASE RequestTimer
    BY <1>0, <1>4, RequestKeeps DEF RequestTimer, Workers
  <1>5. ~Running(IdlePass)
    BY DEF Running, IdlePass
  <1>6. ASSUME NEW w \in Workers, PassStep(w) PROVE MilesKept'
    <2>1. CASE PurgeAndRelease(w)
      <3>1. InPass(w) /\ \A v \in Workers : v # w => ~InPass(v)
        BY <1>0, <2>1, OnlyHolder DEF InPass, PurgeAndRelease
      <3>2. pass' = [pass EXCEPT ![w] = IdlePass]
        BY <2>1 DEF PurgeAndRelease
      <3> QED
        BY <1>0, <1>5, <3>1, <3>2, NothingToKeep, HolderKeeps
    <2> QED
      BY <1>0, <1>6, <2>1, AcquireKeeps, CountKeeps, DayKeeps, CommitKeeps DEF PassStep
  <1>7. ASSUME NEW w \in Workers, PassFails(w) PROVE MilesKept'
    <2>1. InPass(w) /\ \A v \in Workers : v # w => ~InPass(v)
      BY <1>0, <1>7, OnlyHolder DEF PassFails
    <2>2. pass' = [pass EXCEPT ![w] = IdlePass]
      BY <1>7 DEF PassFails
    <2> QED
      BY <1>0, <1>5, <2>1, <2>2, NothingToKeep, HolderKeeps
  <1>8. CASE Crash
    <2>1. \A w \in Workers : pass'[w] = IdlePass
      BY <1>8 DEF Crash
    <2> QED
      BY <1>5, <2>1, NothingToKeep DEF MilesKept
  <1>9. CASE CommitSave
    BY <1>0, <1>9, SaveKeeps
  <1> QED
    BY <1>2, <1>3, <1>4, <1>6, <1>7, <1>8, <1>9 DEF Next, vars, Tick, BeginSave, AbandonSave

(* It holds in every execution.                                            *)
LEMMA SpecLInv == Spec => []LInv
  <1>1. Init => LInv
    <2>1. Init => IInv
      BY InitIInv
    <2>2. Init => MilesKept
      BY NothingToKeep DEF Init, MilesKept, Running, IdlePass
    <2> QED
      BY <2>1, <2>2 DEF LInv
  <1>2. LInv /\ [Next]_vars => LInv'
    BY StepLInv
  <1> QED
    BY <1>1, <1>2, PTL DEF Spec

-----------------------------------------------------------------------------
(* The refinement.                                                         *)

(* The first commit of a pass takes its batch; one without new rows        *)
(* changes nothing the ledger shows.                                       *)
LEMMA FlushLedger ==
  ASSUME LInv, NEW w \in Workers, InPass(w), Flush(w)
  PROVE  \/ checkpoint'.last = checkpoint.last /\ checkpoint'.miles = checkpoint.miles
         \/ /\ ~pass[w].flushed /\ pass[w].fresh # {}
            /\ checkpoint'.last \in (checkpoint.last + 1)..Len(log)
            /\ checkpoint'.miles \in Nat
            /\ SavesMayRace \/ checkpoint'.miles >= checkpoint.miles
  <1>1. /\ IInv /\ Running(pass[w]) /\ Kept(pass[w], checkpoint.miles)
        /\ pass[w] \in PassType /\ checkpoint \in CheckpointType
    BY DEF LInv, MilesKept, InPass, Running, IInv, TypeOK
  <1>2. CASE pass[w].flushed
    BY <1>2 DEF Flush
  <1>3. CASE ~pass[w].flushed
    <2>1. checkpoint' = Written(w)
      BY <1>3 DEF Flush
    <2>2. /\ pass[w].last \in checkpoint.last..Len(log) /\ pass[w].base.last = checkpoint.last
          /\ pass[w].fresh = {r \in RowIds : checkpoint.last < r /\ r <= pass[w].last}
      BY <1>1, <1>3 DEF IInv, PassesFollowCheckpoint
    <2>3. checkpoint'.last = pass[w].last
      BY <2>1, <2>2 DEF Written
    <2>4. /\ pass[w].miles \in Nat /\ pass[w].base.miles \in Nat /\ checkpoint.miles \in Nat
          /\ checkpoint.last \in Nat /\ pass[w].last \in Nat /\ Len(log) \in Nat /\ Len(log) <= MaxRows
      <3>1. pass[w].base \in CheckpointType /\ pass[w].miles \in Nat /\ pass[w].last \in 0..MaxRows
        BY <1>1 DEF PassType
      <3>2. log \in Seq(Messages) /\ Len(log) <= MaxRows
        BY <1>1 DEF IInv, TypeOK
      <3> QED
        BY <1>1, <3>1, <3>2 DEF CheckpointType
    <2>5. checkpoint'.miles = IF pass[w].base.exists /\ pass[w].miles = pass[w].base.miles
                              THEN checkpoint.miles ELSE pass[w].miles
      BY <2>1 DEF Written
    <2>6. /\ pass[w].miles >= pass[w].base.miles
          /\ pass[w].fresh = {} => pass[w].miles = pass[w].base.miles
          /\ ~SavesMayRace \/ ~pass[w].base.exists => checkpoint.miles = pass[w].base.miles
      BY <1>1, <1>3 DEF Kept
    <2>7. CASE pass[w].fresh = {}
      <3>1. checkpoint'.miles = checkpoint.miles
        BY <2>4, <2>5, <2>6, <2>7
      <3>2. pass[w].last = checkpoint.last
        <4>1. SUFFICES ASSUME checkpoint.last < pass[w].last PROVE FALSE
          BY <2>2, <2>4
        <4>2. pass[w].last \in RowIds
          BY <2>2, <2>4, <4>1, BoundsAssumption DEF RowIds
        <4> QED
          BY <2>2, <2>4, <2>7, <4>1, <4>2
      <3> QED
        BY <2>3, <3>1, <3>2
    <2>8. CASE pass[w].fresh # {}
      <3>1. checkpoint.last < pass[w].last
        BY <2>2, <2>4, <2>8 DEF RowIds
      <3>2. checkpoint'.last \in (checkpoint.last + 1)..Len(log)
        BY <2>2, <2>3, <2>4, <3>1
      <3>3. checkpoint'.miles \in Nat
        BY <2>4, <2>5
      <3>4. SavesMayRace \/ checkpoint'.miles >= checkpoint.miles
        BY <2>4, <2>5, <2>6, BoundsAssumption
      <3> QED
        BY <1>3, <2>8, <3>2, <3>3, <3>4
    <2> QED
      BY <2>7, <2>8
  <1> QED
    BY <1>2, <1>3

(* A flush beside which rows and deletions stay is a step of the ledger.   *)
LEMMA FlushStep ==
  ASSUME LInv, NEW w \in Workers, InPass(w), Flush(w), UNCHANGED << log, purged >>
  PROVE  [Ledger!Next]_Ledger!vars
  <1>1. CASE checkpoint'.last = checkpoint.last /\ checkpoint'.miles = checkpoint.miles
    BY <1>1 DEF Ledger!vars
  <1>2. CASE /\ checkpoint'.last \in (checkpoint.last + 1)..Len(log)
             /\ checkpoint'.miles \in Nat
             /\ SavesMayRace \/ checkpoint'.miles >= checkpoint.miles
    <2>1. Ledger!Take
      BY <1>2 DEF Ledger!Take
    <2> QED
      BY <2>1 DEF Ledger!Next
  <1> QED
    BY <1>1, <1>2, FlushLedger

(* Deletion takes nothing, and reaches no further than the checkpoint.     *)
LEMMA PurgeLedger ==
  ASSUME LInv, NEW w \in Workers, PurgeAndRelease(w)
  PROVE  [Ledger!Next]_Ledger!vars
  <1>1. InPass(w) /\ pass[w].pc = "purge" /\ log' = log
    BY DEF InPass, PurgeAndRelease
  <1>2. CASE pass[w].last = 0
    BY <1>1, <1>2 DEF PurgeAndRelease, Ledger!vars
  <1>3. CASE pass[w].last # 0
    <2>1. Flush(w) /\ purged' = purged \union Expired(w)
      BY <1>3 DEF PurgeAndRelease
    <2>2. ~pass[w].flushed => pass[w].fresh = {}
      BY <1>1 DEF LInv, MilesKept, Kept, InPass, Running
    <2>3. checkpoint'.last = checkpoint.last /\ checkpoint'.miles = checkpoint.miles
      BY <1>1, <2>1, <2>2, FlushLedger
    <2>4. checkpoint'.last = pass[w].last
      BY <1>1, <2>1, FlushTakes DEF LInv
    <2>5. checkpoint.last \in Nat /\ RowIds \subseteq Nat \ {0}
      BY DEF LInv, IInv, TypeOK, CheckpointType, RowIds
    <2>6. \A r \in Expired(w) : r \in RowIds /\ r <= pass[w].last
      BY DEF Expired, Table
    <2>7. Expired(w) \in SUBSET (1..checkpoint.last)
      <3>1. ASSUME NEW r \in Expired(w) PROVE r \in 1..checkpoint.last
        <4>1. r \in Nat \ {0} /\ r <= checkpoint.last
          BY <2>3, <2>4, <2>5, <2>6
        <4> QED
          BY <2>5, <4>1
      <3> QED
        BY <3>1
    <2>8. Ledger!Delete
      BY <1>1, <2>1, <2>3, <2>7 DEF Ledger!Delete
    <2> QED
      BY <2>8 DEF Ledger!Next
  <1> QED
    BY <1>2, <1>3

(* Every step of the program is a step of the ledger, or changes nothing   *)
(* it shows.                                                               *)
LEMMA StepLedger ==
  ASSUME LInv, [Next]_vars
  PROVE  [Ledger!Next]_Ledger!vars
  <1>1. ASSUME UNCHANGED << log, checkpoint, purged >> PROVE [Ledger!Next]_Ledger!vars
    BY <1>1 DEF Ledger!vars
  <1>2. ASSUME NEW m \in Messages, StoreRow(m) PROVE [Ledger!Next]_Ledger!vars
    <2>1. UNCHANGED << checkpoint, purged >>
      BY <1>2 DEF StoreRow
    <2>2. CASE Stored(m)
      BY <1>1, <1>2, <2>1, <2>2 DEF StoreRow
    <2>3. CASE ~Stored(m)
      <3>1. log \in Seq(Messages) /\ log' = Append(log, m) /\ Len(log) < MaxRows
        BY <1>2, <2>3 DEF StoreRow, LInv, IInv, TypeOK
      <3>2. Len(log') = Len(log) + 1
        BY <3>1
      <3>3. Ledger!Store
        BY <2>1, <3>1, <3>2 DEF Ledger!Store
      <3> QED
        BY <3>3 DEF Ledger!Next
    <2> QED
      BY <2>2, <2>3
  <1>3. ASSUME NEW w \in Workers, PassStep(w) PROVE [Ledger!Next]_Ledger!vars
    <2>1. CASE AcquireAndLoad(w) \/ CountRow(w)
      BY <1>1, <2>1 DEF AcquireAndLoad, CountRow
    <2>2. CASE GenerateDay(w)
      <3>1. InPass(w) /\ UNCHANGED << log, purged >> /\ (Flush(w) \/ UNCHANGED checkpoint)
        BY <2>2 DEF GenerateDay, InPass
      <3> QED
        BY <1>1, <3>1, FlushStep
    <2>3. CASE CommitPass(w)
      <3>1. InPass(w) /\ UNCHANGED << log, purged >> /\ (Flush(w) \/ UNCHANGED checkpoint)
        BY <2>3 DEF CommitPass, InPass
      <3> QED
        BY <1>1, <3>1, FlushStep
    <2> QED
      BY <1>3, <2>1, <2>2, <2>3, PurgeLedger DEF PassStep
  <1>4. CASE CommitSave
    <2>1. /\ checkpoint'.miles = save.miles /\ checkpoint'.last = checkpoint.last
          /\ UNCHANGED << log, purged >> /\ save.miles \in Nat
      BY <1>4 DEF CommitSave, LInv, IInv, TypeOK
    <2>2. Ledger!SetReading
      BY <2>1 DEF Ledger!SetReading
    <2> QED
      BY <2>2 DEF Ledger!Next
  <1> QED
    BY <1>1, <1>2, <1>3, <1>4
    DEF Next, vars, Tick, RequestTimer, PassFails, Crash, BeginSave, AbandonSave

(* The processing pass implements the ledger, for any number of rows,      *)
(* readings, failures and restarts; where readings do not race a pass, the *)
(* odometer moves back only when the user sets it.                         *)
THEOREM PassesImplementLedger == Spec => ImplementsLedger
  <1>1. Init => Ledger!Init
    BY DEF Init, Ledger!Init, NoCheckpoint
  <1>2. LInv /\ [Next]_vars => [Ledger!Next]_Ledger!vars
    BY StepLedger
  <1> QED
    BY <1>1, <1>2, SpecLInv, PTL DEF Spec, ImplementsLedger, Ledger!Spec

-----------------------------------------------------------------------------
(* The record of a pass, step by step.                                     *)

(* What a pass has read and counted is the same in two of its states.      *)
SameRead(p, q) ==
  /\ q.base = p.base /\ q.last = p.last /\ q.since = p.since /\ q.latest = p.latest
  /\ q.miles = p.miles /\ q.fresh = p.fresh /\ q.todo = p.todo /\ q.prev = p.prev
  /\ q.stamps = p.stamps /\ q.asof = p.asof /\ q.touched = p.touched

(* The pass p of worker w goes on as q, alone inside the lock.             *)
GoesOn(w, p, q) ==
  /\ p = pass[w] /\ p \in PassType /\ q \in PassType
  /\ pass' = [pass EXCEPT ![w] = q] /\ \A v \in Workers : pass'[v] = IF v = w THEN q ELSE pass[v]
  /\ \A v \in Workers : v # w => ~InPass(v)

(* It has its first commit in this step, or not in this one.               *)
Commits(w, p, q) ==
  \/ Flush(w) /\ q.flushed
  \/ UNCHANGED << checkpoint, stamp, folds >> /\ q.flushed = p.flushed

(* Nobody is inside the lock when a pass takes it.                         *)
LEMMA AcquireShape ==
  ASSUME IInv, NEW w \in Workers, AcquireAndLoad(w)
  PROVE  \E q \in PassType :
           /\ GoesOn(w, pass[w], q) /\ ~InPass(w)
           /\ q.pc = IF PathRows = {} THEN "days" ELSE "count"
           /\ q.base = checkpoint /\ q.last = LastTaken /\ q.since \in AnchorTimes(w)
           /\ q.latest = q.since /\ q.miles = checkpoint.miles /\ q.fresh = NewRows
           /\ q.todo = PathRows /\ q.prev = pass[w].prev /\ q.stamps = pass[w].stamps
           /\ q.days = DaysToProcess(NewRows, pass[w].asof, pass[w].touched)
           /\ q.asof = pass[w].asof /\ q.touched = pass[w].touched /\ ~q.flushed
  <1>1. PICK since \in AnchorTimes(w) :
       pass' = [pass EXCEPT ![w] =
         [@ EXCEPT !.pc     = IF PathRows = {} THEN "days" ELSE "count",
                   !.base   = checkpoint,
                   !.last   = LastTaken,
                   !.since  = since,
                   !.latest = since,
                   !.miles  = checkpoint.miles,
                   !.fresh  = NewRows,
                   !.todo   = PathRows,
                   !.days   = DaysToProcess(NewRows, pass[w].asof, pass[w].touched)]]
    BY DEF AcquireAndLoad
  <1> DEFINE q == [pass[w] EXCEPT !.pc     = IF PathRows = {} THEN "days" ELSE "count",
                   !.base   = checkpoint,
                   !.last   = LastTaken,
                   !.since  = since,
                   !.latest = since,
                   !.miles  = checkpoint.miles,
                   !.fresh  = NewRows,
                   !.todo   = PathRows,
                   !.days   = DaysToProcess(NewRows, pass[w].asof, pass[w].touched)]
  <1>2. pass \in [Workers -> PassType] /\ pass' \in [Workers -> PassType] /\ pass' = [pass EXCEPT ![w] = q]
    BY <1>1, AcquireType DEF IInv, TypeOK
  <1>3. /\ q.pc = IF PathRows = {} THEN "days" ELSE "count"
        /\ q.base = checkpoint /\ q.last = LastTaken /\ q.since = since
        /\ q.latest = since /\ q.miles = checkpoint.miles /\ q.fresh = NewRows
        /\ q.todo = PathRows /\ q.prev = pass[w].prev /\ q.stamps = pass[w].stamps
        /\ q.days = DaysToProcess(NewRows, pass[w].asof, pass[w].touched)
        /\ q.asof = pass[w].asof /\ q.touched = pass[w].touched /\ q.flushed = pass[w].flushed
    <2>1. pass[w] \in PassType
      BY <1>2
    <2> QED
      BY <2>1 DEF PassType
  <1>4. (\A v \in Workers : ~InPass(v)) /\ ~pass[w].flushed
    BY DEF IInv, PassesFollowCheckpoint, AcquireAndLoad, LockFree, Nobody, Workers, InPass
  <1> HIDE DEF q
  <1>5. q \in PassType /\ \A v \in Workers : pass'[v] = IF v = w THEN q ELSE pass[v]
    BY <1>2
  <1> QED
    BY <1>2, <1>3, <1>4, <1>5 DEF GoesOn

(* A row is passed over, or counted.                                       *)
LEMMA CountShape ==
  ASSUME IInv, NEW w \in Workers, CountRow(w)
  PROVE  \E r \in Earliest(pass[w].todo), q \in PassType :
           /\ GoesOn(w, pass[w], q) /\ InPass(w) /\ UNCHANGED << checkpoint, stamp, folds >>
           /\ q.todo = pass[w].todo \ {r} /\ q.prev = r
           /\ q.pc = IF q.todo = {} THEN "days" ELSE "count"
           /\ q.base = pass[w].base /\ q.last = pass[w].last /\ q.since = pass[w].since
           /\ q.fresh = pass[w].fresh /\ q.flushed = pass[w].flushed /\ q.days = pass[w].days
           /\ q.asof = pass[w].asof /\ q.touched = pass[w].touched
           /\ IF Counts(w, r)
              THEN /\ q.miles = pass[w].miles + SegmentMiles(pass[w].prev, r)
                   /\ q.latest = Time(r) /\ q.stamps = [pass[w].stamps EXCEPT ![r] = q.miles]
              ELSE /\ q.miles = pass[w].miles /\ q.latest = pass[w].latest
                   /\ q.stamps = pass[w].stamps
  <1> DEFINE rest(r)  == pass[w].todo \ {r}
             miles(r) == pass[w].miles + SegmentMiles(pass[w].prev, r)
             step(r)  == [pass[w] EXCEPT !.todo = rest(r), !.prev = r,
                            !.pc = IF rest(r) = {} THEN "days" ELSE "count"]
             next(r)  == IF Counts(w, r)
                         THEN [step(r) EXCEPT !.miles = miles(r), !.latest = Time(r),
                                              !.stamps[r] = miles(r)]
                         ELSE step(r)
  <1>1. PICK r \in Earliest(pass[w].todo) : pass' = [pass EXCEPT ![w] = next(r)]
    BY DEF CountRow
  <1>2. pass \in [Workers -> PassType] /\ pass' \in [Workers -> PassType] /\ pass[w] \in PassType
    BY CountType DEF IInv, TypeOK
  <1>3. /\ step(r).todo = rest(r) /\ step(r).prev = r
        /\ step(r).pc = (IF rest(r) = {} THEN "days" ELSE "count")
        /\ step(r).base = pass[w].base /\ step(r).last = pass[w].last /\ step(r).since = pass[w].since
        /\ step(r).fresh = pass[w].fresh /\ step(r).flushed = pass[w].flushed
        /\ step(r).days = pass[w].days /\ step(r).asof = pass[w].asof
        /\ step(r).touched = pass[w].touched /\ step(r).miles = pass[w].miles
        /\ step(r).latest = pass[w].latest /\ step(r).stamps = pass[w].stamps
    BY <1>2 DEF PassType
  <1>4. step(r) \in PassType
    <2>1. rest(r) \in SUBSET RowIds /\ r \in 0..MaxRows
      BY <1>2 DEF PassType, RowIds, Earliest
    <2> HIDE DEF rest
    <2> QED
      BY <1>2, <2>1 DEF PassType
  <1> HIDE DEF step
  <1>5. /\ next(r).todo = step(r).todo /\ next(r).prev = step(r).prev /\ next(r).pc = step(r).pc
        /\ next(r).base = step(r).base /\ next(r).last = step(r).last /\ next(r).since = step(r).since
        /\ next(r).fresh = step(r).fresh /\ next(r).flushed = step(r).flushed
        /\ next(r).days = step(r).days /\ next(r).asof = step(r).asof
        /\ next(r).touched = step(r).touched
        /\ IF Counts(w, r)
           THEN /\ next(r).miles = miles(r) /\ next(r).latest = Time(r)
                /\ next(r).stamps = [step(r).stamps EXCEPT ![r] = miles(r)]
           ELSE /\ next(r).miles = step(r).miles /\ next(r).latest = step(r).latest
                /\ next(r).stamps = step(r).stamps
    <2> HIDE DEF miles
    <2> QED
      BY <1>4 DEF PassType
  <1> DEFINE q == next(r)
  <1> HIDE DEF next
  <1>6. q \in PassType /\ \A v \in Workers : pass'[v] = IF v = w THEN q ELSE pass[v]
    BY <1>1, <1>2
  <1>7. InPass(w) /\ (\A v \in Workers : v # w => ~InPass(v)) /\ UNCHANGED << checkpoint, stamp, folds >>
    BY OnlyHolder DEF InPass, CountRow
  <1>8. GoesOn(w, pass[w], q)
    BY <1>1, <1>2, <1>6, <1>7 DEF GoesOn
  <1>9. /\ q.todo = pass[w].todo \ {r} /\ q.prev = r
        /\ q.pc = IF q.todo = {} THEN "days" ELSE "count"
        /\ q.base = pass[w].base /\ q.last = pass[w].last /\ q.since = pass[w].since
        /\ q.fresh = pass[w].fresh /\ q.flushed = pass[w].flushed /\ q.days = pass[w].days
        /\ q.asof = pass[w].asof /\ q.touched = pass[w].touched
    BY <1>3, <1>5
  <1>10. IF Counts(w, r)
         THEN /\ q.miles = pass[w].miles + SegmentMiles(pass[w].prev, r)
              /\ q.latest = Time(r) /\ q.stamps = [pass[w].stamps EXCEPT ![r] = q.miles]
         ELSE /\ q.miles = pass[w].miles /\ q.latest = pass[w].latest
              /\ q.stamps = pass[w].stamps
    BY <1>3, <1>5
  <1> HIDE DEF q
  <1> QED
    BY <1>6, <1>7, <1>8, <1>9, <1>10

(* A day is generated.                                                     *)
LEMMA DayShape ==
  ASSUME IInv, NEW w \in Workers, GenerateDay(w)
  PROVE  \E d \in pass[w].days, q \in PassType :
           /\ GoesOn(w, pass[w], q) /\ InPass(w) /\ SameRead(pass[w], q) /\ Commits(w, pass[w], q)
           /\ q.days = pass[w].days \ {d}
           /\ q.pc = IF q.days = {} THEN "finish" ELSE "days"
           /\ generatedFrom' = [generatedFrom EXCEPT ![d] = @ \union Table]
  <1> DEFINE done(d) == [pass[w] EXCEPT !.days = pass[w].days \ {d},
                           !.pc = IF pass[w].days \ {d} = {} THEN "finish" ELSE "days"]
             next(d) == [done(d) EXCEPT !.flushed = TRUE]
  <1>1. PICK d \in pass[w].days :
          /\ \/ Flush(w) /\ pass' = [pass EXCEPT ![w] = next(d)]
             \/ /\ pass' = [pass EXCEPT ![w] = done(d)]
                /\ UNCHANGED << checkpoint, stamp, folds >>
          /\ generatedFrom' = [generatedFrom EXCEPT ![d] = @ \union Table]
    BY DEF GenerateDay
  <1>2. pass \in [Workers -> PassType] /\ pass[w] \in PassType
    BY DEF IInv, TypeOK
  <1>3. /\ done(d) \in PassType /\ SameRead(pass[w], done(d)) /\ done(d).days = pass[w].days \ {d}
        /\ done(d).pc = (IF pass[w].days \ {d} = {} THEN "finish" ELSE "days")
        /\ done(d).flushed = pass[w].flushed
    BY <1>2 DEF PassType, SameRead
  <1> HIDE DEF done
  <1>4. /\ next(d) \in PassType /\ SameRead(done(d), next(d)) /\ next(d).days = done(d).days
        /\ next(d).pc = done(d).pc /\ next(d).flushed
    BY <1>3 DEF PassType, SameRead
  <1> HIDE DEF next
  <1>5. PICK q \in {done(d), next(d)} :
          pass' = [pass EXCEPT ![w] = q] /\ Commits(w, pass[w], q)
    BY <1>1, <1>3, <1>4 DEF Commits
  <1>6. q \in PassType /\ \A v \in Workers : pass'[v] = IF v = w THEN q ELSE pass[v]
    BY <1>2, <1>3, <1>4, <1>5
  <1>7. InPass(w) /\ \A v \in Workers : v # w => ~InPass(v)
    BY OnlyHolder DEF InPass, GenerateDay
  <1>8. GoesOn(w, pass[w], q)
    BY <1>2, <1>5, <1>6, <1>7 DEF GoesOn
  <1>9. /\ SameRead(pass[w], q) /\ q.days = pass[w].days \ {d}
        /\ q.pc = IF q.days = {} THEN "finish" ELSE "days"
    BY <1>3, <1>4, <1>5 DEF SameRead
  <1> QED
    BY <1>1, <1>5, <1>6, <1>7, <1>8, <1>9

(* The commits behind the days.                                            *)
LEMMA CommitShape ==
  ASSUME IInv, NEW w \in Workers, CommitPass(w)
  PROVE  \E q \in PassType :
           /\ GoesOn(w, pass[w], q) /\ InPass(w) /\ SameRead(pass[w], q) /\ Commits(w, pass[w], q)
           /\ q.days = pass[w].days /\ q.pc = "purge"
  <1> DEFINE idle == [pass[w] EXCEPT !.pc = "purge"]
             next == [pass[w] EXCEPT !.pc = "purge", !.flushed = TRUE]
  <1>1. pass \in [Workers -> PassType] /\ pass[w] \in PassType
    BY DEF IInv, TypeOK
  <1>2. \/ Flush(w) /\ pass' = [pass EXCEPT ![w] = next]
        \/ /\ pass' = [pass EXCEPT ![w] = idle]
           /\ UNCHANGED << checkpoint, stamp, folds >>
    BY <1>1 DEF CommitPass
  <1>3. /\ next \in PassType /\ SameRead(pass[w], next) /\ next.days = pass[w].days
        /\ next.pc = "purge" /\ next.flushed
        /\ idle \in PassType /\ SameRead(pass[w], idle) /\ idle.days = pass[w].days
        /\ idle.pc = "purge" /\ idle.flushed = pass[w].flushed
    BY <1>1 DEF PassType, SameRead
  <1> HIDE DEF next, idle
  <1>4. PICK q \in {idle, next} : pass' = [pass EXCEPT ![w] = q] /\ Commits(w, pass[w], q)
    BY <1>2, <1>3 DEF Commits
  <1>5. q \in PassType /\ \A v \in Workers : pass'[v] = IF v = w THEN q ELSE pass[v]
    BY <1>1, <1>3, <1>4
  <1>6. InPass(w) /\ \A v \in Workers : v # w => ~InPass(v)
    BY OnlyHolder DEF InPass, CommitPass
  <1>7. GoesOn(w, pass[w], q)
    BY <1>1, <1>4, <1>5, <1>6 DEF GoesOn
  <1> QED
    BY <1>3, <1>4, <1>5, <1>6, <1>7

-----------------------------------------------------------------------------
(***************************************************************************)
(* The days of every row taken are generated again, until a pass fails.    *)
(* A running pass still has to generate the days of its new rows, or has   *)
(* generated them from a table that holds the row; the table loses rows    *)
(* only when a pass ends.                                                  *)
(***************************************************************************)

(* Nothing is captured later than now, so every day is one of the model.   *)
ClockHolds ==
  /\ now <= MaxTime
  /\ \A r \in 1..Len(log) : Time(r) <= now
  /\ \A w \in Workers :
       pass[w].asof <= now /\ pass[w].touched \subseteq Days /\ pass[w].days \subseteq Days

(* The days of row r are generated, but for those left to do.              *)
RowGenerated(r, left, gen) == \A d \in DaysTouched({r}) : r \in gen[d] \/ d \in left

DaysFollow(p, table, gen) ==
  /\ p.pc \in {"finish", "purge"} => p.days = {}
  /\ p.fresh \subseteq table
  /\ \A r \in p.fresh : RowGenerated(r, p.days, gen)

(* A taken row is generated, or new in a running pass that has committed.  *)
DoneOrFresh(r, gen) ==
  \/ RowGenerated(r, {}, gen)
  \/ \E w \in Workers : InPass(w) /\ pass[w].flushed /\ r \in pass[w].fresh

PassesGenerate == \A w \in Workers : InPass(w) => DaysFollow(pass[w], Table, generatedFrom)
TakenGenerated == \A r \in 1..checkpoint.last : DoneOrFresh(r, generatedFrom)
RegenInv == failures = 0 => PassesGenerate /\ TakenGenerated

GInv == IInv /\ ClockHolds /\ RegenInv

(* A day up to the end of the clock, and the day before it, are days of    *)
(* the model.                                                              *)
LEMMA DayInRange ==
  ASSUME NEW t \in Nat, t <= MaxTime
  PROVE  DayOf(t) \in Days /\ DayOf(t) - 1 \in Days
  <1>1. t \div DayLength \in Nat /\ MaxTime \div DayLength \in Int
    BY BoundsAssumption, Quotient
  <1>2. t \div DayLength <= MaxTime \div DayLength
    BY BoundsAssumption, QuotientMonotonic
  <1> QED
    BY <1>1, <1>2 DEF DayOf, Days

(* So are the days of the rows.                                            *)
LEMMA TouchedInRange ==
  ASSUME TypeOK, ClockHolds, NEW S \in SUBSET (1..Len(log))
  PROVE  DaysTouched(S) \subseteq Days
  <1>1. ASSUME NEW r \in S PROVE {DayOf(Time(r)), DayOf(Time(r)) - 1} \subseteq Days
    <2>1. Time(r) \in Nat /\ Time(r) <= now /\ now <= MaxTime /\ now \in Nat
      BY TimeType DEF ClockHolds, TypeOK
    <2>2. Time(r) <= MaxTime
      BY <2>1, BoundsAssumption
    <2> QED
      BY <2>1, <2>2, DayInRange
  <1> QED
    BY <1>1 DEF DaysTouched

(* The clock and the days of requests and passes stay within the model.    *)
LEMMA StepClock ==
  ASSUME IInv, ClockHolds, [Next]_vars
  PROVE  ClockHolds'
  <1>0. TypeOK /\ now \in Nat /\ MaxTime \in Nat /\ log \in Seq(Messages) /\ pass \in [Workers -> PassType]
    BY BoundsAssumption DEF IInv, TypeOK
  <1>1. ASSUME UNCHANGED << now, log >>, NEW w \in Workers, NEW q,
               \A v \in Workers : pass'[v] = IF v = w THEN q ELSE pass[v],
               q.asof <= now, q.touched \subseteq Days, q.days \subseteq Days
        PROVE  ClockHolds'
    BY <1>1 DEF ClockHolds, Time, Days, DayOf
  <1>2. ASSUME UNCHANGED << now, log, pass >> PROVE ClockHolds'
    BY <1>2 DEF ClockHolds, Time, Days, DayOf
  <1>3. IdlePass.asof <= now /\ IdlePass.touched \subseteq Days /\ IdlePass.days \subseteq Days
    BY <1>0 DEF IdlePass
  <1>4. \A days \in SUBSET Days : /\ Requested(days).asof <= now
                                  /\ Requested(days).touched \subseteq Days
                                  /\ Requested(days).days \subseteq Days
    BY <1>0, <1>3 DEF Requested, IdlePass
  <1>5. \A w \in Workers : pass[w].asof <= now /\ pass[w].touched \subseteq Days /\ pass[w].days \subseteq Days
    BY DEF ClockHolds
  <1>6. CASE Tick
    <2>1. /\ UNCHANGED << log, pass >> /\ now <= now' /\ now' <= MaxTime /\ now' \in Nat
      BY <1>0, <1>6 DEF Tick
    <2>2. \A r \in 1..Len(log) : Time(r) <= now'
      <3>1. \A r \in 1..Len(log) : Time(r) \in Nat /\ Time(r) <= now
        BY <1>0, TimeType DEF ClockHolds
      <3> QED
        BY <1>0, <2>1, <3>1
    <2>3. \A w \in Workers : pass[w].asof <= now'
      <3>1. \A w \in Workers : pass[w].asof \in Nat
        BY <1>0 DEF PassType
      <3> QED
        BY <1>0, <1>5, <2>1, <3>1
    <2> QED
      BY <1>5, <2>1, <2>2, <2>3 DEF ClockHolds, Time, Days, DayOf
  <1>7. ASSUME NEW m \in Messages, StoreRow(m) PROVE ClockHolds'
    <2> DEFINE days == {DayOf(CapturedAt[m]), DayOf(CapturedAt[m]) - 1}
    <2>1. CapturedAt[m] \in Nat /\ CapturedAt[m] <= now
      BY <1>0, <1>7, CapturedAssumption DEF StoreRow, Deliverable
    <2>2. days \in SUBSET Days
      BY <1>0, <2>1, DayInRange DEF ClockHolds
    <2>3. pass' = [pass EXCEPT !["http"] = Requested(days)] /\ now' = now
      BY <1>7 DEF StoreRow
    <2> HIDE DEF days
    <2>4. \A v \in Workers : pass'[v] = IF v = "http" THEN Requested(days) ELSE pass[v]
      BY <1>0, <2>3
    <2>5. \A r \in 1..Len(log') : Time(r)' <= now
      <3>1. CASE log' = log
        BY <3>1 DEF ClockHolds, Time
      <3>2. CASE log' = Append(log, m)
        <4>1. /\ Len(log') = Len(log) + 1 /\ log'[Len(log) + 1] = m
              /\ \A r \in 1..Len(log) : log'[r] = log[r]
          BY <1>0, <3>2
        <4> QED
          BY <1>0, <2>1, <4>1 DEF ClockHolds, Time
      <3> QED
        BY <1>7, <3>1, <3>2 DEF StoreRow
    <2> QED
      BY <1>4, <1>5, <2>2, <2>3, <2>4, <2>5 DEF ClockHolds, Days, DayOf
  <1>8. CASE RequestTimer
    <2>1. pass' = [pass EXCEPT !["timer"] = Requested({})] /\ UNCHANGED << now, log >>
      BY <1>8 DEF RequestTimer
    <2>2. \A v \in Workers : pass'[v] = IF v = "timer" THEN Requested({}) ELSE pass[v]
      BY <1>0, <2>1
    <2> QED
      BY <1>1, <1>4, <2>1, <2>2 DEF Workers
  <1>9. ASSUME NEW w \in Workers, PassStep(w) PROVE ClockHolds'
    <2>0. UNCHANGED << now, log >>
      BY <1>9 DEF PassStep, AcquireAndLoad, CountRow, GenerateDay, CommitPass, PurgeAndRelease
    <2>1. CASE AcquireAndLoad(w)
      <3>1. PICK q \in PassType :
              /\ GoesOn(w, pass[w], q)
              /\ q.days = DaysToProcess(NewRows, pass[w].asof, pass[w].touched)
              /\ q.asof = pass[w].asof /\ q.touched = pass[w].touched
        BY <2>1, AcquireShape
      <3>2. DaysTouched(NewRows) \subseteq Days
        BY <1>0, TouchedInRange, TableType DEF NewRows
      <3>3. DayOf(pass[w].asof) \in Days /\ DayOf(pass[w].asof) - 1 \in Days
        <4>1. pass[w].asof \in Nat /\ pass[w].asof <= now /\ now <= MaxTime
          BY <1>0, <1>5 DEF PassType, ClockHolds
        <4> QED
          BY <1>0, <4>1, DayInRange
      <3>4. q.days \subseteq Days
        BY <1>5, <3>1, <3>2, <3>3 DEF DaysToProcess
      <3> QED
        BY <1>1, <1>5, <2>0, <3>1, <3>4 DEF GoesOn
    <2>2. CASE CountRow(w)
      <3>1. PICK q \in PassType : /\ GoesOn(w, pass[w], q) /\ q.days = pass[w].days
                                  /\ q.asof = pass[w].asof /\ q.touched = pass[w].touched
        BY <2>2, CountShape
      <3> QED
        BY <1>1, <1>5, <2>0, <3>1 DEF GoesOn
    <2>3. CASE GenerateDay(w)
      <3>1. PICK q \in PassType : /\ GoesOn(w, pass[w], q) /\ q.days \subseteq pass[w].days
                                  /\ SameRead(pass[w], q)
        BY <2>3, DayShape
      <3> QED
        BY <1>1, <1>5, <2>0, <3>1 DEF GoesOn, SameRead
    <2>4. CASE CommitPass(w)
      <3>1. PICK q \in PassType : /\ GoesOn(w, pass[w], q) /\ q.days = pass[w].days
                                  /\ SameRead(pass[w], q)
        BY <2>4, CommitShape
      <3> QED
        BY <1>1, <1>5, <2>0, <3>1 DEF GoesOn, SameRead
    <2>5. CASE PurgeAndRelease(w)
      <3>1. \A v \in Workers : pass'[v] = IF v = w THEN IdlePass ELSE pass[v]
        BY <1>0, <2>5 DEF PurgeAndRelease
      <3> QED
        BY <1>1, <1>3, <2>0, <3>1
    <2> QED
      BY <1>9, <2>1, <2>2, <2>3, <2>4, <2>5 DEF PassStep
  <1>10. ASSUME NEW w \in Workers, PassFails(w) PROVE ClockHolds'
    <2>1. \A v \in Workers : pass'[v] = IF v = w THEN IdlePass ELSE pass[v]
      BY <1>0, <1>10 DEF PassFails
    <2> QED
      BY <1>1, <1>3, <1>10, <2>1 DEF PassFails
  <1>11. CASE Crash
    <2>1. UNCHANGED << now, log >> /\ \A v \in Workers : pass'[v] = IdlePass
      BY <1>11 DEF Crash
    <2> QED
      BY <1>3, <2>1 DEF ClockHolds, Time, Days, DayOf
  <1> QED
    BY <1>2, <1>6, <1>7, <1>8, <1>9, <1>10, <1>11 DEF Next, vars, BeginSave, CommitSave, AbandonSave

(* A generated row stays generated while generations see only more rows.   *)
LEMMA GeneratedGrows ==
  ASSUME TypeOK, ClockHolds, NEW r \in 1..Len(log), NEW left, NEW gen, NEW more,
         RowGenerated(r, left, gen), \A d \in Days : gen[d] \subseteq more[d]
  PROVE  RowGenerated(r, left, more)
  <1>1. DaysTouched({r}) \subseteq Days
    BY TouchedInRange
  <1> QED
    BY <1>1 DEF RowGenerated

(* What the days of a row are depends on the stored row only.              *)
LEMMA SameDays ==
  ASSUME NEW r, log'[r] = log[r]
  PROVE  DaysTouched({r})' = DaysTouched({r})
  BY DEF DaysTouched, Time, DayOf

(* The holder of the lock answers for its pass and for the rows it takes.  *)
LEMMA HolderGenerates ==
  ASSUME GInv, failures = 0, NEW w \in Workers, NEW q, GoesOn(w, pass[w], q),
         UNCHANGED << log, purged >>, \A d \in Days : generatedFrom[d] \subseteq generatedFrom'[d],
         DaysFollow(q, Table, generatedFrom'),
         pass[w].fresh \subseteq q.fresh \/ ~InPass(w), pass[w].flushed => q.flushed,
         InPass(w) => Running(q),
         \A r \in 1..checkpoint'.last :
           r <= checkpoint.last \/ (Running(q) /\ q.flushed /\ r \in q.fresh)
  PROVE  (PassesGenerate /\ TakenGenerated)'
  <1>1. /\ TypeOK /\ ClockHolds /\ PassesGenerate /\ TakenGenerated
        /\ checkpoint.last \in Nat /\ checkpoint.last <= Len(log) /\ Len(log) \in Nat
    BY DEF GInv, RegenInv, IInv, TypeOK, CheckpointType, PassesFollowCheckpoint
  <1>2. \A v \in Workers : pass'[v] = IF v = w THEN q ELSE pass[v]
    BY DEF GoesOn
  <1>3. \A v \in Workers : InPass(v)' => v = w
    BY <1>2 DEF GoesOn, InPass
  <1>4. \A r : DaysTouched({r})' = DaysTouched({r})
    BY SameDays
  <1>5. Table' = Table
    BY DEF Table
  <1>6. PassesGenerate'
    BY <1>2, <1>3, <1>4, <1>5 DEF PassesGenerate, DaysFollow, RowGenerated
  <1>7. ASSUME NEW r \in 1..checkpoint'.last PROVE DoneOrFresh(r, generatedFrom)'
    <2>1. CASE Running(q) /\ q.flushed /\ r \in q.fresh
      BY <1>2, <2>1 DEF DoneOrFresh, InPass, Running
    <2>2. CASE r <= checkpoint.last
      <3>1. r \in 1..checkpoint.last /\ r \in 1..Len(log)
        BY <1>1, <2>2
      <3>2. CASE RowGenerated(r, {}, generatedFrom)
        <4>1. RowGenerated(r, {}, generatedFrom')
          BY <1>1, <3>1, <3>2, GeneratedGrows
        <4> QED
          BY <1>4, <4>1 DEF DoneOrFresh, RowGenerated
      <3>3. ASSUME NEW v \in Workers, InPass(v), pass[v].flushed, r \in pass[v].fresh
            PROVE  DoneOrFresh(r, generatedFrom)'
        <4>1. v = w
          BY <3>3 DEF GoesOn
        <4>2. Running(q) /\ q.flushed /\ r \in q.fresh
          BY <3>3, <4>1
        <4> QED
          BY <1>2, <4>2 DEF DoneOrFresh, InPass, Running
      <3> QED
        BY <1>1, <3>1, <3>2, <3>3 DEF TakenGenerated, DoneOrFresh
    <2> QED
      BY <2>1, <2>2
  <1> QED
    BY <1>6, <1>7 DEF TakenGenerated

(* A pass that takes the lock has the days of its new rows ahead of it.    *)
LEMMA AcquireGenerates ==
  ASSUME GInv, failures = 0, NEW w \in Workers, AcquireAndLoad(w)
  PROVE  (PassesGenerate /\ TakenGenerated)'
  <1>1. PICK q \in PassType :
           /\ GoesOn(w, pass[w], q) /\ ~InPass(w)
           /\ q.pc = IF PathRows = {} THEN "days" ELSE "count"
           /\ q.fresh = NewRows
           /\ q.days = DaysToProcess(NewRows, pass[w].asof, pass[w].touched)
    BY AcquireShape DEF GInv
  <1>2. UNCHANGED << log, purged, checkpoint, generatedFrom >>
    BY DEF AcquireAndLoad
  <1>3. DaysFollow(q, Table, generatedFrom')
    BY <1>1 DEF DaysFollow, RowGenerated, NewRows, DaysToProcess, DaysTouched
  <1>4. ~pass[w].flushed
    BY <1>1 DEF GInv, IInv, PassesFollowCheckpoint
  <1>5. \A r \in 1..checkpoint'.last : r <= checkpoint.last
    BY <1>2
  <1>6. \A d \in Days : generatedFrom[d] \subseteq generatedFrom'[d]
    BY <1>2
  <1> QED
    BY <1>1, <1>2, <1>3, <1>4, <1>5, <1>6, HolderGenerates

(* Counting a row leaves the days alone.                                   *)
LEMMA CountGenerates ==
  ASSUME GInv, failures = 0, NEW w \in Workers, CountRow(w)
  PROVE  (PassesGenerate /\ TakenGenerated)'
  <1>1. PICK q \in PassType :
           /\ GoesOn(w, pass[w], q) /\ InPass(w)
           /\ q.pc = (IF q.todo = {} THEN "days" ELSE "count")
           /\ q.fresh = pass[w].fresh /\ q.flushed = pass[w].flushed /\ q.days = pass[w].days
    BY CountShape DEF GInv
  <1>2. UNCHANGED << log, purged, checkpoint, generatedFrom >>
    BY DEF CountRow
  <1>3. DaysFollow(pass[w], Table, generatedFrom)
    BY <1>1 DEF GInv, RegenInv, PassesGenerate
  <1>4. DaysFollow(q, Table, generatedFrom') /\ Running(q)
    BY <1>1, <1>2, <1>3 DEF DaysFollow, Running
  <1>5. \A r \in 1..checkpoint'.last : r <= checkpoint.last
    BY <1>2
  <1>6. \A d \in Days : generatedFrom[d] \subseteq generatedFrom'[d]
    BY <1>2
  <1> QED
    BY <1>1, <1>2, <1>4, <1>5, <1>6, HolderGenerates

(* The rows a step of the lock's holder puts behind the checkpoint are the *)
(* new rows of its pass.                                                   *)
LEMMA TakesFresh ==
  ASSUME IInv, NEW w \in Workers, InPass(w), Flush(w) \/ UNCHANGED checkpoint
  PROVE  \A r \in 1..checkpoint'.last :
           r <= checkpoint.last \/ (Flush(w) /\ ~pass[w].flushed /\ r \in pass[w].fresh)
  <1>0. /\ checkpoint.last \in Nat /\ Len(log) \in Nat /\ Len(log) <= MaxRows /\ MaxRows \in Nat
        /\ checkpoint.last <= Len(log)
    BY BoundsAssumption DEF IInv, TypeOK, CheckpointType, PassesFollowCheckpoint
  <1>1. CASE UNCHANGED checkpoint
    BY <1>1
  <1>2. CASE Flush(w)
    <2>1. checkpoint'.last = pass[w].last /\ checkpoint'.last <= Len(log)
      BY <1>2, FlushTakes
    <2>2. CASE pass[w].flushed
      BY <1>1, <1>2, <2>2 DEF Flush
    <2>3. CASE ~pass[w].flushed
      <3>1. /\ pass[w].fresh = {r \in RowIds : checkpoint.last < r /\ r <= pass[w].last}
            /\ pass[w].last \in Nat
        BY <1>0, <2>3 DEF IInv, PassesFollowCheckpoint
      <3>2. ASSUME NEW r \in 1..checkpoint'.last PROVE r <= checkpoint.last \/ r \in pass[w].fresh
        BY <1>0, <2>1, <3>1 DEF RowIds
      <3> QED
        BY <1>2, <2>3, <3>2
    <2> QED
      BY <2>2, <2>3
  <1> QED
    BY <1>1, <1>2

(* The day that leaves the list is generated from the rows of the table.   *)
LEMMA DayGenerates ==
  ASSUME GInv, failures = 0, NEW w \in Workers, GenerateDay(w)
  PROVE  (PassesGenerate /\ TakenGenerated)'
  <1>1. PICK d \in pass[w].days, q \in PassType :
           /\ GoesOn(w, pass[w], q) /\ InPass(w) /\ SameRead(pass[w], q) /\ Commits(w, pass[w], q)
           /\ q.days = pass[w].days \ {d}
           /\ q.pc = IF q.days = {} THEN "finish" ELSE "days"
           /\ generatedFrom' = [generatedFrom EXCEPT ![d] = @ \union Table]
    BY DayShape DEF GInv
  <1>2. UNCHANGED << log, purged >>
    BY DEF GenerateDay
  <1>3. DaysFollow(pass[w], Table, generatedFrom) /\ pass[w].days \subseteq Days /\ IInv /\ TypeOK /\ ClockHolds
    BY <1>1 DEF GInv, IInv, ClockHolds, RegenInv, PassesGenerate
  <1>4. \A e \in Days : generatedFrom'[e] = IF e = d THEN generatedFrom[e] \union Table ELSE generatedFrom[e]
    BY <1>1, <1>3 DEF TypeOK
  <1>5. ASSUME NEW r \in pass[w].fresh PROVE RowGenerated(r, q.days, generatedFrom')
    <2>1. r \in Table /\ RowGenerated(r, pass[w].days, generatedFrom)
      BY <1>3 DEF DaysFollow
    <2>2. DaysTouched({r}) \subseteq Days
      BY <1>3, <2>1, TouchedInRange, TableType
    <2>3. ASSUME NEW e \in DaysTouched({r}) PROVE r \in generatedFrom'[e] \/ e \in q.days
      <3>1. e \in Days /\ (r \in generatedFrom[e] \/ e \in pass[w].days)
        BY <2>1, <2>2 DEF RowGenerated
      <3>2. generatedFrom'[e] = IF e = d THEN generatedFrom[e] \union Table ELSE generatedFrom[e]
        BY <1>4, <3>1
      <3> QED
        BY <1>1, <2>1, <3>1, <3>2
    <2> QED
      BY <2>3 DEF RowGenerated
  <1>6. DaysFollow(q, Table, generatedFrom')
    BY <1>1, <1>3, <1>5 DEF DaysFollow, SameRead
  <1>7. \A r \in 1..checkpoint'.last : r <= checkpoint.last \/ (q.flushed /\ r \in q.fresh)
    <2>1. Flush(w) \/ UNCHANGED checkpoint
      BY <1>1 DEF Commits
    <2>2. \A r \in 1..checkpoint'.last :
            r <= checkpoint.last \/ (Flush(w) /\ ~pass[w].flushed /\ r \in pass[w].fresh)
      BY <1>1, <1>3, <2>1, TakesFresh
    <2>3. CASE Flush(w) /\ q.flushed
      BY <1>1, <2>2, <2>3 DEF SameRead
    <2>4. CASE UNCHANGED checkpoint
      BY <2>4
    <2> QED
      BY <1>1, <2>3, <2>4 DEF Commits
  <1>8. Running(q) /\ (pass[w].flushed => q.flushed) /\ pass[w].fresh = q.fresh
    BY <1>1 DEF Running, Commits, SameRead, GoesOn, PassType
  <1>9. \A e \in Days : generatedFrom[e] \subseteq generatedFrom'[e]
    BY <1>4
  <1> QED
    BY <1>1, <1>2, <1>6, <1>7, <1>8, <1>9, HolderGenerates

(* At the end of the days a pass has generated every day of its rows.      *)
LEMMA CommitGenerates ==
  ASSUME GInv, failures = 0, NEW w \in Workers, CommitPass(w)
  PROVE  (PassesGenerate /\ TakenGenerated)'
  <1>1. PICK q \in PassType :
           /\ GoesOn(w, pass[w], q) /\ InPass(w) /\ SameRead(pass[w], q) /\ Commits(w, pass[w], q)
           /\ q.days = pass[w].days /\ q.pc = "purge"
    BY CommitShape DEF GInv
  <1>2. UNCHANGED << log, purged, generatedFrom >> /\ pass[w].pc = "finish"
    BY DEF CommitPass
  <1>3. DaysFollow(pass[w], Table, generatedFrom) /\ IInv
    BY <1>1 DEF GInv, RegenInv, PassesGenerate
  <1>4. DaysFollow(q, Table, generatedFrom')
    BY <1>1, <1>2, <1>3 DEF DaysFollow, SameRead
  <1>5. \A r \in 1..checkpoint'.last : r <= checkpoint.last \/ (q.flushed /\ r \in q.fresh)
    <2>1. Flush(w) \/ UNCHANGED checkpoint
      BY <1>1 DEF Commits
    <2>2. \A r \in 1..checkpoint'.last :
            r <= checkpoint.last \/ (Flush(w) /\ ~pass[w].flushed /\ r \in pass[w].fresh)
      BY <1>1, <1>3, <2>1, TakesFresh
    <2>3. CASE Flush(w) /\ q.flushed
      BY <1>1, <2>2, <2>3 DEF SameRead
    <2>4. CASE UNCHANGED checkpoint
      BY <2>4
    <2> QED
      BY <1>1, <2>3, <2>4 DEF Commits
  <1>6. Running(q) /\ (pass[w].flushed => q.flushed) /\ pass[w].fresh = q.fresh
    BY <1>1 DEF Running, Commits, SameRead, GoesOn, PassType
  <1>7. \A d \in Days : generatedFrom[d] \subseteq generatedFrom'[d]
    BY <1>2
  <1> QED
    BY <1>1, <1>2, <1>4, <1>5, <1>6, <1>7, HolderGenerates

(* So its rows are done when it ends.                                      *)
LEMMA PurgeGenerates ==
  ASSUME GInv, failures = 0, NEW w \in Workers, PurgeAndRelease(w)
  PROVE  (PassesGenerate /\ TakenGenerated)'
  <1>1. /\ InPass(w) /\ pass[w].pc = "purge" /\ (\A v \in Workers : v # w => ~InPass(v))
        /\ UNCHANGED << log, generatedFrom >>
    BY OnlyHolder DEF GInv, InPass, PurgeAndRelease
  <1>2. \A v \in Workers : pass'[v] = IF v = w THEN IdlePass ELSE pass[v]
    BY DEF PurgeAndRelease, GInv, IInv, TypeOK
  <1>3. \A v \in Workers : ~InPass(v)'
    BY <1>1, <1>2 DEF InPass, IdlePass
  <1>4. PassesGenerate'
    BY <1>3 DEF PassesGenerate
  <1>5. \A r \in pass[w].fresh : RowGenerated(r, {}, generatedFrom)
    BY <1>1 DEF GInv, RegenInv, PassesGenerate, DaysFollow
  <1>6. \A r : DaysTouched({r})' = DaysTouched({r})
    BY <1>1, SameDays
  <1>7. checkpoint.last \in Nat
    BY DEF GInv, IInv, TypeOK, CheckpointType
  <1>8. ASSUME NEW r \in 1..checkpoint'.last PROVE RowGenerated(r, {}, generatedFrom)
    <2>1. Flush(w) \/ UNCHANGED checkpoint
      BY DEF PurgeAndRelease
    <2>2. r <= checkpoint.last \/ r \in pass[w].fresh
      BY <1>1, <2>1, TakesFresh DEF GInv
    <2>3. CASE r <= checkpoint.last
      <3>1. DoneOrFresh(r, generatedFrom)
        BY <1>7, <2>3 DEF GInv, RegenInv, TakenGenerated
      <3> QED
        BY <1>1, <1>5, <3>1 DEF DoneOrFresh
    <2> QED
      BY <1>5, <2>2, <2>3
  <1>9. TakenGenerated'
    BY <1>1, <1>6, <1>8 DEF TakenGenerated, DoneOrFresh, RowGenerated
  <1> QED
    BY <1>4, <1>9

(* A step outside the lock may store a row, and ends no pass.              *)
LEMMA OutsideGenerates ==
  ASSUME GInv, failures = 0, checkpoint'.last = checkpoint.last, UNCHANGED << purged, generatedFrom >>,
         Len(log') \in Nat, Len(log) <= Len(log'), \A r \in 1..Len(log) : log'[r] = log[r],
         \A v \in Workers : InPass(v) \/ InPass(v)' => pass'[v] = pass[v]
  PROVE  (PassesGenerate /\ TakenGenerated)'
  <1>1. /\ TypeOK /\ PassesGenerate /\ TakenGenerated
        /\ checkpoint.last \in Nat /\ checkpoint.last <= Len(log) /\ Len(log) \in Nat
    BY DEF GInv, RegenInv, IInv, TypeOK, CheckpointType, PassesFollowCheckpoint
  <1>2. Table \subseteq Table' /\ Table \subseteq 1..Len(log)
    BY <1>1, TableType DEF Table, RowIds
  <1>3. \A r \in 1..Len(log) : DaysTouched({r})' = DaysTouched({r})
    BY SameDays
  <1>4. ASSUME NEW v \in Workers, InPass(v)' PROVE DaysFollow(pass[v], Table, generatedFrom)'
    <2>1. pass'[v] = pass[v] /\ InPass(v)
      BY <1>4 DEF InPass
    <2>2. DaysFollow(pass[v], Table, generatedFrom)
      BY <1>1, <2>1 DEF PassesGenerate
    <2> QED
      BY <1>2, <1>3, <2>1, <2>2 DEF DaysFollow, RowGenerated
  <1>5. ASSUME NEW r \in 1..checkpoint'.last PROVE DoneOrFresh(r, generatedFrom)'
    <2>1. r \in 1..Len(log) /\ DoneOrFresh(r, generatedFrom)
      BY <1>1 DEF TakenGenerated
    <2>2. CASE RowGenerated(r, {}, generatedFrom)
      BY <1>3, <2>1, <2>2 DEF DoneOrFresh, RowGenerated
    <2>3. ASSUME NEW v \in Workers, InPass(v), pass[v].flushed, r \in pass[v].fresh
          PROVE  DoneOrFresh(r, generatedFrom)'
      BY <2>3 DEF DoneOrFresh, InPass
    <2> QED
      BY <2>1, <2>2, <2>3 DEF DoneOrFresh
  <1> QED
    BY <1>4, <1>5 DEF PassesGenerate, TakenGenerated

(* The strengthened invariant is inductive.                                *)
LEMMA StepGInv ==
  ASSUME GInv, [Next]_vars
  PROVE  GInv'
  <1>0. IInv /\ ClockHolds /\ TypeOK /\ log \in Seq(Messages) /\ pass \in [Workers -> PassType]
    BY DEF GInv, IInv, TypeOK
  <1>1. IInv' /\ ClockHolds'
    BY <1>0, StepIInv, StepClock
  <1> SUFFICES ASSUME failures' = 0 PROVE (PassesGenerate /\ TakenGenerated)'
    BY <1>1 DEF GInv, RegenInv
  <1>2. failures = 0 /\ ~Crash /\ \A w \in Workers : ~PassFails(w)
    <2>1. failures \in Nat
      BY <1>0 DEF TypeOK
    <2>2. failures' # failures + 1
      BY <2>1
    <2>3. ~Crash /\ \A w \in Workers : ~PassFails(w)
      BY <2>2 DEF Crash, PassFails
    <2>4. failures' = failures
      BY <2>3 DEF Next, vars, Tick, StoreRow, RequestTimer, PassStep, AcquireAndLoad, CountRow,
                  GenerateDay, CommitPass, PurgeAndRelease, BeginSave, CommitSave, AbandonSave
    <2> QED
      BY <2>3, <2>4
  <1>3. Len(log) \in Nat
    BY <1>0
  <1>4. ASSUME UNCHANGED << log, purged, generatedFrom, pass >>, checkpoint'.last = checkpoint.last
        PROVE  (PassesGenerate /\ TakenGenerated)'
    BY <1>2, <1>3, <1>4, OutsideGenerates
  <1>5. ASSUME NEW m \in Messages, StoreRow(m) PROVE (PassesGenerate /\ TakenGenerated)'
    <2> DEFINE days == {DayOf(CapturedAt[m]), DayOf(CapturedAt[m]) - 1}
    <2>1. /\ pass' = [pass EXCEPT !["http"] = Requested(days)] /\ pass["http"].pc = "idle"
          /\ UNCHANGED << purged, generatedFrom, checkpoint >>
      BY <1>5 DEF StoreRow
    <2> HIDE DEF days
    <2>2. \A v \in Workers : pass'[v] = IF v = "http" THEN Requested(days) ELSE pass[v]
      BY <1>0, <2>1
    <2>3. \A v \in Workers : InPass(v) \/ InPass(v)' => pass'[v] = pass[v]
      BY <2>1, <2>2, RequestedFields DEF InPass
    <2>4. log' = log \/ log' = Append(log, m)
      BY <1>5 DEF StoreRow
    <2>5. Len(log') \in Nat /\ Len(log) <= Len(log') /\ \A r \in 1..Len(log) : log'[r] = log[r]
      BY <1>0, <2>4
    <2> QED
      BY <1>2, <2>1, <2>3, <2>5, OutsideGenerates
  <1>6. CASE RequestTimer
    <2>1. /\ pass' = [pass EXCEPT !["timer"] = Requested({})] /\ pass["timer"].pc = "idle"
          /\ UNCHANGED << log, purged, generatedFrom, checkpoint >>
      BY <1>6 DEF RequestTimer
    <2>2. \A v \in Workers : pass'[v] = IF v = "timer" THEN Requested({}) ELSE pass[v]
      BY <1>0, <2>1
    <2>3. \A v \in Workers : InPass(v) \/ InPass(v)' => pass'[v] = pass[v]
      BY <2>1, <2>2, RequestedFields DEF InPass
    <2> QED
      BY <1>2, <1>3, <2>1, <2>3, OutsideGenerates
  <1>7. ASSUME NEW w \in Workers, PassStep(w) PROVE (PassesGenerate /\ TakenGenerated)'
    BY <1>2, <1>7, AcquireGenerates, CountGenerates, DayGenerates, CommitGenerates, PurgeGenerates
    DEF PassStep
  <1> QED
    BY <1>2, <1>4, <1>5, <1>6, <1>7 DEF Next, vars, Tick, BeginSave, CommitSave, AbandonSave

(* Until a pass fails or the process dies, every row taken has had its day *)
(* and the day before generated from a table that holds it, or the pass    *)
(* that took it still has that day ahead, whatever is stored, requested or *)
(* saved while it runs.                                                    *)
THEOREM TakenRowsRegenerated == Spec => []RegeneratedUnlessFailed
  <1>1. Init => GInv
    <2>1. Init => IInv
      BY InitIInv
    <2>2. Init => ClockHolds
      BY BoundsAssumption DEF Init, ClockHolds, IdlePass
    <2>3. Init => RegenInv
      BY DEF Init, RegenInv, PassesGenerate, TakenGenerated, InPass, IdlePass, NoCheckpoint
    <2> QED
      BY <2>1, <2>2, <2>3 DEF GInv
  <1>2. GInv /\ [Next]_vars => GInv'
    BY StepGInv
  <1>3. GInv => RegeneratedUnlessFailed
    <2> SUFFICES ASSUME GInv, failures = 0, NEW r \in 1..checkpoint.last, NEW d \in DaysTouched({r}),
                        r \notin generatedFrom[d]
                 PROVE  \E w \in Workers : InPass(w) /\ pass[w].flushed /\ d \in pass[w].days
      BY DEF RegeneratedUnlessFailed, RowDaysRegenerated
    <2>1. PICK w \in Workers : InPass(w) /\ pass[w].flushed /\ r \in pass[w].fresh
      BY DEF GInv, RegenInv, TakenGenerated, DoneOrFresh, RowGenerated
    <2>2. RowGenerated(r, pass[w].days, generatedFrom)
      BY <2>1 DEF GInv, RegenInv, PassesGenerate, DaysFollow
    <2> QED
      BY <2>1, <2>2 DEF RowGenerated
  <1> QED
    BY <1>1, <1>2, <1>3, PTL DEF Spec

-----------------------------------------------------------------------------
(***************************************************************************)
(* Until the first manual reading the odometer only rises, and while rows  *)
(* come in the order of their tst it is the length of the path they make.  *)
(* The conditions are about values (rows, a checkpoint ck, stamps st, a    *)
(* pass p) and are tied to the variables by OdometerRises below.           *)
(***************************************************************************)

StampedIn(st) == {r \in RowIds : st[r] # Unstamped}

(* What is committed: stamps behind the checkpoint, rising with tst, none  *)
(* above or after the anchor.                                              *)
Rising(rows, ck, st) ==
  /\ StampedIn(st) \subseteq 1..ck.last
  /\ ~ck.exists => ck = NoCheckpoint
  /\ ck.last = 0 => ck.miles = 0
  /\ \A r \in StampedIn(st) :
       /\ st[r] <= ck.miles /\ CapturedAt[rows[r]] <= ck.at
       /\ \A q \in StampedIn(st) : CapturedAt[rows[q]] < CapturedAt[rows[r]] => st[q] <= st[r]

(* A pass that has not committed: its stamps rise too, from the anchor it  *)
(* has loaded up to where it is, and the rows still to do are not older.   *)
Ascends(rows, p, ck) ==
  /\ p.base = ck
  /\ ck.exists => p.since = ck.at
  /\ p.since <= p.latest /\ ck.miles <= p.miles
  /\ \A r \in StampedIn(p.stamps) :
       /\ r \in p.fresh /\ p.since < CapturedAt[rows[r]] /\ CapturedAt[rows[r]] <= p.latest
       /\ ck.miles <= p.stamps[r] /\ p.stamps[r] <= p.miles
       /\ \A q \in p.todo : CapturedAt[rows[r]] <= CapturedAt[rows[q]]
       /\ \A q \in StampedIn(p.stamps) :
            CapturedAt[rows[q]] < CapturedAt[rows[r]] => p.stamps[q] <= p.stamps[r]

Ordered(rows) ==
  \A r, q \in 1..Len(rows) : r < q => CapturedAt[rows[r]] < CapturedAt[rows[q]]

(* The anchor is at the end of the path through the rows behind it.        *)
OnPath(rows, ck, st) ==
  1 \in StampedIn(st) =>
    ck.miles = PathLength(rows, ck.last) /\ ck.at = CapturedAt[rows[ck.last]]

(* A pass has followed the path to the row it handled last, and has the    *)
(* rows behind that one to do.                                             *)
Reached(p, ck) == IF p.prev = 0 THEN ck.last ELSE p.prev

FollowsPath(rows, p, ck, st) ==
  /\ p.prev = 0 => p.stamps = NoStamps /\ p.miles = ck.miles
  /\ p.prev <= p.last /\ ck.last <= Reached(p, ck)
  /\ p.todo = IF p.prev = 0 /\ p.todo # {}
              THEN {r \in RowIds : ck.last <= r /\ r <= p.last}
              ELSE {r \in RowIds : Reached(p, ck) < r /\ r <= p.last}
  /\ 1 \in StampedIn(st) \union StampedIn(p.stamps) =>
       /\ p.miles = PathLength(rows, Reached(p, ck))
       /\ p.latest = CapturedAt[rows[Reached(p, ck)]]

(* A stamp is a number of miles.                                           *)
LEMMA StampType ==
  ASSUME NEW st \in Stamping, NEW r \in StampedIn(st)
  PROVE  st[r] \in Nat
  BY DEF Stamping, StampedIn

(* The path to the first row has no miles.                                 *)
LEMMA PathStarts ==
  ASSUME NEW rows, NEW n \in {0, 1}
  PROVE  PathLength(rows, n) = 0
  <1>1. 2..n = {}
    OBVIOUS
  <1> QED
    BY <1>1, SumEmpty DEF PathLength

(* From the second row on, each row adds the segment that leads to it.     *)
LEMMA PathGrows ==
  ASSUME NEW rows \in Seq(Messages), NEW n \in Nat \ {0}, n + 1 <= Len(rows)
  PROVE  /\ PathLength(rows, n) \in Nat
         /\ PathLength(rows, n + 1) = PathLength(rows, n) + MilesBetween[<< rows[n], rows[n + 1] >>]
  <1> DEFINE seg(k) == [r \in 2..k |-> MilesBetween[<< rows[r - 1], rows[r] >>]]
  <1>1. \A r \in 2..(n + 1) : MilesBetween[<< rows[r - 1], rows[r] >>] \in Nat
    <2> SUFFICES ASSUME NEW r \in 2..(n + 1) PROVE MilesBetween[<< rows[r - 1], rows[r] >>] \in Nat
      OBVIOUS
    <2>1. rows[r - 1] \in Messages /\ rows[r] \in Messages
      OBVIOUS
    <2> QED
      BY <2>1, MilesAssumption
  <1>2. IsFiniteSet(2..(n + 1)) /\ IsFiniteSet(2..n)
    <2>1. 2 \in Int /\ n \in Int /\ n + 1 \in Int
      OBVIOUS
    <2> QED
      BY <2>1, FS_Interval
  <1>0. n + 1 \in 2..(n + 1) /\ (2..(n + 1)) \ {n + 1} = 2..n /\ (n + 1) - 1 = n
    OBVIOUS
  <1>3. \A r \in 2..(n + 1) : seg(n + 1)[r] \in Nat
    BY <1>1
  <1>4. \A r \in 2..n : seg(n)[r] = seg(n + 1)[r] /\ seg(n)[r] \in Nat
    BY <1>1
  <1>5. seg(n + 1)[n + 1] = MilesBetween[<< rows[n], rows[n + 1] >>]
    BY <1>0
  <1> HIDE DEF seg
  <1>6. SumFunctionOnSet(seg(n + 1), 2..(n + 1)) = seg(n + 1)[n + 1] + SumFunctionOnSet(seg(n + 1), 2..n)
    BY <1>0, <1>2, <1>3, SumRemove
  <1>7. SumFunctionOnSet(seg(n + 1), 2..n) = SumFunctionOnSet(seg(n), 2..n)
    BY <1>2, <1>4, SumSame
  <1>8. SumFunctionOnSet(seg(n), 2..n) \in Nat
    BY <1>2, <1>4, SumRemove
  <1>9. MilesBetween[<< rows[n], rows[n + 1] >>] \in Nat
    BY <1>0, <1>3, <1>5
  <1> QED
    BY <1>5, <1>6, <1>7, <1>8, <1>9 DEF PathLength, seg

(* It is a matter of the rows up to its end only.                          *)
LEMMA SamePath ==
  ASSUME NEW rows, NEW more, NEW n \in Nat, \A r \in 1..n : more[r] = rows[r]
  PROVE  PathLength(more, n) = PathLength(rows, n)
  <1>1. \A r \in 2..n : [x \in 2..n |-> MilesBetween[<< more[x - 1], more[x] >>]][r]
                          = [x \in 2..n |-> MilesBetween[<< rows[x - 1], rows[x] >>]][r]
    <2> SUFFICES ASSUME NEW r \in 2..n
                 PROVE  MilesBetween[<< more[r - 1], more[r] >>] = MilesBetween[<< rows[r - 1], rows[r] >>]
      OBVIOUS
    <2>1. r \in 1..n /\ r - 1 \in 1..n
      OBVIOUS
    <2> QED
      BY <2>1
  <1> QED
    BY <1>1, SumSame, FS_Interval DEF PathLength

(* What is committed stays true of the rows when one more is stored.       *)
LEMMA StoreKeepsRising ==
  ASSUME NEW rows \in Seq(Messages), NEW more \in Seq(Messages),
         Len(rows) <= Len(more), \A r \in 1..Len(rows) : more[r] = rows[r],
         NEW ck \in CheckpointType, NEW st \in Stamping, ck.last <= Len(rows)
  PROVE  /\ Rising(rows, ck, st) => Rising(more, ck, st)
         /\ StampedIn(st) \subseteq 1..ck.last /\ OnPath(rows, ck, st) => OnPath(more, ck, st)
         /\ Ordered(more) => Ordered(rows)
  <1>1. ck.last \in Nat /\ Len(rows) \in Nat /\ Len(more) \in Nat
    BY DEF CheckpointType
  <1>2. Rising(rows, ck, st) => Rising(more, ck, st)
    BY <1>1 DEF Rising
  <1>3. ASSUME StampedIn(st) \subseteq 1..ck.last, OnPath(rows, ck, st), 1 \in StampedIn(st)
        PROVE  ck.miles = PathLength(more, ck.last) /\ ck.at = CapturedAt[more[ck.last]]
    <2>1. ck.last \in 1..Len(rows) /\ \A r \in 1..ck.last : more[r] = rows[r]
      BY <1>1, <1>3
    <2> QED
      BY <1>1, <1>3, <2>1, SamePath DEF OnPath
  <1>4. Ordered(more) => Ordered(rows)
    BY <1>1 DEF Ordered
  <1> QED
    BY <1>2, <1>3, <1>4 DEF OnPath

(* So are those of a pass, which names only rows that are stored.          *)
LEMMA StoreKeepsPass ==
  ASSUME NEW rows \in Seq(Messages), NEW more \in Seq(Messages),
         Len(rows) <= Len(more), \A r \in 1..Len(rows) : more[r] = rows[r],
         NEW ck \in CheckpointType, NEW st \in Stamping, NEW p \in PassType,
         p.fresh \subseteq 1..Len(rows), p.todo \subseteq 1..Len(rows),
         ck.last <= Len(rows), p.prev <= Len(rows), StampedIn(st) \subseteq 1..ck.last,
         Ascends(rows, p, ck)
  PROVE  /\ Ascends(more, p, ck)
         /\ FollowsPath(rows, p, ck, st) => FollowsPath(more, p, ck, st)
  <1>1. ck.last \in Nat /\ Len(rows) \in Nat /\ Len(more) \in Nat /\ p.prev \in Nat
    BY DEF CheckpointType, PassType
  <1>2. Ascends(more, p, ck)
    BY <1>1 DEF Ascends
  <1>3. ASSUME FollowsPath(rows, p, ck, st), 1 \in StampedIn(st) \union StampedIn(p.stamps)
        PROVE  /\ p.miles = PathLength(more, Reached(p, ck))
               /\ p.latest = CapturedAt[more[Reached(p, ck)]]
    <2>1. Reached(p, ck) \in 0..Len(rows)
      BY <1>1 DEF Reached
    <2>2. Reached(p, ck) # 0
      <3>1. CASE p.prev # 0
        BY <3>1 DEF Reached
      <3>2. CASE p.prev = 0
        <4>1. StampedIn(p.stamps) = {}
          BY <1>3, <3>2 DEF FollowsPath, NoStamps, StampedIn
        <4>2. 1 \in 1..ck.last
          BY <1>3, <4>1
        <4> QED
          BY <1>1, <3>2, <4>2 DEF Reached
      <3> QED
        BY <3>1, <3>2
    <2>3. \A r \in 1..Reached(p, ck) : more[r] = rows[r]
      BY <1>1, <2>1
    <2>4. Reached(p, ck) \in Nat /\ Reached(p, ck) \in 1..Len(rows)
      BY <1>1, <2>1, <2>2
    <2> QED
      BY <1>3, <2>3, <2>4, SamePath DEF FollowsPath
  <1> QED
    BY <1>2, <1>3 DEF FollowsPath

(* The record of a pass after it handled row r, with the miles it then has *)
(* if the row counts.                                                      *)
Handled(p, q, r, counts, miles, time) ==
  /\ q.todo = p.todo \ {r} /\ q.prev = r /\ q.base = p.base /\ q.last = p.last
  /\ q.since = p.since /\ q.fresh = p.fresh
  /\ IF counts
     THEN q.miles = miles /\ q.latest = time /\ q.stamps = [p.stamps EXCEPT ![r] = q.miles]
     ELSE q.miles = p.miles /\ q.latest = p.latest /\ q.stamps = p.stamps

(* A row that counts is the latest so far and later than the anchor; its   *)
(* stamp is the highest.                                                   *)
LEMMA CountRises ==
  ASSUME NEW rows, NEW ck \in CheckpointType, NEW p \in PassType, NEW q \in PassType,
         NEW r \in p.todo, NEW counts \in BOOLEAN, NEW seg \in Nat, NEW times \in [RowIds -> Int],
         \A x \in p.todo \union p.fresh : times[x] = CapturedAt[rows[x]],
         Handled(p, q, r, counts, p.miles + seg, times[r]),
         counts => r \in p.fresh /\ times[r] > p.since,
         \A x \in p.todo : times[r] <= times[x],
         Ascends(rows, p, ck)
  PROVE  Ascends(rows, q, ck)
  <1>1. /\ ck.miles \in Nat /\ p.miles \in Nat /\ p.since \in Int /\ p.latest \in Int /\ q.latest \in Int
        /\ p.stamps \in Stamping /\ q.stamps \in Stamping /\ r \in RowIds
        /\ p.todo \subseteq RowIds /\ p.fresh \subseteq RowIds
    BY DEF PassType, CheckpointType
  <1>2. \A x \in StampedIn(p.stamps) : p.stamps[x] \in Nat
    BY <1>1, StampType
  <1>3. CASE ~counts
    <2>1. q.todo \subseteq p.todo /\ q.stamps = p.stamps /\ q.miles = p.miles /\ q.latest = p.latest
      BY <1>3 DEF Handled
    <2> QED
      BY <2>1 DEF Handled, Ascends
  <1>4. CASE counts
    <2>1. /\ q.todo \subseteq p.todo /\ q.stamps = [p.stamps EXCEPT ![r] = q.miles]
          /\ q.miles = p.miles + seg /\ q.latest = times[r] /\ q.base = p.base /\ q.since = p.since
          /\ q.fresh = p.fresh /\ times[r] \in Int
      BY <1>1, <1>4 DEF Handled
    <2>2. /\ p.miles <= q.miles /\ q.miles \in Nat
      BY <1>1, <2>1
    <2>3. /\ StampedIn(q.stamps) = StampedIn(p.stamps) \union {r} /\ q.stamps[r] = q.miles
          /\ \A x \in RowIds : x # r => q.stamps[x] = p.stamps[x]
      BY <1>1, <2>1, <2>2 DEF Stamping, StampedIn, Unstamped
    <2>4. \A x \in StampedIn(p.stamps) :
            /\ x \in p.fresh /\ p.since < times[x] /\ times[x] <= p.latest
            /\ ck.miles <= p.stamps[x] /\ p.stamps[x] <= p.miles
            /\ \A y \in p.todo : times[x] <= times[y]
            /\ \A y \in StampedIn(p.stamps) : times[y] < times[x] => p.stamps[y] <= p.stamps[x]
      BY DEF Ascends
    <2>5. /\ ck.miles <= p.miles /\ p.since < times[r] /\ r \in p.fresh
          /\ p.base = ck /\ (ck.exists => p.since = ck.at)
      BY <1>4 DEF Ascends
    <2>6. ASSUME NEW x \in StampedIn(q.stamps)
          PROVE  /\ x \in q.fresh /\ q.since < times[x] /\ times[x] <= q.latest
                 /\ ck.miles <= q.stamps[x] /\ q.stamps[x] <= q.miles
                 /\ \A y \in q.todo : times[x] <= times[y]
                 /\ \A y \in StampedIn(q.stamps) : times[y] < times[x] => q.stamps[y] <= q.stamps[x]
      <3>0. \A y \in RowIds : times[y] \in Int
        OBVIOUS
      <3>1. CASE x = r
        <4>1. /\ x \in q.fresh /\ q.since < times[x] /\ times[x] <= q.latest
              /\ ck.miles <= q.stamps[x] /\ q.stamps[x] <= q.miles
              /\ \A y \in q.todo : times[x] <= times[y]
          BY <1>1, <2>1, <2>2, <2>3, <2>5, <3>1
        <4>2. ASSUME NEW y \in StampedIn(q.stamps), times[y] < times[x] PROVE q.stamps[y] <= q.stamps[x]
          <5>1. y # r /\ y \in StampedIn(p.stamps) /\ y \in RowIds
            BY <2>1, <2>3, <3>1, <4>2 DEF StampedIn
          <5>2. q.stamps[y] = p.stamps[y] /\ p.stamps[y] <= p.miles /\ p.stamps[y] \in Nat
            BY <1>2, <2>3, <2>4, <5>1
          <5> QED
            BY <1>1, <2>2, <2>3, <3>1, <5>2
        <4> QED
          BY <4>1, <4>2
      <3>2. CASE x # r
        <4>1. x \in StampedIn(p.stamps) /\ q.stamps[x] = p.stamps[x] /\ p.stamps[x] \in Nat /\ x \in RowIds
          BY <1>2, <2>3, <3>2 DEF StampedIn
        <4>2. times[x] <= times[r] /\ times[x] \in Int
          BY <2>4, <3>0, <4>1
        <4>3. /\ x \in q.fresh /\ q.since < times[x] /\ times[x] <= q.latest
              /\ ck.miles <= q.stamps[x] /\ q.stamps[x] <= q.miles
              /\ \A y \in q.todo : times[x] <= times[y]
          BY <1>1, <2>1, <2>2, <2>4, <4>1, <4>2
        <4>4. ASSUME NEW y \in StampedIn(q.stamps), times[y] < times[x] PROVE q.stamps[y] <= q.stamps[x]
          <5>1. y # r
            BY <2>1, <4>2, <4>4
          <5>2. y \in StampedIn(p.stamps) /\ q.stamps[y] = p.stamps[y]
            BY <2>3, <5>1 DEF StampedIn
          <5> QED
            BY <2>4, <4>1, <4>4, <5>2
        <4> QED
          BY <4>3, <4>4
      <3> QED
        BY <3>1, <3>2
    <2>7. \A x \in StampedIn(q.stamps) \union q.todo : times[x] = CapturedAt[rows[x]]
      BY <2>1, <2>6
    <2>8. q.since <= q.latest /\ ck.miles <= q.miles
      BY <1>1, <2>1, <2>2, <2>5
    <2> QED
      BY <2>1, <2>5, <2>6, <2>7, <2>8 DEF Ascends
  <1> QED
    BY <1>3, <1>4

(* A commit writes what the pass counted over what it has loaded.          *)
CommittedBy(p, ck2) ==
  ck2 = [exists |-> TRUE, miles |-> p.miles, at |-> p.latest, last |-> p.last]

Merged(st, stamps) == [r \in RowIds |-> IF stamps[r] = Unstamped THEN st[r] ELSE stamps[r]]

(* The rows stamped after a commit.                                        *)
LEMMA MergedStamps ==
  ASSUME NEW st \in Stamping, NEW stamps \in Stamping
  PROVE  /\ StampedIn(Merged(st, stamps)) = StampedIn(st) \union StampedIn(stamps)
         /\ \A r \in StampedIn(stamps) : Merged(st, stamps)[r] = stamps[r]
         /\ \A r \in StampedIn(st) : r \notin StampedIn(stamps) => Merged(st, stamps)[r] = st[r]
  BY DEF Stamping, StampedIn, Merged

(* The stamps of a pass are above those of the passes before it.           *)
LEMMA CommitRises ==
  ASSUME NEW rows, NEW ck \in CheckpointType, NEW st \in Stamping, NEW p \in PassType, NEW ck2,
         NEW times \in [RowIds -> Int],
         \A x \in (1..ck.last) \union p.fresh : times[x] = CapturedAt[rows[x]],
         Rising(rows, ck, st), Ascends(rows, p, ck), CommittedBy(p, ck2),
         ck.last <= p.last, \A r \in p.fresh : ck.last < r /\ r <= p.last,
         p.fresh = {} => p.miles = ck.miles
  PROVE  Rising(rows, ck2, Merged(st, p.stamps))
  <1> DEFINE next == Merged(st, p.stamps)
  <1>1. /\ ck.miles \in Nat /\ ck.last \in Nat /\ p.last \in Nat /\ p.miles \in Nat /\ ck.at \in Int
        /\ p.since \in Int /\ p.latest \in Int /\ p.stamps \in Stamping
        /\ p.fresh \subseteq RowIds /\ RowIds \subseteq Nat \ {0}
    BY BoundsAssumption DEF PassType, CheckpointType, RowIds
  <1>2. ck2.miles = p.miles /\ ck2.last = p.last /\ ck2.at = p.latest /\ ck2.exists
    BY DEF CommittedBy
  <1>3. /\ StampedIn(next) = StampedIn(st) \union StampedIn(p.stamps)
        /\ \A r \in StampedIn(p.stamps) : next[r] = p.stamps[r]
        /\ \A r \in StampedIn(st) : r \notin StampedIn(p.stamps) => next[r] = st[r]
    BY <1>1, MergedStamps
  <1> HIDE DEF next
  <1>4. \A r \in StampedIn(st) :
          /\ r \in 1..ck.last /\ r \in RowIds /\ st[r] \in Nat /\ st[r] <= ck.miles
          /\ times[r] \in Int /\ times[r] <= ck.at
          /\ \A q \in StampedIn(st) : times[q] < times[r] => st[q] <= st[r]
    <2>1. ASSUME NEW r \in StampedIn(st)
          PROVE  /\ r \in 1..ck.last /\ r \in RowIds /\ st[r] \in Nat /\ st[r] <= ck.miles
                 /\ times[r] \in Int /\ times[r] <= ck.at
      BY StampType DEF Rising, StampedIn
    <2>2. \A r \in StampedIn(st) : \A q \in StampedIn(st) : times[q] < times[r] => st[q] <= st[r]
      BY <2>1 DEF Rising
    <2> QED
      BY <2>1, <2>2
  <1>5. \A r \in StampedIn(p.stamps) :
          /\ r \in p.fresh /\ times[r] \in Int /\ p.since < times[r] /\ times[r] <= p.latest
          /\ p.stamps[r] \in Nat /\ ck.miles <= p.stamps[r] /\ p.stamps[r] <= p.miles
          /\ \A q \in StampedIn(p.stamps) : times[q] < times[r] => p.stamps[q] <= p.stamps[r]
    <2>1. ASSUME NEW r \in StampedIn(p.stamps)
          PROVE  /\ r \in p.fresh /\ times[r] \in Int /\ p.since < times[r] /\ times[r] <= p.latest
                 /\ p.stamps[r] \in Nat /\ ck.miles <= p.stamps[r] /\ p.stamps[r] <= p.miles
      BY <1>1, StampType DEF Ascends
    <2>2. \A r \in StampedIn(p.stamps) : \A q \in StampedIn(p.stamps) :
            times[q] < times[r] => p.stamps[q] <= p.stamps[r]
      BY <2>1 DEF Ascends
    <2> QED
      BY <2>1, <2>2
  <1>6. /\ ck.miles <= p.miles /\ p.since <= p.latest
        /\ StampedIn(st) # {} => p.since = ck.at
    <2>1. StampedIn(st) # {} => ck.exists
      BY <1>4 DEF Rising, NoCheckpoint
    <2> QED
      BY <2>1 DEF Ascends
  <1>7. \A r \in StampedIn(st) : r \notin StampedIn(p.stamps) /\ next[r] = st[r]
    <2>1. ASSUME NEW r \in StampedIn(st), r \in StampedIn(p.stamps) PROVE FALSE
      <3>1. r <= ck.last /\ ck.last < r /\ r \in Nat
        BY <1>1, <1>4, <1>5, <2>1
      <3> QED
        BY <1>1, <3>1
    <2> QED
      BY <1>3, <2>1
  <1>8. StampedIn(next) \subseteq 1..ck2.last
    <2>1. ASSUME NEW r \in StampedIn(next) PROVE r \in 1..p.last
      <3>1. CASE r \in StampedIn(st)
        <4>1. r \in 1..ck.last
          BY <1>4, <3>1
        <4> QED
          BY <1>1, <4>1
      <3>2. CASE r \in StampedIn(p.stamps)
        <4>1. r \in Nat \ {0} /\ r <= p.last
          BY <1>1, <1>5, <3>2
        <4> QED
          BY <1>1, <4>1
      <3> QED
        BY <1>3, <3>1, <3>2
    <2> QED
      BY <1>2, <2>1
  <1>9. ASSUME NEW r \in StampedIn(next)
        PROVE  /\ next[r] <= p.miles /\ times[r] <= p.latest
               /\ \A q \in StampedIn(next) : times[q] < times[r] => next[q] <= next[r]
    <2>1. CASE r \in StampedIn(st)
      <3>1. next[r] = st[r] /\ st[r] <= ck.miles /\ st[r] \in Nat /\ times[r] <= ck.at /\ times[r] \in Int
        BY <1>4, <1>7, <2>1
      <3>2. ck.at <= p.latest /\ p.since = ck.at
        BY <1>6, <2>1
      <3>3. next[r] <= p.miles /\ times[r] <= p.latest
        BY <1>1, <1>6, <3>1, <3>2
      <3>4. ASSUME NEW q \in StampedIn(next), times[q] < times[r] PROVE next[q] <= next[r]
        <4>1. CASE q \in StampedIn(st)
          BY <1>4, <1>7, <2>1, <3>4, <4>1
        <4>2. CASE q \in StampedIn(p.stamps)
          <5>1. ck.at < times[q] /\ times[q] \in Int
            BY <1>5, <3>2, <4>2
          <5> QED
            BY <1>1, <3>1, <3>4, <5>1
        <4> QED
          BY <1>3, <4>1, <4>2
      <3> QED
        BY <3>3, <3>4
    <2>2. CASE r \in StampedIn(p.stamps)
      <3>1. /\ next[r] = p.stamps[r] /\ p.stamps[r] \in Nat /\ ck.miles <= p.stamps[r]
            /\ p.stamps[r] <= p.miles /\ times[r] <= p.latest
        BY <1>3, <1>5, <2>2
      <3>2. ASSUME NEW q \in StampedIn(next), times[q] < times[r] PROVE next[q] <= next[r]
        <4>1. CASE q \in StampedIn(st)
          <5>1. next[q] = st[q] /\ st[q] <= ck.miles /\ st[q] \in Nat
            BY <1>4, <1>7, <4>1
          <5> QED
            BY <1>1, <3>1, <5>1
        <4>2. CASE q \in StampedIn(p.stamps)
          BY <1>3, <1>5, <2>2, <3>2, <4>2
        <4> QED
          BY <1>3, <4>1, <4>2
      <3> QED
        BY <3>1, <3>2
    <2> QED
      BY <1>3, <2>1, <2>2
  <1>10. \A r \in StampedIn(next) : times[r] = CapturedAt[rows[r]]
    BY <1>3, <1>4, <1>5
  <1>11. p.last = 0 => p.miles = 0
    <2>1. SUFFICES ASSUME p.last = 0 PROVE p.miles = 0
      OBVIOUS
    <2>2. ck.last = 0
      BY <1>1, <2>1
    <2>3. p.fresh = {}
      <3>1. ASSUME NEW r \in p.fresh PROVE FALSE
        <4>1. r \in Nat \ {0} /\ r <= p.last
          BY <1>1
        <4> QED
          BY <2>1, <4>1
      <3> QED
        BY <3>1
    <2> QED
      BY <2>2, <2>3 DEF Rising
  <1> QED
    BY <1>2, <1>8, <1>9, <1>10, <1>11 DEF Rising, next

(* While rows are in order, a pass handles them in the order of their ids, *)
(* starting with the row behind which the last one stopped, and each but   *)
(* the very first adds the segment from the row before it.                 *)
LEMMA CountFollows ==
  ASSUME NEW rows \in Seq(Messages), NEW ck \in CheckpointType, NEW st \in Stamping,
         NEW p \in PassType, NEW q \in PassType, NEW r \in p.todo, NEW counts \in BOOLEAN, NEW seg,
         Ordered(rows), Rising(rows, ck, st), OnPath(rows, ck, st), Ascends(rows, p, ck),
         FollowsPath(rows, p, ck, st), p.last <= Len(rows), Len(rows) <= MaxRows,
         p.fresh = {x \in RowIds : ck.last < x /\ x <= p.last},
         \A x \in p.todo : CapturedAt[rows[r]] <= CapturedAt[rows[x]],
         counts <=> r \in p.fresh /\ CapturedAt[rows[r]] > p.since,
         seg = IF p.prev = 0 THEN 0 ELSE MilesBetween[<< rows[p.prev], rows[r] >>],
         Handled(p, q, r, counts, p.miles + seg, CapturedAt[rows[r]])
  PROVE  FollowsPath(rows, q, ck, st)
  <1> DEFINE T(x) == CapturedAt[rows[x]]
  <1>1. /\ ck.last \in Nat /\ p.last \in Nat /\ p.prev \in Nat /\ Len(rows) \in Nat /\ ck.at \in Int
        /\ p.miles \in Nat /\ p.since \in Int /\ p.stamps \in Stamping /\ p.todo \subseteq RowIds
        /\ RowIds \subseteq Nat \ {0} /\ MaxRows \in Nat /\ ck.miles \in Nat
        /\ \A x \in 1..Len(rows) : x \in RowIds
    <2>1. ck.last \in Nat /\ ck.at \in Int /\ ck.miles \in Nat
      BY BoundsAssumption DEF CheckpointType
    <2>2. /\ p.last \in Nat /\ p.prev \in Nat /\ p.miles \in Nat /\ p.since \in Int
          /\ p.stamps \in Stamping /\ p.todo \subseteq RowIds
      BY BoundsAssumption DEF PassType
    <2>3. Len(rows) \in Nat /\ MaxRows \in Nat
      BY BoundsAssumption
    <2>4. RowIds \subseteq Nat \ {0} /\ \A x \in 1..Len(rows) : x \in RowIds
      BY <2>3 DEF RowIds
    <2> QED
      BY <2>1, <2>2, <2>3, <2>4
  <1>2. \A x \in 1..Len(rows) : T(x) \in Nat
    BY CapturedAssumption
  <1>3. /\ q.todo = p.todo \ {r} /\ q.prev = r /\ q.last = p.last /\ r \in Nat \ {0} /\ r \in RowIds
        /\ IF counts THEN q.miles = p.miles + seg /\ q.latest = T(r) /\ q.stamps = [p.stamps EXCEPT ![r] = q.miles]
                     ELSE q.miles = p.miles /\ q.latest = p.latest /\ q.stamps = p.stamps
    BY <1>1 DEF Handled
  <1>11. ASSUME p.todo = {x \in RowIds : r <= x /\ x <= p.last}
         PROVE  q.todo = {x \in RowIds : r < x /\ x <= q.last}
    <2>1. \A x \in RowIds : r < x <=> r <= x /\ x # r
      BY <1>1, <1>3
    <2> QED
      BY <1>3, <1>11, <2>1
  <1>4. /\ p.prev = 0 => p.stamps = NoStamps /\ p.miles = ck.miles
        /\ p.prev <= p.last /\ ck.last <= Reached(p, ck)
        /\ p.todo = IF p.prev = 0
                    THEN {x \in RowIds : ck.last <= x /\ x <= p.last}
                    ELSE {x \in RowIds : p.prev < x /\ x <= p.last}
        /\ 1 \in StampedIn(st) \union StampedIn(p.stamps) =>
             /\ p.miles = PathLength(rows, Reached(p, ck))
             /\ p.latest = T(Reached(p, ck))
    BY DEF FollowsPath, Reached
  <1>5. r \in 1..Len(rows) /\ r <= p.last
    BY <1>1, <1>3, <1>4
  <1>6. \A x \in p.todo : r <= x
    <2> HIDE DEF T
    <2>1. ASSUME NEW x \in p.todo, x < r PROVE FALSE
      <3>1. x \in Nat \ {0}
        BY <1>1
      <3>2. x \in 1..Len(rows)
        BY <1>1, <1>5, <2>1, <3>1
      <3>3. T(x) < T(r) /\ T(r) <= T(x) /\ T(x) \in Nat /\ T(r) \in Nat
        BY <1>2, <1>5, <2>1, <3>2 DEF Ordered, T
      <3> QED
        BY <3>3
    <2>2. \A x \in p.todo : x \in Nat
      BY <1>1
    <2> QED
      BY <1>3, <2>1, <2>2
  <1>7. Reached(q, ck) = r
    BY <1>3 DEF Reached
  <1> HIDE DEF T
  <1>8. CASE p.prev = 0 /\ ck.last = 0
    <2>1. r = 1
      <3>1. 1 \in RowIds /\ 1 <= p.last
        BY <1>1, <1>3, <1>5
      <3> QED
        BY <1>1, <1>3, <1>4, <1>6, <1>8, <3>1
    <2>2. q.todo = {x \in RowIds : r < x /\ x <= q.last}
      <3>1. \A x \in RowIds : 0 <= x /\ 1 <= x
        BY <1>1
      <3>2. p.todo = {x \in RowIds : r <= x /\ x <= p.last}
        BY <1>4, <1>8, <2>1, <3>1
      <3> QED
        BY <1>11, <3>2
    <2>3. StampedIn(st) = {} /\ StampedIn(p.stamps) = {} /\ p.miles = 0
      <3>1. StampedIn(p.stamps) = {} /\ p.miles = ck.miles
        BY <1>4, <1>8 DEF StampedIn, NoStamps
      <3>2. StampedIn(st) \subseteq 1..0 /\ ck.miles = 0
        BY <1>8 DEF Rising
      <3> QED
        BY <3>1, <3>2
    <2>4. 1 \in StampedIn(q.stamps) => counts
      BY <1>3, <2>3
    <2>5. counts => q.miles = 0 /\ q.latest = T(1)
      BY <1>3, <1>8, <2>1, <2>3
    <2>6. PathLength(rows, 1) = 0
      BY PathStarts
    <2> QED
      BY <1>1, <1>3, <1>5, <1>7, <1>8, <2>1, <2>2, <2>3, <2>4, <2>5, <2>6 DEF FollowsPath, T
  <1>9. CASE p.prev = 0 /\ ck.last # 0
    <2>1. r = ck.last
      <3>1. ck.last <= r /\ r <= p.last
        BY <1>4, <1>9
      <3>2. ck.last \in RowIds /\ ck.last <= p.last
        BY <1>1, <1>5, <1>9, <3>1
      <3>3. ck.last \in p.todo
        BY <1>1, <1>4, <1>9, <3>2
      <3> QED
        BY <1>1, <1>3, <1>6, <3>1, <3>3
    <2>2. ~counts /\ Reached(p, ck) = ck.last
      BY <1>1, <1>9, <2>1 DEF Reached
    <2>3. q.todo = {x \in RowIds : r < x /\ x <= q.last}
      BY <1>4, <1>9, <1>11, <2>1
    <2> QED
      BY <1>1, <1>3, <1>4, <1>5, <1>7, <2>1, <2>2, <2>3 DEF FollowsPath, T
  <1>10. CASE p.prev # 0
    <2>0. Reached(p, ck) = p.prev /\ ck.last <= p.prev /\ p.prev < r
      BY <1>4, <1>10 DEF Reached
    <2>1. r = p.prev + 1
      <3>1. p.prev + 1 <= r
        BY <1>1, <1>3, <2>0
      <3>2. p.prev + 1 \in RowIds /\ p.prev + 1 <= p.last
        BY <1>1, <1>5, <3>1
      <3>3. p.prev + 1 \in p.todo
        BY <1>1, <1>4, <1>10, <3>2
      <3> QED
        BY <1>1, <1>3, <1>6, <3>1, <3>3
    <2>2. q.todo = {x \in RowIds : r < x /\ x <= q.last}
      <3>1. \A x \in RowIds : p.prev < x <=> r <= x
        BY <1>1, <2>1
      <3> QED
        BY <1>4, <1>10, <1>11, <3>1
    <2>3. r \in p.fresh /\ ck.last < r /\ 1 < r
      BY <1>1, <1>3, <1>5, <1>10, <2>0
    <2>4. ASSUME 1 \in StampedIn(st) \union StampedIn(q.stamps)
          PROVE  q.miles = PathLength(rows, r) /\ q.latest = T(r)
      <3>1. 1 \in StampedIn(st) \union StampedIn(p.stamps)
        BY <1>1, <1>3, <2>3, <2>4 DEF StampedIn, Stamping
      <3>2. p.since < T(r)
        <4>1. CASE 1 \in StampedIn(st)
          <5>1. 1 \in 1..ck.last /\ ck.at = T(ck.last)
            BY <4>1 DEF Rising, OnPath, T
          <5>2. ck.exists /\ p.since = ck.at
            BY <1>1, <5>1 DEF Rising, NoCheckpoint, Ascends
          <5>3. ck.last \in 1..Len(rows)
            BY <1>1, <1>5, <2>3, <5>1
          <5> QED
            BY <1>5, <2>3, <5>1, <5>2, <5>3 DEF Ordered, T
        <4>2. CASE 1 \in StampedIn(p.stamps)
          <5>1. p.since < T(1)
            BY <4>2 DEF Ascends, T
          <5>2. 1 \in 1..Len(rows)
            BY <1>1, <1>5
          <5>3. T(1) < T(r) /\ T(1) \in Nat /\ T(r) \in Nat
            BY <1>2, <1>5, <2>3, <5>2 DEF Ordered, T
          <5> QED
            BY <1>1, <5>1, <5>3
        <4> QED
          BY <3>1, <4>1, <4>2
      <3>3. counts
        <4>1. T(r) \in Nat
          BY <1>2, <1>5
        <4> QED
          BY <1>1, <2>3, <3>2, <4>1 DEF T
      <3>4. p.miles = PathLength(rows, p.prev) /\ seg = MilesBetween[<< rows[p.prev], rows[p.prev + 1] >>]
        BY <1>4, <1>10, <2>0, <2>1, <3>1
      <3>5. PathLength(rows, p.prev + 1) = PathLength(rows, p.prev) + seg
        <4>1. p.prev \in Nat \ {0} /\ p.prev + 1 <= Len(rows)
          BY <1>1, <1>5, <1>10, <2>1
        <4> QED
          BY <3>4, <4>1, PathGrows
      <3> QED
        BY <1>3, <2>1, <3>3, <3>4, <3>5
    <2> QED
      BY <1>1, <1>3, <1>5, <1>7, <2>2, <2>3, <2>4 DEF FollowsPath, T
  <1> QED
    BY <1>8, <1>9, <1>10

(* A pass that has handled all its rows commits the end of the path.       *)
LEMMA CommitEndsPath ==
  ASSUME NEW rows, NEW ck \in CheckpointType, NEW st \in Stamping, NEW p \in PassType, NEW ck2,
         FollowsPath(rows, p, ck, st), CommittedBy(p, ck2), p.todo = {},
         ck.last <= p.last, p.last <= MaxRows
  PROVE  OnPath(rows, ck2, Merged(st, p.stamps))
  <1>1. ck.last \in Nat /\ p.last \in Nat /\ p.prev \in Nat /\ p.stamps \in Stamping
    BY BoundsAssumption DEF PassType, CheckpointType
  <1>2. Reached(p, ck) = p.last
    <2>1. Reached(p, ck) \in Nat /\ Reached(p, ck) <= p.last
      BY <1>1 DEF Reached, FollowsPath
    <2>2. SUFFICES ASSUME Reached(p, ck) < p.last PROVE FALSE
      BY <1>1, <2>1
    <2>3. p.last \in RowIds
      BY <1>1, <2>1, <2>2, BoundsAssumption DEF RowIds
    <2>4. p.last \in {r \in RowIds : Reached(p, ck) < r /\ r <= p.last}
      BY <1>1, <2>2, <2>3
    <2> QED
      BY <2>4 DEF FollowsPath
  <1>3. StampedIn(Merged(st, p.stamps)) = StampedIn(st) \union StampedIn(p.stamps)
    BY <1>1, MergedStamps
  <1> QED
    BY <1>2, <1>3 DEF OnPath, FollowsPath, CommittedBy

(* The conditions, of the variables.                                       *)
Loaded(p) == Running(p) /\ ~p.flushed

PassesRest ==
  \A w \in Workers :
    /\ ~Running(pass[w]) => pass[w].stamps = NoStamps /\ pass[w].prev = 0
    /\ pass[w].pc # "count" => pass[w].todo = {}

NeverFalls ==
  /\ Rising(log, checkpoint, stamp)
  /\ \A w \in Workers : Loaded(pass[w]) => Ascends(log, pass[w], checkpoint)

PathFollowed ==
  /\ OnPath(log, checkpoint, stamp)
  /\ \A w \in Workers : Loaded(pass[w]) => FollowsPath(log, pass[w], checkpoint, stamp)

OdometerRises ==
  /\ PassesRest
  /\ saves = 0 => NeverFalls /\ (Ordered(log) /\ purged = {} => PathFollowed)

RInv == LInv /\ OdometerRises

(* The holder of the lock answers for its pass and for what it commits.    *)
LEMMA HolderRises ==
  ASSUME OdometerRises, NEW w \in Workers, NEW q,
         \A v \in Workers : pass'[v] = IF v = w THEN q ELSE pass[v],
         \A v \in Workers : v # w => ~InPass(v),
         log' = log, purged \subseteq purged', saves' = 0 => saves = 0,
         ~Running(q) => q.stamps = NoStamps /\ q.prev = 0, q.pc # "count" => q.todo = {},
         saves = 0 => Rising(log, checkpoint', stamp') /\ (Loaded(q) => Ascends(log, q, checkpoint')),
         saves = 0 /\ Ordered(log) /\ purged = {} =>
           OnPath(log, checkpoint', stamp') /\ (Loaded(q) => FollowsPath(log, q, checkpoint', stamp'))
  PROVE  OdometerRises'
  <1>1. \A v \in Workers : v # w => ~Running(pass[v])
    BY DEF InPass, Running
  <1>2. PassesRest'
    BY DEF OdometerRises, PassesRest
  <1>3. ASSUME saves' = 0 PROVE NeverFalls'
    BY <1>1, <1>3 DEF NeverFalls, Loaded
  <1>4. ASSUME saves' = 0, Ordered(log'), purged' = {} PROVE PathFollowed'
    BY <1>1, <1>4 DEF PathFollowed, Loaded
  <1> QED
    BY <1>2, <1>3, <1>4 DEF OdometerRises

(* What a first commit leaves in the tables.                               *)
LEMMA FlushRises ==
  ASSUME RInv, saves = 0, NEW w \in Workers, InPass(w), pass[w].pc # "count", Flush(w)
  PROVE  /\ Rising(log, checkpoint', stamp')
         /\ Ordered(log) /\ purged = {} => OnPath(log, checkpoint', stamp')
  <1> DEFINE p == pass[w]
  <1>1. NeverFalls /\ (Ordered(log) /\ purged = {} => PathFollowed) /\ p.todo = {} /\ IInv /\ Kept(p, checkpoint.miles)
    BY DEF RInv, LInv, OdometerRises, PassesRest, MilesKept
  <1>2. CASE p.flushed
    BY <1>1, <1>2 DEF Flush, NeverFalls, PathFollowed
  <1>3. CASE ~p.flushed
    <2>1. /\ p \in PassType /\ checkpoint \in CheckpointType /\ stamp \in Stamping /\ log \in Seq(Messages)
          /\ Len(log) <= MaxRows /\ Len(log) \in Nat
      BY <1>1 DEF IInv, TypeOK
    <2>2. Loaded(p) /\ Running(p)
      BY <1>3 DEF InPass, Running, Loaded
    <2>3. Rising(log, checkpoint, stamp) /\ Ascends(log, p, checkpoint) /\ p.base = checkpoint
      BY <1>1, <2>2 DEF NeverFalls, Ascends
    <2>4. /\ p.last \in checkpoint.last..Len(log) /\ p.last \in Nat /\ checkpoint.last \in Nat
          /\ p.fresh = {r \in RowIds : checkpoint.last < r /\ r <= p.last}
      <3>1. p.last \in Nat /\ checkpoint.last \in Nat
        BY <2>1, BoundsAssumption DEF PassType, CheckpointType
      <3> QED
        BY <1>1, <1>3, <3>1 DEF IInv, PassesFollowCheckpoint
    <2>5. checkpoint' = Written(w) /\ stamp' = Merged(stamp, p.stamps)
      BY <1>3 DEF Flush, Merged
    <2>6. CommittedBy(p, checkpoint')
      BY <2>3, <2>5 DEF Written, CommittedBy
    <2>7. p.fresh = {} => p.miles = checkpoint.miles
      BY <1>1, <1>3, <2>2, <2>3 DEF Kept
    <2>8. /\ checkpoint.last <= p.last /\ p.last <= MaxRows
          /\ \A r \in p.fresh : checkpoint.last < r /\ r <= p.last /\ r \in 1..Len(log)
      BY <2>1, <2>4, BoundsAssumption DEF RowIds
    <2> DEFINE times == [x \in RowIds |-> IF x \in 1..Len(log) THEN CapturedAt[log[x]] ELSE 0]
    <2>9. times \in [RowIds -> Int] /\ \A x \in 1..Len(log) : times[x] = CapturedAt[log[x]]
      <3>1. \A x \in 1..Len(log) : CapturedAt[log[x]] \in Int /\ x \in RowIds
        BY <2>1, CapturedAssumption, BoundsAssumption DEF RowIds
      <3> QED
        BY <3>1
    <2>10. \A x \in (1..checkpoint.last) \union p.fresh : times[x] = CapturedAt[log[x]]
      BY <2>1, <2>4, <2>8, <2>9
    <2> HIDE DEF times, p
    <2>11. Rising(log, checkpoint', Merged(stamp, p.stamps))
      BY <2>1, <2>3, <2>6, <2>7, <2>8, <2>9, <2>10, CommitRises
    <2>12. ASSUME Ordered(log), purged = {} PROVE OnPath(log, checkpoint', Merged(stamp, p.stamps))
      <3>1. FollowsPath(log, p, checkpoint, stamp)
        BY <1>1, <2>2, <2>12 DEF PathFollowed, p
      <3> QED
        BY <1>1, <2>1, <2>6, <2>8, <3>1, CommitEndsPath
    <2> QED
      BY <2>5, <2>11, <2>12
  <1> QED
    BY <1>2, <1>3

(* A pass reads the anchor and the rows behind it.                         *)
LEMMA AcquireRises ==
  ASSUME RInv, NEW w \in Workers, AcquireAndLoad(w)
  PROVE  OdometerRises'
  <1>1. PICK q \in PassType :
           /\ GoesOn(w, pass[w], q) /\ ~InPass(w)
           /\ q.pc = IF PathRows = {} THEN "days" ELSE "count"
           /\ q.base = checkpoint /\ q.last = LastTaken /\ q.since \in AnchorTimes(w)
           /\ q.latest = q.since /\ q.miles = checkpoint.miles /\ q.fresh = NewRows
           /\ q.todo = PathRows /\ q.prev = pass[w].prev /\ q.stamps = pass[w].stamps
    BY AcquireShape DEF RInv, LInv
  <1>2. UNCHANGED << log, purged, saves, checkpoint, stamp >> /\ IInv /\ OdometerRises
    BY DEF AcquireAndLoad, RInv, LInv
  <1>3. q.stamps = NoStamps /\ q.prev = 0 /\ StampedIn(q.stamps) = {}
    BY <1>1, <1>2 DEF OdometerRises, PassesRest, InPass, Running, StampedIn, NoStamps
  <1>4. /\ q.since \in Int /\ q.miles \in Nat /\ checkpoint.last \in Nat /\ Len(log) \in Nat
        /\ Len(log) <= MaxRows /\ MaxRows \in Nat
        /\ checkpoint.last <= Len(log) /\ RowIds \subseteq Nat \ {0}
    <2>1. q.since \in Int /\ q.miles \in Nat
      BY DEF PassType
    <2>2. checkpoint \in CheckpointType /\ log \in Seq(Messages) /\ Len(log) <= MaxRows
      BY <1>2 DEF IInv, TypeOK
    <2>3. checkpoint.last \in Nat /\ checkpoint.last <= Len(log)
      BY <1>2, <2>2, BoundsAssumption DEF CheckpointType, IInv, PassesFollowCheckpoint
    <2>4. RowIds \subseteq Nat \ {0} /\ MaxRows \in Nat
      BY BoundsAssumption DEF RowIds
    <2> QED
      BY <2>1, <2>2, <2>3, <2>4
  <1>5. Ascends(log, q, checkpoint)
    BY <1>1, <1>3, <1>4 DEF Ascends, AnchorTimes
  <1>6. /\ LastTaken \in checkpoint.last..Len(log)
        /\ NewRows = {r \in RowIds : checkpoint.last < r /\ r <= LastTaken}
    BY <1>2, LastTakenInterval
  <1>7. ASSUME saves = 0, Ordered(log), purged = {} PROVE FollowsPath(log, q, checkpoint, stamp)
    <2>1. Reached(q, checkpoint) = checkpoint.last /\ LastTaken \in Nat
      BY <1>3, <1>4, <1>6 DEF Reached
    <2>2. Rising(log, checkpoint, stamp) /\ OnPath(log, checkpoint, stamp)
      BY <1>2, <1>7 DEF OdometerRises, NeverFalls, PathFollowed
    <2>3. q.todo = IF q.todo # {} THEN {r \in RowIds : checkpoint.last <= r /\ r <= LastTaken}
                                  ELSE {r \in RowIds : checkpoint.last < r /\ r <= LastTaken}
      <3>1. CASE NewRows = {}
        BY <1>1, <1>6, <3>1 DEF PathRows
      <3>2. CASE NewRows # {}
        <4>1. q.todo = NewRows \union ({checkpoint.last} \intersect Table) /\ q.todo # {}
          BY <1>1, <3>2 DEF PathRows
        <4>2. {checkpoint.last} \intersect Table = {r \in RowIds : r = checkpoint.last}
          BY <1>4, <1>7 DEF Table
        <4>3. \A r \in RowIds : checkpoint.last <= r <=> checkpoint.last < r \/ r = checkpoint.last
          BY <1>4
        <4>4. checkpoint.last <= LastTaken
          BY <1>4, <1>6
        <4> QED
          BY <1>6, <4>1, <4>2, <4>3, <4>4
      <3> QED
        BY <3>1, <3>2
    <2>4. 1 \in StampedIn(stamp) =>
            /\ q.miles = PathLength(log, checkpoint.last)
            /\ q.latest = CapturedAt[log[checkpoint.last]]
      <3>1. SUFFICES ASSUME 1 \in StampedIn(stamp)
                     PROVE  q.miles = PathLength(log, checkpoint.last) /\ q.latest = CapturedAt[log[checkpoint.last]]
        OBVIOUS
      <3>2. 1 \in 1..checkpoint.last
        BY <2>2, <3>1 DEF Rising
      <3>3. checkpoint.exists
        BY <1>4, <2>2, <3>2 DEF Rising, NoCheckpoint
      <3> QED
        BY <1>1, <2>2, <3>1, <3>3 DEF OnPath, AnchorTimes
    <2> QED
      BY <1>1, <1>3, <1>4, <1>6, <2>1, <2>3, <2>4 DEF FollowsPath
  <1>8. /\ \A v \in Workers : pass'[v] = IF v = w THEN q ELSE pass[v]
        /\ \A v \in Workers : v # w => ~InPass(v)
        /\ q.pc # "count" => q.todo = {}
    BY <1>1 DEF GoesOn
  <1>9. saves = 0 => Rising(log, checkpoint, stamp)
    BY <1>2 DEF OdometerRises, NeverFalls
  <1>10. saves = 0 /\ Ordered(log) /\ purged = {} => OnPath(log, checkpoint, stamp)
    BY <1>2 DEF OdometerRises, PathFollowed
  <1> QED
    BY <1>2, <1>3, <1>5, <1>7, <1>8, <1>9, <1>10, HolderRises

(* A pass counts a row.                                                    *)
LEMMA CountRowRises ==
  ASSUME RInv, NEW w \in Workers, CountRow(w)
  PROVE  OdometerRises'
  <1> DEFINE p == pass[w]
  <1>0. IInv /\ OdometerRises /\ p \in PassType
    BY DEF RInv, LInv, IInv, TypeOK
  <1>1. PICK r \in Earliest(p.todo), q \in PassType :
           /\ GoesOn(w, p, q) /\ InPass(w) /\ UNCHANGED << checkpoint, stamp, folds >>
           /\ q.todo = p.todo \ {r} /\ q.prev = r
           /\ q.pc = IF q.todo = {} THEN "days" ELSE "count"
           /\ q.base = p.base /\ q.last = p.last /\ q.since = p.since
           /\ q.fresh = p.fresh /\ q.flushed = p.flushed
           /\ IF Counts(w, r)
              THEN /\ q.miles = p.miles + SegmentMiles(p.prev, r)
                   /\ q.latest = Time(r) /\ q.stamps = [p.stamps EXCEPT ![r] = q.miles]
              ELSE /\ q.miles = p.miles /\ q.latest = p.latest
                   /\ q.stamps = p.stamps
    BY <1>0, CountShape
  <1>2. UNCHANGED << log, purged, saves, checkpoint, stamp >>
    BY DEF CountRow
  <1>3. /\ log \in Seq(Messages) /\ Len(log) <= MaxRows /\ Len(log) \in Nat /\ MaxRows \in Nat
        /\ checkpoint \in CheckpointType /\ stamp \in Stamping
        /\ r \in p.todo /\ p.todo \subseteq 1..Len(log) /\ p.prev \in 0..Len(log)
    BY <1>0, BoundsAssumption DEF IInv, TypeOK, PassesFollowCheckpoint, Earliest
  <1> DEFINE seg == SegmentMiles(p.prev, r)
             counts == r \in p.fresh /\ CapturedAt[log[r]] > p.since
             times == [x \in RowIds |-> IF x \in 1..Len(log) THEN CapturedAt[log[x]] ELSE 0]
  <1>4. seg \in Nat
    <2>1. log[r] \in Messages
      BY <1>3
    <2>2. CASE p.prev = 0
      BY <2>2 DEF SegmentMiles
    <2>3. CASE p.prev # 0
      <3>1. log[p.prev] \in Messages
        BY <1>3, <2>3
      <3> QED
        BY <2>1, <2>3, <3>1, MilesAssumption DEF SegmentMiles
    <2> QED
      BY <2>2, <2>3
  <1>5. \A x \in 1..Len(log) : CapturedAt[log[x]] \in Nat /\ x \in RowIds
    BY <1>3, CapturedAssumption DEF RowIds
  <1>6. times \in [RowIds -> Int] /\ \A x \in 1..Len(log) : times[x] = CapturedAt[log[x]]
    BY <1>5
  <1>7. \A x \in p.todo : CapturedAt[log[r]] <= CapturedAt[log[x]]
    <2>1. ASSUME NEW x \in p.todo PROVE CapturedAt[log[r]] <= CapturedAt[log[x]]
      <3>1. CapturedAt[log[r]] < CapturedAt[log[x]] \/ CapturedAt[log[r]] = CapturedAt[log[x]]
        BY <1>1 DEF Earliest, Before, Time
      <3>2. CapturedAt[log[r]] \in Nat /\ CapturedAt[log[x]] \in Nat
        BY <1>3, <1>5
      <3> QED
        BY <3>1, <3>2
    <2> QED
      BY <2>1
  <1>8. counts \in BOOLEAN /\ (counts <=> Counts(w, r))
    BY DEF Counts, Time
  <1>9. Handled(p, q, r, counts, p.miles + seg, CapturedAt[log[r]])
    BY <1>1, <1>8 DEF Handled, Time
  <1>10. ASSUME Loaded(p)
         PROVE  /\ p.last \in checkpoint.last..Len(log)
                /\ p.fresh = {x \in RowIds : checkpoint.last < x /\ x <= p.last}
                /\ p.fresh \subseteq 1..Len(log)
    <2>1. InPass(w) /\ ~p.flushed
      BY <1>1, <1>10 DEF Loaded
    <2>2. /\ p.last \in checkpoint.last..Len(log)
          /\ p.fresh = {x \in RowIds : checkpoint.last < x /\ x <= p.last}
      BY <1>0, <2>1 DEF IInv, PassesFollowCheckpoint
    <2>3. checkpoint.last \in Nat /\ p.last \in Nat
      BY <1>0, <1>3 DEF CheckpointType, PassType
    <2> QED
      BY <1>3, <2>2, <2>3 DEF RowIds
  <1>11. Loaded(q) => Loaded(p)
    BY <1>1 DEF Loaded, InPass, Running
  <1> HIDE DEF p, seg, counts, times
  <1>12. ASSUME saves = 0, Loaded(q) PROVE Ascends(log, q, checkpoint)
    <2>1. Loaded(p) /\ Ascends(log, p, checkpoint)
      BY <1>0, <1>11, <1>12 DEF OdometerRises, NeverFalls, p
    <2>2. \A x \in p.todo \union p.fresh : times[x] = CapturedAt[log[x]]
      BY <1>3, <1>6, <1>10, <2>1
    <2>3. /\ Handled(p, q, r, counts, p.miles + seg, times[r])
          /\ counts => r \in p.fresh /\ times[r] > p.since
          /\ \A x \in p.todo : times[r] <= times[x]
      BY <1>3, <1>6, <1>7, <1>9 DEF counts
    <2> QED
      BY <1>0, <1>3, <1>4, <1>6, <1>8, <2>1, <2>2, <2>3, CountRises
  <1>13. ASSUME saves = 0, Ordered(log), purged = {}, Loaded(q) PROVE FollowsPath(log, q, checkpoint, stamp)
    <2>1. /\ Loaded(p) /\ Ascends(log, p, checkpoint) /\ Rising(log, checkpoint, stamp)
          /\ OnPath(log, checkpoint, stamp) /\ FollowsPath(log, p, checkpoint, stamp)
      BY <1>0, <1>11, <1>13 DEF OdometerRises, NeverFalls, PathFollowed, p
    <2>2. p.last <= Len(log) /\ p.fresh = {x \in RowIds : checkpoint.last < x /\ x <= p.last}
      BY <1>3, <1>10, <2>1 DEF CheckpointType
    <2>3. /\ counts <=> r \in p.fresh /\ CapturedAt[log[r]] > p.since
          /\ seg = IF p.prev = 0 THEN 0 ELSE MilesBetween[<< log[p.prev], log[r] >>]
      BY DEF counts, seg, SegmentMiles
    <2> QED
      BY <1>0, <1>3, <1>7, <1>8, <1>9, <1>13, <2>1, <2>2, <2>3, CountFollows
  <1>14. /\ \A v \in Workers : pass'[v] = IF v = w THEN q ELSE pass[v]
         /\ \A v \in Workers : v # w => ~InPass(v)
         /\ q.pc # "count" => q.todo = {}
         /\ Running(q)
    BY <1>1 DEF GoesOn, Running
  <1>15. saves = 0 => Rising(log, checkpoint, stamp)
    BY <1>0 DEF OdometerRises, NeverFalls
  <1>16. saves = 0 /\ Ordered(log) /\ purged = {} => OnPath(log, checkpoint, stamp)
    BY <1>0 DEF OdometerRises, PathFollowed
  <1> QED
    BY <1>0, <1>2, <1>12, <1>13, <1>14, <1>15, <1>16, HolderRises

(* Behind the counting a pass only commits what it has counted.            *)
LEMMA CommitsRise ==
  ASSUME RInv, NEW w \in Workers, NEW q, GoesOn(w, pass[w], q), InPass(w), pass[w].pc # "count",
         SameRead(pass[w], q), Commits(w, pass[w], q), Running(q), UNCHANGED << log, purged, saves >>
  PROVE  OdometerRises'
  <1>1. OdometerRises /\ pass[w].todo = {}
    BY DEF RInv, OdometerRises, PassesRest
  <1>2. CASE Flush(w) /\ q.flushed
    <2>1. saves = 0 => Rising(log, checkpoint', stamp')
      BY <1>2, FlushRises
    <2>2. saves = 0 /\ Ordered(log) /\ purged = {} => OnPath(log, checkpoint', stamp')
      BY <1>2, FlushRises
    <2> QED
      BY <1>1, <1>2, <2>1, <2>2, HolderRises DEF GoesOn, SameRead, Loaded
  <1>3. CASE UNCHANGED << checkpoint, stamp, folds >> /\ q.flushed = pass[w].flushed
    <2>1. Loaded(q) => Loaded(pass[w])
      BY <1>3 DEF Loaded, InPass, Running
    <2>2. ASSUME saves = 0
          PROVE  /\ Rising(log, checkpoint', stamp')
                 /\ Loaded(q) => Ascends(log, q, checkpoint')
      BY <1>1, <1>3, <2>1, <2>2 DEF OdometerRises, NeverFalls, Ascends, SameRead
    <2>3. ASSUME saves = 0, Ordered(log), purged = {}
          PROVE  /\ OnPath(log, checkpoint', stamp')
                 /\ Loaded(q) => FollowsPath(log, q, checkpoint', stamp')
      BY <1>1, <1>3, <2>1, <2>3 DEF OdometerRises, PathFollowed, FollowsPath, Reached, SameRead
    <2> QED
      BY <1>1, <2>2, <2>3, HolderRises DEF GoesOn, SameRead
  <1> QED
    BY <1>2, <1>3 DEF Commits

(* Retention, the last step of a pass, may be its commit.                  *)
LEMMA PurgeRises ==
  ASSUME RInv, NEW w \in Workers, PurgeAndRelease(w)
  PROVE  OdometerRises'
  <1>1. /\ InPass(w) /\ pass[w].pc # "count" /\ (\A v \in Workers : v # w => ~InPass(v))
        /\ UNCHANGED << log, saves >> /\ purged \subseteq purged' /\ OdometerRises
    BY OnlyHolder DEF RInv, LInv, InPass, PurgeAndRelease
  <1>2. \A v \in Workers : pass'[v] = IF v = w THEN IdlePass ELSE pass[v]
    BY DEF PurgeAndRelease, RInv, LInv, IInv, TypeOK
  <1>3. /\ ~Running(IdlePass) /\ ~Loaded(IdlePass) /\ IdlePass.stamps = NoStamps
        /\ IdlePass.prev = 0 /\ IdlePass.todo = {}
    BY DEF IdlePass, Running, Loaded
  <1>4. /\ saves = 0 => Rising(log, checkpoint', stamp')
        /\ saves = 0 /\ Ordered(log) /\ purged = {} => OnPath(log, checkpoint', stamp')
    <2>1. CASE Flush(w)
      BY <1>1, <2>1, FlushRises
    <2>2. CASE UNCHANGED << checkpoint, stamp >>
      BY <1>1, <2>2 DEF OdometerRises, NeverFalls, PathFollowed
    <2> QED
      BY <2>1, <2>2 DEF PurgeAndRelease
  <1> QED
    BY <1>1, <1>2, <1>3, <1>4, HolderRises

(* A step outside the lock may store a row.                                *)
LEMMA OutsideRises ==
  ASSUME RInv, UNCHANGED << checkpoint, stamp, saves, purged >>, log' \in Seq(Messages),
         Len(log) <= Len(log'), \A r \in 1..Len(log) : log'[r] = log[r],
         \A v \in Workers :
           \/ pass'[v] = pass[v]
           \/ ~Running(pass'[v]) /\ pass'[v].stamps = NoStamps /\ pass'[v].prev = 0 /\ pass'[v].todo = {}
  PROVE  OdometerRises'
  <1>1. IInv /\ OdometerRises
    BY DEF RInv, LInv
  <1>2. /\ log \in Seq(Messages) /\ checkpoint \in CheckpointType /\ stamp \in Stamping
        /\ checkpoint.last <= Len(log) /\ pass \in [Workers -> PassType] /\ Len(log) \in Nat
        /\ Len(log) <= MaxRows /\ checkpoint.last \in Nat
    BY <1>1, BoundsAssumption DEF IInv, TypeOK, PassesFollowCheckpoint, CheckpointType
  <1>3. PassesRest'
    BY <1>1 DEF OdometerRises, PassesRest
  <1>4. Ordered(log') => Ordered(log)
    BY <1>2, StoreKeepsRising
  <1>5. ASSUME NEW v \in Workers, Loaded(pass'[v])
        PROVE  /\ pass'[v] = pass[v] /\ Loaded(pass[v]) /\ pass[v] \in PassType
               /\ pass[v].fresh \subseteq 1..Len(log) /\ pass[v].todo \subseteq 1..Len(log)
               /\ pass[v].prev <= Len(log)
    <2>1. pass'[v] = pass[v] /\ Loaded(pass[v]) /\ InPass(v) /\ ~pass[v].flushed /\ pass[v] \in PassType
      BY <1>2, <1>5 DEF Loaded, Running, InPass
    <2>2. /\ pass[v].last \in checkpoint.last..Len(log)
          /\ pass[v].fresh = {r \in RowIds : checkpoint.last < r /\ r <= pass[v].last}
          /\ pass[v].todo \subseteq 1..Len(log) /\ pass[v].prev \in 0..Len(log)
      BY <1>1, <2>1 DEF IInv, PassesFollowCheckpoint
    <2>3. pass[v].last \in Nat
      BY <1>2, <2>2
    <2> QED
      BY <1>2, <2>1, <2>2, <2>3, BoundsAssumption DEF RowIds
  <1>6. ASSUME saves' = 0 PROVE NeverFalls'
    <2>1. Rising(log, checkpoint, stamp) /\ StampedIn(stamp) \subseteq 1..checkpoint.last
      BY <1>1, <1>6 DEF OdometerRises, NeverFalls, Rising
    <2>2. Rising(log', checkpoint, stamp)
      BY <1>2, <2>1, StoreKeepsRising
    <2>3. ASSUME NEW v \in Workers, Loaded(pass'[v]) PROVE Ascends(log', pass[v], checkpoint)
      <3>1. Ascends(log, pass[v], checkpoint)
        BY <1>1, <1>5, <1>6, <2>3 DEF OdometerRises, NeverFalls
      <3> QED
        BY <1>2, <1>5, <2>1, <2>3, <3>1, StoreKeepsPass
    <2> QED
      BY <1>5, <2>2, <2>3 DEF NeverFalls
  <1>7. ASSUME saves' = 0, Ordered(log'), purged' = {} PROVE PathFollowed'
    <2>1. /\ Rising(log, checkpoint, stamp) /\ StampedIn(stamp) \subseteq 1..checkpoint.last
          /\ OnPath(log, checkpoint, stamp) /\ PathFollowed /\ NeverFalls
      BY <1>1, <1>4, <1>7 DEF OdometerRises, NeverFalls, PathFollowed, Rising
    <2>2. OnPath(log', checkpoint, stamp)
      BY <1>2, <2>1, StoreKeepsRising
    <2>3. ASSUME NEW v \in Workers, Loaded(pass'[v]) PROVE FollowsPath(log', pass[v], checkpoint, stamp)
      <3>1. Ascends(log, pass[v], checkpoint) /\ FollowsPath(log, pass[v], checkpoint, stamp)
        BY <1>5, <2>1, <2>3 DEF NeverFalls, PathFollowed
      <3> QED
        BY <1>2, <1>5, <2>1, <2>3, <3>1, StoreKeepsPass
    <2> QED
      BY <1>5, <2>2, <2>3 DEF PathFollowed
  <1> QED
    BY <1>3, <1>6, <1>7 DEF OdometerRises

(* The strengthened invariant is inductive.                                *)
LEMMA StepRInv ==
  ASSUME RInv, [Next]_vars
  PROVE  RInv'
  <1>0. LInv /\ IInv /\ OdometerRises /\ log \in Seq(Messages) /\ pass \in [Workers -> PassType] /\ saves \in Nat
    BY DEF RInv, LInv, IInv, TypeOK
  <1>1. LInv' /\ IInv'
    BY <1>0, StepLInv DEF LInv
  <1> SUFFICES OdometerRises'
    BY <1>1 DEF RInv
  <1>2. Len(log) \in Nat
    BY <1>0
  <1>3. ASSUME UNCHANGED << log, checkpoint, stamp, saves, purged, pass >> PROVE OdometerRises'
    BY <1>0, <1>2, <1>3, OutsideRises
  <1>4. ASSUME NEW m \in Messages, StoreRow(m) PROVE OdometerRises'
    <2> DEFINE days == {DayOf(CapturedAt[m]), DayOf(CapturedAt[m]) - 1}
    <2>1. /\ pass' = [pass EXCEPT !["http"] = Requested(days)]
          /\ UNCHANGED << checkpoint, stamp, saves, purged >>
      BY <1>4 DEF StoreRow
    <2>2. /\ ~Running(Requested(days)) /\ Requested(days).stamps = NoStamps
          /\ Requested(days).prev = 0 /\ Requested(days).todo = {}
      BY DEF Requested, IdlePass, Running
    <2> HIDE DEF days
    <2>3. \A v \in Workers : pass'[v] = IF v = "http" THEN Requested(days) ELSE pass[v]
      BY <1>0, <2>1
    <2>4. log' = log \/ log' = Append(log, m)
      BY <1>4 DEF StoreRow
    <2>5. log' \in Seq(Messages) /\ Len(log) <= Len(log') /\ \A r \in 1..Len(log) : log'[r] = log[r]
      BY <1>0, <2>4
    <2> QED
      BY <2>1, <2>2, <2>3, <2>5, OutsideRises
  <1>5. CASE RequestTimer
    <2>1. /\ pass' = [pass EXCEPT !["timer"] = Requested({})]
          /\ UNCHANGED << log, checkpoint, stamp, saves, purged >>
      BY <1>5 DEF RequestTimer
    <2>2. /\ ~Running(Requested({})) /\ Requested({}).stamps = NoStamps
          /\ Requested({}).prev = 0 /\ Requested({}).todo = {}
      BY DEF Requested, IdlePass, Running
    <2>3. \A v \in Workers : pass'[v] = IF v = "timer" THEN Requested({}) ELSE pass[v]
      BY <1>0, <2>1
    <2> QED
      BY <1>0, <1>2, <2>1, <2>2, <2>3, OutsideRises
  <1>6. ASSUME NEW w \in Workers, GenerateDay(w) PROVE OdometerRises'
    <2>1. PICK d \in pass[w].days, q \in PassType :
            /\ GoesOn(w, pass[w], q) /\ InPass(w) /\ SameRead(pass[w], q) /\ Commits(w, pass[w], q)
            /\ q.pc = IF q.days = {} THEN "finish" ELSE "days"
      BY <1>0, <1>6, DayShape
    <2>2. Running(q) /\ pass[w].pc # "count" /\ UNCHANGED << log, purged, saves >>
      BY <1>6, <2>1 DEF GenerateDay, Running
    <2> QED
      BY <2>1, <2>2, CommitsRise
  <1>7. ASSUME NEW w \in Workers, CommitPass(w) PROVE OdometerRises'
    <2>1. PICK q \in PassType :
            /\ GoesOn(w, pass[w], q) /\ InPass(w) /\ SameRead(pass[w], q) /\ Commits(w, pass[w], q)
            /\ q.pc = "purge"
      BY <1>0, <1>7, CommitShape
    <2>2. Running(q) /\ pass[w].pc # "count" /\ UNCHANGED << log, purged, saves >>
      BY <1>7, <2>1 DEF CommitPass, Running
    <2> QED
      BY <2>1, <2>2, CommitsRise
  <1>8. ASSUME NEW w \in Workers, PassStep(w) PROVE OdometerRises'
    BY <1>6, <1>7, <1>8, AcquireRises, CountRowRises, PurgeRises DEF PassStep
  <1>9. /\ ~Running(IdlePass) /\ IdlePass.stamps = NoStamps /\ IdlePass.prev = 0 /\ IdlePass.todo = {}
    BY DEF IdlePass, Running
  <1>10. ASSUME NEW w \in Workers, PassFails(w) PROVE OdometerRises'
    <2>1. /\ UNCHANGED << log, checkpoint, stamp, saves, purged >>
          /\ \A v \in Workers : pass'[v] = IF v = w THEN IdlePass ELSE pass[v]
      BY <1>0, <1>10 DEF PassFails
    <2> QED
      BY <1>0, <1>2, <1>9, <2>1, OutsideRises
  <1>11. CASE Crash
    <2>1. /\ UNCHANGED << log, checkpoint, stamp, saves, purged >>
          /\ \A v \in Workers : pass'[v] = IdlePass
      BY <1>11 DEF Crash
    <2> QED
      BY <1>0, <1>2, <1>9, <2>1, OutsideRises
  <1>12. CASE CommitSave
    <2>1. saves' # 0 /\ pass' = pass
      BY <1>0, <1>12 DEF CommitSave
    <2> QED
      BY <1>0, <2>1 DEF OdometerRises, PassesRest
  <1> QED
    BY <1>3, <1>4, <1>5, <1>8, <1>10, <1>11, <1>12 DEF Next, vars, Tick, BeginSave, AbandonSave

(* It holds in every execution.                                            *)
LEMMA SpecRInv == Spec => []RInv
  <1>1. Init => RInv
    <2>1. Init => LInv
      BY InitIInv, NothingToKeep DEF Init, LInv, MilesKept, Running, IdlePass
    <2>2. Init => PassesRest
      BY DEF Init, PassesRest, IdlePass
    <2>3. Init => StampedIn(stamp) = {}
      BY DEF Init, StampedIn, NoStamps
    <2>4. Init => NeverFalls /\ PathFollowed
      BY <2>3 DEF Init, NeverFalls, PathFollowed, Rising, OnPath, Loaded, Running, IdlePass, NoCheckpoint
    <2> QED
      BY <2>1, <2>2, <2>4 DEF RInv, OdometerRises
  <1>2. RInv /\ [Next]_vars => RInv'
    BY StepRInv
  <1> QED
    BY <1>1, <1>2, PTL DEF Spec

(* Until a reading is entered by hand, no stamp is above the anchor or     *)
(* later than it, and of two stamped rows the one captured later has no    *)
(* fewer miles: in whatever order rows are delivered, and however passes   *)
(* share them, fail and are repeated.                                      *)
THEOREM StampsRise == Spec => []StampsFollowTime
  <1>1. RInv => StampsFollowTime
    BY DEF RInv, OdometerRises, NeverFalls, Rising, StampsFollowTime, Stamped, StampedIn, Time
  <1> QED
    BY <1>1, SpecRInv, PTL

(* And while rows come in order and none is deleted, the odometer is the   *)
(* length of the path through the rows taken, summed over any number of    *)
(* rows and of passes: no segment between two passes is lost or counted    *)
(* twice.                                                                  *)
THEOREM OdometerIsDrivenPath == Spec => []OdometerIsPathLength
  <1>1. RInv => OdometerIsPathLength
    BY DEF RInv, OdometerRises, PathFollowed, OnPath, OdometerIsPathLength, Stamped, StampedIn,
           InOrder, Ordered, Time
  <1> QED
    BY <1>1, SpecRInv, PTL
=============================================================================
