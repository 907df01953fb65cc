--------------------------- MODULE BackupsProofs ---------------------------
(***************************************************************************)
(* Theorems about Backups: whatever two workers write and prune, and       *)
(* whatever fails or restarts in between, the newest backups are kept, and *)
(* the last one of each of the days before.                                *)
(***************************************************************************)
EXTENDS Backups, ArithmeticFacts

Names == [at : 0..MaxTime, reason : {"startup", "scheduled", "emergency"}]

(* The types, and that the files are finitely many.                        *)
Typed ==
  /\ now \in 0..MaxTime /\ wake \in 0..(MaxTime + Interval)
  /\ files \subseteq made /\ made \subseteq Names /\ IsFiniteSet(files)
  /\ reason \in {"startup", "scheduled"}
  /\ job \in [Workers -> [pc : {"idle", "write", "prune"}, file : Names]]
  /\ job["scheduler"].file.reason \in {"startup", "scheduled"}
  /\ job["request"] = Idle \/ job["request"].file.reason = "emergency"
  /\ storage \in BOOLEAN

(* The lesser of two numbers.                                              *)
LEMMA MinOfTwo ==
  ASSUME NEW a \in Nat, NEW b \in Nat
  PROVE  Min({a, b}) = IF a <= b THEN a ELSE b
  <1> DEFINE m == IF a <= b THEN a ELSE b
  <1>1. m \in {a, b} /\ \A y \in {a, b} : m <= y
    OBVIOUS
  <1>2. \A x \in {a, b} : (\A y \in {a, b} : x <= y) => x = m
    OBVIOUS
  <1> HIDE DEF m
  <1>3. Min({a, b}) \in {a, b} /\ \A y \in {a, b} : Min({a, b}) <= y
    BY <1>1 DEF Min
  <1> QED
    BY <1>2, <1>3 DEF m

-----------------------------------------------------------------------------
(* Types.                                                                  *)

(* The initial state is typed.                                             *)
LEMMA InitTyped == Init => Typed
  <1> SUFFICES ASSUME Init PROVE Typed
    OBVIOUS
  <1>1. Idle \in [pc : {"idle", "write", "prune"}, file : Names] /\ Idle.file.reason = "startup"
    BY BoundsAssumption DEF Idle, Names
  <1>2. IsFiniteSet(files)
    BY FS_EmptySet DEF Init
  <1> QED
    BY <1>1, <1>2, BoundsAssumption DEF Init, Typed, Workers

(* A job begins.                                                           *)
LEMMA BeginTyped ==
  ASSUME Typed, BeginScheduled \/ BeginEmergency
  PROVE  Typed'
  <1>1. CASE BeginScheduled
    <2>1. job' = [job EXCEPT !["scheduler"] =
                    [pc |-> "write", file |-> [at |-> now, reason |-> reason]]]
      BY <1>1 DEF BeginScheduled, Begin
    <2>2. [at |-> now, reason |-> reason] \in Names
      BY DEF Typed, Names
    <2> QED
      BY <1>1, <2>1, <2>2 DEF BeginScheduled, Typed, Workers
  <1>2. CASE BeginEmergency
    <2>1. job' = [job EXCEPT !["request"] =
                    [pc |-> "write", file |-> [at |-> now, reason |-> "emergency"]]]
      BY <1>2 DEF BeginEmergency, Begin, EmergencyReason
    <2>2. [at |-> now, reason |-> "emergency"] \in Names
      BY DEF Typed, Names
    <2> QED
      BY <1>2, <2>1, <2>2 DEF BeginEmergency, Typed, Workers
  <1> QED
    BY <1>1, <1>2

(* A file is written.                                                      *)
LEMMA WriteFileTyped ==
  ASSUME Typed, NEW w \in Workers, WriteFile(w)
  PROVE  Typed'
  <1>1. job[w].file \in Names
    BY DEF Typed
  <1>2. IsFiniteSet(files')
    BY FS_AddElement DEF Typed, WriteFile
  <1>3. /\ job' \in [Workers -> [pc : {"idle", "write", "prune"}, file : Names]]
        /\ \A v \in Workers : job'[v].file = job[v].file
        /\ job'["request"] = Idle \/ job'["request"].file.reason = "emergency"
    BY DEF Typed, WriteFile, Workers, Idle
  <1> QED
    BY <1>1, <1>2, <1>3 DEF Typed, WriteFile, Workers

(* What is retained, and what could not be deleted, were there before.     *)
LEMMA PrunedFiles ==
  ASSUME Typed, NEW w \in Workers, Prune(w)
  PROVE  /\ files' \subseteq files
         /\ \E recent \in NewestSets(Recent) : recent \subseteq files'
  <1>1. PICK kept \in Retained(DayOf(job[w].file.at)), undeleted \in SUBSET files :
          files' = kept \union undeleted
    BY DEF Prune
  <1> DEFINE days == Prior(DayOf(job[w].file.at))
  <1>2. PICK recent \in NewestSets(Recent), daily \in SUBSET UNION {DailyOf(d) : d \in days} :
          kept = recent \union daily
    BY <1>1 DEF Retained
  <1>3. recent \subseteq files
    BY DEF NewestSets
  <1>4. \A d \in days : DailyOf(d) \subseteq files
    BY DEF DailyOf, NewestOf
  <1>5. daily \subseteq files
    BY <1>4
  <1> QED
    BY <1>1, <1>2, <1>3, <1>5

(* A job ends, or is lost with the process.                                *)
LEMMA EndTyped ==
  ASSUME Typed, Restart \/ \E w \in Workers : Prune(w) \/ JobFails(w)
  PROVE  Typed'
  <1>1. Idle \in [pc : {"idle", "write", "prune"}, file : Names] /\ Idle.file.reason = "startup"
    BY BoundsAssumption DEF Idle, Names
  <1>2. ASSUME NEW w \in Workers, Prune(w) PROVE Typed'
    <2>1. files' \subseteq files /\ IsFiniteSet(files')
      BY <1>2, PrunedFiles, FS_Subset DEF Typed
    <2>2. reason' \in {"startup", "scheduled"} /\ wake' \in 0..(MaxTime + Interval)
      BY <1>2, BoundsAssumption DEF Prune, Sleeps, Typed
    <2> QED
      BY <1>1, <1>2, <2>1, <2>2 DEF Prune, Typed, Workers
  <1>3. ASSUME NEW w \in Workers, JobFails(w) PROVE Typed'
    BY <1>1, <1>3 DEF JobFails, Typed, Workers
  <1>4. CASE Restart
    BY <1>1, <1>4, BoundsAssumption DEF Restart, Typed, Workers
  <1> QED
    BY <1>2, <1>3, <1>4

(* No step changes a type.                                                 *)
LEMMA NextTyped == Typed /\ [Next]_vars => Typed'
  <1> SUFFICES ASSUME Typed, [Next]_vars PROVE Typed'
    OBVIOUS
  <1>1. CASE Tick
    <2>1. now + 1 \in Nat /\ MaxTime \in Nat /\ now' = Min({now + 1, MaxTime})
      BY <1>1, BoundsAssumption DEF Tick, Typed
    <2>2. now' \in 0..MaxTime
      BY <2>1, MinOfTwo
    <2> QED
      BY <1>1, <2>2 DEF Tick, Typed
  <1>2. CASE BeginScheduled \/ BeginEmergency
    BY <1>2, BeginTyped
  <1>3. ASSUME NEW w \in Workers, WriteFile(w) PROVE Typed'
    BY <1>3, WriteFileTyped
  <1>4. CASE Restart \/ \E w \in Workers : Prune(w) \/ JobFails(w)
    BY <1>4, EndTyped
  <1>5. CASE StorageFails \/ StorageRecovers
    BY <1>5 DEF StorageFails, StorageRecovers, Typed
  <1>6. CASE UNCHANGED vars
    BY <1>6 DEF vars, Typed
  <1> QED
    BY <1>1, <1>2, <1>3, <1>4, <1>5, <1>6 DEF Next, JobStep

(* The types hold throughout.                                              *)
LEMMA AlwaysTyped == Spec => []Typed
  BY InitTyped, NextTyped, PTL DEF Spec

(* Every variable has its type, for every retention and every bound.       *)
THEOREM BackupsTypeCorrect == Spec => []TypeOK
  <1>1. Typed => TypeOK
    BY DEF Typed, TypeOK, Names
  <1> QED
    BY <1>1, AlwaysTyped, PTL

-----------------------------------------------------------------------------
(* The newest backups.                                                     *)

(* The files not older than one.                                           *)
NotOlder(f) == {g \in files : g.at >= f.at}

(* Pruning leaves as many files not older than a deleted one as are kept   *)
(* for being recent.                                                       *)
LEMMA PruneKeepsNewest ==
  ASSUME Typed, NewestKept, NEW w \in Workers, Prune(w)
  PROVE  NewestKept'
  <1> SUFFICES ASSUME NEW f \in made, f \notin files'
               PROVE  Cardinality({g \in files' : g.at >= f.at}) >= Recent
    BY DEF NewestKept, Prune
  <1> DEFINE left == {g \in files' : g.at >= f.at}
  <1>1. PICK recent \in NewestSets(Recent) : recent \subseteq files'
    BY PrunedFiles
  <1>2. /\ recent \subseteq files /\ Cardinality(recent) = Min({Recent, Cardinality(files)})
        /\ \A s \in recent, g \in files \ recent : g.at <= s.at
    BY DEF NewestSets
  <1>3. /\ IsFiniteSet(files) /\ IsFiniteSet(files') /\ IsFiniteSet(recent) /\ IsFiniteSet(left)
        /\ files' \subseteq files /\ Recent \in Nat /\ Cardinality(files) \in Nat
    BY <1>1, <1>2, PrunedFiles, FS_Subset, FS_CardinalityType, RetentionAssumption DEF Typed
  <1>4. \A g \in files \union {f} : g.at \in Nat
    BY BoundsAssumption DEF Typed, Names
  <1>5. Cardinality(recent) = IF Recent <= Cardinality(files) THEN Recent ELSE Cardinality(files)
    BY <1>2, <1>3, MinOfTwo
  <1>6. ASSUME NEW S, S \subseteq left, Cardinality(S) >= Recent
        PROVE  Cardinality(left) >= Recent
    <2>1. Cardinality(S) <= Cardinality(left) /\ Cardinality(S) \in Nat /\ Cardinality(left) \in Nat
      BY <1>3, <1>6, FS_Subset, FS_CardinalityType
    <2> QED
      BY <1>3, <1>6, <2>1
  <1>7. CASE f \in files
    <2>1. recent \subseteq left
      BY <1>1, <1>2, <1>4, <1>7
    <2>2. Cardinality(recent) # Cardinality(files)
      BY <1>1, <1>2, <1>3, <1>7, FS_Subset
    <2> QED
      BY <1>3, <1>5, <1>6, <2>1, <2>2
  <1>8. CASE f \notin files
    <2>1. /\ Cardinality(NotOlder(f)) >= Recent /\ NotOlder(f) \subseteq files
      BY <1>8 DEF NewestKept, NotOlder
    <2>2. Cardinality(recent) = Recent
      BY <1>3, <1>5, <2>1, FS_Subset, FS_CardinalityType
    <2>3. CASE \A s \in recent : s.at >= f.at
      <3>1. recent \subseteq left
        BY <1>1, <2>3
      <3> QED
        BY <1>3, <1>6, <2>2, <3>1
    <2>4. CASE \E s \in recent : ~ (s.at >= f.at)
      <3>1. \A g \in NotOlder(f) : g \in recent
        BY <1>2, <1>4, <2>4 DEF NotOlder
      <3>2. NotOlder(f) \subseteq left
        BY <1>1, <3>1 DEF NotOlder
      <3> QED
        BY <1>6, <2>1, <3>2
    <2> QED
      BY <2>3, <2>4
  <1> QED
    BY <1>7, <1>8

(* A file written is there, and takes nothing away.                        *)
LEMMA WriteKeepsNewest ==
  ASSUME Typed, NewestKept, NEW w \in Workers, WriteFile(w)
  PROVE  NewestKept'
  <1> SUFFICES ASSUME NEW f \in made', f \notin files'
               PROVE  Cardinality({g \in files' : g.at >= f.at}) >= Recent
    BY DEF NewestKept
  <1>1. files' = files \union {job[w].file} /\ made' = made \union {job[w].file}
    BY DEF WriteFile
  <1>2. f \in made \ files /\ Cardinality(NotOlder(f)) >= Recent
    BY <1>1 DEF NewestKept, NotOlder
  <1>3. IsFiniteSet({g \in files' : g.at >= f.at})
    BY <1>1, FS_AddElement, FS_Subset DEF Typed
  <1>4. NotOlder(f) \subseteq {g \in files' : g.at >= f.at}
    BY <1>1 DEF NotOlder
  <1>5. /\ Cardinality(NotOlder(f)) <= Cardinality({g \in files' : g.at >= f.at})
        /\ Cardinality(NotOlder(f)) \in Nat /\ Cardinality({g \in files' : g.at >= f.at}) \in Nat
    BY <1>3, <1>4, FS_Subset, FS_CardinalityType
  <1> QED
    BY <1>2, <1>5, RetentionAssumption

(* The newest backups made are there: no backup older than one that is     *)
(* gone is among the last Recent, for any number of workers' turns,        *)
(* crashes and outages.                                                    *)
THEOREM NewestBackupsKept == Spec => []NewestKept
  <1>1. Init => NewestKept
    BY DEF Init, NewestKept
  <1>2. Typed /\ NewestKept /\ [Next]_vars => NewestKept'
    <2> SUFFICES ASSUME Typed, NewestKept, [Next]_vars PROVE NewestKept'
      OBVIOUS
    <2>1. ASSUME NEW w \in Workers, WriteFile(w) PROVE NewestKept'
      BY <2>1, WriteKeepsNewest
    <2>2. ASSUME NEW w \in Workers, Prune(w) PROVE NewestKept'
      BY <2>2, PruneKeepsNewest
    <2>3. CASE UNCHANGED << files, made >>
      BY <2>3 DEF NewestKept
    <2>4. \/ UNCHANGED << files, made >>
          \/ \E w \in Workers : WriteFile(w) \/ Prune(w)
      BY DEF Next, JobStep, Tick, BeginScheduled, BeginEmergency, JobFails, Restart,
             StorageFails, StorageRecovers, vars
    <2> QED
      BY <2>1, <2>2, <2>3, <2>4
  <1> QED
    BY <1>1, <1>2, AlwaysTyped, PTL DEF Spec

-----------------------------------------------------------------------------
(* The last backup of each day.                                            *)

(* Of the backups a, one of the last of day d is among the files fs.       *)
On(d, a) == {f \in a : DayOf(f.at) = d}
DayKept(d, a, fs) == On(d, a) # {} => NewestOf(On(d, a)) \intersect fs # {}

(* A backup begun before the last tick.                                    *)
Old(w) == job[w].pc # "idle" /\ job[w].file.at # now

(* What the claim rests on.  A backup is begun at this instant or the one  *)
(* before.  In the second case it may prune by the day before, and only    *)
(* the number of recent files protects the last one of that day: there is  *)
(* one file newer at most, the other worker's.                             *)
OneNewer ==
  \A f, g \in made : f.at = now /\ g.at = now /\ (\E w \in Workers : Old(w)) => f = g

DaysKept ==
  /\ \A w \in Workers : job[w].pc # "idle" => job[w].file.at \in {now - 1, now}
  /\ \A f \in made : f.at <= now
  /\ \A k \in 0..PriorDays : DayKept(DayOf(now) - k, made, files)
  /\ OneNewer
  /\ job["scheduler"].pc # "idle" => job["scheduler"].file.reason = reason
  /\ \A f \in made : f.at = now =>
       /\ Old("scheduler") => f.reason = "emergency"
       /\ Old("request") => \/ f.reason = reason
                            \/ job["scheduler"].pc = "idle" /\ wake > now

(* The day of an instant is an integer; a later instant's is not earlier,  *)
(* and the next instant's is the same or the next one.                     *)
LEMMA DaysPass ==
  ASSUME NEW t \in Nat, NEW u \in Nat
  PROVE  /\ DayOf(t) \in Int
         /\ t <= u => DayOf(t) <= DayOf(u)
         /\ u <= t + 1 => DayOf(u) <= DayOf(t) + 1
  <1> DEFINE d == DayLength
             q == t \div d
  <1>1. d \in Nat \ {0} /\ t \in Int /\ u \in Int
    BY BoundsAssumption
  <1>2. q \in Int /\ u \div d \in Int /\ t < d * q + d
    BY <1>1, Quotient
  <1>3. t <= u => q <= u \div d
    BY <1>1, QuotientMonotonic
  <1>4. u <= t + 1 => u \div d <= q + 1
    <2> SUFFICES ASSUME u <= t + 1 PROVE u \div d <= q + 1
      OBVIOUS
    <2>1. d * (q + 1) = d * q + d /\ d * q \in Int /\ q + 1 \in Int
      BY <1>1, <1>2, TimesSuccessor
    <2>2. u < d * (q + 1) + d
      <3> HIDE DEF q, d
      <3> QED
        BY <1>1, <1>2, <2>1
    <2> HIDE DEF q, d
    <2> QED
      BY <1>1, <2>1, <2>2, QuotientAtMost
  <1> QED
    BY <1>2, <1>3, <1>4 DEF DayOf

(* The instants of backups are natural numbers.                            *)
LEMMA InstantType ==
  ASSUME Typed
  PROVE  /\ now \in Nat /\ \A f \in made : f.at \in Nat /\ DayOf(f.at) \in Int
         /\ \A w \in Workers : job[w].file.at \in Nat
         /\ DayOf(now) \in Int
  <1>1. /\ now \in Nat /\ \A f \in made : f.at \in Nat
        /\ \A w \in Workers : job[w].file.at \in Nat
    BY BoundsAssumption DEF Typed, Names
  <1> QED
    BY <1>1, DaysPass

(* A backup's name is its instant and its reason.                          *)
LEMMA NameIs ==
  ASSUME NEW f \in Names, NEW g \in Names, f.at = g.at, f.reason = g.reason
  PROVE  f = g
  BY DEF Names

(* The clock: a new day has no backup yet, and the days before move up.    *)
LEMMA TickKeepsDays ==
  ASSUME Typed, DaysKept, Tick
  PROVE  DaysKept'
  <1>1. /\ now \in Nat /\ now' \in Nat /\ now' \in {now, now + 1}
        /\ UNCHANGED << files, made, reason, wake, job >>
        /\ \A w \in Workers : job[w].pc # "idle" => job[w].file.at = now
    <2>1. now' = Min({now + 1, MaxTime}) /\ now + 1 \in Nat /\ MaxTime \in Nat /\ now <= MaxTime
      BY BoundsAssumption DEF Typed, Tick
    <2>2. now' = IF now + 1 <= MaxTime THEN now + 1 ELSE MaxTime
      BY <2>1, MinOfTwo
    <2>3. now \in Nat
      BY InstantType
    <2> QED
      BY <2>1, <2>2, <2>3 DEF Tick
  <1>2. \A w \in Workers : job'[w].pc # "idle" => job'[w].file.at \in {now' - 1, now'}
    BY <1>1
  <1>3. \A f \in made' : f.at <= now'
    BY <1>1, InstantType DEF DaysKept
  <1>4. ASSUME NEW k \in 0..PriorDays PROVE DayKept(DayOf(now') - k, made, files)
    <2>1. DayOf(now) \in Int /\ DayOf(now') \in {DayOf(now), DayOf(now) + 1}
      BY <1>1, DaysPass
    <2>2. CASE DayOf(now') = DayOf(now)
      BY <2>2 DEF DaysKept
    <2>3. CASE DayOf(now') = DayOf(now) + 1 /\ k > 0
      <3>1. k - 1 \in 0..PriorDays /\ DayOf(now') - k = DayOf(now) - (k - 1)
        BY <2>1, <2>3, RetentionAssumption
      <3> QED
        BY <3>1 DEF DaysKept
    <2>4. CASE DayOf(now') = DayOf(now) + 1 /\ k = 0
      <3>1. \A f \in made : DayOf(f.at) <= DayOf(now) /\ DayOf(f.at) \in Int
        BY InstantType, DaysPass DEF DaysKept
      <3>2. On(DayOf(now') - k, made) = {}
        BY <2>1, <2>4, <3>1 DEF On
      <3> QED
        BY <3>2 DEF DayKept
    <2> QED
      BY <2>1, <2>2, <2>3, <2>4
  <1>5. \A k \in 0..PriorDays : DayKept(DayOf(now') - k, made', files')
    BY <1>1, <1>4
  <1>6. OneNewer'
    BY <1>1, InstantType DEF DaysKept, OneNewer, Old
  <1>7. \A f \in made' : f.at = now' =>
          /\ Old("scheduler")' => f.reason = "emergency"
          /\ Old("request")' => \/ f.reason = reason'
                                \/ job'["scheduler"].pc = "idle" /\ wake' > now'
    BY <1>1, InstantType DEF DaysKept, Old, Workers
  <1>8. job'["scheduler"].pc # "idle" => job'["scheduler"].file.reason = reason'
    BY <1>1 DEF DaysKept
  <1> QED
    BY <1>2, <1>3, <1>5, <1>6, <1>7, <1>8 DEF DaysKept

(* A backup more: it is the last of its day, or another still is.          *)
LEMMA OneMoreKept ==
  ASSUME NEW d, NEW a, NEW fs, NEW new, DayKept(d, a, fs), \A f \in a \union {new} : f.at \in Nat
  PROVE  DayKept(d, a \union {new}, fs \union {new})
  <1> DEFINE b == a \union {new}
  <1>1. On(d, b) = IF DayOf(new.at) = d THEN On(d, a) \union {new} ELSE On(d, a)
    BY DEF On
  <1>2. \A f \in On(d, b) : f.at \in Nat
    BY DEF On
  <1>3. CASE DayOf(new.at) # d
    BY <1>1, <1>3 DEF DayKept
  <1>4. CASE DayOf(new.at) = d /\ new \in NewestOf(On(d, b))
    BY <1>4 DEF DayKept
  <1>5. CASE DayOf(new.at) = d /\ new \notin NewestOf(On(d, b))
    <2> DEFINE old == On(d, a)
               all == On(d, b)
    <2>0. all = old \union {new} /\ \A f \in all : f.at \in Nat
      BY <1>1, <1>2, <1>5
    <2>1. new \in all
      BY <2>0
    <2>2. PICK g \in all : ~ (g.at <= new.at)
      BY <1>5, <2>1 DEF NewestOf
    <2>3. PICK f \in fs : f \in NewestOf(old)
      <3>1. g \in old
        BY <2>0, <2>2
      <3> QED
        BY <3>1 DEF DayKept
    <2> HIDE DEF old, all
    <2>4. g \in old /\ new.at < g.at
      BY <2>0, <2>1, <2>2
    <2>5. f \in old /\ \A h \in old : h.at <= f.at
      BY <2>3 DEF NewestOf
    <2>6. f \in all /\ \A h \in all : h.at <= f.at
      BY <2>0, <2>1, <2>4, <2>5
    <2>7. f \in NewestOf(all)
      BY <2>6 DEF NewestOf
    <2> QED
      BY <2>3, <2>7 DEF DayKept, all
  <1> QED
    BY <1>3, <1>4, <1>5

(* A backup is written: if it is of today it is the newest, and it takes   *)
(* nothing away.                                                           *)
LEMMA WriteKeepsDays ==
  ASSUME Typed, DaysKept, NEW w \in Workers, WriteFile(w)
  PROVE  DaysKept'
  <1> DEFINE new == job[w].file
  <1>1. /\ files' = files \union {new} /\ made' = made \union {new}
        /\ now' = now /\ reason' = reason /\ wake' = wake
        /\ \A v \in Workers : job'[v].file = job[v].file /\ (job'[v].pc = "idle" <=> job[v].pc = "idle")
        /\ job[w].pc # "idle"
    BY DEF WriteFile, Typed
  <1>2. new \in Names /\ new.at \in {now - 1, now} /\ now \in Nat /\ new.at \in Nat
    BY <1>1, InstantType DEF DaysKept, Typed
  <1>3. \A f \in made' : f \in Names /\ f.at <= now /\ f.at \in Nat
    BY <1>1, <1>2, InstantType DEF DaysKept, Typed
  <1>4. \A v \in Workers : Old(v)' <=> Old(v)
    BY <1>1 DEF Old
  <1>5. ASSUME NEW k \in 0..PriorDays PROVE DayKept(DayOf(now) - k, made', files')
    <2>1. DayKept(DayOf(now) - k, made, files)
      BY DEF DaysKept
    <2> QED
      BY <1>1, <1>2, <1>3, <2>1, OneMoreKept
  <1>6. \A k \in 0..PriorDays : DayKept(DayOf(now') - k, made', files')
    BY <1>1, <1>5
  <1>7. ASSUME NEW f \in made', f.at = now
        PROVE  /\ Old("scheduler") => f.reason = "emergency"
               /\ Old("request") => \/ f.reason = reason
                                    \/ job["scheduler"].pc = "idle" /\ wake > now
    <2>1. CASE f \in made
      BY <1>7, <2>1 DEF DaysKept
    <2>2. CASE f = new
      <3>1. ~Old(w)
        BY <1>7, <2>2 DEF Old
      <3>2. CASE w = "scheduler"
        BY <1>1, <2>2, <3>1, <3>2 DEF DaysKept, Old
      <3>3. CASE w = "request"
        <4>1. job["request"].file.reason = "emergency"
          BY <1>1, <3>3 DEF Typed, Idle
        <4> QED
          BY <2>2, <3>1, <3>3, <4>1
      <3> QED
        BY <3>2, <3>3 DEF Workers
    <2> QED
      BY <1>1, <2>1, <2>2
  <1>8. ASSUME NEW f \in made', NEW g \in made', f.at = now, g.at = now, NEW v \in Workers, Old(v)
        PROVE  f = g
    <2>1. CASE v = "scheduler"
      BY <1>3, <1>7, <1>8, <2>1, NameIs
    <2>2. CASE v = "request" /\ f.reason = reason /\ g.reason = reason
      BY <1>3, <1>8, <2>2, NameIs
    <2>3. CASE v = "request" /\ job["scheduler"].pc = "idle"
      <3>1. w = "request" /\ new.at # now
        BY <1>1, <1>8, <2>3 DEF Old, Workers
      <3>2. f \in made /\ g \in made
        BY <1>1, <1>8, <3>1
      <3> QED
        BY <1>8, <3>2 DEF DaysKept, OneNewer
    <2> QED
      BY <1>7, <1>8, <2>1, <2>2, <2>3 DEF Workers
  <1>9. OneNewer'
    BY <1>1, <1>4, <1>8 DEF OneNewer
  <1>10. \A v \in Workers : job'[v].pc # "idle" => job'[v].file.at \in {now' - 1, now'}
    BY <1>1 DEF DaysKept
  <1>11. \A f \in made' : f.at = now' =>
           /\ Old("scheduler")' => f.reason = "emergency"
           /\ Old("request")' => \/ f.reason = reason'
                                 \/ job'["scheduler"].pc = "idle" /\ wake' > now'
    BY <1>1, <1>4, <1>7 DEF Workers
  <1>12. job'["scheduler"].pc # "idle" => job'["scheduler"].file.reason = reason'
    BY <1>1 DEF DaysKept, Workers
  <1> QED
    BY <1>1, <1>3, <1>6, <1>9, <1>10, <1>11, <1>12 DEF DaysKept

(* Pruning keeps one of the last files of each day prior to the job's.     *)
LEMMA PruneKeepsDaily ==
  ASSUME Typed, NEW w \in Workers, Prune(w),
         NEW d \in Prior(DayOf(job[w].file.at)), DayKept(d, made, files)
  PROVE  DayKept(d, made, files')
  <1> SUFFICES ASSUME On(d, made) # {} PROVE NewestOf(On(d, made)) \intersect files' # {}
    BY DEF DayKept
  <1>1. PICK f \in files : f \in NewestOf(On(d, made))
    BY DEF DayKept
  <1>2. f \in DailyOf(d) /\ DailyOf(d) \subseteq files /\ IsFiniteSet(DailyOf(d))
    <2>1. f \in DailyOf(d) /\ DailyOf(d) \subseteq files
      BY <1>1 DEF Typed, DailyOf, NewestOf, On
    <2> QED
      BY <2>1, FS_Subset DEF Typed
  <1>3. PICK daily : daily \subseteq files' /\
          Cardinality(daily \intersect DailyOf(d)) = Min({1, Cardinality(DailyOf(d))})
    BY DEF Prune, Retained
  <1>4. daily \intersect DailyOf(d) # {}
    <2>1. Cardinality(DailyOf(d)) \in Nat /\ Cardinality(DailyOf(d)) # 0
      BY <1>2, FS_EmptySet, FS_CardinalityType
    <2>2. Min({1, Cardinality(DailyOf(d))}) = 1
      BY <2>1, MinOfTwo
    <2> QED
      BY <1>3, <2>2, FS_EmptySet
  <1>5. PICK g \in files' : g \in DailyOf(d)
    BY <1>3, <1>4
  <1>6. g \in made /\ DayOf(g.at) = d /\ g.at >= f.at
    BY <1>1, <1>2, <1>5 DEF Typed, DailyOf, NewestOf, On
  <1>7. g \in NewestOf(On(d, made))
    BY <1>1, <1>6, InstantType DEF NewestOf, On
  <1> QED
    BY <1>5, <1>7

(* A file not older than one of the last of its day is one of them.        *)
LEMMA AlsoLast ==
  ASSUME Typed, NEW d, NEW f \in NewestOf(On(d, made)), NEW kept,
         NEW s \in kept, s \in made, f.at <= s.at, DayOf(s.at) = d
  PROVE  DayKept(d, made, kept)
  <1>1. f \in made /\ \A g \in On(d, made) : g.at <= f.at
    BY DEF NewestOf, On
  <1>2. s \in NewestOf(On(d, made))
    BY <1>1, InstantType DEF NewestOf, On
  <1> QED
    BY <1>2 DEF DayKept

(* Pruning keeps the last backup of the day before the clock's and of the  *)
(* day itself for being recent, where it does not count them as prior.     *)
LEMMA PruneKeepsLatest ==
  ASSUME Recent >= 2, Typed, DaysKept, NEW w \in Workers, Prune(w),
         NEW d \in {DayOf(now), DayOf(job[w].file.at)}, DayKept(d, made, files)
  PROVE  DayKept(d, made, files')
  <1>1. /\ now \in Nat /\ DayOf(now) \in Int /\ d \in Int
        /\ \A f \in made : f.at \in Nat /\ DayOf(f.at) \in Int
        /\ job[w].file.at \in Nat /\ job[w].file.at \in {now - 1, now}
        /\ files \subseteq made /\ IsFiniteSet(files) /\ Recent \in Nat
    BY InstantType, DaysPass, RetentionAssumption DEF DaysKept, Prune, Typed
  <1> SUFFICES ASSUME NEW f \in files, f \in NewestOf(On(d, made)), f \notin files'
               PROVE  DayKept(d, made, files')
    BY DEF DayKept
  <1>2. PICK recent \in NewestSets(Recent) : recent \subseteq files'
    BY PrunedFiles
  <1>3. /\ recent \subseteq files /\ Cardinality(recent) = Min({Recent, Cardinality(files)})
        /\ \A s \in recent, g \in files \ recent : g.at <= s.at
    BY DEF NewestSets
  <1>4. Cardinality(recent) = Recent /\ \A s \in recent : f.at <= s.at
    <2>1. Cardinality(files) \in Nat /\ IsFiniteSet(recent)
      BY <1>1, <1>3, FS_Subset, FS_CardinalityType
    <2>2. Cardinality(recent) # Cardinality(files)
      BY <1>1, <1>2, <1>3, FS_Subset
    <2> QED
      BY <1>1, <1>2, <1>3, <2>1, <2>2, MinOfTwo
  <1>5. PICK r \in recent, s \in recent : r # s
    <2>1. recent # {}
      <3>1. SUFFICES ASSUME recent = {} PROVE FALSE
        OBVIOUS
      <3>2. Cardinality(recent) = 0
        BY <3>1, FS_EmptySet, Zenon
      <3> QED
        BY <1>1, <1>4, <3>2
    <2>2. PICK r : r \in recent
      BY <2>1
    <2>3. recent # {r}
      BY <1>1, <1>4, FS_Singleton
    <2> QED
      BY <2>2, <2>3
  <1>6. /\ f \in made /\ DayOf(f.at) = d
        /\ r \in made /\ s \in made /\ r \in files' /\ s \in files'
    BY <1>1, <1>2, <1>3, <1>5 DEF NewestOf, On
  <1>7. /\ d <= DayOf(r.at) /\ DayOf(r.at) <= DayOf(now)
        /\ d <= DayOf(s.at) /\ DayOf(s.at) <= DayOf(now)
    BY <1>1, <1>4, <1>5, <1>6, DaysPass DEF DaysKept
  <1>8. CASE d = DayOf(now)
    BY <1>1, <1>4, <1>5, <1>6, <1>7, <1>8, AlsoLast
  <1>9. CASE d # DayOf(now)
    <2>1. d = DayOf(job[w].file.at) /\ Old(w)
      BY <1>9 DEF Old, Prune
    <2>2. PICK t \in {r, s} : t.at # now
      BY <1>5, <1>6, <2>1 DEF DaysKept, OneNewer
    <2>3. t.at <= job[w].file.at
      BY <1>1, <1>6, <2>1, <2>2 DEF DaysKept, Old
    <2>4. DayOf(t.at) = d
      BY <1>1, <1>6, <1>7, <2>1, <2>2, <2>3, DaysPass
    <2> QED
      BY <1>4, <1>5, <1>6, <2>2, <2>4, AlsoLast
  <1> QED
    BY <1>8, <1>9

(* Pruning, by a job of this day or of the one before.                     *)
LEMMA PruneKeepsDays ==
  ASSUME Recent >= 2, Typed, DaysKept, NEW w \in Workers, Prune(w)
  PROVE  DaysKept'
  <1>1. /\ now' = now /\ made' = made /\ now \in Nat /\ Interval \in Nat \ {0}
        /\ job'[w].pc = "idle" /\ \A v \in Workers \ {w} : job'[v] = job[v]
        /\ w = "scheduler" => reason' = "scheduled" /\ wake' = now + Interval
        /\ w = "request" => reason' = reason /\ wake' = wake
    BY InstantType, BoundsAssumption DEF Prune, Sleeps, Typed, Idle, Workers
  <1>2. ASSUME NEW k \in 0..PriorDays PROVE DayKept(DayOf(now') - k, made', files')
    <2> DEFINE today == DayOf(now)
               day   == DayOf(job[w].file.at)
    <2>1. today \in Int /\ day \in Int /\ day \in {today - 1, today} /\ k \in Nat
      <3>1. /\ job[w].file.at \in Nat /\ job[w].file.at \in {now - 1, now}
        BY InstantType DEF DaysKept, Prune
      <3> QED
        BY <1>1, <3>1, DaysPass, RetentionAssumption
    <2>2. DayKept(today - k, made, files)
      BY DEF DaysKept
    <2>3. CASE today - k \in {today, day}
      BY <1>1, <2>3, <2>2, PruneKeepsLatest
    <2>4. CASE today - k \notin {today, day}
      <3>1. today - k = day - (day - today + k) /\ day - today + k \in 1..PriorDays
        BY <2>1, <2>4, RetentionAssumption
      <3>2. today - k \in Prior(day)
        BY <3>1 DEF Prior
      <3> QED
        BY <1>1, <2>2, <3>2, PruneKeepsDaily
    <2> QED
      BY <2>3, <2>4
  <1>3. \A v \in Workers : Old(v)' => v # w /\ Old(v)
    BY <1>1 DEF Old
  <1>4. OneNewer'
    BY <1>1, <1>3 DEF DaysKept, OneNewer
  <1>5. \A f \in made' : f.at = now' =>
          /\ Old("scheduler")' => f.reason = "emergency"
          /\ Old("request")' => \/ f.reason = reason'
                                \/ job'["scheduler"].pc = "idle" /\ wake' > now'
    BY <1>1, <1>3 DEF DaysKept, Workers
  <1>6. job'["scheduler"].pc # "idle" => job'["scheduler"].file.reason = reason'
    BY <1>1 DEF DaysKept, Workers
  <1>7. \A v \in Workers : job'[v].pc # "idle" => job'[v].file.at \in {now' - 1, now'}
    BY <1>1 DEF DaysKept
  <1> QED
    BY <1>1, <1>2, <1>4, <1>5, <1>6, <1>7 DEF DaysKept

(* A job begins, now.                                                      *)
LEMMA BeginKeepsDays ==
  ASSUME Typed, DaysKept, NEW w \in Workers, Begin(w, EmergencyReason) \/ Begin(w, reason),
         w = "scheduler" => Begin(w, reason) /\ now >= wake,
         UNCHANGED << now, files, made, reason, wake >>
  PROVE  DaysKept'
  <1>1. /\ job'[w].pc = "write" /\ job'[w].file.at = now
        /\ w = "scheduler" => job'[w].file.reason = reason
        /\ \A v \in Workers \ {w} : job'[v] = job[v]
        /\ now \in Nat /\ wake \in Int
    BY InstantType, BoundsAssumption DEF Begin, Typed
  <1>2. \A v \in Workers : Old(v)' => v # w /\ Old(v)
    BY <1>1 DEF Old
  <1>3. OneNewer'
    BY <1>1, <1>2 DEF DaysKept, OneNewer
  <1>4. \A f \in made' : f.at = now' =>
          /\ Old("scheduler")' => f.reason = "emergency"
          /\ Old("request")' => \/ f.reason = reason'
                                \/ job'["scheduler"].pc = "idle" /\ wake' > now'
    BY <1>1, <1>2 DEF DaysKept, Workers
  <1>5. job'["scheduler"].pc # "idle" => job'["scheduler"].file.reason = reason'
    BY <1>1 DEF DaysKept, Workers
  <1>6. \A v \in Workers : job'[v].pc # "idle" => job'[v].file.at \in {now' - 1, now'}
    BY <1>1 DEF DaysKept
  <1> QED
    BY <1>3, <1>4, <1>5, <1>6 DEF DaysKept

(* Jobs end without pruning: one fails, or all are lost with the process.  *)
LEMMA LossKeepsDays ==
  ASSUME Typed, DaysKept, Restart \/ \E w \in Workers : JobFails(w)
  PROVE  DaysKept'
  <1>1. /\ UNCHANGED << now, files, made >>
        /\ \A v \in Workers : job'[v].pc = "idle" \/ job'[v] = job[v]
        /\ \/ \A v \in Workers : job'[v].pc = "idle"
           \/ UNCHANGED << reason, wake >>
    BY DEF Restart, JobFails, Typed, Idle
  <1>2. \A v \in Workers : Old(v)' => Old(v) /\ UNCHANGED << reason, wake >>
    BY <1>1 DEF Old
  <1>3. OneNewer'
    BY <1>1, <1>2 DEF DaysKept, OneNewer
  <1>4. \A f \in made' : f.at = now' =>
          /\ Old("scheduler")' => f.reason = "emergency"
          /\ Old("request")' => \/ f.reason = reason'
                                \/ job'["scheduler"].pc = "idle" /\ wake' > now'
    BY <1>1, <1>2 DEF DaysKept, Workers
  <1>5. job'["scheduler"].pc # "idle" => job'["scheduler"].file.reason = reason'
    BY <1>1 DEF DaysKept, Workers
  <1>6. \A v \in Workers : job'[v].pc # "idle" => job'[v].file.at \in {now' - 1, now'}
    BY <1>1 DEF DaysKept
  <1> QED
    BY <1>1, <1>3, <1>4, <1>5, <1>6 DEF DaysKept

(* No step loses the last backup of a day.                                 *)
LEMMA NextKeepsDays == Recent >= 2 /\ Typed /\ DaysKept /\ [Next]_vars => DaysKept'
  <1> SUFFICES ASSUME Recent >= 2, Typed, DaysKept, [Next]_vars PROVE DaysKept'
    OBVIOUS
  <1>1. CASE Tick
    BY <1>1, TickKeepsDays
  <1>2. CASE BeginScheduled
    BY <1>2, BeginKeepsDays DEF BeginScheduled, Workers
  <1>3. CASE BeginEmergency
    BY <1>3, BeginKeepsDays DEF BeginEmergency, Workers
  <1>4. ASSUME NEW w \in Workers, WriteFile(w) PROVE DaysKept'
    BY <1>4, WriteKeepsDays
  <1>5. ASSUME NEW w \in Workers, Prune(w) PROVE DaysKept'
    BY <1>5, PruneKeepsDays
  <1>6. CASE Restart \/ \E w \in Workers : JobFails(w)
    BY <1>6, LossKeepsDays
  <1>7. CASE UNCHANGED << now, files, made, reason, wake, job >>
    BY <1>7 DEF DaysKept, OneNewer, Old
  <1> QED
    BY <1>1, <1>2, <1>3, <1>4, <1>5, <1>6, <1>7
    DEF Next, JobStep, StorageFails, StorageRecovers, vars

(* A prior day that had a backup still has one, the last of its day,       *)
(* whatever two workers, failures and restarts make of the nights between: *)
(* two recent backups are enough for it, and the code keeps four.  One is  *)
(* not: a job begun at the last instant of a day prunes by that day.       *)
THEOREM DailyBackupsKept == Recent >= 2 => (Spec => []DailyKept)
  <1> SUFFICES ASSUME Recent >= 2 PROVE Spec => []DailyKept
    OBVIOUS
  <1>1. Init => DaysKept
    <2> SUFFICES ASSUME Init PROVE DaysKept
      OBVIOUS
    <2>1. made = {} /\ files = {} /\ \A w \in Workers : job[w].pc = "idle"
      BY DEF Init, Idle
    <2>2. \A d : DayKept(d, made, files)
      BY <2>1 DEF DayKept, On
    <2> QED
      BY <2>1, <2>2 DEF DaysKept, OneNewer, Old, Workers
  <1>2. Typed /\ DaysKept /\ [Next]_vars => DaysKept'
    BY NextKeepsDays
  <1>3. DaysKept => DailyKept
    BY RetentionAssumption DEF DaysKept, DayKept, On, DailyKept
  <1> QED
    BY <1>1, <1>2, <1>3, AlwaysTyped, PTL DEF Spec
=============================================================================
