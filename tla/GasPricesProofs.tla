-------------------------- MODULE GasPricesProofs --------------------------
(***************************************************************************)
(* Theorems about GasPrices, for any prices, months and threads.  The      *)
(* strengthening says what a request holds between its steps: the price it *)
(* is about to store is one a user entered, or lies between snapshots of   *)
(* the month it is about to store it for; and what it has seen stored is   *)
(* still stored, for no row is ever deleted.                               *)
(***************************************************************************)
EXTENDS GasPrices, ArithmeticFacts

(* Two snapshots a price lies between.                                     *)
Between(p, seen) == \E low, high \in seen : low <= p /\ p <= high

(* What holds of a request t, given the snapshots, the observed prices and *)
(* the monthly rows.                                                       *)
Sound(t, snaps, seen, rows) ==
  /\ t.pc \in {"find", "save"} => t.price \in Prices
  /\ t.pc = "save" /\ t.loaded # 0 => snaps[t.day] # 0
  /\ t.kind = "manual" => t.pc \in {"lookup", "store"} /\ t.price \in Entries
  /\ t.kind = "snapshot" => t.pc \in {"fetch", "find", "save"}
  /\ t.kind = "ensure" => t.entitled
  /\ t.kind = "refresh" /\ t.pc \notin {"idle", "fetch"} => t.entitled
  /\ t.kind # "manual" /\ t.pc \in {"lookup", "store"} => Between(t.price, seen[t.month])
  /\ t.pc = "store" /\ t.row # NoPrice => rows[t.month] # NoPrice

SnapshotsObserved == \A d \in Days : snapshots[d] # 0 => snapshots[d] \in observed[MonthOf(d)]

RequestsSound == \A w \in Workers : Sound(task[w], snapshots, observed, monthly)

IInv == TypeOK /\ SnapshotsObserved /\ RequestsSound /\ PricesAreOfTheirMonth

-----------------------------------------------------------------------------
(* Days, months and averages.                                              *)

(* The month of a day of the model is a month of the model.                *)
LEMMA MonthType == ASSUME NEW d \in Days PROVE MonthOf(d) \in Months
  <1>1. d \in Int /\ d >= 0 /\ d <= MaxDay /\ MaxDay \in Int /\ MonthLength \in Nat \ {0}
    BY BoundsAssumption DEF Days
  <1>2. d \div MonthLength \in Nat
    BY <1>1, Quotient
  <1>3. d \div MonthLength <= MaxDay \div MonthLength /\ MaxDay \div MonthLength \in Int
    BY <1>1, Quotient, QuotientMonotonic
  <1> QED
    BY <1>2, <1>3 DEF MonthOf, Months

(* The days between the first and the last of a month are its days.        *)
LEMMA MonthHasItsDays ==
  ASSUME NEW d \in Days, NEW m \in Months, InMonth(d, m)
  PROVE  MonthOf(d) = m
  <1>1. d \in Int /\ m \in Int /\ MonthLength \in Nat \ {0}
    BY BoundsAssumption DEF Days, Months
  <1>2. MonthLength * m <= d /\ d < MonthLength * m + MonthLength
    <2>1. /\ m * MonthLength = MonthLength * m /\ (m + 1) * MonthLength = MonthLength * (m + 1)
          /\ MonthLength * (m + 1) = MonthLength * m + MonthLength
      BY <1>1, TimesSuccessor
    <2> QED
      BY <2>1 DEF InMonth
  <1>3. d \div MonthLength \in Int /\ d \div MonthLength <= m /\ m <= d \div MonthLength
    BY <1>1, <1>2, Quotient, QuotientAtMost, QuotientAtLeast
  <1> QED
    BY <1>1, <1>3 DEF MonthOf

(* The average of a month with snapshots lies between two of them.         *)
LEMMA AverageBetween ==
  ASSUME TypeOK, NEW m \in Months, DaysOf(m) # {}
  PROVE  /\ Average(m) \in Nat
         /\ \E l, h \in DaysOf(m) : snapshots[l] <= Average(m) /\ Average(m) <= snapshots[h]
  <1> DEFINE D == DaysOf(m)
             n == Cardinality(D)
             total == TotalOf(m)
  <1>1. IsFiniteSet(D) /\ n \in Nat \ {0}
    <2>1. IsFiniteSet(Days)
      BY BoundsAssumption, FS_Interval DEF Days
    <2>2. D \subseteq Days
      BY DEF DaysOf
    <2> QED
      BY <2>1, <2>2, FS_Subset, FS_CardinalityType, FS_EmptySet
  <1>2. \A d \in D : snapshots[d] \in Nat
    BY PricesAssumption DEF DaysOf, TypeOK
  <1>3. PICK l, h \in D : \A d \in D : snapshots[l] <= snapshots[d] /\ snapshots[d] <= snapshots[h]
    BY <1>1, <1>2, Extremes
  <1>4. snapshots[l] \in Nat /\ snapshots[h] \in Nat
    BY <1>2
  <1>5. total \in Nat
    BY <1>1, <1>2, SumRemove DEF TotalOf
  <1>6. snapshots[l] * n <= total /\ total <= snapshots[h] * n
    <2>1. \A d \in D : snapshots[d] \in snapshots[l]..snapshots[h]
      BY <1>2, <1>3, <1>4
    <2> HIDE DEF D
    <2> QED
      BY <1>1, <1>4, <2>1, SumBounds DEF TotalOf, D
  <1> DEFINE a == 2 * total + n
             d2 == 2 * n
  <1>7. a \in Nat /\ d2 \in Nat \ {0}
    <2> HIDE DEF n, total
    <2> QED
      BY <1>1, <1>5
  <1>8. Average(m) = a \div d2
    BY DEF Average
  <1>9. d2 * snapshots[l] <= a /\ a < d2 * snapshots[h] + d2
    <2>1. ASSUME NEW q \in Nat, NEW k \in Nat PROVE (2 * k) * q = 2 * (q * k) /\ q * k \in Nat
      OBVIOUS
    <2>2. /\ d2 * snapshots[l] = 2 * (snapshots[l] * n) /\ d2 * snapshots[h] = 2 * (snapshots[h] * n)
          /\ snapshots[l] * n \in Nat /\ snapshots[h] * n \in Nat
      BY <1>1, <1>4, <2>1
    <2> HIDE DEF n, total
    <2> QED
      BY <1>1, <1>5, <1>6, <2>2
  <1> HIDE DEF a, d2
  <1>10. a \div d2 \in Nat /\ snapshots[l] <= a \div d2 /\ a \div d2 <= snapshots[h]
    BY <1>4, <1>7, <1>9, Quotient, QuotientAtMost, QuotientAtLeast
  <1> QED
    BY <1>8, <1>10

-----------------------------------------------------------------------------
(* Types of what requests hold.                                            *)

(* No price and no entry is above every amount.                            *)
LEMMA AmountsType ==
  /\ 0 \in Amounts /\ Amounts \subseteq Nat
  /\ Prices \subseteq Amounts /\ Entries \subseteq Amounts
  BY PricesAssumption DEF Amounts

(* A thread at rest, and a month without a price, are typed.               *)
LEMMA IdleType == Idle \in TaskType /\ NoPrice \in MonthPrice /\ 0 \in Days /\ 0 \in Months
  <1>1. 0 \in Days
    BY BoundsAssumption DEF Days
  <1>2. MonthOf(0) = 0
    <2>1. /\ 0 \div MonthLength <= 0 /\ 0 \div MonthLength \in Nat
      BY BoundsAssumption, Quotient, QuotientAtMost
    <2> QED
      BY <2>1 DEF MonthOf
  <1>3. 0 \in Months
    BY <1>1, <1>2, MonthType
  <1> QED
    BY <1>1, <1>3, AmountsType DEF Idle, TaskType, MonthPrice, NoPrice, Sources

(* The average of a month is an amount, and lies between observed prices.  *)
LEMMA AverageJustified ==
  ASSUME TypeOK, SnapshotsObserved, NEW m \in Months, DaysOf(m) # {}
  PROVE  Average(m) \in Amounts /\ Between(Average(m), observed[m])
  <1>1. PICK l, h \in DaysOf(m) : snapshots[l] <= Average(m) /\ Average(m) <= snapshots[h]
    BY AverageBetween
  <1>2. /\ l \in Days /\ snapshots[l] # 0 /\ InMonth(l, m)
        /\ h \in Days /\ snapshots[h] # 0 /\ InMonth(h, m)
    BY DEF DaysOf
  <1>3. snapshots[l] \in observed[m] /\ snapshots[h] \in observed[m]
    BY <1>2, MonthHasItsDays DEF SnapshotsObserved
  <1>4. snapshots[h] \in Prices
    BY <1>2 DEF TypeOK
  <1>5. Average(m) \in Nat
    BY AverageBetween
  <1> QED
    BY <1>1, <1>3, <1>4, <1>5 DEF Amounts, Between

(* A thread that goes on leaves the others where they are.                 *)
LEMMA BecomesType ==
  ASSUME TypeOK, NEW w \in Workers, NEW t \in TaskType, Becomes(w, t)
  PROVE  /\ task' \in [Workers -> TaskType]
         /\ task'[w] = t /\ \A v \in Workers : v # w => task'[v] = task[v]
  BY DEF TypeOK, Becomes

(* Snapshots and rows are replaced, never deleted, and a price observed    *)
(* stays so: a thread that does not move stays sound.                      *)
LEMMA OthersSound ==
  ASSUME IInv, NEW w \in Workers, task'[w] = task[w],
         \A d \in Days : snapshots[d] # 0 => snapshots'[d] # 0,
         \A m \in Months : observed[m] \subseteq observed'[m],
         \A m \in Months : monthly[m] # NoPrice => monthly'[m] # NoPrice
  PROVE  Sound(task'[w], snapshots', observed', monthly')
  <1> DEFINE t == task[w]
  <1>1. /\ t.month \in Months /\ t.day \in Days
        /\ Sound(t, snapshots, observed, monthly)
    BY DEF IInv, RequestsSound, TypeOK, TaskType
  <1> HIDE DEF t
  <1>2. Sound(t, snapshots', observed', monthly')
    BY <1>1 DEF Sound, Between
  <1> QED
    BY <1>2 DEF t

(* A step that writes nothing and brings one thread to a sound state.      *)
LEMMA QuietStep ==
  ASSUME IInv, NEW w \in Workers, NEW t \in TaskType, Becomes(w, t),
         Sound(t, snapshots, observed, monthly),
         today' = today, UNCHANGED stored, requests' \in 0..MaxRequests
  PROVE  IInv'
  <1>1. /\ task' \in [Workers -> TaskType]
        /\ task'[w] = t /\ \A v \in Workers : v # w => task'[v] = task[v]
    BY BecomesType DEF IInv
  <1>2. UNCHANGED << snapshots, monthly, observed, entered >>
    BY DEF stored
  <1>3. TypeOK'
    BY <1>1, <1>2 DEF IInv, TypeOK
  <1>4. RequestsSound'
    BY <1>1, <1>2 DEF IInv, RequestsSound
  <1>5. SnapshotsObserved' /\ PricesAreOfTheirMonth'
    BY <1>2 DEF IInv, SnapshotsObserved, PricesAreOfTheirMonth, Saved
  <1> QED
    BY <1>3, <1>4, <1>5 DEF IInv

-----------------------------------------------------------------------------
(* One lemma per operation.                                                *)

(* A request counts, unless it is the scheduler's.                         *)
LEMMA BeginType ==
  ASSUME TypeOK, NEW w \in Workers, NEW t, Begin(w, t)
  PROVE  requests' \in 0..MaxRequests /\ Becomes(w, t)
  BY BoundsAssumption DEF Begin, TypeOK

(* A request begins, of whatever kind.                                     *)
LEMMA RequestStep ==
  ASSUME IInv, NEW w \in Workers, BeginRefresh(w) \/ Request(w)
  PROVE  IInv'
  <1>1. TypeOK
    BY DEF IInv
  <1>2. CASE BeginRefresh(w)
    <2> DEFINE t == [Idle EXCEPT !.pc = "fetch", !.kind = "refresh"]
    <2>1. t \in TaskType
      BY IdleType DEF TaskType
    <2>2. Sound(t, snapshots, observed, monthly)
      BY DEF Sound, Idle
    <2> QED
      BY <1>1, <1>2, <2>1, <2>2, BeginType, QuietStep DEF BeginRefresh
  <1>3. CASE BeginSnapshot(w)
    <2> DEFINE t == [Idle EXCEPT !.pc = "fetch", !.kind = "snapshot"]
    <2>1. t \in TaskType
      BY IdleType DEF TaskType
    <2>2. Sound(t, snapshots, observed, monthly)
      BY DEF Sound, Idle
    <2> QED
      BY <1>1, <1>3, <2>1, <2>2, BeginType, QuietStep DEF BeginSnapshot
  <1>4. ASSUME NEW m \in Months, BeginEnsure(w, m) PROVE IInv'
    <2> DEFINE t == [Idle EXCEPT !.pc = IF MonthOf(today) = m THEN "fetch" ELSE "average",
                                 !.kind = "ensure", !.month = m,
                                 !.entitled = monthly[m] = NoPrice]
    <2>1. t \in TaskType
      BY IdleType DEF TaskType
    <2>2. Sound(t, snapshots, observed, monthly)
      BY <1>4 DEF Sound, Idle, BeginEnsure, Saved
    <2> QED
      BY <1>1, <1>4, <2>1, <2>2, BeginType, QuietStep DEF BeginEnsure
  <1>5. ASSUME NEW m \in Months, NEW p \in Entries, BeginManual(w, m, p) PROVE IInv'
    <2> DEFINE t == [Idle EXCEPT !.pc = "lookup", !.kind = "manual", !.month = m, !.price = p]
    <2>1. t \in TaskType
      BY IdleType, AmountsType DEF TaskType
    <2>2. Sound(t, snapshots, observed, monthly)
      BY DEF Sound, Idle
    <2> QED
      BY <1>1, <1>5, <2>1, <2>2, BeginType, QuietStep DEF BeginManual
  <1> QED
    BY <1>2, <1>3, <1>4, <1>5 DEF Request

(* The provider answers, or not.                                           *)
LEMMA FetchStep ==
  ASSUME IInv, NEW w \in Workers, Fetch(w) \/ FetchFails(w)
  PROVE  IInv'
  <1>1. TypeOK /\ task[w] \in TaskType /\ Sound(task[w], snapshots, observed, monthly)
    BY DEF IInv, TypeOK, RequestsSound
  <1>2. requests \in 0..MaxRequests /\ today \in Days /\ MonthOf(today) \in Months
    BY <1>1, MonthType DEF TypeOK
  <1>3. CASE Fetch(w)
    <2> DEFINE t(p) == [task[w] EXCEPT !.pc = "find", !.day = today, !.price = p,
                          !.month = IF task[w].kind = "ensure" THEN task[w].month
                                    ELSE MonthOf(today),
                          !.entitled = task[w].entitled \/ task[w].kind = "refresh"]
    <2>1. PICK p \in Prices : Becomes(w, t(p))
      BY <1>3 DEF Fetch
    <2>2. t(p) \in TaskType
      BY <1>1, <1>2, AmountsType DEF TaskType
    <2>3. Sound(t(p), snapshots, observed, monthly)
      BY <1>1, <1>3 DEF Sound, Fetch, TaskType
    <2> QED
      BY <1>2, <1>3, <2>1, <2>2, <2>3, QuietStep DEF Fetch
  <1>4. CASE FetchFails(w)
    <2>1. Sound(Idle, snapshots, observed, monthly)
      BY DEF Sound, Idle
    <2> QED
      BY <1>2, <1>4, <2>1, IdleType, QuietStep DEF FetchFails, Ends
  <1> QED
    BY <1>3, <1>4

(* The day's snapshot and the month's row are looked for, and the average  *)
(* is taken.                                                               *)
LEMMA ReadStep ==
  ASSUME IInv, NEW w \in Workers, FindSnapshot(w) \/ TakeAverage(w) \/ FindMonthly(w)
  PROVE  IInv'
  <1>1. TypeOK /\ task[w] \in TaskType /\ Sound(task[w], snapshots, observed, monthly)
    BY DEF IInv, TypeOK, RequestsSound
  <1>2. requests \in 0..MaxRequests
    BY <1>1 DEF TypeOK
  <1>3. CASE FindSnapshot(w)
    <2> DEFINE t == [task[w] EXCEPT !.pc = "save", !.loaded = snapshots[task[w].day]]
    <2>1. snapshots[task[w].day] \in Amounts
      BY <1>1, AmountsType DEF TypeOK, TaskType
    <2>2. t \in TaskType
      BY <1>1, <2>1 DEF TaskType
    <2>3. Sound(t, snapshots, observed, monthly)
      BY <1>1, <1>3 DEF Sound, FindSnapshot, TaskType
    <2> QED
      BY <1>2, <1>3, <2>2, <2>3, QuietStep DEF FindSnapshot
  <1>4. CASE TakeAverage(w)
    <2> DEFINE m == task[w].month
               t == [task[w] EXCEPT !.pc = "lookup", !.day = 0, !.price = Average(m)]
    <2>1. CASE DaysOf(m) = {}
      <3>1. Sound(Idle, snapshots, observed, monthly)
        BY DEF Sound, Idle
      <3> QED
        BY <1>2, <1>4, <2>1, <3>1, IdleType, QuietStep DEF TakeAverage, Ends
    <2>2. CASE DaysOf(m) # {}
      <3>1. Average(m) \in Amounts /\ Between(Average(m), observed[m])
        BY <1>1, <2>2, AverageJustified DEF TaskType, IInv
      <3>2. t \in TaskType
        BY <1>1, <3>1, IdleType DEF TaskType
      <3>3. Sound(t, snapshots, observed, monthly)
        BY <1>1, <1>4, <3>1 DEF Sound, TakeAverage, TaskType
      <3> QED
        BY <1>2, <1>4, <2>2, <3>2, <3>3, QuietStep DEF TakeAverage
    <2> QED
      BY <2>1, <2>2
  <1>5. CASE FindMonthly(w)
    <2> DEFINE m == task[w].month
               t == [task[w] EXCEPT !.pc = "store", !.row = monthly[m], !.month = m]
    <2>1. m \in Months /\ monthly[m] \in MonthPrice
      BY <1>1 DEF TypeOK, TaskType
    <2>2. t \in TaskType
      BY <1>1, <2>1 DEF TaskType
    <2>3. Sound(t, snapshots, observed, monthly)
      BY <1>1, <1>5 DEF Sound, FindMonthly, TaskType
    <2> QED
      BY <1>2, <1>5, <2>2, <2>3, QuietStep DEF FindMonthly, TargetMonth
  <1> QED
    BY <1>3, <1>4, <1>5

(* A column holds the new value or, when it is the one loaded, what the    *)
(* table holds by now.                                                     *)
LEMMA ColumnIs ==
  ASSUME NEW new, NEW loaded, NEW inTable
  PROVE  Column(new, loaded, inTable) \in {new, inTable}
  BY DEF Column

(* A snapshot is stored, unless another's insert came first.               *)
LEMMA SaveStep ==
  ASSUME IInv, NEW w \in Workers, SaveSnapshot(w)
  PROVE  IInv'
  <1> DEFINE t == task[w]
             p == Column(t.price, t.loaded, snapshots[t.day])
  <1>1. TypeOK /\ t \in TaskType /\ Sound(t, snapshots, observed, monthly) /\ t.pc = "save"
    BY DEF IInv, TypeOK, RequestsSound, SaveSnapshot
  <1>2. requests \in 0..MaxRequests /\ Sound(Idle, snapshots, observed, monthly)
    BY <1>1 DEF TypeOK, Sound, Idle
  <1>3. CASE t.loaded = 0 /\ snapshots[t.day] # 0
    <2>1. Ends(w) /\ UNCHANGED << today, stored, requests >>
      BY <1>3 DEF SaveSnapshot, stored
    <2> QED
      BY <1>2, <2>1, IdleType, QuietStep DEF Ends
  <1>4. CASE ~(t.loaded = 0 /\ snapshots[t.day] # 0)
    <2> DEFINE next == IF t.kind = "snapshot" THEN Idle ELSE AfterSave(t)
    <2>1. /\ snapshots' = [snapshots EXCEPT ![t.day] = p]
          /\ observed' = [observed EXCEPT ![MonthOf(t.day)] = @ \union {p}]
          /\ Becomes(w, next)
          /\ UNCHANGED << today, monthly, requests, entered >>
      BY <1>4 DEF SaveSnapshot
    <2>2. t.day \in Days /\ MonthOf(t.day) \in Months
      BY <1>1, MonthType DEF TaskType
    <2>3. p \in Prices /\ p # 0
      <3>1. t.price \in Prices /\ 0 \notin Prices
        BY <1>1, PricesAssumption DEF Sound
      <3>2. t.loaded # 0 => snapshots[t.day] \in Prices
        BY <1>1, <2>2 DEF Sound, TypeOK
      <3> QED
        BY <3>1, <3>2, <1>1 DEF Column, Sound
    <2>4. /\ snapshots \in [Days -> Prices \union {0}] /\ observed \in [Months -> SUBSET Prices]
      BY <1>1 DEF TypeOK
    <2> HIDE DEF p
    <2>5. /\ snapshots' \in [Days -> Prices \union {0}] /\ observed' \in [Months -> SUBSET Prices]
          /\ \A d \in Days : snapshots[d] # 0 => snapshots'[d] # 0
          /\ \A m \in Months : observed[m] \subseteq observed'[m]
          /\ p \in observed'[MonthOf(t.day)]
          /\ \A d \in Days : snapshots'[d] = IF d = t.day THEN p ELSE snapshots[d]
      BY <2>1, <2>2, <2>3, <2>4
    <2>6. next \in TaskType
      BY <1>1, IdleType, AmountsType DEF AfterSave, TaskType
    <2>7. Sound(next, snapshots', observed', monthly')
      <3>1. Sound(AfterSave(t), snapshots', observed', monthly') \/ t.kind = "snapshot"
        BY <1>1 DEF Sound, AfterSave, TaskType
      <3>2. Sound(Idle, snapshots', observed', monthly')
        BY DEF Sound, Idle
      <3> QED
        BY <3>1, <3>2
    <2> HIDE DEF next
    <2>8. /\ task' \in [Workers -> TaskType]
          /\ task'[w] = next /\ \A v \in Workers : v # w => task'[v] = task[v]
      BY <1>1, <2>1, <2>6, BecomesType
    <2>9. TypeOK'
      BY <1>1, <2>1, <2>5, <2>8 DEF TypeOK
    <2>10. ASSUME NEW v \in Workers, v # w
           PROVE  Sound(task'[v], snapshots', observed', monthly')
      BY <2>1, <2>5, <2>8, <2>10, OthersSound
    <2>11. RequestsSound'
      BY <2>7, <2>8, <2>10 DEF RequestsSound
    <2>12. SnapshotsObserved'
      <3> SUFFICES ASSUME NEW d \in Days, snapshots'[d] # 0
                   PROVE  snapshots'[d] \in observed'[MonthOf(d)]
        BY DEF SnapshotsObserved
      <3>1. MonthOf(d) \in Months
        BY MonthType
      <3> QED
        BY <2>5, <3>1 DEF IInv, SnapshotsObserved
    <2>13. PricesAreOfTheirMonth'
      <3> SUFFICES ASSUME NEW m \in Months, monthly[m] # NoPrice, monthly[m].price \notin entered[m]
                   PROVE  \E low, high \in observed'[m] :
                            low <= monthly[m].price /\ monthly[m].price <= high
        BY <2>1 DEF PricesAreOfTheirMonth, Saved
      <3> QED
        BY <2>5 DEF IInv, PricesAreOfTheirMonth, Saved
    <2> QED
      BY <2>9, <2>11, <2>12, <2>13 DEF IInv
  <1> QED
    BY <1>3, <1>4

(* A price is stored for a month, unless another's insert came first.      *)
LEMMA StoreStep ==
  ASSUME IInv, NEW w \in Workers, StoreMonthly(w)
  PROVE  IInv'
  <1> DEFINE t == task[w]
             m == t.month
  <1>1. TypeOK /\ t \in TaskType /\ Sound(t, snapshots, observed, monthly) /\ t.pc = "store"
    BY DEF IInv, TypeOK, RequestsSound, StoreMonthly
  <1>2. requests \in 0..MaxRequests /\ Sound(Idle, snapshots, observed, monthly)
    BY <1>1 DEF TypeOK, Sound, Idle
  <1>3. CASE t.row = NoPrice /\ monthly[m] # NoPrice
    <2>1. Ends(w) /\ UNCHANGED << today, stored, requests >>
      BY <1>3 DEF StoreMonthly, stored
    <2> QED
      BY <1>2, <2>1, IdleType, QuietStep DEF Ends
  <1>4. CASE ~(t.row = NoPrice /\ monthly[m] # NoPrice)
    <2> DEFINE price == Column(t.price, t.row.price, monthly[m].price)
               source == Column(Source(t), t.row.source, monthly[m].source)
               new == [price |-> price, source |-> source]
    <2>1. /\ monthly' = [monthly EXCEPT ![m] = new]
          /\ entered' = IF t.kind = "manual" THEN [entered EXCEPT ![m] = @ \union {t.price}]
                        ELSE entered
          /\ Becomes(w, Idle)
          /\ UNCHANGED << today, snapshots, requests, observed >>
      BY <1>4 DEF StoreMonthly, Ends
    <2>2. m \in Months /\ monthly[m] \in MonthPrice /\ t.price \in Amounts
      BY <1>1 DEF TaskType, TypeOK
    <2>3. Source(t) \in Sources /\ Source(t) # "none"
      BY DEF Source, Sources
    <2>4. new \in MonthPrice
      BY <2>2, <2>3, ColumnIs DEF MonthPrice
    <2>5. t.kind = "manual" => t.price \in Entries
      BY <1>1 DEF Sound
    <2>6. t.price # 0
      <3>1. CASE t.kind = "manual"
        BY <2>5, <3>1, PricesAssumption
      <3>2. CASE t.kind # "manual"
        <4>1. PICK low, high \in observed[m] : low <= t.price /\ t.price <= high
          BY <1>1, <3>2 DEF Sound, Between
        <4>2. low \in Nat \ {0} /\ t.price \in Nat
          BY <1>1, <2>2, AmountsType, PricesAssumption DEF TypeOK
        <4> QED
          BY <4>1, <4>2
      <3> QED
        BY <3>1, <3>2
    <2>7. /\ new # NoPrice
          /\ price = t.price \/ (Saved(m) /\ price = monthly[m].price)
      <3>1. CASE t.row = NoPrice
        <4>1. monthly[m] = NoPrice /\ t.row.price = 0
          BY <1>4, <3>1 DEF NoPrice
        <4>2. price = t.price
          BY <2>6, <4>1 DEF Column
        <4> QED
          BY <2>6, <4>2 DEF NoPrice
      <3>2. CASE t.row # NoPrice
        <4>1. monthly[m] # NoPrice
          BY <1>1, <3>2 DEF Sound
        <4>2. price \in {t.price, monthly[m].price} /\ source \in {Source(t), monthly[m].source}
          BY ColumnIs
        <4>3. Saved(m)
          BY <4>1 DEF Saved
        <4>4. new # NoPrice
          <5>1. CASE price = t.price
            BY <2>6, <5>1 DEF NoPrice
          <5>2. CASE price = monthly[m].price /\ source = monthly[m].source
            <6>1. new = monthly[m]
              BY <2>2, <5>2 DEF MonthPrice
            <6> QED
              BY <4>1, <6>1
          <5>3. CASE source = Source(t)
            BY <2>3, <5>3 DEF NoPrice
          <5> QED
            BY <4>2, <5>1, <5>2, <5>3
        <4> QED
          BY <4>2, <4>3, <4>4
      <3> QED
        BY <3>1, <3>2
    <2> HIDE DEF new, price, source
    <2>8. /\ monthly \in [Months -> MonthPrice] /\ entered \in [Months -> SUBSET Entries]
      BY <1>1 DEF TypeOK
    <2>9. /\ monthly' \in [Months -> MonthPrice] /\ entered' \in [Months -> SUBSET Entries]
          /\ \A k \in Months : monthly'[k] = IF k = m THEN new ELSE monthly[k]
          /\ \A k \in Months : entered[k] \subseteq entered'[k]
          /\ t.kind = "manual" => t.price \in entered'[m]
      BY <2>1, <2>2, <2>4, <2>5, <2>8
    <2>10. /\ task' \in [Workers -> TaskType]
           /\ task'[w] = Idle /\ \A v \in Workers : v # w => task'[v] = task[v]
      BY <1>1, <2>1, IdleType, BecomesType
    <2>11. TypeOK'
      BY <1>1, <2>1, <2>9, <2>10 DEF TypeOK
    <2>12. ASSUME NEW v \in Workers, v # w
           PROVE  Sound(task'[v], snapshots', observed', monthly')
      <3>1. \A k \in Months : monthly[k] # NoPrice => monthly'[k] # NoPrice
        BY <2>7, <2>9
      <3> QED
        BY <2>1, <2>10, <2>12, <3>1, OthersSound
    <2>13. RequestsSound'
      <3>1. Sound(Idle, snapshots', observed', monthly')
        BY DEF Sound, Idle
      <3> QED
        BY <2>10, <2>12, <3>1 DEF RequestsSound
    <2>14. SnapshotsObserved'
      BY <2>1 DEF IInv, SnapshotsObserved
    <2>15. PricesAreOfTheirMonth'
      <3> SUFFICES ASSUME NEW k \in Months, monthly'[k] # NoPrice, monthly'[k].price \notin entered'[k]
                   PROVE  Between(monthly'[k].price, observed[k])
        BY <2>1 DEF PricesAreOfTheirMonth, Saved, Between
      <3>1. CASE k # m \/ (Saved(m) /\ price = monthly[m].price)
        <4>1. Saved(k) /\ monthly'[k].price = monthly[k].price
          BY <2>9, <3>1 DEF Saved, new
        <4> QED
          BY <2>9, <4>1 DEF IInv, PricesAreOfTheirMonth, Between
      <3>2. CASE k = m /\ price = t.price
        <4>1. monthly'[k].price = t.price /\ t.kind # "manual"
          BY <2>9, <3>2 DEF new
        <4> QED
          BY <1>1, <3>2, <4>1 DEF Sound
      <3> QED
        BY <2>7, <3>1, <3>2
    <2> QED
      BY <2>11, <2>13, <2>14, <2>15 DEF IInv
  <1> QED
    BY <1>3, <1>4

-----------------------------------------------------------------------------
(* The theorems.                                                           *)

(* The initial state satisfies the strengthened invariant.                 *)
LEMMA InitIInv == Init => IInv
  <1> SUFFICES ASSUME Init PROVE IInv
    OBVIOUS
  <1>1. TypeOK
    BY IdleType, BoundsAssumption DEF Init, TypeOK, Days
  <1>2. RequestsSound
    BY DEF Init, RequestsSound, Sound, Idle
  <1>3. SnapshotsObserved /\ PricesAreOfTheirMonth
    BY DEF Init, SnapshotsObserved, PricesAreOfTheirMonth, Saved
  <1> QED
    BY <1>1, <1>2, <1>3 DEF IInv

(* Every step keeps it.                                                    *)
LEMMA NextIInv == IInv /\ [Next]_vars => IInv'
  <1> SUFFICES ASSUME IInv, [Next]_vars PROVE IInv'
    OBVIOUS
  <1>1. CASE NextDay
    <2>1. today' \in Days /\ UNCHANGED << snapshots, monthly, observed, entered, task, requests >>
      BY <1>1, BoundsAssumption DEF NextDay, IInv, TypeOK, Days, stored
    <2> QED
      BY <2>1 DEF IInv, TypeOK, SnapshotsObserved, RequestsSound, PricesAreOfTheirMonth, Saved
  <1>2. ASSUME NEW w \in Requests, Request(w) PROVE IInv'
    BY <1>2, RequestStep DEF Workers
  <1>3. CASE BeginRefresh(Scheduler)
    BY <1>3, RequestStep DEF Workers
  <1>4. ASSUME NEW w \in Workers, Fetch(w) \/ FetchFails(w) \/ PriceStep(w) PROVE IInv'
    BY <1>4, FetchStep, ReadStep, SaveStep, StoreStep DEF PriceStep
  <1>5. CASE UNCHANGED vars
    BY <1>5 DEF vars, IInv, TypeOK, SnapshotsObserved, RequestsSound, PricesAreOfTheirMonth, Saved
  <1> QED
    BY <1>1, <1>2, <1>3, <1>4, <1>5 DEF Next

(* It holds throughout.                                                   *)
LEMMA AlwaysIInv == Spec => []IInv
  BY InitIInv, NextIInv, PTL DEF Spec

(* Every variable has its type: no average is above every price, however   *)
(* many days, prices and threads there are.                                *)
THEOREM PricesTypeCorrect == Spec => []TypeOK
  <1>1. IInv => TypeOK
    BY DEF IInv
  <1> QED
    BY <1>1, AlwaysIInv, PTL

(* The price of a month lies between snapshots of that month, or a user    *)
(* entered it, whichever threads refresh, enter and average at the turn of *)
(* a month.                                                                *)
THEOREM PricesStayInTheirMonth == Spec => []PricesAreOfTheirMonth
  <1>1. IInv => PricesAreOfTheirMonth
    BY DEF IInv
  <1> QED
    BY <1>1, AlwaysIInv, PTL

(* A price of a month that is over is replaced only by its user, or by a   *)
(* request that was entitled to: no refresh of a later month reaches it.   *)
THEOREM PricesOfThePastStand == Spec => []PastPricesStand
  <1>1. IInv => PastPricesStand
    BY DEF IInv, TypeOK, TaskType, RequestsSound, Sound, PastPricesStand
  <1> QED
    BY <1>1, AlwaysIInv, PTL
=============================================================================
