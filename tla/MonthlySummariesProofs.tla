----------------------- MODULE MonthlySummariesProofs -----------------------
(***************************************************************************)
(* Theorems about MonthlySummaries: where rows come in order, a page loses *)
(* neither an event nor a mile of its month to the purge, wherever the     *)
(* purge falls between the two reads.                                      *)
(*                                                                         *)
(* A row is purged only when its month is over, for the retention is not   *)
(* shorter than a month.  So the purge that takes the first row of a month *)
(* finds the whole month in the table and summarises it, and no row is     *)
(* added to it again; from then on the summary alone holds the month,      *)
(* before that the table does.                                             *)
(***************************************************************************)
EXTENDS MonthlySummaries, ArithmeticFacts

Typed ==
  /\ now \in 0..MaxTime
  /\ log \in Seq(Payloads)
  /\ table \subseteq DOMAIN log
  /\ summaries \in [Months -> Totals]
  /\ purge \in [pc : {"idle", "refresh", "delete"}, last : Nat, cutoff : Int,
                summaries : {<< >>} \union [Months -> Totals]]
  /\ purge.pc = "delete" => purge.summaries \in [Months -> Totals]
  /\ page \in [pc : {"idle", "summary", "shown"}, month : Months, raw : Totals,
               total : Totals, count : Nat, miles : Nat]

(* All rows of a month, purged or not, and totals that miss none of them.  *)
All(m)      == RowsOf(DOMAIN log, m)
Holds(s, m) == s.count >= Cardinality(All(m)) /\ s.miles >= MilesOf(All(m), m)
AtMost(s, m) == s.count <= Cardinality(All(m))
Covers(s, t) == s.count >= t.count /\ s.miles >= t.miles

RowsInOrder ==
  /\ \A r \in DOMAIN log : log[r].at <= now
  /\ \A q, r \in DOMAIN log : q < r => log[q].at < log[r].at
  /\ \A r \in DOMAIN log \ table : log[r].at < now - Retention

(* Months that have lost rows to a purge, and those that are losing some.  *)
Gone(m)  == \E r \in DOMAIN log \ table : MonthOf(log[r].at) = m
Going(m) == \E r \in Expired : MonthOf(log[r].at) = m

SummariesHold ==
  \A m \in Months : /\ AtMost(summaries[m], m)
                    /\ Gone(m) => Holds(summaries[m], m)

PurgeHolds ==
  /\ purge.pc # "idle" => purge.cutoff <= now - Retention /\ purge.last <= Len(log)
  /\ purge.pc = "delete" =>
       \A m \in Months : /\ AtMost(purge.summaries[m], m)
                         /\ Covers(purge.summaries[m], summaries[m])
                         /\ Going(m) => Holds(purge.summaries[m], m)

PageHolds ==
  /\ page.pc = "summary" =>
       /\ AtMost(page.raw, page.month)
       /\ \E s \in {page.raw, summaries[page.month]} :
            s.count >= page.count /\ s.miles >= page.miles
  /\ ShownCountsEveryRow /\ ShownHoldsMonthMiles

SInv == RowsInOrder /\ SummariesHold /\ PurgeHolds /\ PageHolds

-----------------------------------------------------------------------------
(* Types.                                                                  *)

(* What the rows are.                                                      *)
LEMMA RowsType ==
  ASSUME Typed
  PROVE  /\ Len(log) \in Nat /\ DOMAIN log = 1..Len(log) /\ IsFiniteSet(DOMAIN log)
         /\ \A r \in DOMAIN log : /\ log[r] \in Payloads
                                  /\ log[r].at \in Nat /\ log[r].place \in Nat
  <1>1. Len(log) \in Nat /\ DOMAIN log = 1..Len(log) /\ \A r \in DOMAIN log : log[r] \in Payloads
    BY DEF Typed
  <1>2. IsFiniteSet(1..Len(log))
    BY <1>1, FS_Interval
  <1> QED
    BY <1>1, <1>2, PayloadsAssumption

(* The segments that end in a row, and the totals of rows.                 *)
LEMMA SegmentsType ==
  ASSUME Typed, NEW ids \in SUBSET DOMAIN log, NEW r \in DOMAIN log
  PROVE  Segments(ids, r) \in Nat /\ IsFiniteSet(Previous(ids, r))
  <1> DEFINE gap == [q \in Previous(ids, r) |-> Gap(log[q], log[r])]
  <1>1. Previous(ids, r) \subseteq DOMAIN log
    BY DEF Previous, Before
  <1>2. IsFiniteSet(Previous(ids, r))
    BY <1>1, RowsType, FS_Subset
  <1>3. \A q \in Previous(ids, r) : gap[q] \in Nat
    BY <1>1, RowsType DEF Gap
  <1> HIDE DEF gap
  <1>4. SumFunctionOnSet(gap, Previous(ids, r)) \in Nat
    BY <1>2, <1>3, SumRemove
  <1> QED
    BY <1>2, <1>4 DEF Segments, gap

(* What is counted of the rows of a month is a pair of numbers.            *)
LEMMA TotalsType ==
  ASSUME Typed, NEW ids \in SUBSET DOMAIN log, NEW m
  PROVE  /\ MilesOf(ids, m) \in Nat /\ Cardinality(RowsOf(ids, m)) \in Nat
         /\ Raw(ids, m) \in Totals /\ IsFiniteSet(RowsOf(ids, m))
  <1> DEFINE length == [r \in RowsOf(ids, m) |-> Segments(ids, r)]
  <1>1. RowsOf(ids, m) \subseteq DOMAIN log
    BY DEF RowsOf
  <1>2. IsFiniteSet(RowsOf(ids, m))
    BY <1>1, RowsType, FS_Subset
  <1>3. \A r \in RowsOf(ids, m) : length[r] \in Nat
    BY <1>1, SegmentsType
  <1> HIDE DEF length
  <1>4. SumFunctionOnSet(length, RowsOf(ids, m)) \in Nat
    BY <1>2, <1>3, SumRemove
  <1> QED
    BY <1>2, <1>4, FS_CardinalityType DEF MilesOf, length, Raw, Totals

(* The higher of two totals is a total.                                    *)
LEMMA RaisedType ==
  ASSUME NEW s \in Totals, NEW t \in Totals
  PROVE  Raised(s, t) \in Totals /\ Covers(Raised(s, t), s) /\ Covers(Raised(s, t), t)
  BY DEF Raised, Higher, Totals, Covers

(* The first month is one, and there is no lower total than none.          *)
LEMMA NoneType == 0 \in Months /\ None \in Totals /\ NoPage.month = 0
  <1>1. MonthOf(MaxTime) \in Nat
    BY BoundsAssumption, Quotient DEF MonthOf
  <1> QED
    BY <1>1 DEF Months, None, Totals, NoPage

(* The initial state is typed.                                             *)
LEMMA InitTyped == Init => Typed
  <1> SUFFICES ASSUME Init PROVE Typed
    OBVIOUS
  <1>1. log = << >> /\ log \in Seq(Payloads) /\ now \in 0..MaxTime /\ table = {}
    BY BoundsAssumption DEF Init
  <1>2. summaries \in [Months -> Totals]
    BY NoneType DEF Init
  <1>3. purge \in [pc : {"idle", "refresh", "delete"}, last : Nat, cutoff : Int,
                   summaries : {<< >>} \union [Months -> Totals]] /\ purge.pc = "idle"
    BY DEF Init, NoPurge
  <1>4. page \in [pc : {"idle", "summary", "shown"}, month : Months, raw : Totals,
                  total : Totals, count : Nat, miles : Nat]
    BY NoneType DEF Init, NoPage
  <1> QED
    BY <1>1, <1>2, <1>3, <1>4 DEF Typed

(* What storing a row leaves as it was.                                    *)
LEMMA StoredRow ==
  ASSUME Typed, NEW x \in Payloads, StoreRow(x)
  PROVE  /\ log' \in Seq(Payloads) /\ DOMAIN log' = DOMAIN log \union {Len(log) + 1}
         /\ Len(log) + 1 \notin DOMAIN log /\ log'[Len(log) + 1] = x
         /\ \A r \in DOMAIN log : log'[r] = log[r]
         /\ Len(log') = Len(log) + 1
  BY DEF StoreRow, Typed

(* No step changes a type.                                                 *)
LEMMA NextTyped == Typed /\ [Next]_vars => Typed'
  <1> SUFFICES ASSUME Typed, [Next]_vars PROVE Typed'
    OBVIOUS
  <1> DEFINE PurgeType == [pc : {"idle", "refresh", "delete"}, last : Nat, cutoff : Int,
                           summaries : {<< >>} \union [Months -> Totals]]
             PageType == [pc : {"idle", "summary", "shown"}, month : Months, raw : Totals,
                          total : Totals, count : Nat, miles : Nat]
  <1>1. CASE Tick
    BY <1>1, BoundsAssumption DEF Tick, Typed
  <1>2. ASSUME NEW x \in Payloads, StoreRow(x) PROVE Typed'
    BY <1>2, StoredRow DEF StoreRow, Typed
  <1>3. CASE BeginPurge
    <2>1. purge' = [pc |-> "refresh", last |-> Len(log), cutoff |-> now - Retention, summaries |-> << >>]
      BY <1>3 DEF BeginPurge, NoPurge
    <2>2. Len(log) \in Nat /\ now - Retention \in Int
      BY RowsType, BoundsAssumption, RetentionAssumption DEF Typed
    <2>3. purge' \in PurgeType /\ purge'.pc = "refresh"
      BY <2>1, <2>2
    <2> QED
      BY <1>3, <2>3 DEF BeginPurge, Typed
  <1>4. CASE RefreshSummaries
    <2>1. \A m \in Months : Refreshed(m) \in Totals
      BY TotalsType, RaisedType DEF Refreshed, Typed
    <2>2. purge'.summaries \in [Months -> Totals] /\ purge' \in PurgeType
      BY <1>4, <2>1 DEF RefreshSummaries, Typed
    <2> QED
      BY <1>4, <2>2 DEF RefreshSummaries, Typed
  <1>5. CASE DeleteAndCommit \/ PurgeFails
    <2>1. NoPurge \in PurgeType /\ NoPurge.pc = "idle"
      BY DEF NoPurge
    <2> QED
      BY <1>5, <2>1 DEF DeleteAndCommit, PurgeFails, Typed
  <1>6. ASSUME NEW m \in Months, ReadRows(m) PROVE Typed'
    <2>1. /\ Raw(table, m) \in Totals
          /\ Raw(RowsOf(DOMAIN log, m), m) \in Totals
      <3>1. RowsOf(DOMAIN log, m) \in SUBSET DOMAIN log /\ table \in SUBSET DOMAIN log
        BY DEF RowsOf, Typed
      <3> QED
        BY <3>1, TotalsType
    <2>2. page' = [pc |-> "summary", month |-> m, raw |-> Raw(table, m), total |-> None,
                   count |-> Raw(RowsOf(DOMAIN log, m), m).count,
                   miles |-> Raw(RowsOf(DOMAIN log, m), m).miles]
      BY <1>6 DEF ReadRows, NoPage
    <2>3. Raw(RowsOf(DOMAIN log, m), m).count \in Nat /\ Raw(RowsOf(DOMAIN log, m), m).miles \in Nat
      BY <2>1 DEF Totals
    <2>4. page' \in PageType
      BY <2>1, <2>2, <2>3, NoneType
    <2> QED
      BY <1>6, <2>4 DEF ReadRows, Typed
  <1>7. CASE ReadSummary \/ ClosePage
    <2>1. page.month \in Months /\ Total \in Totals
      BY RaisedType DEF Total, Typed
    <2>2. NoPage \in PageType
      BY NoneType DEF NoPage
    <2>3. [page EXCEPT !.pc = "shown", !.total = Total] \in PageType
      BY <2>1 DEF Typed
    <2>4. page' \in PageType
      BY <1>7, <2>2, <2>3 DEF ReadSummary, ClosePage
    <2> QED
      BY <1>7, <2>4 DEF ReadSummary, ClosePage, Typed
  <1>8. CASE UNCHANGED vars
    BY <1>8 DEF vars, Typed, Totals
  <1> QED
    BY <1>1, <1>2, <1>3, <1>4, <1>5, <1>6, <1>7, <1>8 DEF Next

(* The types hold throughout.                                              *)
LEMMA AlwaysTyped == Spec => []Typed
  BY InitTyped, NextTyped, PTL DEF Spec

(* Every variable has its type: the totals of any rows are numbers.        *)
THEOREM SummariesTypeCorrect == Spec => []TypeOK
  <1>1. Typed => TypeOK
    BY DEF Typed, TypeOK
  <1> QED
    BY <1>1, AlwaysTyped, PTL

-----------------------------------------------------------------------------
(* Rows and months.                                                        *)

(* The month of a row is one of the clock's; the month of an expired row   *)
(* is over, for the retention is a month at least.                         *)
LEMMA RowMonths ==
  ASSUME Typed, RowsInOrder, NEW r \in DOMAIN log
  PROVE  /\ MonthOf(log[r].at) \in Months
         /\ log[r].at < now - Retention => MonthOf(log[r].at) # MonthOf(now)
  <1> DEFINE at == log[r].at
             m  == at \div MonthLength
  <1>1. /\ at \in Nat /\ now \in Nat /\ MaxTime \in Nat /\ at <= now /\ now <= MaxTime
        /\ MonthLength \in Nat \ {0} /\ Retention \in Nat /\ Retention >= MonthLength
    BY RowsType, BoundsAssumption, RetentionAssumption DEF Typed, RowsInOrder
  <1> HIDE DEF at
  <1>2. m \in Nat /\ MonthLength * m <= at /\ m <= MaxTime \div MonthLength
        /\ MaxTime \div MonthLength \in Int
    BY <1>1, Quotient, QuotientMonotonic
  <1>3. ASSUME at < now - Retention PROVE m # now \div MonthLength
    <2>1. MonthLength * (m + 1) = MonthLength * m + MonthLength /\ MonthLength * m \in Int
      BY <1>1, <1>2, TimesSuccessor
    <2>2. MonthLength * (m + 1) <= now
      <3> HIDE DEF m
      <3> QED
        BY <1>1, <1>2, <1>3, <2>1
    <2>3. m + 1 \in Int /\ m \in Int
      BY <1>2
    <2> HIDE DEF m
    <2>4. m + 1 <= now \div MonthLength
      BY <1>1, <2>2, <2>3, QuotientAtLeast
    <2> QED
      BY <2>3, <2>4
  <1> QED
    BY <1>2, <1>3 DEF at, MonthOf, Months

(* A row counts for the month it is in: none is added to another one, and  *)
(* none is taken from any.                                                 *)
LEMMA OtherMonths ==
  ASSUME Typed, ~LateRows, NEW x \in Payloads, StoreRow(x), NEW m, m # MonthOf(now)
  PROVE  All(m)' = All(m) /\ MilesOf(All(m), m)' = MilesOf(All(m), m)
  <1>1. x.at = now
    BY DEF StoreRow
  <1>2. All(m)' = All(m) /\ All(m) \subseteq DOMAIN log
    BY <1>1, StoredRow DEF All, RowsOf
  <1>3. \A r \in All(m) : log'[r] = log[r]
    BY <1>2, StoredRow
  <1>4. RowsOf(All(m), m)' = All(m) /\ RowsOf(All(m), m) = All(m)
    BY <1>2, <1>3 DEF All, RowsOf
  <1>5. ASSUME NEW r \in All(m) PROVE Segments(All(m), r)' = Segments(All(m), r)
    <2>1. Before(All(m), r)' = Before(All(m), r) /\ Before(All(m), r) \subseteq All(m)
      BY <1>2, <1>3 DEF Before
    <2>2. Previous(All(m), r)' = Previous(All(m), r) /\ Previous(All(m), r) \subseteq All(m)
      BY <1>3, <2>1 DEF Previous
    <2>3. [q \in Previous(All(m), r)' |-> Gap(log'[q], log'[r])]
            = [q \in Previous(All(m), r) |-> Gap(log[q], log[r])]
      BY <1>3, <2>2
    <2> QED
      BY <2>2, <2>3 DEF Segments
  <1>6. [r \in RowsOf(All(m), m)' |-> Segments(All(m), r)']
          = [r \in RowsOf(All(m), m) |-> Segments(All(m), r)]
    BY <1>4, <1>5
  <1> QED
    BY <1>2, <1>4, <1>6 DEF MilesOf

(* A stored row takes nothing off its month.                               *)
LEMMA MonthGrows ==
  ASSUME Typed, NEW x \in Payloads, StoreRow(x), NEW m
  PROVE  /\ Cardinality(All(m)) <= Cardinality(All(m)')
         /\ Cardinality(All(m)) \in Nat /\ Cardinality(All(m)') \in Nat
  <1>1. All(m) \subseteq All(m)' /\ All(m)' \subseteq DOMAIN log \union {Len(log) + 1}
    BY StoredRow DEF All, RowsOf
  <1>2. IsFiniteSet(All(m)')
    BY <1>1, RowsType, FS_AddElement, FS_Subset
  <1> QED
    BY <1>1, <1>2, FS_Subset, FS_CardinalityType

(* The rows in the table are not more than all of the month; while none of *)
(* the month is purged they are all of it, and their path has its miles:   *)
(* the row before a row of the month's own path is the one before it in    *)
(* the table as well.                                                      *)
LEMMA TableAtMost ==
  ASSUME Typed, NEW m
  PROVE  AtMost(Raw(table, m), m)
  <1>1. RowsOf(table, m) \subseteq All(m)
    BY DEF All, RowsOf, Typed
  <1>2. IsFiniteSet(All(m))
    BY TotalsType DEF All
  <1> QED
    BY <1>1, <1>2, FS_Subset DEF AtMost, Raw

(* While none of its rows is gone, the table holds all of a month.         *)
LEMMA WholeMonth ==
  ASSUME Typed, RowsInOrder, NEW m, ~Gone(m)
  PROVE  Holds(Raw(table, m), m)
  <1> DEFINE rows == All(m)
             length == [r \in rows |-> Segments(rows, r)]
             found  == [r \in rows |-> Segments(table, r)]
  <1>1. /\ RowsOf(table, m) = rows /\ RowsOf(rows, m) = rows /\ rows \subseteq table
        /\ rows \subseteq DOMAIN log /\ table \subseteq DOMAIN log
        /\ \A r \in DOMAIN log : r \in rows <=> MonthOf(log[r].at) = m
    BY DEF All, RowsOf, Typed, Gone
  <1>2. IsFiniteSet(rows)
    BY <1>1, RowsType, FS_Subset
  <1> HIDE DEF rows
  <1>3. ASSUME NEW r \in rows PROVE Segments(rows, r) <= Segments(table, r)
    <2>1. ASSUME NEW q \in Previous(rows, r) PROVE q \in Previous(table, r)
      <3>1. q \in rows /\ log[q].at < log[r].at
        BY <2>1 DEF Previous, Before
      <3>2. ASSUME NEW p \in table, log[p].at < log[r].at PROVE log[p].at <= log[q].at
        <4>1. CASE p \in rows
          BY <2>1, <3>2, <4>1 DEF Previous, Before
        <4>2. CASE p \notin rows
          <5> SUFFICES ASSUME log[q].at < log[p].at PROVE FALSE
            BY <1>1, <3>1, RowsType
          <5>1. /\ log[p].at \in Nat /\ log[q].at \in Nat /\ log[r].at \in Nat
                /\ MonthOf(log[q].at) = m /\ MonthOf(log[r].at) = m
            BY <1>1, <3>1, RowsType
          <5>2. /\ MonthOf(log[q].at) <= MonthOf(log[p].at)
                /\ MonthOf(log[p].at) <= MonthOf(log[r].at)
                /\ MonthOf(log[p].at) \in Int /\ MonthOf(log[q].at) \in Int
            BY <3>2, <5>1, BoundsAssumption, Quotient, QuotientMonotonic DEF MonthOf
          <5>3. MonthOf(log[p].at) = m
            BY <5>1, <5>2
          <5> QED
            BY <1>1, <4>2, <5>3
        <4> QED
          BY <4>1, <4>2
      <3> QED
        BY <1>1, <3>1, <3>2 DEF Previous, Before
    <2>2. Previous(table, r) \subseteq DOMAIN log /\ IsFiniteSet(Previous(table, r))
      BY <1>1, SegmentsType DEF Previous, Before
    <2> DEFINE gap  == [q \in Previous(rows, r) |-> Gap(log[q], log[r])]
               gaps == [q \in Previous(table, r) |-> Gap(log[q], log[r])]
    <2>3. \A q \in Previous(rows, r) : gap[q] \in Nat /\ gap[q] <= gaps[q]
      BY <1>1, <2>1, <2>2, RowsType DEF Gap
    <2>4. \A q \in Previous(table, r) : gaps[q] \in Nat
      BY <1>1, <2>2, RowsType DEF Gap
    <2>5. Previous(rows, r) \subseteq Previous(table, r)
      BY <2>1
    <2> HIDE DEF gap, gaps
    <2>6. SumFunctionOnSet(gap, Previous(rows, r)) <= SumFunctionOnSet(gaps, Previous(table, r))
      BY <2>2, <2>3, <2>4, <2>5, SumMonotonic
    <2> QED
      BY <2>6 DEF Segments, gap, gaps
  <1>4. \A r \in rows : length[r] \in Nat /\ length[r] <= found[r] /\ found[r] \in Nat
    BY <1>1, <1>3, SegmentsType
  <1>5. MilesOf(rows, m) = SumFunctionOnSet(length, rows) /\ MilesOf(table, m) = SumFunctionOnSet(found, rows)
    BY <1>1 DEF MilesOf
  <1> HIDE DEF length, found
  <1>6. SumFunctionOnSet(length, rows) <= SumFunctionOnSet(found, rows)
    BY <1>2, <1>4, SumMonotonic
  <1>7. Cardinality(rows) \in Nat
    BY <1>2, FS_CardinalityType
  <1> QED
    BY <1>1, <1>5, <1>6, <1>7 DEF Holds, Raw, rows

-----------------------------------------------------------------------------
(* The invariant.                                                          *)

(* A new row is the latest one.                                            *)
LEMMA StoreKeepsOrder ==
  ASSUME Typed, RowsInOrder, ~LateRows, NEW x \in Payloads, StoreRow(x)
  PROVE  RowsInOrder'
  <1> DEFINE new == Len(log) + 1
  <1>1. /\ DOMAIN log' = DOMAIN log \union {new} /\ new \notin DOMAIN log /\ log'[new] = x
        /\ \A r \in DOMAIN log : log'[r] = log[r]
    BY StoredRow
  <1>2. /\ x.at = now /\ now' = now /\ now \in Nat /\ DOMAIN log' \ table' = DOMAIN log \ table
    BY <1>1, BoundsAssumption DEF StoreRow, Typed
  <1>3. \A r \in DOMAIN log : log[r].at < now
    <2> SUFFICES ASSUME NEW r \in DOMAIN log, log[r].at = now PROVE FALSE
      BY <1>2, RowsType DEF RowsInOrder
    <2>1. log[r] = x
      BY <1>2, RowsType, PayloadsAssumption
    <2> QED
      BY <2>1 DEF StoreRow
  <1>4. \A r \in DOMAIN log' : log'[r].at <= now'
    BY <1>1, <1>2 DEF RowsInOrder
  <1>5. \A q, r \in DOMAIN log' : q < r => log'[q].at < log'[r].at
    <2> SUFFICES ASSUME NEW q \in DOMAIN log', NEW r \in DOMAIN log', q < r
                 PROVE  log'[q].at < log'[r].at
      OBVIOUS
    <2>1. q \in DOMAIN log
      BY <1>1, RowsType
    <2> QED
      BY <1>1, <1>2, <1>3, <2>1 DEF RowsInOrder
  <1> QED
    BY <1>1, <1>2, <1>4, <1>5 DEF RowsInOrder

(* The month of a row that is purged, or about to be, does not change.     *)
LEMMA StoreKeepsTotals ==
  ASSUME Typed, SInv, ~LateRows, NEW x \in Payloads, StoreRow(x)
  PROVE  SInv'
  <1>1. RowsInOrder'
    BY StoreKeepsOrder DEF SInv
  <1>2. /\ DOMAIN log' = DOMAIN log \union {Len(log) + 1} /\ Len(log) + 1 \notin DOMAIN log
        /\ \A r \in DOMAIN log : log'[r] = log[r]
        /\ table' = table \union {Len(log) + 1} /\ table \subseteq DOMAIN log
        /\ Len(log) \in Nat /\ Len(log') = Len(log) + 1
        /\ UNCHANGED << now, summaries, purge, page >>
    BY StoredRow, RowsType DEF StoreRow, Typed
  <1>3. ASSUME NEW s \in Totals, NEW m, AtMost(s, m)
        PROVE  s.count <= Cardinality(All(m)')
    <2>1. /\ Cardinality(All(m)) <= Cardinality(All(m)')
          /\ Cardinality(All(m)) \in Nat /\ Cardinality(All(m)') \in Nat
      BY MonthGrows
    <2> QED
      BY <1>3, <2>1 DEF AtMost, Totals
  <1>4. ASSUME NEW m, Gone(m)'
        PROVE  Gone(m) /\ All(m)' = All(m) /\ MilesOf(All(m), m)' = MilesOf(All(m), m)
    <2>1. PICK r \in DOMAIN log \ table : MonthOf(log[r].at) = m
      BY <1>2, <1>4 DEF Gone
    <2>2. m # MonthOf(now)
      BY <2>1, RowMonths DEF SInv, RowsInOrder
    <2> QED
      BY <2>1, <2>2, OtherMonths DEF Gone
  <1>5. ASSUME purge.pc = "delete", NEW m, Going(m)'
        PROVE  Going(m) /\ All(m)' = All(m) /\ MilesOf(All(m), m)' = MilesOf(All(m), m)
    <2>1. PICK r \in DOMAIN log : r \in Expired /\ MonthOf(log[r].at) = m
      <3>1. PICK r \in table' : r <= purge.last /\ log'[r].at < purge.cutoff /\ MonthOf(log'[r].at) = m
        BY <1>2, <1>5 DEF Going, Expired
      <3>2. purge.last <= Len(log) /\ purge.last \in Nat
        BY <1>5 DEF SInv, PurgeHolds, Typed
      <3>3. r \in table
        BY <1>2, <3>1, <3>2
      <3> QED
        BY <1>2, <3>1, <3>3 DEF Expired
    <2>2. log[r].at < now - Retention
      <3>1. /\ log[r].at < purge.cutoff /\ purge.cutoff <= now - Retention
            /\ purge.cutoff \in Int /\ log[r].at \in Int /\ now - Retention \in Int
        BY <1>5, <2>1, RowsType, BoundsAssumption, RetentionAssumption
        DEF Expired, SInv, PurgeHolds, Typed
      <3> QED
        BY <3>1
    <2>3. m # MonthOf(now)
      BY <2>1, <2>2, RowMonths DEF SInv
    <2> QED
      BY <2>1, <2>3, OtherMonths DEF Going
  <1>6. SummariesHold'
    BY <1>2, <1>3, <1>4 DEF SInv, SummariesHold, AtMost, Holds, Typed
  <1>7. PurgeHolds'
    <2>1. purge.pc # "idle" => purge.cutoff <= now - Retention /\ purge.last <= Len(log')
      BY <1>2 DEF SInv, PurgeHolds, Typed
    <2> QED
      BY <1>2, <1>3, <1>5, <2>1 DEF SInv, PurgeHolds, AtMost, Holds, Covers, Typed
  <1>8. PageHolds'
    <2>1. page.month \in Months /\ page.raw \in Totals /\ page.total \in Totals
      BY DEF Typed
    <2>2. CASE page.pc = "summary"
      BY <1>2, <1>3, <2>1, <2>2
      DEF SInv, PageHolds, ShownCountsEveryRow, ShownHoldsMonthMiles, AtMost
    <2>3. CASE page.pc = "shown"
      <3>1. /\ AtMost(page.total, page.month)
            /\ page.total.count >= page.count /\ page.total.miles >= page.miles
        BY <2>3 DEF SInv, PageHolds, ShownCountsEveryRow, ShownHoldsMonthMiles, AtMost, All
      <3>2. page'.total.count <= Cardinality(All(page.month)') /\ page' = page
        BY <1>2, <1>3, <2>1, <3>1
      <3>3. Cardinality(All(page.month)') = Cardinality(RowsOf(DOMAIN log, page.month)')
        BY DEF All
      <3> QED
        BY <2>3, <3>1, <3>2, <3>3 DEF PageHolds, ShownCountsEveryRow, ShownHoldsMonthMiles
    <2> QED
      BY <1>2, <2>2, <2>3 DEF PageHolds, ShownCountsEveryRow, ShownHoldsMonthMiles
  <1> QED
    BY <1>1, <1>6, <1>7, <1>8 DEF SInv
(* Without a new row the months are what they were.                        *)
LEMMA SameMonths ==
  ASSUME log' = log, NEW m
  PROVE  All(m)' = All(m) /\ MilesOf(All(m), m)' = MilesOf(All(m), m)
  BY DEF All, RowsOf, MilesOf, Segments, Previous, Before

(* Each part of the invariant is kept by steps that leave its variables    *)
(* alone: the order of the rows,                                           *)
LEMMA SameOrder ==
  ASSUME RowsInOrder, UNCHANGED << now, log, table >>
  PROVE  RowsInOrder'
  BY DEF RowsInOrder

(* what the summaries hold,                                                *)
LEMMA SameSummaries ==
  ASSUME SummariesHold, UNCHANGED << log, table, summaries >>
  PROVE  SummariesHold'
  <1>1. \A m : Gone(m)' <=> Gone(m)
    BY DEF Gone
  <1> QED
    BY <1>1, SameMonths DEF SummariesHold, AtMost, Holds

(* and what a page shows.                                                  *)
LEMMA SamePage ==
  ASSUME PageHolds, UNCHANGED << log, page, summaries >>
  PROVE  PageHolds'
  <1>1. ShownCountsEveryRow' /\ ShownHoldsMonthMiles'
    BY DEF PageHolds, ShownCountsEveryRow, ShownHoldsMonthMiles, RowsOf
  <1> QED
    BY <1>1, SameMonths DEF PageHolds, AtMost

(* The purge: its first step finds the months it takes rows of whole, or   *)
(* summarised before; its last gives the table the summaries it has made.  *)
LEMMA RefreshKeepsTotals ==
  ASSUME Typed, SInv, RefreshSummaries
  PROVE  SInv'
  <1>1. /\ UNCHANGED << now, log, table, summaries, page >>
        /\ purge'.pc = "delete" /\ purge'.last = purge.last /\ purge'.cutoff = purge.cutoff
        /\ purge.pc # "idle"
        /\ \A m \in Months : purge'.summaries[m] = IF Going(m) THEN Refreshed(m) ELSE summaries[m]
    BY DEF RefreshSummaries, Typed, Going
  <1>2. \A m : Going(m)' <=> Going(m)
    BY <1>1 DEF Going, Expired
  <1>3. ASSUME NEW m \in Months
        PROVE  /\ AtMost(purge'.summaries[m], m) /\ Covers(purge'.summaries[m], summaries[m])
               /\ Going(m) => Holds(purge'.summaries[m], m)
    <2> DEFINE old == summaries[m]
               raw == Raw(table, m)
    <2>1. /\ old \in Totals /\ raw \in Totals /\ Raised(old, raw) \in Totals
          /\ Covers(Raised(old, raw), old) /\ Covers(Raised(old, raw), raw) /\ Covers(old, old)
      <3>1. old \in Totals /\ raw \in Totals
        BY TotalsType DEF Typed
      <3>2. Covers(old, old)
        BY <3>1 DEF Covers, Totals
      <3> QED
        BY <3>1, <3>2, RaisedType
    <2>2. AtMost(old, m) /\ AtMost(raw, m) /\ (Holds(old, m) \/ Holds(raw, m))
      BY TableAtMost, WholeMonth DEF SInv, SummariesHold
    <2> HIDE DEF old, raw
    <2>3. AtMost(Raised(old, raw), m)
      BY <2>1, <2>2 DEF AtMost, Raised, Higher
    <2>4. Holds(Raised(old, raw), m)
      <3>1. Cardinality(All(m)) \in Nat /\ MilesOf(All(m), m) \in Nat
        <4>1. All(m) \in SUBSET DOMAIN log
          BY DEF All, RowsOf
        <4> QED
          BY <4>1, TotalsType DEF All
      <3> QED
        BY <2>1, <2>2, <3>1 DEF Holds, Covers, Totals
    <2>5. Refreshed(m) = Raised(old, raw)
      BY DEF Refreshed, old, raw
    <2> QED
      BY <1>1, <2>1, <2>2, <2>3, <2>4, <2>5 DEF old
  <1>4. PurgeHolds'
    BY <1>1, <1>2, <1>3, SameMonths DEF SInv, PurgeHolds, AtMost, Covers, Holds
  <1> QED
    BY <1>1, <1>4, SameOrder, SameSummaries, SamePage DEF SInv

(* The deletion of a purge commits with the summaries raised before it.    *)
LEMMA DeleteKeepsTotals ==
  ASSUME Typed, SInv, DeleteAndCommit
  PROVE  SInv'
  <1>1. /\ UNCHANGED << now, log, page >> /\ summaries' = purge.summaries
        /\ table' = table \ Expired /\ purge'.pc = "idle" /\ purge.pc = "delete"
    BY DEF DeleteAndCommit, NoPurge
  <1>2. \A m : Gone(m)' => Gone(m) \/ Going(m)
    BY <1>1 DEF Gone, Going
  <1>3. \A m \in Months : /\ summaries[m] \in Totals /\ purge.summaries[m] \in Totals
                          /\ Cardinality(All(m)) \in Nat /\ MilesOf(All(m), m) \in Nat
    <2>1. \A m : All(m) \in SUBSET DOMAIN log
      BY DEF All, RowsOf
    <2> QED
      BY <1>1, <2>1, TotalsType DEF All, Typed
  <1>4. \A m \in Months : Gone(m) \/ Going(m) => Holds(summaries'[m], m)
    <2> SUFFICES ASSUME NEW m \in Months, Gone(m), ~Going(m) PROVE Holds(summaries'[m], m)
      BY <1>1 DEF SInv, PurgeHolds
    <2>1. Holds(summaries[m], m) /\ Covers(summaries'[m], summaries[m])
      BY <1>1 DEF SInv, SummariesHold, PurgeHolds
    <2> QED
      BY <1>1, <1>3, <2>1 DEF Holds, Covers, Totals
  <1>5. SummariesHold'
    BY <1>1, <1>2, <1>4, SameMonths DEF SInv, SummariesHold, PurgeHolds, AtMost, Holds
  <1>6. RowsInOrder'
    <2>1. \A r \in Expired : log[r].at < now - Retention
      <3>1. \A r \in Expired : log[r].at < purge.cutoff /\ log[r].at \in Int
        BY RowsType DEF Expired, Typed
      <3>2. /\ purge.cutoff <= now - Retention /\ purge.cutoff \in Int /\ now - Retention \in Int
        BY <1>1, BoundsAssumption, RetentionAssumption DEF SInv, PurgeHolds, Typed
      <3> QED
        BY <3>1, <3>2
    <2> QED
      BY <1>1, <2>1 DEF SInv, RowsInOrder
  <1>7. PageHolds'
    <2>1. CASE page.pc = "summary"
      <3>1. page.month \in Months /\ Covers(summaries'[page.month], summaries[page.month])
        BY <1>1 DEF SInv, PurgeHolds, Typed
      <3>2. /\ summaries'[page.month].count \in Nat /\ summaries'[page.month].miles \in Nat
            /\ summaries[page.month].count \in Nat /\ summaries[page.month].miles \in Nat
            /\ page.count \in Nat /\ page.miles \in Nat
        BY <1>1, <1>3, <3>1 DEF Totals, Typed
      <3>3. \E s \in {page.raw, summaries'[page.month]} : s.count >= page.count /\ s.miles >= page.miles
        <4>1. PICK s \in {page.raw, summaries[page.month]} : s.count >= page.count /\ s.miles >= page.miles
          BY <2>1 DEF SInv, PageHolds
        <4>2. CASE s = page.raw
          BY <4>1, <4>2
        <4>3. CASE s = summaries[page.month]
          BY <3>1, <3>2, <4>1, <4>3 DEF Covers
        <4> QED
          BY <4>1, <4>2, <4>3
      <3> QED
        BY <1>1, <2>1, <3>3, SameMonths DEF SInv, PageHolds, AtMost, ShownCountsEveryRow, ShownHoldsMonthMiles
    <2>2. CASE page.pc # "summary"
      BY <1>1, <2>2 DEF SInv, PageHolds, ShownCountsEveryRow, ShownHoldsMonthMiles, RowsOf
    <2> QED
      BY <2>1, <2>2
  <1>8. PurgeHolds'
    BY <1>1 DEF PurgeHolds
  <1> QED
    BY <1>5, <1>6, <1>7, <1>8 DEF SInv

(* A page is opened and shown: what it reads first misses nothing, or what *)
(* it reads next does not.                                                 *)
LEMMA PageKeepsTotals ==
  ASSUME Typed, SInv, ReadSummary \/ ClosePage \/ \E m \in Months : ReadRows(m)
  PROVE  SInv'
  <1>1. UNCHANGED << now, log, table, summaries, purge >>
    BY DEF ReadSummary, ClosePage, ReadRows
  <1>2. ASSUME NEW m \in Months, ReadRows(m) PROVE PageHolds'
    <2>1. /\ page'.pc = "summary" /\ page'.month = m /\ page'.raw = Raw(table, m)
          /\ page'.count = Cardinality(RowsOf(All(m), m)) /\ page'.miles = MilesOf(All(m), m)
      BY <1>2 DEF ReadRows, NoPage, Raw, All
    <2>2. RowsOf(All(m), m) = All(m)
      BY DEF RowsOf, All
    <2>3. Holds(page'.raw, m) \/ Holds(summaries'[m], m)
      BY <1>1, <2>1, WholeMonth DEF SInv, SummariesHold
    <2>4. AtMost(page'.raw, page'.month)
      BY <2>1, TableAtMost
    <2> QED
      BY <1>1, <2>1, <2>2, <2>3, <2>4, SameMonths
      DEF PageHolds, AtMost, Holds, ShownCountsEveryRow, ShownHoldsMonthMiles
  <1>3. ASSUME ReadSummary PROVE PageHolds'
    <2> DEFINE held == summaries[page.month]
               raw  == page.raw
    <2>1. /\ page.pc = "summary" /\ page'.pc = "shown" /\ page'.total = Raised(held, raw)
          /\ page'.month = page.month /\ page'.count = page.count /\ page'.miles = page.miles
      BY <1>3 DEF ReadSummary, Typed, Total
    <2>2. /\ held \in Totals /\ raw \in Totals /\ page.count \in Nat /\ page.miles \in Nat
          /\ AtMost(held, page.month) /\ AtMost(raw, page.month)
          /\ \E s \in {raw, held} : s.count >= page.count /\ s.miles >= page.miles
      BY <2>1 DEF SInv, SummariesHold, PageHolds, Typed
    <2> HIDE DEF held, raw
    <2>3. /\ page'.total.count >= page.count /\ page'.total.miles >= page.miles
      BY <2>1, <2>2 DEF Raised, Higher, Totals
    <2>4. AtMost(page'.total, page.month)
      BY <2>1, <2>2 DEF Raised, Higher, AtMost
    <2>5. page'.total.count <= Cardinality({r \in DOMAIN log : MonthOf(log[r].at) = page.month})
      BY <2>4 DEF AtMost, All, RowsOf
    <2> QED
      BY <1>1, <2>1, <2>3, <2>5 DEF PageHolds, ShownCountsEveryRow, ShownHoldsMonthMiles, RowsOf
  <1>4. ASSUME ClosePage PROVE PageHolds'
    BY <1>4 DEF ClosePage, NoPage, PageHolds, ShownCountsEveryRow, ShownHoldsMonthMiles
  <1>5. PageHolds'
    BY <1>2, <1>3, <1>4
  <1>6. \A m : Going(m)' <=> Going(m)
    BY <1>1 DEF Going, Expired
  <1>7. PurgeHolds'
    BY <1>1, <1>6, SameMonths DEF SInv, PurgeHolds, AtMost, Holds, Covers
  <1> QED
    BY <1>1, <1>5, <1>7, SameOrder, SameSummaries DEF SInv

(* The clock, the start of a purge and its failure.                        *)
LEMMA ClockKeepsTotals ==
  ASSUME Typed, SInv, Tick \/ BeginPurge \/ PurgeFails \/ UNCHANGED vars
  PROVE  SInv'
  <1>1. /\ UNCHANGED << log, table, summaries, page >>
        /\ now \in Nat /\ now' \in {now, now + 1} /\ Retention \in Nat
    BY BoundsAssumption, RetentionAssumption DEF Tick, BeginPurge, PurgeFails, vars, Typed
  <1>2. RowsInOrder'
    BY <1>1, RowsType DEF SInv, RowsInOrder
  <1>3. ASSUME purge' = purge PROVE PurgeHolds'
    <2>1. \A m : Going(m)' <=> Going(m)
      BY <1>1, <1>3 DEF Going, Expired
    <2>2. purge.pc # "idle" => purge.cutoff <= now' - Retention /\ purge.last <= Len(log')
      BY <1>1 DEF SInv, PurgeHolds, Typed
    <2> QED
      BY <1>1, <1>3, <2>1, <2>2, SameMonths DEF SInv, PurgeHolds, AtMost, Holds, Covers
  <1>4. ASSUME BeginPurge PROVE PurgeHolds'
    <2>1. /\ purge'.pc = "refresh" /\ purge'.cutoff = now - Retention /\ purge'.last = Len(log)
          /\ now' = now
      BY <1>4 DEF BeginPurge, NoPurge
    <2> QED
      BY <1>1, <2>1, RowsType DEF PurgeHolds
  <1>5. ASSUME PurgeFails PROVE PurgeHolds'
    BY <1>5 DEF PurgeFails, NoPurge, PurgeHolds
  <1>6. PurgeHolds'
    <2>1. CASE purge' = purge
      BY <1>3, <2>1
    <2> QED
      BY <1>4, <1>5, <2>1 DEF Tick, vars
  <1> QED
    BY <1>1, <1>2, <1>6, SameSummaries, SamePage DEF SInv

(* Rows in order lose nothing to a purge.                                  *)
LEMMA AlwaysHeld == ~LateRows => (Spec => [](Typed /\ SInv))
  <1> SUFFICES ASSUME ~LateRows PROVE Spec => [](Typed /\ SInv)
    OBVIOUS
  <1>1. Init => Typed /\ SInv
    <2> SUFFICES ASSUME Init PROVE SInv
      BY InitTyped
    <2>1. /\ log = << >> /\ table = {} /\ purge.pc = "idle" /\ page.pc = "idle"
          /\ \A m \in Months : summaries[m] = None
      BY DEF Init, NoPurge, NoPage
    <2>2. DOMAIN log = {} /\ \A m : All(m) = {}
      BY <2>1 DEF All, RowsOf
    <2>3. SummariesHold
      <3>1. \A m : Cardinality(All(m)) = 0
        BY <2>2, FS_EmptySet
      <3>2. \A m \in Months : summaries[m].count = 0
        BY <2>1 DEF None
      <3> QED
        BY <2>2, <3>1, <3>2 DEF SummariesHold, Gone, AtMost
    <2> QED
      BY <2>1, <2>2, <2>3 DEF SInv, RowsInOrder, PurgeHolds, PageHolds, ShownCountsEveryRow,
                              ShownHoldsMonthMiles
  <1>2. Typed /\ SInv /\ [Next]_vars => (Typed /\ SInv)'
    <2> SUFFICES ASSUME Typed, SInv, [Next]_vars PROVE SInv'
      BY NextTyped
    <2>1. ASSUME NEW x \in Payloads, StoreRow(x) PROVE SInv'
      BY <2>1, StoreKeepsTotals
    <2>2. CASE RefreshSummaries
      BY <2>2, RefreshKeepsTotals
    <2>3. CASE DeleteAndCommit
      BY <2>3, DeleteKeepsTotals
    <2>4. CASE ReadSummary \/ ClosePage \/ \E m \in Months : ReadRows(m)
      BY <2>4, PageKeepsTotals
    <2>5. CASE Tick \/ BeginPurge \/ PurgeFails \/ UNCHANGED vars
      BY <2>5, ClockKeepsTotals
    <2> QED
      BY <2>1, <2>2, <2>3, <2>4, <2>5 DEF Next
  <1> QED
    BY <1>1, <1>2, PTL DEF Spec

(* A page misses no event of its month and counts none twice, purged or    *)
(* not, if no row comes late; rows that come to a month after its purge    *)
(* raise no total.                                                         *)
THEOREM NoEventIsLost == ~LateRows => (Spec => []ShownCountsEveryRow)
  <1> SUFFICES ASSUME ~LateRows PROVE Spec => []ShownCountsEveryRow
    OBVIOUS
  <1>1. Typed /\ SInv => ShownCountsEveryRow
    BY DEF SInv, PageHolds
  <1> QED
    BY <1>1, AlwaysHeld, PTL

(* Nor does it lose a mile driven between two rows of the month.           *)
THEOREM NoMileIsLost == ~LateRows => (Spec => []ShownHoldsMonthMiles)
  <1> SUFFICES ASSUME ~LateRows PROVE Spec => []ShownHoldsMonthMiles
    OBVIOUS
  <1>1. Typed /\ SInv => ShownHoldsMonthMiles
    BY DEF SInv, PageHolds
  <1> QED
    BY <1>1, AlwaysHeld, PTL
=============================================================================
