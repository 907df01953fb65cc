-------------------------- MODULE MonthlySummaries --------------------------
(***************************************************************************)
(* Retention and the monthly summaries that outlive the purged rows.       *)
(*                                                                         *)
(* A processing pass ends with the purge: in one transaction it raises the *)
(* summaries of the months it is about to purge rows of and deletes the    *)
(* rows.  Meanwhile the endpoint stores new rows, and a page shows the     *)
(* totals of a month from two reads, the rows first and the summary next.  *)
(* One instant is a day; no two rows carry the same tst.  Rows lie on one  *)
(* road, so that a distance needs two numbers.  Of a month's path the row  *)
(* before it and the rows in it are read at one moment.                    *)
(***************************************************************************)
EXTENDS Integers, Sequences, FiniteSets, Functions

CONSTANTS
  Payloads,     (* rows a phone may send: [at : day, place : mile]          *)
  MonthLength,  (* days of a month                                          *)
  Retention,    (* owntracks_location_retention_days                        *)
  LateRows,     (* environment: the phone may deliver queued rows late      *)
  MaxTime       (* bound on the clock                                       *)

ASSUME PayloadsAssumption ==
  /\ Payloads \subseteq [at : Nat, place : Nat]
  /\ \A x, y \in Payloads : x.at = y.at => x = y
ASSUME BoundsAssumption == MonthLength \in Nat \ {0} /\ MaxTime \in Nat /\ LateRows \in BOOLEAN
(* The code retains 90 days at least: longer than a month.                 *)
ASSUME RetentionAssumption == Retention \in Nat /\ Retention >= MonthLength

VARIABLES
  now,        (* today                                                      *)
  log,        (* owntracks_locations in the order of their ids              *)
  table,      (* ids of the rows not purged                                 *)
  summaries,  (* owntracks_monthly_summaries: month -> [miles, count]       *)
  purge,      (* the purge a pass is in                                     *)
  page        (* the page being rendered                                    *)

vars == << now, log, table, summaries, purge, page >>

MonthOf(t) == t \div MonthLength
Months     == 0..MonthOf(MaxTime)
RowsOf(ids, m) == {r \in ids : MonthOf(log[r].at) = m}

(* A missing summary is one that raises nothing.                           *)
None      == [miles |-> 0, count |-> 0]
NoPurge   == [pc |-> "idle", last |-> 0, cutoff |-> 0, summaries |-> << >>]
NoPage    == [pc |-> "idle", month |-> 0, raw |-> None, total |-> None,
              count |-> 0, miles |-> 0]

Init ==
  /\ now = 0
  /\ log = << >>
  /\ table = {}
  /\ summaries = [m \in Months |-> None]
  /\ purge = NoPurge
  /\ page = NoPage

-----------------------------------------------------------------------------
(* Totals computed from rows: segments count for the month they end in.    *)

(* The variant GapSigned takes a drive back off the total.                 *)
GapSigned(x, y)  == y.place - x.place
Gap(x, y)        == IF x.place <= y.place THEN y.place - x.place ELSE x.place - y.place
Before(ids, r)   == {q \in ids : log[q].at < log[r].at}
Previous(ids, r) == {q \in Before(ids, r) : \A p \in Before(ids, r) : log[p].at <= log[q].at}
Segments(ids, r) ==
  SumFunctionOnSet([q \in Previous(ids, r) |-> Gap(log[q], log[r])], Previous(ids, r))

MilesOf(ids, m) ==
  SumFunctionOnSet([r \in RowsOf(ids, m) |-> Segments(ids, r)], RowsOf(ids, m))
Raw(ids, m) == [miles |-> MilesOf(ids, m), count |-> Cardinality(RowsOf(ids, m))]

Higher(x, y)  == IF x < y THEN y ELSE x
Raised(s, t)  == [miles |-> Higher(s.miles, t.miles), count |-> Higher(s.count, t.count)]

-----------------------------------------------------------------------------
Tick ==
  /\ now < MaxTime
  /\ now' = now + 1
  /\ UNCHANGED << log, table, summaries, purge, page >>

StoreRow(x) ==
  /\ \A r \in DOMAIN log : log[r] # x
  /\ IF LateRows THEN x.at <= now ELSE x.at = now
  /\ log' = Append(log, x)
  /\ table' = table \union {Len(log) + 1}
  /\ UNCHANGED << now, summaries, purge, page >>

(* The pass has taken the rows stored so far: purge those older than the   *)
(* retention, counted in whole days.                                       *)
BeginPurge ==
  /\ purge.pc = "idle"
  /\ log # << >>
  /\ purge' = [NoPurge EXCEPT !.pc = "refresh", !.last = Len(log), !.cutoff = now - Retention]
  /\ UNCHANGED << now, log, table, summaries, page >>

Expired == {r \in table : r <= purge.last /\ log[r].at < purge.cutoff}

(* The highest totals seen are kept.  The variant Overwritten keeps the    *)
(* latest ones.                                                            *)
RefreshedOverwritten(m) == Raw(table, m)
Refreshed(m)            == Raised(summaries[m], Raw(table, m))

RefreshSummaries ==
  /\ purge.pc = "refresh"
  /\ LET months == {MonthOf(log[r].at) : r \in Expired}
     IN  purge' = [purge EXCEPT !.pc = "delete",
                     !.summaries = [m \in Months |->
                        IF m \in months THEN Refreshed(m) ELSE summaries[m]]]
  /\ UNCHANGED << now, log, table, summaries, page >>

DeleteAndCommit ==
  /\ purge.pc = "delete"
  /\ table' = table \ Expired
  /\ summaries' = purge.summaries
  /\ purge' = NoPurge
  /\ UNCHANGED << now, log, page >>

(* An exception or a crash: the transaction is rolled back.                *)
PurgeFails ==
  /\ purge.pc # "idle"
  /\ purge' = NoPurge
  /\ UNCHANGED << now, log, table, summaries, page >>

(* A page is opened for a month: the rows are read first ...  (page.count  *)
(* and page.miles are history: the rows of the month stored by now, and    *)
(* the length of the path through them.)                                   *)
ReadRows(m) ==
  /\ page.pc = "idle"
  /\ LET all == Raw(RowsOf(DOMAIN log, m), m)
     IN  page' = [NoPage EXCEPT !.pc = "summary", !.month = m, !.raw = Raw(table, m),
                                !.count = all.count, !.miles = all.miles]
  /\ UNCHANGED << now, log, table, summaries, purge >>

(* ... and the summary after them.  The variant RowsAlone shows the rows.  *)
TotalRowsAlone == page.raw
Total          == Raised(summaries[page.month], page.raw)

ReadSummary ==
  /\ page.pc = "summary"
  /\ page' = [page EXCEPT !.pc = "shown", !.total = Total]
  /\ UNCHANGED << now, log, table, summaries, purge >>

ClosePage ==
  /\ page.pc = "shown"
  /\ page' = NoPage
  /\ UNCHANGED << now, log, table, summaries, purge >>

Next ==
  \/ Tick
  \/ \E x \in Payloads : StoreRow(x)
  \/ BeginPurge \/ RefreshSummaries \/ DeleteAndCommit \/ PurgeFails
  \/ \E m \in Months : ReadRows(m)
  \/ ReadSummary \/ ClosePage

Spec == Init /\ [][Next]_vars

-----------------------------------------------------------------------------
(* Properties.                                                             *)

Totals == [miles : Nat, count : Nat]

TypeOK ==
  /\ now \in 0..MaxTime
  /\ log \in Seq(Payloads)
  /\ table \subseteq DOMAIN log
  /\ summaries \in [Months -> Totals]
  /\ purge.pc \in {"idle", "refresh", "delete"}
  /\ page.month \in Months /\ page.raw \in Totals /\ page.total \in Totals

(* A page never misses an event of its month, purged or not and however    *)
(* the purge falls between its two reads, and never counts one twice: the  *)
(* count it shows lies between the rows stored when it was opened and the  *)
(* rows stored by now.                                                     *)
ShownCountsEveryRow ==
  page.pc = "shown" =>
    /\ page.total.count >= page.count
    /\ page.total.count <= Cardinality(RowsOf(DOMAIN log, page.month))

(* Neither does it lose a mile driven between two rows of the month.  The  *)
(* miles from the row before the month to its first are not claimed: they  *)
(* are lost with that row, whose purge raises only its own month's total.  *)
ShownHoldsMonthMiles == page.pc = "shown" => page.total.miles >= page.miles
=============================================================================
