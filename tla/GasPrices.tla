----------------------------- MODULE GasPrices -----------------------------
(***************************************************************************)
(* The gas price of a monthly report.  The daily snapshot and the monthly  *)
(* price behind it are refreshed by a scheduler, by a form, and by the     *)
(* first page or report that needs the price; a user may enter one         *)
(* instead.  Every one of them looks for the row, and then inserts or      *)
(* updates it: the look-up and the commit are two steps, and the           *)
(* provider's answer, which may take long, lies before both.               *)
(*                                                                         *)
(* One state and one provider are configured.  Prices are whole numbers,   *)
(* and no price is 0.                                                      *)
(***************************************************************************)
EXTENDS FiniteSetsExt, Integers

CONSTANTS
  Requests,      (* threads that serve requests                            *)
  Prices,        (* prices the provider may answer with                    *)
  Entries,       (* prices a user may enter                                *)
  MonthLength,   (* days of a month                                        *)
  MaxDay,        (* bound on the days                                      *)
  MaxRequests    (* bound on the requests                                  *)

ASSUME PricesAssumption ==
  /\ Prices \subseteq Nat \ {0} /\ Entries \subseteq Nat \ {0}
  /\ IsFiniteSet(Requests)
ASSUME BoundsAssumption ==
  /\ MonthLength \in Nat \ {0}
  /\ MaxDay \in Nat /\ MaxRequests \in Nat

VARIABLES
  today,      (* local_today                                               *)
  snapshots,  (* gas_price_snapshots: one per day, 0 for none              *)
  monthly,    (* monthly_gas_prices                                        *)
  task,       (* per thread: what it is about                              *)
  requests,   (* how many requests there were                              *)
  observed,   (* history: the snapshots a month ever had                   *)
  entered     (* history: the prices a user entered for it                 *)

vars == << today, snapshots, monthly, task, requests, observed, entered >>

Scheduler  == "scheduler"
Workers    == Requests \union {Scheduler}
Days       == 0..MaxDay
MonthOf(d) == d \div MonthLength
Months     == 0..MonthOf(MaxDay)
NoPrice    == [price |-> 0, source |-> "none"]

(* loaded is the price, row the monthly row a session holds; entitled, a   *)
(* history: the month was the current one when its price was asked for, or *)
(* had none when the request began.                                        *)
Idle == [pc |-> "idle", kind |-> "refresh", month |-> 0, day |-> 0, price |-> 0,
         loaded |-> 0, row |-> NoPrice, entitled |-> FALSE]

Init ==
  /\ today = 0
  /\ snapshots = [d \in Days |-> 0]
  /\ monthly = [m \in Months |-> NoPrice]
  /\ task = [w \in Workers |-> Idle]
  /\ requests = 0
  /\ observed = [m \in Months |-> {}]
  /\ entered = [m \in Months |-> {}]

stored == << snapshots, monthly, observed, entered >>

NextDay ==
  /\ today < MaxDay
  /\ today' = today + 1
  /\ UNCHANGED << stored, task, requests >>

-----------------------------------------------------------------------------
(* The requests.                                                           *)

Becomes(w, t) == task' = [task EXCEPT ![w] = t]
Ends(w)       == Becomes(w, Idle)

Begin(w, t) ==
  /\ task[w].pc = "idle"
  /\ IF w = Scheduler THEN UNCHANGED requests
     ELSE requests < MaxRequests /\ requests' = requests + 1
  /\ Becomes(w, t)

(* refresh_current_monthly_price, by the scheduler or by the form.         *)
BeginRefresh(w) ==
  /\ Begin(w, [Idle EXCEPT !.pc = "fetch", !.kind = "refresh"])
  /\ UNCHANGED << today, stored >>

(* POST /gas-prices/current keeps the day's snapshot only.                 *)
BeginSnapshot(w) ==
  /\ Begin(w, [Idle EXCEPT !.pc = "fetch", !.kind = "snapshot"])
  /\ UNCHANGED << today, stored >>

(* get_or_create_monthly_price, for a page or a report: a saved price is   *)
(* used as it is.  The variant looks for a price of its own making only.   *)
SavedByRefresh(m) == monthly[m].source = "online"
Saved(m)          == monthly[m] # NoPrice

BeginEnsure(w, m) ==
  /\ ~ Saved(m)
  /\ Begin(w, [Idle EXCEPT !.pc = IF MonthOf(today) = m THEN "fetch" ELSE "average",
                           !.kind = "ensure", !.month = m,
                           !.entitled = monthly[m] = NoPrice])
  /\ UNCHANGED << today, stored >>

(* POST /gas-prices/monthly.                                               *)
BeginManual(w, m, p) ==
  /\ Begin(w, [Idle EXCEPT !.pc = "lookup", !.kind = "manual", !.month = m, !.price = p])
  /\ UNCHANGED << today, stored >>

-----------------------------------------------------------------------------
(* The provider answers, or not; the day is that of the answer.            *)
Fetch(w) ==
  LET t == task[w]
  IN /\ t.pc = "fetch"
     /\ \E p \in Prices :
          Becomes(w, [t EXCEPT !.pc = "find", !.day = today, !.price = p,
                               !.month = IF t.kind = "ensure" THEN t.month ELSE MonthOf(today),
                               !.entitled = t.entitled \/ t.kind = "refresh"])
     /\ UNCHANGED << today, stored, requests >>

FetchFails(w) ==
  /\ task[w].pc = "fetch"
  /\ Ends(w)
  /\ UNCHANGED << today, stored, requests >>

(* save_daily_snapshot: look for the row of the day, then insert or update *)
(* it.  An insert that finds another's row violates uq_gas_snapshot; an    *)
(* update writes the price only where it differs from the one loaded.      *)
FindSnapshot(w) ==
  /\ task[w].pc = "find"
  /\ Becomes(w, [task[w] EXCEPT !.pc = "save", !.loaded = snapshots[task[w].day]])
  /\ UNCHANGED << today, stored, requests >>

Column(new, loaded, inTable) == IF new = loaded THEN inTable ELSE new

(* The variant goes on before its snapshot is stored.                      *)
AfterSaveUnsaved(t) == [t EXCEPT !.pc = "lookup"]
AfterSave(t)        == [t EXCEPT !.pc = "average", !.loaded = 0, !.price = 0]

SaveSnapshot(w) ==
  LET t == task[w]
      p == Column(t.price, t.loaded, snapshots[t.day])
  IN /\ t.pc = "save"
     /\ IF t.loaded = 0 /\ snapshots[t.day] # 0
        THEN Ends(w) /\ UNCHANGED << snapshots, observed >>
        ELSE /\ snapshots' = [snapshots EXCEPT ![t.day] = p]
             /\ observed' = [observed EXCEPT ![MonthOf(t.day)] = @ \union {p}]
             /\ Becomes(w, IF t.kind = "snapshot" THEN Idle ELSE AfterSave(t))
     /\ UNCHANGED << today, monthly, requests, entered >>

-----------------------------------------------------------------------------
(* monthly_price_from_snapshots, rounded half up.  The variant divides     *)
(* once where it has to divide by two.                                     *)
InMonth(d, m) == m * MonthLength <= d /\ d < (m + 1) * MonthLength

DaysOf(m)   == {d \in Days : InMonth(d, m) /\ snapshots[d] # 0}
TotalOf(m)  == SumFunctionOnSet(snapshots, DaysOf(m))

AverageDoubled(m) == (2 * TotalOf(m) + Cardinality(DaysOf(m))) \div Cardinality(DaysOf(m))
Average(m)        == (2 * TotalOf(m) + Cardinality(DaysOf(m))) \div (2 * Cardinality(DaysOf(m)))

TakeAverage(w) ==
  LET t == task[w]
  IN /\ t.pc = "average"
     /\ IF DaysOf(t.month) = {}
        THEN Ends(w)
        ELSE Becomes(w, [t EXCEPT !.pc = "lookup", !.day = 0, !.price = Average(t.month)])
     /\ UNCHANGED << today, stored, requests >>

(* upsert_monthly_price: look for the row, then insert or update it, like  *)
(* a snapshot.  The variant goes by the month of the moment.               *)
TargetMonthToday(w) == MonthOf(today)
TargetMonth(w)      == task[w].month

FindMonthly(w) ==
  /\ task[w].pc = "lookup"
  /\ Becomes(w, [task[w] EXCEPT !.pc = "store", !.row = monthly[TargetMonth(w)],
                                !.month = TargetMonth(w)])
  /\ UNCHANGED << today, stored, requests >>

Source(t) == CASE t.kind = "refresh" -> "online"
               [] t.kind = "ensure"  -> "average"
               [] OTHER              -> "manual"

StoreMonthly(w) ==
  LET t == task[w]
      m == t.month
  IN /\ t.pc = "store"
     /\ IF t.row = NoPrice /\ monthly[m] # NoPrice
        THEN UNCHANGED << monthly, entered >>
        ELSE /\ monthly' = [monthly EXCEPT ![m] =
                  [price  |-> Column(t.price, t.row.price, monthly[m].price),
                   source |-> Column(Source(t), t.row.source, monthly[m].source)]]
             /\ entered' = IF t.kind = "manual"
                           THEN [entered EXCEPT ![m] = @ \union {t.price}]
                           ELSE entered
     /\ Ends(w)
     /\ UNCHANGED << today, snapshots, requests, observed >>

-----------------------------------------------------------------------------
PriceStep(w) ==
  \/ FindSnapshot(w) \/ SaveSnapshot(w)
  \/ TakeAverage(w) \/ FindMonthly(w) \/ StoreMonthly(w)

Request(w) ==
  \/ BeginRefresh(w) \/ BeginSnapshot(w)
  \/ \E m \in Months :
       \/ BeginEnsure(w, m)
       \/ \E p \in Entries : BeginManual(w, m, p)

Next ==
  \/ NextDay
  \/ \E w \in Requests : Request(w)
  \/ BeginRefresh(Scheduler)
  \/ \E w \in Workers : Fetch(w) \/ FetchFails(w) \/ PriceStep(w)

Spec == Init /\ [][Next]_vars

(* The scheduler goes round for ever, its queries end, and the provider    *)
(* answers again and again.                                                *)
Fairness ==
  /\ WF_vars(BeginRefresh(Scheduler))
  /\ SF_vars(Fetch(Scheduler))
  /\ WF_vars(PriceStep(Scheduler))
FairSpec == Spec /\ Fairness

-----------------------------------------------------------------------------
Sources == {"none", "online", "average", "manual"}
Amounts == {a \in Nat : a = 0 \/ \E p \in Prices \union Entries : a <= p}

MonthPrice == [price : Amounts, source : Sources]
TaskType ==
  [pc : {"idle", "fetch", "find", "save", "average", "lookup", "store"},
   kind : {"refresh", "snapshot", "ensure", "manual"}, month : Months, day : Days,
   price : Amounts, loaded : Amounts, row : MonthPrice, entitled : BOOLEAN]

(* Every variable has its type; no average is above every price.           *)
TypeOK ==
  /\ today \in Days
  /\ snapshots \in [Days -> Prices \union {0}]
  /\ monthly \in [Months -> MonthPrice]
  /\ task \in [Workers -> TaskType]
  /\ requests \in 0..MaxRequests
  /\ observed \in [Months -> SUBSET Prices] /\ entered \in [Months -> SUBSET Entries]

(* The price of a month lies between snapshots of that month, or a user    *)
(* entered it: a refresh, or a first look at the page, that began in one   *)
(* month and ends in another brings no day of the wrong month into either. *)
PricesAreOfTheirMonth ==
  \A m \in Months : Saved(m) =>
    \/ monthly[m].price \in entered[m]
    \/ \E low, high \in observed[m] : low <= monthly[m].price /\ monthly[m].price <= high

(* The price of a month that is over stands, but for a user who enters     *)
(* another, or a request that began before it had one or before it ended.  *)
PastPricesStand ==
  \A w \in Workers :
    /\ task[w].pc = "store" /\ task[w].kind # "manual"
    /\ task[w].month < MonthOf(today)
    => task[w].entitled

(* When the requests have ended, the scheduler brings the current price    *)
(* back to the average of the month's snapshots, again and again, whatever *)
(* refreshes had stored behind a later one's back.  This is claimed of a   *)
(* month for which no user entered a price: one that was entered should be *)
(* used as it is, but the next refresh writes its average over it.         *)
PriceKeepsUp ==
  []<>(LET m == MonthOf(today)
       IN  entered[m] # {} \/ (DaysOf(m) # {} /\ monthly[m].price = Average(m)))
=============================================================================
