-------------------------- MODULE TripGeneration --------------------------
(***************************************************************************)
(* The trips table: a processing pass generates the trips of a day from    *)
(* the stored rows, again and again, while the user edits, deletes and     *)
(* adds trips and aligns their odometers from other threads.               *)
(*                                                                         *)
(* A generation reads rows, trips and deleted-trip records when it begins; *)
(* its commit inserts the new trips, and of the trips it has changed       *)
(* writes the columns that differ from what it read.  The rows are already *)
(* stamped with the rolling odometer (OdometerProcessor).  All days of the *)
(* model lie in one month.  The days of a pass are generated one by one    *)
(* and in any order.  A trip's date is the day it starts on; notes,        *)
(* coordinates and last-visited times are left out.                        *)
(***************************************************************************)
EXTENDS WaypointTransitions

CONSTANTS
  MinMiles,      (* min_trip_miles                                          *)
  SameMinMiles,  (* SAME_WAYPOINT_MINIMUM_TRIP_MILES                        *)
  Entries,       (* miles and odometer values a user may enter              *)
  Late,          (* environment: rows the phone may deliver late            *)
  MaxTime,       (* bound on the clock                                      *)
  MaxOps         (* bound on user operations                                *)

ASSUME MilesAssumption == MinMiles \in Nat /\ SameMinMiles \in Nat /\ Entries \subseteq Nat
ASSUME BoundsAssumption == MaxTime \in Nat /\ MaxOps \in Nat
ASSUME EnvironmentAssumption == Late \subseteq Events

VARIABLES
  now,        (* wall clock                                                 *)
  stored,     (* owntracks_locations, in the order of their ids             *)
  touched,    (* days of rows no generation has seen yet, and days before   *)
  trips,      (* the trips table                                            *)
  deleted,    (* deleted_trips: the signatures that are not generated again *)
  gen,        (* the generation under way, with what it read and will write *)
  ops,        (* number of user operations                                  *)
  reports,    (* history: per trip id, the miles its user last entered,     *)
              (* unless a generation was about to rewrite the trip          *)
  rerouted,   (* history: ids of the trips whose route the user ever edited *)
  discarded   (* history: the automatic trips the user deleted and has not  *)
              (* allowed again: signature, and whether it was rerouted      *)

history == << reports, rerouted, discarded >>
vars == << now, stored, touched, trips, deleted, gen, ops, history >>

Days   == 0..DayOf(MaxTime)
Rows   == ToSet(stored)
Idle   == [ active |-> FALSE, read |-> {}, write |-> {}, bury |-> {} ]
Min0(n) == IF n < 0 THEN 0 ELSE n

Signature(t) == << t.origin, t.dest, t.start, t.end >>
Recorded(t)  == << DayOf(t.start), t.origin, t.dest, t.miles, t.from, t.to >>

Init ==
  /\ now = 0
  /\ stored = << >>
  /\ touched = {}
  /\ trips = {}
  /\ deleted = {}
  /\ gen = Idle
  /\ ops = 0
  /\ reports = << >>
  /\ rerouted = {}
  /\ discarded = {}

-----------------------------------------------------------------------------
(* What generate_trips makes of one trip found: _add_or_update_trip.       *)

(* _mileage_calculation: path length, else waypoint distance; odometers    *)
(* from the origin's stamp, else back from the destination's.              *)
Calculated(f) ==
  LET hasPath == f.path # NoPath
      miles   == IF hasPath THEN f.path ELSE Gap(Place[f.origin], Place[f.dest])
      from    == IF f.left # {} THEN CHOOSE o \in f.left : TRUE ELSE Min0(f.arrived - miles)
  IN  [ miles    |-> miles,
        mileage  |-> IF hasPath THEN "path" ELSE "waypoint",
        from     |-> from,
        to       |-> IF f.left # {} THEN from + miles ELSE f.arrived,
        fromSrc  |-> IF f.left # {} THEN "owntracks_rolling" ELSE "estimated",
        toSrc    |-> IF f.left # {} /\ ~hasPath THEN "estimated" ELSE "owntracks_rolling" ]

Rank(mileage) == CASE mileage = "manual" -> 5 [] mileage = "path" -> 4 [] OTHER -> 2

Odometers(t) == << t.from, t.to, t.fromSrc, t.toSrc >>

Improves(old, new) ==
  \/ Rank(new.mileage) > Rank(old.mileage)
  \/ /\ Rank(new.mileage) = Rank(old.mileage)
     /\ \/ new.mileage = "path" /\ new.miles # old.miles
        \/ Odometers(new) # Odometers(old)

OverlapsWindow(t, start, end) ==
  IF start = end THEN t.start <= start /\ start <= t.end
                 ELSE t.start < end /\ t.end > start

(* Trips a user made or corrected keep their place on their day.           *)
OverlapsPreserved(table, d, f) ==
  \E t \in table :
    /\ t.source = "manual" \/ t.mileage = "manual"
    /\ DayOf(t.start) = d /\ DayOf(f.start) = d
    /\ OverlapsWindow(t, f.start, f.end)

(* Ids are given out upwards, and none of a stored trip, also one that the *)
(* generation has just removed, or of a trip a generation still holds.     *)
(* The variant ByCount would give an id twice.                             *)
Ids(table)    == {t.id : t \in table}
NextIdByCount(table) == Cardinality(table) + 1
NextId(table) == Max({0} \union Ids(UNION {table, trips, gen.read, gen.write})) + 1

NewTrip(f, id) ==
  LET c == Calculated(f)
  IN  [ id |-> id, origin |-> f.origin, dest |-> f.dest, start |-> f.start, end |-> f.end,
        miles |-> c.miles, mileage |-> c.mileage, from |-> c.from, to |-> c.to,
        fromSrc |-> c.fromSrc, toSrc |-> c.toSrc, source |-> "auto" ]

(* The effect on the trips (table) and on the signatures to bury of one    *)
(* trip found, in a generation of day d.                                   *)
AddOrUpdateUnless(out, f, d, suppressed) ==
  LET new      == NewTrip(f, NextId(out.table))
      auto     == {t \in out.table : t.source = "auto"}
      existing == {t \in auto : Signature(t) = Signature(new)}
      same     == {t \in auto \ existing : Recorded(t) = Recorded(new)}
      loop     == f.origin = f.dest
      rewrite  == {[new EXCEPT !.id = t.id] : t \in existing}
  IN  IF \/ f.origin = Home /\ f.dest = Home
         \/ OverlapsPreserved(out.table, d, f)
         \/ Signature(new) \in suppressed
      THEN out
      ELSE IF loop /\ new.miles < SameMinMiles
      THEN [out EXCEPT !.table = @ \ existing,
                       !.bury  = @ \union {Signature(t) : t \in existing}]
      ELSE IF same # {} \/ \E t \in existing : ~Improves(t, new)
      THEN out
      ELSE IF existing # {}
      THEN [out EXCEPT !.table = (@ \ existing) \union rewrite]
      ELSE IF ~loop /\ new.miles < MinMiles
      THEN out
      ELSE [out EXCEPT !.table = @ \union {new}]

(* AddOrUpdateForgetful, a wrong variant, does not look at the signatures. *)
AddOrUpdateForgetful(out, f, d) == AddOrUpdateUnless(out, f, d, {})
AddOrUpdate(out, f, d)          == AddOrUpdateUnless(out, f, d, deleted)

(* generate_trips for one day, over a table of trips.                      *)
Generated(d, rows, table, asof) ==
  LET step(out, f) == AddOrUpdate(out, f, d)
  IN  FoldLeft(step, [table |-> table, bury |-> {}], TripsFound(d, rows, asof))

-----------------------------------------------------------------------------
(* The processing pass, day by day, and the rows it works on.              *)

Tick ==
  /\ now < MaxTime
  /\ now' = now + 1
  /\ UNCHANGED << stored, touched, trips, deleted, gen, ops, history >>

StoreRow(e) ==
  /\ e \notin Rows
  /\ IF e \in Late THEN e.at <= now ELSE e.at = now
  /\ stored' = Append(stored, e)
  /\ touched' = touched \union ({DayOf(e.at), DayOf(e.at) - 1} \intersect Days)
  /\ UNCHANGED << now, trips, deleted, gen, ops, history >>

(* A pass generates today, yesterday and the days its new rows touch.  A   *)
(* day without a confirmed transition is left alone.                       *)
BeginGeneration(d) ==
  /\ ~gen.active
  /\ d \in {DayOf(now), DayOf(now) - 1} \union touched
  /\ touched' = touched \ {d}
  /\ IF DayTransitions(d, Rows, now) = << >> THEN UNCHANGED gen
     ELSE LET out == Generated(d, Rows, trips, now)
          IN  gen' = [active |-> TRUE, read |-> trips, write |-> out.table, bury |-> out.bury]
  /\ UNCHANGED << now, stored, trips, deleted, ops, history >>

ById(table, id) == CHOOSE t \in table : t.id = id

Updated == {id \in Ids(gen.read) \intersect Ids(gen.write) :
              ById(gen.read, id) # ById(gen.write, id)}

(* The commit writes the columns that differ from what was read.           *)
Merged(t) ==
  IF t.id \notin Updated THEN t
  ELSE LET old == ById(gen.read, t.id)
           new == ById(gen.write, t.id)
       IN  [c \in DOMAIN t |-> IF new[c] # old[c] THEN new[c] ELSE t[c]]

TableAfterCommit ==
  LET kept == {t \in trips : t.id \notin Ids(gen.read) \ Ids(gen.write)}
  IN  {Merged(t) : t \in kept} \union {t \in gen.write : t.id \notin Ids(gen.read)}

(* The two unique indexes over automatic trips.                            *)
IndexesHold(table) ==
  \A t, u \in {x \in table : x.source = "auto"} :
    Signature(t) = Signature(u) \/ Recorded(t) = Recorded(u) => t = u

Only(f, ids) == [i \in DOMAIN f \intersect ids |-> f[i]]

(* It fails when a trip to be updated is gone or an index is violated.     *)
CommitGeneration ==
  /\ gen.active
  /\ Updated \subseteq Ids(trips)
  /\ gen.bury \intersect deleted = {}
  /\ IndexesHold(TableAfterCommit)
  /\ trips' = TableAfterCommit
  /\ deleted' = deleted \union gen.bury
  /\ reports' = Only(reports, Ids(TableAfterCommit))
  /\ rerouted' = rerouted \intersect Ids(TableAfterCommit)
  /\ gen' = Idle
  /\ UNCHANGED << now, stored, touched, ops, discarded >>

GenerationFails ==
  /\ gen.active
  /\ gen' = Idle
  /\ UNCHANGED << now, stored, touched, trips, deleted, ops, history >>

-----------------------------------------------------------------------------
(* Resequencing: the odometers of consecutive trips, rebuilt from one      *)
(* start value, the trip miles and the positive gaps between the trips.    *)

Precedes(t, u) == t.start < u.start \/ (t.start = u.start /\ t.id < u.id)

Chronological(table) ==
  [i \in 1..Cardinality(table) |->
     CHOOSE t \in table : Cardinality({u \in table : Precedes(u, t)}) = i - 1]

GapsOf(seq) ==
  [i \in DOMAIN seq |-> IF i = 1 THEN 0 ELSE Min0(seq[i].from - seq[i - 1].to)]

(* A new trip in front has no odometer yet: the gap behind it is the one   *)
(* from the trip that ended last before it, if there is one.  The variant  *)
(* Closed forgets it.                                                      *)
GapsBehindNewClosed(seq, previous) == [GapsOf(seq) EXCEPT ![2] = 0]
GapsBehindNew(seq, previous) ==
  [GapsOf(seq) EXCEPT ![2] =
     IF previous = {} THEN 0 ELSE Min0(seq[2].from - (CHOOSE t \in previous : TRUE).to)]

(* What the first n trips and the gaps in front of them add up to.         *)
Span(seq, gaps, n) == SumFunctionOnSet([i \in 1..n |-> seq[i].miles + gaps[i]], 1..n)

Resequenced(seq, gaps, start, firstSrc, lastSrc) ==
  LET from(i) == start + gaps[i] + Span(seq, gaps, i - 1)
  IN  {[seq[i] EXCEPT
          !.from    = from(i),
          !.to      = from(i) + seq[i].miles,
          !.fromSrc = IF gaps[i] > 0 THEN "owntracks_rolling"
                      ELSE IF i = 1 THEN firstSrc ELSE "previous_trip",
          !.toSrc   = IF i = Len(seq) THEN lastSrc ELSE "estimated"] : i \in DOMAIN seq}

(* The trips from t on, t first.                                           *)
Onward(table, t) == {u \in table : u = t \/ Precedes(t, u)}

-----------------------------------------------------------------------------
(* The user's operations, each one transaction.                            *)

UserActs ==
  /\ ops < MaxOps
  /\ ops' = ops + 1

(* The trips a generation under way has read and is about to rewrite.      *)
Rewritten       == IF gen.active THEN Updated ELSE {}
Without(f, id)  == [i \in DOMAIN f \ {id} |-> f[i]]
With(f, id, m)  == [i \in DOMAIN f \union {id} |-> IF i = id THEN m ELSE f[i]]

ReportsWith(t, m) ==
  IF m = t.miles THEN reports
  ELSE IF t.id \in Rewritten THEN Without(reports, t.id)
  ELSE With(reports, t.id, m)

ReroutedWith(t, o, d) ==
  IF << o, d >> = << t.origin, t.dest >> THEN rerouted ELSE rerouted \union {t.id}

(* POST /trips/{id}: route and miles; new miles resequence the rest of the *)
(* month from the trip's own start odometer.  The variant Unmarked does    *)
(* not record that the user made the change.                               *)
EditTripUnmarked(t, o, d, m) ==
  /\ UserActs
  /\ << o, d, m >> # << t.origin, t.dest, t.miles >>
  /\ trips' = (trips \ {t}) \union {[t EXCEPT !.origin = o, !.dest = d, !.miles = m]}
  /\ reports' = ReportsWith(t, m)
  /\ rerouted' = ReroutedWith(t, o, d)
  /\ UNCHANGED << now, stored, touched, deleted, gen, discarded >>
EditTrip(t, o, d, m) ==
  LET edited == [t EXCEPT !.origin = o, !.dest = d, !.miles = m, !.mileage = "manual"]
      table  == (trips \ {t}) \union {edited}
      later  == Onward(table, edited)
      seq    == Chronological(later)
  IN  /\ UserActs
      /\ << o, d, m >> # << t.origin, t.dest, t.miles >>
      /\ trips' = IF m = t.miles THEN table
                  ELSE (table \ later) \union
                       Resequenced(seq, GapsOf(seq), t.from, "previous_trip", "estimated")
      /\ IndexesHold(trips')
      /\ reports' = ReportsWith(t, m)
      /\ rerouted' = ReroutedWith(t, o, d)
      /\ UNCHANGED << now, stored, touched, deleted, gen, discarded >>

(* POST /trips/{id}/delete: the record kept has the route of the trip as   *)
(* it is now, not as it was generated.                                     *)
DeleteTrip(t) ==
  /\ UserActs
  /\ trips' = trips \ {t}
  /\ deleted' = deleted \union {Signature(t)}
  /\ reports' = Without(reports, t.id)
  /\ rerouted' = rerouted \ {t.id}
  /\ discarded' = IF t.source = "manual" THEN discarded
                  ELSE discarded \union {<< Signature(t), t.id \in rerouted >>}
  /\ UNCHANGED << now, stored, touched, gen >>

(* POST /trips/suppression/{id}/delete: the trip may be generated again.   *)
ForgetDeleted(k) ==
  /\ UserActs
  /\ deleted' = deleted \ {k}
  /\ discarded' = {x \in discarded : x[1] # k}
  /\ UNCHANGED << now, stored, touched, trips, gen, reports, rerouted >>

(* POST /trips: a manual trip goes behind the last trip of its day, and    *)
(* today's no earlier than now; it starts at the checkpoint's odometer o,  *)
(* and it and the trips behind it are resequenced.  Left out are the clamp *)
(* for a day whose last second already has a trip in it, and an entry at   *)
(* the very microsecond of a row.                                          *)
ManualStart(d) ==
  LET sameDay == {t \in trips : DayOf(t.start) = d}
      latest  == {t \in sameDay : \A u \in sameDay : u.start <= t.start}
      asked   == {IF d = DayOf(now) THEN now ELSE StartOf(d)} \union
                 {Max({t.start, t.end}) + 1 : t \in latest}
  IN  Max(asked)

AddTrip(d, from, to, m, o) ==
  LET at       == ManualStart(d)
      ended    == {t \in trips : t.end < at}
      previous == {t \in ended : \A u \in ended :
                     u.end < t.end \/ (u.end = t.end /\ u.id <= t.id)}
      trip     == [ id |-> NextId(trips), origin |-> from, dest |-> to, start |-> at,
                    end |-> at, miles |-> m, mileage |-> "manual", from |-> o, to |-> o,
                    fromSrc |-> "manual", toSrc |-> "manual", source |-> "manual" ]
      later    == Onward(trips \union {trip}, trip)
      seq      == Chronological(later)
      gaps     == IF Len(seq) = 1 THEN << 0 >> ELSE GapsBehindNew(seq, previous)
  IN  /\ UserActs
      /\ DayOf(at) = d /\ \A e \in Events : e.at # at
      /\ trips' = (trips \ later) \union
                  Resequenced(seq, gaps, o, "owntracks_rolling", "estimated")
      /\ IndexesHold(trips')
      /\ reports' = With(reports, trip.id, m)
      /\ UNCHANGED << now, stored, touched, deleted, gen, rerouted, discarded >>

(* POST /diagnostics/odometer, accepted while the rows place the phone at  *)
(* Home: every trip is realigned so that the last one ends at the reading; *)
(* a reading too low for that is refused.                                  *)
AtHome ==
  LET step(site, x) ==
        CASE x.kind = "enter" -> x.site
          [] x.kind = "leave" -> IF x.site = site THEN NoSite ELSE site
          [] OTHER            -> SiteOf(x)
  IN  FoldLeft(step, NoSite, stored) = Home

AlignTrips(v) ==
  LET seq   == Chronological(trips)
      start == v - Span(seq, GapsOf(seq), Len(seq))
  IN  /\ UserActs
      /\ AtHome /\ v > 0
      /\ trips # {}
      /\ start >= 0
      /\ trips' = Resequenced(seq, GapsOf(seq), start, seq[1].fromSrc, "manual")
      /\ IndexesHold(trips')
      /\ UNCHANGED << now, stored, touched, deleted, gen, history >>

-----------------------------------------------------------------------------

Next ==
  \/ Tick
  \/ \E e \in Events : StoreRow(e)
  \/ \E d \in Days : BeginGeneration(d)
  \/ CommitGeneration
  \/ GenerationFails
  \/ \E t \in trips, o, d \in Sites : \E m \in Entries \union {t.miles} : EditTrip(t, o, d, m)
  \/ \E t \in trips : DeleteTrip(t)
  \/ \E k \in deleted : ForgetDeleted(k)
  \/ \E d \in Days, from, to \in Sites, m, o \in Entries : AddTrip(d, from, to, m, o)
  \/ \E v \in Entries : AlignTrips(v)

Spec == Init /\ [][Next]_vars

-----------------------------------------------------------------------------
(* Properties.                                                             *)

TripType ==
  [ id : Nat, origin : Sites, dest : Sites, start : Int, end : Int, miles : Nat,
    mileage : {"path", "waypoint", "manual"}, from : Nat, to : Nat,
    fromSrc : Sources, toSrc : Sources, source : {"auto", "manual"} ]

TypeOK ==
  /\ now \in 0..MaxTime
  /\ stored \in Seq(Events)
  /\ touched \subseteq Days
  /\ trips \subseteq TripType /\ Cardinality(Ids(trips)) = Cardinality(trips)
  /\ deleted \subseteq Sites \X Sites \X Int \X Int
  /\ gen.active \in BOOLEAN
  /\ gen.read \subseteq TripType /\ gen.write \subseteq TripType
  /\ ops \in 0..MaxOps
  /\ DOMAIN reports \subseteq Nat /\ rerouted \subseteq Ids(trips)
  /\ discarded \subseteq (Sites \X Sites \X Int \X Int) \X BOOLEAN

(* A drive makes one trip: no two automatic trips tell of the same arrival *)
(* or lie across each other in time, however often a day was generated     *)
(* while its rows were still coming in.  A drive across midnight breaks    *)
(* it; DayTripsDisjoint claims it for trips that end on the day they start.*)
Disjoint(table) ==
  \A t, u \in table :
    t # u => /\ t.end # u.end
             /\ ~(t.start < u.end /\ u.start < t.end)
Automatic        == {t \in trips : t.source = "auto"}
TripsDisjoint    == Disjoint(Automatic)
DayTripsDisjoint == Disjoint({t \in Automatic : DayOf(t.start) = DayOf(t.end)})

(* Generating a day again and again while its rows come in ends where      *)
(* generating it once, from all of the rows, would: nothing found earlier  *)
(* has to be taken back, and nothing is missed.                            *)
Content(t) == [c \in DOMAIN t \ {"id"} |-> t[c]]
GenerationConverges ==
  [][\A d \in Days : BeginGeneration(d) /\ gen'.active =>
       {Content(t) : t \in {x \in gen'.write : DayOf(x.start) = d}} =
       {Content(t) : t \in Generated(d, Rows, {}, now).table}]_vars

(* A trip the user deleted, and whose route nobody had edited, is not      *)
(* generated again until the user allows it, although the rows that tell   *)
(* of it are still there; nor one deleted while a generation runs.  Of a   *)
(* trip with an edited route see DeletedPairsStay.                         *)
NewTrips == {t \in trips' : t.source = "auto" /\ t.id \notin Ids(trips)}
DeletedStayDeleted == [][\A t \in NewTrips : << Signature(t), FALSE >> \notin discarded]_vars

(* The same of every deleted trip, route edited or not: its record keeps   *)
(* the two events it was made from, a departure and an arrival, from being *)
(* made into a trip again.  But the record of an edited trip names the     *)
(* edited route, which the events do not have: the trip comes back.        *)
DeletedPairsStay ==
  [][\A t \in NewTrips, x \in discarded :
       t.start < t.end => << t.start, t.end >> # << x[1][3], x[1][4] >>]_vars

(* The miles a user entered last for a trip are the trip's miles: no       *)
(* generation and no resequencing replaces them, unless a generation that  *)
(* had read the trip before was about to rewrite it: its commit overwrites *)
(* the mark of the entry, and then nothing protects the miles.             *)
UserMilesKept == \A t \in trips : t.id \in DOMAIN reports => t.miles = reports[t.id]

(* Editing, adding and aligning trips moves odometers, and keeps the miles *)
(* driven between a trip and the one before it.  A manual trip put among   *)
(* trips that overlap is excepted: what lies behind it is measured from    *)
(* the trip that ended last, not from the one before it.                   *)
InSequence(table) == \A t, u \in table : Precedes(t, u) => t.end < u.start
MilesBefore(table, id) ==
  LET seq == Chronological(table)
  IN  GapsOf(seq)[CHOOSE i \in DOMAIN seq : seq[i].id = id]
GapsSurvive ==
  [][( /\ ops' # ops /\ Ids(trips) \subseteq Ids(trips')
       /\ Ids(trips) = Ids(trips') \/ InSequence(trips') )
     => \A id \in Ids(trips) : MilesBefore(trips', id) = MilesBefore(trips, id)]_vars
=============================================================================
