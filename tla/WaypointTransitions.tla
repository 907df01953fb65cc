------------------------ MODULE WaypointTransitions ------------------------
(***************************************************************************)
(* From stored OwnTracks rows to the trips they tell of: which waypoint    *)
(* transitions are confirmed, which of them belong to a day, and the walk  *)
(* over them that pairs leaves with arrivals.                              *)
(*                                                                         *)
(* Saved waypoints and rows lie along one road, so that distances, "inside *)
(* the radius" and "clearly away" need one number each.  No two rows carry *)
(* the same tst.                                                           *)
(***************************************************************************)
EXTENDS Integers, SequencesExt

CONSTANTS
  Sites,       (* names of the saved waypoints                              *)
  Home,        (* the waypoint named Home                                   *)
  Place,       (* [Sites -> Nat]: where on the road a waypoint is           *)
  Events,      (* rows a phone may send: see EventType                      *)
  Dwell,       (* owntracks_waypoint_dwell_minutes                          *)
  AwayMiles,   (* distance that disproves a dwell                           *)
  DayLength    (* instants in a local day                                   *)

NoSite == "none"
NoPath == -1
Sources == {"owntracks_rolling", "estimated", "previous_trip", "manual"}

(* at is the tst, site the waypoint a transition names, odometer the value *)
(* the pass stamped on the row before it generates trips.                  *)
EventType ==
  [ at : Nat, kind : {"leave", "enter", "location"}, site : Sites \union {NoSite},
    place : Nat, odometer : Nat ]

ASSUME SitesAssumption == Home \in Sites /\ NoSite \notin Sites /\ Place \in [Sites -> Nat]
ASSUME EventsAssumption ==
  /\ Events \subseteq EventType
  /\ \A e \in Events : e.kind = "location" <=> e.site = NoSite
  /\ \A e, f \in Events : e.at = f.at => e = f
ASSUME TimesAssumption ==
  Dwell \in Nat \ {0} /\ AwayMiles \in Nat \ {0} /\ DayLength \in Nat \ {0}

DayOf(t)     == t \div DayLength
StartOf(d)   == d * DayLength
Gap(p, q)    == IF p <= q THEN q - p ELSE p - q
Inside(s, x) == x.place = Place[s]
Ordered(S)   ==
  [i \in 1..Cardinality(S) |-> CHOOSE x \in S : Cardinality({y \in S : y.at < x.at}) = i - 1]

(* site_for_location: the waypoint a transition names, else the one whose  *)
(* radius holds the coordinates.                                           *)
SiteOf(x) ==
  IF x.site # NoSite THEN x.site
  ELSE IF \E s \in Sites : Inside(s, x) THEN CHOOSE s \in Sites : Inside(s, x)
  ELSE NoSite

-----------------------------------------------------------------------------
(* Dwell confirmation of an enter event e among the loaded rows.           *)

Deadline(e) == e.at + Dwell

LeavesSame(e, x)  == x.kind = "leave" /\ x.site = e.site
EntersOther(e, x) == x.kind = "enter" /\ x.site # e.site

Confirms(e, x) ==
  /\ x.at >= Deadline(e)
  /\ \/ LeavesSame(e, x)
     \/ EntersOther(e, x) /\ Inside(e.site, e)
     \/ ~EntersOther(e, x) /\ Inside(e.site, x)

Rejects(e, x) ==
  \/ (LeavesSame(e, x) \/ EntersOther(e, x)) /\ ~Confirms(e, x)
  \/ x.at < Deadline(e) /\ x.kind = "location" /\ Gap(x.place, Place[e.site]) >= AwayMiles

(* The first row that decides does; without one, the dwell time passing    *)
(* confirms an arrival whose own coordinates are inside the waypoint.      *)
(* EnterConfirmedAtOnce, a wrong variant, does not wait for it.            *)
Decided(e, rows, otherwise) ==
  LET deciding == {x \in rows : x.at > e.at /\ (Confirms(e, x) \/ Rejects(e, x))}
  IN  IF deciding # {}
      THEN \E x \in deciding : Confirms(e, x) /\ \A y \in deciding : x.at <= y.at
      ELSE otherwise
EnterConfirmedAtOnce(e, rows, asof) == Decided(e, rows, Inside(e.site, e))
EnterConfirmed(e, rows, asof) ==
  Decided(e, rows, Inside(e.site, e) /\ asof >= Deadline(e))

(* Rows of the day and of the lookahead behind it.                         *)
Loaded(d, rows) ==
  {x \in rows : x.at >= StartOf(d) /\ x.at < StartOf(d + 1) + DayLength + Dwell}

ConfirmedTransitions(rows, asof) ==
  {x \in rows : x.kind = "leave" \/ (x.kind = "enter" /\ EnterConfirmed(x, rows, asof))}

(* The day's transitions; a leave that ends the day is followed by the     *)
(* first confirmed arrival behind it.                                      *)
DayTransitions(d, rows, asof) ==
  LET all     == ConfirmedTransitions(Loaded(d, rows), asof)
      inDay   == {x \in all : DayOf(x.at) = d}
      onRoad  == \E x \in inDay : x.kind = "leave" /\ \A y \in inDay : y.at <= x.at
      arrival == {x \in all : x.kind = "enter" /\ DayOf(x.at) > d}
      next    == {x \in arrival : \A y \in arrival : x.at <= y.at}
  IN  Ordered(IF onRoad THEN inDay \union next ELSE inDay)

-----------------------------------------------------------------------------
(* The walk over the day's transitions.                                    *)

Segment(x, y) ==
  IF SiteOf(x) # NoSite /\ SiteOf(x) = SiteOf(y) THEN 0 ELSE Gap(x.place, y.place)

(* Path length between two instants, when location updates support it.     *)
PathMiles(rows, from, to) ==
  LET path == Ordered({x \in rows : from <= x.at /\ x.at <= to})
  IN  IF Len(path) < 2 \/ \A i \in DOMAIN path : path[i].kind # "location"
      THEN NoPath
      ELSE SumFunctionOnSet([i \in 1..(Len(path) - 1) |-> Segment(path[i], path[i + 1])],
                            1..(Len(path) - 1))

(* leave and arrival hold at most one transition each.                     *)
WalkStart == [leave |-> {}, arrival |-> {}, ignored |-> {}, found |-> << >>]

WalkLeave(walk, x) ==
  IF \E y \in walk.leave \union walk.arrival : y.site # x.site
  THEN [walk EXCEPT !.ignored = @ \union {x.site}]
  ELSE [walk EXCEPT !.leave = {x}]

(* A trip found: its origin's odometer stamp, if a row stands for the      *)
(* origin, and its destination's.                                          *)
Found(from, x, start, stamps, miles) ==
  << [ origin |-> from, dest |-> x.site, start |-> start, end |-> x.at,
       left |-> stamps, arrived |-> x.odometer, path |-> miles ] >>

TripTo(walk, x, rows) ==
  IF walk.leave # {}
  THEN LET y == CHOOSE y \in walk.leave : TRUE
       IN  Found(y.site, x, y.at, {y.odometer}, PathMiles(rows, y.at, x.at))
  ELSE IF x.site \in walk.ignored THEN << >>
  ELSE IF walk.arrival # {}
  THEN LET y == CHOOSE y \in walk.arrival : TRUE
       IN  IF y.site = x.site THEN << >>
           ELSE Found(y.site, x, x.at, {y.odometer}, NoPath)
  ELSE IF x.site = Home THEN << >> ELSE Found(Home, x, x.at, {}, NoPath)

WalkEnter(walk, x, rows) ==
  [ leave |-> {}, arrival |-> {x}, ignored |-> walk.ignored \ {x.site},
    found |-> walk.found \o TripTo(walk, x, rows) ]

TripsFound(d, rows, asof) ==
  LET step(walk, x) ==
        IF x.kind = "leave" THEN WalkLeave(walk, x)
        ELSE WalkEnter(walk, x, Loaded(d, rows))
  IN  FoldLeft(step, WalkStart, DayTransitions(d, rows, asof)).found
=============================================================================
