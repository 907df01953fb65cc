-------------------------- MODULE MCTripGeneration --------------------------
(* Instances of TripGeneration for TLC.  Waypoints on one road: Home at    *)
(* mile 0, Work at mile 5.                                                 *)
EXTENDS TripGeneration

MCSites == {"Home", "Work"}
MCHome  == "Home"
MCPlace == "Home" :> 0 @@ "Work" :> 5

Row(at, kind, site, place, odometer) ==
  [at |-> at, kind |-> kind, site |-> site, place |-> place, odometer |-> odometer]

(* Work is driven past, then reached; a night at Work; an arrival is       *)
(* reported from outside the radius; a loop from Work; and back home.      *)
TwoDayDrive == {
  Row(8, "leave", "Home", 0, 10),   Row(9, "location", "none", 3, 13),
  Row(10, "enter", "Work", 5, 15),  Row(11, "location", "none", 8, 18),
  Row(12, "enter", "Work", 4, 22),  Row(13, "location", "none", 5, 23),
  Row(14, "leave", "Work", 5, 23),  Row(15, "location", "none", 7, 25),
  Row(16, "enter", "Work", 5, 27),  Row(17, "leave", "Work", 5, 27),
  Row(19, "enter", "Home", 0, 32) }

(* An arrival at work whose departure was not reported; two miles that no  *)
(* row tells of; and the next day home, past a row that may come late.     *)
Drive == {
  Row(0, "enter", "Work", 5, 15), Row(3, "leave", "Work", 5, 17),
  Row(4, "location", "none", 3, 19), Row(5, "enter", "Home", 0, 22) }

(* One drive, which crosses midnight.                                      *)
NightDrive == {
  Row(0, "leave", "Home", 0, 10), Row(1, "location", "none", 2, 12),
  Row(2, "enter", "Work", 5, 15) }

Nothing   == {}
Locations == {x \in Events : x.kind = "location"}
=============================================================================
