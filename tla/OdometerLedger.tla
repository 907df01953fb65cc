--------------------------- MODULE OdometerLedger ---------------------------
(***************************************************************************)
(* What the processing passes promise, without workers, locks, sessions    *)
(* and failures: a ledger of the rows stored.  Rows are taken into the     *)
(* odometer in the order they were stored, in batches, each row in one;    *)
(* only a batch or a reading by the user moves the odometer, and a batch   *)
(* never moves it back; only rows that were taken are deleted.             *)
(***************************************************************************)
EXTENDS Integers

CONSTANTS
  MaxRows,       (* bound on stored rows                                   *)
  SavesMayRace   (* a reading may be saved while a batch is being counted, *)
                 (* and is then overwritten: nothing is promised of miles  *)

VARIABLES
  rows,    (* how many rows were stored                                    *)
  taken,   (* how many of them the odometer holds                          *)
  miles,   (* the odometer                                                 *)
  gone     (* the rows deleted                                             *)

vars == << rows, taken, miles, gone >>

Init == rows = 0 /\ taken = 0 /\ miles = 0 /\ gone = {}

Store ==
  /\ rows < MaxRows
  /\ rows' = rows + 1
  /\ UNCHANGED << taken, miles, gone >>

Take ==
  /\ \E n \in (taken + 1)..rows : taken' = n
  /\ miles' \in Nat
  /\ SavesMayRace \/ miles' >= miles
  /\ UNCHANGED << rows, gone >>

SetReading ==
  /\ miles' \in Nat
  /\ UNCHANGED << rows, taken, gone >>

Delete ==
  /\ \E expired \in SUBSET (1..taken) : gone' = gone \union expired
  /\ UNCHANGED << rows, taken, miles >>

Next == Store \/ Take \/ SetReading \/ Delete

Spec == Init /\ [][Next]_vars
=============================================================================
