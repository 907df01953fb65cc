------------------------ MODULE MCMonthlySummaries ------------------------
(* An instance of MonthlySummaries for TLC: a month of three days with     *)
(* three rows, and a second one the car is driven into.                    *)
EXTENDS MonthlySummaries

MCPayloads == {
  [at |-> 0, place |-> 0], [at |-> 1, place |-> 2], [at |-> 2, place |-> 1],
  [at |-> 3, place |-> 4], [at |-> 4, place |-> 5] }
=============================================================================
