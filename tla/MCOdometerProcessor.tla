------------------------ MODULE MCOdometerProcessor ------------------------
(* Instances of OdometerProcessor for TLC.                                 *)
EXTENDS OdometerProcessor, TLC

CONSTANTS m1, m2, m3   \* payloads of one drive

MCMessages == {m1, m2, m3}

(* Instants of the three payloads, two to a day: m2 and m3 are of one day, *)
(* and m1 is of the day before.                                            *)
TwoDays == m1 :> 1 @@ m2 :> 2 @@ m3 :> 3

(* Segments of a drive m1 -> m2 -> m3 along one road.                      *)
Place == m1 :> 0 @@ m2 :> 2 @@ m3 :> 3
Road  == [p \in MCMessages \X MCMessages |->
            IF Place[p[1]] <= Place[p[2]] THEN Place[p[2]] - Place[p[1]]
                                          ELSE Place[p[1]] - Place[p[2]]]

Ends == {m1, m3}
=============================================================================
