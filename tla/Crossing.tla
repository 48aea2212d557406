------------------------------ MODULE Crossing ------------------------------
(***************************************************************************)
(* The logic of a level crossing (dataobj/crossing_logic.cc): the vehicles *)
(* on either way, the last vehicle of way 2 that asked to have it closed,  *)
(* and its state.  Way 2 (rails) has priority over way 1 (the road).  The  *)
(* tiles of parallel tracks that a road crosses share one such logic.      *)
(***************************************************************************)

CONSTANT NoVehicle

CrossingState == {"open", "request_close", "closed"}

CrossingLogic(Vehicles) ==
    [state : CrossingState, request : Vehicles \cup {NoVehicle},
     way1 : SUBSET Vehicles, way2 : SUBSET Vehicles]

NewCrossing ==
    [state |-> "open", request |-> NoVehicle, way1 |-> {}, way2 |-> {}]

(* request_crossing.  A vehicle of way 1 changes nothing by asking. *)

MayCross1(cr, v) ==
    \/ cr.way2 = {} /\ cr.state = "open"
    \/ v \in cr.way1

MayCross2(cr) == cr.way1 = {}

RequestCrossing2(cr, v) ==
    IF MayCross2(cr)
    THEN [cr EXCEPT !.request = v, !.state = "closed"]
    ELSE [cr EXCEPT !.state = "request_close"]

(* add_to_crossing *)

AddToCrossing1(cr, v) == [cr EXCEPT !.way1 = @ \cup {v}]

AddToCrossing2(cr, v) ==
    [cr EXCEPT !.way2 = @ \cup {v},
               !.request = IF @ = v THEN NoVehicle ELSE @,
               !.state = "closed"]

(* Plausible bugs: the crossing opens behind the first wagon; it stays in   *)
(* request_close when the road is empty.                                    *)

OpensBehindFirst(cr, V) ==
    [cr EXCEPT !.way2 = @ \ V, !.request = NoVehicle, !.state = "open"]

NeverCloses(cr, v) == [cr EXCEPT !.way1 = @ \ {v}]

(* release_crossing *)

ReleaseCrossing1(cr, v) ==
    LET left == cr.way1 \ {v}
    IN  [cr EXCEPT !.way1 = left,
                   !.state = IF @ = "request_close" /\ left = {} THEN "closed" ELSE @]

\* for each of V
ReleaseCrossing2(cr, V) ==
    LET left   == cr.way2 \ V
        wanted == IF cr.request \in V THEN NoVehicle ELSE cr.request
    IN  [cr EXCEPT !.way2 = left, !.request = wanted,
                   !.state = IF V # {} /\ left = {} /\ wanted = NoVehicle THEN "open" ELSE @]

(* recalc_state of a crossing that is loaded with its state: the vehicles *)
(* that stand on it are counted again, the request is forgotten.          *)
RecalcState(cr, present) ==
    [cr EXCEPT !.way2 = present, !.request = NoVehicle,
               !.state = IF present = {} THEN @ ELSE "closed"]

=============================================================================
