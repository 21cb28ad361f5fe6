------------------------------ MODULE MCService ------------------------------
(***************************************************************************)
(* The service for TLC: the status of the connection, its credential and   *)
(* its traffic.  The three modules share no variable (each has the aspect  *)
(* of the connection that it is about), so in each behaviour one of them   *)
(* moves and the others rest at their start.                               *)
(***************************************************************************)
EXTENDS GluetunState, Connection, Traffic, TLC

VARIABLE moving \* the module that moves in this behaviour

MCInit ==
  /\ moving \in {"status", "credential", "traffic"}
  /\ Init /\ ConnectionInit /\ TrafficInit
  /\ moving # "traffic" => \A c, d \in Containers : at[c] = at[d]

MCNext ==
  /\ UNCHANGED moving
  /\ \/ moving = "status" /\ Next /\ UNCHANGED <<connection, trafficVars>>
     \/ /\ moving = "credential" /\ (ConnectionNext \/ Forgotten)
        /\ UNCHANGED <<vars, trafficVars>>
     \/ moving = "traffic" /\ TrafficNext /\ UNCHANGED <<vars, connection>>

MCSpec == MCInit /\ [][MCNext]_<<moving, vars, connection, trafficVars>>

\* Containers and addresses are interchangeable.
Symmetry == Permutations(Containers) \cup Permutations(Urls)
=============================================================================
