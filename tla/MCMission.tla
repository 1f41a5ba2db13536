------------------------------ MODULE MCMission ------------------------------
(* One robot with an outbound order and further missions.                    *)
EXTENDS Mission

\* Orders go from a shelf to the gate, the last mission the other way.
MCSource == [m \in Mission |-> IF m \in Outbound THEN "shelf" ELSE "gate"]
MCTarget == [m \in Mission |-> IF m \in Outbound THEN "gate" ELSE "shelf"]

=============================================================================
