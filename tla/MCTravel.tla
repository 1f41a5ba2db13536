------------------------------ MODULE MCTravel ------------------------------
(***************************************************************************)
(* The east wing of nodes.yaml: the homes N25 (AMR_1) and N20 (AMR_2), the *)
(* gates N5 and N10, and the aisle N24-N19-N14-N9-N4 between them.         *)
(***************************************************************************)
EXTENDS Travel

\* Node N<k> of nodes.yaml is the number k: five columns, rows from the top.
MCCell == [n \in Node |-> <<(n - 1) % 5, 4 - ((n - 1) \div 5)>>]

Empty(n) == [to |-> n, laden |-> FALSE, preempt |-> FALSE]
Laden(n) == [to |-> n, laden |-> TRUE, preempt |-> FALSE]
\* The way home is the only call that an assignment preempts.
Returning(n) == [to |-> n, laden |-> FALSE, preempt |-> TRUE]

AtHomes == 1 :> 25 @@ 2 :> 20
AtGate == 1 :> 5 @@ 2 :> 20

\* AMR_2 comes home while AMR_1 is still on its way out.
Return == 1 :> <<Laden(10)>> @@ 2 :> <<Empty(5), Empty(20)>>
\* AMR_1 returns to its home from the gate N5 and is called to the gate N10 on its
\* way, where AMR_2 goes.
HomeAndOut == 1 :> <<Returning(25), Empty(10)>> @@ 2 :> <<Laden(10)>>
\* AMR_1 comes home from the gate N5 while AMR_2 goes out to the gate N10.
Meet == 1 :> <<Empty(25)>> @@ 2 :> <<Laden(10)>>
=============================================================================
