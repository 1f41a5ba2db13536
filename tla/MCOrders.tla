------------------------------ MODULE MCOrders ------------------------------
EXTENDS Orders

\* Three shelves, two outbound gates, two robots.
MCShelves == <<"A1-L1", "A1-L2", "A2-L1">>
MCGates == <<"OUT-1", "OUT-2">>
MCRobots == <<"AMR_1", "AMR_2">>
=============================================================================
