------------------------------ MODULE MCDbgGui ------------------------------
EXTENDS DbgGui, TLC

CONSTANTS game, render, handler, p1, p2, heap, actor

MCLoggers   == {game, render, handler}
MCLengths   == {1, 6}
MCCost     == [len \in MCLengths |-> len + 3]
MCActors    == {"mario", "toad"}
MCPaths     == {p1, p2}
MCAddresses == {heap, actor}
MCSymmetry  == Permutations(MCAddresses) \cup Permutations(MCPaths)
=============================================================================
