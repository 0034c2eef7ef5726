---------------------------- MODULE MCLuaXTimer ----------------------------
EXTENDS LuaXTimer, TLC

\* Nodes and timer objects are interchangeable.
Symmetry == Permutations(Nodes) \cup Permutations(LuaTimers)
============================================================================
