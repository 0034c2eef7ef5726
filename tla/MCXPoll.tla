------------------------------ MODULE MCXPoll ------------------------------
EXTENDS XPoll, TLC

\* Sockets and addresses are interchangeable, descriptor numbers are not.
Symmetry == Permutations(Socks) \cup Permutations(Addrs)
=============================================================================
