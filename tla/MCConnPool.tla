----------------------------- MODULE MCConnPool -----------------------------
(* ConnPool for TLC: the sockets are interchangeable, and states with many  *)
(* connections being opened at the same time are not explored further.      *)
EXTENDS ConnPool, TLC

SockSymmetry == Permutations(Socks)

Opening == {s \in Socks : sock[s].at \in SelfPhases}

FewOpening == Cardinality(Opening) <= IF maintain THEN 1 ELSE 2
=============================================================================
