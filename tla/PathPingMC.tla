------------------------------ MODULE PathPingMC ------------------------------
(* Paths and peers for the runs of PathPing.                                  *)
EXTENDS PathPing

\* The third node knows the others, of which neither has its address.
ThreePeers == {<<m, n>> \in Node \X Node : m # n} \ {<<"a", "c">>, <<"b", "c">>}

\* There and back, through the origin again, over a node without a next hop,
\* without a first hop, and one that does not end at its origin.
AllPaths ==
  {<<"a", "b", "a">>, <<"a", "b", "a", "b", "a">>, <<"a", "b", "c", "a">>,
   <<"a", "c", "a">>, <<"a", "b", "c">>}
===============================================================================
