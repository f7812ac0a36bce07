---------------------------- MODULE LinkWatchdogMC ----------------------------
(* Site 1 has a tunnel over either family, of which the preferred one may not *)
(* be there at first; site 2 has one over IPv4 only.                         *)
EXTENDS LinkWatchdog

MCLinks == {<<1, 4>>, <<1, 6>>, <<2, 4>>}

MCInit ==
  /\ Init
  /\ {<<1, 4>>, <<2, 4>>} \subseteq links
  /\ best[1] \in {6, None} /\ best[2] = 4

MCSpec == MCInit /\ [][Next]_vars /\ Fairness
=============================================================================
