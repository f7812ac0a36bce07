--------------------------- MODULE MeasureWorkersMC ---------------------------
(* Interfaces for the runs of MeasureWorkers.                                 *)
EXTENDS MeasureWorkers

\* An IPv4 and an IPv6 tunnel to the same site.
OneSite == [i \in Iface |-> CHOOSE s \in Site : TRUE]
================================================================================
