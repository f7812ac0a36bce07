------------------------------- MODULE PlanCell -------------------------------
(***************************************************************************)
(* What one site promises the mesh about the centralised plan, whatever    *)
(* its goroutines do: at any moment it forwards by one whole row of next   *)
(* hops that a leader sent it, takes a new row in one step, forgets the    *)
(* row only with its process, and stops trusting it when nobody renews it. *)
(*                                                                         *)
(* SitePlan (the daemon's goroutines) implements this specification, and   *)
(* so does every site of RouteDistribution (the mesh).                     *)
(***************************************************************************)
CONSTANTS
  Row,      \* rows of next hops a leader may send
  Nothing   \* what a new process looks up before the first row

VARIABLES
  row,      \* the row in force
  fresh     \* was it renewed within three update intervals?

cellVars == <<row, fresh>>

Init == row = Nothing /\ fresh = FALSE

\* A leader's row arrives, the same one or another.
Adopt == row' \in Row /\ fresh' = TRUE

\* Three intervals without a leader.
Expire == fresh' = FALSE /\ row' = row

\* The daemon restarts.
Restart == row' = Nothing /\ fresh' = FALSE

Next == Adopt \/ Expire \/ Restart

Spec == Init /\ [][Next]_cellVars
=============================================================================
