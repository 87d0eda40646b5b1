------------------------------ MODULE MCServer ------------------------------
(***************************************************************************)
(* Instances of Server for TLC: two Start and two Shutdown calls that race *)
(* each other, over one or two connections.                                *)
(***************************************************************************)
EXTENDS Server, TLC

\* Calls and connections of one kind are interchangeable; used only where no
\* liveness property is checked.
Symmetry ==
  Permutations(Starts) \cup Permutations(Shutdowns) \cup Permutations(Conns)
=============================================================================
