---------------------------- MODULE MCConnTable -----------------------------
(***************************************************************************)
(* Instances of ConnTable for TLC.  Connections are interchangeable: they  *)
(* differ only in their names.                                             *)
(***************************************************************************)
EXTENDS ConnTable, TLC

ConnSymmetry == Permutations(Conns)
=============================================================================
