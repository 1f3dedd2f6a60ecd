------------------------------- MODULE MCIpc -------------------------------
(***************************************************************************)
(* Two clients and a supervisor that may die and come back, with one slot  *)
(* less than they need after that.                                         *)
(***************************************************************************)
EXTENDS PcdIpc

CONSTANTS c1, c2
=============================================================================
