------------------------------- MODULE MCRing -------------------------------
(***************************************************************************)
(* Two producers and two consumers on a ring with room for three buffers:  *)
(* it fills, runs empty and its indices wrap.                              *)
(***************************************************************************)
EXTENDS RingUsers, TLC

Symmetry ==
  Permutations(Mbufs) \cup Permutations(Producers) \cup Permutations(Consumers)
=============================================================================
