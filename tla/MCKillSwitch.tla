---------------------------- MODULE MCKillSwitch ----------------------------
(* KillSwitch for TLC: three guard processes at a time and two configurations. *)
EXTENDS KillSwitch, TLC

CONSTANTS g1, g2, g3, k1, k2

MCGuard  == {g1, g2, g3}
MCTwoGuards == {g1, g2}
MCConfig == {k1, k2}
MCSymmetry == Permutations(MCGuard) \cup Permutations(MCConfig)
=============================================================================
