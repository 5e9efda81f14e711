------------------------------ MODULE MCSysDns ------------------------------
(* SysDns for TLC: three cores and two network services. *)
EXTENDS SysDns, TLC

CONSTANTS c1, c2, c3, s1, s2

MCCore    == {c1, c2, c3}
MCService == {s1, s2}
MCSymmetry == Permutations(MCCore) \cup Permutations(MCService)
=============================================================================
