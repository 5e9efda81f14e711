--------------------------- MODULE MCCoreLifecycle ---------------------------
(* CoreLifecycle for TLC: three Start requests, enough for a profile, a refused Start beside it *)
(* and a profile after both.                                                                    *)
EXTENDS CoreLifecycle

MCMaxStarts == 3
=============================================================================
