--------------------------- MODULE MCHostPresence ---------------------------
(* Instances of HostPresence for TLC.                                      *)
EXTENDS HostPresence

CONSTANTS i1, i2, n1, n2

=============================================================================
