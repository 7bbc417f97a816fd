---------------------------- MODULE MCAlertRules ----------------------------
(* An instance of AlertRules by itself for TLC.                            *)
EXTENDS AlertRules

CONSTANTS x1, x2

=============================================================================
