---------------------------- MODULE MCAlertStage ----------------------------
(* AlertStage for TLC: two topics tell the sinks apart, three sinks let a     *)
(* disabled one stand first, between and last.                                *)
EXTENDS AlertStage
==============================================================================
