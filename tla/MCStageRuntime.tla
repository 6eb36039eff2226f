--------------------------- MODULE MCStageRuntime ---------------------------
(***************************************************************************)
(* StageRuntime for TLC: sources of two types (1, 2) and of an unsupported *)
(* one, none to two of them, a disabled sink, two configurations that      *)
(* swap the types.                                                         *)
(***************************************************************************)
EXTENDS StageRuntime

MCConfigs == {[sources |-> <<1>>, sinks |-> <<TRUE>>],
              [sources |-> <<2, 1>>, sinks |-> <<FALSE, TRUE>>],
              [sources |-> <<1, 0>>, sinks |-> <<>>],
              [sources |-> <<>>, sinks |-> <<TRUE>>]}
==============================================================================
