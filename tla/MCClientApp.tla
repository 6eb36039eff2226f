---------------------------- MODULE MCClientApp ----------------------------
(* ClientApp for TLC.                                                        *)
EXTENDS ClientApp
==============================================================================
