------------------------ MODULE MCDetectionReportSink ------------------------
(* DetectionReportSink for TLC: two findings make a call that can fail half   *)
(* way, two calls let what one leaves behind meet the next.                   *)
EXTENDS DetectionReportSink
==============================================================================
