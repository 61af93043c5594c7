---------------------------- MODULE MCReportLogs ----------------------------
(* A TLC instance of ReportLogs: two events, the first with two values. *)
EXTENDS ReportLogs

ThreeReports == {[time |-> 1, value |-> 1], [time |-> 1, value |-> 2],
                 [time |-> 2, value |-> 1]}
OneRetry == <<1>>
=============================================================================
