---------------------------- MODULE MCReportList ----------------------------
(* Instances of ReportList.                                                  *)
EXTENDS ReportList

CONSTANTS a1, a2

\* Two parallel UDP clients; only the first reports its settings.
UDPClients ==
    a1 :> <<"settings", "data", "close", "relay", "end">> @@
    a2 :> <<"data", "close", "relay", "end">>

\* They end their transfer reports last.
ASSUME ClientsEndLast == EndsLast

=============================================================================
