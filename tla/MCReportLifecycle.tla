--------------------------- MODULE MCReportLifecycle ---------------------------
(* Values for the constants of ReportLifecycle. *)
EXTENDS ReportLifecycle

\* The right codes of every stage; each is a wrong one for the others.
MCCodes == {220, 234, 200, 230, 213, 227, 150, 226}
MCSizes == {2, 3}
MCLimits == {3}
MCRows == {0, 3, 5}
================================================================================
