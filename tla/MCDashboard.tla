---------------------------- MODULE MCDashboard ----------------------------
(***************************************************************************)
(* Instance of Dashboard.tla for TLC.                                      *)
(***************************************************************************)
EXTENDS Dashboard, TLC
=============================================================================
