------------------------------ MODULE MCCache ------------------------------
(***************************************************************************)
(* Instance of Cache.tla for TLC.  No symmetry: liveness is checked too.   *)
(***************************************************************************)
EXTENDS Cache, TLC
=============================================================================
