---------------------------- MODULE MCLLMParser ----------------------------
(***************************************************************************)
(* Instances of LLMParser.tla for TLC.                                     *)
(***************************************************************************)
EXTENDS LLMParser, TLC

CONSTANTS percent, dots     \* 95, of "95%", and "..."

\* Sscanf makes nothing of dots.
Reading == percent :> 95 @@ dots :> None
=============================================================================
