------------------------------ MODULE MCOutputs ------------------------------
(***************************************************************************)
(* Small instances of Outputs for TLC: two outputs tell apart what one     *)
(* does from what becomes of the other.                                    *)
(***************************************************************************)
EXTENDS Outputs
=============================================================================
