---------------------------- MODULE MCCommission ----------------------------
(***************************************************************************)
(* Small instances of Commission for TLC, with the sales of                *)
(* MCCommissionClose.                                                      *)
(***************************************************************************)
EXTENDS Commission, MCCommissionClose
=============================================================================
