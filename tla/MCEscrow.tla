------------------------------ MODULE MCEscrow ------------------------------
(***************************************************************************)
(* An instance of Escrow for TLC.  The first deposit pays for a contract   *)
(* to the unit; the second lacks exactly the fee for its own input; both   *)
(* together are more than enough.                                          *)
(***************************************************************************)
EXTENDS Escrow, TLC

CONSTANTS ca, cb, d1, d2

MCValue == (d1 :> 53) @@ (d2 :> 52)
=============================================================================
