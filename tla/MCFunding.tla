----------------------------- MODULE MCFunding -----------------------------
(***************************************************************************)
(* An instance of Funding for TLC: the funder of test/src/e2e, whose       *)
(* return address is the own key, and of demo/06, where it is a wallet's;  *)
(* an address that is not taproot is refused.                              *)
(* One output, of a value that a return at one rate leaves and at the      *)
(* other does not, and two contracts that pay the same, so that they may   *)
(* be exchanged for each other.  A lock time of three seconds is a sequence *)
(* of one unit of two: the library is taken to round it down.              *)
(***************************************************************************)
EXTENDS Funding, TLC

CONSTANTS alice, wallet, segwit, c1, c2, t1, t2

Request_(addr) == [deposit_pk |-> alice, locktime |-> 3, return_addr |-> addr]
MCRequests == {Request_(alice), Request_(wallet), Request_(segwit)}
MCOutputs  == [c \in {c1, c2} |-> [payout |-> t1, refund |-> t2]]
MCPolicy   == [FEERATE_MIN |-> 1, FEERATE_MAX |-> 2, LOCKTIME_MIN |-> 3, LOCKTIME_MAX |-> 3]
MCSequence(t) == t \div SEQ_UNIT
Symmetry   == Permutations({c1, c2})
=============================================================================
