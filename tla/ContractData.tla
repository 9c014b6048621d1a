---------------------------- MODULE ContractData ----------------------------
(***************************************************************************)
(* Contract data and the operations on it (src/core/module/contract).      *)
(*                                                                         *)
(* Fields that change together are one field here: a flag stands for its   *)
(* date too, `head' for machine_head and machine_vmid, `spent' for the     *)
(* transaction and its id, and vin_count for tx_vsize.  The terms of the   *)
(* contract, which nothing changes, are the constants.  A signature is the *)
(* content it was made over.                                               *)
(***************************************************************************)
EXTENDS Integers

CONSTANTS
  NULL,
  Subtotal,     \* the payments and the fees of the contract
  BaseFee,      \* the fee for the transaction without inputs
  VinFee        \* the fee for one more input

ContractStatus ==
  {"published", "canceled", "secured", "active", "closed", "spent", "settled"}

-----------------------------------------------------------------------------
(* The states of a contract: each sets the fields of the later ones back.   *)

INIT_PUBLISH_STATE(c) ==
  [c EXCEPT !.funds_conf = 0, !.funds_pend = 0, !.tx_fees = 0, !.tx_total = 0,
            !.vin_count = 0]
INIT_CANCEL_STATE(c)  == [c EXCEPT !.canceled = FALSE, !.canceled_sig = NULL]
INIT_FUNDING_STATE(c) == [c EXCEPT !.secured = FALSE, !.secured_sig = NULL]
INIT_ACTIVE_STATE(c)  == [c EXCEPT !.activated = FALSE, !.active_sig = NULL, !.head = NULL]
INIT_CLOSE_STATE(c)   == [c EXCEPT !.closed = FALSE, !.closed_sig = NULL, !.machine_vout = NULL]
INIT_SPEND_STATE(c)   == [c EXCEPT !.spent = NULL, !.spent_sig = NULL]
INIT_SETTLE_STATE(c)  == [c EXCEPT !.settled = NULL, !.settled_sig = NULL]

GET_SETTLE_STATE(c) == [c EXCEPT !.settled_sig = NULL, !.status = "settled"]

GET_SPEND_STATE(c) ==
  [INIT_SETTLE_STATE(c) EXCEPT !.spent_sig = NULL, !.status = "spent"]

GET_CLOSE_STATE(c) ==
  [ INIT_SPEND_STATE(GET_SPEND_STATE(c))
    EXCEPT !.closed_sig = NULL, !.status = "closed" ]

GET_ACTIVE_STATE_KeepsHead(c) ==
  [ INIT_CLOSE_STATE(GET_CLOSE_STATE(c))
    EXCEPT !.active_sig = NULL, !.status = "active" ]
GET_ACTIVE_STATE(c) ==
  [ INIT_CLOSE_STATE(GET_CLOSE_STATE(c))
    EXCEPT !.active_sig = NULL, !.head = NULL, !.status = "active" ]

GET_FUNDING_STATE(c) ==
  [ INIT_ACTIVE_STATE(GET_ACTIVE_STATE(c))
    EXCEPT !.secured_sig = NULL, !.status = "secured" ]

GET_PUBLISH_STATE(c) ==
  [ INIT_FUNDING_STATE(INIT_PUBLISH_STATE(INIT_CANCEL_STATE(
      INIT_ACTIVE_STATE(GET_ACTIVE_STATE(c)))))
    EXCEPT !.created_sig = NULL, !.status = "published" ]

\* What a signature for a status is made over.  A canceled contract is signed
\* as it stands.
get_contract_state(c, status) ==
  CASE status = "published" -> GET_PUBLISH_STATE(c)
    [] status = "canceled"  -> c
    [] status = "secured"   -> GET_FUNDING_STATE(c)
    [] status = "active"    -> GET_ACTIVE_STATE(c)
    [] status = "closed"    -> GET_CLOSE_STATE(c)
    [] status = "spent"     -> GET_SPEND_STATE(c)
    [] status = "settled"   -> GET_SETTLE_STATE(c)

\* The signature of a status; the digest of it is that of the data as they are
\* now, which is not so of a signature that is not there.
SigOf == [ published |-> "created_sig", canceled |-> "canceled_sig",
           secured   |-> "secured_sig", active   |-> "active_sig",
           closed    |-> "closed_sig",  spent    |-> "spent_sig",
           settled   |-> "settled_sig" ]
get_contract_proof(c, status) == c[SigOf[status]]
verify_contract_sig(c, status) ==
  get_contract_proof(c, status) = get_contract_state(c, status)

verify_contract_sigs(c) ==
  /\ verify_contract_sig(c, "published")
  /\ c.canceled        => verify_contract_sig(c, "canceled")
  /\ c.secured         => verify_contract_sig(c, "secured")
  /\ c.activated       => verify_contract_sig(c, "active")
  /\ c.closed          => verify_contract_sig(c, "closed")
  /\ c.spent # NULL    => verify_contract_sig(c, "spent")
  /\ c.settled # NULL  => verify_contract_sig(c, "settled")

-----------------------------------------------------------------------------
(* The operations.                                                          *)

Notarized(c, status) == get_contract_state([c EXCEPT !.status = status], status)

create_contract(cid) ==
  LET c == [ cid |-> cid, status |-> "published",
             funds_conf |-> 0, funds_pend |-> 0, vin_count |-> 0,
             tx_fees |-> BaseFee, tx_total |-> Subtotal + BaseFee,
             canceled |-> FALSE, secured |-> FALSE, activated |-> FALSE,
             head |-> NULL, closed |-> FALSE, machine_vout |-> NULL,
             spent |-> NULL, settled |-> NULL,
             created_sig |-> NULL, canceled_sig |-> NULL, secured_sig |-> NULL,
             active_sig |-> NULL, closed_sig |-> NULL, spent_sig |-> NULL,
             settled_sig |-> NULL ]
  IN [c EXCEPT !.created_sig = Notarized(c, "published")]

cancel_contract(c) ==
  LET u == [c EXCEPT !.canceled = TRUE, !.status = "canceled"] IN
  [u EXCEPT !.canceled_sig = Notarized(u, "canceled")]

\* The funds of a deposit come (n = 1) or go (n = -1).  The value of a
\* confirmed one is added to the total of the transaction too.
CountFunds(c, confirmed, value, n) ==
  IF confirmed
  THEN [c EXCEPT !.funds_conf = @ + n * value, !.tx_fees = @ + n * VinFee,
                 !.tx_total = @ + n * (value + VinFee), !.vin_count = @ + n]
  ELSE [c EXCEPT !.funds_pend = @ + n * value]

add_contract_funds(c, confirmed, value) == CountFunds(c, confirmed, value, 1)
rem_contract_funds_Pending(c, confirmed, value) == CountFunds(c, FALSE, value, -1)
rem_contract_funds(c, confirmed, value) == CountFunds(c, confirmed, value, -1)

confirm_contract_funds_StaysPending(c, value) == add_contract_funds(c, TRUE, value)
confirm_contract_funds(c, value) ==
  [add_contract_funds(c, TRUE, value) EXCEPT !.funds_pend = @ - value]

\* What a contract still asks for.
get_contract_value(c)   == Subtotal + BaseFee
get_contract_balance(c) == get_contract_value(c) + c.vin_count * VinFee - c.funds_conf

\* `count' deposits, all of them confirmed, of `value' together.
MaySecure_BaseOnly(c, count, value) == ~c.canceled /\ value >= Subtotal + BaseFee
MaySecure(c, count, value) ==
  ~c.canceled /\ value >= Subtotal + BaseFee + VinFee * count

secure_contract(c, count, value) ==
  LET fees == BaseFee + VinFee * count
      u    == [c EXCEPT !.vin_count = count, !.funds_pend = 0, !.funds_conf = value,
                        !.secured = TRUE, !.tx_fees = fees,
                        !.tx_total = Subtotal + fees, !.status = "secured"]
  IN [u EXCEPT !.secured_sig = Notarized(u, "secured")]

activate_contract(c) ==
  LET u == [c EXCEPT !.activated = TRUE, !.head = c.cid, !.status = "active"] IN
  [u EXCEPT !.active_sig = Notarized(u, "active")]

MayClose(c, vmdata) == c.activated /\ vmdata.closed
close_contract(c, vmdata) ==
  LET u == [c EXCEPT !.closed = TRUE, !.head = vmdata.head,
                     !.machine_vout = vmdata.output, !.status = "closed"] IN
  [u EXCEPT !.closed_sig = Notarized(u, "closed")]

spend_contract(c, tx) ==
  LET u == [c EXCEPT !.spent = tx, !.status = "spent"] IN
  [u EXCEPT !.spent_sig = Notarized(u, "spent")]

\* `block' is that of the transaction, or says that there is none.
settle_contract(c, block) ==
  LET u == [c EXCEPT !.settled = block, !.status = "settled"] IN
  [u EXCEPT !.settled_sig = Notarized(u, "settled")]
=============================================================================
