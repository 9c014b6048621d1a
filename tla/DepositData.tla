----------------------------- MODULE DepositData -----------------------------
(***************************************************************************)
(* Deposit data and the operations on it (src/core/module/deposit).        *)
(*                                                                         *)
(* The fields that change together are one field here: `conf' stands for   *)
(* confirmed, confirmed_at, conf_block, conf_height and expires_at, and is *)
(* the block time or NULL; `closed' and `spent' are the transaction or     *)
(* NULL, `settled' the block or NULL, `locked' the flag and its date.  A   *)
(* signature is the content it was made over, so it verifies against       *)
(* deposit data when the content derived from them is the same.            *)
(***************************************************************************)
CONSTANT NULL

DepositStatus == {"registered", "open", "locked", "closed", "spent", "settled"}

DepositFields ==
  {"status", "conf", "locked", "covenant", "closed", "spent", "settled",
   "created_sig", "locked_sig", "closed_sig", "spent_sig", "settled_sig"}

-----------------------------------------------------------------------------
(* The states of a deposit: each sets the fields of the later ones back.    *)

INIT_CONF_STATE(d)   == [d EXCEPT !.conf = NULL]
INIT_CLOSE_STATE(d)  == [d EXCEPT !.closed = NULL, !.closed_sig = NULL]
INIT_LOCK_STATE_Null(d) == [d EXCEPT !.locked = NULL, !.locked_sig = NULL, !.covenant = NULL]
INIT_LOCK_STATE(d)   == [d EXCEPT !.locked = FALSE, !.locked_sig = NULL, !.covenant = NULL]
INIT_SPEND_STATE(d)  == [d EXCEPT !.spent = NULL, !.spent_sig = NULL]
INIT_SETTLE_STATE(d) == [d EXCEPT !.settled = NULL, !.settled_sig = NULL]

GET_REGISTER_STATE(d) ==
  [ INIT_SETTLE_STATE(INIT_SPEND_STATE(INIT_LOCK_STATE(
      INIT_CLOSE_STATE(INIT_CONF_STATE(d)))))
    EXCEPT !.created_sig = NULL, !.status = "registered" ]

GET_LOCKED_STATE_KeepsConf(d) ==
  [ INIT_SETTLE_STATE(INIT_SPEND_STATE(d))
    EXCEPT !.locked_sig = NULL, !.status = "locked" ]
GET_LOCKED_STATE(d) ==
  [ INIT_SETTLE_STATE(INIT_SPEND_STATE(INIT_CONF_STATE(d)))
    EXCEPT !.locked_sig = NULL, !.status = "locked" ]

GET_CLOSED_STATE(d) ==
  [INIT_SETTLE_STATE(d) EXCEPT !.closed_sig = NULL, !.status = "closed"]

GET_SPEND_STATE(d) ==
  [INIT_SETTLE_STATE(d) EXCEPT !.spent_sig = NULL, !.status = "spent"]

GET_SETTLE_STATE(d) == [d EXCEPT !.settled_sig = NULL, !.status = "settled"]

\* What a signature for a status is made over.
get_deposit_state(d, status) ==
  CASE status = "registered" -> GET_REGISTER_STATE(d)
    [] status = "locked"     -> GET_LOCKED_STATE(d)
    [] status = "closed"     -> GET_CLOSED_STATE(d)
    [] status = "spent"      -> GET_SPEND_STATE(d)
    [] status = "settled"    -> GET_SETTLE_STATE(d)

\* The digest of the signature is that of the data as they are now.
verify_deposit_sig(d, status, sig) == sig = get_deposit_state(d, status)

verify_deposit_sigs(d) ==
  /\ verify_deposit_sig(d, "registered", d.created_sig)
  /\ d.locked          => verify_deposit_sig(d, "locked", d.locked_sig)
  /\ d.closed  # NULL  => verify_deposit_sig(d, "closed", d.closed_sig)
  /\ d.spent   # NULL  => verify_deposit_sig(d, "spent", d.spent_sig)
  /\ d.settled # NULL  => verify_deposit_sig(d, "settled", d.settled_sig)

-----------------------------------------------------------------------------
(* The operations: what they assert of the deposit, and what they return.   *)

Notarized(d, status) == get_deposit_state([d EXCEPT !.status = status], status)

Blank ==
  [ status |-> "registered", conf |-> NULL, locked |-> FALSE, covenant |-> NULL,
    closed |-> NULL, spent |-> NULL, settled |-> NULL,
    created_sig |-> NULL, locked_sig |-> NULL, closed_sig |-> NULL,
    spent_sig |-> NULL, settled_sig |-> NULL ]

\* The fields of the request come after the initial state, so that a request
\* with a covenant leaves its covenant in a deposit that is not locked.
create_deposit(covenant) ==
  LET d == [Blank EXCEPT !.covenant = covenant] IN
  [d EXCEPT !.created_sig = Notarized(d, "registered")]

MayConfirm(d) == d.conf = NULL
confirm_deposit(d, time) ==
  [d EXCEPT !.conf = time, !.status = IF d.locked THEN "locked" ELSE "open"]

MayClose_Locked(d) == d.conf # NULL /\ d.closed = NULL /\ d.spent = NULL
MayClose(d) == d.conf # NULL /\ ~d.locked /\ d.closed = NULL /\ d.spent = NULL
close_deposit(d, tx) ==
  LET u == [d EXCEPT !.closed = tx, !.status = "closed"] IN
  [u EXCEPT !.closed_sig = Notarized(u, "closed")]

MayLock(d) == ~d.locked /\ d.closed = NULL /\ d.spent = NULL
lock_deposit_NoFlag(d, covenant) == [d EXCEPT !.covenant = covenant, !.status = "locked"]
lock_deposit(d, covenant) ==
  LET u == [d EXCEPT !.locked = TRUE, !.covenant = covenant, !.status = "locked"] IN
  [u EXCEPT !.locked_sig = Notarized(u, "locked")]

MayRelease_Confirmed(d) ==
  d.conf # NULL /\ d.locked /\ d.closed = NULL /\ d.spent = NULL
MayRelease_Spent(d) == d.locked /\ d.closed = NULL
MayRelease(d) == d.locked /\ d.closed = NULL /\ d.spent = NULL
release_deposit_KeepsStatus(d) == INIT_LOCK_STATE(d)
release_deposit(d) ==
  [INIT_LOCK_STATE(d) EXCEPT
     !.status = IF d.conf # NULL THEN "open" ELSE "registered"]

MaySpend_Unlocked(d) == d.conf # NULL /\ ~d.locked /\ d.spent = NULL
MaySpend(d) == d.conf # NULL /\ d.spent = NULL
spend_deposit(d, tx) ==
  LET u == [d EXCEPT !.spent = tx, !.status = "spent"] IN
  [u EXCEPT !.spent_sig = Notarized(u, "spent")]

MaySettle(d) == d.conf # NULL /\ (d.spent # NULL \/ d.closed # NULL)
settle_deposit(d, block) ==
  LET u == [d EXCEPT !.settled = block, !.status = "settled"] IN
  [u EXCEPT !.settled_sig = Notarized(u, "settled")]
=============================================================================
