------------------------- MODULE DepositDataProofs -------------------------
(***************************************************************************)
(* Lemmas about DepositData: what a signature of each status covers, what  *)
(* each operation changes, and when two versions of a deposit give a       *)
(* signature the same content.                                             *)
(***************************************************************************)
EXTENDS DepositData, TLAPS

\* A deposit is the record of its fields.
IsDeposit(d) ==
  d \in [ status : {d.status}, conf : {d.conf}, locked : {d.locked},
          covenant : {d.covenant}, closed : {d.closed},
          spent : {d.spent}, settled : {d.settled},
          created_sig : {d.created_sig}, locked_sig : {d.locked_sig},
          closed_sig : {d.closed_sig}, spent_sig : {d.spent_sig},
          settled_sig : {d.settled_sig} ]

-----------------------------------------------------------------------------
(* What a signature of each status covers, and what each operation changes. *)

\* The content of a signature: what the status resets, and all the rest.
LEMMA Contents ==
  ASSUME NEW d, IsDeposit(d)
  PROVE
    /\ get_deposit_state(d, "registered") =
         [ status |-> "registered", conf |-> NULL, locked |-> FALSE,
           covenant |-> NULL, closed |-> NULL, spent |-> NULL,
           settled |-> NULL, created_sig |-> NULL, locked_sig |-> NULL,
           closed_sig |-> NULL, spent_sig |-> NULL, settled_sig |-> NULL ]
    /\ get_deposit_state(d, "locked") =
         [ status |-> "locked", conf |-> NULL, locked |-> d.locked,
           covenant |-> d.covenant, closed |-> d.closed, spent |-> NULL,
           settled |-> NULL, created_sig |-> d.created_sig,
           locked_sig |-> NULL, closed_sig |-> d.closed_sig,
           spent_sig |-> NULL, settled_sig |-> NULL ]
    /\ get_deposit_state(d, "closed") =
         [ status |-> "closed", conf |-> d.conf, locked |-> d.locked,
           covenant |-> d.covenant, closed |-> d.closed, spent |-> d.spent,
           settled |-> NULL, created_sig |-> d.created_sig,
           locked_sig |-> d.locked_sig, closed_sig |-> NULL,
           spent_sig |-> d.spent_sig, settled_sig |-> NULL ]
    /\ get_deposit_state(d, "spent") =
         [ status |-> "spent", conf |-> d.conf, locked |-> d.locked,
           covenant |-> d.covenant, closed |-> d.closed, spent |-> d.spent,
           settled |-> NULL, created_sig |-> d.created_sig,
           locked_sig |-> d.locked_sig, closed_sig |-> d.closed_sig,
           spent_sig |-> NULL, settled_sig |-> NULL ]
    /\ get_deposit_state(d, "settled") =
         [ status |-> "settled", conf |-> d.conf, locked |-> d.locked,
           covenant |-> d.covenant, closed |-> d.closed, spent |-> d.spent,
           settled |-> d.settled, created_sig |-> d.created_sig,
           locked_sig |-> d.locked_sig, closed_sig |-> d.closed_sig,
           spent_sig |-> d.spent_sig, settled_sig |-> NULL ]
BY DEF IsDeposit, get_deposit_state, GET_REGISTER_STATE, GET_LOCKED_STATE,
       GET_CLOSED_STATE, GET_SPEND_STATE, GET_SETTLE_STATE, INIT_CONF_STATE,
       INIT_CLOSE_STATE, INIT_LOCK_STATE, INIT_SPEND_STATE, INIT_SETTLE_STATE

\* confirm_deposit (data.ts) changes its fields only.
LEMMA ConfirmChanges ==
  ASSUME NEW d, IsDeposit(d), NEW t
  PROVE  LET e == confirm_deposit(d, t) IN
         /\ IsDeposit(e)
         /\ e.conf = t
         /\ e.status = IF d.locked THEN "locked" ELSE "open"
         /\ e.locked = d.locked /\ e.covenant = d.covenant
         /\ e.closed = d.closed /\ e.spent = d.spent /\ e.settled = d.settled
         /\ e.created_sig = d.created_sig /\ e.locked_sig = d.locked_sig
         /\ e.closed_sig = d.closed_sig /\ e.spent_sig = d.spent_sig
         /\ e.settled_sig = d.settled_sig
BY DEF IsDeposit, confirm_deposit

\* close_deposit (data.ts) changes its fields only, and signs what they are then.
LEMMA CloseChanges ==
  ASSUME NEW d, IsDeposit(d), NEW tx
  PROVE  LET e == close_deposit(d, tx) IN
         /\ IsDeposit(e)
         /\ e.closed = tx
         /\ e.status = "closed"
         /\ e.closed_sig = get_deposit_state(e, "closed")
         /\ e.conf = d.conf /\ e.locked = d.locked /\ e.covenant = d.covenant
         /\ e.spent = d.spent /\ e.settled = d.settled
         /\ e.created_sig = d.created_sig /\ e.locked_sig = d.locked_sig
         /\ e.spent_sig = d.spent_sig /\ e.settled_sig = d.settled_sig
<1> DEFINE u == [d EXCEPT !.closed = tx, !.status = "closed"]
           v == [u EXCEPT !.status = "closed"]
           e == close_deposit(d, tx)
<1>1. IsDeposit(u) /\ IsDeposit(v)
  BY DEF IsDeposit
<1>2. e = [u EXCEPT !.closed_sig = get_deposit_state(v, "closed")]
  BY DEF close_deposit, Notarized
<1>3. IsDeposit(e)
  BY <1>1, <1>2 DEF IsDeposit
<1>4. /\ e.conf = v.conf /\ e.locked = v.locked /\ e.covenant = v.covenant
      /\ e.closed = v.closed /\ e.spent = v.spent /\ e.settled = v.settled
      /\ e.created_sig = v.created_sig /\ e.locked_sig = v.locked_sig
      /\ e.spent_sig = v.spent_sig /\ e.settled_sig = v.settled_sig
  BY <1>1, <1>2 DEF IsDeposit
<1>5. get_deposit_state(e, "closed") = get_deposit_state(v, "closed")
  <2> HIDE DEF e, v
  <2> QED
    BY <1>1, <1>3, <1>4, Contents
<1> QED
  BY <1>1, <1>2, <1>3, <1>5 DEF IsDeposit

\* lock_deposit (data.ts) changes its fields only, and signs what they are then.
LEMMA LockChanges ==
  ASSUME NEW d, IsDeposit(d), NEW c
  PROVE  LET e == lock_deposit(d, c) IN
         /\ IsDeposit(e)
         /\ e.locked
         /\ e.locked \in BOOLEAN
         /\ e.covenant = c
         /\ e.status = "locked"
         /\ e.locked_sig = get_deposit_state(e, "locked")
         /\ e.conf = d.conf /\ e.closed = d.closed /\ e.spent = d.spent
         /\ e.settled = d.settled /\ e.created_sig = d.created_sig
         /\ e.closed_sig = d.closed_sig /\ e.spent_sig = d.spent_sig
         /\ e.settled_sig = d.settled_sig
<1> DEFINE u == [d EXCEPT !.locked = TRUE, !.covenant = c, !.status = "locked"]
           v == [u EXCEPT !.status = "locked"]
           e == lock_deposit(d, c)
<1>1. IsDeposit(u) /\ IsDeposit(v)
  BY DEF IsDeposit
<1>2. e = [u EXCEPT !.locked_sig = get_deposit_state(v, "locked")]
  BY DEF lock_deposit, Notarized
<1>3. IsDeposit(e)
  BY <1>1, <1>2 DEF IsDeposit
<1>4. /\ e.conf = v.conf /\ e.locked = v.locked /\ e.covenant = v.covenant
      /\ e.closed = v.closed /\ e.spent = v.spent /\ e.settled = v.settled
      /\ e.created_sig = v.created_sig /\ e.closed_sig = v.closed_sig
      /\ e.spent_sig = v.spent_sig /\ e.settled_sig = v.settled_sig
  BY <1>1, <1>2 DEF IsDeposit
<1>5. get_deposit_state(e, "locked") = get_deposit_state(v, "locked")
  <2> HIDE DEF e, v
  <2> QED
    BY <1>1, <1>3, <1>4, Contents
<1>6. e.locked = TRUE
  BY <1>1, <1>2 DEF IsDeposit
<1> QED
  BY <1>1, <1>2, <1>3, <1>5, <1>6, ZenonT(40) DEF IsDeposit

\* release_deposit (data.ts) changes its fields only.
LEMMA ReleaseChanges ==
  ASSUME NEW d, IsDeposit(d)
  PROVE  LET e == release_deposit(d) IN
         /\ IsDeposit(e)
         /\ e.locked = FALSE
         /\ e.covenant = NULL
         /\ e.status = IF d.conf # NULL THEN "open" ELSE "registered"
         /\ e.conf = d.conf /\ e.closed = d.closed /\ e.spent = d.spent
         /\ e.settled = d.settled /\ e.created_sig = d.created_sig
         /\ e.closed_sig = d.closed_sig /\ e.spent_sig = d.spent_sig
         /\ e.settled_sig = d.settled_sig
BY DEF IsDeposit, release_deposit, INIT_LOCK_STATE

\* spend_deposit (data.ts) changes its fields only, and signs what they are then.
LEMMA SpendChanges ==
  ASSUME NEW d, IsDeposit(d), NEW tx
  PROVE  LET e == spend_deposit(d, tx) IN
         /\ IsDeposit(e)
         /\ e.spent = tx
         /\ e.status = "spent"
         /\ e.spent_sig = get_deposit_state(e, "spent")
         /\ e.conf = d.conf /\ e.locked = d.locked /\ e.covenant = d.covenant
         /\ e.closed = d.closed /\ e.settled = d.settled
         /\ e.created_sig = d.created_sig /\ e.locked_sig = d.locked_sig
         /\ e.closed_sig = d.closed_sig /\ e.settled_sig = d.settled_sig
<1> DEFINE u == [d EXCEPT !.spent = tx, !.status = "spent"]
           v == [u EXCEPT !.status = "spent"]
           e == spend_deposit(d, tx)
<1>1. IsDeposit(u) /\ IsDeposit(v)
  BY DEF IsDeposit
<1>2. e = [u EXCEPT !.spent_sig = get_deposit_state(v, "spent")]
  BY DEF spend_deposit, Notarized
<1>3. IsDeposit(e)
  BY <1>1, <1>2 DEF IsDeposit
<1>4. /\ e.conf = v.conf /\ e.locked = v.locked /\ e.covenant = v.covenant
      /\ e.closed = v.closed /\ e.spent = v.spent /\ e.settled = v.settled
      /\ e.created_sig = v.created_sig /\ e.locked_sig = v.locked_sig
      /\ e.closed_sig = v.closed_sig /\ e.settled_sig = v.settled_sig
  BY <1>1, <1>2 DEF IsDeposit
<1>5. get_deposit_state(e, "spent") = get_deposit_state(v, "spent")
  <2> HIDE DEF e, v
  <2> QED
    BY <1>1, <1>3, <1>4, Contents
<1> QED
  BY <1>1, <1>2, <1>3, <1>5 DEF IsDeposit

\* settle_deposit (data.ts) changes its fields only, and signs what they are then.
LEMMA SettleChanges ==
  ASSUME NEW d, IsDeposit(d), NEW b
  PROVE  LET e == settle_deposit(d, b) IN
         /\ IsDeposit(e)
         /\ e.settled = b
         /\ e.status = "settled"
         /\ e.settled_sig = get_deposit_state(e, "settled")
         /\ e.conf = d.conf /\ e.locked = d.locked /\ e.covenant = d.covenant
         /\ e.closed = d.closed /\ e.spent = d.spent
         /\ e.created_sig = d.created_sig /\ e.locked_sig = d.locked_sig
         /\ e.closed_sig = d.closed_sig /\ e.spent_sig = d.spent_sig
<1> DEFINE u == [d EXCEPT !.settled = b, !.status = "settled"]
           v == [u EXCEPT !.status = "settled"]
           e == settle_deposit(d, b)
<1>1. IsDeposit(u) /\ IsDeposit(v)
  BY DEF IsDeposit
<1>2. e = [u EXCEPT !.settled_sig = get_deposit_state(v, "settled")]
  BY DEF settle_deposit, Notarized
<1>3. IsDeposit(e)
  BY <1>1, <1>2 DEF IsDeposit
<1>4. /\ e.conf = v.conf /\ e.locked = v.locked /\ e.covenant = v.covenant
      /\ e.closed = v.closed /\ e.spent = v.spent /\ e.settled = v.settled
      /\ e.created_sig = v.created_sig /\ e.locked_sig = v.locked_sig
      /\ e.closed_sig = v.closed_sig /\ e.spent_sig = v.spent_sig
  BY <1>1, <1>2 DEF IsDeposit
<1>5. get_deposit_state(e, "settled") = get_deposit_state(v, "settled")
  <2> HIDE DEF e, v
  <2> QED
    BY <1>1, <1>3, <1>4, Contents
<1> QED
  BY <1>1, <1>2, <1>3, <1>5 DEF IsDeposit

\* Two versions of a deposit that agree on what a signature covers give it the
\* same content.
LEMMA SameContent ==
  ASSUME NEW d, IsDeposit(d), NEW e, IsDeposit(e)
  PROVE
    /\ get_deposit_state(d, "registered") = get_deposit_state(e, "registered")
    /\ /\ d.locked = e.locked /\ d.covenant = e.covenant /\ d.closed = e.closed
       /\ d.created_sig = e.created_sig /\ d.closed_sig = e.closed_sig
       => get_deposit_state(d, "locked") = get_deposit_state(e, "locked")
    /\ /\ d.conf = e.conf /\ d.locked = e.locked /\ d.covenant = e.covenant
       /\ d.closed = e.closed /\ d.spent = e.spent
       /\ d.created_sig = e.created_sig /\ d.locked_sig = e.locked_sig
       => /\ d.spent_sig = e.spent_sig
            => get_deposit_state(d, "closed") = get_deposit_state(e, "closed")
          /\ d.closed_sig = e.closed_sig
            => get_deposit_state(d, "spent") = get_deposit_state(e, "spent")
          /\ /\ d.settled = e.settled /\ d.closed_sig = e.closed_sig
             /\ d.spent_sig = e.spent_sig
            => get_deposit_state(d, "settled") = get_deposit_state(e, "settled")
<1>1. get_deposit_state(d, "registered") = get_deposit_state(e, "registered")
  BY Contents
<1>2. ASSUME d.locked = e.locked, d.covenant = e.covenant, d.closed = e.closed,
             d.created_sig = e.created_sig, d.closed_sig = e.closed_sig
      PROVE  get_deposit_state(d, "locked") = get_deposit_state(e, "locked")
  BY <1>2, Contents
<1>3. ASSUME d.conf = e.conf, d.locked = e.locked, d.covenant = e.covenant,
             d.closed = e.closed, d.spent = e.spent,
             d.created_sig = e.created_sig, d.locked_sig = e.locked_sig
      PROVE  /\ d.spent_sig = e.spent_sig
                => get_deposit_state(d, "closed") = get_deposit_state(e, "closed")
             /\ d.closed_sig = e.closed_sig
                => get_deposit_state(d, "spent") = get_deposit_state(e, "spent")
             /\ /\ d.settled = e.settled /\ d.closed_sig = e.closed_sig
                /\ d.spent_sig = e.spent_sig
                => get_deposit_state(d, "settled") = get_deposit_state(e, "settled")
  BY <1>3, Contents
<1> QED
  BY <1>1, <1>2, <1>3

\* create_deposit (data.ts) signs what the deposit is then.
LEMMA CreateChanges ==
  ASSUME NEW c
  PROVE  LET e == create_deposit(c) IN
         /\ IsDeposit(e)
         /\ e.status = "registered" /\ e.conf = NULL /\ e.covenant = c
         /\ e.locked = FALSE
         /\ e.closed = NULL /\ e.spent = NULL /\ e.settled = NULL
         /\ e.created_sig = get_deposit_state(e, "registered")
<1> DEFINE d == [Blank EXCEPT !.covenant = c]
           n == [d EXCEPT !.status = "registered"]
           e == create_deposit(c)
<1>1. IsDeposit(d) /\ IsDeposit(n)
  BY DEF Blank, IsDeposit
<1>2. e = [d EXCEPT !.created_sig = get_deposit_state(n, "registered")]
  BY DEF create_deposit, Notarized
<1>3. IsDeposit(e)
  BY <1>1, <1>2 DEF IsDeposit
<1>4. /\ e.status = "registered" /\ e.conf = NULL /\ e.covenant = c
      /\ e.closed = NULL /\ e.spent = NULL /\ e.settled = NULL
      /\ e.created_sig = get_deposit_state(n, "registered")
  BY <1>2 DEF Blank
<1>5. e.locked = FALSE
  BY <1>2 DEF Blank
<1>6. get_deposit_state(e, "registered") = get_deposit_state(n, "registered")
  <2> HIDE DEF e, n
  <2> QED
    BY <1>1, <1>3, SameContent
<1> QED
  BY <1>3, <1>4, <1>5, <1>6
=============================================================================
