---------------------------- MODULE DepositProofs ----------------------------
(***************************************************************************)
(* Proofs about Deposit: for every set of covenants, times, transactions   *)
(* and blocks the data stay well typed, the signatures on them go on       *)
(* verifying, and a locked deposit is not closed.                          *)
(***************************************************************************)
EXTENDS Deposit, DepositDataProofs

-----------------------------------------------------------------------------
(* The invariant.  Signatures alone are not inductive: that a settled       *)
(* deposit has had its exit, and an exit comes after the confirmation, is   *)
(* what keeps a confirmation or an exit from changing what they cover.      *)

Order ==
  /\ dp.spent # NULL \/ dp.closed # NULL => dp.conf # NULL
  /\ dp.settled # NULL => dp.spent # NULL \/ dp.closed # NULL

IInv == IsDeposit(dp) /\ TypeOK /\ LockExcludesClose /\ Order /\ SigsVerify

\* A new deposit is signed for what it is, with or without a covenant.
LEMMA InitInv == Init => IInv
<1> SUFFICES ASSUME NEW covenant \in Covenants \cup {NULL},
                    dp = create_deposit(covenant)
             PROVE  IInv
  BY DEF Init
<1>1. /\ IsDeposit(dp)
      /\ dp.status = "registered" /\ dp.conf = NULL /\ dp.covenant = covenant
      /\ dp.locked = FALSE
      /\ dp.closed = NULL /\ dp.spent = NULL /\ dp.settled = NULL
      /\ dp.created_sig = get_deposit_state(dp, "registered")
  BY CreateChanges
<1>2. DOMAIN dp = DepositFields
  BY <1>1 DEF IsDeposit, DepositFields
<1> QED
  BY <1>1, <1>2
  DEF IInv, TypeOK, DepositStatus, LockExcludesClose, Order, SigsVerify,
      verify_deposit_sigs, verify_deposit_sig

\* Each operation keeps the invariant.
LEMMA StepInv == IInv /\ [Next]_dp => IInv'
<1> SUFFICES ASSUME IInv, [Next]_dp
             PROVE  IInv'
  OBVIOUS
<1> USE NullAssumption
<1>0. IsDeposit(dp)
  BY DEF IInv
<1>1. CASE Confirm
  <2>1. PICK t \in Times : MayConfirm(dp) /\ dp' = confirm_deposit(dp, t)
    BY <1>1 DEF Confirm
  <2>2. IsDeposit(dp')
    BY <1>0, <2>1, ConfirmChanges
  <2>3. TypeOK' /\ LockExcludesClose' /\ Order'
    BY <1>0, <2>1, <2>2, ConfirmChanges
    DEF IInv, TypeOK, LockExcludesClose, Order, MayConfirm, IsDeposit, DepositFields,
        DepositStatus
  <2>4. SigsVerify'
    BY <1>0, <2>1, <2>2, ConfirmChanges, SameContent
    DEF IInv, TypeOK, LockExcludesClose, Order, SigsVerify, TwoExits,
        verify_deposit_sigs, verify_deposit_sig, MayConfirm
  <2> QED
    BY <2>2, <2>3, <2>4 DEF IInv
<1>2. CASE Close
  <2>1. PICK tx \in Txs : MayClose(dp) /\ dp' = close_deposit(dp, tx)
    BY <1>2 DEF Close
  <2>2. IsDeposit(dp')
    BY <1>0, <2>1, CloseChanges
  <2>3. TypeOK' /\ LockExcludesClose' /\ Order'
    BY <1>0, <2>1, <2>2, CloseChanges
    DEF IInv, TypeOK, LockExcludesClose, Order, MayClose, IsDeposit, DepositFields,
        DepositStatus
  <2>4. SigsVerify'
    BY <1>0, <2>1, <2>2, CloseChanges, SameContent
    DEF IInv, TypeOK, LockExcludesClose, Order, SigsVerify, TwoExits,
        verify_deposit_sigs, verify_deposit_sig, MayClose
  <2> QED
    BY <2>2, <2>3, <2>4 DEF IInv
<1>3. CASE Lock
  <2>1. PICK c \in Covenants : MayLock(dp) /\ dp' = lock_deposit(dp, c)
    BY <1>3 DEF Lock
  <2>2. /\ IsDeposit(dp')
        /\ dp'.locked /\ dp'.locked \in BOOLEAN
        /\ dp'.covenant = c /\ dp'.status = "locked"
        /\ dp'.locked_sig = get_deposit_state(dp', "locked")
        /\ dp'.conf = dp.conf /\ dp'.closed = dp.closed /\ dp'.spent = dp.spent
        /\ dp'.settled = dp.settled /\ dp'.created_sig = dp.created_sig
        /\ dp'.closed_sig = dp.closed_sig /\ dp'.spent_sig = dp.spent_sig
        /\ dp'.settled_sig = dp.settled_sig
    BY <1>0, <2>1, LockChanges
  <2>3. ~dp.locked /\ dp.closed = NULL /\ dp.spent = NULL /\ dp.settled = NULL
    BY <2>1 DEF MayLock, IInv, Order
  <2>4. TypeOK'
    <3>1. DOMAIN dp' = DepositFields
      BY <2>2 DEF IsDeposit, DepositFields
    <3> QED
      BY <3>1, <2>2 DEF IInv, TypeOK, DepositStatus
  <2>5. LockExcludesClose' /\ Order'
    BY <2>2, <2>3 DEF LockExcludesClose, Order
  <2>6. SigsVerify'
    BY <1>0, <2>2, <2>3, SameContent
    DEF IInv, SigsVerify, TwoExits, verify_deposit_sigs, verify_deposit_sig
  <2> QED
    BY <2>2, <2>4, <2>5, <2>6 DEF IInv
<1>4. CASE Release
  <2>1. MayRelease(dp) /\ dp' = release_deposit(dp)
    BY <1>4 DEF Release
  <2>2. IsDeposit(dp')
    BY <1>0, <2>1, ReleaseChanges
  <2>3. TypeOK' /\ LockExcludesClose' /\ Order'
    BY <1>0, <2>1, <2>2, ReleaseChanges, ZenonT(40)
    DEF IInv, TypeOK, LockExcludesClose, Order, MayRelease, IsDeposit, DepositFields,
        DepositStatus
  <2>4. SigsVerify'
    BY <1>0, <2>1, <2>2, ReleaseChanges, SameContent
    DEF IInv, TypeOK, LockExcludesClose, Order, SigsVerify, TwoExits,
        verify_deposit_sigs, verify_deposit_sig, MayRelease
  <2> QED
    BY <2>2, <2>3, <2>4 DEF IInv
<1>5. CASE Spend
  <2>1. PICK tx \in Txs : MaySpend(dp) /\ dp' = spend_deposit(dp, tx)
    BY <1>5 DEF Spend
  <2>2. IsDeposit(dp')
    BY <1>0, <2>1, SpendChanges
  <2>3. TypeOK' /\ LockExcludesClose' /\ Order'
    BY <1>0, <2>1, <2>2, SpendChanges
    DEF IInv, TypeOK, LockExcludesClose, Order, MaySpend, IsDeposit, DepositFields,
        DepositStatus
  <2>4. SigsVerify'
    BY <1>0, <2>1, <2>2, SpendChanges, SameContent
    DEF IInv, TypeOK, LockExcludesClose, Order, SigsVerify, TwoExits,
        verify_deposit_sigs, verify_deposit_sig, MaySpend
  <2> QED
    BY <2>2, <2>3, <2>4 DEF IInv
<1>6. CASE Settle
  <2>1. PICK b \in Blocks : MaySettle(dp) /\ dp' = settle_deposit(dp, b)
    BY <1>6 DEF Settle
  <2>2. IsDeposit(dp')
    BY <1>0, <2>1, SettleChanges
  <2>3. TypeOK' /\ LockExcludesClose' /\ Order'
    BY <1>0, <2>1, <2>2, SettleChanges
    DEF IInv, TypeOK, LockExcludesClose, Order, MaySettle, IsDeposit, DepositFields,
        DepositStatus
  <2>4. SigsVerify'
    BY <1>0, <2>1, <2>2, SettleChanges, SameContent
    DEF IInv, TypeOK, LockExcludesClose, Order, SigsVerify, TwoExits,
        verify_deposit_sigs, verify_deposit_sig, MaySettle
  <2> QED
    BY <2>2, <2>3, <2>4 DEF IInv
<1>7. CASE UNCHANGED dp
  BY <1>7 DEF IInv, TypeOK, LockExcludesClose, Order, SigsVerify, TwoExits
<1> QED
  BY <1>1, <1>2, <1>3, <1>4, <1>5, <1>6, <1>7 DEF Next

\* The invariant holds in every reachable state.
THEOREM Invariance == Spec => []IInv
<1>1. Init => IInv
  BY InitInv
<1>2. IInv /\ [Next]_dp => IInv'
  BY StepInv
<1> QED
  BY <1>1, <1>2, PTL DEF Spec

\* Whatever calls are made of a deposit, its data keep their types (schema/deposit.ts).
THEOREM DepositTypeCorrect == Spec => []TypeOK
<1>1. IInv => TypeOK
  BY DEF IInv
<1> QED
  BY <1>1, Invariance, PTL

\* Whatever calls are made of a deposit, every signature on it goes on verifying,
\* unless it is both closed and spent (validation/deposit.ts:95-104).
THEOREM DepositSigsVerify == Spec => []SigsVerify
<1>1. IInv => SigsVerify
  BY DEF IInv
<1> QED
  BY <1>1, Invariance, PTL

\* No order of calls closes a locked deposit or locks a closed one (data.ts:90,109).
THEOREM LockedIsNotClosed == Spec => []LockExcludesClose
<1>1. IInv => LockExcludesClose
  BY DEF IInv
<1> QED
  BY <1>1, Invariance, PTL

\* What a deposit was spent with, and under which covenant, no later call changes
\* (data.ts:110,125,140).
THEOREM SpentStays == Spec => SpentForGood
<1> DEFINE Stays == dp.spent # NULL => /\ dp'.spent = dp.spent
                                       /\ dp'.covenant = dp.covenant
                                       /\ dp'.locked = dp.locked
<1>1. IInv /\ [Next]_dp => [Stays]_dp
  <2> SUFFICES ASSUME IInv, Next, dp.spent # NULL
               PROVE  Stays
    OBVIOUS
  <2>0. IsDeposit(dp) /\ dp.conf # NULL
    BY DEF IInv, Order
  <2>1. CASE Settle
    BY <2>0, <2>1, SettleChanges DEF Settle
  <2>2. CASE Confirm \/ Close \/ Lock \/ Release \/ Spend
    BY <2>0, <2>2 DEF Confirm, Close, Lock, Release, Spend, MayConfirm, MayClose,
                      MayLock, MayRelease, MaySpend
  <2> QED
    BY <2>1, <2>2 DEF Next
<1> QED
  BY <1>1, Invariance, PTL DEF Spec, SpentForGood

-----------------------------------------------------------------------------
(* The status.  An exit is never taken back, so a deposit with one exit has *)
(* never had two, and the status of each step follows from the one before.  *)

\* Each operation leaves the status that its flags tell.
LEMMA StatusStep == IInv /\ StatusAgrees /\ [Next]_dp => StatusAgrees'
<1> SUFFICES ASSUME IInv, StatusAgrees, [Next]_dp, ~TwoExits'
             PROVE  LET over == dp'.spent # NULL \/ dp'.closed # NULL IN
                    /\ dp'.status = "settled" <=> dp'.settled # NULL
                    /\ dp'.status = "spent"
                         <=> dp'.settled = NULL /\ dp'.spent # NULL
                    /\ dp'.status = "closed"
                         <=> dp'.settled = NULL /\ dp'.closed # NULL
                    /\ dp'.status = "locked" <=> ~over /\ dp'.locked
                    /\ dp'.status = "open"
                         <=> ~over /\ ~dp'.locked /\ dp'.conf # NULL
  BY DEF StatusAgrees, TwoExits
<1> USE NullAssumption
<1>0. IsDeposit(dp) /\ TypeOK /\ Order
  BY DEF IInv
<1>1. CASE Confirm
  <2>1. PICK t \in Times : MayConfirm(dp) /\ dp' = confirm_deposit(dp, t)
    BY <1>1 DEF Confirm
  <2>2. dp.spent = NULL /\ dp.closed = NULL /\ dp.settled = NULL
    BY <1>0, <2>1 DEF MayConfirm, Order
  <2> QED
    BY <1>0, <2>1, <2>2, ConfirmChanges DEF TypeOK
<1>2. CASE Close
  <2>1. PICK tx \in Txs : MayClose(dp) /\ dp' = close_deposit(dp, tx)
    BY <1>2 DEF Close
  <2>2. ~dp.locked /\ dp.closed = NULL /\ dp.spent = NULL /\ dp.settled = NULL
    BY <1>0, <2>1 DEF MayClose, Order
  <2> QED
    BY <1>0, <2>1, <2>2, CloseChanges DEF TypeOK
<1>3. CASE Lock
  <2>1. PICK c \in Covenants : MayLock(dp) /\ dp' = lock_deposit(dp, c)
    BY <1>3 DEF Lock
  <2>2. dp.closed = NULL /\ dp.spent = NULL /\ dp.settled = NULL
    BY <1>0, <2>1 DEF MayLock, Order
  <2> QED
    BY <1>0, <2>1, <2>2, LockChanges DEF TypeOK
<1>4. CASE Release
  <2>1. MayRelease(dp) /\ dp' = release_deposit(dp)
    BY <1>4 DEF Release
  <2>2. dp.closed = NULL /\ dp.spent = NULL /\ dp.settled = NULL
    BY <1>0, <2>1 DEF MayRelease, Order
  <2> QED
    BY <1>0, <2>1, <2>2, ReleaseChanges DEF TypeOK
<1>5. CASE Spend
  <2>1. PICK tx \in Txs : MaySpend(dp) /\ dp' = spend_deposit(dp, tx)
    BY <1>5 DEF Spend
  <2>2. dp'.spent # NULL /\ dp'.closed = dp.closed
    BY <1>0, <2>1, SpendChanges
  <2>3. dp.closed = NULL /\ dp.spent = NULL /\ dp.settled = NULL
    BY <1>0, <2>1, <2>2 DEF MaySpend, Order, TwoExits
  <2> QED
    BY <1>0, <2>1, <2>2, <2>3, SpendChanges DEF TypeOK
<1>6. CASE Settle
  <2>1. PICK b \in Blocks : MaySettle(dp) /\ dp' = settle_deposit(dp, b)
    BY <1>6 DEF Settle
  <2>2. dp.spent # NULL \/ dp.closed # NULL
    BY <2>1 DEF MaySettle
  <2> QED
    BY <1>0, <2>1, <2>2, SettleChanges
<1>7. CASE UNCHANGED dp
  BY <1>7 DEF StatusAgrees, TwoExits
<1> QED
  BY <1>1, <1>2, <1>3, <1>4, <1>5, <1>6, <1>7 DEF Next

\* Whatever calls are made of a deposit, its status tells which of them were
\* made, unless it is both closed and spent (data.ts:63-165).
THEOREM DepositStatusAgrees == Spec => []StatusAgrees
<1>1. Init => StatusAgrees
  <2> SUFFICES ASSUME NEW covenant \in Covenants \cup {NULL},
                      dp = create_deposit(covenant)
               PROVE  StatusAgrees
    BY DEF Init
  <2>1. /\ dp.status = "registered" /\ dp.conf = NULL /\ dp.locked = FALSE
        /\ dp.closed = NULL /\ dp.spent = NULL /\ dp.settled = NULL
    BY DEF create_deposit, Blank
  <2> QED
    BY <2>1 DEF StatusAgrees
<1> QED
  BY <1>1, StatusStep, Invariance, PTL DEF Spec
=============================================================================
