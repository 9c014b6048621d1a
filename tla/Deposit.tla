------------------------------- MODULE Deposit -------------------------------
(***************************************************************************)
(* One deposit under every sequence of calls that the assertions of the    *)
(* operations let through.  The server decides what to call and when, and  *)
(* a member checks the signatures of what is published.                    *)
(***************************************************************************)
EXTENDS DepositData

CONSTANTS
  Covenants,    \* the covenants that reach the deposit
  Times,        \* the times of the blocks that can confirm the deposit
  Txs,          \* transactions that spend it
  Blocks        \* the blocks that can confirm one of those

ASSUME NullAssumption == NULL \notin Covenants \cup Times \cup Txs \cup Blocks

VARIABLE dp     \* the deposit data

Init == \E covenant \in Covenants \cup {NULL} : dp = create_deposit(covenant)

Confirm == MayConfirm(dp) /\ \E t \in Times : dp' = confirm_deposit(dp, t)
Close   == MayClose(dp)   /\ \E tx \in Txs : dp' = close_deposit(dp, tx)
Lock    == MayLock(dp)    /\ \E c \in Covenants : dp' = lock_deposit(dp, c)
Release == MayRelease(dp) /\ dp' = release_deposit(dp)
Spend   == MaySpend(dp)   /\ \E tx \in Txs : dp' = spend_deposit(dp, tx)
Settle  == MaySettle(dp)  /\ \E b \in Blocks : dp' = settle_deposit(dp, b)

Next == Confirm \/ Close \/ Lock \/ Release \/ Spend \/ Settle

Spec == Init /\ [][Next]_dp

-----------------------------------------------------------------------------

\* The data have their fields, and the fields their types.
TypeOK ==
  /\ DOMAIN dp = DepositFields
  /\ dp.status \in DepositStatus
  /\ dp.conf \in Times \cup {NULL} /\ dp.locked \in BOOLEAN
  /\ dp.covenant \in Covenants \cup {NULL}
  /\ dp.closed \in Txs \cup {NULL} /\ dp.spent \in Txs \cup {NULL}
  /\ dp.settled \in Blocks \cup {NULL}

TwoExits == dp.closed # NULL /\ dp.spent # NULL

\* Every signature the agent has put on a deposit goes on verifying, whatever
\* comes after it, as long as the deposit is not both closed and spent
\* (state.ts:88-120, validation/deposit.ts:95-104): each status covers what can
\* no longer change and resets what still can.
SigsVerify == ~TwoExits => verify_deposit_sigs(dp)

\* A locked deposit is never closed, nor a closed one locked (data.ts:90,109).
LockExcludesClose == dp.locked => dp.closed = NULL /\ dp.covenant # NULL

\* The status of a deposit with one exit tells its flags (docs/data/deposit.md).
StatusAgrees ==
  ~TwoExits =>
    LET over == dp.spent # NULL \/ dp.closed # NULL IN
    /\ dp.status = "settled" <=> dp.settled # NULL
    /\ dp.status = "spent"   <=> dp.settled = NULL /\ dp.spent # NULL
    /\ dp.status = "closed"  <=> dp.settled = NULL /\ dp.closed # NULL
    /\ dp.status = "locked"  <=> ~over /\ dp.locked
    /\ dp.status = "open"    <=> ~over /\ ~dp.locked /\ dp.conf # NULL

\* What a deposit was spent with stays: its transaction, and the covenant and
\* the lock that the transaction was signed under (data.ts:110,125).
SpentForGood ==
  [][dp.spent # NULL => /\ dp'.spent = dp.spent /\ dp'.covenant = dp.covenant
                        /\ dp'.locked = dp.locked]_dp
=============================================================================
