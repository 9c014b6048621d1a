------------------------------- MODULE Escrow -------------------------------
(***************************************************************************)
(* Contracts and the deposits that fund them, as a server keeps them.  The *)
(* operations are those of ContractData and DepositData, the requests are  *)
(* verified by src/core/validation.  The server itself is not in the       *)
(* repository: it makes its calls in the order of the end-to-end test,     *)
(* test/src/e2e/settle.test.ts, for several contracts at a time, stores    *)
(* the result of one call at a time, and keeps the counts of a contract    *)
(* with the calls made for that.  A machine is reduced to how it ends.     *)
(***************************************************************************)
EXTENDS Integers, FiniteSetsExt, DepositData

CONSTANTS
  Contracts,
  Deposits,
  Outputs,      \* the paths a machine can end on
  Value,        \* the value of the output that a deposit stands for
  Subtotal, BaseFee, VinFee,
  CommitLocks   \* whether the server locks a deposit made by a commit request

ASSUME ValueAssumption == Value \in [Deposits -> Nat]
ASSUME FeesAssumption == {Subtotal, BaseFee, VinFee} \subseteq Nat
ASSUME CommitAssumption == CommitLocks \in BOOLEAN
ASSUME NullAssumption ==
  /\ NULL \notin Contracts /\ NULL \notin Outputs /\ NULL \notin {"mined", "none"}
  /\ NULL \notin [cid : Contracts \cup {NULL}, vin : SUBSET Deposits]

VARIABLES
  ct,           \* the data of each contract
  dp,           \* the data of each deposit that is registered
  vm            \* the machine of each contract that is activated

vars == <<ct, dp, vm>>

CD == INSTANCE ContractData

\* A store with the data of one more.
Stored(store, id, data) ==
  [i \in DOMAIN store \cup {id} |-> IF i = id THEN data ELSE store[i]]

\* The deposits that have a covenant with a contract, and what some are worth.
Funds(c) == {d \in DOMAIN dp : dp[d].covenant = c}
Worth(S) == MapThenSumSet(LAMBDA d : Value[d], S)

Released(c) == ct[c].canceled \/ (ct[c].closed /\ ct[c].machine_vout = NULL)

-----------------------------------------------------------------------------
(* What is verified of a request.                                           *)

verify_covenant_data(c) == ~ct[c].activated /\ ct[c].status = "published"

verify_lock_req(c, d) ==
  /\ dp[d].conf # NULL /\ ~dp[d].locked /\ dp[d].closed = NULL /\ dp[d].spent = NULL
  /\ verify_covenant_data(c)

verify_close_req(d) == dp[d].covenant = NULL

-----------------------------------------------------------------------------
(* Funding.                                                                 *)

Init ==
  /\ ct = [c \in Contracts |-> CD!create_contract(c)]
  /\ dp = << >>
  /\ vm = << >>

Register(d) ==
  /\ d \notin DOMAIN dp
  /\ dp' = Stored(dp, d, create_deposit(NULL))
  /\ UNCHANGED <<ct, vm>>

Commit(d, c) ==
  /\ d \notin DOMAIN dp
  /\ verify_covenant_data(c)
  /\ LET new == create_deposit(c) IN
     dp' = Stored(dp, d, IF CommitLocks THEN lock_deposit(new, c) ELSE new)
  /\ ct' = [ct EXCEPT ![c] = CD!add_contract_funds(@, FALSE, Value[d])]
  /\ UNCHANGED vm

\* The transaction of a deposit is mined, in a block of some time.
Confirm(d) ==
  /\ d \in DOMAIN dp
  /\ MayConfirm(dp[d])
  /\ dp' = [dp EXCEPT ![d] = confirm_deposit(@, "mined")]
  /\ ct' = [c \in Contracts |->
              IF dp[d].covenant = c THEN CD!confirm_contract_funds(ct[c], Value[d])
              ELSE ct[c]]
  /\ UNCHANGED vm

Lock(d, c) ==
  /\ d \in DOMAIN dp
  /\ verify_lock_req(c, d)
  /\ MayLock(dp[d])
  /\ dp' = [dp EXCEPT ![d] = lock_deposit(@, c)]
  /\ ct' = [ct EXCEPT ![c] = CD!add_contract_funds(@, TRUE, Value[d])]
  /\ UNCHANGED vm

ReleaseFrom(d, c) ==
  /\ MayRelease(dp[d])
  /\ dp' = [dp EXCEPT ![d] = release_deposit(@)]
  /\ ct' = IF ct[c].closed THEN ct
           ELSE [ct EXCEPT ![c] =
                   CD!rem_contract_funds(@, dp[d].conf # NULL, Value[d])]
  /\ UNCHANGED vm

\* The owner takes a deposit back from a contract that waits for its funds.
Withdraw(d, c) == d \in Funds(c) /\ ct[c].status = "published" /\ ReleaseFrom(d, c)

\* A contract without outcome lets its deposits go.
Free(d, c) == d \in Funds(c) /\ Released(c) /\ ReleaseFrom(d, c)

\* A deposit without covenant is returned to its owner.
Return(d) ==
  /\ d \in DOMAIN dp
  /\ verify_close_req(d)
  /\ MayClose(dp[d])
  /\ dp' = [dp EXCEPT ![d] = close_deposit(@, [cid |-> NULL, vin |-> {d}])]
  /\ UNCHANGED <<ct, vm>>

-----------------------------------------------------------------------------
(* The contract and its machine.                                            *)

\* "Cancel a contract that is not active."
Cancel(c) ==
  /\ ~ct[c].canceled /\ ~ct[c].activated
  /\ ct' = [ct EXCEPT ![c] = CD!cancel_contract(@)]
  /\ UNCHANGED <<dp, vm>>

Secure(c) ==
  /\ ct[c].status = "published"
  /\ \A d \in Funds(c) : dp[d].conf # NULL
  /\ CD!MaySecure(ct[c], Cardinality(Funds(c)), Worth(Funds(c)))
  /\ ct' = [ct EXCEPT ![c] =
              CD!secure_contract(@, Cardinality(Funds(c)), Worth(Funds(c)))]
  /\ UNCHANGED <<dp, vm>>

Activate(c) ==
  /\ ct[c].status = "secured"
  /\ ct' = [ct EXCEPT ![c] = CD!activate_contract(@)]
  /\ vm' = Stored(vm, c, [closed |-> FALSE, head |-> c, output |-> NULL])
  /\ UNCHANGED dp

\* A machine closes, with an output or without; one that closed without may
\* still come to have one (ClosedIsFinal of CVM).
MachineEnds(c) ==
  /\ c \in DOMAIN vm
  /\ vm[c].output = NULL
  /\ \E out \in Outputs \cup {NULL} :
       vm' = [vm EXCEPT ![c] = [closed |-> TRUE, head |-> <<c, out>>, output |-> out]]
  /\ UNCHANGED <<ct, dp>>

Close(c) ==
  /\ ~ct[c].closed /\ c \in DOMAIN vm
  /\ CD!MayClose(ct[c], vm[c])
  /\ ct' = [ct EXCEPT ![c] = CD!close_contract(@, vm[c])]
  /\ UNCHANGED <<dp, vm>>

-----------------------------------------------------------------------------
(* Spending: the transaction is made and published, then the contract and   *)
(* each of its deposits are brought up to date.                             *)

MaySettleTx_Closed(c) == ct[c].closed /\ \A d \in Funds(c) : dp[d].covenant # NULL
MaySettleTx(c) ==
  /\ ct[c].closed /\ ct[c].machine_vout # NULL
  /\ \A d \in Funds(c) : dp[d].covenant # NULL

get_settlement_tx(c) == [cid |-> c, vin |-> Funds(c)]

SpendContract(c) ==
  /\ ct[c].spent = NULL
  /\ MaySettleTx(c)
  /\ ct' = [ct EXCEPT ![c] = CD!spend_contract(@, get_settlement_tx(c))]
  /\ UNCHANGED <<dp, vm>>

SpendDeposit(d, c) ==
  /\ ct[c].spent # NULL
  /\ d \in ct[c].spent.vin
  /\ MaySpend(dp[d])
  /\ dp' = [dp EXCEPT ![d] = spend_deposit(@, ct[c].spent)]
  /\ UNCHANGED <<ct, vm>>

\* The transaction is mined, or there is none.
SettleContract(c) ==
  /\ ct[c].settled = NULL
  /\ \/ /\ ct[c].spent # NULL
        /\ ct' = [ct EXCEPT ![c] = CD!settle_contract(@, "mined")]
     \/ /\ ct[c].closed /\ Released(c) /\ Funds(c) = {}
        /\ ct' = [ct EXCEPT ![c] = CD!settle_contract(@, "none")]
  /\ UNCHANGED <<dp, vm>>

SettleDeposit(d) ==
  /\ d \in DOMAIN dp
  /\ MaySettle(dp[d]) /\ dp[d].settled = NULL
  /\ dp' = [dp EXCEPT ![d] = settle_deposit(@, "mined")]
  /\ UNCHANGED <<ct, vm>>

-----------------------------------------------------------------------------
(* What a client makes of a contract, its funds and its machine.            *)

tabulate_funds(c) ==
  LET conf == {d \in Funds(c) : dp[d].conf # NULL}
      fees == BaseFee + VinFee * Cardinality(conf)
  IN [ vin_count |-> Cardinality(conf), fund_value |-> Worth(conf),
       tx_fees   |-> fees, tx_total |-> Subtotal + fees ]

\* The contract counts what is pending too, the table does not.
verify_contract_funding(c) ==
  LET tab == tabulate_funds(c) IN
  /\ ct[c].vin_count = tab.vin_count
  /\ ct[c].funds_pend + ct[c].funds_conf = tab.fund_value
  /\ ct[c].tx_fees = tab.tx_fees /\ ct[c].tx_total = tab.tx_total

verify_contract_activation(c) == ~ct[c].canceled /\ ct[c].activated

verify_contract_close(c) ==
  /\ vm[c].closed /\ ct[c].closed
  /\ ct[c].head = vm[c].head /\ ct[c].machine_vout = vm[c].output

\* The transaction is made again, of the funds there are now.
verify_contract_spending(c) ==
  /\ ct[c].closed /\ ct[c].spent # NULL /\ ct[c].machine_vout \in Outputs
  /\ ct[c].spent = get_settlement_tx(c)

\* The machine's statements are Replay's.
verify_contract_settlement(c) ==
  /\ verify_contract_funding(c) /\ verify_contract_activation(c)
  /\ verify_contract_close(c) /\ verify_contract_spending(c)

-----------------------------------------------------------------------------

ContractStep(c) ==
  \/ Cancel(c) \/ Secure(c) \/ Activate(c) \/ MachineEnds(c) \/ Close(c)
  \/ SpendContract(c) \/ SettleContract(c)

DepositStep(d) == Register(d) \/ Confirm(d) \/ Return(d) \/ SettleDeposit(d)

FundingStep(d, c) ==
  \/ Commit(d, c) \/ Lock(d, c) \/ Withdraw(d, c) \/ Free(d, c) \/ SpendDeposit(d, c)

Next ==
  \/ \E c \in Contracts : ContractStep(c)
  \/ \E d \in Deposits : DepositStep(d)
  \/ \E c \in Contracts, d \in Deposits : FundingStep(d, c)

\* What the server owes to those who hold its signatures: it lets deposits go,
\* and once it has closed a contract it carries the settlement through.
Fairness ==
  \A c \in Contracts :
    /\ WF_vars(SpendContract(c)) /\ WF_vars(SettleContract(c))
    /\ \A d \in Deposits :
         WF_vars(Free(d, c)) /\ WF_vars(SpendDeposit(d, c)) /\ WF_vars(SettleDeposit(d))

Spec == Init /\ [][Next]_vars /\ Fairness

-----------------------------------------------------------------------------

TypeOK ==
  /\ \A c \in Contracts :
       /\ ct[c].status \in CD!ContractStatus
       /\ {ct[c].funds_conf, ct[c].funds_pend, ct[c].vin_count, ct[c].tx_fees} \subseteq Nat
       /\ {ct[c].canceled, ct[c].secured, ct[c].activated, ct[c].closed} \subseteq BOOLEAN
       /\ c \in DOMAIN vm <=> ct[c].activated
  /\ \A d \in DOMAIN dp :
       dp[d].status \in DepositStatus /\ dp[d].covenant \in Contracts \cup {NULL}

\* Until its deposits go, the running counts of a contract are what counting
\* them again gives, what it asks for (demo/07) is what it lacks to be secured,
\* and a client finds the funds of a secured contract right (data.ts:96-157
\* against util.ts:147-180 and validation/contract.ts:130-142).
FundsAgree ==
  \A c \in Contracts :
    LET tab == tabulate_funds(c) IN
    ~(ct[c].closed /\ Released(c)) =>
      /\ ct[c].vin_count  = tab.vin_count
      /\ ct[c].funds_conf = tab.fund_value
      /\ ct[c].funds_pend = Worth({d \in Funds(c) : dp[d].conf = NULL})
      /\ ct[c].tx_fees    = tab.tx_fees
      /\ ct[c].secured /\ ~ct[c].canceled => verify_contract_funding(c)
      /\ ~ct[c].canceled =>
           (CD!get_contract_balance(ct[c]) <= 0
              <=> CD!MaySecure(ct[c], tab.vin_count, tab.fund_value))

\* Whatever comes after it, every signature on a contract that was not canceled
\* goes on verifying, and every one on a deposit: the server never spends what
\* it has returned (validation/contract.ts:117, validation/deposit.ts:95).
SigsVerify ==
  /\ \A c \in Contracts : ~ct[c].canceled => CD!verify_contract_sigs(ct[c])
  /\ \A d \in DOMAIN dp : verify_deposit_sigs(dp[d])

\* From the time it is secured until it is spent or lets its deposits go, a
\* contract can pay: deposits that are locked to it, confirmed, and neither
\* returned nor spent are worth its total (data.ts:146-157).
Backed ==
  \A c \in Contracts :
    LET live == {d \in Funds(c) : /\ dp[d].locked /\ dp[d].conf # NULL
                                  /\ dp[d].closed = NULL /\ dp[d].spent = NULL}
    IN ct[c].secured /\ ct[c].spent = NULL /\ ~Released(c)
         => Worth(live) >= Subtotal + BaseFee + VinFee * Cardinality(live)

\* Once a settlement is published, its inputs stay what they were: under the
\* covenant it was signed with, not returned, and spent by nothing else; and a
\* client who puts it together of the funds, then or ever after, finds the same
\* (contract/util.ts:127-145, deposit/data.ts:90-92,123-125,140,
\* validation/contract.ts:189-228).
InputsStay ==
  \A c \in Contracts :
    ct[c].spent # NULL =>
      /\ verify_contract_settlement(c)
      /\ \A d \in ct[c].spent.vin :
        /\ dp[d].locked /\ dp[d].covenant = c /\ dp[d].closed = NULL
        /\ dp[d].spent \in {NULL, ct[c].spent}

\* "Once a covenant is made, the funds are considered locked to the contract"
\* (docs/resources/intro.md:114): a deposit leaves a contract by its release
\* only, and no other contract takes it over.
CovenantKept ==
  [][\A d \in DOMAIN dp :
       dp[d].covenant # NULL => dp'[d].covenant \in {dp[d].covenant, NULL}]_vars

\* A contract that was canceled has its signatures too (contract/util.ts:223,
\* validation/contract.ts:122).
CanceledSigsVerify ==
  \A c \in Contracts :
    ct[c].canceled => ct[c].canceled_sig = CD!get_contract_state(ct[c], "canceled")

\* The funds of a contract that is canceled are released (types/contract.ts:15):
\* no guard of an operation keeps a deposit in it.
FundsReleased ==
  \A c \in Contracts : ct[c].canceled ~> Funds(c) = {}

\* A contract that is closed ends up settled, and so does every deposit it still
\* has, whatever other contracts and owners do in between.
ContractSettles ==
  \A c \in Contracts :
    ct[c].closed ~> /\ ct[c].settled # NULL
                    /\ \A d \in Funds(c) : dp[d].settled # NULL
=============================================================================
