------------------------------ MODULE Funding ------------------------------
(***************************************************************************)
(* From a deposit account to the transaction that spends the deposit: the  *)
(* calls of client and signer (client/api), the server that verifies them  *)
(* in the order of demo/api and test/src/e2e, the oracle, and the chain.   *)
(*                                                                         *)
(* The server is not in the repository.  It is taken to keep one deposit   *)
(* for each output, and to lock a deposit that is committed or not to; it  *)
(* may build a return with the rate that was registered or that was asked  *)
(* for.  Escrow has the whole of deposits and contracts; here is what of   *)
(* them decides which signatures are made.                                 *)
(***************************************************************************)
EXTENDS Covenant

CONSTANTS
  Requests,         \* the account requests that funders make
  Contracts,
  Values, Rates,    \* values of outputs, and feerates
  Retries,          \* how often the oracle is asked
  MaxAccounts, MaxCoins, MaxMade, End   \* bounds: accounts, outputs, requests, time

ASSUME FundingAssumption ==
  /\ Retries \in Nat \ {0} /\ DOMAIN Outputs = Contracts
  /\ MaxMade \in Nat /\ End \in Nat /\ NULL \notin 0..End

\* A request has these fields (schema/account.ts:10-15), and nobody has a key
\* that the server's device makes for an account.
ASSUME RequestAssumption ==
  \A q \in Requests :
    /\ q = [deposit_pk |-> q.deposit_pk, locktime |-> q.locktime, return_addr |-> q.return_addr]
    /\ \A r \in Requests : q.deposit_pk # get_account_agent(r, Server)

\* The sequence counts whole units, for which the library rounds the lock time up
\* or down (recovery.ts:95).
ASSUME SequenceAssumption ==
  SEQ_UNIT \in Nat \ {0} /\
  \A q \in Requests :
    LET time == lock_time(create_sequence(q.locktime)) IN
    /\ q.locktime \in Nat /\ time \in Nat
    /\ q.locktime - SEQ_UNIT < time /\ time < q.locktime + SEQ_UNIT

VARIABLES
  now,
  accounts,         \* the accounts that the server gave out
  coins,            \* the chain: when each output was confirmed, and spent
  poll,             \* the call of poll_address, NULL before it
  pending,          \* the last request, on its way; it may arrive more than once
  made,             \* how many requests were made
  deposits,         \* the server's deposits, by output
  contracts,        \* the status of each contract
  shares,           \* every partial signature that was ever made
  backing           \* history: the outputs locked to each contract at its activation

vars == <<now, accounts, coins, poll, pending, made, deposits, contracts, shares, backing>>

Unspent(addr) == {u \in DOMAIN coins : u.addr = addr /\ coins[u].spent = NULL}
Funds(c) ==
  {u \in DOMAIN deposits : deposits[u].covenant # NULL /\ deposits[u].covenant.cid = c}
Open(c) == contracts[c] = "published"
\* The network takes a transaction that spends them.
broadcast_tx(us, how) ==
  [u \in DOMAIN coins |->
     IF u \in us THEN [coins[u] EXCEPT !.spent = [how |-> how, at |-> now]] ELSE coins[u]]
Spendable(u) == coins[u].conf # NULL /\ coins[u].spent = NULL

-----------------------------------------------------------------------------
Init ==
  /\ now = 0 /\ accounts = {} /\ coins = << >> /\ poll = NULL /\ pending = NULL /\ made = 0
  /\ deposits = << >> /\ contracts = [c \in Contracts |-> "published"] /\ shares = {}
  /\ backing = [c \in Contracts |-> {}]

\* Time is counted from the first block with an output.
Tick ==
  /\ now < End /\ \E u \in DOMAIN coins : coins[u].conf # NULL
  /\ now' = now + 1
  /\ UNCHANGED <<accounts, coins, poll, pending, made, deposits, contracts, shares, backing>>

\* Every request is answered with a new token, and the same address.
RequestAccount(req) ==
  /\ Cardinality(accounts) < MaxAccounts
  /\ verify_account_req(req)
  /\ accounts' = accounts \cup {create_account(req, Server, now, Cardinality(accounts))}
  /\ UNCHANGED <<now, coins, poll, pending, made, deposits, contracts, shares, backing>>

\* The chain.
Pay(a, value) ==
  /\ Cardinality(DOMAIN coins) < MaxCoins
  /\ LET u == [ txid |-> Cardinality(DOMAIN coins), value |-> value,
                addr |-> get_account_ctx(a).deposit_addr ]
     IN coins' = Merge(coins, [v \in {u} |-> [conf |-> NULL, spent |-> NULL]])
  /\ UNCHANGED <<now, accounts, poll, pending, made, deposits, contracts, shares, backing>>

Confirm(u) ==
  /\ coins[u].conf = NULL
  /\ coins' = [coins EXCEPT ![u].conf = now]
  /\ UNCHANGED <<now, accounts, poll, pending, made, deposits, contracts, shares, backing>>

-----------------------------------------------------------------------------
(* poll_address: a loop in which an answer is looked at before the next     *)
(* request, so that nobody looks at the last one.                           *)

PollStart(a) ==
  /\ poll = NULL
  /\ LET addr == get_account_ctx(a).deposit_addr IN
     poll' = [ addr |-> addr, i |-> 0, utxos |-> {}, result |-> "polling", utxo |-> NULL,
               before |-> Unspent(addr) ]
  /\ UNCHANGED <<now, accounts, coins, pending, made, deposits, contracts, shares, backing>>

InLoop_Short(p) == p.i < Retries - 1
InLoop(p) == p.i < Retries

PollStep ==
  /\ poll # NULL /\ poll.result = "polling"
  /\ \/ /\ InLoop(poll) /\ poll.utxos = {}
        /\ poll' = [poll EXCEPT !.i = @ + 1, !.utxos = Unspent(poll.addr)]
     \/ /\ InLoop(poll) /\ poll.utxos # {}
        /\ \E u \in poll.utxos : poll' = [poll EXCEPT !.result = "found", !.utxo = u]
     \/ /\ ~InLoop(poll)
        /\ poll' = [poll EXCEPT !.result = "timed out"]
     \/ /\ InLoop(poll) /\ poll.utxos = {}
        /\ poll' = [poll EXCEPT !.result = "refused"]
  /\ UNCHANGED <<now, accounts, coins, pending, made, deposits, contracts, shares, backing>>

-----------------------------------------------------------------------------
(* Requests of the owner, who knows the output that was found.              *)

Send(request, signed) ==
  /\ made < MaxMade
  /\ made' = made + 1
  /\ pending' = request
  /\ shares' = shares \cup signed
  /\ UNCHANGED <<now, accounts, coins, poll, deposits, contracts, backing>>

Signed(r) == {r.return_psig.psig}
              \cup (IF r.covenant = NULL THEN {}
                    ELSE {r.covenant.psigs[l] : l \in DOMAIN r.covenant.psigs})

MakeRegister(a, rate) ==
  /\ poll # NULL /\ poll.result = "found"
  /\ LET r == create_register_req(rate, a, a.deposit_pk, poll.utxo)
     IN Send([kind |-> "register", body |-> r], Signed(r))

MakeCommit(a, rate, c) ==
  /\ poll # NULL /\ poll.result = "found"
  /\ LET r == create_commit_req(rate, c, a, a.deposit_pk, poll.utxo)
     IN Send([kind |-> "commit", body |-> r], Signed(r))

MakeLock(u, c) ==
  LET r == create_lock_req(deposits[u], c, deposits[u].deposit_pk)
  IN Send([kind |-> "lock", body |-> r],
          {r.covenant.psigs[l] : l \in DOMAIN r.covenant.psigs})

MakeClose(u, rate) ==
  LET r == create_close_req(deposits[u], rate, deposits[u].deposit_pk)
  IN Send([kind |-> "close", utxo |-> u, body |-> r], {r.return_psig.psig})

-----------------------------------------------------------------------------
(* The server.                                                              *)

Arrived(kind) == pending # NULL /\ pending.kind = kind

create_deposit(r, locks) == Merge([locked |-> locks, closed |-> FALSE, spent |-> FALSE], r)
Kept(r, locks) == [u \in {r.utxo} |-> create_deposit(r, locks)]

Register ==
  /\ Arrived("register")
  /\ LET r == pending.body IN
     /\ r.utxo \notin DOMAIN deposits
     /\ verify_register_req(r, Server)
     /\ deposits' = Merge(deposits, Kept(r, FALSE))
  /\ UNCHANGED <<now, accounts, coins, poll, pending, made, contracts, shares, backing>>

Commit(locks) ==
  /\ Arrived("commit")
  /\ LET r == pending.body IN
     /\ r.utxo \notin DOMAIN deposits
     /\ verify_commit_req(Open(r.covenant.cid), r, Server)
     /\ deposits' = Merge(deposits, Kept(r, locks))
  /\ UNCHANGED <<now, accounts, coins, poll, pending, made, contracts, shares, backing>>

verify_lock_req_AnyLock(d, covenant) ==
  /\ coins[d.utxo].conf # NULL /\ ~d.closed /\ ~d.spent
  /\ verify_covenant_data(Open(covenant.cid), covenant, d, Server)
verify_lock_req(d, covenant) ==
  /\ coins[d.utxo].conf # NULL /\ ~d.locked /\ ~d.closed /\ ~d.spent
  /\ verify_covenant_data(Open(covenant.cid), covenant, d, Server)

Lock ==
  /\ Arrived("lock")
  /\ LET r == pending.body IN
     /\ verify_lock_req(deposits[r.utxo], r.covenant)
     /\ deposits' = [deposits EXCEPT ![r.utxo].covenant = r.covenant, ![r.utxo].locked = TRUE]
  /\ UNCHANGED <<now, accounts, coins, poll, pending, made, contracts, shares, backing>>

verify_close_req(d, request) ==
  /\ d.covenant = NULL
  /\ verify_feerate(request.return_rate)
  /\ verify_return_psig(d, request.return_psig)

MayClose(d) == coins[d.utxo].conf # NULL /\ ~d.locked /\ ~d.closed /\ ~d.spent

\* A transaction that the network refuses closes nothing; the server signed it.
Close(rate) ==
  /\ Arrived("close")
  /\ LET d  == deposits[pending.utxo]
         tx == get_return_tx([d EXCEPT !.return_psig = pending.body.return_psig,
                                       !.return_rate = rate], Server)
         ok == /\ Spendable(d.utxo) /\ tx.output.value >= DUST_LIMIT
               /\ verify_sig(tx.musig, {tx.agent, tx.owner}, tx.output, d.utxo)
     IN /\ verify_close_req(d, pending.body)
        /\ MayClose(d)
        /\ rate \in {d.return_rate, pending.body.return_rate}
        /\ shares' = shares \cup {tx.agent}
        /\ deposits' = [deposits EXCEPT ![d.utxo].closed = ok]
        /\ coins' = IF ok THEN broadcast_tx({d.utxo}, "return") ELSE coins
  /\ UNCHANGED <<now, accounts, poll, pending, made, contracts, backing>>

\* A contract that still waits for funds, or has no outcome, lets them go.
Release(u) ==
  /\ deposits[u].locked /\ ~deposits[u].closed /\ ~deposits[u].spent
  /\ contracts[deposits[u].covenant.cid] \in {"published", "canceled"}
  /\ deposits' = [deposits EXCEPT ![u].covenant = NULL, ![u].locked = FALSE]
  /\ UNCHANGED <<now, accounts, coins, poll, pending, made, contracts, shares, backing>>

Cancel(c) ==
  /\ contracts[c] = "published"
  /\ contracts' = [contracts EXCEPT ![c] = "canceled"]
  /\ UNCHANGED <<now, accounts, coins, poll, pending, made, deposits, shares, backing>>

Activate(c) ==
  /\ contracts[c] = "published" /\ Funds(c) # {}
  /\ \A u \in Funds(c) : coins[u].conf # NULL
  /\ contracts' = [contracts EXCEPT ![c] = "active"]
  /\ backing' = [backing EXCEPT ![c] = {u \in Funds(c) : deposits[u].locked}]
  /\ UNCHANGED <<now, accounts, coins, poll, pending, made, deposits, shares>>

\* The machine has its output, and the transaction is put together of it.
Settle(c, label) ==
  /\ contracts[c] = "active"
  /\ LET us   == Funds(c)
         sigs == [u \in us |-> settle_covenant(deposits[u], label, Server)]
         ok   == \A u \in us :
                   /\ Spendable(u)
                   /\ verify_sig(sigs[u].musig, {sigs[u].agent, sigs[u].owner},
                                 Outputs[c][label], u)
     IN /\ shares' = shares \cup {sigs[u].agent : u \in us}
        /\ contracts' = [contracts EXCEPT ![c] = IF ok THEN "spent" ELSE "closed"]
        /\ coins' = IF ok THEN broadcast_tx(us, "settlement") ELSE coins
        /\ deposits' = [u \in DOMAIN deposits |->
                          [deposits[u] EXCEPT !.spent = @ \/ (ok /\ u \in us)]]
  /\ UNCHANGED <<now, accounts, poll, pending, made, backing>>

\* The owner needs nobody, but the time that the sequence of the script counts.
Expired(u) == now >= coins[u].conf + lock_time(u.addr.script.sequence)

Recover(a, u, feerate) ==
  /\ get_recovery_tx(feerate, u) /\ sign_recovery_tx(a, a.deposit_pk, u)
  /\ Spendable(u) /\ Expired(u)
  /\ coins' = broadcast_tx({u}, "recovery")
  /\ UNCHANGED <<now, accounts, poll, pending, made, deposits, contracts, shares, backing>>

Next ==
  \/ Tick \/ PollStep \/ Register \/ Lock
  \/ \E req \in Requests : RequestAccount(req)
  \/ \E a \in accounts :
       \/ PollStart(a)
       \/ \E value \in Values : Pay(a, value)
       \/ \E rate \in Rates :
            \/ MakeRegister(a, rate)
            \/ \E c \in Contracts : MakeCommit(a, rate, c)
            \/ \E u \in DOMAIN coins : Recover(a, u, rate)
  \/ \E u \in DOMAIN coins : Confirm(u)
  \/ \E u \in DOMAIN deposits :
       \/ Release(u)
       \/ \E rate \in Rates : MakeClose(u, rate)
       \/ \E c \in Contracts : MakeLock(u, c)
  \/ \E locks \in BOOLEAN : Commit(locks)
  \/ \E rate \in Rates : Close(rate)
  \/ \E c \in Contracts :
       \/ Cancel(c) \/ Activate(c)
       \/ \E label \in DOMAIN Outputs[c] : Settle(c, label)

Spec == Init /\ [][Next]_vars
-----------------------------------------------------------------------------

\* Accounts are those that were asked for and may be given, outputs pay them,
\* and a deposit is of an output that is on the chain (core/types/account.ts).
TypeOK ==
  /\ now \in 0..End /\ made \in 0..MaxMade
  /\ \A a \in accounts : /\ [f \in DOMAIN a \ {"agent_tkn"} |-> a[f]] \in Requests
                         /\ a.return_addr \in Taproot
  /\ \A u \in DOMAIN deposits : u \in DOMAIN coins /\ deposits[u].utxo = u
  /\ {u.addr : u \in DOMAIN coins} \subseteq {get_account_ctx(a).deposit_addr : a \in accounts}
  /\ contracts \in [Contracts -> {"published", "canceled", "active", "closed", "spent"}]

\* Whatever the server took in - with an old token or a new one, again after a
\* release, long after it was signed - it can use: on each path of a contract
\* the signature in the covenant completes the one of the server, and so does
\* the one for the return, at the rate that was registered (covenant.ts:68-95,
\* return.ts:99-124, validation/covenant.ts:38-63).
Settleable ==
  \A u \in DOMAIN deposits :
    LET d == deposits[u]  tx == get_return_tx(d, Server) IN
    /\ verify_sig(tx.musig, {tx.agent, tx.owner}, tx.output, u)
    /\ d.covenant # NULL =>
         \A label \in DOMAIN Outputs[d.covenant.cid] :
           LET s == settle_covenant(d, label, Server) IN
           verify_sig(s.musig, {s.agent, s.owner}, Outputs[d.covenant.cid][label], u)

\* Two signatures with the same nonce are the same signature, over all the
\* paths, contracts, rates and returns that a token and a deposit serve
\* (covenant.ts:136-169, 227-259; session.ts:55-82).
NonceOnce ==
  \A s \in shares, t \in shares : s.signer = t.signer /\ s.nonce = t.nonce => s = t

\* A close request that the server accepts can be used at the rate it asks for:
\* "Close a deposit and return the funds (with an updated feerate)"
\* (docs/api/deposit.md:164; deposit/api.ts:33-43, validation/deposit.ts:66-77).
ClosePaysRate ==
  Arrived("close") =>
    LET d    == deposits[pending.utxo]
        body == pending.body
        tx   == get_return_tx([d EXCEPT !.return_rate = body.return_rate,
                                        !.return_psig = body.return_psig], Server)
    IN verify_close_req(d, body) /\ MayClose(d)
         => verify_sig(tx.musig, {tx.agent, tx.owner}, tx.output, d.utxo)

\* What was locked to a contract at its activation stays under its covenant until
\* it settles, whatever other contracts, owners and late requests ask for; and it
\* is there, unless its owner took it back after the lock time of the account,
\* less what the sequence cannot count: the server has no check that the contract
\* ends before (validation/deposit.ts:66-77, 134-144).  A deposit that was
\* committed and not locked has no such promise: see CovenantKept of Escrow.
FundsKept ==
  \A c \in Contracts : contracts[c] \in {"active", "closed"} =>
    \A u \in backing[c] :
      LET d == deposits[u]  spent == coins[u].spent IN
      /\ d.covenant # NULL /\ d.covenant.cid = c
      /\ spent # NULL =>
           /\ spent.how = "recovery" /\ d.return_addr = d.deposit_pk
           /\ spent.at + SEQ_UNIT > coins[u].conf + d.locktime

\* A poll finds an output of its address, if there was one that is not spent
\* when it began; one that comes with the last answer is not seen
\* (client/class/oracle.ts:180-199).
PollTells ==
  poll # NULL =>
    /\ poll.result = "found" => poll.utxo.addr = poll.addr /\ poll.utxo \in DOMAIN coins
    /\ poll.result = "timed out" /\ Retries > 1 =>
         \A u \in poll.before : coins[u].spent # NULL
=============================================================================
