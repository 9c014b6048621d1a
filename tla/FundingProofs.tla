--------------------------- MODULE FundingProofs ---------------------------
(***************************************************************************)
(* Proofs about Funding: for every set of requests, contracts, outputs,    *)
(* rates and bounds, no two signatures share a nonce, whatever the server  *)
(* took in it can use, a return pays what was registered, active contracts *)
(* keep their funds, and a poll tells the truth.                           *)
(***************************************************************************)
EXTENDS Funding, TLAPS

-----------------------------------------------------------------------------
(* What is signed.  Everything that a session is made of is in its tweak:   *)
(* the hash, from which its key can be told, the nonces and the message.    *)

\* The hash of a covenant has three parts, the second of which is that of its
\* deposit; the hash of a deposit has four.
DepositHashOf(id) == IF DOMAIN id = 1..3 THEN id[2] ELSE id

SessionOf(tweak) ==
  LET hash == DepositHashOf(tweak[1]) IN
  [ key    |-> [ members |-> {hash[1][1], hash[2].pk},
                 script  |-> [key |-> hash[1][3], sequence |-> create_sequence(hash[1][2])] ],
    msg    |-> tweak[3],
    nonces |-> [of |-> tweak[2], tweak |-> tweak] ]

\* The nonce of a signature tells what it signs.
Told(s) ==
  s = [signer |-> s.signer, musig |-> SessionOf(s.nonce[2]), nonce |-> s.nonce]

\* Two requests that say the same of an output have the same hashes and sessions.
Alike(r, s) ==
  /\ r.deposit_pk = s.deposit_pk /\ r.locktime = s.locktime
  /\ r.return_addr = s.return_addr /\ r.agent_tkn = s.agent_tkn
  /\ r.return_rate = s.return_rate /\ r.utxo = s.utxo

\* Nothing that is derived of a request for a session looks at more than that.
LEMMA AlikeSigns ==
  ASSUME NEW r, NEW s, Alike(r, s)
  PROVE  /\ get_account_ctx(r) = get_account_ctx(s)
         /\ get_deposit_hash(r) = get_deposit_hash(s)
         /\ create_return_template(r) = create_return_template(s)
         /\ \A dev : get_account_agent(r, dev) = get_account_agent(s, dev)
         /\ \A pnonce : get_return_session(pnonce, r) = get_return_session(pnonce, s)
         /\ \A signer : create_return_psig(r, signer) = create_return_psig(s, signer)
         /\ \A cid : get_covenant_id(cid, r) = get_covenant_id(cid, s)
         /\ \A cid, cvid, pnonce : get_covenant_sessions(cid, r, cvid, pnonce)
                                     = get_covenant_sessions(cid, s, cvid, pnonce)
<1>1. get_account_hash(r) = get_account_hash(s)
  BY DEF Alike, get_account_hash
<1>2. get_account_ctx(r) = get_account_ctx(s)
  BY DEF Alike, get_account_ctx, get_recovery_script
<1>3. get_deposit_hash(r) = get_deposit_hash(s)
  BY <1>1 DEF Alike, get_deposit_hash
<1>4. create_return_template(r) = create_return_template(s)
  BY DEF Alike, create_return_template
<1>5. \A dev : get_account_agent(r, dev) = get_account_agent(s, dev)
  BY <1>1 DEF get_account_agent
<1>6. \A pnonce : get_return_session(pnonce, r) = get_return_session(pnonce, s)
  BY <1>2, <1>3, <1>4 DEF Alike, get_return_session
<1>7. \A signer : create_return_psig(r, signer) = create_return_psig(s, signer)
  BY <1>3, <1>6 DEF create_return_psig
<1>8. \A cid : get_covenant_id(cid, r) = get_covenant_id(cid, s)
  BY <1>3 DEF get_covenant_id
<1>9. \A cid, cvid, pnonce : get_covenant_sessions(cid, r, cvid, pnonce)
                               = get_covenant_sessions(cid, s, cvid, pnonce)
  BY <1>2 DEF Alike, get_covenant_sessions
<1> QED
  BY <1>2, <1>3, <1>4, <1>5, <1>6, <1>7, <1>8, <1>9

\* A signature in a session of a deposit tells what it signs, whoever makes it,
\* and whichever of the two hashes the session has (session.ts:39-82).
LEMMA SessionTold ==
  ASSUME NEW r, NEW id, NEW output, NEW pnonce, NEW signer, NEW seed,
         DepositHashOf(id) = get_deposit_hash(r)
  PROVE  LET session == get_covenant_session(get_account_ctx(r), id, output, pnonce, r.utxo)
         IN Told(musign(signer, session.musig, seed, session.tweak))
<1> DEFINE session == get_covenant_session(get_account_ctx(r), id, output, pnonce, r.utxo)
           pnonces == {pnonce, get_account_ctx(r).session.pn}
           msg     == create_sighash(output, r.utxo)
           tweak   == <<id, pnonces, msg>>
<1>1. session.tweak = tweak /\ session.musig =
        [ key |-> get_account_ctx(r).deposit_addr, msg |-> msg,
          nonces |-> [of |-> pnonces, tweak |-> tweak] ]
  BY DEF get_covenant_session, get_covenant_tweak, tweak_pnonces
<1>2. get_account_ctx(r).deposit_addr =
        [ members |-> {r.deposit_pk, r.agent_tkn.pk},
          script  |-> [key |-> r.return_addr, sequence |-> create_sequence(r.locktime)] ]
  BY DEF get_account_ctx, get_recovery_script
<1>3. get_deposit_hash(r) =
        <<<<r.deposit_pk, r.locktime, r.return_addr>>, r.agent_tkn, r.return_rate, r.utxo>>
  BY DEF get_deposit_hash, get_account_hash
<1> HIDE DEF pnonces, msg
<1>4. tweak[1] = id /\ tweak[2] = pnonces /\ tweak[3] = msg
  OBVIOUS
<1>5. SessionOf(tweak) = session.musig
  <2>1. PICK hash : hash = DepositHashOf(tweak[1])
    OBVIOUS
  <2>2. /\ hash[1][1] = r.deposit_pk /\ hash[1][2] = r.locktime
        /\ hash[1][3] = r.return_addr /\ hash[2] = r.agent_tkn
    BY <1>3, <1>4, <2>1
  <2>3. create_sequence(hash[1][2]) = create_sequence(r.locktime)
    BY <2>2, Zenon
  <2>4. SessionOf(tweak) =
          [ key    |-> [ members |-> {hash[1][1], hash[2].pk},
                         script  |-> [ key      |-> hash[1][3],
                                       sequence |-> create_sequence(hash[1][2]) ] ],
            msg    |-> tweak[3],
            nonces |-> [of |-> tweak[2], tweak |-> tweak] ]
    BY <2>1 DEF SessionOf
  <2> HIDE DEF session, tweak
  <2> QED
    BY <1>1, <1>2, <1>4, <2>2, <2>3, <2>4
<1> HIDE DEF session, tweak
<1>6. musign(signer, session.musig, seed, session.tweak) =
        [ signer |-> signer, musig |-> session.musig,
          nonce |-> <<get_session_pnonce(seed, signer), tweak>> ]
  BY <1>1 DEF musign, tweak_pnonce
<1> QED
  BY <1>5, <1>6 DEF Told, session

\* So does each signature that the program makes (covenant.ts:136-169, return.ts:47-97).
LEMMA SharesTold ==
  ASSUME NEW r
  PROVE  /\ \A signer : Told(create_return_psig(r, signer).psig)
         /\ \A cid, signer, l : l \in DOMAIN Outputs[cid] =>
              /\ DOMAIN create_covenant(cid, r, signer).psigs = DOMAIN Outputs[cid]
              /\ Told(create_covenant(cid, r, signer).psigs[l])
         /\ \A dev : Told(get_return_tx(r, dev).agent)
         /\ \A label, dev : Told(settle_covenant(r, label, dev).agent)
<1>1. /\ DepositHashOf(get_deposit_hash(r)) = get_deposit_hash(r)
      /\ \A cid : DepositHashOf(get_covenant_id(cid, r)) = get_deposit_hash(r)
  BY DEF DepositHashOf, get_deposit_hash, get_covenant_id
<1>2. \A signer : Told(create_return_psig(r, signer).psig)
  BY <1>1, SessionTold DEF create_return_psig, get_return_session, create_covenant_psig
<1>3. ASSUME NEW cid, NEW signer, NEW l \in DOMAIN Outputs[cid]
      PROVE  /\ DOMAIN create_covenant(cid, r, signer).psigs = DOMAIN Outputs[cid]
             /\ Told(create_covenant(cid, r, signer).psigs[l])
  BY <1>1, SessionTold
  DEF create_covenant, create_covenant_psigs, get_covenant_sessions, create_covenant_psig
<1>4. \A dev : Told(get_return_tx(r, dev).agent)
  BY <1>1, SessionTold DEF get_return_tx, get_return_session, settle_covenant_psig
<1>5. \A label, dev : Told(settle_covenant(r, label, dev).agent)
  BY <1>1, SessionTold DEF settle_covenant, settle_covenant_psig
<1> QED
  BY <1>2, <1>3, <1>4, <1>5

-----------------------------------------------------------------------------
(* What verifies.                                                           *)

\* A session of a deposit with the server's token, in which the owner has signed,
\* is completed by the signature of the server (session.ts:39-82, signing.ts).
LEMMA PairVerifies ==
  ASSUME NEW r, NEW id, NEW output, NEW pnonce, NEW owner,
         verify_session_token(r, Server), verify_utxo(r),
         verify_psig(get_covenant_session(get_account_ctx(r), id, output, pnonce, r.utxo).musig,
                     owner),
         owner.signer = r.deposit_pk
  PROVE  LET session == get_covenant_session(get_account_ctx(r), id, output, pnonce, r.utxo)
         IN verify_sig(session.musig,
                       {settle_covenant_psig(session, get_account_agent(r, Server)), owner},
                       output, r.utxo)
<1> DEFINE ctx     == get_account_ctx(r)
           session == get_covenant_session(ctx, id, output, pnonce, r.utxo)
           pn      == r.agent_tkn.pn
           of      == {pnonce, pn}
           agent   == get_account_agent(r, Server)
           psig    == settle_covenant_psig(session, agent)
<1>1. /\ ctx.session = r.agent_tkn /\ ctx.deposit_addr.members = {r.deposit_pk, r.agent_tkn.pk}
      /\ ctx.deposit_addr = r.utxo.addr
  BY DEF get_account_ctx, verify_utxo
<1>2. /\ session.acct = ctx /\ session.musig.key = ctx.deposit_addr
      /\ session.musig.msg = create_sighash(output, r.utxo)
      /\ session.musig.nonces = [of |-> of, tweak |-> session.tweak]
  BY <1>1 DEF get_covenant_session, tweak_pnonces
<1>3. agent = r.agent_tkn.pk
      /\ pn = get_session_pnonce(get_session_seed(r.agent_tkn.id, agent, r.agent_tkn.ts), agent)
  BY DEF verify_session_token
<1> HIDE DEF session, ctx, agent
<1>4. psig.signer = agent /\ psig.musig = session.musig
      /\ psig.nonce = tweak_pnonce(pn, session.tweak)
  BY <1>1, <1>2, <1>3 DEF settle_covenant_psig, musign
<1> HIDE DEF psig
<1>5. verify_psig(session.musig, psig)
  BY <1>1, <1>2, <1>3, <1>4 DEF verify_psig, Among
<1>6. verify_psig(session.musig, owner)
  BY DEF session, ctx
<1>7. {p.signer : p \in {psig, owner}} = session.musig.key.members
  BY <1>1, <1>2, <1>3, <1>4
<1>8. verify_sig(session.musig, {psig, owner}, output, r.utxo)
  BY <1>1, <1>2, <1>5, <1>6, <1>7 DEF verify_sig
<1> QED
  BY <1>8 DEF session, psig, ctx, agent

\* An owner's signature verifies in the session that it was made in.
LEMMA OwnVerifies ==
  ASSUME NEW r, NEW id, NEW output, NEW signer, signer = r.deposit_pk
  PROVE  LET session == get_covenant_session(get_account_ctx(r), id, output,
                                             get_session_pnonce(id, signer), r.utxo)
             psig    == musign(signer, session.musig, id, session.tweak)
         IN verify_psig(session.musig, psig) /\ psig.signer = signer
<1> DEFINE pnonce  == get_session_pnonce(id, signer)
           ctx     == get_account_ctx(r)
           session == get_covenant_session(ctx, id, output, pnonce, r.utxo)
           psig    == musign(signer, session.musig, id, session.tweak)
<1>1. ctx.deposit_addr.members = {r.deposit_pk, r.agent_tkn.pk}
  BY DEF get_account_ctx
<1>2. /\ session.musig.key = ctx.deposit_addr
      /\ session.musig.nonces = [of |-> {pnonce, ctx.session.pn}, tweak |-> session.tweak]
  BY DEF get_covenant_session, tweak_pnonces
<1> HIDE DEF session, ctx
<1>3. psig.signer = signer /\ psig.musig = session.musig
      /\ psig.nonce = tweak_pnonce(pnonce, session.tweak)
  BY DEF musign
<1> HIDE DEF psig, pnonce
<1>4. verify_psig(session.musig, psig)
  BY <1>1, <1>2, <1>3 DEF verify_psig, Among
<1> QED
  BY <1>3, <1>4 DEF session, psig, ctx, pnonce

\* What the owner signed of a return completes it (return.ts:47-124).
LEMMA ReturnVerifies ==
  ASSUME NEW d, verify_session_token(d, Server), verify_utxo(d),
         d.return_psig = create_return_psig(d, d.deposit_pk)
  PROVE  LET tx == get_return_tx(d, Server) IN
         verify_sig(tx.musig, {tx.agent, tx.owner}, tx.output, d.utxo)
<1> DEFINE id     == get_deposit_hash(d)
           output == create_return_template(d)
           pnonce == get_session_pnonce(id, d.deposit_pk)
           session == get_covenant_session(get_account_ctx(d), id, output, pnonce, d.utxo)
           owner  == musign(d.deposit_pk, session.musig, id, session.tweak)
<1>1. d.return_psig.pnonce = pnonce /\ get_return_session(pnonce, d) = session
  BY DEF create_return_psig, get_return_session
<1>2. d.return_psig.psig = owner
  <2>1. session.cvid = id
    BY DEF get_covenant_session
  <2> QED
    BY <1>1, <2>1 DEF create_return_psig, create_covenant_psig
<1>3. verify_psig(session.musig, owner) /\ owner.signer = d.deposit_pk
  BY OwnVerifies
<1>4. verify_sig(session.musig,
                 {settle_covenant_psig(session, get_account_agent(d, Server)), owner},
                 output, d.utxo)
  BY <1>3, PairVerifies
<1>5. get_return_tx(d, Server) =
        [ musig |-> session.musig, output |-> output,
          agent |-> settle_covenant_psig(session, get_account_agent(d, Server)),
          owner |-> owner ]
  BY <1>1, <1>2 DEF get_return_tx
<1> HIDE DEF session, owner, output
<1> QED
  BY <1>4, <1>5

\* The owner of a covenant is who the deposit says that its hash is of.
Owner(cvid) == cvid[2][1][1]
Owned(covenant) ==
  \A l \in DOMAIN covenant.psigs : covenant.psigs[l].signer = Owner(covenant.cvid)

\* A covenant that was verified for a deposit (validation/covenant.ts:38-63).
Verified(d, covenant) ==
  /\ covenant.cvid = get_covenant_id(covenant.cid, d)
  /\ verify_covenant_psigs(covenant,
       get_covenant_sessions(covenant.cid, d, covenant.cvid, covenant.pnonce))

\* The id of a covenant names the owner of the deposit (covenant.ts:100-109).
LEMMA OwnerOfCovenant ==
  ASSUME NEW d, NEW cid PROVE Owner(get_covenant_id(cid, d)) = d.deposit_pk
BY DEF Owner, get_covenant_id, get_deposit_hash, get_account_hash

\* Whoever makes a covenant signs it on each path with the key of its deposit.
LEMMA CovenantOwned ==
  ASSUME NEW d, NEW cid PROVE Owned(create_covenant(cid, d, d.deposit_pk))
BY OwnerOfCovenant
DEF Owned, create_covenant, create_covenant_psigs, create_covenant_psig, musign

\* A verified covenant of the owner settles on each path (covenant.ts:68-95).
LEMMA CovenantVerifies ==
  ASSUME NEW d, verify_session_token(d, Server), verify_utxo(d),
         Owned(d.covenant), Verified(d, d.covenant),
         NEW label \in DOMAIN Outputs[d.covenant.cid]
  PROVE  LET s == settle_covenant(d, label, Server) IN
         verify_sig(s.musig, {s.agent, s.owner}, Outputs[d.covenant.cid][label], d.utxo)
<1> DEFINE c       == d.covenant
           output  == Outputs[c.cid][label]
           session == get_covenant_session(get_account_ctx(d), c.cvid, output, c.pnonce, d.utxo)
           owner   == c.psigs[label]
<1>1. label \in DOMAIN c.psigs /\ verify_psig(session.musig, owner)
  BY DEF Verified, verify_covenant_psigs, get_covenant_sessions
<1>2. c.cvid = get_covenant_id(c.cid, d)
  BY DEF Verified
<1>3. owner.signer = d.deposit_pk
  BY <1>1, <1>2, OwnerOfCovenant DEF Owned
<1>4. verify_sig(session.musig,
                 {settle_covenant_psig(session, get_account_agent(d, Server)), owner},
                 output, d.utxo)
  BY <1>1, <1>3, PairVerifies
<1>5. settle_covenant(d, label, Server) =
        [ musig |-> session.musig,
          agent |-> settle_covenant_psig(session, get_account_agent(d, Server)),
          owner |-> owner ]
  BY <1>2 DEF settle_covenant, get_spend_template, get_covenant_psig
<1> HIDE DEF session, owner, output
<1> QED
  BY <1>4, <1>5 DEF output

-----------------------------------------------------------------------------
(* The invariant.                                                           *)

AccountFields == {"deposit_pk", "locktime", "return_addr", "agent_tkn"}
RequestFields == AccountFields \cup {"return_rate", "utxo", "return_psig", "covenant"}
DepositFields == RequestFields \cup {"locked", "closed", "spent"}

Has(r, fields) == r = [f \in fields |-> r[f]]

Asked(r) ==
  \E q \in Requests :
    r.deposit_pk = q.deposit_pk /\ r.locktime = q.locktime /\ r.return_addr = q.return_addr

GoodAccount(a) == Has(a, AccountFields) /\ Asked(a) /\ a.return_addr \in Taproot

GoodCoin(u) ==
  /\ coins[u] = [conf |-> coins[u].conf, spent |-> coins[u].spent]
  /\ \E a \in accounts : u.addr = get_account_ctx(a).deposit_addr
  /\ coins[u].conf \in 0..End \cup {NULL}
  /\ coins[u].spent # NULL => coins[u].conf # NULL

\* A request for a deposit is of an account and an output, and the owner signed
\* the return that it describes; nobody looks at that signature.
GoodRequest(r) ==
  /\ Has(r, RequestFields) /\ Asked(r) /\ r.utxo \in DOMAIN coins
  /\ r.return_psig = create_return_psig(r, r.deposit_pk)

GoodPending ==
  pending # NULL =>
    /\ pending.kind \in {"register", "commit"} => GoodRequest(pending.body)
    /\ pending.kind = "register" => pending.body.covenant = NULL
    /\ pending.kind \in {"commit", "lock"} => Owned(pending.body.covenant)
    /\ pending.kind = "lock" => pending.body.utxo \in DOMAIN deposits
    /\ pending.kind = "close" => pending.utxo \in DOMAIN deposits

\* A deposit is what was verified of the request, and what came of it.
Registered(d) ==
  /\ Asked(d) /\ verify_session_token(d, Server) /\ verify_utxo(d)
  /\ d.return_psig = create_return_psig(d, d.deposit_pk)

GoodDeposit(u) ==
  LET d == deposits[u] IN
  /\ Has(d, DepositFields) /\ d.utxo = u /\ u \in DOMAIN coins
  /\ d.locked \in BOOLEAN /\ d.closed \in BOOLEAN /\ d.spent \in BOOLEAN
  /\ Registered(d)
  /\ d.covenant # NULL => Owned(d.covenant) /\ Verified(d, d.covenant)

\* An output is spent once, in one of three ways, and a deposit that the server
\* spent tells which.
SpentBy(u) ==
  LET spent == coins[u].spent IN
  \/ /\ spent.how = "recovery"
     /\ spent.at \in 0..End /\ spent.at >= coins[u].conf + lock_time(u.addr.script.sequence)
     /\ \E a \in accounts : get_recovery_ctx(a) = u.addr /\ u.addr.script.key = a.deposit_pk
  \/ /\ spent.how = "return"
     /\ u \in DOMAIN deposits /\ deposits[u].closed /\ deposits[u].covenant = NULL
  \/ /\ spent.how = "settlement"
     /\ u \in DOMAIN deposits /\ deposits[u].spent /\ deposits[u].covenant # NULL
     /\ deposits[u].covenant.cid \in Contracts
     /\ contracts[deposits[u].covenant.cid] = "spent"

\* The first answer of a poll is looked at, if there is a second request.
GoodPoll ==
  poll # NULL =>
    /\ poll = [ addr |-> poll.addr, i |-> poll.i, utxos |-> poll.utxos,
                result |-> poll.result, utxo |-> poll.utxo, before |-> poll.before ]
    /\ poll.i \in Nat
    /\ \A u \in poll.utxos : u \in DOMAIN coins /\ u.addr = poll.addr
    /\ \A u \in poll.before : u \in DOMAIN coins /\ u.addr = poll.addr
    /\ poll.result = "found" => poll.utxo \in DOMAIN coins /\ poll.utxo.addr = poll.addr
    /\ poll.result = "timed out" => poll.i >= Retries
    /\ (poll.i >= 1 /\ poll.utxos = {}) \/ poll.i >= 2 =>
         \A u \in poll.before : coins[u].spent # NULL

\* What a contract was activated with stays locked to it until it is spent.
LockedTo(c, u) ==
  /\ u \in DOMAIN deposits /\ deposits[u].locked
  /\ deposits[u].covenant # NULL /\ deposits[u].covenant.cid = c
GoodBacking ==
  /\ backing = [c \in Contracts |-> backing[c]]
  /\ \A c \in Contracts : contracts[c] \in {"active", "closed"} =>
       \A u \in backing[c] : LockedTo(c, u)

IInv ==
  /\ now \in 0..End /\ made \in 0..MaxMade
  /\ contracts \in [Contracts -> {"published", "canceled", "active", "closed", "spent"}]
  /\ \A a \in accounts : GoodAccount(a)
  /\ \A u \in DOMAIN coins : GoodCoin(u)
  /\ GoodPending
  /\ \A u \in DOMAIN deposits : GoodDeposit(u)
  /\ \A u \in DOMAIN coins : coins[u].spent # NULL => SpentBy(u)
  /\ GoodPoll
  /\ GoodBacking
  /\ \A s \in shares : Told(s)

-----------------------------------------------------------------------------
(* What each variable is changed by.                                        *)

Pays     == \E a \in accounts, value \in Values : Pay(a, value)
Confirms == \E u \in DOMAIN coins : Confirm(u)
Closes   == \E rate \in Rates : Close(rate)
Commits  == \E locks \in BOOLEAN : Commit(locks)
Releases == \E u \in DOMAIN deposits : Release(u)
Recovers == \E a \in accounts, u \in DOMAIN coins, rate \in Rates : Recover(a, u, rate)
Settles  == \E c \in Contracts : \E label \in DOMAIN Outputs[c] : Settle(c, label)

Makes ==
  \/ \E a \in accounts, rate \in Rates :
       MakeRegister(a, rate) \/ \E c \in Contracts : MakeCommit(a, rate, c)
  \/ \E u \in DOMAIN deposits :
       (\E rate \in Rates : MakeClose(u, rate)) \/ \E c \in Contracts : MakeLock(u, c)

\* Each action leaves alone the variables that are not its own.
LEMMA Frames ==
  ASSUME [Next]_vars
  PROVE  /\ now' = now \/ Tick
         /\ made' = made \/ Makes
         /\ pending' = pending \/ Makes
         /\ accounts' = accounts \/ \E req \in Requests : RequestAccount(req)
         /\ coins' = coins \/ Pays \/ Confirms \/ Closes \/ Recovers \/ Settles
         /\ poll' = poll \/ (\E a \in accounts : PollStart(a)) \/ PollStep
         /\ deposits' = deposits \/ Register \/ Commits \/ Lock \/ Closes \/ Releases
              \/ Settles
         /\ contracts' = contracts \/ Settles
              \/ \E c \in Contracts : Cancel(c) \/ Activate(c)
         /\ shares' = shares \/ Makes \/ Closes \/ Settles
         /\ backing' = backing \/ \E c \in Contracts : Activate(c)
<1> DEFINE Goal ==
      /\ now' = now \/ Tick
      /\ made' = made \/ Makes
      /\ pending' = pending \/ Makes
      /\ accounts' = accounts \/ \E req \in Requests : RequestAccount(req)
      /\ coins' = coins \/ Pays \/ Confirms \/ Closes \/ Recovers \/ Settles
      /\ poll' = poll \/ (\E a \in accounts : PollStart(a)) \/ PollStep
      /\ deposits' = deposits \/ Register \/ Commits \/ Lock \/ Closes \/ Releases
           \/ Settles
      /\ contracts' = contracts \/ Settles
           \/ \E c \in Contracts : Cancel(c) \/ Activate(c)
      /\ shares' = shares \/ Makes \/ Closes \/ Settles
      /\ backing' = backing \/ \E c \in Contracts : Activate(c)
<1>1. ASSUME Tick PROVE Goal
  BY <1>1 DEF Tick
<1>2. ASSUME PollStep PROVE Goal
  BY <1>2 DEF PollStep
<1>3. ASSUME Register PROVE Goal
  BY <1>3 DEF Register
<1>4. ASSUME Lock PROVE Goal
  BY <1>4 DEF Lock
<1>5. ASSUME NEW req \in Requests, RequestAccount(req) PROVE Goal
  BY <1>5 DEF RequestAccount
<1>6. ASSUME NEW a \in accounts, PollStart(a) PROVE Goal
  BY <1>6 DEF PollStart
<1>7. ASSUME Pays PROVE Goal
  BY <1>7 DEF Pays, Pay
<1>8. ASSUME Makes PROVE Goal
  BY <1>8 DEF Makes, MakeRegister, MakeCommit, MakeClose, MakeLock, Send
<1>9. ASSUME Recovers PROVE Goal
  BY <1>9 DEF Recovers, Recover
<1>10. ASSUME Confirms PROVE Goal
  BY <1>10 DEF Confirms, Confirm
<1>11. ASSUME Releases PROVE Goal
  BY <1>11 DEF Releases, Release
<1>12. ASSUME Commits PROVE Goal
  BY <1>12 DEF Commits, Commit
<1>13. ASSUME Closes PROVE Goal
  BY <1>13 DEF Closes, Close
<1>14. ASSUME NEW c \in Contracts, Cancel(c) \/ Activate(c) PROVE Goal
  BY <1>14 DEF Cancel, Activate
<1>15. ASSUME Settles PROVE Goal
  BY <1>15 DEF Settles, Settle
<1>16. ASSUME UNCHANGED vars PROVE Goal
  BY <1>16 DEF vars
<1> HIDE DEF Goal
<1>17. ASSUME Next PROVE Goal
  <2>1. \/ Tick \/ PollStep \/ Register \/ Lock
        \/ (\E req \in Requests : RequestAccount(req))
        \/ (\E a \in accounts : PollStart(a)) \/ Pays \/ Makes \/ Recovers
        \/ Confirms \/ Releases \/ Commits \/ Closes
        \/ (\E c \in Contracts : Cancel(c) \/ Activate(c)) \/ Settles
    BY <1>17 DEF Next, Pays, Makes, Recovers, Confirms, Releases, Commits, Closes, Settles
  <2> QED
    BY <2>1, <1>1, <1>2, <1>3, <1>4, <1>5, <1>6, <1>7, <1>8, <1>9, <1>10, <1>11, <1>12,
       <1>13, <1>14, <1>15
<1>18. Goal
  BY <1>16, <1>17
<1> QED
  BY <1>18 DEF Goal

\* Accounts are added, for requests that were verified.
LEMMA AccountsStep ==
  ASSUME IInv, [Next]_vars
  PROVE  accounts \subseteq accounts' /\ \A a \in accounts' : GoodAccount(a)
<1>1. CASE accounts' = accounts
  BY <1>1 DEF IInv
<1>2. ASSUME NEW req \in Requests, RequestAccount(req)
      PROVE  accounts \subseteq accounts' /\ \A a \in accounts' : GoodAccount(a)
  <2> DEFINE a == create_account(req, Server, now, Cardinality(accounts))
  <2>1. accounts' = accounts \cup {a} /\ req.return_addr \in Taproot
    BY <1>2 DEF RequestAccount, verify_account_req
  <2>2. req = [deposit_pk |-> req.deposit_pk, locktime |-> req.locktime,
               return_addr |-> req.return_addr]
    BY RequestAssumption
  <2>3. Has(a, AccountFields) /\ a.deposit_pk = req.deposit_pk /\ a.locktime = req.locktime
        /\ a.return_addr = req.return_addr
    <3> DEFINE tkn == gen_session_token(get_account_agent(req, Server), now,
                                        Cardinality(accounts))
    <3>1. a = Merge([agent_tkn |-> tkn], req)
      BY DEF create_account
    <3> HIDE DEF tkn
    <3>2. DOMAIN req = {"deposit_pk", "locktime", "return_addr"}
      BY <2>2
    <3> QED
      BY <3>1, <3>2 DEF Merge, Has, AccountFields
  <2>4. GoodAccount(a)
    BY <2>1, <2>3 DEF GoodAccount, Asked
  <2> QED
    BY <2>1, <2>4 DEF IInv
<1> QED
  BY <1>1, <1>2, Frames

\* What the chain has stays: its outputs, the time of each, and who spent it.
Stays ==
  /\ \A u \in DOMAIN coins :
       /\ u \in DOMAIN coins'
       /\ coins[u].spent # NULL => coins'[u] = coins[u]
       /\ coins[u].conf # NULL => coins'[u].conf = coins[u].conf
  /\ \A u \in DOMAIN coins' : u \in DOMAIN coins \/ coins'[u].spent = NULL

\* A transaction of outputs that can be spent changes nothing of what was spent.
LEMMA BroadcastStays ==
  ASSUME IInv, NEW us, NEW how, \A u \in us : u \in DOMAIN coins /\ Spendable(u),
         coins' = broadcast_tx(us, how), accounts' = accounts
  PROVE  /\ Stays /\ \A u \in DOMAIN coins' : GoodCoin(u)'
         /\ \A u \in us : coins'[u].spent = [how |-> how, at |-> now]
         /\ \A u \in DOMAIN coins' : u \notin us => coins'[u] = coins[u]
         /\ DOMAIN coins' = DOMAIN coins
<1>1. /\ DOMAIN coins' = DOMAIN coins
      /\ \A u \in DOMAIN coins :
           coins'[u] = IF u \in us THEN [coins[u] EXCEPT !.spent = [how |-> how, at |-> now]]
                                   ELSE coins[u]
  BY DEF broadcast_tx
<1>2. \A u \in DOMAIN coins : coins[u] = [conf |-> coins[u].conf, spent |-> coins[u].spent]
  BY DEF IInv, GoodCoin
<1>3. \A u \in us : /\ coins'[u] = [conf |-> coins[u].conf,
                                    spent |-> [how |-> how, at |-> now]]
                    /\ coins[u].conf # NULL /\ coins[u].spent = NULL
  BY <1>1, <1>2 DEF Spendable
<1>4. \A u \in DOMAIN coins' : u \notin us => coins'[u] = coins[u]
  BY <1>1
<1>5. Stays
  BY <1>1, <1>3, <1>4 DEF Stays
<1>6. ASSUME NEW u \in DOMAIN coins' PROVE GoodCoin(u)'
  <2>1. GoodCoin(u)
    BY <1>1 DEF IInv
  <2>2. /\ coins'[u] = [conf |-> coins'[u].conf, spent |-> coins'[u].spent]
        /\ coins'[u].conf = coins[u].conf
        /\ coins'[u].spent # NULL => coins'[u].conf # NULL
    <3>1. CASE u \in us
      <4>1. ASSUME NEW conf, NEW spent, coins'[u] = [conf |-> conf, spent |-> spent]
            PROVE  /\ coins'[u] = [conf |-> coins'[u].conf, spent |-> coins'[u].spent]
                   /\ coins'[u].conf = conf
        BY <4>1
      <4> QED
        BY <1>3, <3>1, <4>1
    <3>2. CASE u \notin us
      BY <1>4, <2>1, <3>2 DEF GoodCoin
    <3> QED
      BY <3>1, <3>2
  <2> QED
    BY <2>1, <2>2 DEF GoodCoin
<1> QED
  BY <1>1, <1>3, <1>4, <1>5, <1>6

\* The transaction of a contract spends the deposits that fund it, or none.
LEMMA SettleSpends ==
  ASSUME IInv, NEW c \in Contracts, NEW label \in DOMAIN Outputs[c], Settle(c, label)
  PROVE  /\ contracts[c] = "active" /\ accounts' = accounts /\ DOMAIN deposits' = DOMAIN deposits
         /\ \/ /\ coins' = coins /\ deposits' = [u \in DOMAIN deposits |-> deposits[u]]
               /\ contracts' = [contracts EXCEPT ![c] = "closed"]
            \/ /\ coins' = broadcast_tx(Funds(c), "settlement")
               /\ contracts' = [contracts EXCEPT ![c] = "spent"]
               /\ \A u \in Funds(c) : u \in DOMAIN coins /\ Spendable(u)
               /\ \A u \in DOMAIN deposits :
                    deposits'[u] = IF u \in Funds(c) THEN [deposits[u] EXCEPT !.spent = TRUE]
                                   ELSE deposits[u]
<1> DEFINE us   == Funds(c)
           sigs == [u \in us |-> settle_covenant(deposits[u], label, Server)]
           ok   == \A u \in us :
                     /\ Spendable(u)
                     /\ verify_sig(sigs[u].musig, {sigs[u].agent, sigs[u].owner},
                                   Outputs[c][label], u)
<1>1. /\ contracts[c] = "active" /\ accounts' = accounts
      /\ contracts' = [contracts EXCEPT ![c] = IF ok THEN "spent" ELSE "closed"]
      /\ coins' = IF ok THEN broadcast_tx(us, "settlement") ELSE coins
      /\ deposits' = [u \in DOMAIN deposits |->
                        [deposits[u] EXCEPT !.spent = @ \/ (ok /\ u \in us)]]
  BY DEF Settle
<1>2. ok \in BOOLEAN /\ (ok => \A u \in us : Spendable(u))
  OBVIOUS
<1> HIDE DEF ok, us
<1>3. \A u \in DOMAIN deposits :
        /\ u \in DOMAIN coins
        /\ deposits[u].spent \in BOOLEAN
        /\ deposits[u] = [f \in DepositFields |-> deposits[u][f]]
  BY DEF IInv, GoodDeposit, Has
<1>4. \A u \in us : u \in DOMAIN deposits
  BY DEF us, Funds
<1>5. ASSUME NEW d, d = [f \in DepositFields |-> d[f]], d.spent \in BOOLEAN
      PROVE  [d EXCEPT !.spent = d.spent] = d
  BY <1>5
<1>6. CASE ok
  <2>1. ASSUME NEW u \in DOMAIN deposits
        PROVE  deposits'[u] = IF u \in us THEN [deposits[u] EXCEPT !.spent = TRUE]
                              ELSE deposits[u]
    <3>1. deposits'[u] = [deposits[u] EXCEPT !.spent = deposits[u].spent \/ (ok /\ u \in us)]
      BY <1>1
    <3>2. CASE u \in us
      <4>1. (deposits[u].spent \/ (ok /\ u \in us)) = TRUE
        BY <1>6, <3>2, Zenon
      <4> QED
        BY <3>1, <3>2, <4>1
    <3>3. CASE u \notin us
      <4>1. (deposits[u].spent \/ (ok /\ u \in us)) = deposits[u].spent
        BY <1>3, <3>3, Zenon
      <4> QED
        BY <1>3, <1>5, <3>1, <3>3, <4>1
    <3> QED
      BY <3>2, <3>3
  <2> QED
    BY <1>1, <1>2, <1>3, <1>4, <1>6, <2>1 DEF us
<1>7. CASE ~ok
  <2>1. ASSUME NEW u \in DOMAIN deposits PROVE deposits'[u] = deposits[u]
    <3>1. deposits'[u] = [deposits[u] EXCEPT !.spent = deposits[u].spent \/ (ok /\ u \in us)]
      BY <1>1
    <3>2. (deposits[u].spent \/ (ok /\ u \in us)) = deposits[u].spent
      BY <1>3, <1>7, Zenon
    <3> QED
      BY <1>3, <1>5, <3>1, <3>2
  <2>2. deposits' = [u \in DOMAIN deposits |-> deposits[u]]
    BY <1>1, <2>1
  <2> QED
    BY <1>1, <1>7, <2>2
<1> QED
  BY <1>6, <1>7

\* The transaction of a return spends a deposit without covenant, or nothing.
LEMMA CloseSpends ==
  ASSUME IInv, NEW rate, Close(rate)
  PROVE  \E u \in DOMAIN deposits :
           /\ u \in DOMAIN coins /\ deposits[u].covenant = NULL /\ ~deposits[u].closed
           /\ ~deposits[u].spent
           /\ accounts' = accounts /\ contracts' = contracts
           /\ \/ coins' = coins /\ deposits' = [deposits EXCEPT ![u].closed = FALSE]
              \/ /\ coins' = broadcast_tx({u}, "return") /\ Spendable(u)
                 /\ deposits' = [deposits EXCEPT ![u].closed = TRUE]
<1> DEFINE u  == pending.utxo
           d  == deposits[u]
           tx == get_return_tx([d EXCEPT !.return_psig = pending.body.return_psig,
                                         !.return_rate = rate], Server)
           ok == /\ Spendable(d.utxo) /\ tx.output.value >= DUST_LIMIT
                 /\ verify_sig(tx.musig, {tx.agent, tx.owner}, tx.output, d.utxo)
<1>1. /\ Arrived("close") /\ d.covenant = NULL /\ MayClose(d)
      /\ deposits' = [deposits EXCEPT ![d.utxo].closed = ok]
      /\ coins' = IF ok THEN broadcast_tx({d.utxo}, "return") ELSE coins
      /\ accounts' = accounts /\ contracts' = contracts
  BY DEF Close, verify_close_req
<1>2. u \in DOMAIN deposits
  BY <1>1 DEF IInv, GoodPending, Arrived
<1>3. d.utxo = u /\ u \in DOMAIN coins
  BY <1>2 DEF IInv, GoodDeposit
<1>4. ~d.closed /\ ~d.spent
  BY <1>1 DEF MayClose
<1>5. ok \in BOOLEAN /\ (ok => Spendable(d.utxo))
  OBVIOUS
<1> HIDE DEF ok, u
<1>6. CASE ok
  <2>1. ok = TRUE
    BY <1>5, <1>6, Zenon
  <2> QED
    BY <1>1, <1>2, <1>3, <1>4, <1>5, <2>1
<1>7. CASE ~ok
  <2>1. ok = FALSE
    BY <1>5, <1>7, Zenon
  <2> QED
    BY <1>1, <1>2, <1>3, <1>4, <2>1
<1> QED
  BY <1>6, <1>7

\* No step takes back an output, its confirmation, or the transaction that spent it.
LEMMA CoinsStep ==
  ASSUME IInv, [Next]_vars
  PROVE  Stays /\ \A u \in DOMAIN coins' : GoodCoin(u)'
<1> USE FundingAssumption
<1>1. /\ now \in 0..End /\ accounts \subseteq accounts'
      /\ \A u \in DOMAIN coins : GoodCoin(u)
      /\ \A u \in DOMAIN deposits : GoodDeposit(u)
  BY AccountsStep DEF IInv
<1>2. ASSUME NEW u, u \in DOMAIN coins, coins'[u] = coins[u] PROVE GoodCoin(u)'
  BY <1>1, <1>2 DEF GoodCoin
<1>3. CASE coins' = coins
  BY <1>2, <1>3 DEF Stays
<1>4. CASE Pays
  <2>1. PICK a \in accounts, value \in Values : Pay(a, value)
    BY <1>4 DEF Pays
  <2> DEFINE new == [conf |-> NULL, spent |-> NULL]
  <2>2. \E u : /\ u.addr = get_account_ctx(a).deposit_addr
               /\ coins' = Merge(coins, [v \in {u} |-> new])
    <3> DEFINE u == [ txid |-> Cardinality(DOMAIN coins), value |-> value,
                      addr |-> get_account_ctx(a).deposit_addr ]
    <3>1. coins' = Merge(coins, [v \in {u} |-> new])
      BY <2>1 DEF Pay
    <3>2. u.addr = get_account_ctx(a).deposit_addr
      OBVIOUS
    <3> HIDE DEF u, new
    <3> QED
      BY <3>1, <3>2
  <2>3. PICK u : /\ u.addr = get_account_ctx(a).deposit_addr
                 /\ coins' = Merge(coins, [v \in {u} |-> new])
    BY <2>2
  <2>4. /\ DOMAIN coins' = DOMAIN coins \cup {u}
        /\ \A v \in DOMAIN coins : coins'[v] = coins[v]
        /\ u \notin DOMAIN coins => coins'[u] = new
    BY <2>3 DEF Merge
  <2>5. u \notin DOMAIN coins => GoodCoin(u)'
    BY <1>1, <2>3, <2>4 DEF GoodCoin
  <2>6. Stays
    BY <2>4 DEF Stays
  <2> QED
    BY <1>2, <2>4, <2>5, <2>6
<1>5. CASE Confirms
  <2>1. PICK u \in DOMAIN coins : Confirm(u)
    BY <1>5 DEF Confirms
  <2>2. /\ coins[u].conf = NULL /\ coins' = [coins EXCEPT ![u].conf = now]
        /\ coins[u] = [conf |-> coins[u].conf, spent |-> coins[u].spent]
        /\ coins[u].spent = NULL
    BY <1>1, <2>1 DEF Confirm, GoodCoin
  <2>3. /\ DOMAIN coins' = DOMAIN coins
        /\ \A v \in DOMAIN coins : v # u => coins'[v] = coins[v]
        /\ coins'[u] = [conf |-> now, spent |-> NULL]
    BY <2>2
  <2>4. GoodCoin(u)'
    BY <1>1, <2>3 DEF GoodCoin
  <2>5. Stays
    BY <2>2, <2>3 DEF Stays
  <2> QED
    BY <1>2, <2>3, <2>4, <2>5
<1>6. CASE Closes
  <2>1. PICK u \in DOMAIN deposits :
          /\ u \in DOMAIN coins /\ accounts' = accounts
          /\ coins' = coins \/ (coins' = broadcast_tx({u}, "return") /\ Spendable(u))
    BY <1>6, CloseSpends DEF Closes
  <2> DEFINE us == {u}
  <2>2. Spendable(u) => \A v \in us : v \in DOMAIN coins /\ Spendable(v)
    BY <2>1
  <2>3. coins' = coins \/ (coins' = broadcast_tx(us, "return") /\ Spendable(u))
    BY <2>1
  <2> HIDE DEF us
  <2> QED
    BY <1>3, <2>1, <2>2, <2>3, BroadcastStays
<1>7. CASE Recovers
  <2>1. PICK a \in accounts, u \in DOMAIN coins, rate \in Rates : Recover(a, u, rate)
    BY <1>7 DEF Recovers
  <2>2. Spendable(u) /\ coins' = broadcast_tx({u}, "recovery") /\ accounts' = accounts
    BY <2>1 DEF Recover
  <2> DEFINE us == {u}
  <2>3. (\A v \in us : v \in DOMAIN coins /\ Spendable(v))
        /\ coins' = broadcast_tx(us, "recovery")
    BY <2>2
  <2> HIDE DEF us
  <2> QED
    BY <2>2, <2>3, BroadcastStays
<1>8. CASE Settles
  <2>1. PICK c \in Contracts : \E label \in DOMAIN Outputs[c] : Settle(c, label)
    BY <1>8 DEF Settles
  <2>2. PICK label \in DOMAIN Outputs[c] : Settle(c, label)
    BY <2>1
  <2> QED
    BY <1>3, <2>2, SettleSpends, BroadcastStays
<1> QED
  BY <1>3, <1>4, <1>5, <1>6, <1>7, <1>8, Frames

\* Nothing that a poll was told is taken back, and it stops when it has looked at
\* all but the last answer (client/class/oracle.ts:180-199).
LEMMA PollKept == ASSUME IInv, [Next]_vars PROVE GoodPoll'
<1>1. GoodPoll /\ Stays
  BY CoinsStep DEF IInv
<1>2. CASE poll' = poll
  BY <1>1, <1>2 DEF GoodPoll, Stays
<1>3. ASSUME NEW a \in accounts, PollStart(a) PROVE GoodPoll'
  BY <1>1, <1>3, FundingAssumption DEF PollStart, GoodPoll, Stays, Unspent
<1>4. CASE PollStep
  <2>1. /\ poll # NULL /\ poll.result = "polling" /\ coins' = coins
        /\ poll = [ addr |-> poll.addr, i |-> poll.i, utxos |-> poll.utxos,
                    result |-> poll.result, utxo |-> poll.utxo, before |-> poll.before ]
        /\ poll.i \in Nat
    BY <1>1, <1>4 DEF PollStep, GoodPoll
  <2>2. ASSUME poll.utxos = {}, poll' = [poll EXCEPT !.i = @ + 1, !.utxos = Unspent(poll.addr)]
        PROVE  GoodPoll'
    <3> DEFINE next == Unspent(poll.addr)
    <3>1. poll' = [ addr |-> poll.addr, i |-> poll.i + 1, utxos |-> next,
                    result |-> "polling", utxo |-> poll.utxo, before |-> poll.before ]
      BY <2>1, <2>2
    <3>2. \A u \in next : u \in DOMAIN coins /\ u.addr = poll.addr
      BY DEF Unspent
    <3>3. (next = {} \/ poll.i >= 1) => \A u \in poll.before : coins[u].spent # NULL
      BY <1>1, <2>1, <2>2 DEF GoodPoll, Unspent
    <3> HIDE DEF next
    <3> QED
      BY <1>1, <2>1, <3>1, <3>2, <3>3 DEF GoodPoll
  <2> DEFINE With(result, utxo) ==
               [ addr |-> poll.addr, i |-> poll.i, utxos |-> poll.utxos,
                 result |-> result, utxo |-> utxo, before |-> poll.before ]
  <2>3. ASSUME NEW result, NEW utxo, poll' = With(result, utxo),
               result = "found" => utxo \in poll.utxos,
               result = "timed out" => poll.i >= Retries
        PROVE  GoodPoll'
    <3>1. /\ poll'.addr = poll.addr /\ poll'.i = poll.i /\ poll'.utxos = poll.utxos
          /\ poll'.result = result /\ poll'.utxo = utxo /\ poll'.before = poll.before
          /\ poll' = [ addr |-> poll'.addr, i |-> poll'.i, utxos |-> poll'.utxos,
                       result |-> poll'.result, utxo |-> poll'.utxo, before |-> poll'.before ]
      BY <2>3
    <3>2. result = "found" => utxo \in DOMAIN coins /\ utxo.addr = poll.addr
      BY <1>1, <2>1, <2>3 DEF GoodPoll
    <3> QED
      BY <1>1, <2>1, <2>3, <3>1, <3>2 DEF GoodPoll
  <2>4. ASSUME NEW u \in poll.utxos, poll' = [poll EXCEPT !.result = "found", !.utxo = u]
        PROVE  GoodPoll'
    <3>1. poll' = With("found", u)
      BY <2>1, <2>4
    <3> HIDE DEF With
    <3> QED
      BY <2>3, <2>4, <3>1
  <2>5. ASSUME ~InLoop(poll), poll' = [poll EXCEPT !.result = "timed out"]
        PROVE  GoodPoll'
    <3>1. poll' = With("timed out", poll.utxo)
      BY <2>1, <2>5
    <3>2. poll.i \in Nat
      BY <2>1
    <3>3. poll.i >= Retries
      <4>1. Retries \in Nat
        BY FundingAssumption
      <4>2. ~(poll.i < Retries)
        BY <2>5 DEF InLoop
      <4> QED
        BY <3>2, <4>1, <4>2
    <3> HIDE DEF With
    <3> QED
      BY <2>3, <3>1, <3>3
  <2>6. ASSUME poll' = [poll EXCEPT !.result = "refused"] PROVE GoodPoll'
    <3>1. poll' = With("refused", poll.utxo)
      BY <2>1, <2>6
    <3> HIDE DEF With
    <3> QED
      BY <2>3, <3>1
  <2> QED
    BY <1>4, <2>2, <2>4, <2>5, <2>6 DEF PollStep
<1> QED
  BY <1>2, <1>3, <1>4, Frames

\* What the owner sends is what it signed (deposit/api.ts:33-61).
LEMMA RegisterMade ==
  ASSUME NEW a, GoodAccount(a), NEW rate, NEW utxo, utxo \in DOMAIN coins
  PROVE  LET r == create_register_req(rate, a, a.deposit_pk, utxo) IN
         /\ GoodRequest(r) /\ r.covenant = NULL /\ r.deposit_pk = a.deposit_pk
         /\ Told(r.return_psig.psig)
<1> DEFINE r0   == Merge([return_rate |-> rate, utxo |-> utxo], a)
           psig == create_return_psig(r0, a.deposit_pk)
           r    == create_register_req(rate, a, a.deposit_pk, utxo)
<1>1. r = Merge([return_psig |-> psig, covenant |-> NULL], r0)
  BY DEF create_register_req
<1>2. Has(a, AccountFields) /\ Asked(a)
  BY DEF GoodAccount
<1>3. /\ DOMAIN r0 = AccountFields \cup {"return_rate", "utxo"}
      /\ r0.deposit_pk = a.deposit_pk /\ r0.locktime = a.locktime
      /\ r0.return_addr = a.return_addr /\ r0.agent_tkn = a.agent_tkn
      /\ r0.return_rate = rate /\ r0.utxo = utxo
  BY <1>2 DEF Merge, Has, AccountFields
<1> HIDE DEF r0, psig
<1>4. Has(r, RequestFields) /\ r.return_psig = psig /\ r.covenant = NULL /\ Alike(r, r0)
  BY <1>1, <1>3 DEF Merge, Has, RequestFields, AccountFields, Alike
<1> HIDE DEF r
<1>5. /\ r.deposit_pk = a.deposit_pk /\ r.locktime = a.locktime
      /\ r.return_addr = a.return_addr /\ r.utxo = utxo
  BY <1>3, <1>4 DEF Alike
<1>6. psig = create_return_psig(r, r.deposit_pk)
  BY <1>4, <1>5, AlikeSigns DEF psig
<1>7. Told(psig.psig)
  BY SharesTold DEF psig
<1>8. GoodRequest(r)
  BY <1>2, <1>4, <1>5, <1>6 DEF GoodRequest, Asked
<1> QED
  BY <1>4, <1>5, <1>7, <1>8 DEF r

\* A request to commit has a covenant besides, with a signature on each path.
LEMMA CommitMade ==
  ASSUME NEW a, GoodAccount(a), NEW rate, NEW cid \in Contracts,
         NEW utxo, utxo \in DOMAIN coins
  PROVE  LET r == create_commit_req(rate, cid, a, a.deposit_pk, utxo) IN
         /\ GoodRequest(r) /\ Owned(r.covenant)
         /\ Told(r.return_psig.psig)
         /\ \A l \in DOMAIN r.covenant.psigs : Told(r.covenant.psigs[l])
<1> DEFINE q == create_register_req(rate, a, a.deposit_pk, utxo)
           c == create_covenant(cid, q, a.deposit_pk)
           r == create_commit_req(rate, cid, a, a.deposit_pk, utxo)
<1>1. GoodRequest(q) /\ q.deposit_pk = a.deposit_pk /\ Told(q.return_psig.psig)
  BY RegisterMade
<1>2. r = [q EXCEPT !.covenant = c]
  BY DEF create_commit_req
<1>3. Owned(c)
  BY <1>1, CovenantOwned
<1>4. DOMAIN c.psigs = DOMAIN Outputs[cid]
  BY DEF create_covenant, create_covenant_psigs, get_covenant_sessions
<1>5. \A l \in DOMAIN c.psigs : Told(c.psigs[l])
  BY <1>4, SharesTold
<1> HIDE DEF q, c
<1>6. Has(r, RequestFields) /\ r.covenant = c /\ r.return_psig = q.return_psig /\ Alike(r, q)
  BY <1>1, <1>2 DEF GoodRequest, Has, RequestFields, AccountFields, Alike
<1> HIDE DEF r
<1>7. r.return_psig = create_return_psig(r, r.deposit_pk)
  BY <1>1, <1>6, AlikeSigns DEF GoodRequest, Alike
<1>8. GoodRequest(r)
  BY <1>1, <1>6, <1>7 DEF GoodRequest, Asked, Alike
<1> QED
  BY <1>1, <1>3, <1>5, <1>6, <1>8 DEF r

\* Every signature, of the owner and of the server, is one in a session.
LEMMA SharesStep ==
  ASSUME IInv, [Next]_vars PROVE \A s \in shares' : Told(s)
<1>1. \A s \in shares : Told(s)
  BY DEF IInv
<1>2. \A a \in accounts : GoodAccount(a)
  BY DEF IInv
<1>3. ASSUME poll # NULL /\ poll.result = "found" PROVE poll.utxo \in DOMAIN coins
  BY <1>3 DEF IInv, GoodPoll
<1>4. ASSUME NEW a \in accounts, NEW rate, MakeRegister(a, rate)
      PROVE  \A s \in shares' : Told(s)
  <2> DEFINE r == create_register_req(rate, a, a.deposit_pk, poll.utxo)
  <2>1. shares' = shares \cup Signed(r) /\ poll.utxo \in DOMAIN coins
    BY <1>3, <1>4 DEF MakeRegister, Send
  <2>2. r.covenant = NULL /\ Told(r.return_psig.psig)
    BY <1>2, <2>1, RegisterMade
  <2> HIDE DEF r
  <2>3. Signed(r) = {r.return_psig.psig}
    BY <2>2 DEF Signed
  <2> QED
    BY <1>1, <2>1, <2>2, <2>3
<1>5. ASSUME NEW a \in accounts, NEW rate, NEW c \in Contracts, MakeCommit(a, rate, c)
      PROVE  \A s \in shares' : Told(s)
  <2> DEFINE r == create_commit_req(rate, c, a, a.deposit_pk, poll.utxo)
  <2>1. shares' = shares \cup Signed(r) /\ poll.utxo \in DOMAIN coins
    BY <1>3, <1>5 DEF MakeCommit, Send
  <2>2. /\ Told(r.return_psig.psig)
        /\ \A l \in DOMAIN r.covenant.psigs : Told(r.covenant.psigs[l])
    BY <1>2, <2>1, CommitMade
  <2> HIDE DEF r
  <2>3. \A s \in Signed(r) : \/ s = r.return_psig.psig
                             \/ \E l \in DOMAIN r.covenant.psigs : s = r.covenant.psigs[l]
    BY DEF Signed
  <2> QED
    BY <1>1, <2>1, <2>2, <2>3
<1>6. ASSUME NEW u \in DOMAIN deposits, NEW c \in Contracts, MakeLock(u, c)
      PROVE  \A s \in shares' : Told(s)
  <2> DEFINE covenant == create_covenant(c, deposits[u], deposits[u].deposit_pk)
  <2>1. shares' = shares \cup {covenant.psigs[l] : l \in DOMAIN covenant.psigs}
    BY <1>6 DEF MakeLock, Send, create_lock_req
  <2>2. DOMAIN covenant.psigs = DOMAIN Outputs[c]
    BY DEF create_covenant, create_covenant_psigs, get_covenant_sessions
  <2>3. \A l \in DOMAIN covenant.psigs : Told(covenant.psigs[l])
    BY <2>2, SharesTold
  <2> HIDE DEF covenant
  <2> QED
    BY <1>1, <2>1, <2>3
<1>7. ASSUME NEW u, NEW rate, MakeClose(u, rate) PROVE \A s \in shares' : Told(s)
  <2> DEFINE psig == create_return_psig(Merge([feerate |-> rate], deposits[u]),
                                        deposits[u].deposit_pk).psig
  <2>1. shares' = shares \cup {psig}
    BY <1>7 DEF MakeClose, Send, create_close_req
  <2>2. Told(psig)
    BY SharesTold
  <2> QED
    BY <1>1, <2>1, <2>2
<1>8. ASSUME NEW rate, Close(rate) PROVE \A s \in shares' : Told(s)
  <2> DEFINE r    == [deposits[pending.utxo] EXCEPT !.return_psig = pending.body.return_psig,
                                                    !.return_rate = rate]
             psig == get_return_tx(r, Server).agent
  <2>1. shares' = shares \cup {psig}
    BY <1>8 DEF Close
  <2>2. Told(psig)
    BY SharesTold
  <2> QED
    BY <1>1, <2>1, <2>2
<1>9. ASSUME NEW c, NEW label, Settle(c, label) PROVE \A s \in shares' : Told(s)
  <2> DEFINE Psig(u) == settle_covenant(deposits[u], label, Server).agent
  <2>1. shares' = shares \cup {Psig(u) : u \in Funds(c)}
    BY <1>9 DEF Settle
  <2>2. \A u : Told(Psig(u))
    BY SharesTold
  <2> HIDE DEF Psig
  <2> QED
    BY <1>1, <2>1, <2>2
<1> QED
  BY <1>1, <1>4, <1>5, <1>6, <1>7, <1>8, <1>9, Frames DEF Makes, Closes, Settles

\* What was verified of a deposit is true of it as long as it is of the same account,
\* output and rate.
LEMMA AlikeVerifies ==
  ASSUME NEW d, NEW e, Alike(e, d), e.return_psig = d.return_psig, Registered(d)
  PROVE  Registered(e) /\ \A c : Verified(d, c) => Verified(e, c)
<1>1. /\ get_account_ctx(e) = get_account_ctx(d)
      /\ get_account_agent(e, Server) = get_account_agent(d, Server)
      /\ create_return_psig(e, e.deposit_pk) = create_return_psig(d, e.deposit_pk)
      /\ \A cid : get_covenant_id(cid, e) = get_covenant_id(cid, d)
      /\ \A cid, cvid, pnonce : get_covenant_sessions(cid, e, cvid, pnonce)
                                  = get_covenant_sessions(cid, d, cvid, pnonce)
  BY AlikeSigns
<1>2. /\ e.deposit_pk = d.deposit_pk /\ e.locktime = d.locktime
      /\ e.return_addr = d.return_addr /\ e.agent_tkn = d.agent_tkn /\ e.utxo = d.utxo
  BY DEF Alike
<1>3. verify_session_token(e, Server) /\ verify_utxo(e)
  BY <1>1, <1>2 DEF Registered, verify_session_token, verify_utxo
<1>4. Asked(e) /\ e.return_psig = create_return_psig(e, e.deposit_pk)
  BY <1>1, <1>2 DEF Registered, Asked
<1>5. \A c : Verified(d, c) => Verified(e, c)
  BY <1>1 DEF Verified
<1> QED
  BY <1>3, <1>4, <1>5 DEF Registered

\* A deposit that the server takes in has what was verified of the request.
LEMMA NewDeposit ==
  ASSUME NEW r, GoodRequest(r), verify_register_req(r, Server), NEW locks \in BOOLEAN,
         r.covenant # NULL => Owned(r.covenant) /\ Verified(r, r.covenant)
  PROVE  LET d == create_deposit(r, locks) IN
         /\ Has(d, DepositFields) /\ d.utxo = r.utxo
         /\ d.locked \in BOOLEAN /\ d.closed \in BOOLEAN /\ d.spent \in BOOLEAN
         /\ Registered(d)
         /\ d.covenant # NULL => Owned(d.covenant) /\ Verified(d, d.covenant)
<1> DEFINE d == create_deposit(r, locks)
<1>1. Has(d, DepositFields) /\ Alike(d, r) /\ d.return_psig = r.return_psig
      /\ d.covenant = r.covenant /\ d.locked = locks /\ d.closed = FALSE /\ d.spent = FALSE
  BY DEF create_deposit, Merge, GoodRequest, Has, DepositFields, RequestFields, AccountFields,
         Alike
<1> HIDE DEF d
<1>2. Registered(r)
  BY DEF Registered, GoodRequest, verify_register_req
<1>3. Registered(d) /\ \A c : Verified(r, c) => Verified(d, c)
  BY <1>1, <1>2, AlikeVerifies
<1> QED
  BY <1>1, <1>3 DEF d, Alike

\* Each operation of the server leaves deposits as good as they were: what it takes
\* in was verified, and what it changes later is no part of what was signed.
LEMMA DepositsStep ==
  ASSUME IInv, [Next]_vars
  PROVE  /\ \A u \in DOMAIN deposits : u \in DOMAIN deposits'
         /\ \A u \in DOMAIN deposits' : GoodDeposit(u)'
<1> DEFINE Goal == /\ \A u \in DOMAIN deposits : u \in DOMAIN deposits'
                   /\ \A u \in DOMAIN deposits' : GoodDeposit(u)'
<1>1. (\A u \in DOMAIN deposits : GoodDeposit(u)) /\ GoodPending
      /\ \A u \in DOMAIN coins : u \in DOMAIN coins'
  BY CoinsStep DEF IInv, Stays
<1>2. ASSUME NEW u \in DOMAIN deposits, deposits'[u] = deposits[u] PROVE GoodDeposit(u)'
  BY <1>1, <1>2 DEF GoodDeposit
<1>3. CASE deposits' = deposits
  BY <1>2, <1>3
\* A request that is taken in.
<1>4. ASSUME NEW locks \in BOOLEAN, NEW r, GoodRequest(r), verify_register_req(r, Server),
             r.utxo \notin DOMAIN deposits, deposits' = Merge(deposits, Kept(r, locks)),
             r.covenant # NULL => Owned(r.covenant) /\ Verified(r, r.covenant)
      PROVE  Goal
  <2> DEFINE d == create_deposit(r, locks)
  <2>1. /\ Has(d, DepositFields) /\ d.utxo = r.utxo
        /\ d.locked \in BOOLEAN /\ d.closed \in BOOLEAN /\ d.spent \in BOOLEAN
        /\ Registered(d)
        /\ d.covenant # NULL => Owned(d.covenant) /\ Verified(d, d.covenant)
    BY <1>4, NewDeposit
  <2>2. /\ DOMAIN deposits' = DOMAIN deposits \cup {r.utxo} /\ deposits'[r.utxo] = d
        /\ \A u \in DOMAIN deposits : deposits'[u] = deposits[u]
    BY <1>4 DEF Merge, Kept
  <2> HIDE DEF d
  <2>3. r.utxo \in DOMAIN coins
    BY <1>4 DEF GoodRequest
  <2>4. GoodDeposit(r.utxo)'
    BY <1>1, <2>1, <2>2, <2>3 DEF GoodDeposit
  <2> QED
    BY <1>2, <2>2, <2>4
<1>5. CASE Register
  <2>1. /\ Arrived("register") /\ verify_register_req(pending.body, Server)
        /\ pending.body.utxo \notin DOMAIN deposits
        /\ deposits' = Merge(deposits, Kept(pending.body, FALSE))
    BY <1>5 DEF Register
  <2>2. GoodRequest(pending.body) /\ pending.body.covenant = NULL
    BY <1>1, <2>1 DEF GoodPending, Arrived
  <2>3. PICK r : r = pending.body
    OBVIOUS
  <2> QED
    BY <1>4, <2>1, <2>2, <2>3
<1>6. CASE Commits
  <2>1. PICK locks \in BOOLEAN :
          /\ Arrived("commit") /\ pending.body.utxo \notin DOMAIN deposits
          /\ verify_register_req(pending.body, Server)
          /\ verify_covenant_data(Open(pending.body.covenant.cid), pending.body.covenant,
                                  pending.body, Server)
          /\ deposits' = Merge(deposits, Kept(pending.body, locks))
    BY <1>6 DEF Commits, Commit, verify_commit_req
  <2>2. GoodRequest(pending.body) /\ Owned(pending.body.covenant)
    BY <1>1, <2>1 DEF GoodPending, Arrived
  <2>3. Verified(pending.body, pending.body.covenant)
    BY <2>1 DEF verify_covenant_data, Verified
  <2>4. PICK r : r = pending.body
    OBVIOUS
  <2> QED
    BY <1>4, <2>1, <2>2, <2>3, <2>4
\* A deposit that is kept, with other flags or another covenant.
<1>7. ASSUME NEW u \in DOMAIN deposits, NEW e,
             DOMAIN deposits' = DOMAIN deposits, deposits'[u] = e,
             \A v \in DOMAIN deposits : v # u => deposits'[v] = deposits[v],
             Has(e, DepositFields), Alike(e, deposits[u]),
             e.return_psig = deposits[u].return_psig,
             e.locked \in BOOLEAN, e.closed \in BOOLEAN, e.spent \in BOOLEAN,
             \/ e.covenant \in {NULL, deposits[u].covenant}
             \/ Owned(e.covenant) /\ Verified(deposits[u], e.covenant)
      PROVE  Goal
  <2>1. GoodDeposit(u)
    BY <1>1
  <2>2. Registered(e) /\ \A c : Verified(deposits[u], c) => Verified(e, c)
    BY <1>7, <2>1, AlikeVerifies DEF GoodDeposit
  <2>3. e.covenant # NULL => Owned(e.covenant) /\ Verified(e, e.covenant)
    BY <1>7, <2>1, <2>2 DEF GoodDeposit
  <2>4. e.utxo = u /\ u \in DOMAIN coins
    BY <1>7, <2>1 DEF GoodDeposit, Alike
  <2>5. GoodDeposit(u)'
    BY <1>1, <1>7, <2>2, <2>3, <2>4 DEF GoodDeposit
  <2> QED
    BY <1>2, <1>7, <2>5
<1> HIDE DEF Goal
<1>8. ASSUME Lock PROVE Goal
  <2> DEFINE u == pending.body.utxo
             c == pending.body.covenant
  <2>1. /\ Arrived("lock") /\ verify_lock_req(deposits[u], c)
        /\ deposits' = [deposits EXCEPT ![u].covenant = c, ![u].locked = TRUE]
    BY <1>8 DEF Lock
  <2>2. u \in DOMAIN deposits /\ Owned(c)
    BY <1>1, <2>1 DEF GoodPending, Arrived
  <2>3. Verified(deposits[u], c)
    BY <2>1 DEF verify_lock_req, verify_covenant_data, Verified
  <2> HIDE DEF u, c
  <2>4. GoodDeposit(u)
    BY <1>1, <2>2
  <2> DEFINE e == [[deposits[u] EXCEPT !.covenant = c] EXCEPT !.locked = TRUE]
  <2>5. /\ DOMAIN deposits' = DOMAIN deposits /\ deposits'[u] = e
        /\ \A v \in DOMAIN deposits : v # u => deposits'[v] = deposits[v]
    BY <2>1, <2>2
  <2>6. /\ Has(e, DepositFields) /\ Alike(e, deposits[u])
        /\ e.return_psig = deposits[u].return_psig /\ e.covenant = c /\ e.locked = TRUE
        /\ e.closed = deposits[u].closed /\ e.spent = deposits[u].spent
    BY <2>4 DEF GoodDeposit, Has, DepositFields, RequestFields, AccountFields, Alike
  <2> HIDE DEF e
  <2>7. e.locked \in BOOLEAN /\ e.closed \in BOOLEAN /\ e.spent \in BOOLEAN
    BY <2>4, <2>6 DEF GoodDeposit
  <2> QED
    BY <1>7, <2>2, <2>3, <2>5, <2>6, <2>7
<1>9. ASSUME Closes PROVE Goal
  <2>1. PICK u \in DOMAIN deposits, closed \in BOOLEAN :
          deposits' = [deposits EXCEPT ![u].closed = closed]
    BY <1>9, CloseSpends DEF Closes
  <2>2. GoodDeposit(u)
    BY <1>1
  <2> DEFINE e == [deposits[u] EXCEPT !.closed = closed]
  <2>3. /\ DOMAIN deposits' = DOMAIN deposits /\ deposits'[u] = e
        /\ \A v \in DOMAIN deposits : v # u => deposits'[v] = deposits[v]
    BY <2>1
  <2>4. /\ Has(e, DepositFields) /\ Alike(e, deposits[u])
        /\ e.return_psig = deposits[u].return_psig /\ e.covenant = deposits[u].covenant
        /\ e.locked = deposits[u].locked /\ e.closed = closed /\ e.spent = deposits[u].spent
    BY <2>2 DEF GoodDeposit, Has, DepositFields, RequestFields, AccountFields, Alike
  <2> HIDE DEF e
  <2>5. e.locked \in BOOLEAN /\ e.closed \in BOOLEAN /\ e.spent \in BOOLEAN
    BY <2>2, <2>4 DEF GoodDeposit
  <2> QED
    BY <1>7, <2>3, <2>4, <2>5
<1>10. ASSUME Releases PROVE Goal
  <2>1. PICK u \in DOMAIN deposits :
          deposits' = [deposits EXCEPT ![u].covenant = NULL, ![u].locked = FALSE]
    BY <1>10 DEF Releases, Release
  <2>2. GoodDeposit(u)
    BY <1>1
  <2> DEFINE e == [[deposits[u] EXCEPT !.covenant = NULL] EXCEPT !.locked = FALSE]
  <2>3. /\ DOMAIN deposits' = DOMAIN deposits /\ deposits'[u] = e
        /\ \A v \in DOMAIN deposits : v # u => deposits'[v] = deposits[v]
    BY <2>1
  <2>4. /\ Has(e, DepositFields) /\ Alike(e, deposits[u])
        /\ e.return_psig = deposits[u].return_psig /\ e.covenant = NULL
        /\ e.locked = FALSE /\ e.closed = deposits[u].closed /\ e.spent = deposits[u].spent
    BY <2>2 DEF GoodDeposit, Has, DepositFields, RequestFields, AccountFields, Alike
  <2> HIDE DEF e
  <2>5. e.locked \in BOOLEAN /\ e.closed \in BOOLEAN /\ e.spent \in BOOLEAN
    BY <2>2, <2>4 DEF GoodDeposit
  <2> QED
    BY <1>7, <2>3, <2>4, <2>5
\* The deposits that a contract spends, all at once.
<1>11. ASSUME Settles PROVE Goal
  <2>1. PICK c \in Contracts :
          /\ DOMAIN deposits' = DOMAIN deposits
          /\ \A u \in DOMAIN deposits :
               deposits'[u] \in {deposits[u], [deposits[u] EXCEPT !.spent = TRUE]}
    <3>1. PICK c \in Contracts : \E label \in DOMAIN Outputs[c] : Settle(c, label)
      BY <1>11 DEF Settles
    <3>2. PICK label \in DOMAIN Outputs[c] : Settle(c, label)
      BY <3>1
    <3> QED
      BY <3>2, SettleSpends
  <2>2. ASSUME NEW u \in DOMAIN deposits,
               deposits'[u] = [deposits[u] EXCEPT !.spent = TRUE]
        PROVE  GoodDeposit(u)'
    <3>1. GoodDeposit(u)
      BY <1>1
    <3> DEFINE e == [deposits[u] EXCEPT !.spent = TRUE]
    <3>2. /\ Has(e, DepositFields) /\ Alike(e, deposits[u])
          /\ e.return_psig = deposits[u].return_psig /\ e.covenant = deposits[u].covenant
          /\ e.locked = deposits[u].locked /\ e.closed = deposits[u].closed /\ e.spent = TRUE
      BY <3>1 DEF GoodDeposit, Has, DepositFields, RequestFields, AccountFields, Alike
    <3>3. deposits'[u] = e
      BY <2>2
    <3> HIDE DEF e
    <3>4. Registered(e) /\ \A cov : Verified(deposits[u], cov) => Verified(e, cov)
      BY <3>1, <3>2, AlikeVerifies DEF GoodDeposit
    <3> QED
      BY <1>1, <3>1, <3>2, <3>3, <3>4 DEF GoodDeposit, Alike
  <2> QED
    BY <1>2, <2>1, <2>2 DEF Goal
<1>12. Goal
  BY <1>3, <1>5, <1>6, <1>8, <1>9, <1>10, <1>11, Frames DEF Goal
<1> QED
  BY <1>12 DEF Goal

\* What is on its way was made by the owner, and stays good until it arrives, and
\* after that: it may arrive again.
LEMMA PendingStep == ASSUME IInv, [Next]_vars PROVE GoodPending'
<1>1. /\ GoodPending /\ \A a \in accounts : GoodAccount(a)
      /\ \A u \in DOMAIN deposits : GoodDeposit(u)
      /\ \A u \in DOMAIN coins : u \in DOMAIN coins'
      /\ \A u \in DOMAIN deposits : u \in DOMAIN deposits'
  BY CoinsStep, DepositsStep DEF IInv, Stays
<1>2. ASSUME poll # NULL /\ poll.result = "found" PROVE poll.utxo \in DOMAIN coins
  BY <1>2 DEF IInv, GoodPoll
<1>3. CASE pending' = pending
  BY <1>1, <1>3 DEF GoodPending, GoodRequest
<1>4. ASSUME NEW a \in accounts, NEW rate, MakeRegister(a, rate) PROVE GoodPending'
  <2>1. PICK r : r = create_register_req(rate, a, a.deposit_pk, poll.utxo)
    OBVIOUS
  <2>2. pending' = [kind |-> "register", body |-> r] /\ poll.utxo \in DOMAIN coins
    BY <1>2, <1>4, <2>1 DEF MakeRegister, Send
  <2>3. GoodRequest(r) /\ r.covenant = NULL
    BY <1>1, <2>1, <2>2, RegisterMade
  <2>4. GoodRequest(r)'
    BY <1>1, <2>3 DEF GoodRequest
  <2>5. pending'.kind = "register" /\ pending'.body = r
    BY <2>2
  <2> QED
    BY <2>3, <2>4, <2>5 DEF GoodPending
<1>5. ASSUME NEW a \in accounts, NEW rate, NEW c \in Contracts, MakeCommit(a, rate, c)
      PROVE  GoodPending'
  <2>1. PICK r : r = create_commit_req(rate, c, a, a.deposit_pk, poll.utxo)
    OBVIOUS
  <2>2. pending' = [kind |-> "commit", body |-> r] /\ poll.utxo \in DOMAIN coins
    BY <1>2, <1>5, <2>1 DEF MakeCommit, Send
  <2>3. GoodRequest(r) /\ Owned(r.covenant)
    BY <1>1, <2>1, <2>2, CommitMade
  <2>4. GoodRequest(r)'
    BY <1>1, <2>3 DEF GoodRequest
  <2>5. pending'.kind = "commit" /\ pending'.body = r
    BY <2>2
  <2> QED
    BY <2>3, <2>4, <2>5 DEF GoodPending
<1>6. ASSUME NEW u \in DOMAIN deposits, NEW c \in Contracts, MakeLock(u, c)
      PROVE  GoodPending'
  <2>1. PICK r : r = create_lock_req(deposits[u], c, deposits[u].deposit_pk)
    OBVIOUS
  <2>2. pending' = [kind |-> "lock", body |-> r]
    BY <1>6, <2>1 DEF MakeLock, Send
  <2>3. Owned(r.covenant) /\ r.utxo = deposits[u].utxo
    BY <2>1, CovenantOwned DEF create_lock_req
  <2>4. r.utxo \in DOMAIN deposits'
    BY <1>1, <2>3 DEF GoodDeposit
  <2>5. pending'.kind = "lock" /\ pending'.body = r
    BY <2>2
  <2> QED
    BY <2>3, <2>4, <2>5 DEF GoodPending
<1>7. ASSUME NEW u \in DOMAIN deposits, NEW rate, MakeClose(u, rate) PROVE GoodPending'
  <2>1. pending'.kind = "close" /\ pending'.utxo = u
    BY <1>7 DEF MakeClose, Send
  <2> QED
    BY <1>1, <2>1 DEF GoodPending
<1> QED
  BY <1>3, <1>4, <1>5, <1>6, <1>7, Frames DEF Makes

\* The server lets nobody change a deposit that it closed or spent (data.ts:109-125).
LEMMA ExitStays ==
  ASSUME IInv, [Next]_vars, NEW u \in DOMAIN deposits, deposits[u].closed \/ deposits[u].spent
  PROVE  /\ deposits'[u].covenant = deposits[u].covenant
         /\ deposits'[u].closed = deposits[u].closed
         /\ deposits[u].spent => deposits'[u].spent
<1>1. /\ \A v \in DOMAIN deposits : GoodDeposit(v)
      /\ GoodPending
  BY DEF IInv
<1>2. ASSUME deposits'[u] = deposits[u]
      PROVE  /\ deposits'[u].covenant = deposits[u].covenant
             /\ deposits'[u].closed = deposits[u].closed
             /\ deposits[u].spent => deposits'[u].spent
  BY <1>2
<1>3. CASE Register \/ Commits
  BY <1>2, <1>3 DEF Register, Commits, Commit, Merge, Kept
<1>4. CASE Lock
  <2>1. /\ pending.body.utxo \in DOMAIN deposits
        /\ LET d == deposits[pending.body.utxo] IN ~d.closed /\ ~d.spent
        /\ \A v \in DOMAIN deposits : v # pending.body.utxo => deposits'[v] = deposits[v]
    BY <1>1, <1>4 DEF Lock, verify_lock_req, GoodPending, Arrived
  <2>2. pending.body.utxo # u
    BY <2>1
  <2> QED
    BY <1>2, <2>1, <2>2
<1>5. CASE Closes
  <2>1. PICK v \in DOMAIN deposits :
          /\ ~deposits[v].closed /\ ~deposits[v].spent
          /\ \A w \in DOMAIN deposits : w # v => deposits'[w] = deposits[w]
    BY <1>5, CloseSpends DEF Closes
  <2> QED
    BY <1>2, <2>1
<1>6. CASE Releases
  <2>1. PICK v \in DOMAIN deposits :
          /\ ~deposits[v].closed /\ ~deposits[v].spent
          /\ \A w \in DOMAIN deposits : w # v => deposits'[w] = deposits[w]
    BY <1>6 DEF Releases, Release
  <2> QED
    BY <1>2, <2>1
<1>7. CASE Settles
  <2>1. deposits'[u] \in {deposits[u], [deposits[u] EXCEPT !.spent = TRUE]}
    <3>1. PICK c \in Contracts : \E label \in DOMAIN Outputs[c] : Settle(c, label)
      BY <1>7 DEF Settles
    <3>2. PICK label \in DOMAIN Outputs[c] : Settle(c, label)
      BY <3>1
    <3> QED
      BY <3>2, SettleSpends
  <2>2. Has(deposits[u], DepositFields)
    BY <1>1 DEF GoodDeposit
  <2> QED
    BY <1>2, <2>1, <2>2 DEF Has, DepositFields, RequestFields, AccountFields
<1> QED
  BY <1>2, <1>3, <1>4, <1>5, <1>6, <1>7, Frames

\* Who spent an output is told by the deposit and the contract.
LEMMA SpentStep ==
  ASSUME IInv, [Next]_vars
  PROVE  \A u \in DOMAIN coins' : coins'[u].spent # NULL => SpentBy(u)'
<1> SUFFICES ASSUME NEW u, u \in DOMAIN coins', coins'[u].spent # NULL
             PROVE  SpentBy(u)'
  OBVIOUS
<1>1. /\ Stays /\ accounts \subseteq accounts'
      /\ \A v \in DOMAIN deposits : GoodDeposit(v) /\ v \in DOMAIN deposits'
      /\ u \in DOMAIN coins
      /\ GoodCoin(u)
  BY CoinsStep, AccountsStep, DepositsStep DEF IInv, Stays
<1>2. CASE coins[u].spent # NULL
  <2>1. coins'[u] = coins[u] /\ SpentBy(u)
    BY <1>1, <1>2 DEF Stays, IInv
  <2> DEFINE s == coins[u].spent
  <2>2. CASE /\ s.how = "recovery"
             /\ s.at \in 0..End /\ s.at >= coins[u].conf + lock_time(u.addr.script.sequence)
             /\ \E a \in accounts : get_recovery_ctx(a) = u.addr
                                    /\ u.addr.script.key = a.deposit_pk
    BY <1>1, <2>1, <2>2 DEF SpentBy
  <2>3. CASE /\ s.how = "return"
             /\ u \in DOMAIN deposits /\ deposits[u].closed /\ deposits[u].covenant = NULL
    <3>1. deposits'[u].closed /\ deposits'[u].covenant = NULL /\ u \in DOMAIN deposits'
      BY <1>1, <2>3, ExitStays
    <3> QED
      BY <2>1, <2>3, <3>1 DEF SpentBy
  <2>4. CASE /\ s.how = "settlement"
             /\ u \in DOMAIN deposits /\ deposits[u].spent /\ deposits[u].covenant # NULL
             /\ deposits[u].covenant.cid \in Contracts
             /\ contracts[deposits[u].covenant.cid] = "spent"
    <3> DEFINE cid == deposits[u].covenant.cid
    <3>1. /\ deposits'[u].spent /\ deposits'[u].covenant = deposits[u].covenant
          /\ u \in DOMAIN deposits'
      BY <1>1, <2>4, ExitStays
    <3>2. contracts'[cid] = "spent"
      <4>1. /\ cid \in Contracts /\ contracts[cid] = "spent"
            /\ contracts \in [Contracts -> {"published", "canceled", "active", "closed", "spent"}]
        BY <2>4 DEF IInv
      <4> HIDE DEF cid
      <4>2. CASE contracts' = contracts
        BY <4>1, <4>2
      <4>3. ASSUME NEW c \in Contracts, Cancel(c) \/ Activate(c) PROVE contracts'[cid] = "spent"
        BY <4>1, <4>3 DEF Cancel, Activate
      <4>4. ASSUME Settles PROVE contracts'[cid] = "spent"
        <5>1. PICK c \in Contracts : \E label \in DOMAIN Outputs[c] : Settle(c, label)
          BY <4>4 DEF Settles
        <5>2. contracts[c] = "active"
              /\ \E x : contracts' = [contracts EXCEPT ![c] = x]
          BY <5>1 DEF Settle
        <5> QED
          BY <4>1, <5>2
      <4> QED
        BY <4>2, <4>3, <4>4, Frames
    <3> QED
      BY <2>1, <2>4, <3>1, <3>2 DEF SpentBy
  <2> QED
    BY <2>1, <2>2, <2>3, <2>4 DEF SpentBy
<1>3. CASE coins[u].spent = NULL
  <2>1. coins'[u] # coins[u]
    BY <1>3
  <2>2. ~(coins' = coins \/ Pays)
    BY <1>1, <2>1 DEF Pays, Pay, Merge
  <2>3. ~Confirms
    <3> SUFFICES ASSUME NEW v \in DOMAIN coins, Confirm(v) PROVE FALSE
      BY DEF Confirms
    <3>1. coins' = [coins EXCEPT ![v].conf = now]
      BY DEF Confirm
    <3>2. v # u => coins'[u] = coins[u]
      BY <1>1, <3>1
    <3>3. v = u => coins'[u] = [coins[u] EXCEPT !.conf = now]
      BY <1>1, <3>1
    <3>4. v = u => coins'[u].spent = coins[u].spent
      BY <1>1, <3>3 DEF GoodCoin
    <3> QED
      BY <1>3, <2>1, <3>2, <3>4
  <2>4. CASE Closes
    <3>1. PICK v \in DOMAIN deposits :
            /\ v \in DOMAIN coins /\ deposits[v].covenant = NULL /\ accounts' = accounts
            /\ coins' = broadcast_tx({v}, "return") /\ Spendable(v)
            /\ deposits' = [deposits EXCEPT ![v].closed = TRUE]
      BY <2>2, <2>4, CloseSpends DEF Closes
    <3> DEFINE us == {v}
    <3>2. coins' = broadcast_tx(us, "return") /\ \A w \in us : w \in DOMAIN coins /\ Spendable(w)
      BY <3>1
    <3>3. u \notin us => coins'[u] = coins[u]
      <4> HIDE DEF us
      <4> QED
        BY <1>1, <3>1, <3>2, BroadcastStays
    <3>4. u = v
      BY <2>1, <3>3
    <3>5. coins'[u].spent = [how |-> "return", at |-> now]
      <4>1. u \in us
        BY <3>4
      <4> HIDE DEF us
      <4> QED
        BY <3>1, <3>2, <4>1, BroadcastStays
    <3>6. coins'[u].spent.how = "return"
      BY <3>5
    <3>7. Has(deposits[u], DepositFields)
      BY <1>1, <3>4 DEF GoodDeposit
    <3>8. u \in DOMAIN deposits' /\ deposits'[u] = [deposits[u] EXCEPT !.closed = TRUE]
      BY <3>1, <3>4
    <3>9. deposits'[u].closed /\ deposits'[u].covenant = NULL
      BY <3>1, <3>4, <3>7, <3>8 DEF Has, DepositFields, RequestFields, AccountFields
    <3> QED
      BY <3>6, <3>8, <3>9 DEF SpentBy
  <2>5. CASE Recovers
    <3>1. PICK a \in accounts, v \in DOMAIN coins, rate \in Rates : Recover(a, v, rate)
      BY <2>5 DEF Recovers
    <3> DEFINE us == {v}
    <3>2. /\ coins' = broadcast_tx(us, "recovery") /\ accounts' = accounts
          /\ \A w \in us : w \in DOMAIN coins /\ Spendable(w)
          /\ coins[v].conf # NULL
          /\ now >= coins[v].conf + lock_time(v.addr.script.sequence)
          /\ get_recovery_ctx(a) = v.addr /\ v.addr.script.key = a.deposit_pk
      BY <3>1 DEF Recover, sign_recovery_tx, Spendable, Expired
    <3>3. u \notin us => coins'[u] = coins[u]
      <4> HIDE DEF us
      <4> QED
        BY <1>1, <3>2, BroadcastStays
    <3>4. u = v
      BY <2>1, <3>3
    <3>5. coins'[u].spent = [how |-> "recovery", at |-> now]
      <4>1. u \in us
        BY <3>4
      <4> HIDE DEF us
      <4> QED
        BY <3>2, <4>1, BroadcastStays
    <3>6. coins'[u].spent.how = "recovery" /\ coins'[u].spent.at = now
      BY <3>5
    <3>7. coins'[u].conf = coins[u].conf
      BY <1>1, <3>2, <3>4 DEF Stays
    <3> QED
      BY <3>2, <3>4, <3>6, <3>7 DEF SpentBy, IInv
  <2>6. CASE Settles
    <3>1. PICK c \in Contracts : \E label \in DOMAIN Outputs[c] : Settle(c, label)
      BY <2>6 DEF Settles
    <3>2. PICK label \in DOMAIN Outputs[c] : Settle(c, label)
      BY <3>1
    <3>3. /\ coins' = broadcast_tx(Funds(c), "settlement") /\ accounts' = accounts
          /\ contracts' = [contracts EXCEPT ![c] = "spent"]
          /\ \A v \in Funds(c) : v \in DOMAIN coins /\ Spendable(v)
          /\ DOMAIN deposits' = DOMAIN deposits
          /\ \A v \in DOMAIN deposits :
               deposits'[v] = IF v \in Funds(c) THEN [deposits[v] EXCEPT !.spent = TRUE]
                              ELSE deposits[v]
      BY <2>2, <3>2, SettleSpends
    <3>4. u \in Funds(c) /\ coins'[u].spent = [how |-> "settlement", at |-> now]
      BY <1>1, <2>1, <3>3, BroadcastStays
    <3>5. /\ u \in DOMAIN deposits /\ deposits[u].covenant # NULL
          /\ deposits[u].covenant.cid = c
      BY <3>4 DEF Funds
    <3>6. Has(deposits[u], DepositFields)
      BY <1>1, <3>5 DEF GoodDeposit
    <3>7. deposits'[u].spent /\ deposits'[u].covenant = deposits[u].covenant
      BY <3>3, <3>4, <3>5, <3>6 DEF Has, DepositFields, RequestFields, AccountFields
    <3>8. contracts'[c] = "spent"
      BY <3>3 DEF IInv
    <3>9. coins'[u].spent.how = "settlement"
      BY <3>4
    <3> QED
      BY <3>3, <3>5, <3>7, <3>8, <3>9 DEF SpentBy
  <2> QED
    BY <2>2, <2>3, <2>4, <2>5, <2>6, Frames
<1> QED
  BY <1>2, <1>3

\* Nothing takes a locked deposit from a contract that is active or closed.
LEMMA LockedStays ==
  ASSUME IInv, [Next]_vars, NEW c \in Contracts, contracts[c] \in {"active", "closed"},
         NEW u, LockedTo(c, u)
  PROVE  LockedTo(c, u)'
<1>1. /\ \A v \in DOMAIN deposits : GoodDeposit(v)
      /\ GoodPending
  BY DEF IInv
<1>2. u \in DOMAIN deposits /\ deposits[u].locked
      /\ deposits[u].covenant # NULL /\ deposits[u].covenant.cid = c
  BY DEF LockedTo
<1>3. ASSUME deposits'[u] = deposits[u], u \in DOMAIN deposits' PROVE LockedTo(c, u)'
  BY <1>2, <1>3 DEF LockedTo
<1>4. CASE Register \/ Commits
  BY <1>2, <1>3, <1>4 DEF Register, Commits, Commit, Merge, Kept
<1>5. CASE Lock
  <2>1. /\ ~deposits[pending.body.utxo].locked /\ DOMAIN deposits' = DOMAIN deposits
        /\ \A v \in DOMAIN deposits : v # pending.body.utxo => deposits'[v] = deposits[v]
    BY <1>5 DEF Lock, verify_lock_req
  <2> QED
    BY <1>2, <1>3, <2>1
<1>6. CASE Closes
  <2>1. PICK v \in DOMAIN deposits :
          /\ deposits[v].covenant = NULL /\ DOMAIN deposits' = DOMAIN deposits
          /\ \A w \in DOMAIN deposits : w # v => deposits'[w] = deposits[w]
    BY <1>6, CloseSpends DEF Closes
  <2> QED
    BY <1>2, <1>3, <2>1
<1>7. CASE Releases
  <2>1. PICK v \in DOMAIN deposits :
          /\ contracts[deposits[v].covenant.cid] \in {"published", "canceled"}
          /\ DOMAIN deposits' = DOMAIN deposits
          /\ \A w \in DOMAIN deposits : w # v => deposits'[w] = deposits[w]
    BY <1>7 DEF Releases, Release
  <2> QED
    BY <1>2, <1>3, <2>1
<1>8. CASE Settles
  <2>1. /\ deposits'[u] \in {deposits[u], [deposits[u] EXCEPT !.spent = TRUE]}
        /\ DOMAIN deposits' = DOMAIN deposits
    <3>1. PICK d \in Contracts : \E label \in DOMAIN Outputs[d] : Settle(d, label)
      BY <1>8 DEF Settles
    <3>2. PICK label \in DOMAIN Outputs[d] : Settle(d, label)
      BY <3>1
    <3> QED
      BY <1>2, <3>2, SettleSpends, ZenonT(40)
  <2>2. Has(deposits[u], DepositFields)
    BY <1>1, <1>2 DEF GoodDeposit
  <2>3. deposits'[u].locked /\ deposits'[u].covenant = deposits[u].covenant
    BY <1>2, <2>1, <2>2 DEF Has, DepositFields, RequestFields, AccountFields
  <2> QED
    BY <1>2, <2>1, <2>3 DEF LockedTo
<1>9. CASE deposits' = deposits
  BY <1>2, <1>3, <1>9
<1> QED
  BY <1>4, <1>5, <1>6, <1>7, <1>8, <1>9, Frames

\* The backing of a contract is what was locked to it when it became active.
LEMMA BackingStep == ASSUME IInv, [Next]_vars PROVE GoodBacking'
<1>1. /\ GoodBacking
      /\ contracts \in [Contracts -> {"published", "canceled", "active", "closed", "spent"}]
  BY DEF IInv
<1>2. backing' = [c \in Contracts |-> backing'[c]]
  <2>1. ASSUME NEW c \in Contracts, Activate(c) PROVE backing' = [d \in Contracts |-> backing'[d]]
    <3>1. \E x : backing' = [backing EXCEPT ![c] = x]
      BY <2>1 DEF Activate
    <3> QED
      BY <1>1, <3>1 DEF GoodBacking
  <2> QED
    BY <1>1, <2>1, Frames DEF GoodBacking
<1>3. ASSUME NEW c \in Contracts, contracts'[c] \in {"active", "closed"}, NEW u \in backing'[c]
      PROVE  LockedTo(c, u)'
  <2>1. CASE Activate(c)
    <3>1. backing'[c] = {v \in Funds(c) : deposits[v].locked} /\ deposits' = deposits
      BY <1>1, <2>1 DEF Activate, GoodBacking
    <3> QED
      BY <1>3, <3>1 DEF Funds, LockedTo
  <2>2. CASE ~Activate(c)
    <3>1. backing'[c] = backing[c]
      <4>1. ASSUME NEW d \in Contracts, d # c, Activate(d) PROVE backing'[c] = backing[c]
        BY <1>1, <4>1 DEF Activate, GoodBacking
      <4> QED
        BY <2>2, <4>1, Frames
    <3>2. contracts[c] \in {"active", "closed"}
      <4>1. ASSUME NEW d \in Contracts, Cancel(d) PROVE contracts[c] \in {"active", "closed"}
        BY <1>1, <1>3, <4>1 DEF Cancel
      <4>2. ASSUME NEW d \in Contracts, d # c, Activate(d)
            PROVE  contracts[c] \in {"active", "closed"}
        BY <1>1, <1>3, <4>2 DEF Activate
      <4>3. ASSUME Settles PROVE contracts[c] \in {"active", "closed"}
        <5>1. PICK d \in Contracts : \E label \in DOMAIN Outputs[d] : Settle(d, label)
          BY <4>3 DEF Settles
        <5>2. contracts[d] = "active" /\ \E x : contracts' = [contracts EXCEPT ![d] = x]
          BY <5>1 DEF Settle
        <5> QED
          BY <1>1, <1>3, <5>2
      <4> QED
        BY <1>3, <2>2, <4>1, <4>2, <4>3, Frames
    <3> QED
      BY <1>1, <1>3, <3>1, <3>2, LockedStays DEF GoodBacking
  <2> QED
    BY <2>1, <2>2
<1> QED
  BY <1>2, <1>3 DEF GoodBacking

-----------------------------------------------------------------------------
(* The invariant holds, and what it says.                                   *)

\* There is nothing at first that could be wrong.
LEMMA InitInv == Init => IInv
<1> SUFFICES ASSUME Init PROVE IInv
  OBVIOUS
<1>1. /\ now = 0 /\ made = 0 /\ accounts = {} /\ poll = NULL /\ pending = NULL /\ shares = {}
      /\ contracts = [c \in Contracts |-> "published"]
  BY DEF Init
<1>2. DOMAIN coins = {} /\ DOMAIN deposits = {}
  BY DEF Init
<1>3. backing = [c \in Contracts |-> {}]
  BY DEF Init
<1>4. GoodBacking
  BY <1>3 DEF GoodBacking
<1> QED
  BY <1>1, <1>2, <1>4, FundingAssumption DEF IInv, GoodPending, GoodPoll

\* Each action keeps the invariant, conjunct by conjunct.
LEMMA StepInv == IInv /\ [Next]_vars => IInv'
<1> SUFFICES ASSUME IInv, [Next]_vars PROVE IInv'
  OBVIOUS
<1>1. now' \in 0..End
  <2>1. now \in 0..End
    BY DEF IInv
  <2>2. ASSUME Tick PROVE now' \in 0..End
    BY <2>1, <2>2, FundingAssumption DEF Tick
  <2> QED
    BY <2>1, <2>2, Frames
<1>2. made' \in 0..MaxMade
  <2>1. made \in 0..MaxMade
    BY DEF IInv
  <2>2. ASSUME Makes PROVE made < MaxMade /\ made' = made + 1
    BY <2>2 DEF Makes, MakeRegister, MakeCommit, MakeLock, MakeClose, Send
  <2>3. made < MaxMade /\ made' = made + 1 => made' \in 0..MaxMade
    BY <2>1, FundingAssumption
  <2> QED
    BY <2>1, <2>2, <2>3, Frames
<1>3. contracts' \in [Contracts -> {"published", "canceled", "active", "closed", "spent"}]
  <2> DEFINE Statuses == {"published", "canceled", "active", "closed", "spent"}
  <2>1. contracts \in [Contracts -> Statuses]
    BY DEF IInv
  <2>2. ASSUME NEW c \in Contracts, Cancel(c) \/ Activate(c)
        PROVE  contracts' \in [Contracts -> Statuses]
    BY <2>1, <2>2 DEF Cancel, Activate
  <2>3. ASSUME Settles PROVE contracts' \in [Contracts -> Statuses]
    <3>1. PICK c \in Contracts : \E label \in DOMAIN Outputs[c] : Settle(c, label)
      BY <2>3 DEF Settles
    <3>2. contracts' = [contracts EXCEPT ![c] = "closed"]
          \/ contracts' = [contracts EXCEPT ![c] = "spent"]
      BY <3>1, SettleSpends
    <3> QED
      BY <2>1, <3>2
  <2> QED
    BY <2>1, <2>2, <2>3, Frames
<1> QED
  BY <1>1, <1>2, <1>3, AccountsStep, CoinsStep, PendingStep, DepositsStep, SpentStep, PollKept,
     SharesStep, BackingStep DEF IInv

\* The invariant holds in every reachable state.
THEOREM Invariance == Spec => []IInv
<1> QED
  BY InitInv, StepInv, PTL DEF Spec

\* Accounts are those that were asked for, and a deposit is of an output that pays
\* one of them (core/types/account.ts).
THEOREM FundingTypeCorrect == Spec => []TypeOK
<1>1. IInv => TypeOK
  <2> SUFFICES ASSUME IInv PROVE TypeOK
    OBVIOUS
  <2>1. ASSUME NEW a \in accounts
        PROVE  [f \in DOMAIN a \ {"agent_tkn"} |-> a[f]] \in Requests /\ a.return_addr \in Taproot
    <3>1. Has(a, AccountFields) /\ Asked(a) /\ a.return_addr \in Taproot
      BY DEF IInv, GoodAccount
    <3>2. PICK q \in Requests :
            /\ a.deposit_pk = q.deposit_pk /\ a.locktime = q.locktime
            /\ a.return_addr = q.return_addr
      BY <3>1 DEF Asked
    <3>3. q = [deposit_pk |-> q.deposit_pk, locktime |-> q.locktime,
               return_addr |-> q.return_addr]
      BY RequestAssumption
    <3>4. DOMAIN a \ {"agent_tkn"} = {"deposit_pk", "locktime", "return_addr"}
      BY <3>1 DEF Has, AccountFields
    <3>5. [f \in DOMAIN a \ {"agent_tkn"} |-> a[f]] = q
      BY <3>2, <3>3, <3>4
    <3> QED
      BY <3>1, <3>5
  <2>2. \A u \in DOMAIN deposits : u \in DOMAIN coins /\ deposits[u].utxo = u
    BY DEF IInv, GoodDeposit
  <2>3. {u.addr : u \in DOMAIN coins} \subseteq {get_account_ctx(a).deposit_addr : a \in accounts}
    BY DEF IInv, GoodCoin
  <2> QED
    BY <2>1, <2>2, <2>3 DEF TypeOK, IInv
<1> QED
  BY <1>1, Invariance, PTL

\* No two signatures that are ever made share a nonce, unless they are the same
\* (covenant.ts:136-169, 227-259; session.ts:55-82).
THEOREM NoncesAreUsedOnce == Spec => []NonceOnce
<1>1. IInv => NonceOnce
  <2> SUFFICES ASSUME IInv, NEW s \in shares, NEW t \in shares,
                      s.signer = t.signer, s.nonce = t.nonce
               PROVE  s = t
    BY DEF NonceOnce
  <2>1. Told(s) /\ Told(t)
    BY DEF IInv
  <2> QED
    BY <2>1 DEF Told
<1> QED
  BY <1>1, Invariance, PTL

\* Whatever the server took in completes its own signatures, on each path of the
\* contract and for the return (covenant.ts:68-95, return.ts:99-124).
THEOREM DepositsSettle == Spec => []Settleable
<1>1. IInv => Settleable
  <2> SUFFICES ASSUME IInv, NEW u \in DOMAIN deposits
               PROVE  LET d == deposits[u]  tx == get_return_tx(d, Server) IN
                      /\ verify_sig(tx.musig, {tx.agent, tx.owner}, tx.output, u)
                      /\ d.covenant # NULL =>
                           \A label \in DOMAIN Outputs[d.covenant.cid] :
                             LET s == settle_covenant(d, label, Server) IN
                             verify_sig(s.musig, {s.agent, s.owner},
                                        Outputs[d.covenant.cid][label], u)
    BY DEF Settleable
  <2>1. PICK d : d = deposits[u]
    OBVIOUS
  <2>2. /\ d.utxo = u /\ verify_session_token(d, Server) /\ verify_utxo(d)
        /\ d.return_psig = create_return_psig(d, d.deposit_pk)
        /\ d.covenant # NULL => Owned(d.covenant) /\ Verified(d, d.covenant)
    BY <2>1 DEF IInv, GoodDeposit, Registered
  <2>3. LET tx == get_return_tx(d, Server) IN
        verify_sig(tx.musig, {tx.agent, tx.owner}, tx.output, u)
    BY <2>2, ReturnVerifies
  <2>4. ASSUME d.covenant # NULL, NEW label \in DOMAIN Outputs[d.covenant.cid]
        PROVE  LET s == settle_covenant(d, label, Server) IN
               verify_sig(s.musig, {s.agent, s.owner}, Outputs[d.covenant.cid][label], u)
    BY <2>2, <2>4, CovenantVerifies
  <2> QED
    BY <2>1, <2>3, <2>4
<1> QED
  BY <1>1, Invariance, PTL

\* What was locked to a contract at its activation stays under its covenant until it
\* settles, and is there unless its owner took it back after the lock time, less what
\* the sequence cannot count (validation/deposit.ts:66-77, 134-144).
THEOREM FundsAreKept == Spec => []FundsKept
<1>1. IInv => FundsKept
  <2> SUFFICES ASSUME IInv, NEW c \in Contracts, contracts[c] \in {"active", "closed"},
                      NEW u \in backing[c]
               PROVE  /\ deposits[u].covenant # NULL /\ deposits[u].covenant.cid = c
                      /\ coins[u].spent # NULL =>
                           /\ coins[u].spent.how = "recovery"
                           /\ deposits[u].return_addr = deposits[u].deposit_pk
                           /\ coins[u].spent.at + SEQ_UNIT
                                > coins[u].conf + deposits[u].locktime
    BY DEF FundsKept
  <2> DEFINE d == deposits[u]
  <2>1. u \in DOMAIN deposits /\ d.covenant # NULL /\ d.covenant.cid = c
    BY DEF IInv, GoodBacking, LockedTo
  <2>2. ASSUME coins[u].spent # NULL
        PROVE  /\ coins[u].spent.how = "recovery"
               /\ d.return_addr = d.deposit_pk
               /\ coins[u].spent.at + SEQ_UNIT > coins[u].conf + d.locktime
    <3>1. GoodDeposit(u) /\ u \in DOMAIN coins /\ GoodCoin(u) /\ SpentBy(u)
      BY <2>1, <2>2 DEF IInv, GoodDeposit
    <3>2. /\ coins[u].spent.how = "recovery" /\ coins[u].spent.at \in 0..End
          /\ coins[u].spent.at >= coins[u].conf + lock_time(u.addr.script.sequence)
          /\ \E a \in accounts : get_recovery_ctx(a) = u.addr /\ u.addr.script.key = a.deposit_pk
      BY <2>1, <3>1 DEF SpentBy
    <3>3. PICK a \in accounts :
            get_recovery_ctx(a) = u.addr /\ u.addr.script.key = a.deposit_pk
      BY <3>2
    <3>4. u.addr = [ members |-> {d.deposit_pk, d.agent_tkn.pk},
                     script  |-> [key |-> d.return_addr,
                                  sequence |-> create_sequence(d.locktime)] ]
      BY <3>1 DEF GoodDeposit, Registered, verify_utxo, get_account_ctx, get_recovery_script
    <3>5. u.addr.script.sequence = create_sequence(d.locktime)
          /\ u.addr.script.key = d.return_addr
      BY <3>4
    <3>6. PICK r \in Requests : /\ d.deposit_pk = r.deposit_pk /\ d.locktime = r.locktime
                                /\ d.return_addr = r.return_addr
      BY <3>1 DEF GoodDeposit, Registered, Asked
    <3>7. a.deposit_pk = d.deposit_pk
      <4>1. {a.deposit_pk, a.agent_tkn.pk} = {d.deposit_pk, d.agent_tkn.pk}
        BY <3>3, <3>4 DEF get_recovery_ctx
      <4>2. d.agent_tkn.pk = get_account_agent(d, Server)
        BY <3>1 DEF GoodDeposit, Registered, verify_session_token
      <4>3. PICK q \in Requests : a.deposit_pk = q.deposit_pk
        BY DEF IInv, GoodAccount, Asked
      <4>4. get_account_agent(d, Server) = get_account_agent(r, Server)
        BY <3>6 DEF get_account_agent, get_account_hash
      <4>5. a.deposit_pk # d.agent_tkn.pk
        BY <4>2, <4>3, <4>4, RequestAssumption
      <4> QED
        BY <4>1, <4>5
    <3>8. coins[u].spent.at + SEQ_UNIT > coins[u].conf + d.locktime
      <4> DEFINE at   == coins[u].spent.at
                 conf == coins[u].conf
                 time == lock_time(create_sequence(r.locktime))
      <4>1. conf \in Nat /\ at \in Nat /\ End \in Nat
        BY <2>2, <3>1, <3>2, FundingAssumption DEF GoodCoin
      <4>2. /\ SEQ_UNIT \in Nat /\ r.locktime \in Nat /\ time \in Nat
            /\ r.locktime - SEQ_UNIT < time
        BY SequenceAssumption
      <4>3. at >= conf + time
        BY <3>2, <3>5, <3>6
      <4> HIDE DEF at, conf, time
      <4>4. at + SEQ_UNIT > conf + r.locktime
        BY <4>1, <4>2, <4>3
      <4> QED
        BY <3>6, <4>4 DEF at, conf
    <3> QED
      BY <3>2, <3>3, <3>5, <3>7, <3>8
  <2> QED
    BY <2>1, <2>2
<1> QED
  BY <1>1, Invariance, PTL

\* A poll finds an output of its address, if there was an unspent one when it began
\* and there is a second request (client/class/oracle.ts:180-199).
THEOREM PollsTell == Spec => []PollTells
<1>1. IInv => PollTells
  <2> SUFFICES ASSUME GoodPoll, poll # NULL PROVE PollTells
    BY DEF IInv, PollTells
  <2>1. poll.result = "timed out" /\ Retries > 1 => poll.i >= 2
    <3>1. Retries \in Nat
      BY FundingAssumption
    <3>2. poll.i \in Nat
      BY DEF GoodPoll
    <3>3. poll.result = "timed out" => poll.i >= Retries
      BY DEF GoodPoll
    <3>4. \A i, n \in Nat : i >= n /\ n > 1 => i >= 2
      OBVIOUS
    <3> QED
      BY <3>1, <3>2, <3>3, <3>4
  <2> QED
    BY <2>1 DEF GoodPoll, PollTells
<1> QED
  BY <1>1, Invariance, PTL
=============================================================================
