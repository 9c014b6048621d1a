------------------------------ MODULE Covenant ------------------------------
(***************************************************************************)
(* Accounts, covenants, returns and recoveries: what the two parties of a  *)
(* deposit sign, with which nonces, and what is verified of it             *)
(* (core/lib/session.ts, covenant.ts, return.ts, recovery.ts,              *)
(* core/module/account, core/validation/account.ts and covenant.ts).       *)
(*                                                                         *)
(* A hash is the tuple of what it hashes, a pubkey the name of its signer, *)
(* a nonce the seed it is made from, and a partial signature what went     *)
(* into it.  The curve is external: a combined signature is right when     *)
(* each member of the key signed the same session, with its nonce in it.   *)
(***************************************************************************)
EXTENDS Integers, FiniteSets

CONSTANTS
  NULL,
  Server,           \* the signing device of the escrow server
  Outputs,          \* of each contract, the template of each label
  AccountPolicy,    \* the bounds that the server sets
  Taproot,          \* the addresses that are taproot, each named by its key
  RETURN_TX_VSIZE, RECOVERY_TXSIZE, DUST_LIMIT,
  create_sequence(_),   \* the sequence of a lock time, of @scrow/tapscript
  SEQ_UNIT              \* the seconds that a sequence counts in (BIP 68: 512)

\* The seconds that the network waits for a sequence.
lock_time(sequence) == SEQ_UNIT * sequence

\* { ...g, ...f }: the fields of both, where they share one that of f.
Merge(f, g) ==
  [x \in DOMAIN f \cup DOMAIN g |-> IF x \in DOMAIN f THEN f[x] ELSE g[x]]

-----------------------------------------------------------------------------
(* Accounts and sessions.                                                   *)

get_account_hash(r) == <<r.deposit_pk, r.locktime, r.return_addr>>

\* The server has an identity for each account.
get_account_agent(r, dev) == <<dev, get_account_hash(r)>>

get_deposit_hash(r) == <<get_account_hash(r), r.agent_tkn, r.return_rate, r.utxo>>

get_session_seed(id, signer, stamp) == <<signer, id, stamp>>
get_session_pnonce(seed, signer)    == <<signer, seed>>

gen_session_token(signer, stamp, aux) ==
  [ id |-> aux, pk |-> signer, ts |-> stamp,
    pn |-> get_session_pnonce(get_session_seed(aux, signer, stamp), signer) ]

get_recovery_script(r) == [key |-> r.return_addr, sequence |-> create_sequence(r.locktime)]

\* The key of the deposit, with the recovery script as a leaf, is its address.
get_account_ctx(r) ==
  [ session |-> r.agent_tkn,
    deposit_addr |-> [ members |-> {r.deposit_pk, r.agent_tkn.pk},
                       script  |-> get_recovery_script(r) ] ]

create_account(req, dev, created_at, aux) ==
  Merge([agent_tkn |-> gen_session_token(get_account_agent(req, dev), created_at, aux)], req)

-----------------------------------------------------------------------------
(* Signing sessions.                                                        *)

create_sighash(output, utxo) == <<output, utxo>>

get_covenant_tweak_NoHash(hash_id, pnonces, sighash) == <<hash_id, pnonces>>
get_covenant_tweak(hash_id, pnonces, sighash) == <<hash_id, pnonces, sighash>>
tweak_pnonce(pnonce, tweak) == <<pnonce, tweak>>
\* The two of them, each of which is tweaked the same.
tweak_pnonces(pnonces, tweak) == [of |-> pnonces, tweak |-> tweak]
Among(nonce, nonces) == \E pn \in nonces.of : nonce = tweak_pnonce(pn, nonces.tweak)

get_covenant_session(acct, cvid, output, pnonce, utxo) ==
  LET pnonces == {pnonce, acct.session.pn}
      sighash == create_sighash(output, utxo)
      tweak   == get_covenant_tweak(cvid, pnonces, sighash)
  IN [ acct |-> acct, cvid |-> cvid, tweak |-> tweak,
       musig |-> [ key    |-> acct.deposit_addr, msg |-> sighash,
                   nonces |-> tweak_pnonces(pnonces, tweak) ] ]

musign(signer, musig, seed, tweak) ==
  [ signer |-> signer, musig |-> musig,
    nonce  |-> tweak_pnonce(get_session_pnonce(seed, signer), tweak) ]

verify_psig(musig, psig) ==
  psig.musig = musig /\ psig.signer \in musig.key.members /\ Among(psig.nonce, musig.nonces)

\* Whether a signature of these parts lets a transaction spend the output.
verify_sig(musig, psigs, output, utxo) ==
  /\ musig.key = utxo.addr /\ musig.msg = create_sighash(output, utxo)
  /\ \A psig \in psigs : verify_psig(musig, psig)
  /\ {psig.signer : psig \in psigs} = musig.key.members

create_covenant_psig(session, signer) ==
  musign(signer, session.musig, session.cvid, session.tweak)

settle_covenant_psig(session, signer) ==
  LET tkn == session.acct.session IN
  musign(signer, session.musig, get_session_seed(tkn.id, signer, tkn.ts), session.tweak)

-----------------------------------------------------------------------------
(* Covenants.                                                               *)

get_covenant_id(cid, r) ==
  <<cid, get_deposit_hash(r), {Outputs[cid][l] : l \in DOMAIN Outputs[cid]}>>

get_covenant_sessions(cid, r, cvid, pnonce) ==
  [l \in DOMAIN Outputs[cid] |->
     get_covenant_session(get_account_ctx(r), cvid, Outputs[cid][l], pnonce, r.utxo)]

create_covenant_psigs(sessions, signer) ==
  [l \in DOMAIN sessions |-> create_covenant_psig(sessions[l], signer)]

create_covenant(cid, r, signer) ==
  LET cvid     == get_covenant_id(cid, r)
      pnonce   == get_session_pnonce(cvid, signer)
      sessions == get_covenant_sessions(cid, r, cvid, pnonce)
  IN [ cid |-> cid, cvid |-> cvid, pnonce |-> pnonce,
       psigs |-> create_covenant_psigs(sessions, signer) ]

get_spend_template(label, cid)     == Outputs[cid][label]
get_covenant_psig(label, covenant) == covenant.psigs[label]

\* The session of a label, and the two signatures of it.
settle_covenant(deposit, label, dev) ==
  LET covenant == deposit.covenant
      cvid     == get_covenant_id(covenant.cid, deposit)
      session  == get_covenant_session(get_account_ctx(deposit), cvid,
                    get_spend_template(label, covenant.cid), covenant.pnonce, deposit.utxo)
  IN [ musig |-> session.musig,
       agent |-> settle_covenant_psig(session, get_account_agent(deposit, dev)),
       owner |-> get_covenant_psig(label, covenant) ]

verify_covenant_psigs(covenant, sessions) ==
  \A l \in DOMAIN sessions :
    l \in DOMAIN covenant.psigs /\ verify_psig(sessions[l].musig, covenant.psigs[l])

verify_covenant_data(open, covenant, r, dev) ==
  /\ open
  /\ r.agent_tkn.pk = get_account_agent(r, dev)
  /\ covenant.cvid = get_covenant_id(covenant.cid, r)
  /\ verify_covenant_psigs(covenant,
       get_covenant_sessions(covenant.cid, r, covenant.cvid, covenant.pnonce))

-----------------------------------------------------------------------------
(* Returns, and recoveries by the script.                                   *)

get_return_txfee(feerate) == feerate * RETURN_TX_VSIZE

\* The value is not looked at: it may be dust, or less than nothing.
create_return_template(r) ==
  [addr |-> r.return_addr, value |-> r.utxo.value - get_return_txfee(r.return_rate)]

get_return_session(pnonce, r) ==
  get_covenant_session(get_account_ctx(r), get_deposit_hash(r),
                       create_return_template(r), pnonce, r.utxo)

create_return_psig(r, signer) ==
  LET pnonce == get_session_pnonce(get_deposit_hash(r), signer)
  IN [ pnonce |-> pnonce,
       psig   |-> create_covenant_psig(get_return_session(pnonce, r), signer) ]

get_return_tx(r, dev) ==
  LET session == get_return_session(r.return_psig.pnonce, r) IN
  [ musig |-> session.musig, output |-> create_return_template(r),
    agent |-> settle_covenant_psig(session, get_account_agent(r, dev)),
    owner |-> r.return_psig.psig ]

\* Found out, and not looked at.
verify_return_psig(r, rpsig) ==
  verify_psig(get_return_session(rpsig.pnonce, r).musig, rpsig.psig) \in BOOLEAN

get_recovery_ctx(r) ==
  [members |-> {r.deposit_pk, r.agent_tkn.pk}, script |-> get_recovery_script(r)]

get_recovery_tx(feerate, utxo) == utxo.value - RECOVERY_TXSIZE * feerate >= DUST_LIMIT

\* Signed with the key of the device, for a script with the key of an address.
sign_recovery_tx(r, signer, utxo) ==
  get_recovery_ctx(r) = utxo.addr /\ get_recovery_ctx(r).script.key = signer

-----------------------------------------------------------------------------
(* Requests.                                                                *)

create_register_req(feerate, account, signer, utxo) ==
  LET r == Merge([return_rate |-> feerate, utxo |-> utxo], account)
  IN Merge([return_psig |-> create_return_psig(r, signer), covenant |-> NULL], r)

create_commit_req(feerate, cid, account, signer, utxo) ==
  LET r == create_register_req(feerate, account, signer, utxo)
  IN [r EXCEPT !.covenant = create_covenant(cid, r, signer)]

create_lock_req(deposit, cid, signer) ==
  [utxo |-> deposit.utxo, covenant |-> create_covenant(cid, deposit, signer)]

\* The rate that is asked for is a field of its own, and not the one signed.
create_close_req(deposit, feerate, signer) ==
  [ return_rate |-> feerate,
    return_psig |-> create_return_psig(Merge([feerate |-> feerate], deposit), signer) ]

verify_feerate(rate) == rate \in AccountPolicy.FEERATE_MIN..AccountPolicy.FEERATE_MAX

verify_account_req_AnyAddress(req) ==
  req.locktime \in AccountPolicy.LOCKTIME_MIN..AccountPolicy.LOCKTIME_MAX
verify_account_req(req) ==
  /\ req.return_addr \in Taproot
  /\ req.locktime \in AccountPolicy.LOCKTIME_MIN..AccountPolicy.LOCKTIME_MAX

verify_session_token(r, dev) ==
  LET agent == get_account_agent(r, dev)
      seed  == get_session_seed(r.agent_tkn.id, agent, r.agent_tkn.ts)
  IN r.agent_tkn.pk = agent /\ r.agent_tkn.pn = get_session_pnonce(seed, agent)

verify_utxo_Skipped(r) == TRUE
verify_utxo(r) == r.utxo.addr = get_account_ctx(r).deposit_addr

verify_register_req(r, dev) ==
  /\ verify_feerate(r.return_rate)
  /\ verify_account_req(r)
  /\ verify_session_token(r, dev)
  /\ verify_return_psig(r, r.return_psig)
  /\ verify_utxo(r)

verify_commit_req(open, r, dev) ==
  verify_register_req(r, dev) /\ verify_covenant_data(open, r.covenant, r, dev)
=============================================================================
