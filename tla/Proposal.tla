------------------------------ MODULE Proposal ------------------------------
(***************************************************************************)
(* Proposals, their terms, what a server verifies of one, and the outputs  *)
(* of the contract that is made of it: core/lib/proposal.ts and program.ts,*)
(* core/validation/proposal.ts, core/module/contract/util.ts.              *)
(*                                                                         *)
(* An entry of the terms is a record and an optional field that is not     *)
(* there is NULL.  An expression of labels is ANY ('*') or the sequence of *)
(* the labels that '|' joins.  The id of a proposal is the proposal, that  *)
(* of a contract what it hashes.  The outputs of a transaction are sorted  *)
(* by the code and a bag here.                                             *)
(***************************************************************************)
EXTENDS Integers, SequencesExt

CONSTANTS
  NULL, ANY,
  Engine,           \* the script engine: its actions and its methods
  ProposalPolicy,   \* the bounds that the server sets
  DEADLINE_DEFAULT, DURATION_DEFAULT,
  STAMP_MIN         \* the smallest number that is a date (500,000,000)

\* A deadline is not before the publication (config/policy.ts:13-17), and a date
\* is a number of seconds (schema/base.ts:14).
ASSUME PolicyAssumption ==
  /\ STAMP_MIN \in Nat /\ DEADLINE_DEFAULT \in Int
  /\ ProposalPolicy.DEADLINE_MIN \in Nat

\* A field that is not there has no number.
ASSUME NullAssumption == NULL \notin Int

-----------------------------------------------------------------------------
(* Terms.                                                                   *)

\* The fields of one record, and over them those of another one.
Spread(under, over) ==
  [f \in DOMAIN under \cup DOMAIN over |-> IF f \in DOMAIN over THEN over[f] ELSE under[f]]

\* The entries that are in S, in their order.
Filter(entries, S) ==
  LET kept[n \in 0..Len(entries)] ==
        IF n = 0 THEN <<>>
        ELSE IF entries[n] \in S THEN Append(kept[n - 1], entries[n]) ELSE kept[n - 1]
  IN kept[Len(entries)]

PROPOSAL_DEFAULTS(now) ==
  [ created_at |-> now, duration |-> DURATION_DEFAULT, effective |-> NULL,
    feerate |-> NULL, paths |-> <<>>, payments |-> <<>>, programs |-> <<>>,
    schedule |-> <<>> ]

get_proposal_deadline(template, current) ==
  CASE "deadline" \in DOMAIN template  -> template.deadline
    [] "deadline" \notin DOMAIN template /\ "effective" \in DOMAIN template
                                       -> template.effective - current
    [] OTHER                           -> DEADLINE_DEFAULT

create_proposal(template, now) ==
  Spread(Spread(PROPOSAL_DEFAULTS(now), template),
         [deadline |-> get_proposal_deadline(template, now)])

Total(entries) == SumFunction([i \in DOMAIN entries |-> entries[i].value])

filter_path(label, paths) == Filter(paths, {e \in ToSet(paths) : e.path = label})
get_path_names(paths)     == {e.path : e \in ToSet(paths)}
get_pay_total(payments)   == Total(payments)
get_path_total(paths) ==
  [label \in get_path_names(paths) |-> Total(filter_path(label, paths))]

get_proposal_id(proposal) == proposal

endorse_proposal_Swapped(proposal, pub) == [pub |-> get_proposal_id(proposal), msg |-> pub]
endorse_proposal(proposal, pub) == [pub |-> pub, msg |-> get_proposal_id(proposal)]
verify_endorsement(prop_id, sig) == sig.msg = prop_id

verify_endorsements_First(proposal, signatures) ==
  signatures # <<>> => verify_endorsement(get_proposal_id(proposal), signatures[1])
verify_endorsements(proposal, signatures) ==
  \A sig \in ToSet(signatures) : verify_endorsement(get_proposal_id(proposal), sig)

\* The first entry with the same terms, whoever it is for; 0 if there is none.
get_program_idx(programs, terms) ==
  SelectInSeq(programs,
    LAMBDA e : <<e.method, e.actions, e.paths, e.param>>
                 = <<terms.method, terms.actions, terms.paths, terms.param>>)

-----------------------------------------------------------------------------
(* Verification.                                                            *)

Within(x, min, max) == min <= x /\ x <= max

\* All labels of the expression are labels there are.
check_regex(labels, expr) == expr # ANY => ToSet(expr) \subseteq labels
check_expires(timestamp, expires) == timestamp < expires

check_feerate(p) ==
  p.feerate # NULL =>
    Within(p.feerate, ProposalPolicy.FEERATE_MIN, ProposalPolicy.FEERATE_MAX)

check_payments_AtLeast(p) ==
  LET fees == get_pay_total(p.payments) IN
  /\ fees <= p.value
  /\ \A label \in get_path_names(p.paths) : get_path_total(p.paths)[label] + fees >= p.value
check_payments(p) ==
  LET fees == get_pay_total(p.payments) IN
  /\ fees <= p.value
  /\ \A label \in get_path_names(p.paths) : get_path_total(p.paths)[label] + fees = p.value

\* verify of the engine's method: an endorsement needs no more votes than it
\* has members.
check_params(prog) == prog.method = "endorse" => prog.param \in 1..Len(prog.pubs)

verify_program_entry(prog) == prog.method \in Engine.methods /\ check_params(prog)

check_programs(p) ==
  \A prog \in ToSet(p.programs) :
    /\ check_regex(Engine.actions, prog.actions)
    /\ check_regex(get_path_names(p.paths), prog.paths)
    /\ verify_program_entry(prog)

check_schedule(p) ==
  \A task \in ToSet(p.schedule) :
    /\ check_expires(task.timer, p.duration)
    /\ check_regex(Engine.actions, task.actions)
    /\ check_regex(get_path_names(p.paths), task.paths)

check_stamps_AtDraft(p, now) ==
  /\ Within(p.duration, ProposalPolicy.DURATION_MIN, ProposalPolicy.DURATION_MAX)
  /\ Within(p.deadline, ProposalPolicy.DEADLINE_MIN, ProposalPolicy.DEADLINE_MAX)
  /\ p.effective # NULL =>
       Within(p.effective, p.created_at + p.deadline,
              p.created_at + ProposalPolicy.EFFECTIVE_MAX)
check_stamps(p, now) ==
  /\ Within(p.duration, ProposalPolicy.DURATION_MIN, ProposalPolicy.DURATION_MAX)
  /\ Within(p.deadline, ProposalPolicy.DEADLINE_MIN, ProposalPolicy.DEADLINE_MAX)
  /\ p.effective # NULL =>
       Within(p.effective, now + p.deadline, now + ProposalPolicy.EFFECTIVE_MAX)

\* The schema of a proposal: only its dates can be wrong here.
validate_proposal_data(p) ==
  /\ p.created_at >= STAMP_MIN
  /\ p.effective # NULL => p.effective >= STAMP_MIN

verify_proposal_data(p, now) ==
  /\ check_feerate(p) /\ check_payments(p) /\ check_stamps(p, now)
  /\ check_programs(p) /\ check_schedule(p)

verify_publish_req(req, now) ==
  /\ validate_proposal_data(req.proposal)
  /\ verify_proposal_data(req.proposal, now)
  /\ verify_endorsements(req.proposal, req.endorsements)

-----------------------------------------------------------------------------
(* The contract of a proposal.                                              *)

get_path_vouts(label, paths, payments) ==
  LET vout(e) == [value |-> e.value, addr |-> e.addr]
      vouts(entries) == [i \in DOMAIN entries |-> vout(entries[i])]
  IN ToBag(vouts(filter_path(label, paths)) \o vouts(payments))

create_spend_templates(p, fees) ==
  [label \in get_path_names(p.paths) |->
     get_path_vouts(label, p.paths, p.payments \o fees)]

get_contract_id(outputs, prop_id, stamp) ==
  [prop_id |-> prop_id, stamp |-> stamp, txs |-> {outputs[l] : l \in DOMAIN outputs}]

\* A date without effective date, and a number of seconds with one.
get_deadline(p, published) ==
  IF p.effective # NULL THEN p.effective - published ELSE published + p.deadline

\* The size of the longest template, in outputs.  Math.max of nothing is
\* -Infinity, which the client gets as null.
get_max_vout_size(outputs) ==
  IF DOMAIN outputs = {} THEN NULL
  ELSE Max({SumFunction(outputs[l]) : l \in DOMAIN outputs})

create_contract(req, fees, created_at) ==
  LET outputs == create_spend_templates(req.proposal, fees)
      prop_id == get_proposal_id(req.proposal)
  IN [ cid |-> get_contract_id(outputs, prop_id, created_at), created_at |-> created_at,
       deadline_at |-> get_deadline(req.proposal, created_at),
       endorsements |-> req.endorsements, fees |-> fees, outputs |-> outputs,
       prop_id |-> prop_id, subtotal |-> req.proposal.value + get_pay_total(fees),
       terms |-> req.proposal, tx_bsize |-> get_max_vout_size(outputs) ]

\* The schema of a contract: its dates are dates and its sizes numbers.
validate_contract_data(c) ==
  /\ c.created_at >= STAMP_MIN /\ c.deadline_at >= STAMP_MIN
  /\ c.tx_bsize # NULL
  /\ validate_proposal_data(c.terms)

\* What a member who has the proposal computes of the contract.
verify_contract_publishing(c, p) ==
  LET out == create_spend_templates(p, c.fees) IN
  /\ c.prop_id = get_proposal_id(p)
  /\ c.cid = get_contract_id(out, get_proposal_id(p), c.created_at)
  /\ \A label \in DOMAIN out : label \in DOMAIN c.outputs /\ c.outputs[label] = out[label]

\* What anybody does: the outputs are compared with themselves only.
verify_contract_data(c) ==
  /\ c.prop_id = get_proposal_id(c.terms)
  /\ c.cid = get_contract_id(c.outputs, get_proposal_id(c.terms), c.created_at)
=============================================================================
