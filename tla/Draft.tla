------------------------------- MODULE Draft -------------------------------
(***************************************************************************)
(* A draft from its first member to the contract (client/lib/session.ts,   *)
(* enrollment.ts, membership.ts, client/api/signer/draft.ts, in the order  *)
(* of demo/03 to demo/05).  Members join, leave, endorse and publish in    *)
(* any order, and time passes.  A copy of the session that goes another    *)
(* way is another behaviour, so that one session is enough.                *)
(*                                                                         *)
(* A wallet is external: it makes its addresses in order, from index 0 for *)
(* each new object, and finds its own below the limit it is given.         *)
(***************************************************************************)
EXTENDS Proposal

CONSTANTS
  Members,      \* the signers, each with a pubkey and the xpub of a wallet
  RoleIds,      \* the ids of role policies
  RoleTemplate, \* what each is made from
  Seekers,      \* who may ask for which role
  Templates,    \* what a draft may start from: a proposal template and roles
  ServerFees,   \* the payments that the server adds
  Start, End,   \* bounds: the time at which the draft is made, and the last one
  MaxSigs,      \* bound: endorsements in a session
  MaxLeaves     \* bound: how often members leave

\* A role without payment asks for none.
GET_ROLE_DEFAULTS == [paths |-> <<>>, programs |-> <<>>, payment |-> 0, seats |-> 1]
create_role_policy(template) == Spread(GET_ROLE_DEFAULTS, template)
Role == [r \in RoleIds |-> create_role_policy(RoleTemplate[r])]

\* A policy is one of its schema, and values are numbers (schema/draft.ts:28-36).
ASSUME RoleAssumption ==
  \A r \in RoleIds :
    /\ Role[r].seats \in Nat /\ Role[r].payment \in Nat
    /\ Role[r].paths \in Seq([path : STRING, value : Int])
    /\ Role[r].programs \in Seq(ToSet(Role[r].programs))
    /\ \A t \in ToSet(Role[r].programs) :
         t = [method |-> t.method, actions |-> t.actions, paths |-> t.paths, param |-> t.param]
ASSUME SeekersAssumption == Seekers \subseteq Members \X RoleIds

\* So is a template, and it was not made after the draft (demo/03:20-29).
ASSUME TemplateAssumption ==
  \A template \in Templates :
    LET p == template.proposal IN
    /\ IsFiniteSet(template.roles) /\ template.roles \subseteq RoleIds
    /\ \A f \in {"created_at", "deadline", "effective"} \cap DOMAIN p : p[f] \in Int
    /\ "created_at" \in DOMAIN p => p.created_at <= Start
    /\ \A f \in {"paths", "payments"} \cap DOMAIN p : p[f] \in Seq(ToSet(p[f]))
ASSUME FeesAssumption ==
  /\ ServerFees \in Seq(ToSet(ServerFees))
  /\ \A e \in ToSet(ServerFees) : e.value \in Int /\ e.addr.xpub \notin Members
ASSUME BoundsAssumption ==
  /\ Start \in Nat /\ End \in Nat /\ Start <= End /\ STAMP_MIN <= Start
  /\ MaxSigs \in Nat

VARIABLES
  now,          \* the clock
  session,      \* the draft session: members, proposal, roles, sigs
  leaves,       \* how often somebody left, for the bound
  published,    \* whether the session was published: it stays as it is then
  contract      \* the contract that the server made of it, NULL if it refused

vars == <<now, session, leaves, published, contract>>

-----------------------------------------------------------------------------
(* Membership and enrollment.                                               *)

new_address(pub, idx) == [xpub |-> pub, idx |-> idx]
has_address(pub, addr, limit) == addr.xpub = pub /\ addr.idx < limit
AddrLimit == 10

has_membership(pub, s) == \E m \in ToSet(s.members) : m.pub = pub
claim_membership(members, pub) == SelectInSeq(members, LAMBDA m : m.pub = pub)
has_endorsements(members, sigs) ==
  {m.pub : m \in ToSet(members)} \subseteq {sig.pub : sig \in ToSet(sigs)}

has_role_policy(pid, s) == pid \in s.roles

Holders(pid, members) == Filter(members, {m \in ToSet(members) : m.pid = pid})
has_open_roles_Ignored(pid, s) == TRUE
has_open_roles(pid, s) ==
  Len(Holders(pid, s.members)) < Role[pid].seats

\* The count of a role is read once, before its members are looked at.
tabulate_slots(members, roles) ==
  [r \in roles |-> IF \E m \in ToSet(members) : m.pid = r THEN 1 ELSE 0]
has_full_roles(members, roles) ==
  \A r \in roles : tabulate_slots(members, roles)[r] = Role[r].seats

add_program(programs, terms, pub) ==
  LET idx == get_program_idx(programs, terms) IN
  IF idx = 0 THEN Append(programs, Spread(terms, [pubs |-> <<pub>>]))
  ELSE [programs EXCEPT ![idx].pubs = Append(@, pub)]
add_programs(programs, policy, pub) ==
  LET added[n \in 0..Len(policy.programs)] ==
        IF n = 0 THEN programs ELSE add_program(added[n - 1], policy.programs[n], pub)
  IN added[Len(policy.programs)]

add_member_data(pub, policy, p) ==
  LET n == Len(policy.paths) IN
  [p EXCEPT
    !.paths = @ \o [i \in 1..n |-> [path |-> policy.paths[i].path,
                                    value |-> policy.paths[i].value,
                                    addr |-> new_address(pub, i - 1)]],
    !.payments = IF policy.payment > 0
                 THEN Append(@, [value |-> policy.payment, addr |-> new_address(pub, n)])
                 ELSE @,
    !.programs = add_programs(@, policy, pub)]

\* An entry for this member only goes; from another one, the member does.
RemovePub(programs, pub) ==
  LET others == Filter(programs, {e \in ToSet(programs) : e.pubs # <<pub>>}) IN
  [i \in DOMAIN others |-> [others[i] EXCEPT !.pubs = RemoveFirst(@, pub)]]

\* The limit for the payments is their own number, while the address of one
\* comes after those of the paths of its role.
Foreign(pub, entries) ==
  Filter(entries, {e \in ToSet(entries) : ~has_address(pub, e.addr, Len(entries))})
rem_member_data_KeepsPrograms(pub, p) ==
  [p EXCEPT !.paths = Foreign(pub, @), !.payments = Foreign(pub, @),
            !.programs = Filter(@, {e \in ToSet(@) : e.pubs # <<pub>>})]
rem_member_data(pub, p) ==
  [p EXCEPT !.paths = Foreign(pub, @), !.payments = Foreign(pub, @),
            !.programs = RemovePub(@, pub)]

Owned(pub, entries) ==
  Filter(entries, {e \in ToSet(entries) : has_address(pub, e.addr, AddrLimit)})

get_enrollment(pub, p) ==
  [ paths   |-> {<<e.path, e.value>> : e \in ToSet(Owned(pub, p.paths))},
    payment |-> Total(Owned(pub, p.payments)) ]

\* A payment that is too large is refused, not one that is too small; and the
\* programs of the role are looked up among themselves.
verify_member_data(pub, p, policy) ==
  LET rdata == get_enrollment(pub, p) IN
  /\ policy.payment > 0 => rdata.payment <= policy.payment
  /\ \A e \in ToSet(policy.paths) : <<e.path, e.value>> \in rdata.paths

get_role_paths_totals(roles) ==
  [label \in UNION {get_path_names(Role[r].paths) : r \in roles} |->
     SumFunction([r \in roles |-> Total(filter_path(label, Role[r].paths))])]
get_role_payment_totals(roles) == SumFunction([r \in roles |-> Role[r].payment])

-----------------------------------------------------------------------------
(* The operations on a session.                                             *)

create_session(template, t) ==
  [ members |-> <<>>, proposal |-> create_proposal(template.proposal, t),
    roles |-> template.roles, sigs |-> <<>> ]

join_session(pub, pid, s) ==
  [s EXCEPT !.members  = Append(@, [pub |-> pub, pid |-> pid]),
            !.proposal = add_member_data(pub, Role[pid], @)]

leave_session(pub, s) ==
  [s EXCEPT !.members  = Filter(@, {m \in ToSet(@) : m.pub # pub}),
            !.proposal = rem_member_data(pub, @)]

reset_session(s) == [s EXCEPT !.sigs = <<>>]

endorse_session(s, pub) == [s EXCEPT !.sigs = Append(@, endorse_proposal(s.proposal, pub))]

verify_session(s) ==
  /\ validate_proposal_data(s.proposal)
  /\ \A m \in ToSet(s.members) : verify_member_data(m.pub, s.proposal, Role[m.pid])

publish_session(s) == [endorsements |-> s.sigs, proposal |-> s.proposal]

\* What is there and what all roles ask for.
tabulate_session(s) ==
  [ path_tabs  |-> get_path_total(s.proposal.paths),
    pay_total  |-> get_pay_total(s.proposal.payments),
    role_tabs  |-> get_role_paths_totals(s.roles),
    role_total |-> get_role_payment_totals(s.roles) ]

-----------------------------------------------------------------------------
Init ==
  /\ now = Start
  /\ \E template \in Templates : session = create_session(template, Start)
  /\ leaves = 0 /\ published = FALSE /\ contract = NULL

Tick ==
  /\ ~published /\ now < End
  /\ now' = now + 1
  /\ UNCHANGED <<session, leaves, published, contract>>

Join(pub, pid) ==
  /\ ~published
  /\ <<pub, pid>> \in Seekers /\ has_role_policy(pid, session)
  /\ ~has_membership(pub, session)
  /\ has_open_roles(pid, session)
  /\ session' = join_session(pub, pid, session)
  /\ UNCHANGED <<now, leaves, published, contract>>

Leave(pub) ==
  /\ ~published /\ leaves < MaxLeaves
  /\ claim_membership(session.members, pub) # 0
  /\ session' = leave_session(pub, session)
  /\ leaves' = leaves + 1
  /\ UNCHANGED <<now, published, contract>>

\* Whether the signer is a member is not asked.
Endorse(pub) ==
  /\ ~published
  /\ Len(session.sigs) < MaxSigs
  /\ verify_session(session)
  /\ session' = endorse_session(session, pub)
  /\ UNCHANGED <<now, leaves, published, contract>>

Reset ==
  /\ ~published
  /\ session' = reset_session(session)
  /\ UNCHANGED <<now, leaves, published, contract>>

\* The server verifies the request and creates the contract, or refuses.  An
\* answer that takes its time is one to a draft that was published later.
Publish ==
  /\ ~published
  /\ validate_proposal_data(session.proposal)
  /\ verify_endorsements(session.proposal, session.sigs)
  /\ published' = TRUE
  /\ LET req == publish_session(session) IN
     contract' = IF verify_publish_req(req, now) THEN create_contract(req, ServerFees, now)
                 ELSE NULL
  /\ UNCHANGED <<now, session, leaves>>

Next ==
  \/ Tick \/ Reset \/ Publish
  \/ \E pub \in Members : \/ Leave(pub) \/ Endorse(pub)
                          \/ \E pid \in RoleIds : Join(pub, pid)

Spec == Init /\ [][Next]_vars
-----------------------------------------------------------------------------

\* The session is one of its members and signatures, and a contract comes of
\* what was published (types/draft.ts:51-56).
TypeOK ==
  /\ now \in Start..End
  /\ DOMAIN session = {"members", "proposal", "roles", "sigs"}
  /\ {<<m.pub, m.pid>> : m \in ToSet(session.members)} \subseteq Seekers
  /\ {sig.pub : sig \in ToSet(session.sigs)} \subseteq Members
  /\ Len(session.sigs) <= MaxSigs
  /\ contract # NULL => published

RoleOf(pub) == {m.pid : m \in {x \in ToSet(session.members) : x.pub = pub}}
Terms(prog) == [f \in DOMAIN prog \ {"pubs"} |-> prog[f]]

\* The payment of a member, and payments that are of members only.
PaymentOf(m) ==
  [value |-> Role[m.pid].payment, addr |-> new_address(m.pub, Len(Role[m.pid].paths))]
NoLeftover(payments, members) ==
  IsInjective(payments) /\ ToSet(payments) \subseteq {PaymentOf(m) : m \in ToSet(members)}

\* Whoever joined and left before, the terms are those of the roles of the
\* members: each path and program of a role is there once for each member of
\* it, nobody else is in any, and no program is left without members.  A
\* payment that a member left behind is one that came after the paths of a
\* role, where rem_member_data need not find it (enrollment.ts:75-130).
Enrolled ==
  LET p == session.proposal IN
  /\ \A pub \in Members :
       LET mine == Filter(p.paths, {e \in ToSet(p.paths) : e.addr.xpub = pub})
           due  == UNION {ToSet(Role[r].programs) : r \in RoleOf(pub)} IN
       /\ RoleOf(pub) = {} => mine = <<>>
       /\ \A r \in RoleOf(pub) :
            /\ [i \in DOMAIN mine |-> <<mine[i].path, mine[i].value>>]
                 = [i \in DOMAIN Role[r].paths |-> <<Role[r].paths[i].path,
                                                    Role[r].paths[i].value>>]
            /\ Role[r].payment > 0 => PaymentOf([pub |-> pub, pid |-> r]) \in ToSet(p.payments)
       /\ {Terms(prog) : prog \in {x \in ToSet(p.programs) : Contains(x.pubs, pub)}} = due
  /\ \A prog \in ToSet(p.programs) : prog.pubs # <<>> /\ IsInjective(prog.pubs)
  /\ \A e \in ToSet(p.payments) : RoleOf(e.addr.xpub) = {} => e.addr.idx > 0

\* A session that says it is full has every seat taken, and its proposal pays
\* on each path what the roles ask for together; it need not ever say so, for
\* the count of a role stops at one (enrollment.ts:178-216, session.ts:91-130).
FullIsFull ==
  has_full_roles(session.members, session.roles) =>
    LET tab == tabulate_session(session) IN
    /\ \A r \in session.roles :
         Len(Holders(r, session.members)) = Role[r].seats
    /\ tab.path_tabs = tab.role_tabs
    /\ tab.pay_total >= tab.role_total

\* A request that has an endorsement of each member has one of each that is of
\* the proposal in it, although signatures are kept while members come and go
\* and are looked up by pubkey (session.ts:144-151, membership.ts:59-65).
PublishedEndorsed ==
  published /\ has_endorsements(session.members, session.sigs) =>
    \A m \in ToSet(session.members) :
      endorse_proposal(session.proposal, m.pub) \in ToSet(session.sigs)

\* A contract pays out its value and the fees of the server on each path, and
\* each member what the role asks for, unless a payment of somebody who left
\* is among them (contract/util.ts:93-112, validation/proposal.ts:66-85).
OutputsPayRoles ==
  contract # NULL =>
    LET Value(vout, to) ==
          SumFunction([e \in {x \in DOMAIN vout : x.addr.xpub \in to} |-> vout[e] * e.value])
        Payees(vout) == {e.addr.xpub : e \in DOMAIN vout}
    IN \A label \in DOMAIN contract.outputs :
         LET vout == contract.outputs[label] IN
         /\ Value(vout, Payees(vout)) = contract.subtotal
         /\ NoLeftover(session.proposal.payments, session.members) =>
              \A m \in ToSet(session.members) :
                Value(vout, {m.pub})
                  = Role[m.pid].payment + Total(filter_path(label, Role[m.pid].paths))

\* Members who verify the contract find what they proposed and signed, and data
\* that are well formed where there is a path to measure and no effective date
\* (validation/contract.ts:74-115, contract/util.ts:63-87).  However long the
\* draft took, a contract with an effective date leaves its members the time to
\* fund it that they agreed on before that date (test/wip/wiki/draft.md:67,
\* lib/proposal.ts:150, validation/proposal.ts:141-146).
ContractVerifies ==
  contract # NULL =>
    /\ verify_contract_publishing(contract, session.proposal)
    /\ verify_contract_data(contract)
    /\ verify_endorsements(contract.terms, contract.endorsements)
    /\ contract.terms.effective = NULL /\ contract.terms.paths # <<>>
         => validate_contract_data(contract)
    /\ contract.terms.effective # NULL
         => contract.created_at + contract.terms.deadline <= contract.terms.effective

\* The deadline of a contract is a date, "Timestamp for when a contract must be
\* funded" (docs/data/contract.md:25, a stamp in schema/contract.ts:146), also
\* of one with an effective date (docs/data/proposal.md:24).
DeadlineIsDate == contract # NULL => contract.deadline_at >= STAMP_MIN
=============================================================================
