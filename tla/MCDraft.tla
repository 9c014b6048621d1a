------------------------------ MODULE MCDraft ------------------------------
(***************************************************************************)
(* An instance of Draft for TLC: the buyer, seller and agent of            *)
(* demo/03_create_proposal.ts, where the agent is paid too, and a role for *)
(* two partners with paths and a payment each, who can do without them.    *)
(* The templates have an effective date, a deadline, both or neither; the  *)
(* last one schedules for any path, so that it needs no member at all.     *)
(***************************************************************************)
EXTENDS Draft

CONSTANTS alice, bob, carol, server

Endorse_(actions, paths, n) ==
  [method |-> "endorse", actions |-> actions, paths |-> paths, param |-> n]
Path_(label, value) == [path |-> label, value |-> value]

Both == Endorse_(<<"spend", "close">>, ANY, 2)

MCRoleTemplate ==
  [ buyer   |-> [ paths |-> <<Path_("refund", 9)>>,
                  programs |-> <<Both, Endorse_(<<"dispute">>, <<"payout">>, 1)>> ],
    seller  |-> [ paths |-> <<Path_("payout", 9)>>,
                  programs |-> <<Both, Endorse_(<<"dispute">>, <<"refund">>, 1)>> ],
    agent   |-> [ payment |-> 1, programs |-> <<Endorse_(<<"resolve">>, ANY, 1)>> ],
    partner |-> [ paths |-> <<Path_("payout", 4), Path_("refund", 4)>>, payment |-> 1,
                  seats |-> 2, programs |-> <<Both>> ] ]

MCSeekers ==
  {alice} \X {"buyer", "partner"} \cup {bob} \X {"seller", "partner"}
    \cup {carol} \X {"agent", "seller"}

Task_(paths) == <<[timer |-> 2, actions |-> <<"spend", "resolve">>, paths |-> paths]>>
Template_(value, paths) == [value |-> value, duration |-> 4, feerate |-> 1, schedule |-> Task_(paths)]
Ends == <<"payout", "refund">>

MCTemplates ==
  { [ proposal |-> Template_(9, Ends), roles |-> {"buyer", "seller"} ],
    [ proposal |-> [effective |-> 104] @@ Template_(10, Ends),
      roles |-> {"buyer", "seller", "agent"} ],
    [ proposal |-> [effective |-> 104, deadline |-> 3] @@ Template_(10, Ends),
      roles |-> {"buyer", "seller", "partner"} ],
    [ proposal |-> [deadline |-> 3] @@ Template_(10, ANY), roles |-> {"partner", "agent"} ] }

MCServerFees == <<[value |-> 1, addr |-> [xpub |-> server, idx |-> 0]]>>

MCEngine == [ actions |-> {"close", "lock", "release", "dispute", "resolve", "spend"},
              methods |-> {"claim", "endorse"} ]
MCPolicy == [ FEERATE_MIN |-> 1, FEERATE_MAX |-> 5, DEADLINE_MIN |-> 2, DEADLINE_MAX |-> 9,
              DURATION_MIN |-> 2, DURATION_MAX |-> 9, EFFECTIVE_MAX |-> 5 ]
=============================================================================
