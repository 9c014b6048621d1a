------------------------------ MODULE MCReplay ------------------------------
(***************************************************************************)
(* An instance of Replay for TLC: the agreement of vectors/escrow.json     *)
(* with fewer powers, an arbiter who may also close it, and its two tasks. *)
(* Statements are of a time before and of the very time of the first task; *)
(* one names no path where there must be one, one a path that the engine   *)
(* refuses by its name, and one an action that only looks like one.        *)
(***************************************************************************)
EXTENDS Replay

CONSTANTS alice, bob, carol

Program(n, m, actions, paths) ==
  [method |-> "endorse", param |-> n, members |-> m, actions |-> actions, paths |-> paths]
Template(action, path) == [method |-> "endorse", action |-> action, path |-> path, args |-> 0]

MCPaths == <<"payout", "return", "null">>
MCSubLabel == {<<"close", "closed">>}
MCPrograms ==
  << Program(1, <<alice>>, <<"dispute">>, ANY),
     Program(2, <<alice, bob>>, <<"spend">>, ANY),
     Program(1, <<carol>>, <<"resolve", "close">>, ANY) >>
MCSchedule ==
  << [ts |-> 4, actions |-> ANY,           paths |-> <<"payout", "return">>],
     [ts |-> 2, actions |-> <<"resolve">>, paths |-> <<"return">>] >>
MCTemplates ==
  { Template("dispute", "payout"), Template("spend", "payout"), Template("spend", NULL),
    Template("resolve", "return"), Template("close", NULL),
    Template("dispute", "null"), Template("closed", NULL) }
=============================================================================
