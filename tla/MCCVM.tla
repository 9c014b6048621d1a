------------------------------- MODULE MCCVM -------------------------------
(***************************************************************************)
(* Instances of CVM for TLC.  Times are seconds scaled down: the machine   *)
(* is active from 10 and expires at 15.                                    *)
(***************************************************************************)
EXTENDS CVM

CONSTANTS alice, bob, carol

Endorse(n, m, actions, paths) ==
  [method |-> "endorse", param |-> n, members |-> m, actions |-> actions, paths |-> paths]
HashLock(h, m, actions, paths) ==
  [method |-> "claim", param |-> h, members |-> m, actions |-> actions, paths |-> paths]

Say(prog, action, path, sigs, stamp) ==
  [prog |-> get_program_id(prog), action |-> action, path |-> path,
   sigs |-> sigs, args |-> 0, stamp |-> stamp]

-----------------------------------------------------------------------------
(* Locks, hash locks and labels inside labels: `pay' occurs in `payall', so *)
(* a program for pay reaches payall, and a program that may lock a path     *)
(* makes it start locked.  The last program has the id of the one before.   *)
(* The statements include one for a path that is no path of the contract,   *)
(* one for a program that is shadowed, and one by a signer who is no member.*)
(* The first task locks pay, if nobody spent or disputed it before.  Then   *)
(* two tasks settle the contract: one resolves a dispute, and, where there  *)
(* is none, the other closes the machine, disputes pay and resolves it.     *)

HoldPaths == <<"pay", "payall">>
HoldSub   == {<<"pay", "payall">>, <<"pay", "payment">>}

Arbiter   == Endorse(1, <<carol>>, <<"resolve">>, ANY)
Holder    == Endorse(1, <<alice>>, <<"lock", "release">>, <<"payall">>)
Objector  == Endorse(1, <<bob>>, <<"dispute">>, ANY)
Pair      == Endorse(2, <<alice, bob>>, <<"spend">>, <<"pay">>)
Claim     == HashLock(7, <<bob>>, <<"spend">>, <<"pay">>)
ClaimTwin == HashLock(7, <<bob>>, <<"resolve">>, ANY)

Parties   == Endorse(2, <<alice, carol>>, <<"close">>, ANY)

HoldPrograms == <<Holder, Objector, Pair, Arbiter, Claim, ClaimTwin, Parties>>
HoldSchedule ==
  << [ts |-> 4, actions |-> <<"resolve">>, paths |-> ANY],
     [ts |-> 4, actions |-> <<"close", "dispute", "resolve">>, paths |-> <<"pay">>],
     [ts |-> 3, actions |-> <<"release", "lock">>, paths |-> <<"payall", "pay">>] >>

Show(preimage, prog, action, path, sigs, stamp) ==
  [Say(prog, action, path, sigs, stamp) EXCEPT !.args = preimage]

HoldStatements ==
  { Say(Holder,   "release", "payall",  <<alice>>,        10),
    Say(Objector, "dispute", "pay",     <<bob>>,          11),
    Say(Pair,     "spend",   "pay",     <<bob, carol>>,   11),
    Say(Pair,     "spend",   "pay",     <<alice>>,        12),
    Say(Pair,     "spend",   "payment", <<alice, bob>>,   10),
    Say(Arbiter,  "resolve", "pay",     <<carol>>,        13),
    Say(Parties,  "close",   NULL,      <<alice, carol>>, 10),
    Show(7, Claim, "spend",  "payall",  <<bob>>,          12),
    Show(8, Claim, "spend",  "pay",     <<bob>>,          10),
    Show(7, ClaimTwin, "resolve", "pay", <<bob>>,         12) }
=============================================================================
