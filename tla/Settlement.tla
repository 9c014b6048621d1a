----------------------------- MODULE Settlement -----------------------------
(***************************************************************************)
(* What a contract member may rely on, whatever the machine does inside:   *)
(* the commit chain only grows at its end, a recorded vote is never lost,  *)
(* and there is at most one outcome, which comes with a commit and after   *)
(* which nothing changes.                                                  *)
(***************************************************************************)
EXTENDS Integers, Sequences

CONSTANTS Outcomes, NULL

VARIABLES
  chain,     \* the commits, oldest first
  votes,     \* the recorded endorsements
  outcome    \* NULL, then the path that is paid

Init == chain = <<>> /\ votes = {} /\ outcome = NULL

Prefix(s, t) == Len(s) <= Len(t) /\ \A i \in 1..Len(s) : t[i] = s[i]

\* One call of the machine: any number of votes and commits.
Advance ==
  /\ outcome = NULL
  /\ Prefix(chain, chain')
  /\ votes \subseteq votes'
  /\ outcome' \in Outcomes \cup {NULL}
  /\ outcome' # NULL => Len(chain) < Len(chain')

Spec == Init /\ [][Advance]_<<chain, votes, outcome>>
=============================================================================
