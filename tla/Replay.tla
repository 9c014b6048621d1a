------------------------------- MODULE Replay -------------------------------
(***************************************************************************)
(* Statements from their making to the audit of the machine they drive:    *)
(* signers write and endorse them (client/api/signer/witness.ts), a server *)
(* verifies and evaluates them one by one and answers with a receipt, and  *)
(* a client, who has what the server published, evaluates the same in a    *)
(* machine of its own and compares (core/validation/witness.ts and         *)
(* contract.ts, demo/09, demo/10, test/src/e2e/settle.test.ts).            *)
(*                                                                         *)
(* The server's machine is CVM, step by step.  The client's is the same    *)
(* engine as a function of the statements, for it is called in one go and  *)
(* nobody else sees it.  The server is not in the repository: it is taken  *)
(* to publish every statement that was evaluated, in that order, and to    *)
(* run the schedule whenever it likes.  Calls is a bound.                  *)
(***************************************************************************)
EXTENDS CVM, SequencesExt

CONSTANTS
  Signers, Templates, Stamps,     \* who writes statements, of what, and of which time
  MaxSigs, Calls                  \* bounds: signatures of a statement, calls of the engine

ASSUME ReplayAssumption == Stamps \subseteq Nat /\ MaxSigs \in Nat /\ Calls \in Nat

VARIABLES
  draft,        \* the statement that goes round among the signers
  given,        \* the statement the server is evaluating
  published,    \* the statements that were evaluated, in that order
  log,          \* the calls of the server's engine that did something, and when
  receipt,      \* the answer to the last statement
  contract      \* what the contract says of its machine, once it is closed

audit == <<draft, given, published, log, receipt, contract>>

-----------------------------------------------------------------------------
(* Statements (core/module/witness, core/validation/witness.ts).            *)

\* The first program that matches; a path of null asks for nothing.
get_program(query) ==
  SelectInSeq(Programs, LAMBDA p :
    /\ p.method = query.method
    /\ regex(query.action, p.actions)
    /\ query.path # NULL => regex(query.path, p.paths)
    /\ query.includes \subseteq {p.members[i] : i \in DOMAIN p.members})

endorse_witness(signer, w) == [w EXCEPT !.sigs = Append(@, signer)]

create_witness(i, t, stamp) ==
  [ prog |-> get_program_id(Programs[i]), action |-> t.action, path |-> t.path,
    args |-> t.args, stamp |-> stamp, sigs |-> <<>> ]

\* The id covers everything but the signatures.
get_witness_id(w) ==
  [prog |-> w.prog, action |-> w.action, path |-> w.path, args |-> w.args, stamp |-> w.stamp]

verify_witness_sigs(program, w) ==
  \A k \in DOMAIN w.sigs : \E i \in DOMAIN program.members : program.members[i] = w.sigs[k]

\* Whether an action may go without a path, or with one, is not looked at.
Permits(m, w) ==
  \E i \in DOMAIN Programs :
    /\ IsFound(i, w.prog)
    /\ regex(w.action, Programs[i].actions)
    /\ w.path # NULL => regex(w.path, Programs[i].paths) /\ w.path \in Paths
    /\ verify_witness_sigs(Programs[i], w)

verify_witness_data_AnyCommit(m, w) ==
  Permits(m, w) /\ ActiveAt <= w.stamp /\ w.stamp < ExpiresAt /\ m.output = NULL
verify_witness_data(m, w) ==
  /\ Permits(m, w)
  /\ ActiveAt <= w.stamp /\ m.commit_at <= w.stamp /\ w.stamp < ExpiresAt
  /\ m.output = NULL

create_receipt_NoOutput(m, w) ==
  [wid |-> get_witness_id(w), head |-> m.head, output |-> NULL, step |-> m.step]
create_receipt(m, w) ==
  [wid |-> get_witness_id(w), head |-> m.head, output |-> m.output, step |-> m.step]

verify_witness_receipt(r, w, m) ==
  /\ get_witness_id(w) = r.wid
  /\ m.commit_at = r.wid.stamp
  /\ m.head = r.head /\ m.output = r.output /\ m.step = r.step

-----------------------------------------------------------------------------
(* The engine as a function (src/cvm).  A loop is the sequence of what there *)
(* is after each turn of it; a result of a call is a machine, whether the    *)
(* call has ended, and whether it has thrown a plain error.                  *)

Try(m, in) == IF m.output = NULL /\ Accepts(m, in) THEN update_vm_state(m, in) ELSE m

TaskInput(t, action, path) ==
  [action |-> action, path |-> path, stamp |-> ActiveAt + t.ts, wid |-> VMID]

OverPaths(m, t, action) ==
  LET paths == wlist(t.paths, PathNames)
      after[p \in 0..Len(paths)] ==
        IF p = 0 THEN m ELSE Try(after[p - 1], TaskInput(t, action, paths[p]))
  IN after
run_paths(m, t, action) == OverPaths(m, t, action)[Len(wlist(t.paths, PathNames))]

OverActions(m, t) ==
  LET actions == wlist(t.actions, VALID_ACTIONS)
      after[a \in 0..Len(actions)] ==
        IF a = 0 THEN m
        ELSE IF actions[a] \in PATH_ACTIONS THEN run_paths(after[a - 1], t, actions[a])
        ELSE Try(after[a - 1], TaskInput(t, actions[a], NULL))
  IN after
run_task(m, t) == OverActions(m, t)[Len(wlist(t.actions, VALID_ACTIONS))]

\* A task that was run leaves the queue; a result leaves the schedule.
FinishTask(m) == [m EXCEPT !.tasks = Shift(m)]
OverTasks(m, stop_at) ==
  LET after[k \in 0..Len(m.tasks)] ==
        IF k = 0 THEN m
        ELSE LET n == after[k - 1] IN
             IF n.output # NULL \/ ~InWindow(m.tasks[k], stop_at) THEN n
             ELSE FinishTask(run_task(n, m.tasks[k]))
  IN after
run_schedule(m, stop_at) == OverTasks(m, stop_at)[Len(m.tasks)]

\* The votes of a statement, until they suffice or one of them is no good.
MembersOf(w) == {w.prog[3][i] : i \in DOMAIN w.prog[3]}
Vote(m, w, k) ==
  LET n == [m EXCEPT !.store = @ \cup {Entry(w, k)}] IN
  IF w.sigs[k] \notin MembersOf(w) \/ Entry(w, k) \in m.store THEN [m |-> m, st |-> "bad"]
  ELSE [m |-> n, st |-> IF QuorumMet(n, w) THEN "met" ELSE "short"]
OverSigs(m, w) ==
  LET after[k \in 0..Len(w.sigs)] ==
        IF k = 0 THEN [m |-> m, st |-> "short"]
        ELSE LET r == after[k - 1] IN IF r.st # "short" THEN r ELSE Vote(r.m, w, k)
  IN after

Shows(w) == w.args = w.prog[2] /\ w.sigs # <<>> /\ w.sigs[1] \in MembersOf(w)
exec_method(m, w) ==
  IF w.prog[1] = "claim" THEN [m |-> m, st |-> IF Shows(w) THEN "met" ELSE "bad"]
  ELSE OverSigs(m, w)[Len(w.sigs)]

Went(m)    == [m |-> m, end |-> m.closed, threw |-> FALSE]
Refused(m) == [m |-> [m EXCEPT !.error = TRUE], end |-> TRUE, threw |-> FALSE]
Threw(m)   == [m |-> m, end |-> TRUE, threw |-> TRUE]

run_program(m, w) ==
  LET r  == exec_method(m, w)
      in == [ action |-> w.action, path |-> w.path, stamp |-> w.stamp,
              wid    |-> get_witness_id(w) ]
  IN IF ~Loads(w) THEN Threw(m)
     ELSE IF r.st = "bad" THEN Refused(r.m)
     ELSE IF r.st = "short" THEN Went(r.m)
     ELSE IF Accepts(r.m, in) THEN Went(update_vm_state(r.m, in))
     ELSE IF Faults(r.m, in) THEN Threw(m)
     ELSE Refused(r.m)

eval_statement(m, w) ==
  LET n == run_schedule(m, w.stamp) IN IF n.closed THEN Went(n) ELSE run_program(n, w)

\* Sorted by stamp, those of the same stamp in the order they had.
Earlier_NewestFirst(ws, i, j) == ws[i].stamp > ws[j].stamp \/ (ws[i].stamp = ws[j].stamp /\ i < j)
Earlier(ws, i, j) == ws[i].stamp < ws[j].stamp \/ (ws[i].stamp = ws[j].stamp /\ i < j)
get_statements(ws) ==
  LET order == CHOOSE q \in [DOMAIN ws -> DOMAIN ws] :
                 \A i, j \in DOMAIN ws : i < j => Earlier(ws, q[i], q[j])
  IN [k \in DOMAIN ws |-> ws[order[k]]]

OverStack(m, stack) ==
  LET after[k \in 0..Len(stack)] ==
        IF k = 0 THEN [m |-> [m EXCEPT !.error = FALSE], end |-> FALSE, threw |-> FALSE]
        ELSE LET r == after[k - 1] IN IF r.end THEN r ELSE eval_statement(r.m, stack[k])
  IN after
engine_eval(m, ws) ==
  IF m.output # NULL THEN Went(m) ELSE OverStack(m, get_statements(ws))[Len(ws)]

engine_init == init_vm(CHOOSE tasks \in init_tasks : TRUE)

\* One call for each statement; an error that is thrown leaves the loop.
OverCalls(ws) ==
  LET after[k \in 0..Len(ws)] ==
        IF k = 0 THEN Went(engine_init)
        ELSE LET r == after[k - 1] IN IF r.threw THEN r ELSE engine_eval(r.m, <<ws[k]>>)
  IN after
EvalEach(ws) == OverCalls(ws)[Len(ws)]

-----------------------------------------------------------------------------
(* The audit (core/validation/contract.ts).                                 *)

Agree(m, n) ==
  /\ m.closed = n.closed /\ m.closed_at = n.closed_at /\ m.commit_at = n.commit_at
  /\ m.head = n.head /\ m.output = n.output /\ m.step = n.step

verify_contract_execution(vmdata, ws) ==
  LET r == EvalEach(ws) IN ~r.threw /\ Agree(r.m, vmdata)

verify_contract_close(c, m) ==
  m.closed /\ c.closed_at = m.closed_at /\ c.head = m.head /\ c.output = m.output

\* The statements in one call, which sorts them where they are, compared with
\* the statements in one call each: the machine data of the server are not
\* looked at when there is an engine.  Funds and transaction are in Escrow.
verify_contract_session(c, ws) ==
  LET r == engine_eval(engine_init, ws) IN
  /\ ~r.threw
  /\ verify_contract_execution(r.m, get_statements(ws))
  /\ c # NULL => verify_contract_close(c, r.m)

-----------------------------------------------------------------------------
ReplayInit ==
  /\ Init /\ draft = NULL /\ given = NULL /\ published = <<>> /\ log = <<>>
  /\ receipt = NULL /\ contract = NULL

Create(signer, t, stamp) ==
  /\ pc = "idle" /\ draft = NULL /\ Len(log) < Calls
  /\ LET i == get_program(t @@ [includes |-> {signer}]) IN
     /\ i # 0
     /\ draft' = endorse_witness(signer, create_witness(i, t, stamp))
  /\ UNCHANGED <<vars, given, published, log, receipt, contract>>

\* With the machine data of the moment, or with the ones of the beginning.
Endorse(signer) ==
  /\ pc = "idle" /\ draft # NULL /\ Len(draft.sigs) < MaxSigs
  /\ \E vmdata \in {db, engine_init} : verify_witness_data(vmdata, draft)
  /\ draft' = endorse_witness(signer, draft)
  /\ UNCHANGED <<vars, given, published, log, receipt, contract>>

Discard ==
  /\ pc = "idle" /\ draft # NULL /\ draft' = NULL
  /\ UNCHANGED <<vars, given, published, log, receipt, contract>>

\* A new statement, or the last one once more.
Submit(w) ==
  /\ Len(log) < Calls
  /\ verify_witness_data(db, w)
  /\ eval_witness(<<w>>)
  /\ given' = w /\ draft' = IF w = draft THEN NULL ELSE draft
  /\ UNCHANGED <<published, log, receipt, contract>>

RunSchedule(stop_at) ==
  /\ Len(log) < Calls
  /\ eval_schedule(stop_at)
  /\ DOMAIN due' # {}
  /\ LET last == CHOOSE i \in DOMAIN due' : \A j \in DOMAIN due' : j <= i IN
     log' = Append(log, [call |-> "run", at |-> ActiveAt + due'[last].ts])
  /\ UNCHANGED <<draft, given, published, receipt, contract>>

Throws ==
  \/ pc = "load" /\ ~Loads(wit)
  \/ pc = "update" /\ Faults(vm, StatementInput)

\* The steps of a call, and how it ends.
Proceed  == Step /\ pc' # "idle" /\ UNCHANGED audit
Finished == Step /\ pc' = "idle" /\ op = "run" /\ UNCHANGED audit
Failed   ==
  /\ Step /\ pc' = "idle" /\ op = "eval" /\ Throws
  /\ given' = NULL
  /\ UNCHANGED <<draft, published, log, receipt, contract>>
Answered ==
  /\ Step /\ pc' = "idle" /\ op = "eval" /\ ~Throws
  /\ published' = Append(published, given)
  /\ log' = Append(log, [call |-> "eval", at |-> given.stamp])
  /\ receipt' = create_receipt(db', given)
  /\ given' = NULL
  /\ UNCHANGED <<draft, contract>>

close_contract ==
  /\ pc = "idle" /\ db.closed /\ contract = NULL
  /\ contract' = [closed_at |-> db.closed_at, head |-> db.head, output |-> db.output]
  /\ UNCHANGED <<vars, draft, given, published, log, receipt>>

ReplayNext ==
  \/ \E signer \in Signers :
       \/ Endorse(signer)
       \/ \E t \in Templates, stamp \in Stamps : Create(signer, t, stamp)
  \/ Discard
  \/ draft # NULL /\ Submit(draft)
  \/ published # <<>> /\ Submit(Last(published))
  \/ \E stop_at \in StopTimes : RunSchedule(stop_at)
  \/ Proceed \/ Finished \/ Failed \/ Answered
  \/ close_contract

ReplaySpec == ReplayInit /\ [][ReplayNext]_<<vars, audit>>

-----------------------------------------------------------------------------

\* The schedule never got ahead of a statement: after every run of it came a
\* statement, and none of an earlier time.
InStep ==
  \A i \in DOMAIN log : log[i].call = "run" =>
    i < Len(log) /\ \A j \in i..Len(log) : log[j].at >= log[i].at

\* A client that evaluates what was published finds the machine of the server,
\* with statements that fell short, were refused, shown twice or late, as long
\* as the schedule did not get ahead of them; it refuses a machine that a task
\* took further after the last of them (validation/contract.ts:157-176).
ExecutionVerifies ==
  pc = "idle" =>
    /\ InStep => verify_contract_execution(db, published)
    /\ verify_contract_execution(db, published) => EvalEach(published).m.head = db.head

\* A whole session verifies if no statement but the last was refused or closed
\* the machine, and they came in the order of their stamps: in one call the
\* first refusal drops what follows (validation/contract.ts:230-263).
SessionVerifies ==
  LET ws == published IN
  /\ pc = "idle" /\ InStep
  /\ \A k \in 1..(Len(ws) - 1) :
       LET r == EvalEach(SubSeq(ws, 1, k)) IN
       ws[k].stamp <= ws[k + 1].stamp /\ ~r.m.error /\ ~r.m.closed
  /\ contract # NULL => contract.head = db.head
  => verify_contract_session(contract, ws)

\* The receipt of a statement that took effect, with the tasks that came before
\* it, verifies on the machine that a client makes of what was published
\* (witness/data.ts:53-68, validation/witness.ts:80-104).  That the receipt of no
\* other statement verifies is not so: one that fell short has the head of the
\* machine too, and its time may be that of the last commit.
ReceiptTells ==
  LET ws == published IN
  pc = "idle" /\ InStep /\ receipt # NULL =>
    LET m == EvalEach(ws).m
        committed == m.step > 0 /\ Last(m.head).wid = get_witness_id(Last(ws))
    IN committed => verify_witness_receipt(receipt, Last(ws), m)

\* A statement that was verified is evaluated: it loads, unless its action does
\* not go with its path, or the path is called null, and the tasks that come
\* first leave it in time, so that it is never refused for its stamp.  No error
\* is thrown after that but for an action that is none and only matches the
\* pattern of one (validation/witness.ts:30-62, program.ts:63-99, state.ts:41-83).
VerifiedRuns ==
  /\ pc = "load" /\ ~Loads(wit) =>
       \/ wit.path = NULL <=> wit.action \in PATH_ACTIONS
       \/ wit.path = "null"
  /\ pc = "update" =>
       /\ Timely(vm, wit.stamp)
       /\ Faults(vm, StatementInput) => wit.action \notin PATH_ACTIONS \cup {"close"}
=============================================================================
