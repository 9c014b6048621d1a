-------------------------------- MODULE CVM --------------------------------
(***************************************************************************)
(* The contract virtual machine of src/cvm.                                *)
(*                                                                         *)
(* A machine is a value: every call (eval_witness, eval_schedule) takes    *)
(* the machine data a server has stored, works on a private copy, and      *)
(* either returns the data to store in its place or raises.  `db' is the   *)
(* stored machine, `vm' the private copy of the call under way, and the    *)
(* other variables are the locals of that call, so that every loop         *)
(* iteration of the code is one step and an exception can strike between   *)
(* any two of them.                                                        *)
(*                                                                         *)
(* Data is abstracted to what decides a guard.  A pubkey is a member, a    *)
(* sha256 is the value it hashes (so the commit hash `head' is the chain   *)
(* of commits itself), an expression of labels is ANY ('*') or the         *)
(* sequence of labels that '|' joins, and an error message is TRUE.        *)
(***************************************************************************)
EXTENDS Integers, Sequences, FiniteSets

CONSTANTS
  PathNames,    \* pathnames: the spending paths, in the order of the contract
  SubLabel,     \* <<a, b>> : path label a occurs inside path label b
  Programs,     \* program entries: method, param (threshold or hash), members, actions, paths
  Schedule,     \* schedule entries: ts (seconds after activation), actions, paths
  ActiveAt, ExpiresAt,
  Statements,   \* the witness statements that reach eval_witness
  StopTimes,    \* the values of stop_at that reach eval_schedule
  MaxBatch,     \* bound: statements in one call of eval_witness
  ANY,          \* the expression '*'
  VMID,         \* the machine id, which stands as statement id for the tasks
  NULL

Paths == {PathNames[i] : i \in DOMAIN PathNames}
Tasks == {Schedule[i] : i \in DOMAIN Schedule}

ASSUME LabelAssumption ==
  /\ PathNames \in Seq(STRING)
  /\ SubLabel \subseteq STRING \X STRING
  /\ NULL \notin STRING /\ VMID # NULL

ASSUME TimeAssumption == ActiveAt \in Nat /\ ExpiresAt \in Nat

\* A timer may be zero or negative: nothing in the code bounds it from below.
ASSUME ScheduleAssumption ==
  /\ Schedule \in Seq(Tasks)
  /\ \A t \in Tasks : /\ t.ts \in Int
                      /\ t.actions \in Seq(STRING) \cup {ANY}
                      /\ t.paths \in Seq(STRING) \cup {ANY}

\* The threshold of a program that counts votes is a number (endorse.ts:45).
ASSUME ProgramAssumption ==
  \A i \in DOMAIN Programs :
    Programs[i].method = "endorse" => Programs[i].param \in Int

ASSUME StatementAssumption ==
  /\ \A w \in Statements : w.stamp \in Nat /\ w.path \in STRING \cup {NULL}
  /\ StopTimes \subseteq Nat /\ MaxBatch \in Nat

VARIABLES
  db,           \* the machine data that is stored
  vm,           \* the working copy of the call under way
  pc,           \* where that call is
  op,           \* which call: "eval", "run" or NULL
  pend,         \* eval: statements of the batch not yet taken, by position
  wit,          \* eval: the statement being evaluated
  sig,          \* eval: position in its signatures
  due,          \* run_schedule: tasks in the window, by position
  task,         \* run_task: the task being run
  pos           \* run_task: position in its actions (a) and paths (p)

locals == <<op, pend, wit, sig, due, task, pos>>
vars   == <<db, vm, pc, locals>>

-----------------------------------------------------------------------------
(* Labels and expressions. *)

PATH_ACTIONS  == {"lock", "release", "dispute", "resolve", "spend"}
VALID_ACTIONS == <<"close", "lock", "release", "dispute", "resolve", "spend">>

PathState == {"open", "locked", "disputed", "spent"}
VMStatus  == {"init", "disputed", "closed", "spent"}

\* The pattern is an unanchored regular expression, so a label matches
\* wherever it occurs: 'lock' matches the input 'unlock'.
regex(input, expr) ==
  expr # ANY => \E i \in DOMAIN expr :
                  \/ expr[i] = input
                  \/ <<expr[i], input>> = <<"lock", "unlock">>
                  \/ <<expr[i], input>> \in SubLabel

wlist(expr, labels) == IF expr = ANY THEN labels ELSE expr

\* A program is identified by its method and parameters only.
get_program_id(prog) == <<prog.method, prog.param, prog.members>>

\* progs.find(...): the first program of that id.
IsFound(i, id) ==
  /\ get_program_id(Programs[i]) = id
  /\ \A j \in 1..(i - 1) : get_program_id(Programs[j]) # id

Granted(action, path) ==
  \E i \in DOMAIN Programs : /\ regex(path, Programs[i].paths)
                             /\ regex(action, Programs[i].actions)

-----------------------------------------------------------------------------
(* The machine data and its updates. *)

init_path_state(path) == IF Granted("unlock", path) THEN "locked" ELSE "open"

\* A contract with a path that can be disputed but not resolved is refused.
PathTerms ==
  \A p \in Paths : Granted("dispute", p) => Granted("resolve", p)

ASSUME PathTermsAssumption == PathTerms

\* The schedule in the order of its timers, ties in the order of the entries.
SortedBy(q) ==
  \A i, j \in DOMAIN q : i < j =>
    \/ Schedule[q[i]].ts < Schedule[q[j]].ts
    \/ Schedule[q[i]].ts = Schedule[q[j]].ts /\ q[i] < q[j]

init_tasks ==
  { [k \in DOMAIN Schedule |-> Schedule[q[k]]] :
      q \in {r \in [DOMAIN Schedule -> DOMAIN Schedule] : SortedBy(r)} }

init_vm_state == [p \in Paths |-> init_path_state(p)]
init_vm(tasks) ==
  [ commit_at |-> ActiveAt, step |-> 0, head |-> <<>>, hist |-> <<>>,
    paths     |-> init_vm_state,
    status    |-> "init", store |-> {}, tasks |-> tasks,
    closed    |-> FALSE, closed_at |-> NULL, output |-> NULL, error |-> FALSE ]

\* check_update_stamp
Timely_IgnoresCommit(m, stamp) == stamp < ExpiresAt
Timely(m, stamp) == m.commit_at <= stamp /\ stamp < ExpiresAt

\* run_path_action: the actions a path in state ps accepts, and what they make of it.
exec_spend_IgnoresLock(ps) == ps # "disputed"
exec_spend(ps)   == ps \notin {"locked", "disputed"}
exec_dispute(ps) == ps # "disputed"
exec_lock(ps)    == ps \notin {"locked", "disputed"}
exec_release(ps) == ps = "locked"
exec_resolve(m)  == m.status = "disputed"

run_path_action(m, action, path) ==
  \/ action = "spend"   /\ exec_spend(m.paths[path])
  \/ action = "dispute" /\ exec_dispute(m.paths[path])
  \/ action = "lock"    /\ exec_lock(m.paths[path])
  \/ action = "unlock"  /\ exec_release(m.paths[path])
  \/ action = "resolve" /\ exec_resolve(m)

PathResult(action) ==
  CASE action \in {"spend", "resolve"} -> "spent"
    [] action = "dispute"              -> "disputed"
    [] action = "lock"                 -> "locked"
    [] action = "unlock"               -> "open"

update_path_vm_status_Any(status, ps)       == ps
update_path_vm_status(status, ps) ==
  IF ps \in {"spent", "disputed"} THEN ps ELSE status

\* The commit hash covers the head before it, so it stands for the whole chain.
Commit(m, in) == [wid |-> in.wid, output |-> m.output,
                  step |-> m.step + 1, stamp |-> in.stamp]
get_commit_hash_Unlinked(m, in) == <<Commit(m, in)>>
get_commit_hash(m, in) == Append(m.head, Commit(m, in))

\* The statuses that close the machine and fix its output.
Ends_OnDispute(status) == status \in {"closed", "spent", "disputed"}
Ends_OnCloseOnly(status) == status = "closed"
Ends(status) == status \in {"closed", "spent"}

\* update_vm_state, split by how it ends: it succeeds, raises a plain Error
\* (an unknown action, or an index into no path), or else raises a VMError.
Accepts(m, in) ==
  /\ Timely(m, in.stamp)
  /\ \/ in.action = "close"
     \/ /\ in.action \in PATH_ACTIONS
        /\ in.path \in Paths
        /\ run_path_action(m, in.action, in.path)

Faults(m, in) ==
  /\ Timely(m, in.stamp)
  /\ in.action # "close"
  /\ in.action \in PATH_ACTIONS => in.path \notin Paths

update_vm_state(m, in) ==
  LET ps     == PathResult(in.action)
      closes == in.action = "close"
      status == IF closes THEN "closed" ELSE update_path_vm_status(m.status, ps)
      ends   == Ends(status)
  IN [m EXCEPT
        !.paths     = IF closes THEN @ ELSE [@ EXCEPT ![in.path] = ps],
        !.status    = status,
        !.step      = @ + 1,
        !.commit_at = in.stamp,
        !.head      = get_commit_hash(m, in),
        !.hist      = Append(@, [action |-> in.action, path |-> in.path]),
        !.closed    = @ \/ ends,
        !.closed_at = IF ends THEN in.stamp ELSE @,
        !.output    = IF ends THEN in.path ELSE @]

-----------------------------------------------------------------------------
(* Calls. *)

Init ==
  /\ \E tasks \in init_tasks : db = init_vm(tasks)
  /\ vm = db
  /\ pc = "idle" /\ op = NULL /\ pend = <<>> /\ wit = NULL /\ sig = 1
  /\ due = <<>> /\ task = NULL /\ pos = [a |-> 1, p |-> 1]

\* The call returns machine data m, which replaces the stored data.
Return(m) ==
  /\ db' = m /\ vm' = m
  /\ pc' = "idle" /\ op' = NULL /\ pend' = <<>> /\ wit' = NULL /\ sig' = 1
  /\ due' = <<>> /\ task' = NULL /\ pos' = [a |-> 1, p |-> 1]

\* A plain Error leaves the call: the caller has nothing to store.
Throw_Keeps == Return(vm)
Throw == Return(db)

\* A VMError is caught: its message is stored with all that was done before it.
VMError == Return([vm EXCEPT !.error = TRUE])

IsLeast(i, S) == i \in S /\ \A j \in S : i <= j

\* The next statement of the stack, which is the batch sorted by stamp.
IsNext(i) ==
  /\ i \in DOMAIN pend
  /\ \A j \in DOMAIN pend :
       \/ pend[i].stamp < pend[j].stamp
       \/ pend[i].stamp = pend[j].stamp /\ i <= j

Drop(f, i) == [k \in DOMAIN f \ {i} |-> f[k]]

\* The filter keeps the due tasks; the loop that follows shifts the queue.
InWindow_Before(t, stop_at) ==
  ActiveAt + t.ts >= ActiveAt /\ ActiveAt + t.ts < stop_at
InWindow(t, stop_at) ==
  ActiveAt + t.ts >= ActiveAt /\ ActiveAt + t.ts <= stop_at

get_tasks(m, stop_at) ==
  [k \in {i \in DOMAIN m.tasks : InWindow(m.tasks[i], stop_at)} |-> m.tasks[k]]

\* eval_witness and eval_schedule: return early if there is already a result.
Settled == pc = "idle" /\ db.output # NULL /\ UNCHANGED vars

eval_witness(batch) ==
  /\ pc = "idle" /\ db.output = NULL
  /\ vm' = [db EXCEPT !.error = FALSE]
  /\ pc' = "next" /\ op' = "eval" /\ pend' = batch
  /\ UNCHANGED <<db, wit, sig, due, task, pos>>

eval_schedule(stop_at) ==
  /\ pc = "idle" /\ db.output = NULL
  /\ due' = get_tasks(db, stop_at)
  /\ pc' = "sched" /\ op' = "run"
  /\ UNCHANGED <<db, vm, pend, wit, sig, task, pos>>

\* The loop over the stack: run the schedule up to the stamp of the statement.
NextStatement ==
  /\ pc = "next"
  /\ \E i \in DOMAIN pend :
       /\ IsNext(i)
       /\ wit' = pend[i]
       /\ pend' = Drop(pend, i)
       /\ due' = get_tasks(vm, pend[i].stamp)
  /\ pc' = "sched"
  /\ UNCHANGED <<db, vm, op, sig, task, pos>>

EndOfStack == pc = "next" /\ DOMAIN pend = {} /\ Return(vm)

-----------------------------------------------------------------------------
(* run_schedule and run_task. *)

NextTask ==
  /\ pc = "sched"
  /\ \E i \in DOMAIN due :
       /\ IsLeast(i, DOMAIN due)
       /\ task' = due[i]
       /\ due' = Drop(due, i)
  /\ pos' = [a |-> 1, p |-> 1]
  /\ pc' = "task"
  /\ UNCHANGED <<db, vm, op, pend, wit, sig>>

EndOfSchedule ==
  /\ pc = "sched" /\ DOMAIN due = {}
  /\ \/ /\ op = "run" \/ vm.closed
        /\ Return(vm)
     \/ /\ op = "eval" /\ ~vm.closed
        /\ pc' = "load"
        /\ UNCHANGED <<db, vm, locals>>

alist == wlist(task.actions, VALID_ACTIONS)
plist == wlist(task.paths, PathNames)

Input(path) == [action |-> alist[pos.a], path |-> path,
                stamp  |-> ActiveAt + task.ts, wid |-> VMID]

NextPath_Retries == pos' = IF vm' = vm THEN pos ELSE [pos EXCEPT !.p = @ + 1]
NextPath   == pos' = [pos EXCEPT !.p = @ + 1]
NextAction == pos' = [a |-> pos.a + 1, p |-> 1]

\* One action on one path; an error moves on to the next path.
TaskPath ==
  /\ pc = "task" /\ vm.output = NULL
  /\ pos.a <= Len(alist) /\ alist[pos.a] \in PATH_ACTIONS
  /\ pos.p <= Len(plist)
  /\ vm' = IF Accepts(vm, Input(plist[pos.p]))
             THEN update_vm_state(vm, Input(plist[pos.p])) ELSE vm
  /\ NextPath
  /\ UNCHANGED <<db, pc, op, pend, wit, sig, due, task>>

EndOfPaths ==
  /\ pc = "task" /\ vm.output = NULL
  /\ pos.a <= Len(alist) /\ alist[pos.a] \in PATH_ACTIONS
  /\ pos.p > Len(plist)
  /\ NextAction
  /\ UNCHANGED <<db, vm, pc, op, pend, wit, sig, due, task>>

\* An action without a path; an error moves on to the next action.
TaskClose ==
  /\ pc = "task" /\ vm.output = NULL
  /\ pos.a <= Len(alist) /\ alist[pos.a] \notin PATH_ACTIONS
  /\ vm' = IF Accepts(vm, Input(NULL)) THEN update_vm_state(vm, Input(NULL)) ELSE vm
  /\ NextAction
  /\ UNCHANGED <<db, pc, op, pend, wit, sig, due, task>>

Shift_UnlessSettled(m) ==
  IF m.output # NULL THEN m.tasks ELSE Tail(m.tasks)
Shift(m) == IF m.tasks = <<>> THEN <<>> ELSE Tail(m.tasks)

\* The task is over; a result leaves the schedule, the flag `closed' does not.
EndOfTask ==
  /\ pc = "task"
  /\ vm.output # NULL \/ pos.a > Len(alist)
  /\ vm' = [vm EXCEPT !.tasks = Shift(vm)]
  /\ due' = IF vm.output # NULL THEN <<>> ELSE due
  /\ task' = NULL /\ pos' = [a |-> 1, p |-> 1]
  /\ pc' = "sched"
  /\ UNCHANGED <<db, op, pend, wit, sig>>

-----------------------------------------------------------------------------
(* run_program: load_program, the method, update_vm_state. *)

Loads(w) ==
  \E i \in DOMAIN Programs :
    /\ IsFound(i, w.prog)
    /\ regex(w.action, Programs[i].actions)
    /\ IF w.path = NULL
         THEN w.action \notin PATH_ACTIONS
         ELSE /\ w.path # "null" /\ w.action \in PATH_ACTIONS
              /\ regex(w.path, Programs[i].paths)

load_program ==
  /\ pc = "load"
  /\ \/ /\ Loads(wit)
        /\ pc' = "exec" /\ sig' = 1
        /\ UNCHANGED <<db, vm, op, pend, wit, due, task, pos>>
     \/ ~Loads(wit) /\ Throw

method  == wit.prog[1]
param   == wit.prog[2]
members == {wit.prog[3][i] : i \in DOMAIN wit.prog[3]}

\* The voters recorded under the path and action of a statement.
Votes(m, w) ==
  {v.pub : v \in {e \in m.store : /\ e.prog = w.prog
                                  /\ e.path = w.path /\ e.action = w.action}}

QuorumMet(m, w) == Cardinality(Votes(m, w)) >= w.prog[2]

Entry(w, k) == [prog |-> w.prog, path |-> w.path, action |-> w.action, pub |-> w.sigs[k]]

\* endorse: one signature of the statement.
record_entry ==
  /\ pc = "exec" /\ method = "endorse" /\ sig <= Len(wit.sigs)
  /\ \/ /\ wit.sigs[sig] \in members /\ Entry(wit, sig) \notin vm.store
        /\ vm' = [vm EXCEPT !.store = @ \cup {Entry(wit, sig)}]
        /\ \/ QuorumMet(vm', wit) /\ pc' = "update" /\ UNCHANGED sig
           \/ ~QuorumMet(vm', wit) /\ sig' = sig + 1 /\ UNCHANGED pc
        /\ UNCHANGED <<db, op, pend, wit, due, task, pos>>
     \/ /\ wit.sigs[sig] \notin members \/ Entry(wit, sig) \in vm.store
        /\ VMError

\* endorse: the signatures fall short of the threshold.
FallsShort ==
  /\ pc = "exec" /\ method = "endorse" /\ sig > Len(wit.sigs)
  /\ pc' = "next" /\ wit' = NULL /\ sig' = 1
  /\ UNCHANGED <<db, vm, op, pend, due, task, pos>>

\* claim: the preimage of the hash, and a first signature by a member.
Claims_AnyPreimage(w) == w.sigs # <<>> /\ w.sigs[1] \in members
Claims(w) ==
  /\ w.args = param
  /\ w.sigs # <<>> /\ w.sigs[1] \in members

claim ==
  /\ pc = "exec" /\ method = "claim"
  /\ \/ /\ Claims(wit)
        /\ pc' = "update"
        /\ UNCHANGED <<db, vm, locals>>
     \/ ~Claims(wit) /\ VMError

StatementInput ==
  [action |-> wit.action, path |-> wit.path, stamp |-> wit.stamp,
   wid |-> [prog |-> wit.prog, action |-> wit.action, path |-> wit.path,
            args |-> wit.args, stamp |-> wit.stamp]]

\* The statement takes effect; a machine that closed ends the call.
Update ==
  /\ pc = "update"
  /\ \/ /\ Accepts(vm, StatementInput)
        /\ LET m == update_vm_state(vm, StatementInput) IN
             \/ m.closed /\ Return(m)
             \/ /\ ~m.closed
                /\ vm' = m
                /\ pc' = "next" /\ wit' = NULL /\ sig' = 1
                /\ UNCHANGED <<db, op, pend, due, task, pos>>
     \/ Faults(vm, StatementInput) /\ Throw
     \/ /\ ~Accepts(vm, StatementInput) /\ ~Faults(vm, StatementInput)
        /\ VMError

-----------------------------------------------------------------------------

Batches == UNION {[1..n -> Statements] : n \in 0..MaxBatch}

Call ==
  \/ \E batch \in Batches : eval_witness(batch)
  \/ \E stop_at \in StopTimes : eval_schedule(stop_at)
  \/ Settled

\* The steps of the call under way.
Step ==
  \/ NextStatement \/ EndOfStack
  \/ NextTask \/ EndOfSchedule
  \/ TaskPath \/ EndOfPaths \/ TaskClose \/ EndOfTask
  \/ load_program \/ record_entry \/ FallsShort \/ claim \/ Update

Next == Call \/ Step

\* A call is synchronous code, so it runs to its end; no one is obliged to make one.
Spec == Init /\ [][Next]_vars /\ WF_vars(Step)

-----------------------------------------------------------------------------
(* Properties. *)

StatementIds ==
  {[prog |-> w.prog, action |-> w.action, path |-> w.path,
    args |-> w.args, stamp |-> w.stamp] : w \in Statements}
ASSUME IdAssumption == VMID \notin StatementIds
Entries == UNION {{Entry(w, k) : k \in DOMAIN w.sigs} : w \in Statements}
Commits == [wid : StatementIds \cup {VMID}, output : Paths \cup {NULL},
            step : Nat, stamp : Nat]
Updates == [action : PATH_ACTIONS \cup {"close"}, path : Paths \cup {NULL}]

Machines ==
  [ commit_at : Nat, step : Nat, head : Seq(Commits), hist : Seq(Updates),
    paths     : [Paths -> PathState], status : VMStatus,
    store     : SUBSET Entries, tasks : Seq(Tasks),
    closed    : BOOLEAN, closed_at : Nat \cup {NULL},
    output    : Paths \cup {NULL}, error : BOOLEAN ]

\* The stored and the working machine are machine data, and the locals of the
\* call fit the place it has reached.
TypeOK ==
  /\ db \in Machines /\ vm \in Machines
  /\ pc \in {"idle", "next", "sched", "task", "load", "exec", "update"}
  /\ op \in {"eval", "run", NULL}
  /\ \A i \in DOMAIN pend : pend[i] \in Statements
  /\ \A i \in DOMAIN due  : due[i] \in Tasks
  /\ \/ pc \in {"load", "exec", "update"}
     \/ pc \in {"sched", "task"} /\ op = "eval"
     => wit \in Statements
  /\ pc = "task" => task \in Tasks
  /\ sig \in Nat \ {0} /\ pos \in [a : Nat \ {0}, p : Nat \ {0}]

Copies == {db, vm}

\* A path is spent at most once in the life of a machine, and the path that is
\* spent is the output: no two settlements can both be signed (state.ts:32-62).
SpentOnce ==
  \A m \in Copies : \A p \in Paths :
    m.paths[p] = "spent" => m.output = p /\ m.status = "spent"

\* The output of a machine is a path it spent, or a close action came before:
\* that one puts out its own path, and a machine that was closed without one may
\* put out any later (state.ts:45-61, see ClosedIsFinal).
WasClosed(m) == \E i \in DOMAIN m.hist : m.hist[i].action = "close"
OutputIsSpent ==
  \A m \in Copies : m.output # NULL => m.paths[m.output] = "spent" \/ WasClosed(m)

\* Commit times never go back, stay within the life of the machine, and
\* commit_at is the last of them (state.ts:74-83).
Stamped(m) ==
  /\ Len(m.head) = m.step
  /\ \A i \in 1..m.step : /\ ActiveAt <= m.head[i].stamp
                          /\ m.head[i].stamp < ExpiresAt
                          /\ m.head[i].stamp <= m.commit_at
  /\ \A i, j \in 1..m.step : i < j => m.head[i].stamp <= m.head[j].stamp
  /\ m.step > 0 => m.commit_at = m.head[m.step].stamp
StampsOrdered == \A m \in Copies : Stamped(m)

Blocks(u, p) == u.path = p /\ u.action \in {"lock", "dispute"}

\* The history of updates respects blocked paths (action.ts:26-63): a path is
\* spent or locked only if it started open and no lock and no dispute came before, a
\* path is disputed once, and a resolve comes after a dispute.
Follows(u, before) ==
  /\ u.action \in {"spend", "lock"} =>
       /\ init_path_state(u.path) = "open"
       /\ ~ \E w \in before : Blocks(w, u.path)
  /\ u.action = "dispute" =>
       ~ \E w \in before : w.path = u.path /\ w.action = "dispute"
  /\ u.action = "resolve" => \E w \in before : w.action = "dispute"
BlockedPathsHold ==
  \A m \in Copies : \A i \in 1..Len(m.hist) :
    Follows(m.hist[i], {m.hist[j] : j \in 1..(i - 1)})

\* Every statement in the commit chain carries authority (program.ts:58-108,
\* endorse.ts:9-36, claim.ts:10-43): the program it names grants the action on
\* the path, and as many distinct members as its threshold have voted for that
\* very action and path, or the preimage of its hash was shown.
Authorised(m, id) ==
  /\ Loads(id)
  /\ \/ /\ id.prog[1] = "endorse"
        /\ Cardinality(Votes(m, id)) >= id.prog[2]
        /\ Votes(m, id) \subseteq {id.prog[3][i] : i \in DOMAIN id.prog[3]}
     \/ id.prog[1] = "claim" /\ id.args = id.prog[2]
CommitsAuthorised ==
  \A m \in Copies : \A k \in 1..Len(m.head) :
    m.head[k].wid # VMID => Authorised(m, m.head[k].wid)

\* A statement never overtakes the schedule (main.ts:60): when it is committed,
\* no task that was due by its stamp is still queued.
TasksFirst ==
  \A m \in Copies : \A k \in 1..Len(m.head) : \A i \in 1..Len(m.tasks) :
    m.head[k].wid # VMID => ActiveAt + m.tasks[i].ts > m.head[k].stamp

\* The queue of a stored machine is the rest of the sorted schedule, and a commit
\* made by a task was made by one that has left the queue, at the time of that
\* task (schedule.ts:15-68): no task fires early, twice or out of order.
TaskAccounting ==
  \E order \in init_tasks :
    LET gone == Len(order) - Len(db.tasks) IN
      /\ db.tasks = SubSeq(order, gone + 1, Len(order))
      /\ \A k \in 1..Len(db.head) : db.head[k].wid = VMID =>
           \E i \in 1..gone : db.head[k].stamp = ActiveAt + order[i].ts

\* A closed machine executes nothing more (docs/data/machine.md:77).
ClosedIsFinal ==
  [][db.closed => db'.step = db.step /\ db'.output = db.output]_vars

\* A release that was voted, in time, on a locked path, opens the path
\* (test/wip/wiki/draft.md:160, 168).
ReleaseOpens ==
  [][/\ pc = "update" /\ wit.action = "release"
     /\ Timely(vm, wit.stamp) /\ vm.paths[wit.path] = "locked"
     => vm'.paths[wit.path] = "open"]_vars

\* To a member the machine is Settlement.
Abstract == INSTANCE Settlement WITH
  chain <- db.head, votes <- db.store, outcome <- db.output, Outcomes <- Paths
ImplementsSettlement == Abstract!Spec

-----------------------------------------------------------------------------

\* Someone keeps running the schedule: the calls are the server's, which lives
\* outside the repository; for each stop time the run recurs.
CronSpec == Spec /\ \A s \in StopTimes : SF_vars(eval_schedule(s))

\* Every call comes back, whatever the statements, tasks and errors.
CallReturns == pc # "idle" ~> pc = "idle"

=============================================================================
