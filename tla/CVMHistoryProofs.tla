-------------------------- MODULE CVMHistoryProofs --------------------------
(***************************************************************************)
(* Proofs about what the machines of CVM leave behind: the commit chain,   *)
(* the updates, the votes and the queue of tasks.  They rest on the        *)
(* invariant of CVMProofs.                                                 *)
(***************************************************************************)
EXTENDS CVMProofs, FiniteSetTheorems, SequenceTheorems

-----------------------------------------------------------------------------
(* What an update and a step do, for all the proofs that follow.            *)

\* The machine data that update_vm_state makes, field by field.
LEMMA UpdateFields ==
  ASSUME NEW m \in Machines, NEW in, IsInput(in), Accepts(m, in)
  PROVE  LET n == update_vm_state(m, in) IN
         /\ n \in Machines
         /\ in.stamp \in Nat /\ m.commit_at <= in.stamp /\ in.stamp < ExpiresAt
         /\ n.commit_at = in.stamp /\ n.step = m.step + 1
         /\ n.head = Append(m.head, Commit(m, in))
         /\ n.hist = Append(m.hist, [action |-> in.action, path |-> in.path])
         /\ n.store = m.store /\ n.tasks = m.tasks
         /\ in.action = "close" =>
              n.paths = m.paths /\ n.status = "closed" /\ n.output = NULL
         /\ in.action # "close" =>
              /\ in.action \in PATH_ACTIONS /\ in.path \in Paths
              /\ run_path_action(m, in.action, in.path)
              /\ n.paths  = [m.paths EXCEPT ![in.path] = PathResult(in.action)]
              /\ n.status = update_path_vm_status(m.status, PathResult(in.action))
              /\ n.output = IF n.status \in {"closed", "spent"}
                              THEN in.path ELSE m.output
<1> DEFINE n == update_vm_state(m, in)
<1>1. n \in Machines
  BY UpdateType
<1>2. in.stamp \in Nat /\ m.commit_at <= in.stamp /\ in.stamp < ExpiresAt
  BY TimeAssumption DEF Accepts, Timely, IsInput, Machines
<1>3. /\ n.commit_at = in.stamp /\ n.step = m.step + 1
      /\ n.head = Append(m.head, Commit(m, in))
      /\ n.hist = Append(m.hist, [action |-> in.action, path |-> in.path])
      /\ n.store = m.store /\ n.tasks = m.tasks
  BY DEF update_vm_state, get_commit_hash, Machines
<1>4. CASE in.action = "close"
  <2>1. n.paths = m.paths /\ n.status = "closed" /\ n.output = NULL
    BY <1>4 DEF update_vm_state, IsInput, Ends, Machines
  <2> QED
    BY <1>1, <1>2, <1>3, <1>4, <2>1
<1>5. CASE in.action # "close"
  <2>1. in.action \in PATH_ACTIONS /\ in.path \in Paths
        /\ run_path_action(m, in.action, in.path)
    BY <1>5 DEF Accepts
  <2>2. /\ n.paths = [m.paths EXCEPT ![in.path] = PathResult(in.action)]
        /\ n.status = update_path_vm_status(m.status, PathResult(in.action))
        /\ n.output = IF n.status \in {"closed", "spent"} THEN in.path ELSE m.output
    BY <1>5 DEF update_vm_state, Ends, Machines
  <2> QED
    BY <1>1, <1>2, <1>3, <1>5, <2>1, <2>2
<1> QED
  BY <1>4, <1>5

\* The actions of a task are a list, which '*' stands for as well.
LEMMA ActionList ==
  ASSUME task \in Tasks
  PROVE  Len(alist) \in Nat
<1>1. Len(VALID_ACTIONS) = 6
  BY DEF VALID_ACTIONS
<1>2. task.actions = ANY \/ Len(task.actions) \in Nat
  BY ScheduleAssumption
<1> QED
  BY <1>1, <1>2 DEF alist, wlist

\* The working copy takes effect of a task, or of a statement.
TaskCommits ==
  /\ pc = "task" /\ vm.output = NULL /\ task \in Tasks /\ pos.a \in 1..Len(alist)
  /\ \E path : /\ IsInput(Input(path)) /\ Accepts(vm, Input(path))
               /\ vm' = update_vm_state(vm, Input(path))
  /\ UNCHANGED <<db, pc, op, wit, due, task>>

StatementCommits ==
  /\ pc = "update" /\ vm.output = NULL /\ wit \in Statements /\ Loads(wit)
  /\ IsInput(StatementInput) /\ Accepts(vm, StatementInput)
  /\ vm' = update_vm_state(vm, StatementInput)

\* A vote is recorded.
VoteRecorded ==
  /\ pc = "exec" /\ wit \in Statements /\ method = "endorse"
  /\ sig \in Nat /\ wit.sigs[sig] \in members
  /\ vm' = [vm EXCEPT !.store = @ \cup {Entry(wit, sig)}]
  /\ UNCHANGED <<db, wit>>

\* Machine data that differ in the flag for the last error only.
UpToError(m) == {[m EXCEPT !.error = e] : e \in BOOLEAN}

\* What a step does to the working copy, and when that copy is stored.
Effect ==
  /\ \/ vm' \in UpToError(vm)
     \/ vm' \in UpToError(db)
     \/ EndOfTask /\ vm' = [vm EXCEPT !.tasks = Shift(vm)]
     \/ VoteRecorded
     \/ TaskCommits
     \/ StatementCommits
  /\ \/ pc' # "idle" /\ db' = db /\ (pc = "idle" => db.output = NULL)
     \/ pc' = "idle" /\ db' = vm' /\ (pc = "idle" => db' = db)

\* Every step of the machine is one of these.
LEMMA StepEffect ==
  ASSUME IInv, [Next]_vars
  PROVE  Effect
<1> USE DEF IInv
<1>0. /\ vm \in Machines /\ db \in Machines
      /\ vm \in UpToError(vm) /\ db \in UpToError(db)
      /\ [vm EXCEPT !.error = TRUE] \in UpToError(vm)
      /\ [db EXCEPT !.error = FALSE] \in UpToError(db)
  <2>1. vm \in Machines /\ db \in Machines
    BY DEF TypeOK
  <2>2. \A m \in Machines : m \in UpToError(m)
    <3> SUFFICES ASSUME NEW m \in Machines PROVE m = [m EXCEPT !.error = m.error]
      BY DEF UpToError, Machines
    <3> QED
      BY DEF Machines
  <2> QED
    BY <2>1, <2>2 DEF UpToError
<1>1. ASSUME NEW batch \in Batches, eval_witness(batch) PROVE Effect
  BY <1>0, <1>1 DEF eval_witness, Effect
<1>2. ASSUME NEW stop_at \in StopTimes, eval_schedule(stop_at) PROVE Effect
  BY <1>0, <1>2 DEF eval_schedule, Effect
<1>3. CASE NextStatement \/ NextTask \/ FallsShort
  BY <1>0, <1>3 DEF NextStatement, NextTask, FallsShort, Effect
<1>4. CASE EndOfStack
  BY <1>0, <1>4 DEF EndOfStack, Return, Effect
<1>5. CASE EndOfSchedule
  BY <1>0, <1>5 DEF EndOfSchedule, Return, Effect
<1>6. CASE TaskPath \/ EndOfPaths \/ TaskClose
  <2>1. PICK path : /\ \/ vm' = IF Accepts(vm, Input(path))
                                  THEN update_vm_state(vm, Input(path)) ELSE vm
                       \/ vm' = vm
                    /\ alist[pos.a] = "close" => path = NULL
    BY <1>6 DEF TaskPath, EndOfPaths, TaskClose, PATH_ACTIONS
  <2>2. /\ pc = "task" /\ vm.output = NULL
        /\ UNCHANGED <<db, pc, op, wit, due, task>>
    BY <1>6 DEF TaskPath, EndOfPaths, TaskClose
  <2>3. IsInput(Input(path)) /\ task \in Tasks
    BY <2>1, <2>2, TaskInput DEF TypeOK
  <2>4. pos.a <= Len(alist) /\ pos.a \in Nat \ {0}
    BY <1>6 DEF TaskPath, EndOfPaths, TaskClose, TypeOK
  <2>5. Len(alist) \in Nat
    BY <2>3, ActionList
  <2>6. pos.a \in 1..Len(alist)
    BY <2>4, <2>5
  <2> QED
    BY <1>0, <2>1, <2>2, <2>3, <2>6 DEF Effect, TaskCommits
<1>7. CASE EndOfTask
  BY <1>7 DEF EndOfTask, Effect
<1>8. CASE load_program
  BY <1>0, <1>8 DEF load_program, Throw, Return, Effect
<1>9. CASE record_entry
  <2>1. wit \in Statements /\ sig \in Nat
    BY <1>9 DEF record_entry, TypeOK
  <2> QED
    BY <1>0, <1>9, <2>1 DEF record_entry, VMError, Return, Effect, VoteRecorded
<1>10. CASE claim
  BY <1>0, <1>10 DEF claim, VMError, Return, Effect, locals
<1>11. CASE Update
  <2>1. pc = "update" /\ vm.output = NULL /\ wit \in Statements /\ Loads(wit)
        /\ IsInput(StatementInput)
    BY <1>11, StatementInputOK DEF Update, TypeOK, Control
  <2> QED
    BY <1>0, <1>11, <2>1
    DEF Update, VMError, Throw, Return, Effect, StatementCommits
<1>12. CASE Settled \/ UNCHANGED vars
  <2>1. UNCHANGED <<db, vm, pc>>
    BY <1>12 DEF Settled, vars
  <2>2. pc = "idle" => vm = db
    BY DEF Control
  <2>3. pc # "idle" \/ db' = vm'
    BY <2>1, <2>2
  <2> QED
    BY <1>0, <2>1, <2>3 DEF Effect
<1> QED
  BY <1>1, <1>2, <1>3, <1>4, <1>5, <1>6, <1>7, <1>8, <1>9, <1>10, <1>11, <1>12
  DEF Next, Call, Step

-----------------------------------------------------------------------------
(* The invariants.                                                          *)

\* The working copy is ahead of the stored machine, which waits for it.
Leads(m) ==
  /\ Abstract!Prefix(db.head, m.head)
  /\ db.store \subseteq m.store
  /\ db.output = NULL /\ m.output # NULL => Len(db.head) < Len(m.head)
Ahead == (pc # "idle" => db.output = NULL) /\ Leads(vm)

\* Without a commit, the time of the last one is that of the activation.
InTime(m) == Stamped(m) /\ ActiveAt <= m.commit_at

\* The states of the paths, and of the machine, tell what the history has.
Tell(paths, status, hist) ==
  /\ \A i \in 1..Len(hist) : Follows(hist[i], {hist[j] : j \in 1..(i - 1)})
  /\ \A p \in Paths :
       /\ paths[p] = "open" =>
            /\ init_path_state(p) = "open"
            /\ \A i \in 1..Len(hist) : ~ Blocks(hist[i], p)
       /\ paths[p] \in {"open", "locked"} =>
            \A i \in 1..Len(hist) : ~(hist[i].path = p /\ hist[i].action = "dispute")
  /\ status = "disputed" => \E i \in 1..Len(hist) : hist[i].action = "dispute"
Remembers(m) == Tell(m.paths, m.status, m.hist)

\* The votes are those of members, and a statement about to be committed has
\* its quorum, or has shown its preimage.
Voters(prog) == {prog[3][i] : i \in DOMAIN prog[3]}
Counted(m) ==
  /\ IsFiniteSet(m.store)
  /\ \A e \in m.store : e.pub \in Voters(e.prog)
  /\ \A k \in 1..Len(m.head) :
       m.head[k].wid # VMID => Authorised(m, m.head[k].wid)
Grounds ==
  pc = "update" => \/ method = "endorse" /\ QuorumMet(vm, wit)
                   \/ method = "claim" /\ wit.args = param

\* What a machine that no close action closed puts out is spent.
Spends(m) ==
  ~ WasClosed(m) => /\ m.status # "closed"
                    /\ m.output # NULL => m.paths[m.output] = "spent"

\* The queue is the rest of the schedule, and the commits of tasks are of those
\* n that came first.
TimersForward == \A t \in Tasks : t.ts >= 0
Gone(m, order) == Len(order) - Len(m.tasks)
Rest(m, order) ==
  /\ Len(m.tasks) <= Len(order)
  /\ \A i \in 1..Len(m.tasks) : m.tasks[i] = order[Gone(m, order) + i]
Fired(m, order, n) ==
  \A k \in 1..Len(m.head) : m.head[k].wid = VMID =>
    \E i \in 1..n : m.head[k].stamp = ActiveAt + order[i].ts

\* The due tasks are the head of the queue, less the one that is being run;
\* what is not due has its time after the statement.  `a' tasks were due before.
Running == IF pc = "task" THEN 1 ELSE 0
After(t, stamp) == ActiveAt + t.ts > stamp
Window(a) ==
  LET last == a + Len(vm.tasks) - Running IN
  /\ DOMAIN due \subseteq (a + 1)..last
  /\ \A k \in DOMAIN due : /\ due[k] = vm.tasks[k - a + Running]
                           /\ (a + 1)..k \subseteq DOMAIN due
  /\ op = "eval" /\ vm.output = NULL =>
       \A k \in ((a + 1)..last) \ DOMAIN due : After(vm.tasks[k - a + Running], wit.stamp)

Accounts(order) ==
  /\ Rest(db, order) /\ Fired(db, order, Gone(db, order))
  /\ Rest(vm, order) /\ Fired(vm, order, Gone(vm, order) + Running)
Windows ==
  /\ pc = "task" => vm.tasks # <<>> /\ task = Head(vm.tasks)
  /\ pc \in {"sched", "task"} => \E a \in Nat : Window(a)
  /\ pc \in {"load", "exec", "update"} =>
       \A i \in 1..Len(vm.tasks) : After(vm.tasks[i], wit.stamp)
Schedules == Windows /\ \E order \in init_tasks : Accounts(order)

\* What is queued comes after what was stated.
NotOvertaken(m) ==
  \A k \in 1..Len(m.head) : m.head[k].wid # VMID =>
    \A i \in 1..Len(m.tasks) : After(m.tasks[i], m.head[k].stamp)
-----------------------------------------------------------------------------
(* The machine implements Settlement.                                       *)

\* Whatever a step does to the working copy, it stays ahead of what is stored.
LEMMA AheadStep ==
  ASSUME IInv, Ahead, [Next]_vars
  PROVE  Leads(vm') /\ Ahead'
<1>1. Effect
  BY StepEffect
<1>2. vm \in Machines /\ db \in Machines /\ Leads(vm) /\ Leads(db)
  BY SMTT(30) DEF Ahead, Leads, IInv, TypeOK, Machines, Abstract!Prefix
<1>3. Leads(vm')
  <2>1. CASE vm' \in UpToError(vm) \/ vm' \in UpToError(db)
    BY <1>2, <2>1 DEF Leads, UpToError, Machines
  <2>2. CASE vm' = [vm EXCEPT !.tasks = Shift(vm)]
    BY <1>2, <2>2 DEF Leads, Machines
  <2>3. CASE VoteRecorded
    BY <1>2, <2>3 DEF Leads, VoteRecorded, Machines
  <2>4. ASSUME NEW in, IsInput(in), Accepts(vm, in), vm' = update_vm_state(vm, in)
        PROVE  Leads(vm')
    <3>1. vm'.head = Append(vm.head, Commit(vm, in)) /\ vm'.store = vm.store
      BY <1>2, <2>4, UpdateFields
    <3>2. db.head \in Seq(Commits) /\ vm.head \in Seq(Commits)
      BY <1>2 DEF Machines
    <3>3. Len(vm'.head) = Len(vm.head) + 1
          /\ \A i \in 1..Len(vm.head) : vm'.head[i] = vm.head[i]
      BY <3>1, <3>2
    <3> QED
      BY <1>2, <3>1, <3>2, <3>3 DEF Leads, Abstract!Prefix
  <2> QED
    BY <1>1, <2>1, <2>2, <2>3, <2>4 DEF Effect, TaskCommits, StatementCommits
<1>4. CASE pc' # "idle" /\ db' = db /\ (pc = "idle" => db.output = NULL)
  BY <1>3, <1>4 DEF Ahead, Leads
<1>5. CASE pc' = "idle" /\ db' = vm'
  <2>1. vm' \in Machines
    BY StepInv DEF IInv, TypeOK
  <2> QED
    BY <1>3, <1>5, <2>1 DEF Ahead, Leads, Machines, Abstract!Prefix
<1> QED
  BY <1>1, <1>3, <1>4, <1>5 DEF Effect

\* The working copy is never behind the stored machine, and a call runs only as
\* long as that one has no output (main.ts:36-38, 78-80).
THEOREM StaysAhead == Spec => []Ahead
<1>1. Init => Ahead
  BY InitInv DEF Init, Ahead, Leads, IInv, TypeOK, Machines, Abstract!Prefix
<1>2. IInv /\ Ahead /\ [Next]_vars => Ahead'
  BY AheadStep
<1> QED
  BY <1>1, <1>2, Invariance, PTL DEF Spec

\* To a member, every machine is Settlement: its commit chain only grows, its
\* votes are never lost, and its one outcome comes with a commit and is the last
\* thing that happens (main.ts:27-81, state.ts:32-62).
THEOREM SettlementImplemented == Spec => ImplementsSettlement
<1>1. Init => Abstract!Init
  <2> SUFFICES ASSUME Init PROVE Abstract!Init
    OBVIOUS
  <2>1. PICK tasks \in init_tasks : db = init_vm(tasks)
    BY DEF Init
  <2> QED
    BY <2>1 DEF init_vm, Abstract!Init
<1>2. ASSUME IInv, Ahead, [Next]_vars
      PROVE  [Abstract!Advance]_<<db.head, db.store, db.output>>
  <2>1. Effect /\ IInv' /\ Leads(vm')
    BY <1>2, StepEffect, StepInv, AheadStep
  <2>2. CASE db' = db
    BY <2>2
  <2>3. CASE db' = vm' /\ pc # "idle" /\ pc' = "idle"
    <3>1. db.output = NULL
      BY <1>2, <2>3 DEF Ahead
    <3>2. Abstract!Prefix(db.head, vm'.head) /\ db.store \subseteq vm'.store
          /\ (vm'.output # NULL => Len(db.head) < Len(vm'.head))
      BY <2>1, <3>1 DEF Leads
    <3>3. vm'.output \in Paths \cup {NULL}
      BY <2>1 DEF IInv, TypeOK, Machines
    <3> QED
      BY <2>3, <3>1, <3>2, <3>3 DEF Abstract!Advance
  <2> QED
    BY <2>1, <2>2, <2>3 DEF Effect
<1> QED
  BY <1>1, <1>2, Invariance, StaysAhead, PTL
  DEF Spec, ImplementsSettlement, Abstract!Spec

-----------------------------------------------------------------------------
(* The commit chain goes forward in time.                                   *)

\* A step keeps the commits in time: an update is checked against the time of
\* the last one (state.ts:74-83).
LEMMA InTimeStep ==
  ASSUME IInv, InTime(db), InTime(vm), [Next]_vars
  PROVE  InTime(db)' /\ InTime(vm)'
<1>1. Effect /\ vm \in Machines /\ db \in Machines
  BY StepEffect DEF IInv, TypeOK
<1>2. ASSUME \/ vm' \in UpToError(vm) \/ vm' \in UpToError(db)
             \/ vm' = [vm EXCEPT !.tasks = Shift(vm)] \/ VoteRecorded
      PROVE  InTime(vm)'
  <2>1. \/ vm'.head = vm.head /\ vm'.step = vm.step /\ vm'.commit_at = vm.commit_at
        \/ vm'.head = db.head /\ vm'.step = db.step /\ vm'.commit_at = db.commit_at
    BY <1>1, <1>2 DEF UpToError, VoteRecorded, Machines
  <2> QED
    BY <2>1 DEF InTime, Stamped
<1>3. ASSUME NEW in, IsInput(in), Accepts(vm, in), vm' = update_vm_state(vm, in)
      PROVE  InTime(vm)'
  <2>1. /\ in.stamp \in Nat /\ vm.commit_at <= in.stamp /\ in.stamp < ExpiresAt
        /\ vm'.commit_at = in.stamp /\ vm'.step = vm.step + 1
        /\ vm'.head = Append(vm.head, Commit(vm, in))
    BY <1>1, <1>3, UpdateFields, ZenonT(40)
  <2>2. vm.head \in Seq(Commits) /\ vm.step \in Nat /\ vm.commit_at \in Nat
    BY <1>1 DEF Machines
  <2>3. /\ Len(vm.head) = vm.step /\ ActiveAt <= vm.commit_at
        /\ \A i \in 1..vm.step : /\ ActiveAt <= vm.head[i].stamp
                                 /\ vm.head[i].stamp < ExpiresAt
                                 /\ vm.head[i].stamp <= vm.commit_at
        /\ \A i, j \in 1..vm.step : i < j => vm.head[i].stamp <= vm.head[j].stamp
    BY DEF InTime, Stamped
  <2>4. \A i \in 1..vm.step : vm.head[i].stamp \in Nat
    <3>1. \A i \in 1..vm.step : vm.head[i] \in Commits
      BY <2>2, <2>3
    <3> QED
      BY <3>1 DEF Commits
  <2>5. /\ Len(vm'.head) = vm'.step
        /\ \A i \in 1..vm.step : vm'.head[i] = vm.head[i]
        /\ vm'.head[vm.step + 1].stamp = in.stamp
    BY <2>1, <2>2, <2>3 DEF Commit
  <2>6. \A i \in 1..vm'.step : i \in 1..vm.step \/ i = vm.step + 1
    BY <2>1, <2>2
  <2>7. ActiveAt <= in.stamp
    BY <2>1, <2>2, <2>3, TimeAssumption
  <2>8. \A i \in 1..vm'.step : /\ ActiveAt <= vm'.head[i].stamp
                               /\ vm'.head[i].stamp < ExpiresAt
                               /\ vm'.head[i].stamp <= in.stamp
    BY <2>1, <2>2, <2>3, <2>5, <2>6, <2>7, <2>4
  <2>9. ASSUME NEW i \in 1..vm'.step, NEW j \in 1..vm'.step, i < j
        PROVE  vm'.head[i].stamp <= vm'.head[j].stamp
    <3>1. i \in 1..vm.step
      BY <2>1, <2>2, <2>9
    <3>2. CASE j \in 1..vm.step
      BY <2>3, <2>5, <2>9, <3>1, <3>2
    <3>3. CASE j = vm.step + 1
      BY <2>5, <2>8, <3>3
    <3> QED
      BY <2>6, <3>2, <3>3
  <2> QED
    BY <2>1, <2>5, <2>7, <2>8, <2>9 DEF InTime, Stamped
<1>4. InTime(vm)'
  BY <1>1, <1>2, <1>3 DEF Effect, TaskCommits, StatementCommits
<1> QED
  BY <1>1, <1>4 DEF Effect, InTime, Stamped

\* Whatever statements are made and however often the schedule runs, the commits
\* of a machine are in the order of their stamps, between its activation and its
\* expiry, and commit_at is the last of them (state.ts:74-83).
THEOREM CommitsInTime == Spec => []StampsOrdered
<1>1. Init => InTime(db) /\ InTime(vm)
  <2> SUFFICES ASSUME Init PROVE InTime(db) /\ vm = db
    OBVIOUS
  <2>1. PICK tasks \in init_tasks : db = init_vm(tasks)
    BY DEF Init
  <2> QED
    BY <2>1, TimeAssumption DEF Init, init_vm, InTime, Stamped
<1>2. IInv /\ InTime(db) /\ InTime(vm) /\ [Next]_vars => InTime(db)' /\ InTime(vm)'
  BY InTimeStep
<1>3. InTime(db) /\ InTime(vm) => StampsOrdered
  BY DEF InTime, StampsOrdered, Copies
<1> QED
  BY <1>1, <1>2, <1>3, Invariance, PTL DEF Spec

-----------------------------------------------------------------------------
(* The history respects blocked paths.                                      *)

\* The path states of a machine without output tell whether a path was locked or
\* disputed, so that what run_path_action accepts follows what came before.
LEMMA UpdateRemembers ==
  ASSUME NEW m \in Machines, NEW in, IsInput(in), Accepts(m, in),
         Sound(m), m.output = NULL, Remembers(m)
  PROVE  Remembers(update_vm_state(m, in))
<1> DEFINE n == update_vm_state(m, in)
           u == [action |-> in.action, path |-> in.path]
           l == Len(m.hist)
<1>1. /\ n.hist = Append(m.hist, u)
      /\ in.action = "close" => n.paths = m.paths /\ n.status = "closed"
      /\ in.action # "close" =>
           /\ in.action \in PATH_ACTIONS /\ in.path \in Paths
           /\ run_path_action(m, in.action, in.path)
           /\ n.paths  = [m.paths EXCEPT ![in.path] = PathResult(in.action)]
           /\ n.status = update_path_vm_status(m.status, PathResult(in.action))
  BY UpdateFields
<1>2. m.hist \in Seq(Updates) /\ l \in Nat /\ m.paths \in [Paths -> PathState]
  BY DEF Machines
<1>3. /\ Len(n.hist) = l + 1 /\ n.hist[l + 1] = u
      /\ \A i \in 1..l : n.hist[i] = m.hist[i]
  BY <1>1, <1>2
<1> HIDE DEF n, u, l
<1>4. \A i \in 1..Len(n.hist) : i \in 1..l \/ i = l + 1
  BY <1>2, <1>3
<1>5. m.status # "spent" /\ \A p \in Paths : m.paths[p] # "spent"
  BY DEF Sound
<1>6. u.action = in.action /\ u.path = in.path
  BY DEF u
<1>7. Follows(u, {m.hist[j] : j \in 1..l})
  <2>1. CASE in.action \in {"spend", "lock"}
    <3>1. in.path \in Paths /\ m.paths[in.path] = "open"
      BY <1>1, <1>2, <1>5, <2>1
      DEF run_path_action, exec_spend, exec_lock, PathState
    <3> QED
      BY <1>6, <2>1, <3>1 DEF Follows, Remembers, Tell, l
  <2>2. CASE in.action = "dispute"
    <3>1. in.path \in Paths /\ m.paths[in.path] \in {"open", "locked"}
      BY <1>1, <1>2, <1>5, <2>2 DEF run_path_action, exec_dispute, PathState
    <3> QED
      BY <1>6, <2>2, <3>1 DEF Follows, Remembers, Tell, l
  <2>3. CASE in.action = "resolve"
    <3>1. m.status = "disputed"
      BY <1>1, <2>3 DEF run_path_action, exec_resolve
    <3> QED
      BY <1>6, <2>3, <3>1 DEF Follows, Remembers, Tell, l
  <2> QED
    BY <1>6, <2>1, <2>2, <2>3 DEF Follows
<1>8. \A i \in 1..Len(n.hist) : Follows(n.hist[i], {n.hist[j] : j \in 1..(i - 1)})
  <2> SUFFICES ASSUME NEW i \in 1..Len(n.hist)
               PROVE  Follows(n.hist[i], {n.hist[j] : j \in 1..(i - 1)})
    OBVIOUS
  <2>1. {n.hist[j] : j \in 1..(i - 1)} = {m.hist[j] : j \in 1..(i - 1)}
    BY <1>2, <1>3, <1>4
  <2>2. CASE i \in 1..l
    BY <1>3, <2>1, <2>2 DEF Remembers, Tell, l
  <2>3. CASE i = l + 1
    <3>1. 1..(i - 1) = 1..l
      BY <1>2, <2>3
    <3> QED
      BY <1>3, <1>7, <2>1, <2>3, <3>1
  <2> QED
    BY <1>4, <2>2, <2>3
<1>9. \A p \in Paths :
        /\ n.paths[p] = "open" =>
             /\ init_path_state(p) = "open"
             /\ \A i \in 1..Len(n.hist) : ~ Blocks(n.hist[i], p)
        /\ n.paths[p] \in {"open", "locked"} =>
             \A i \in 1..Len(n.hist) :
               ~(n.hist[i].path = p /\ n.hist[i].action = "dispute")
  <2> SUFFICES ASSUME NEW p \in Paths, n.paths[p] \in {"open", "locked"}
               PROVE  /\ n.paths[p] = "open" =>
                           /\ init_path_state(p) = "open"
                           /\ \A i \in 1..Len(n.hist) : ~ Blocks(n.hist[i], p)
                      /\ \A i \in 1..Len(n.hist) :
                           ~(n.hist[i].path = p /\ n.hist[i].action = "dispute")
    BY Zenon
  <2>1. /\ m.paths[p] \in {"open", "locked"}
        /\ n.paths[p] = "open" => m.paths[p] = "open" /\ ~ Blocks(u, p)
        /\ ~(u.path = p /\ u.action = "dispute")
    <3>1. CASE in.action = "close"
      BY <1>1, <1>6, <3>1 DEF Blocks
    <3>2. CASE in.action # "close" /\ in.path # p
      BY <1>1, <1>2, <1>6, <3>2 DEF Blocks
    <3>3. CASE in.action # "close" /\ in.path = p
      <4>1. n.paths[p] = PathResult(in.action)
        BY <1>1, <1>2, <3>3
      <4>2. in.action = "lock" \/ in.action = "unlock"
        BY <1>1, <3>3, <4>1 DEF run_path_action, PathResult
      <4>3. in.action = "lock"
        BY <1>1, <3>3, <4>2 DEF PATH_ACTIONS
      <4> QED
        BY <1>1, <1>2, <1>5, <1>6, <3>3, <4>1, <4>3
        DEF run_path_action, exec_lock, PathResult, PathState
    <3> QED
      BY <3>1, <3>2, <3>3
  <2> QED
    BY <1>3, <1>4, <2>1 DEF Remembers, Tell, l
<1>10. ASSUME n.status = "disputed"
       PROVE  \E i \in 1..Len(n.hist) : n.hist[i].action = "dispute"
  <2>1. in.action = "dispute" \/ m.status = "disputed"
    BY <1>1, <1>10 DEF update_path_vm_status, run_path_action, PathResult
  <2>2. CASE in.action = "dispute"
    BY <1>2, <1>3, <1>6, <2>2
  <2>3. CASE m.status = "disputed"
    <3>1. PICK i \in 1..l : m.hist[i].action = "dispute"
      BY <2>3 DEF Remembers, Tell, l
    <3> QED
      BY <1>2, <1>3, <3>1
  <2> QED
    BY <2>1, <2>2, <2>3
<1> QED
  BY <1>8, <1>9, <1>10 DEF Remembers, Tell, n

\* A step keeps what the path states tell.
LEMMA RemembersStep ==
  ASSUME IInv, Remembers(db), Remembers(vm), [Next]_vars
  PROVE  Remembers(db)' /\ Remembers(vm)'
<1>1. Effect /\ vm \in Machines /\ db \in Machines /\ Sound(vm)
  BY StepEffect DEF IInv, TypeOK
<1>2. ASSUME \/ vm' \in UpToError(vm) \/ vm' \in UpToError(db)
             \/ vm' = [vm EXCEPT !.tasks = Shift(vm)] \/ VoteRecorded
      PROVE  Remembers(vm)'
  <2>1. \/ vm'.hist = vm.hist /\ vm'.paths = vm.paths /\ vm'.status = vm.status
        \/ vm'.hist = db.hist /\ vm'.paths = db.paths /\ vm'.status = db.status
    BY <1>1, <1>2 DEF UpToError, VoteRecorded, Machines
  <2> QED
    BY <2>1 DEF Remembers
<1>3. ASSUME NEW in, IsInput(in), Accepts(vm, in), vm' = update_vm_state(vm, in),
             vm.output = NULL
      PROVE  Remembers(vm)'
  <2>1. Remembers(update_vm_state(vm, in))
    BY <1>1, <1>3, UpdateRemembers
  <2> QED
    BY <1>3, <2>1 DEF Remembers
<1>4. Remembers(vm)'
  BY <1>1, <1>2, <1>3 DEF Effect, TaskCommits, StatementCommits
<1> QED
  BY <1>1, <1>4 DEF Effect, Remembers

\* Whatever statements and tasks are run, a path is spent or locked only if it
\* was free until then, disputed once, and resolved after a dispute
\* (action.ts:26-63).
THEOREM BlocksRespected == Spec => []BlockedPathsHold
<1>1. Init => Remembers(db) /\ Remembers(vm)
  <2> SUFFICES ASSUME Init PROVE Remembers(db) /\ vm = db
    OBVIOUS
  <2>1. PICK tasks \in init_tasks : db = init_vm(tasks)
    BY DEF Init
  <2>2. /\ db.hist = <<>> /\ db.status = "init"
        /\ \A p \in Paths : db.paths[p] = init_path_state(p)
    BY <2>1 DEF init_vm, init_vm_state
  <2> QED
    BY <2>2 DEF Init, Remembers, Tell
<1>2. IInv /\ Remembers(db) /\ Remembers(vm) /\ [Next]_vars
        => Remembers(db)' /\ Remembers(vm)'
  BY RemembersStep
<1>3. Remembers(db) /\ Remembers(vm) => BlockedPathsHold
  <2>1. \A m \in Copies : Remembers(m) =>
          \A i \in 1..Len(m.hist) : Follows(m.hist[i], {m.hist[j] : j \in 1..(i - 1)})
    BY DEF Remembers, Tell
  <2> QED
    BY <2>1, Zenon DEF BlockedPathsHold, Copies
<1> QED
  BY <1>1, <1>2, <1>3, Invariance, PTL DEF Spec

-----------------------------------------------------------------------------
(* Every statement in the commit chain carries authority.                   *)

\* What was authorised stays so: votes are added to the store and never taken
\* out, and only by members.
LEMMA MoreVotes ==
  ASSUME NEW m, NEW n, NEW id, Authorised(m, id),
         m.store \subseteq n.store, IsFiniteSet(n.store),
         \A e \in n.store : e.pub \in Voters(e.prog)
  PROVE  Authorised(n, id)
<1> DEFINE Of(k) == {e \in k.store : /\ e.prog = id.prog
                                     /\ e.path = id.path /\ e.action = id.action}
<1>1. CASE id.prog[1] = "claim" /\ id.args = id.prog[2]
  BY <1>1 DEF Authorised
<1>2. CASE /\ id.prog[1] = "endorse"
           /\ Cardinality(Votes(m, id)) >= id.prog[2]
           /\ Votes(m, id) \subseteq Voters(id.prog)
  <2>1. id.prog[2] \in Int
    <3>1. PICK i \in DOMAIN Programs : get_program_id(Programs[i]) = id.prog
      BY DEF Authorised, Loads, IsFound
    <3>2. Programs[i].method = id.prog[1] /\ Programs[i].param = id.prog[2]
      BY <3>1 DEF get_program_id
    <3> QED
      BY <1>2, <3>2, ProgramAssumption
  <2>2. IsFiniteSet(Of(n))
    BY FS_Subset
  <2>3. Votes(n, id) = {v.pub : v \in Of(n)} /\ Votes(m, id) \subseteq Votes(n, id)
    BY DEF Votes
  <2>4. IsFiniteSet(Votes(n, id))
    <3> DEFINE f == [e \in Of(n) |-> e.pub]
    <3>1. f \in Surjection(Of(n), Votes(n, id))
      BY <2>3 DEF Surjection
    <3> QED
      BY <2>2, <3>1, FS_Surjection
  <2>5. /\ Cardinality(Votes(m, id)) \in Nat /\ Cardinality(Votes(n, id)) \in Nat
        /\ Cardinality(Votes(m, id)) <= Cardinality(Votes(n, id))
    BY <2>3, <2>4, FS_Subset, FS_CardinalityType
  <2>6. Cardinality(Votes(n, id)) >= id.prog[2]
    BY <1>2, <2>1, <2>5
  <2>7. Votes(n, id) \subseteq Voters(id.prog)
    BY <2>3
  <2> QED
    BY <1>2, <2>6, <2>7 DEF Authorised, Voters
<1> QED
  BY <1>1, <1>2 DEF Authorised, Voters

\* A statement is committed on the grounds that its method found: the step to the
\* update is that of a quorum met (endorse.ts:33) or of a preimage shown (claim.ts:38).
LEMMA GroundsStep ==
  ASSUME IInv, Grounds, [Next]_vars
  PROVE  Grounds'
<1>1. CASE record_entry
  <2>1. CASE VMError
    BY <2>1 DEF VMError, Return, Grounds
  <2>2. CASE pc' = "update" /\ QuorumMet(vm', wit) /\ wit' = wit
    <3>1. method' = "endorse"
      BY <1>1, <2>2 DEF record_entry, method
    <3> QED
      BY <2>2, <3>1 DEF Grounds, QuorumMet, Votes
  <2>3. CASE pc' = pc /\ pc = "exec"
    BY <2>3 DEF Grounds
  <2> QED
    BY <1>1, <2>1, <2>2, <2>3 DEF record_entry
<1>2. CASE claim
  <2>1. CASE VMError
    BY <2>1 DEF VMError, Return, Grounds
  <2>2. CASE Claims(wit) /\ pc' = "update" /\ UNCHANGED <<db, vm, locals>>
    BY <1>2, <2>2 DEF claim, Claims, Grounds, locals, method, param
  <2> QED
    BY <1>2, <2>1, <2>2 DEF claim
<1>3. CASE Settled \/ UNCHANGED vars
  BY <1>3 DEF Settled, vars, locals, Grounds, method, param, QuorumMet, Votes
<1>4. CASE Update
  BY <1>4 DEF Update, VMError, Throw, Return, Grounds
<1>5. CASE TaskPath \/ EndOfPaths \/ TaskClose \/ EndOfTask \/ NextTask \/ EndOfSchedule
  BY <1>5 DEF TaskPath, EndOfPaths, TaskClose, EndOfTask, NextTask, EndOfSchedule,
              Return, Grounds
<1>6. CASE NextStatement \/ EndOfStack \/ load_program \/ FallsShort
  BY <1>6 DEF NextStatement, EndOfStack, load_program, FallsShort, Throw, Return,
              Grounds
<1>7. CASE \/ \E batch \in Batches : eval_witness(batch)
           \/ \E stop_at \in StopTimes : eval_schedule(stop_at)
  BY <1>7 DEF eval_witness, eval_schedule, Grounds
<1> QED
  BY <1>1, <1>2, <1>3, <1>4, <1>5, <1>6, <1>7 DEF Next, Call, Step

\* Machine data that keep the votes and the commits of counted ones, and add a
\* vote of a member or a commit with its grounds, are counted.
LEMMA CountedGrows ==
  ASSUME NEW m, NEW n, Counted(m),
         m.store \subseteq n.store, IsFiniteSet(n.store),
         \A e \in n.store : e.pub \in Voters(e.prog),
         \A k \in 1..Len(n.head) :
           \/ k \in 1..Len(m.head) /\ n.head[k] = m.head[k]
           \/ n.head[k].wid # VMID => Authorised(n, n.head[k].wid)
  PROVE  Counted(n)
<1> SUFFICES ASSUME NEW k \in 1..Len(n.head), n.head[k].wid # VMID,
                    k \in 1..Len(m.head), n.head[k] = m.head[k]
             PROVE  Authorised(n, n.head[k].wid)
  BY Zenon DEF Counted
<1>1. Authorised(m, n.head[k].wid)
  BY DEF Counted
<1> QED
  BY <1>1, MoreVotes

\* A step keeps the votes and the commits counted.
LEMMA CountedStep ==
  ASSUME IInv, Counted(db), Counted(vm), Grounds, [Next]_vars
  PROVE  Counted(db)' /\ Counted(vm)'
<1>1. Effect /\ vm \in Machines /\ db \in Machines
  BY StepEffect DEF IInv, TypeOK
<1>2. ASSUME NEW m, Counted(m), vm'.store = m.store, vm'.head = m.head
      PROVE  Counted(vm')
  BY <1>2, CountedGrows DEF Counted
<1>3. ASSUME \/ vm' \in UpToError(vm) \/ vm' \in UpToError(db)
             \/ vm' = [vm EXCEPT !.tasks = Shift(vm)]
      PROVE  Counted(vm')
  <2>1. \/ vm'.head = vm.head /\ vm'.store = vm.store
        \/ vm'.head = db.head /\ vm'.store = db.store
    BY <1>1, <1>3 DEF UpToError, Machines
  <2> QED
    BY <1>2, <2>1
<1>4. ASSUME VoteRecorded
      PROVE  Counted(vm')
  <2>1. vm'.head = vm.head /\ vm'.store = vm.store \cup {Entry(wit, sig)}
    BY <1>1, <1>4 DEF VoteRecorded, Machines
  <2>2. IsFiniteSet(vm'.store)
    BY <2>1, FS_AddElement, SMTT(30) DEF Counted
  <2>3. Entry(wit, sig).pub \in Voters(Entry(wit, sig).prog)
    BY <1>4 DEF VoteRecorded, Entry, members, Voters
  <2>4. \A e \in vm'.store : e.pub \in Voters(e.prog)
    BY <2>1, <2>3 DEF Counted
  <2> QED
    BY <2>1, <2>2, <2>4, CountedGrows
<1>5. ASSUME NEW in, IsInput(in), Accepts(vm, in), vm' = update_vm_state(vm, in),
             in.wid # VMID => Authorised(vm, in.wid)
      PROVE  Counted(vm')
  <2>1. vm'.head = Append(vm.head, Commit(vm, in)) /\ vm'.store = vm.store
        /\ vm.head \in Seq(Commits)
    BY <1>1, <1>5, UpdateFields DEF Machines
  <2>2. \A k \in 1..Len(vm'.head) :
          \/ k \in 1..Len(vm.head) /\ vm'.head[k] = vm.head[k]
          \/ vm'.head[k] = Commit(vm, in)
    BY <2>1
  <2>3. Commit(vm, in).wid = in.wid
    BY DEF Commit
  <2>4. in.wid # VMID => Authorised(vm', in.wid)
    BY <1>5, <2>1, MoreVotes DEF Counted
  <2> QED
    BY <2>1, <2>2, <2>3, <2>4, CountedGrows DEF Counted
<1>6. ASSUME TaskCommits PROVE Counted(vm')
  BY <1>5, <1>6 DEF TaskCommits, Input
<1>7. ASSUME StatementCommits PROVE Counted(vm')
  <2> DEFINE id == StatementInput.wid
  <2>1. /\ id.prog = wit.prog /\ id.action = wit.action /\ id.path = wit.path
        /\ id.args = wit.args
    BY DEF StatementInput
  <2>2. Loads(id) /\ Votes(vm, id) = Votes(vm, wit)
    BY <1>7, <2>1 DEF StatementCommits, Loads, Votes
  <2>3. \/ id.prog[1] = "endorse" /\ Cardinality(Votes(vm, id)) >= id.prog[2]
        \/ id.prog[1] = "claim" /\ id.args = id.prog[2]
    BY <1>7, <2>1, <2>2 DEF StatementCommits, Grounds, QuorumMet, method, param
  <2>4. Votes(vm, id) \subseteq Voters(id.prog)
    BY DEF Votes, Counted
  <2>5. Authorised(vm, id)
    BY <2>2, <2>3, <2>4 DEF Authorised, Voters
  <2> QED
    BY <1>5, <1>7, <2>5 DEF StatementCommits
<1>8. Counted(vm')
  BY <1>1, <1>3, <1>4, <1>6, <1>7 DEF Effect
<1> QED
  BY <1>1, <1>8 DEF Effect

\* No order of calls, late or repeated, commits a statement that its program does
\* not grant, or that has neither the votes of as many members as its threshold
\* nor the preimage of its hash (program.ts:58-108, endorse.ts:9-36, claim.ts:10-43).
THEOREM StatementsAuthorised == Spec => []CommitsAuthorised
<1>1. Init => Counted(db) /\ Counted(vm) /\ Grounds
  <2> SUFFICES ASSUME Init PROVE Counted(db) /\ vm = db /\ Grounds
    OBVIOUS
  <2>1. PICK tasks \in init_tasks : db = init_vm(tasks)
    BY DEF Init
  <2>2. db.store = {} /\ db.head = <<>>
    BY <2>1 DEF init_vm
  <2> QED
    BY <2>2, FS_EmptySet DEF Init, Counted, Grounds
<1>2. IInv /\ Counted(db) /\ Counted(vm) /\ Grounds /\ [Next]_vars
        => Counted(db)' /\ Counted(vm)' /\ Grounds'
  BY CountedStep, GroundsStep
<1>3. Counted(db) /\ Counted(vm) => CommitsAuthorised
  BY DEF Counted, CommitsAuthorised, Copies
<1> QED
  BY <1>1, <1>2, <1>3, Invariance, PTL DEF Spec

-----------------------------------------------------------------------------
(* The output is a path that was spent.                                     *)

\* An update that closes nothing gives an output only by spending it.
LEMMA UpdateSpends ==
  ASSUME NEW m \in Machines, NEW in, IsInput(in), Accepts(m, in),
         Sound(m), m.output = NULL, Spends(m)
  PROVE  Spends(update_vm_state(m, in))
<1> DEFINE n  == update_vm_state(m, in)
           ps == PathResult(in.action)
           u  == [action |-> in.action, path |-> in.path]
<1>1. n.hist = Append(m.hist, u) /\ m.hist \in Seq(Updates)
  BY DEF update_vm_state, Machines
<1>2. SUFFICES ASSUME ~ WasClosed(n) PROVE Spends(n)
  BY DEF Spends
<1> HIDE DEF n
<1>3. in.action # "close" /\ ~ WasClosed(m)
  <2>1. Len(m.hist) + 1 \in DOMAIN n.hist /\ n.hist[Len(m.hist) + 1] = u
    BY <1>1
  <2>2. \A i \in DOMAIN m.hist : i \in DOMAIN n.hist /\ n.hist[i] = m.hist[i]
    BY <1>1
  <2> QED
    BY <1>2, <2>1, <2>2 DEF WasClosed
<1>4. /\ in.path \in Paths
      /\ n.paths  = [m.paths EXCEPT ![in.path] = ps]
      /\ n.status = update_path_vm_status(m.status, ps)
      /\ n.output = IF n.status \in {"closed", "spent"} THEN in.path ELSE m.output
  BY <1>3, UpdateFields DEF n
<1>5. m.paths \in [Paths -> PathState] /\ m.status \notin {"closed", "spent"}
  BY <1>3 DEF Machines, Sound, Spends
<1> HIDE DEF ps
<1>6. n.status # "closed" /\ (n.status = "spent" => ps = "spent")
  BY <1>4, <1>5 DEF update_path_vm_status
<1> QED
  BY <1>4, <1>5, <1>6 DEF Spends

\* Whatever a machine puts out is a path that it spent, unless a close action
\* closed it before (state.ts:45-57).
THEOREM OutputsSpent == Spec => []OutputIsSpent
<1>1. Init => Spends(db) /\ Spends(vm)
  <2> SUFFICES ASSUME Init PROVE Spends(db) /\ vm = db
    OBVIOUS
  <2>1. PICK tasks \in init_tasks : db = init_vm(tasks)
    BY DEF Init
  <2> QED
    BY <2>1 DEF Init, init_vm, Spends
<1>2. ASSUME IInv, Spends(db), Spends(vm), [Next]_vars
      PROVE  Spends(db)' /\ Spends(vm)'
  <2>1. Effect /\ vm \in Machines /\ db \in Machines /\ Sound(vm)
    BY <1>2, StepEffect DEF IInv, TypeOK
  <2>2. ASSUME \/ vm' \in UpToError(vm) \/ vm' \in UpToError(db)
               \/ vm' = [vm EXCEPT !.tasks = Shift(vm)] \/ VoteRecorded
        PROVE  Spends(vm')
    <3>1. \/ /\ vm'.output = vm.output /\ vm'.paths = vm.paths
             /\ vm'.status = vm.status /\ vm'.hist = vm.hist
          \/ /\ vm'.output = db.output /\ vm'.paths = db.paths
             /\ vm'.status = db.status /\ vm'.hist = db.hist
      BY <2>1, <2>2 DEF UpToError, VoteRecorded, Machines
    <3> QED
      BY <1>2, <3>1 DEF Spends, WasClosed
  <2>3. ASSUME NEW in, IsInput(in), Accepts(vm, in), vm' = update_vm_state(vm, in),
               vm.output = NULL
        PROVE  Spends(vm')
    BY <1>2, <2>1, <2>3, UpdateSpends
  <2>4. TaskCommits => Spends(vm')
    BY <2>3 DEF TaskCommits
  <2>5. StatementCommits => Spends(vm')
    BY <2>3 DEF StatementCommits
  <2>6. Spends(vm')
    BY <2>1, <2>2, <2>4, <2>5 DEF Effect
  <2> QED
    BY <1>2, <2>1, <2>6 DEF Effect
<1>3. Spends(db) /\ Spends(vm) => OutputIsSpent
  BY DEF Spends, OutputIsSpent, Copies
<1> QED
  BY <1>1, <1>2, <1>3, Invariance, PTL DEF Spec

-----------------------------------------------------------------------------
(* The schedule is run in its order, and before later statements.           *)

\* The queue of a new machine has the tasks in the order of their timers.
LEMMA OrderFacts ==
  ASSUME NEW order \in init_tasks
  PROVE  /\ order \in Seq(Tasks) /\ Len(order) \in Nat
         /\ \A i \in 1..Len(order) : order[i] \in Tasks /\ order[i].ts \in Int
         /\ \A i, j \in 1..Len(order) : i <= j => order[i].ts <= order[j].ts
<1>1. PICK q \in [DOMAIN Schedule -> DOMAIN Schedule] :
        /\ SortedBy(q)
        /\ order = [k \in DOMAIN Schedule |-> Schedule[q[k]]]
  BY DEF init_tasks
<1>2. DOMAIN Schedule = 1..Len(Schedule) /\ Len(Schedule) \in Nat
  BY ScheduleAssumption
<1>3. \A k \in DOMAIN Schedule : Schedule[q[k]] \in Tasks /\ Schedule[q[k]].ts \in Int
  BY ScheduleAssumption DEF Tasks
<1>4. order \in [1..Len(Schedule) -> Tasks]
  BY <1>1, <1>2, <1>3
<1>5. order \in Seq(Tasks) /\ Len(order) = Len(Schedule)
  BY <1>2, <1>4
<1>6. \A i \in 1..Len(order) : order[i] \in Tasks /\ order[i].ts \in Int
  BY <1>1, <1>2, <1>3, <1>5
<1>7. ASSUME NEW i \in 1..Len(order), NEW j \in 1..Len(order), i <= j
      PROVE  order[i].ts <= order[j].ts
  <2>1. order[i] = Schedule[q[i]] /\ order[j] = Schedule[q[j]]
    BY <1>1, <1>2, <1>5
  <2>2. CASE i = j
    BY <1>6, <2>2
  <2>3. CASE i < j
    <3>1. i \in DOMAIN q /\ j \in DOMAIN q
      BY <1>2, <1>5
    <3>2. Schedule[q[i]].ts <= Schedule[q[j]].ts
      BY <1>1, <1>2, <1>3, <2>3, <3>1 DEF SortedBy
    <3> QED
      BY <2>1, <3>2
  <2> QED
    BY <1>7, <2>2, <2>3
<1> QED
  BY <1>2, <1>5, <1>6, <1>7

\* A call that works on a task goes on with it, or is over with it.
LEMMA TaskLeaves ==
  ASSUME [Next]_vars, pc = "task"
  PROVE  pc' = "task" \/ EndOfTask
BY DEF Next, Call, Step, vars, Settled, eval_witness, eval_schedule, NextStatement,
       EndOfStack, NextTask, EndOfSchedule, TaskPath, EndOfPaths, TaskClose,
       load_program, record_entry, FallsShort, claim, Update

\* Only queue and commits count for the account of the tasks.
LEMMA SameAccount ==
  ASSUME NEW m, NEW n, NEW order \in init_tasks, NEW k \in Int, NEW l \in Int,
         n.tasks = m.tasks, n.head = m.head, k <= l,
         Rest(m, order), Fired(m, order, k)
  PROVE  Rest(n, order) /\ Fired(n, order, l) /\ Gone(n, order) = Gone(m, order)
<1>1. Rest(n, order) /\ Gone(n, order) = Gone(m, order)
  BY DEF Rest, Gone
<1>2. 1..k \subseteq 1..l
  OBVIOUS
<1> QED
  BY <1>1, <1>2 DEF Fired

\* An update leaves the queue alone, and the account right if its time is that
\* of a task that has fired.
LEMMA UpdateAccount ==
  ASSUME NEW m \in Machines, NEW in, IsInput(in), Accepts(m, in),
         NEW order \in init_tasks, NEW k \in Int,
         Rest(m, order), Fired(m, order, k),
         in.wid = VMID => \E i \in 1..k : in.stamp = ActiveAt + order[i].ts
  PROVE  LET n == update_vm_state(m, in) IN
         Rest(n, order) /\ Fired(n, order, k) /\ Gone(n, order) = Gone(m, order)
<1> DEFINE n == update_vm_state(m, in)
<1>1. n.tasks = m.tasks /\ n.head = Append(m.head, Commit(m, in))
  BY UpdateFields
<1>2. m.head \in Seq(Commits)
  BY DEF Machines
<1>3. Commit(m, in).wid = in.wid /\ Commit(m, in).stamp = in.stamp
  BY DEF Commit
<1> HIDE DEF n
<1>4. \A i \in 1..Len(n.head) : \/ i \in 1..Len(m.head) /\ n.head[i] = m.head[i]
                                \/ n.head[i] = Commit(m, in)
  BY <1>1, <1>2
<1>5. Rest(n, order) /\ Gone(n, order) = Gone(m, order)
  BY <1>1 DEF Rest, Gone
<1>6. Fired(n, order, k)
  BY <1>3, <1>4 DEF Fired
<1> QED
  BY <1>5, <1>6 DEF n

\* A step keeps the account of the tasks: a task leaves the queue when it is over,
\* and what it commits has its time.
LEMMA AccountStep ==
  ASSUME IInv, Windows, NEW order \in init_tasks, Accounts(order), [Next]_vars
  PROVE  Accounts(order)'
<1> DEFINE Good(m, n) == Rest(m, order) /\ Fired(m, order, Gone(m, order) + n)
<1>1. Effect /\ vm \in Machines /\ db \in Machines
  BY StepEffect DEF IInv, TypeOK
<1>2. /\ Gone(vm, order) \in Int /\ Gone(db, order) \in Int
      /\ Running \in {0, 1} /\ Running' \in {0, 1}
  <2>1. vm.tasks \in Seq(Tasks) /\ db.tasks \in Seq(Tasks)
    BY <1>1 DEF Machines
  <2> QED
    BY <2>1, OrderFacts DEF Gone, Running
<1>3. Good(vm, Running) /\ Good(db, 0)
  BY <1>2 DEF Accounts
<1>4. ASSUME EndOfTask PROVE Good(vm', Running')
  <2>1. /\ vm'.head = vm.head /\ vm'.tasks = Tail(vm.tasks)
        /\ Running = 1 /\ Running' = 0
    BY <1>1, <1>4 DEF EndOfTask, Shift, Windows, Machines, Running
  <2>2. vm.tasks \in Seq(Tasks) /\ vm.tasks # <<>> /\ Len(order) \in Nat
    BY <1>1, <1>4, OrderFacts DEF EndOfTask, Windows, Machines
  <2>3. /\ Len(vm'.tasks) = Len(vm.tasks) - 1
        /\ \A i \in 1..Len(vm'.tasks) : vm'.tasks[i] = vm.tasks[i + 1]
    BY <2>1, <2>2
  <2>4. Gone(vm', order) = Gone(vm, order) + 1
    BY <2>2, <2>3 DEF Gone
  <2>5. Rest(vm', order)
    <3>1. Len(vm.tasks) <= Len(order)
          /\ \A i \in 1..Len(vm.tasks) : vm.tasks[i] = order[Gone(vm, order) + i]
      BY <1>3 DEF Rest
    <3>2. ASSUME NEW i \in 1..Len(vm'.tasks)
          PROVE  vm'.tasks[i] = order[Gone(vm', order) + i]
      <4>1. i + 1 \in 1..Len(vm.tasks)
        BY <2>2, <2>3
      <4>2. vm'.tasks[i] = order[Gone(vm, order) + (i + 1)]
        BY <2>3, <3>1, <4>1
      <4>3. Gone(vm, order) + (i + 1) = Gone(vm', order) + i
        BY <1>2, <2>4
      <4> QED
        BY <4>2, <4>3
    <3> QED
      BY <2>2, <2>3, <3>1, <3>2 DEF Rest
  <2>6. Fired(vm', order, Gone(vm, order) + 1)
    BY <1>3, <2>1 DEF Fired
  <2> QED
    BY <1>2, <2>1, <2>4, <2>5, <2>6
<1>5. ASSUME vm' \in UpToError(db) PROVE Good(vm', Running')
  <2>1. vm'.tasks = db.tasks /\ vm'.head = db.head
    BY <1>1, <1>5 DEF UpToError, Machines
  <2> QED
    BY <1>2, <1>3, <2>1, SameAccount
<1>6. ASSUME ~ EndOfTask, vm' \in UpToError(vm) \/ VoteRecorded
      PROVE  Good(vm', Running')
  <2>1. vm'.tasks = vm.tasks /\ vm'.head = vm.head
    BY <1>1, <1>6 DEF UpToError, VoteRecorded, Machines
  <2>2. Running <= Running'
    BY <1>6, TaskLeaves DEF Running
  <2>3. /\ Gone(vm, order) + Running \in Int /\ Gone(vm, order) + Running' \in Int
        /\ Gone(vm, order) + Running <= Gone(vm, order) + Running'
    BY <1>2, <2>2
  <2>4. Rest(vm', order) /\ Gone(vm', order) = Gone(vm, order)
        /\ Fired(vm', order, Gone(vm, order) + Running')
    BY <1>3, <2>1, <2>3, SameAccount
  <2> QED
    BY <2>4
<1>7. ASSUME TaskCommits PROVE Good(vm', Running')
  <2>1. PICK path : /\ IsInput(Input(path)) /\ Accepts(vm, Input(path))
                    /\ vm' = update_vm_state(vm, Input(path))
    BY <1>7 DEF TaskCommits
  <2>2. Running = 1 /\ Running' = 1 /\ pc = "task"
    BY <1>7 DEF TaskCommits, Running
  <2>3. Input(path).stamp = ActiveAt + task.ts
    BY DEF Input
  <2>4. task = order[Gone(vm, order) + 1] /\ Gone(vm, order) >= 0
    <3>1. vm.tasks \in Seq(Tasks) /\ vm.tasks # <<>> /\ task = vm.tasks[1]
      BY <1>1, <2>2 DEF Windows, Machines
    <3>2. 1 \in 1..Len(vm.tasks) /\ Len(vm.tasks) \in Nat /\ Len(order) \in Nat
      BY <3>1, OrderFacts
    <3>3. Rest(vm, order)
      BY <1>3
    <3>4. task = order[Gone(vm, order) + 1]
      BY <3>1, <3>2, <3>3 DEF Rest
    <3> QED
      BY <3>2, <3>3, <3>4 DEF Rest, Gone
  <2>5. \E i \in 1..(Gone(vm, order) + 1) :
          Input(path).stamp = ActiveAt + order[i].ts
    BY <1>2, <2>3, <2>4
  <2>6. Rest(vm', order) /\ Fired(vm', order, Gone(vm, order) + 1)
        /\ Gone(vm', order) = Gone(vm, order)
    BY <1>1, <1>2, <1>3, <2>1, <2>2, <2>5, UpdateAccount
  <2> QED
    BY <2>2, <2>6
<1>8. ASSUME StatementCommits PROVE Good(vm', Running')
  <2>1. /\ IsInput(StatementInput) /\ Accepts(vm, StatementInput)
        /\ vm' = update_vm_state(vm, StatementInput)
        /\ Running = 0
    BY <1>8 DEF StatementCommits, Running
  <2>2. StatementInput.wid # VMID
    BY <1>8, IdAssumption DEF StatementCommits, StatementInput, StatementIds
  <2>3. Rest(vm', order) /\ Fired(vm', order, Gone(vm, order) + 0)
        /\ Gone(vm', order) = Gone(vm, order)
    BY <1>1, <1>2, <1>3, <2>1, <2>2, UpdateAccount
  <2> QED
    BY <1>2, <2>3, SameAccount
<1>9. Good(vm', Running')
  BY <1>1, <1>4, <1>5, <1>6, <1>7, <1>8 DEF Effect
<1>10. CASE db' = db
  BY <1>3, <1>9, <1>10 DEF Accounts
<1>11. CASE db' = vm' /\ pc' = "idle"
  <2>1. Running' = 0 /\ Gone(vm', order) \in Int
    <3>1. vm' \in Machines
      BY StepInv DEF IInv, TypeOK
    <3> QED
      BY <1>11, <3>1, OrderFacts DEF Running, Gone, Machines
  <2>2. Gone(vm', order) + 0 = Gone(vm', order)
    BY <2>1
  <2> QED
    BY <1>9, <1>11, <2>1, <2>2 DEF Accounts
<1> QED
  BY <1>1, <1>10, <1>11 DEF Effect

\* The tasks that the filter selects from a queue in order are its head.
LEMMA FirstWindow ==
  ASSUME TimersForward, NEW m \in Machines, NEW order \in init_tasks, Rest(m, order),
         NEW stop_at \in Int
  PROVE  LET d == get_tasks(m, stop_at) IN
         /\ DOMAIN d \subseteq 1..Len(m.tasks)
         /\ \A k \in DOMAIN d : d[k] = m.tasks[k] /\ 1..k \subseteq DOMAIN d
         /\ \A k \in (1..Len(m.tasks)) \ DOMAIN d : After(m.tasks[k], stop_at)
<1> DEFINE d == get_tasks(m, stop_at)
<1>1. m.tasks \in Seq(Tasks) /\ Len(m.tasks) \in Nat /\ ActiveAt \in Nat
  BY TimeAssumption DEF Machines
<1>2. \A k \in 1..Len(m.tasks) : m.tasks[k] \in Tasks /\ m.tasks[k].ts \in Nat
  <2>1. \A k \in 1..Len(m.tasks) : m.tasks[k] \in Tasks
    BY <1>1
  <2> QED
    BY <2>1, ScheduleAssumption DEF TimersForward
<1>3. /\ DOMAIN d = {k \in 1..Len(m.tasks) : ActiveAt + m.tasks[k].ts <= stop_at}
      /\ \A k \in DOMAIN d : d[k] = m.tasks[k]
  BY <1>1, <1>2 DEF get_tasks, InWindow
<1> HIDE DEF d
<1>4. ASSUME NEW i \in 1..Len(m.tasks), NEW k \in 1..Len(m.tasks), i <= k
      PROVE  m.tasks[i].ts <= m.tasks[k].ts
  <2>1. /\ m.tasks[i] = order[Gone(m, order) + i]
        /\ m.tasks[k] = order[Gone(m, order) + k]
    BY DEF Rest
  <2>2. /\ Gone(m, order) + i \in 1..Len(order)
        /\ Gone(m, order) + k \in 1..Len(order)
        /\ Gone(m, order) + i <= Gone(m, order) + k
    BY <1>1, <1>4, OrderFacts, SMTT(30) DEF Rest, Gone
  <2> QED
    BY <2>1, <2>2, OrderFacts
<1>5. ASSUME NEW k \in DOMAIN d, NEW i \in 1..k
      PROVE  i \in DOMAIN d
  BY <1>1, <1>2, <1>3, <1>4, SMTT(30)
<1>6. \A k \in (1..Len(m.tasks)) \ DOMAIN d : After(m.tasks[k], stop_at)
  BY <1>1, <1>2, <1>3 DEF After
<1> QED
  BY <1>3, <1>5, <1>6 DEF d

\* A step keeps the due tasks at the head of the queue, and after them what is due
\* after the statement under way.
LEMMA WindowStep ==
  ASSUME TimersForward, IInv, Windows, NEW order \in init_tasks, Accounts(order),
         [Next]_vars
  PROVE  Windows'
<1>1. /\ vm \in Machines /\ db \in Machines /\ Rest(vm, order)
      /\ vm.tasks \in Seq(Tasks) /\ Len(vm.tasks) \in Nat
      /\ pc = "idle" => vm = db
  BY DEF IInv, TypeOK, Control, Accounts, Machines
<1>2. ASSUME pc' \in {"idle", "next"} PROVE Windows'
  BY <1>2 DEF Windows
<1>3. ASSUME NEW stop_at \in Int, due' = get_tasks(vm, stop_at), vm' = vm,
             pc' = "sched", op' = "eval" => wit'.stamp = stop_at
      PROVE  Windows'
  <2>1. /\ DOMAIN due' \subseteq 1..Len(vm.tasks)
        /\ \A k \in DOMAIN due' : due'[k] = vm.tasks[k] /\ 1..k \subseteq DOMAIN due'
        /\ \A k \in (1..Len(vm.tasks)) \ DOMAIN due' : After(vm.tasks[k], stop_at)
    BY <1>1, <1>3, FirstWindow
  <2>2. Running' = 0
    BY <1>3 DEF Running
  <2>3. \A k \in 1..Len(vm.tasks) : k - 0 + 0 = k /\ 0 + 1 = 1
    OBVIOUS
  <2>4. 0 + Len(vm.tasks) - 0 = Len(vm.tasks)
    BY <1>1
  <2>5. Window(0)'
    BY <1>3, <2>1, <2>2, <2>3, <2>4 DEF Window, After
  <2> QED
    BY <1>3, <2>5 DEF Windows
<1>4. ASSUME NEW stop_at \in StopTimes, eval_schedule(stop_at) PROVE Windows'
  <2>1. stop_at \in Int
    BY StatementAssumption
  <2>2. /\ due' = get_tasks(vm, stop_at) /\ vm' = vm /\ pc' = "sched"
        /\ op' = "run" /\ op' # "eval"
    BY <1>1, <1>4 DEF eval_schedule
  <2> QED
    BY <1>3, <2>1, <2>2
<1>5. CASE NextStatement
  <2>1. PICK i \in DOMAIN pend : wit' = pend[i] /\ due' = get_tasks(vm, pend[i].stamp)
    BY <1>5 DEF NextStatement
  <2>2. pend[i].stamp \in Int
    BY StatementAssumption DEF IInv, TypeOK
  <2>3. vm' = vm /\ pc' = "sched" /\ wit'.stamp = pend[i].stamp
    BY <1>5, <2>1 DEF NextStatement
  <2> QED
    BY <1>3, <2>1, <2>2, <2>3
<1>6. CASE NextTask
  <2>1. PICK i \in DOMAIN due : IsLeast(i, DOMAIN due) /\ task' = due[i]
                                /\ due' = Drop(due, i)
    BY <1>6 DEF NextTask
  <2>2. PICK a \in Nat : Window(a)
    BY <1>6 DEF NextTask, Windows
  <2>3. Running = 0 /\ Running' = 1 /\ UNCHANGED <<vm, op, wit>>
    BY <1>6 DEF NextTask, Running
  <2>4. /\ DOMAIN due \subseteq (a + 1)..(a + Len(vm.tasks))
        /\ \A k \in DOMAIN due : due[k] = vm.tasks[k - a]
                                 /\ (a + 1)..k \subseteq DOMAIN due
        /\ op = "eval" /\ vm.output = NULL =>
             \A k \in ((a + 1)..(a + Len(vm.tasks))) \ DOMAIN due :
               After(vm.tasks[k - a], wit.stamp)
    <3>1. /\ a + Len(vm.tasks) - 0 = a + Len(vm.tasks)
          /\ \A k \in Int : k - a + 0 = k - a
      BY <1>1
    <3>2. DOMAIN due \subseteq Int /\ (a + 1)..(a + Len(vm.tasks)) \subseteq Int
      BY <1>1, <2>2, <2>3 DEF Window
    <3> QED
      BY <2>2, <2>3, <3>1, <3>2 DEF Window
  <2>5. i = a + 1 /\ Len(vm.tasks) >= 1
    <3>1. i \in (a + 1)..(a + Len(vm.tasks)) /\ (a + 1)..i \subseteq DOMAIN due
      BY <2>4
    <3>2. a + 1 \in (a + 1)..i /\ i \in Int
      BY <1>1, <3>1
    <3>3. i <= a + 1
      BY <2>1, <3>1, <3>2 DEF IsLeast
    <3> QED
      BY <1>1, <3>1, <3>3
  <2>6. vm'.tasks # <<>> /\ task' = Head(vm'.tasks)
    <3>1. task' = vm.tasks[1]
      BY <2>1, <2>4, <2>5
    <3> QED
      BY <1>1, <2>3, <2>5, <3>1
  <2>7. /\ DOMAIN due' = DOMAIN due \ {a + 1}
        /\ \A k \in DOMAIN due' : due'[k] = due[k]
    BY <2>1, <2>5 DEF Drop
  <2>8. /\ DOMAIN due' \subseteq (a + 2)..(a + Len(vm.tasks))
        /\ \A k \in DOMAIN due' : due'[k] = vm.tasks[k - a]
                                  /\ (a + 2)..k \subseteq DOMAIN due'
        /\ op = "eval" /\ vm.output = NULL =>
             \A k \in ((a + 2)..(a + Len(vm.tasks))) \ DOMAIN due' :
               After(vm.tasks[k - a], wit.stamp)
    <3>1. (a + 2)..(a + Len(vm.tasks)) \subseteq (a + 1)..(a + Len(vm.tasks))
      BY <1>1
    <3>2. \A k \in (a + 2)..(a + Len(vm.tasks)) : k # a + 1
      BY <1>1
    <3>3. \A k \in DOMAIN due : (a + 2)..k \subseteq (a + 1)..k
      BY <1>1, <2>4
    <3>4. \A k \in DOMAIN due : a + 1 \notin (a + 2)..k
      BY <1>1, <2>4
    <3>5. DOMAIN due' \subseteq (a + 2)..(a + Len(vm.tasks))
      BY <1>1, <2>4, <2>7
    <3> QED
      BY <2>4, <2>7, <3>1, <3>2, <3>3, <3>4, <3>5
  <2>9. /\ a + 1 \in Nat /\ (a + 1) + 1 = a + 2
        /\ (a + 1) + Len(vm.tasks) - 1 = a + Len(vm.tasks)
        /\ \A k \in Int : k - (a + 1) + 1 = k - a
    <3> DEFINE l == Len(vm.tasks)
    <3>1. l \in Nat
      BY <1>1
    <3> HIDE DEF l
    <3>2. a + 1 \in Nat /\ (a + 1) + 1 = a + 2 /\ (a + 1) + l - 1 = a + l
      BY <3>1
    <3>3. \A k \in Int : k - (a + 1) + 1 = k - a
      OBVIOUS
    <3> QED
      BY <3>2, <3>3 DEF l
  <2>10. DOMAIN due' \subseteq Int /\ (a + 2)..(a + Len(vm.tasks)) \subseteq Int
    BY <1>1, <2>8
  <2>11. Window(a + 1)'
    BY <2>3, <2>8, <2>9, <2>10 DEF Window, After
  <2> QED
    BY <1>6, <2>6, <2>9, <2>11 DEF Windows, NextTask
<1>7. CASE EndOfSchedule
  <2>1. CASE Return(vm)
    BY <1>2, <2>1 DEF Return
  <2>2. CASE op = "eval" /\ ~vm.closed /\ pc' = "load" /\ UNCHANGED <<db, vm, locals>>
    <3>1. pc = "sched" /\ DOMAIN due = {} /\ Running = 0
      BY <1>7 DEF EndOfSchedule, Running
    <3>2. PICK a \in Nat : Window(a)
      BY <3>1 DEF Windows
    <3>3. vm.output = NULL
      BY <2>2 DEF IInv, Sound
    <3>4. \A k \in (a + 1)..(a + Len(vm.tasks)) : After(vm.tasks[k - a], wit.stamp)
      <4>1. a + Len(vm.tasks) - 0 = a + Len(vm.tasks) /\ \A k \in Int : k - a + 0 = k - a
        BY <1>1
      <4>2. (a + 1)..(a + Len(vm.tasks)) \subseteq Int
        BY <1>1
      <4> QED
        BY <2>2, <3>1, <3>2, <3>3, <4>1, <4>2 DEF Window
    <3>5. ASSUME NEW i \in 1..Len(vm.tasks) PROVE After(vm.tasks[i], wit.stamp)
      <4>1. i + a \in (a + 1)..(a + Len(vm.tasks)) /\ (i + a) - a = i
        BY <1>1
      <4> QED
        BY <3>4, <4>1
    <3>6. wit' = wit /\ vm' = vm
      BY <2>2 DEF locals
    <3> QED
      BY <2>2, <3>5, <3>6 DEF Windows, After
  <2> QED
    BY <1>7, <2>1, <2>2 DEF EndOfSchedule
<1>8. CASE TaskPath \/ EndOfPaths \/ TaskClose
  <2>1. /\ pc = "task" /\ vm.output = NULL
        /\ UNCHANGED <<pc, op, wit, due, task>>
    BY <1>8 DEF TaskPath, EndOfPaths, TaskClose
  <2>2. vm'.tasks = vm.tasks
    <3>1. PICK path : /\ \/ vm' = IF Accepts(vm, Input(path))
                                    THEN update_vm_state(vm, Input(path)) ELSE vm
                         \/ vm' = vm
                      /\ alist[pos.a] = "close" => path = NULL
      BY <1>8 DEF TaskPath, EndOfPaths, TaskClose, PATH_ACTIONS
    <3>2. IsInput(Input(path))
      BY <2>1, <3>1, TaskInput
    <3>3. Accepts(vm, Input(path)) =>
            update_vm_state(vm, Input(path)).tasks = vm.tasks
      BY <1>1, <3>2, UpdateFields
    <3> QED
      BY <3>1, <3>3
  <2>3. Running' = Running
    BY <2>1 DEF Running
  <2>4. PICK a \in Nat : Window(a)
    BY <2>1 DEF Windows
  <2>5. Window(a)'
    BY <2>1, <2>2, <2>3, <2>4 DEF Window, After
  <2> QED
    BY <2>1, <2>2, <2>5 DEF Windows
<1>9. CASE EndOfTask
  <2>1. /\ pc' = "sched" /\ Running = 1 /\ Running' = 0 /\ UNCHANGED <<op, wit>>
        /\ vm'.tasks = Tail(vm.tasks) /\ vm'.output = vm.output
        /\ vm.tasks # <<>> /\ pc = "task"
    BY <1>1, <1>9 DEF EndOfTask, Shift, Windows, Machines, Running
  <2>2. /\ Len(vm'.tasks) = Len(vm.tasks) - 1 /\ Len(vm'.tasks) \in Nat
        /\ \A i \in 1..Len(vm'.tasks) : vm'.tasks[i] = vm.tasks[i + 1]
    BY <1>1, <2>1
  <2>3. CASE vm.output # NULL
    <3>1. DOMAIN due' = {}
      BY <1>9, <2>3 DEF EndOfTask
    <3>2. Window(0)'
      BY <2>1, <2>3, <3>1 DEF Window
    <3> QED
      BY <2>1, <3>2 DEF Windows
  <2>4. CASE vm.output = NULL
    <3>1. due' = due
      BY <1>9, <2>4 DEF EndOfTask
    <3>2. PICK a \in Nat : Window(a)
      BY <2>1 DEF Windows
    <3>3. /\ a + Len(vm'.tasks) - 0 = a + Len(vm.tasks) - 1
          /\ a + Len(vm.tasks) - 1 = a + Len(vm'.tasks)
      BY <1>1, <2>2
    <3>4. ASSUME NEW k \in (a + 1)..(a + Len(vm'.tasks))
          PROVE  vm'.tasks[k - a + 0] = vm.tasks[k - a + 1]
      <4>1. k - a \in 1..Len(vm'.tasks) /\ k - a + 0 = k - a
        BY <2>2
      <4> QED
        BY <2>2, <4>1
    <3>5. /\ DOMAIN due \subseteq (a + 1)..(a + Len(vm'.tasks))
          /\ \A k \in DOMAIN due : /\ due[k] = vm.tasks[k - a + 1]
                                   /\ (a + 1)..k \subseteq DOMAIN due
          /\ op = "eval" /\ vm.output = NULL =>
               \A k \in ((a + 1)..(a + Len(vm'.tasks))) \ DOMAIN due :
                 After(vm.tasks[k - a + 1], wit.stamp)
      BY <2>1, <3>2, <3>3 DEF Window
    <3>6. Window(a)'
      BY <2>1, <3>1, <3>3, <3>4, <3>5 DEF Window, After
    <3> QED
      BY <2>1, <3>6 DEF Windows
  <2> QED
    BY <2>3, <2>4
<1>10. ASSUME pc \in {"load", "exec", "update"}, pc' \in {"load", "exec", "update"},
              vm'.tasks = vm.tasks, wit' = wit
       PROVE  Windows'
  BY <1>10 DEF Windows, After
<1>11. CASE load_program \/ claim
  BY <1>2, <1>10, <1>11
  DEF load_program, claim, Throw, VMError, Return, locals
<1>12. CASE record_entry
  <2>1. CASE VMError
    BY <1>2, <2>1 DEF VMError, Return
  <2>2. CASE /\ vm' = [vm EXCEPT !.store = @ \cup {Entry(wit, sig)}]
             /\ pc' \in {"exec", "update"} /\ wit' = wit
    <3>1. vm'.tasks = vm.tasks /\ pc = "exec"
      BY <1>1, <1>12, <2>2 DEF record_entry, Machines
    <3> QED
      BY <1>10, <2>2, <3>1
  <2> QED
    BY <1>12, <2>1, <2>2 DEF record_entry
<1>13. CASE EndOfStack \/ FallsShort \/ Update
  BY <1>2, <1>13 DEF EndOfStack, FallsShort, Update, Throw, VMError, Return
<1>14. ASSUME NEW batch \in Batches, eval_witness(batch) PROVE Windows'
  BY <1>2, <1>14 DEF eval_witness
<1>15. CASE Settled \/ UNCHANGED vars
  <2>1. UNCHANGED <<vm, pc, op, wit, due, task>>
    BY <1>15 DEF Settled, vars, locals
  <2>2. Running' = Running
    BY <2>1 DEF Running
  <2>3. \A a \in Nat : Window(a)' <=> Window(a)
    BY <2>1, <2>2 DEF Window, After
  <2> QED
    BY <2>1, <2>3 DEF Windows, After
<1> QED
  BY <1>4, <1>5, <1>6, <1>7, <1>8, <1>9, <1>11, <1>12, <1>13, <1>14, <1>15
  DEF Next, Call, Step

\* Whatever calls are made, the queue is the rest of the schedule and the due tasks
\* are its head, if no timer is negative (schedule.ts:15-68).
THEOREM ScheduleKept == ASSUME TimersForward PROVE Spec => []Schedules
<1>1. Init => Schedules
  <2> SUFFICES ASSUME Init PROVE Schedules
    OBVIOUS
  <2>1. PICK tasks \in init_tasks : db = init_vm(tasks)
    BY DEF Init
  <2>2. db.tasks = tasks /\ db.head = <<>> /\ vm = db /\ pc = "idle"
    BY <2>1 DEF Init, init_vm
  <2>3. Gone(db, tasks) = 0
    BY <2>2, OrderFacts DEF Gone
  <2>4. Rest(db, tasks) /\ Fired(db, tasks, Gone(db, tasks))
        /\ Fired(db, tasks, Gone(db, tasks) + Running)
    BY <2>2, <2>3, OrderFacts DEF Rest, Fired
  <2> QED
    BY <2>2, <2>4 DEF Schedules, Accounts, Windows
<1>2. IInv /\ Schedules /\ [Next]_vars => Schedules'
  <2> SUFFICES ASSUME IInv, Schedules, [Next]_vars PROVE Schedules'
    OBVIOUS
  <2>1. PICK order \in init_tasks : Accounts(order)
    BY DEF Schedules
  <2>2. Windows
    BY DEF Schedules
  <2>3. Accounts(order)' /\ Windows'
    BY <2>1, <2>2, AccountStep, WindowStep
  <2>4. init_tasks' = init_tasks
    BY DEF init_tasks, SortedBy
  <2> QED
    BY <2>3, <2>4 DEF Schedules
<1> QED
  BY <1>1, <1>2, Invariance, PTL DEF Spec

\* No task fires early, twice or out of order, and what is queued are the tasks
\* that have not fired, if no timer is negative (schedule.ts:15-68).
THEOREM TasksAccounted == ASSUME TimersForward PROVE Spec => []TaskAccounting
<1>1. IInv /\ Schedules => TaskAccounting
  <2> SUFFICES ASSUME IInv, NEW order \in init_tasks, Accounts(order)
               PROVE  TaskAccounting
    BY DEF Schedules
  <2> DEFINE gone == Len(order) - Len(db.tasks)
  <2>1. /\ db.tasks \in Seq(Tasks) /\ Len(db.tasks) \in Nat
        /\ order \in Seq(Tasks) /\ Len(order) \in Nat
    BY OrderFacts DEF IInv, TypeOK, Machines
  <2>2. Rest(db, order) /\ Gone(db, order) = gone
    BY DEF Accounts, Gone
  <2>3. db.tasks = SubSeq(order, gone + 1, Len(order))
    <3>1. gone \in Nat /\ Len(db.tasks) = Len(order) - gone
      BY <2>1, <2>2 DEF Rest
    <3>2. \A i \in 1..Len(db.tasks) : db.tasks[i] = order[gone + i]
      BY <2>2 DEF Rest
    <3>3. gone + 1 \in Int /\ Len(order) \in Int
          /\ \A i \in (gone + 1)..Len(order) : order[i] \in Tasks
      <4>1. \A i \in 1..Len(order) : order[i] \in Tasks
        BY <2>1
      <4> HIDE DEF gone
      <4> QED
        BY <2>1, <3>1, <4>1
    <3> DEFINE rest == SubSeq(order, gone + 1, Len(order))
    <3>4. /\ rest \in Seq(Tasks)
          /\ Len(rest) = IF gone + 1 <= Len(order)
                         THEN Len(order) - (gone + 1) + 1 ELSE 0
          /\ \A i \in 1..(Len(order) - (gone + 1) + 1) :
               rest[i] = order[gone + 1 + i - 1]
      <4> HIDE DEF gone
      <4> QED
        BY <3>3, SubSeqProperties
    <3> HIDE DEF rest
    <3>5. Len(rest) = Len(db.tasks)
      <4> HIDE DEF gone
      <4> QED
        BY <2>1, <3>1, <3>4
    <3>6. \A i \in 1..Len(db.tasks) : rest[i] = db.tasks[i]
      <4> HIDE DEF gone
      <4>1. TAKE i \in 1..Len(db.tasks)
      <4>2. i \in 1..(Len(order) - (gone + 1) + 1) /\ gone + 1 + i - 1 = gone + i
        BY <2>1, <3>1
      <4> QED
        BY <3>2, <3>4, <4>2
    <3>7. rest = db.tasks
      BY <2>1, <3>4, <3>5, <3>6, SeqEqual
    <3> QED
      BY <3>7 DEF rest
  <2>4. \A k \in 1..Len(db.head) : db.head[k].wid = VMID =>
          \E i \in 1..gone : db.head[k].stamp = ActiveAt + order[i].ts
    BY DEF Accounts, Fired, Gone
  <2> QED
    BY <2>3, <2>4 DEF TaskAccounting
<1> QED
  BY <1>1, Invariance, ScheduleKept, PTL

\* A step commits no statement ahead of a task.
LEMMA NotOvertakenStep ==
  ASSUME IInv, Windows, NotOvertaken(db), NotOvertaken(vm), [Next]_vars
  PROVE  NotOvertaken(db)' /\ NotOvertaken(vm)'
<1>1. Effect /\ vm \in Machines /\ db \in Machines
  BY StepEffect DEF IInv, TypeOK
<1>2. ASSUME vm' \in UpToError(vm) \/ vm' \in UpToError(db) \/ VoteRecorded
      PROVE  NotOvertaken(vm')
  <2>1. \/ vm'.head = vm.head /\ vm'.tasks = vm.tasks
        \/ vm'.head = db.head /\ vm'.tasks = db.tasks
    BY <1>1, <1>2 DEF UpToError, VoteRecorded, Machines
  <2> QED
    BY <2>1 DEF NotOvertaken
<1>3. ASSUME EndOfTask PROVE NotOvertaken(vm')
  <2>1. vm'.head = vm.head /\ vm'.tasks = Tail(vm.tasks) /\ vm.tasks # <<>>
    BY <1>1, <1>3 DEF EndOfTask, Shift, Windows, Machines
  <2>2. vm.tasks \in Seq(Tasks)
    BY <1>1 DEF Machines
  <2>3. \A i \in 1..Len(vm'.tasks) :
          i + 1 \in 1..Len(vm.tasks) /\ vm'.tasks[i] = vm.tasks[i + 1]
    BY <2>1, <2>2
  <2> QED
    BY <2>1, <2>3 DEF NotOvertaken
<1>4. ASSUME NEW in, IsInput(in), Accepts(vm, in), vm' = update_vm_state(vm, in),
             in.wid # VMID =>
               \A i \in 1..Len(vm.tasks) : After(vm.tasks[i], in.stamp)
      PROVE  NotOvertaken(vm')
  <2>1. vm'.tasks = vm.tasks /\ vm'.head = Append(vm.head, Commit(vm, in))
        /\ vm.head \in Seq(Commits)
    BY <1>1, <1>4, UpdateFields DEF Machines
  <2>2. \A k \in 1..Len(vm'.head) :
          \/ k \in 1..Len(vm.head) /\ vm'.head[k] = vm.head[k]
          \/ vm'.head[k] = Commit(vm, in)
    BY <2>1
  <2>3. Commit(vm, in).wid = in.wid /\ Commit(vm, in).stamp = in.stamp
    BY DEF Commit
  <2> QED
    BY <1>4, <2>1, <2>2, <2>3 DEF NotOvertaken
<1>5. ASSUME TaskCommits PROVE NotOvertaken(vm')
  BY <1>4, <1>5 DEF TaskCommits, Input
<1>6. ASSUME StatementCommits PROVE NotOvertaken(vm')
  <2>1. \A i \in 1..Len(vm.tasks) : After(vm.tasks[i], StatementInput.stamp)
    BY <1>6 DEF StatementCommits, Windows, StatementInput
  <2> QED
    BY <1>4, <1>6, <2>1 DEF StatementCommits
<1>7. NotOvertaken(vm')
  BY <1>1, <1>2, <1>3, <1>5, <1>6 DEF Effect
<1> QED
  BY <1>1, <1>7 DEF Effect

\* A statement never overtakes the schedule, if no timer is negative: when it is
\* committed, every task that was due by its stamp has been run (main.ts:60).
THEOREM TasksRunFirst == ASSUME TimersForward PROVE Spec => []TasksFirst
<1>1. Init => NotOvertaken(db) /\ NotOvertaken(vm)
  <2> SUFFICES ASSUME Init PROVE NotOvertaken(db) /\ vm = db
    OBVIOUS
  <2>1. PICK tasks \in init_tasks : db = init_vm(tasks)
    BY DEF Init
  <2> QED
    BY <2>1 DEF Init, init_vm, NotOvertaken
<1>2. IInv /\ Schedules /\ NotOvertaken(db) /\ NotOvertaken(vm) /\ [Next]_vars
        => NotOvertaken(db)' /\ NotOvertaken(vm)'
  BY NotOvertakenStep DEF Schedules
<1>3. NotOvertaken(db) /\ NotOvertaken(vm) => TasksFirst
  BY DEF NotOvertaken, After, TasksFirst, Copies
<1> QED
  BY <1>1, <1>2, <1>3, Invariance, ScheduleKept, PTL DEF Spec
=============================================================================
