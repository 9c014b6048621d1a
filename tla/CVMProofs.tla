----------------------------- MODULE CVMProofs -----------------------------
(***************************************************************************)
(* Proofs about CVM, for every contract, schedule and set of statements.   *)
(***************************************************************************)
EXTENDS CVM, TLAPS

\* A machine without output has spent nothing, and an output closes the machine.
Sound(m) ==
  /\ m.output = NULL => m.status # "spent" /\ \A p \in Paths : m.paths[p] # "spent"
  /\ m.output # NULL => m.closed
  /\ \A p \in Paths : m.paths[p] = "spent" => m.output = p /\ m.status = "spent"

\* What a call knows of its working copy at each place.
Control ==
  /\ pc = "idle" => vm = db
  /\ pc \in {"next", "load", "exec", "update"} => vm.output = NULL
  /\ pc = "sched" => DOMAIN due = {} \/ vm.output = NULL
  /\ pc \in {"exec", "update"} => Loads(wit)

IInv == TypeOK /\ Control /\ Sound(db) /\ Sound(vm)

-----------------------------------------------------------------------------
(* The update of a machine. *)

\* What update_vm_state is called with.
IsInput(in) ==
  /\ in.stamp \in Int
  /\ in.wid \in StatementIds \cup {VMID}
  /\ in.action = "close" => in.path = NULL

\* An accepted input makes machine data of machine data.
LEMMA UpdateType ==
  ASSUME NEW m \in Machines, NEW in, IsInput(in), Accepts(m, in)
  PROVE  update_vm_state(m, in) \in Machines
<1> DEFINE ps     == PathResult(in.action)
           closes == in.action = "close"
           status == IF closes THEN "closed" ELSE update_path_vm_status(m.status, ps)
           ends   == Ends(status)
           paths  == IF closes THEN m.paths ELSE [m.paths EXCEPT ![in.path] = ps]
           c      == Commit(m, in)
           u      == [action |-> in.action, path |-> in.path]
<1>1. in.stamp \in Nat
  BY TimeAssumption DEF Accepts, Timely, IsInput, Machines
<1>2. /\ in.action \in PATH_ACTIONS \cup {"close"}
      /\ in.path \in Paths \cup {NULL}
      /\ ~closes => in.action \in PATH_ACTIONS /\ in.path \in Paths
                    /\ run_path_action(m, in.action, in.path)
  BY DEF Accepts, IsInput, PATH_ACTIONS
<1>3. ~closes => ps \in PathState
  BY <1>2 DEF run_path_action, PathResult, PathState
<1>4. status \in VMStatus
  BY <1>3 DEF update_path_vm_status, VMStatus, Machines
<1>5. paths \in [Paths -> PathState]
  BY <1>3 DEF Machines
<1>6. c \in Commits
  BY <1>1 DEF Commit, Commits, IsInput, Machines
<1>7. u \in Updates
  BY <1>2 DEF Updates
<1>8. Append(m.head, c) \in Seq(Commits) /\ Append(m.hist, u) \in Seq(Updates)
  BY <1>6, <1>7 DEF Machines
<1>9. update_vm_state(m, in) =
        [m EXCEPT !.paths     = paths,
                  !.status    = status,
                  !.step      = m.step + 1,
                  !.commit_at = in.stamp,
                  !.head      = Append(m.head, c),
                  !.hist      = Append(m.hist, u),
                  !.closed    = m.closed \/ ends,
                  !.closed_at = IF ends THEN in.stamp ELSE m.closed_at,
                  !.output    = IF ends THEN in.path ELSE m.output]
  BY DEF update_vm_state, get_commit_hash, Machines
<1> HIDE DEF c, u, paths, status, ends, closes, ps
<1>10. /\ (m.closed \/ ends) \in BOOLEAN
       /\ (IF ends THEN in.stamp ELSE m.closed_at) \in Nat \cup {NULL}
       /\ (IF ends THEN in.path ELSE m.output) \in Paths \cup {NULL}
       /\ m.step + 1 \in Nat
  BY <1>1, <1>2 DEF Machines
<1> DEFINE step   == m.step + 1
           head   == Append(m.head, c)
           hist   == Append(m.hist, u)
           closed == m.closed \/ ends
           at     == IF ends THEN in.stamp ELSE m.closed_at
           output == IF ends THEN in.path ELSE m.output
<1>11. /\ step \in Nat /\ head \in Seq(Commits) /\ hist \in Seq(Updates)
       /\ closed \in BOOLEAN /\ at \in Nat \cup {NULL}
       /\ output \in Paths \cup {NULL}
  BY <1>8, <1>10
<1>12. update_vm_state(m, in) =
         [ commit_at |-> in.stamp, step |-> step, head |-> head, hist |-> hist,
           paths     |-> paths, status |-> status,
           store     |-> m.store, tasks |-> m.tasks,
           closed    |-> closed, closed_at |-> at,
           output    |-> output, error |-> m.error ]
  BY <1>9, ZenonT(40) DEF Machines
<1>13. m.store \in SUBSET Entries /\ m.tasks \in Seq(Tasks) /\ m.error \in BOOLEAN
  BY DEF Machines
<1> HIDE DEF step, head, hist, closed, at, output
<1> QED
  BY <1>1, <1>4, <1>5, <1>11, <1>12, <1>13 DEF Machines

\* An accepted input of a machine without output leaves a sound machine.
LEMMA UpdateSound ==
  ASSUME NEW m \in Machines, NEW in, IsInput(in), Accepts(m, in),
         Sound(m), m.output = NULL
  PROVE  Sound(update_vm_state(m, in))
<1> DEFINE n == update_vm_state(m, in)
<1>1. NULL \notin Paths
  BY LabelAssumption DEF Paths
<1>2. m.status # "spent" /\ \A p \in Paths : m.paths[p] # "spent"
  BY DEF Sound
<1>3. CASE in.action = "close"
  <2>1. n.paths = m.paths /\ n.status = "closed" /\ n.output = NULL
    BY <1>3 DEF update_vm_state, IsInput, Ends, Machines
  <2> QED
    BY <1>2, <2>1 DEF Sound
<1>4. CASE in.action # "close"
  <2>1. in.action \in PATH_ACTIONS /\ in.path \in Paths
        /\ run_path_action(m, in.action, in.path)
    BY <1>4 DEF Accepts
  <2> DEFINE ps == PathResult(in.action)
  <2>2. ps \in PathState
    BY <2>1 DEF run_path_action, PathResult, PathState
  <2>3. /\ n.paths = [m.paths EXCEPT ![in.path] = ps]
        /\ n.status = update_path_vm_status(m.status, ps)
        /\ n.output = IF n.status \in {"closed", "spent"} THEN in.path ELSE m.output
        /\ n.closed = (m.closed \/ n.status \in {"closed", "spent"})
    BY <1>4 DEF update_vm_state, Ends, Machines
  <2> HIDE DEF n, ps
  <2>4. m.paths \in [Paths -> PathState]
    BY DEF Machines
  <2>5. ASSUME ps = "spent" PROVE Sound(n)
    BY <1>1, <1>2, <2>1, <2>3, <2>4, <2>5 DEF Sound, update_path_vm_status
  <2>6. ASSUME ps # "spent" PROVE Sound(n)
    <3>1. n.status # "spent" /\ \A p \in Paths : n.paths[p] # "spent"
      BY <1>2, <2>1, <2>3, <2>4, <2>6 DEF update_path_vm_status
    <3>2. n.output # NULL => n.closed
      BY <2>3
    <3> QED
      BY <3>1, <3>2 DEF Sound
  <2> QED
    BY <2>5, <2>6 DEF n
<1> QED
  BY <1>3, <1>4

-----------------------------------------------------------------------------
(* The steps. *)

\* The locals of an idle machine fit.
LEMMA ReturnInv ==
  ASSUME NEW m \in Machines, Sound(m), Return(m)
  PROVE  IInv'
BY DEF Return, IInv, TypeOK, Control

\* What the filter of the schedule selects are tasks.
LEMMA GetTasks ==
  ASSUME NEW m \in Machines, NEW stop_at
  PROVE  \A i \in DOMAIN get_tasks(m, stop_at) :
           i \in DOMAIN m.tasks /\ get_tasks(m, stop_at)[i] \in Tasks
BY DEF get_tasks, Machines

\* A task's input is one update_vm_state can take.
LEMMA TaskInput ==
  ASSUME NEW path, IInv, pc = "task", alist[pos.a] = "close" => path = NULL
  PROVE  IsInput(Input(path))
BY TimeAssumption, ScheduleAssumption DEF IInv, TypeOK, IsInput, Input

\* So is a statement's.
LEMMA StatementInputOK ==
  ASSUME IInv, pc = "update"
  PROVE  IsInput(StatementInput)
<1>1. wit \in Statements /\ Loads(wit)
  BY DEF IInv, TypeOK, Control
<1>2. wit.stamp \in Nat
  BY <1>1, StatementAssumption
<1>3. wit.action = "close" => wit.path = NULL
  BY <1>1 DEF Loads, PATH_ACTIONS
<1>4. StatementInput.wid \in StatementIds
  BY <1>1 DEF StatementInput, StatementIds
<1> QED
  BY <1>2, <1>3, <1>4 DEF IsInput, StatementInput

\* The copy of a call is machine data, and sound, under the invariant.
LEMMA TaskStep ==
  ASSUME IInv, TaskPath \/ EndOfPaths \/ TaskClose
  PROVE  IInv'
<1> DEFINE Do(path) == vm' = IF Accepts(vm, Input(path))
                               THEN update_vm_state(vm, Input(path)) ELSE vm
<1>1. PICK path : /\ Do(path) \/ vm' = vm
                  /\ alist[pos.a] = "close" => path = NULL
  BY DEF TaskPath, EndOfPaths, TaskClose, PATH_ACTIONS
<1>2. pc = "task" /\ vm.output = NULL /\ vm \in Machines /\ Sound(vm)
  BY DEF IInv, TypeOK, TaskPath, EndOfPaths, TaskClose
<1>3. vm' \in Machines /\ Sound(vm')
  BY <1>1, <1>2, TaskInput, UpdateType, UpdateSound
<1>4. /\ UNCHANGED <<db, pc, op, pend, wit, sig, due, task>>
      /\ pos' = [pos EXCEPT !.p = @ + 1] \/ pos' = [a |-> pos.a + 1, p |-> 1]
  BY DEF TaskPath, EndOfPaths, TaskClose, NextPath, NextAction
<1>5. pos' \in [a : Nat \ {0}, p : Nat \ {0}]
  BY <1>4 DEF IInv, TypeOK
<1> QED
  BY <1>2, <1>3, <1>4, <1>5 DEF IInv, TypeOK, Control, Loads

\* Every step of the machine keeps the invariant.
LEMMA StepInv ==
  ASSUME IInv, [Next]_vars
  PROVE  IInv'
<1> USE DEF IInv
<1>1. ASSUME NEW batch \in Batches, eval_witness(batch) PROVE IInv'
  <2>1. \A i \in DOMAIN batch : batch[i] \in Statements
    BY DEF Batches
  <2>2. vm' \in Machines /\ Sound(vm') /\ vm'.output = NULL
    BY <1>1 DEF eval_witness, TypeOK, Machines, Sound
  <2> QED
    BY <1>1, <2>1, <2>2 DEF eval_witness, TypeOK, Control
<1>2. ASSUME NEW stop_at \in StopTimes, eval_schedule(stop_at) PROVE IInv'
  BY <1>2, GetTasks DEF eval_schedule, TypeOK, Control
<1>3. CASE NextStatement
  BY <1>3, GetTasks DEF NextStatement, Drop, TypeOK, Control
<1>4. CASE EndOfStack
  BY <1>4, ReturnInv DEF EndOfStack, TypeOK
<1>5. CASE NextTask
  BY <1>5 DEF NextTask, Drop, TypeOK, Control
<1>6. CASE EndOfSchedule
  <2>1. CASE Return(vm)
    BY <2>1, ReturnInv DEF TypeOK
  <2>2. CASE /\ pc = "sched" /\ op = "eval" /\ ~vm.closed
             /\ pc' = "load" /\ UNCHANGED <<db, vm, locals>>
    <3>1. vm.output = NULL
      BY <2>2, Zenon DEF Sound
    <3>2. UNCHANGED <<db, vm, op, pend, wit, sig, due, task, pos>> /\ pc' = "load"
      BY <2>2 DEF locals
    <3>3. wit \in Statements
      BY <2>2 DEF TypeOK
    <3>4. TypeOK'
      BY <3>2, <3>3 DEF TypeOK
    <3>5. Control'
      BY <3>1, <3>2 DEF Control
    <3>6. Sound(db)' /\ Sound(vm)'
      BY <3>2 DEF Sound
    <3> QED
      BY <3>4, <3>5, <3>6
  <2> QED
    BY <1>6, <2>1, <2>2 DEF EndOfSchedule
<1>7. CASE TaskPath \/ EndOfPaths \/ TaskClose
  BY <1>7, TaskStep
<1>8. CASE EndOfTask
  <2>1. Shift(vm) \in Seq(Tasks)
    BY DEF Shift, TypeOK, Machines
  <2>2. vm' = [vm EXCEPT !.tasks = Shift(vm)]
    BY <1>8 DEF EndOfTask
  <2>3. vm' \in Machines
    BY <2>1, <2>2 DEF TypeOK, Machines
  <2>4. Sound(vm') /\ vm'.output = vm.output
    BY <2>2 DEF TypeOK, Machines, Sound
  <2> QED
    BY <1>8, <2>3, <2>4 DEF EndOfTask, TypeOK, Control
<1>9. CASE load_program
  BY <1>9, ReturnInv DEF load_program, Throw, TypeOK, Control, Loads
<1>10. CASE record_entry
  <2>1. wit \in Statements /\ vm \in Machines /\ vm.output = NULL /\ Sound(vm)
    BY <1>10 DEF record_entry, TypeOK, Control
  <2>2. CASE VMError
    <3>1. [vm EXCEPT !.error = TRUE] \in Machines /\ Sound([vm EXCEPT !.error = TRUE])
      BY <2>1 DEF Machines, Sound
    <3> QED
      BY <2>2, <3>1, ReturnInv DEF VMError
  <2>3. ASSUME sig <= Len(wit.sigs),
               vm' = [vm EXCEPT !.store = @ \cup {Entry(wit, sig)}],
               pc' \in {"exec", "update"}, sig' \in {sig, sig + 1}, pc = "exec",
               UNCHANGED <<db, op, pend, wit, due, task, pos>>
        PROVE  IInv'
    <3>1. Entry(wit, sig) \in Entries
      BY <2>1, <2>3 DEF Entries, TypeOK
    <3>2. vm' \in Machines /\ Sound(vm') /\ vm'.output = NULL
      BY <2>1, <2>3, <3>1 DEF Machines, Sound
    <3> QED
      BY <2>1, <2>3, <3>2 DEF TypeOK, Control, Loads
  <2> QED
    BY <1>10, <2>2, <2>3 DEF record_entry
<1>11. CASE FallsShort
  BY <1>11 DEF FallsShort, TypeOK, Control
<1>12. CASE claim
  <2>1. [vm EXCEPT !.error = TRUE] \in Machines /\ Sound([vm EXCEPT !.error = TRUE])
    BY DEF TypeOK, Machines, Sound
  <2> QED
    BY <1>12, <2>1, ReturnInv DEF claim, VMError, locals, TypeOK, Control, Loads
<1>13. CASE Update
  <2> DEFINE m == update_vm_state(vm, StatementInput)
  <2>1. vm \in Machines /\ vm.output = NULL /\ Sound(vm) /\ IsInput(StatementInput)
    BY <1>13, StatementInputOK DEF Update, TypeOK, Control
  <2>2. CASE VMError
    <3>1. [vm EXCEPT !.error = TRUE] \in Machines /\ Sound([vm EXCEPT !.error = TRUE])
      BY <2>1 DEF Machines, Sound
    <3> QED
      BY <2>2, <3>1, ReturnInv DEF VMError
  <2>3. CASE Throw
    BY <2>3, ReturnInv DEF Throw, TypeOK
  <2>4. CASE Accepts(vm, StatementInput) /\ m.closed /\ Return(m)
    BY <2>1, <2>4, UpdateType, UpdateSound, ReturnInv
  <2>5. CASE Accepts(vm, StatementInput) /\ ~m.closed /\ vm' = m /\ pc' = "next" /\ sig' = 1
             /\ UNCHANGED <<db, op, pend, due, task, pos>>
    <3>1. m \in Machines /\ Sound(m)
      BY <2>1, <2>5, UpdateType, UpdateSound
    <3>2. m.output = NULL
      BY <2>5, <3>1 DEF Sound
    <3> HIDE DEF m
    <3> QED
      BY <2>5, <3>1, <3>2 DEF TypeOK, Control
  <2> QED
    BY <1>13, <2>2, <2>3, <2>4, <2>5 DEF Update
<1>14. CASE Settled \/ UNCHANGED vars
  BY <1>14 DEF Settled, vars, locals, TypeOK, Control, Loads
<1> QED
  BY <1>1, <1>2, <1>3, <1>4, <1>5, <1>6, <1>7, <1>8, <1>9, <1>10, <1>11, <1>12,
     <1>13, <1>14 DEF Next, Call, Step

\* The invariant holds at the start.
LEMMA InitInv == Init => IInv
<1> SUFFICES ASSUME Init PROVE IInv
  OBVIOUS
<1>1. PICK tasks \in init_tasks : db = init_vm(tasks)
  BY DEF Init
<1>2. tasks \in Seq(Tasks)
  <2>1. PICK q \in [DOMAIN Schedule -> DOMAIN Schedule] :
          tasks = [k \in DOMAIN Schedule |-> Schedule[q[k]]]
    BY DEF init_tasks
  <2>2. DOMAIN Schedule = 1..Len(Schedule) /\ Len(Schedule) \in Nat
    BY ScheduleAssumption
  <2>3. \A k \in DOMAIN Schedule : Schedule[q[k]] \in Tasks
    BY DEF Tasks
  <2>4. tasks \in [1..Len(Schedule) -> Tasks]
    BY <2>1, <2>2, <2>3
  <2> QED
    BY <2>2, <2>4
<1>3. db \in Machines /\ Sound(db)
  <2>1. \A p \in Paths : init_path_state(p) \in PathState \ {"spent"}
    BY DEF init_path_state, PathState
  <2>2. <<>> \in Seq(Commits) /\ <<>> \in Seq(Updates)
    OBVIOUS
  <2>3. db.output = NULL /\ db.status = "init"
        /\ db.paths = [p \in Paths |-> init_path_state(p)]
    BY <1>1 DEF init_vm, init_vm_state
  <2>4. db \in Machines
    BY <1>1, <1>2, <2>1, <2>2, TimeAssumption DEF init_vm, init_vm_state, Machines, VMStatus
  <2> QED
    BY <2>1, <2>3, <2>4 DEF Sound
<1> QED
  BY <1>3 DEF Init, IInv, TypeOK, Control

-----------------------------------------------------------------------------
(* Theorems. *)

\* The invariant is inductive.
THEOREM Invariance == Spec => []IInv
<1>1. IInv /\ [Next]_vars => IInv'
  BY StepInv
<1> QED
  BY InitInv, <1>1, PTL DEF Spec

\* Type correctness.
THEOREM TypeCorrect == Spec => []TypeOK
<1>1. IInv => TypeOK
  BY DEF IInv
<1> QED
  BY Invariance, <1>1, PTL

\* No contract, schedule or sequence of statements settles twice.
THEOREM SettlesOnce == Spec => []SpentOnce
<1>1. IInv => SpentOnce
  BY DEF IInv, Sound, SpentOnce, Copies
<1> QED
  BY Invariance, <1>1, PTL
=============================================================================
