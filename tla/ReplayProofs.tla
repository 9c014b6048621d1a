---------------------------- MODULE ReplayProofs ----------------------------
(***************************************************************************)
(* Proofs about Replay, for every contract, schedule, set of signers and   *)
(* of statements: a statement that was verified is evaluated in time, the  *)
(* engine of the client makes the machine of the server, a session         *)
(* verifies, and what a receipt tells.                                     *)
(*                                                                         *)
(* IInv is about what was verified.  Inside says of each place in a call   *)
(* that the working copy is what the function that stands for the engine   *)
(* has made at that place; Replayed, that the stored machine is the one    *)
(* made of the published statements; Recorded, what receipt and contract   *)
(* say of it.                                                              *)
(***************************************************************************)
EXTENDS Replay, WellFoundedInduction, FiniteSetTheorems, TLAPS

\* Machine data have their fields.
MachineFields ==
  {"commit_at", "step", "head", "hist", "paths", "status", "store", "tasks",
   "closed", "closed_at", "output", "error"}
IsMachine(m) == m = [f \in MachineFields |-> m[f]]

\* A statement that was verified has not expired, and the working copy has not
\* gone past its stamp since.
InTime(w) == Permits(vm, w) /\ w.stamp < ExpiresAt /\ vm.commit_at <= w.stamp

\* Until it is taken, the one statement of a call is on the stack; from then on
\* it is the one that is evaluated, and no task comes after it.
OnStack ==
  /\ DOMAIN pend \subseteq {1}
  /\ DOMAIN pend # {} => pc = "next" /\ InTime(pend[1])

Evaluated ==
  op = "eval" /\ pc \in {"sched", "task", "load", "exec", "update"} =>
    /\ InTime(wit)
    /\ \A k \in DOMAIN due : InWindow(due[k], wit.stamp)
    /\ pc = "task" => InWindow(task, wit.stamp)

Control ==
  /\ pc \in {"idle", "next", "sched", "task", "load", "exec", "update"}
  /\ pc \in {"load", "exec", "update"} => op = "eval" /\ DOMAIN due = {}
  /\ pc \in {"exec", "update"} => Loads(wit)

IInv == IsMachine(db) /\ IsMachine(vm) /\ Control /\ OnStack /\ Evaluated

-----------------------------------------------------------------------------
(* The machine data.                                                        *)

\* An update gives the machine the stamp of its input (state.ts:32-62).
LEMMA UpdateStamps ==
  ASSUME NEW m, IsMachine(m), NEW in
  PROVE  /\ IsMachine(update_vm_state(m, in))
         /\ update_vm_state(m, in).commit_at = in.stamp
BY ZenonT(40) DEF update_vm_state, IsMachine, MachineFields

\* What is set of the machine data leaves the rest as it is.
LEMMA SetFields ==
  ASSUME NEW m, IsMachine(m), NEW v
  PROVE  /\ IsMachine([m EXCEPT !.error = v]) /\ [m EXCEPT !.error = v].commit_at = m.commit_at
         /\ IsMachine([m EXCEPT !.tasks = v]) /\ [m EXCEPT !.tasks = v].commit_at = m.commit_at
         /\ IsMachine([m EXCEPT !.store = v]) /\ [m EXCEPT !.store = v].commit_at = m.commit_at
BY DEF IsMachine, MachineFields

\* A call that returns leaves nothing behind but the machine data.
LEMMA ReturnInv ==
  ASSUME NEW m, IsMachine(m), Return(m)
  PROVE  IInv'
BY DEF Return, IInv, Control, OnStack, Evaluated

-----------------------------------------------------------------------------
(* The steps of a call.                                                     *)

\* The statement is taken, with the tasks that are due by its stamp (main.ts:56-60).
LEMMA NextStatementInv ==
  ASSUME IInv, NextStatement
  PROVE  IInv'
<1>1. /\ pc = "next" /\ pc' = "sched" /\ db' = db /\ vm' = vm /\ op' = op
      /\ 1 \in DOMAIN pend /\ wit' = pend[1] /\ DOMAIN pend' = {}
      /\ due' = get_tasks(vm, pend[1].stamp)
  BY DEF NextStatement, IInv, OnStack, Drop
<1>2. InTime(wit)'
  BY <1>1 DEF IInv, OnStack, InTime, Permits
<1>3. \A k \in DOMAIN due' : InWindow(due'[k], wit'.stamp)
  BY <1>1 DEF get_tasks
<1> QED
  BY <1>1, <1>2, <1>3 DEF IInv, Control, OnStack, Evaluated

\* A due task is taken (schedule.ts:24-26).
LEMMA NextTaskInv ==
  ASSUME IInv, NextTask
  PROVE  IInv'
<1>1. /\ pc = "sched" /\ pc' = "task" /\ UNCHANGED <<db, vm, op, pend, wit>>
  BY DEF NextTask
<1>2. PICK i \in DOMAIN due : task' = due[i] /\ due' = Drop(due, i)
  BY DEF NextTask
<1>3. op = "eval" => /\ InWindow(task', wit.stamp)
                     /\ \A k \in DOMAIN due' : InWindow(due'[k], wit.stamp)
  BY <1>1, <1>2 DEF IInv, Evaluated, Drop
<1>4. InTime(wit)' <=> InTime(wit)
  BY <1>1 DEF InTime, Permits
<1> QED
  BY <1>1, <1>3, <1>4 DEF IInv, Control, OnStack, Evaluated

\* A task that updates the machine does so at its own time, which the statement
\* does not come before (schedule.ts:43-66).
LEMMA RunTaskInv ==
  ASSUME IInv, TaskPath \/ EndOfPaths \/ TaskClose
  PROVE  IInv'
<1>1. /\ pc = "task" /\ UNCHANGED <<db, pc, op, pend, wit, due, task>>
      /\ \/ vm' = vm
         \/ \E path : vm' = update_vm_state(vm, Input(path))
  BY DEF TaskPath, EndOfPaths, TaskClose
<1>2. IsMachine(vm') /\ vm'.commit_at \in {vm.commit_at, ActiveAt + task.ts}
  <2>1. CASE vm' = vm
    BY <2>1 DEF IInv
  <2>2. ASSUME NEW path, vm' = update_vm_state(vm, Input(path))
        PROVE  IsMachine(vm') /\ vm'.commit_at = ActiveAt + task.ts
    <3>1. Input(path).stamp = ActiveAt + task.ts
      BY DEF Input
    <3> QED
      BY <2>2, <3>1, UpdateStamps DEF IInv
  <2> QED
    BY <1>1, <2>1, <2>2
<1>3. op = "eval" => InTime(wit)'
  BY <1>1, <1>2 DEF IInv, Evaluated, InTime, InWindow, Permits
<1> QED
  BY <1>1, <1>2, <1>3 DEF IInv, Control, OnStack, Evaluated

\* A task leaves the queue (schedule.ts:27-28).
LEMMA EndOfTaskInv ==
  ASSUME IInv, EndOfTask
  PROVE  IInv'
<1>1. /\ pc = "task" /\ pc' = "sched" /\ UNCHANGED <<db, op, pend, wit>>
      /\ vm' = [vm EXCEPT !.tasks = Shift(vm)]
      /\ \A k \in DOMAIN due' : k \in DOMAIN due /\ due'[k] = due[k]
  BY DEF EndOfTask
<1>2. IsMachine(vm') /\ vm'.commit_at = vm.commit_at
  BY <1>1, SetFields DEF IInv
<1>3. InTime(wit)' <=> InTime(wit)
  BY <1>1, <1>2 DEF InTime, Permits
<1> QED
  BY <1>1, <1>2, <1>3 DEF IInv, Control, OnStack, Evaluated

\* After the schedule the statement is loaded, or the call is over (main.ts:60-67).
LEMMA EndOfScheduleInv ==
  ASSUME IInv, EndOfSchedule
  PROVE  IInv'
<1>1. CASE Return(vm)
  BY <1>1, ReturnInv DEF IInv
<1>2. CASE pc' = "load" /\ op = "eval" /\ UNCHANGED <<db, vm, locals>>
  <2>1. InTime(wit)' <=> InTime(wit)
    BY <1>2 DEF InTime, Permits, locals
  <2> QED
    BY <1>2, <2>1 DEF EndOfSchedule, IInv, Control, OnStack, Evaluated, locals
<1> QED
  BY <1>1, <1>2 DEF EndOfSchedule

\* The program and its method record votes; errors end the call (program.ts:47-107).
LEMMA ProgramInv ==
  ASSUME IInv, load_program \/ record_entry \/ FallsShort \/ claim
  PROVE  IInv'
<1>1. CASE Throw \/ VMError
  BY <1>1, ReturnInv, SetFields DEF Throw, VMError, IInv
<1>2. CASE /\ pc \in {"load", "exec"} /\ pc' \in {"exec", "update"} /\ Loads(wit)
           /\ \/ vm' = vm
              \/ vm' = [vm EXCEPT !.store = @ \cup {Entry(wit, sig)}]
           /\ UNCHANGED <<db, op, pend, wit, due, task>>
  <2>1. IsMachine(vm') /\ vm'.commit_at = vm.commit_at
    <3>1. CASE vm' = vm
      BY <3>1 DEF IInv
    <3>2. CASE vm' = [vm EXCEPT !.store = @ \cup {Entry(wit, sig)}]
      BY <3>2 DEF IInv, IsMachine, MachineFields
    <3> QED
      BY <1>2, <3>1, <3>2
  <2>2. InTime(wit)' <=> InTime(wit)
    BY <1>2, <2>1 DEF InTime, Permits
  <2>3. Loads(wit)'
    BY <1>2 DEF Loads
  <2> QED
    BY <1>2, <2>1, <2>2, <2>3 DEF IInv, Control, OnStack, Evaluated
<1>3. CASE FallsShort
  BY <1>3 DEF FallsShort, IInv, Control, OnStack, Evaluated
<1>4. CASE load_program
  BY <1>1, <1>2, <1>4 DEF load_program
<1>5. CASE record_entry
  BY <1>1, <1>2, <1>5 DEF record_entry, IInv, Control
<1>6. CASE claim
  BY <1>1, <1>2, <1>6 DEF claim, IInv, Control, locals
<1> QED
  BY <1>3, <1>4, <1>5, <1>6

\* The statement takes effect and leaves the stack empty, or ends the call
\* (program.ts:53-55).
LEMMA UpdateInv ==
  ASSUME IInv, Update
  PROVE  IInv'
<1> DEFINE m == update_vm_state(vm, StatementInput)
<1>1. IsMachine(m)
  BY UpdateStamps DEF IInv
<1> HIDE DEF m
<1>2. CASE Return(m)
  BY <1>1, <1>2, ReturnInv
<1>3. CASE vm' = m /\ pc' = "next" /\ UNCHANGED <<db, op, pend, due, task>>
  BY <1>1, <1>3 DEF Update, IInv, Control, OnStack, Evaluated
<1>4. CASE Throw \/ VMError
  BY <1>4, ReturnInv, SetFields DEF Throw, VMError, IInv
<1> QED
  BY <1>2, <1>3, <1>4 DEF Update, m

\* A step of a call.
LEMMA StepInv ==
  ASSUME IInv, Step
  PROVE  IInv'
<1>1. CASE EndOfStack
  BY <1>1, ReturnInv DEF EndOfStack, IInv
<1> QED
  BY <1>1, NextStatementInv, NextTaskInv, RunTaskInv, EndOfTaskInv, EndOfScheduleInv,
     ProgramInv, UpdateInv DEF Step

-----------------------------------------------------------------------------
(* The calls of the server.                                                 *)

\* A statement that the server verified is the one of the call
\* (validation/witness.ts:30-62).
LEMMA SubmitInv ==
  ASSUME IInv, NEW w, Submit(w)
  PROVE  IInv'
<1>1. /\ pc = "idle" /\ pc' = "next" /\ db' = db /\ vm' = [db EXCEPT !.error = FALSE]
      /\ pend' = <<w>>
  BY DEF Submit, eval_witness
<1>2. IsMachine(vm') /\ vm'.commit_at = db.commit_at
  BY <1>1, SetFields DEF IInv
<1>3. Permits(db, w) /\ db.commit_at <= w.stamp /\ w.stamp < ExpiresAt
  BY DEF Submit, verify_witness_data
<1>4. DOMAIN pend' = {1} /\ pend'[1] = w
  BY <1>1
<1>5. InTime(pend[1])'
  BY <1>2, <1>3, <1>4 DEF InTime, Permits
<1> QED
  BY <1>1, <1>2, <1>4, <1>5 DEF IInv, Control, OnStack, Evaluated

\* A run of the schedule evaluates no statement.
LEMMA RunScheduleInv ==
  ASSUME IInv, NEW stop_at, RunSchedule(stop_at)
  PROVE  IInv'
<1>1. /\ pc = "idle" /\ pc' = "sched" /\ op' = "run" /\ UNCHANGED <<db, vm, pend>>
  BY DEF RunSchedule, eval_schedule
<1> QED
  BY <1>1 DEF IInv, Control, OnStack, Evaluated

\* Nothing else touches the machine.
LEMMA ReplayStepInv ==
  ASSUME IInv, [ReplayNext]_<<vars, audit>>
  PROVE  IInv'
<1>1. CASE UNCHANGED vars
  BY <1>1 DEF vars, locals, IInv, Control, OnStack, Evaluated, InTime, Permits
<1>2. CASE Step
  BY <1>2, StepInv
<1>3. CASE \E w : Submit(w)
  BY <1>3, SubmitInv
<1>4. CASE \E stop_at : RunSchedule(stop_at)
  BY <1>4, RunScheduleInv
<1>5. \/ UNCHANGED vars \/ Step \/ (\E w : Submit(w)) \/ (\E stop_at : RunSchedule(stop_at))
  BY DEF ReplayNext, Create, Endorse, Discard, close_contract, Proceed, Finished, Failed, Answered
<1> QED
  BY <1>1, <1>2, <1>3, <1>4, <1>5

\* The invariant holds in every reachable state.
THEOREM Invariance == ReplaySpec => []IInv
<1>1. ReplayInit => IInv
  <2> SUFFICES ASSUME ReplayInit PROVE IInv
    OBVIOUS
  <2>1. PICK tasks \in init_tasks : db = init_vm(tasks)
    BY DEF ReplayInit, Init
  <2>2. IsMachine(db) /\ vm = db /\ pc = "idle" /\ pend = <<>> /\ due = <<>>
    BY <2>1 DEF ReplayInit, Init, init_vm, IsMachine, MachineFields
  <2> QED
    BY <2>2 DEF IInv, Control, OnStack, Evaluated
<1> QED
  BY <1>1, ReplayStepInv, PTL DEF ReplaySpec

\* Whatever tasks come first, a statement that was verified is in time when it
\* takes effect, and is evaluated unless its action or its path is one that only
\* the engine looks at (validation/witness.ts:30-62, program.ts:63-99).
THEOREM VerifiedIsEvaluated == ReplaySpec => []VerifiedRuns
<1>1. IInv => VerifiedRuns
  <2> SUFFICES ASSUME IInv PROVE VerifiedRuns
    OBVIOUS
  <2>1. pc \in {"load", "update"} => InTime(wit)
    BY DEF IInv, Control, Evaluated
  <2>2. ASSUME pc = "load", ~Loads(wit), wit.path # "null"
        PROVE  wit.path = NULL <=> wit.action \in PATH_ACTIONS
    <3>1. PICK i \in DOMAIN Programs :
             /\ IsFound(i, wit.prog) /\ regex(wit.action, Programs[i].actions)
             /\ wit.path # NULL => regex(wit.path, Programs[i].paths)
      BY <2>1, <2>2 DEF InTime, Permits
    <3> QED
      BY <2>2, <3>1 DEF Loads
  <2>3. ASSUME pc = "update"
        PROVE  /\ Timely(vm, wit.stamp)
               /\ Faults(vm, StatementInput) => wit.action \notin PATH_ACTIONS \cup {"close"}
    <3>1. Timely(vm, wit.stamp)
      BY <2>1, <2>3 DEF InTime, Timely
    <3>2. ASSUME Faults(vm, StatementInput), wit.action \in PATH_ACTIONS
          PROVE  FALSE
      <4>1. wit.path \notin Paths
        BY <3>2 DEF Faults, StatementInput
      <4>2. wit.path # NULL
        BY <2>3, <3>2 DEF IInv, Control, Loads
      <4> QED
        BY <2>1, <2>3, <4>1, <4>2 DEF InTime, Permits
    <3> QED
      BY <3>1, <3>2 DEF Faults, StatementInput
  <2> QED
    BY <2>2, <2>3 DEF VerifiedRuns
<1> QED
  BY <1>1, Invariance, PTL

-----------------------------------------------------------------------------
(* The loops of the engine.  Each is a recursive function of the number of  *)
(* turns (engine, Replay): that there is one is shown with a least number   *)
(* of turns for which there is none.                                        *)

\* What holds at 0, and at n + 1 if it does at n, holds of every number: there
\* is no least number of turns of a loop of the engine that breaks it
\* (schedule.ts:15-68, main.ts:42-78).
LEMMA NatGrow ==
  ASSUME NEW Good, 0 \in Good, \A n \in Nat : n \in Good => n + 1 \in Good
  PROVE  Nat \subseteq Good
<1> DEFINE Bad == {n \in Nat : n \notin Good}
           Sets == {1..n : n \in Bad}
<1> SUFFICES ASSUME Bad # {} PROVE FALSE
  OBVIOUS
<1>1. PICK T \in Sets : \A U \in Sets : <<U, T>> \notin StrictSubsetOrdering(Nat)
  <2>1. Sets \subseteq FiniteSubsetsOf(Nat) /\ Sets # {}
    <3>1. \A n \in Nat : IsFiniteSet(1..n)
      BY FS_Interval
    <3> QED
      BY <3>1 DEF FiniteSubsetsOf
  <2> HIDE DEF Sets
  <2> QED
    BY <2>1, FS_StrictSubsetOrderingWellFounded, WFMin
<1>2. PICK n \in Bad : T = 1..n
  OBVIOUS
<1>3. n # 0 /\ n - 1 \in Nat
  BY <1>2
<1>4. n - 1 \notin Bad
  <2>1. 1..(n - 1) \subseteq Nat /\ 1..n \subseteq Nat /\ 1..(n - 1) \subseteq 1..n
    BY <1>3
  <2>2. n \in 1..n /\ n \notin 1..(n - 1)
    BY <1>3
  <2>3. <<1..(n - 1), T>> \in StrictSubsetOrdering(Nat)
    BY <1>2, <2>1, <2>2 DEF StrictSubsetOrdering
  <2> QED
    BY <1>1, <2>3
<1> QED
  BY <1>3, <1>4

\* What there is after each path of a task (schedule.ts:43-55).
LEMMA OverPathsDef ==
  ASSUME NEW m, NEW t, NEW action,
         Len(wlist(t.paths, PathNames)) \in Nat
  PROVE  LET after == OverPaths(m, t, action) IN
         /\ after[0] = m
         /\ \A k \in 1..Len(wlist(t.paths, PathNames)) : after[k] = Try(after[k - 1], TaskInput(t, action, wlist(t.paths, PathNames)[k]))
<1> DEFINE Base == m
           Turn(r, k) == Try(r, TaskInput(t, action, wlist(t.paths, PathNames)[k]))
           IsAfter(f, n) == f = [k \in 0..n |-> IF k = 0 THEN Base ELSE Turn(f[k - 1], k)]
           Good == {n \in Nat : \E f : IsAfter(f, n)}
<1>1. OverPaths(m, t, action) = CHOOSE f : IsAfter(f, Len(wlist(t.paths, PathNames)))
  BY DEF OverPaths
<1> HIDE DEF Base, Turn
<1>2. 0 \in Good
  <2>1. IsAfter([k \in 0..0 |-> Base], 0)
    OBVIOUS
  <2> QED
    BY <2>1
<1>3. ASSUME NEW n \in Nat, n \in Good PROVE n + 1 \in Good
  <2>1. PICK f : IsAfter(f, n)
    BY <1>3
  <2> DEFINE g == [k \in 0..(n + 1) |-> IF k = n + 1 THEN Turn(f[n], k) ELSE f[k]]
  <2>2. \A k \in 0..(n + 1) : g[k] = IF k = 0 THEN Base ELSE Turn(g[k - 1], k)
    BY <2>1
  <2>3. g = [k \in 0..(n + 1) |-> g[k]]
    OBVIOUS
  <2> HIDE DEF g
  <2>4. IsAfter(g, n + 1)
    BY <2>2, <2>3
  <2> QED
    BY <2>4
<1>4. Nat \subseteq Good
  <2> HIDE DEF Good
  <2> QED
    BY <1>2, <1>3, NatGrow
<1>5. \E f : IsAfter(f, Len(wlist(t.paths, PathNames)))
  BY <1>4
<1>6. IsAfter(OverPaths(m, t, action), Len(wlist(t.paths, PathNames)))
  <2> HIDE DEF IsAfter
  <2> QED
    BY <1>1, <1>5
<1>7. ASSUME NEW n \in Nat, NEW f, IsAfter(f, n)
      PROVE  f[0] = Base /\ \A k \in 1..n : f[k] = Turn(f[k - 1], k)
  BY <1>7
<1> HIDE DEF IsAfter
<1> QED
  BY <1>6, <1>7 DEF Base, Turn

\* What there is after each action of a task (schedule.ts:35-68).
LEMMA OverActionsDef ==
  ASSUME NEW m, NEW t,
         Len(wlist(t.actions, VALID_ACTIONS)) \in Nat
  PROVE  LET after == OverActions(m, t) IN
         /\ after[0] = m
         /\ \A k \in 1..Len(wlist(t.actions, VALID_ACTIONS)) : after[k] = IF wlist(t.actions, VALID_ACTIONS)[k] \in PATH_ACTIONS
             THEN run_paths(after[k - 1], t, wlist(t.actions, VALID_ACTIONS)[k])
             ELSE Try(after[k - 1], TaskInput(t, wlist(t.actions, VALID_ACTIONS)[k], NULL))
<1> DEFINE Base == m
           Turn(r, k) == IF wlist(t.actions, VALID_ACTIONS)[k] \in PATH_ACTIONS
             THEN run_paths(r, t, wlist(t.actions, VALID_ACTIONS)[k])
             ELSE Try(r, TaskInput(t, wlist(t.actions, VALID_ACTIONS)[k], NULL))
           IsAfter(f, n) == f = [k \in 0..n |-> IF k = 0 THEN Base ELSE Turn(f[k - 1], k)]
           Good == {n \in Nat : \E f : IsAfter(f, n)}
<1>1. OverActions(m, t) = CHOOSE f : IsAfter(f, Len(wlist(t.actions, VALID_ACTIONS)))
  BY DEF OverActions
<1> HIDE DEF Base, Turn
<1>2. 0 \in Good
  <2>1. IsAfter([k \in 0..0 |-> Base], 0)
    OBVIOUS
  <2> QED
    BY <2>1
<1>3. ASSUME NEW n \in Nat, n \in Good PROVE n + 1 \in Good
  <2>1. PICK f : IsAfter(f, n)
    BY <1>3
  <2> DEFINE g == [k \in 0..(n + 1) |-> IF k = n + 1 THEN Turn(f[n], k) ELSE f[k]]
  <2>2. \A k \in 0..(n + 1) : g[k] = IF k = 0 THEN Base ELSE Turn(g[k - 1], k)
    BY <2>1
  <2>3. g = [k \in 0..(n + 1) |-> g[k]]
    OBVIOUS
  <2> HIDE DEF g
  <2>4. IsAfter(g, n + 1)
    BY <2>2, <2>3
  <2> QED
    BY <2>4
<1>4. Nat \subseteq Good
  <2> HIDE DEF Good
  <2> QED
    BY <1>2, <1>3, NatGrow
<1>5. \E f : IsAfter(f, Len(wlist(t.actions, VALID_ACTIONS)))
  BY <1>4
<1>6. IsAfter(OverActions(m, t), Len(wlist(t.actions, VALID_ACTIONS)))
  <2> HIDE DEF IsAfter
  <2> QED
    BY <1>1, <1>5
<1>7. ASSUME NEW n \in Nat, NEW f, IsAfter(f, n)
      PROVE  f[0] = Base /\ \A k \in 1..n : f[k] = Turn(f[k - 1], k)
  BY <1>7
<1> HIDE DEF IsAfter
<1> QED
  BY <1>6, <1>7 DEF Base, Turn

\* What there is after each task that is due (schedule.ts:15-30).
LEMMA OverTasksDef ==
  ASSUME NEW m, NEW stop_at,
         Len(m.tasks) \in Nat
  PROVE  LET after == OverTasks(m, stop_at) IN
         /\ after[0] = m
         /\ \A k \in 1..Len(m.tasks) : after[k] = IF after[k - 1].output # NULL \/ ~InWindow(m.tasks[k], stop_at) THEN after[k - 1]
             ELSE FinishTask(run_task(after[k - 1], m.tasks[k]))
<1> DEFINE Base == m
           Turn(r, k) == IF r.output # NULL \/ ~InWindow(m.tasks[k], stop_at) THEN r
             ELSE FinishTask(run_task(r, m.tasks[k]))
           IsAfter(f, n) == f = [k \in 0..n |-> IF k = 0 THEN Base ELSE Turn(f[k - 1], k)]
           Good == {n \in Nat : \E f : IsAfter(f, n)}
<1>1. OverTasks(m, stop_at) = CHOOSE f : IsAfter(f, Len(m.tasks))
  BY DEF OverTasks
<1> HIDE DEF Base, Turn
<1>2. 0 \in Good
  <2>1. IsAfter([k \in 0..0 |-> Base], 0)
    OBVIOUS
  <2> QED
    BY <2>1
<1>3. ASSUME NEW n \in Nat, n \in Good PROVE n + 1 \in Good
  <2>1. PICK f : IsAfter(f, n)
    BY <1>3
  <2> DEFINE g == [k \in 0..(n + 1) |-> IF k = n + 1 THEN Turn(f[n], k) ELSE f[k]]
  <2>2. \A k \in 0..(n + 1) : g[k] = IF k = 0 THEN Base ELSE Turn(g[k - 1], k)
    BY <2>1
  <2>3. g = [k \in 0..(n + 1) |-> g[k]]
    OBVIOUS
  <2> HIDE DEF g
  <2>4. IsAfter(g, n + 1)
    BY <2>2, <2>3
  <2> QED
    BY <2>4
<1>4. Nat \subseteq Good
  <2> HIDE DEF Good
  <2> QED
    BY <1>2, <1>3, NatGrow
<1>5. \E f : IsAfter(f, Len(m.tasks))
  BY <1>4
<1>6. IsAfter(OverTasks(m, stop_at), Len(m.tasks))
  <2> HIDE DEF IsAfter
  <2> QED
    BY <1>1, <1>5
<1>7. ASSUME NEW n \in Nat, NEW f, IsAfter(f, n)
      PROVE  f[0] = Base /\ \A k \in 1..n : f[k] = Turn(f[k - 1], k)
  BY <1>7
<1> HIDE DEF IsAfter
<1> QED
  BY <1>6, <1>7 DEF Base, Turn

\* What there is after each signature of a statement (endorse.ts:22-35).
LEMMA OverSigsDef ==
  ASSUME NEW m, NEW w,
         Len(w.sigs) \in Nat
  PROVE  LET after == OverSigs(m, w) IN
         /\ after[0] = [m |-> m, st |-> "short"]
         /\ \A k \in 1..Len(w.sigs) : after[k] = IF after[k - 1].st # "short" THEN after[k - 1] ELSE Vote(after[k - 1].m, w, k)
<1> DEFINE Base == [m |-> m, st |-> "short"]
           Turn(r, k) == IF r.st # "short" THEN r ELSE Vote(r.m, w, k)
           IsAfter(f, n) == f = [k \in 0..n |-> IF k = 0 THEN Base ELSE Turn(f[k - 1], k)]
           Good == {n \in Nat : \E f : IsAfter(f, n)}
<1>1. OverSigs(m, w) = CHOOSE f : IsAfter(f, Len(w.sigs))
  BY DEF OverSigs
<1> HIDE DEF Base, Turn
<1>2. 0 \in Good
  <2>1. IsAfter([k \in 0..0 |-> Base], 0)
    OBVIOUS
  <2> QED
    BY <2>1
<1>3. ASSUME NEW n \in Nat, n \in Good PROVE n + 1 \in Good
  <2>1. PICK f : IsAfter(f, n)
    BY <1>3
  <2> DEFINE g == [k \in 0..(n + 1) |-> IF k = n + 1 THEN Turn(f[n], k) ELSE f[k]]
  <2>2. \A k \in 0..(n + 1) : g[k] = IF k = 0 THEN Base ELSE Turn(g[k - 1], k)
    BY <2>1
  <2>3. g = [k \in 0..(n + 1) |-> g[k]]
    OBVIOUS
  <2> HIDE DEF g
  <2>4. IsAfter(g, n + 1)
    BY <2>2, <2>3
  <2> QED
    BY <2>4
<1>4. Nat \subseteq Good
  <2> HIDE DEF Good
  <2> QED
    BY <1>2, <1>3, NatGrow
<1>5. \E f : IsAfter(f, Len(w.sigs))
  BY <1>4
<1>6. IsAfter(OverSigs(m, w), Len(w.sigs))
  <2> HIDE DEF IsAfter
  <2> QED
    BY <1>1, <1>5
<1>7. ASSUME NEW n \in Nat, NEW f, IsAfter(f, n)
      PROVE  f[0] = Base /\ \A k \in 1..n : f[k] = Turn(f[k - 1], k)
  BY <1>7
<1> HIDE DEF IsAfter
<1> QED
  BY <1>6, <1>7 DEF Base, Turn

\* What there is after each statement of a call (main.ts:42-78).
LEMMA OverStackDef ==
  ASSUME NEW m, NEW stack,
         Len(stack) \in Nat
  PROVE  LET after == OverStack(m, stack) IN
         /\ after[0] = [m |-> [m EXCEPT !.error = FALSE], end |-> FALSE, threw |-> FALSE]
         /\ \A k \in 1..Len(stack) : after[k] = IF after[k - 1].end THEN after[k - 1] ELSE eval_statement(after[k - 1].m, stack[k])
<1> DEFINE Base == [m |-> [m EXCEPT !.error = FALSE], end |-> FALSE, threw |-> FALSE]
           Turn(r, k) == IF r.end THEN r ELSE eval_statement(r.m, stack[k])
           IsAfter(f, n) == f = [k \in 0..n |-> IF k = 0 THEN Base ELSE Turn(f[k - 1], k)]
           Good == {n \in Nat : \E f : IsAfter(f, n)}
<1>1. OverStack(m, stack) = CHOOSE f : IsAfter(f, Len(stack))
  BY DEF OverStack
<1> HIDE DEF Base, Turn
<1>2. 0 \in Good
  <2>1. IsAfter([k \in 0..0 |-> Base], 0)
    OBVIOUS
  <2> QED
    BY <2>1
<1>3. ASSUME NEW n \in Nat, n \in Good PROVE n + 1 \in Good
  <2>1. PICK f : IsAfter(f, n)
    BY <1>3
  <2> DEFINE g == [k \in 0..(n + 1) |-> IF k = n + 1 THEN Turn(f[n], k) ELSE f[k]]
  <2>2. \A k \in 0..(n + 1) : g[k] = IF k = 0 THEN Base ELSE Turn(g[k - 1], k)
    BY <2>1
  <2>3. g = [k \in 0..(n + 1) |-> g[k]]
    OBVIOUS
  <2> HIDE DEF g
  <2>4. IsAfter(g, n + 1)
    BY <2>2, <2>3
  <2> QED
    BY <2>4
<1>4. Nat \subseteq Good
  <2> HIDE DEF Good
  <2> QED
    BY <1>2, <1>3, NatGrow
<1>5. \E f : IsAfter(f, Len(stack))
  BY <1>4
<1>6. IsAfter(OverStack(m, stack), Len(stack))
  <2> HIDE DEF IsAfter
  <2> QED
    BY <1>1, <1>5
<1>7. ASSUME NEW n \in Nat, NEW f, IsAfter(f, n)
      PROVE  f[0] = Base /\ \A k \in 1..n : f[k] = Turn(f[k - 1], k)
  BY <1>7
<1> HIDE DEF IsAfter
<1> QED
  BY <1>6, <1>7 DEF Base, Turn

\* What there is after each call of the client (validation/contract.ts:163-165).
LEMMA OverCallsDef ==
  ASSUME NEW ws,
         Len(ws) \in Nat
  PROVE  LET after == OverCalls(ws) IN
         /\ after[0] = Went(engine_init)
         /\ \A k \in 1..Len(ws) : after[k] = IF after[k - 1].threw THEN after[k - 1] ELSE engine_eval(after[k - 1].m, <<ws[k]>>)
<1> DEFINE Base == Went(engine_init)
           Turn(r, k) == IF r.threw THEN r ELSE engine_eval(r.m, <<ws[k]>>)
           IsAfter(f, n) == f = [k \in 0..n |-> IF k = 0 THEN Base ELSE Turn(f[k - 1], k)]
           Good == {n \in Nat : \E f : IsAfter(f, n)}
<1>1. OverCalls(ws) = CHOOSE f : IsAfter(f, Len(ws))
  BY DEF OverCalls
<1> HIDE DEF Base, Turn
<1>2. 0 \in Good
  <2>1. IsAfter([k \in 0..0 |-> Base], 0)
    OBVIOUS
  <2> QED
    BY <2>1
<1>3. ASSUME NEW n \in Nat, n \in Good PROVE n + 1 \in Good
  <2>1. PICK f : IsAfter(f, n)
    BY <1>3
  <2> DEFINE g == [k \in 0..(n + 1) |-> IF k = n + 1 THEN Turn(f[n], k) ELSE f[k]]
  <2>2. \A k \in 0..(n + 1) : g[k] = IF k = 0 THEN Base ELSE Turn(g[k - 1], k)
    BY <2>1
  <2>3. g = [k \in 0..(n + 1) |-> g[k]]
    OBVIOUS
  <2> HIDE DEF g
  <2>4. IsAfter(g, n + 1)
    BY <2>2, <2>3
  <2> QED
    BY <2>4
<1>4. Nat \subseteq Good
  <2> HIDE DEF Good
  <2> QED
    BY <1>2, <1>3, NatGrow
<1>5. \E f : IsAfter(f, Len(ws))
  BY <1>4
<1>6. IsAfter(OverCalls(ws), Len(ws))
  <2> HIDE DEF IsAfter
  <2> QED
    BY <1>1, <1>5
<1>7. ASSUME NEW n \in Nat, NEW f, IsAfter(f, n)
      PROVE  f[0] = Base /\ \A k \in 1..n : f[k] = Turn(f[k - 1], k)
  BY <1>7
<1> HIDE DEF IsAfter
<1> QED
  BY <1>6, <1>7 DEF Base, Turn

\* What holds at the start of a loop, and after a turn if it did before, holds
\* all along.
LEMMA Along ==
  ASSUME NEW N \in Nat, NEW Good, 0 \in Good, \A k \in 1..N : k - 1 \in Good => k \in Good
  PROVE  0..N \subseteq Good
<1> DEFINE Upto == {n \in Nat : n <= N => n \in Good}
<1>1. 0 \in Upto
  OBVIOUS
<1>2. \A n \in Nat : n \in Upto => n + 1 \in Upto
  <2> SUFFICES ASSUME NEW n \in Nat, n \in Upto, n + 1 <= N PROVE n + 1 \in Good
    OBVIOUS
  <2>1. n + 1 \in 1..N /\ (n + 1) - 1 = n /\ n \in Good
    OBVIOUS
  <2> QED
    BY <2>1
<1>3. Nat \subseteq Upto
  <2> HIDE DEF Upto
  <2> QED
    BY <1>1, <1>2, NatGrow
<1> QED
  BY <1>3

\* A loop that has halted stays where it is.
LEMMA Halts ==
  ASSUME NEW N \in Nat, NEW after, NEW Halt,
         \A k \in 1..N : k - 1 \in Halt => k \in Halt /\ after[k] = after[k - 1],
         NEW i \in 0..N, i \in Halt, NEW j \in i..N
  PROVE  after[j] = after[i]
<1> DEFINE Good == {k \in 0..N : k >= i => k \in Halt /\ after[k] = after[i]}
<1>1. 0 \in Good
  OBVIOUS
<1>2. \A k \in 1..N : k - 1 \in Good => k \in Good
  OBVIOUS
<1>3. 0..N \subseteq Good
  <2> HIDE DEF Good
  <2> QED
    BY <1>1, <1>2, Along
<1> QED
  BY <1>3

\* Turns that change nothing.
LEMMA Idles ==
  ASSUME NEW N \in Nat, NEW after, NEW i \in 0..N, NEW j \in i..N,
         \A k \in (i + 1)..j : after[k] = after[k - 1]
  PROVE  after[j] = after[i]
<1> DEFINE Good == {k \in 0..N : k >= i /\ k <= j => after[k] = after[i]}
<1>1. 0 \in Good
  OBVIOUS
<1>2. \A k \in 1..N : k - 1 \in Good => k \in Good
  OBVIOUS
<1>3. 0..N \subseteq Good
  <2> HIDE DEF Good
  <2> QED
    BY <1>1, <1>2, Along
<1> QED
  BY <1>3

-----------------------------------------------------------------------------
\* The machine without the error of the call before (main.ts:47).
Clean(m) == [m EXCEPT !.error = FALSE]

\* The lists of a task.
PathsOf(t)   == wlist(t.paths, PathNames)
ActionsOf(t) == wlist(t.actions, VALID_ACTIONS)

\* The paths and the actions of a task are lists, which '*' stands for as well.
LEMMA TaskLists ==
  ASSUME NEW t \in Tasks
  PROVE  Len(PathsOf(t)) \in Nat /\ Len(ActionsOf(t)) \in Nat
<1>1. Len(VALID_ACTIONS) \in Nat
  BY DEF VALID_ACTIONS
<1> QED
  BY <1>1, LabelAssumption, ScheduleAssumption DEF PathsOf, ActionsOf, wlist

\* The machine data that an update makes, field by field (state.ts:32-62).
LEMMA UpdateMakes ==
  ASSUME NEW m, IsMachine(m), NEW in
  PROVE  LET n      == update_vm_state(m, in)
             closes == in.action = "close"
             status == IF closes THEN "closed"
                       ELSE update_path_vm_status(m.status, PathResult(in.action))
         IN /\ IsMachine(n)
            /\ n.paths = IF closes THEN m.paths
                         ELSE [m.paths EXCEPT ![in.path] = PathResult(in.action)]
            /\ n.status = status
            /\ n.step = m.step + 1 /\ n.commit_at = in.stamp
            /\ n.head = Append(m.head, Commit(m, in))
            /\ n.hist = Append(m.hist, [action |-> in.action, path |-> in.path])
            /\ n.closed = (m.closed \/ Ends(status))
            /\ n.closed_at = IF Ends(status) THEN in.stamp ELSE m.closed_at
            /\ n.output = IF Ends(status) THEN in.path ELSE m.output
            /\ n.store = m.store /\ n.tasks = m.tasks /\ n.error = m.error
BY ZenonT(40) DEF IsMachine, MachineFields, update_vm_state, get_commit_hash

\* Machine data are equal if their fields are.
LEMMA SameFields ==
  ASSUME NEW m, NEW n, IsMachine(m), IsMachine(n),
         m.commit_at = n.commit_at, m.step = n.step, m.head = n.head, m.hist = n.hist,
         m.paths = n.paths, m.status = n.status, m.store = n.store, m.tasks = n.tasks,
         m.closed = n.closed, m.closed_at = n.closed_at, m.output = n.output,
         m.error = n.error
  PROVE  m = n
<1>1. \A f \in MachineFields : m[f] = n[f]
  BY DEF MachineFields
<1> QED
  BY <1>1 DEF IsMachine

\* The machine without its error.
LEMMA CleanMakes ==
  ASSUME NEW m, IsMachine(m)
  PROVE  LET n == Clean(m) IN
         /\ IsMachine(n) /\ n.error = FALSE
         /\ n.commit_at = m.commit_at /\ n.step = m.step /\ n.head = m.head
         /\ n.hist = m.hist /\ n.paths = m.paths /\ n.status = m.status
         /\ n.store = m.store /\ n.tasks = m.tasks /\ n.closed = m.closed
         /\ n.closed_at = m.closed_at /\ n.output = m.output
BY DEF IsMachine, MachineFields, Clean

\* An update that is tried leaves the queue alone, does nothing to a machine with
\* a result, and does not look at the error.
LEMMA TryKeeps ==
  ASSUME NEW m, IsMachine(m), NEW in
  PROVE  /\ IsMachine(Try(m, in)) /\ Try(m, in).tasks = m.tasks
         /\ m.output # NULL => Try(m, in) = m
         /\ Try(Clean(m), in) = Clean(Try(m, in))
         /\ IsMachine(Clean(m)) /\ Clean(m).output = m.output /\ Clean(m).tasks = m.tasks
<1>1. Accepts(Clean(m), in) <=> Accepts(m, in)
  BY CleanMakes DEF Accepts, Timely, run_path_action, exec_resolve
<1>2. /\ IsMachine(update_vm_state(m, in)) /\ update_vm_state(m, in).tasks = m.tasks
  BY UpdateMakes
<1>3. update_vm_state(Clean(m), in) = Clean(update_vm_state(m, in))
  <2> DEFINE c == Clean(m)
             u == update_vm_state(m, in)
             v == update_vm_state(c, in)
             w == Clean(u)
  <2>0. IsMachine(c)
    BY CleanMakes
  <2>1. /\ IsMachine(c) /\ c.error = FALSE
        /\ c.commit_at = m.commit_at /\ c.step = m.step /\ c.head = m.head
        /\ c.hist = m.hist /\ c.paths = m.paths /\ c.status = m.status
        /\ c.store = m.store /\ c.tasks = m.tasks /\ c.closed = m.closed
        /\ c.closed_at = m.closed_at /\ c.output = m.output
    BY CleanMakes
  <2>2. Commit(c, in) = Commit(m, in)
    BY <2>1 DEF Commit
  <2> HIDE DEF c
  <2>3. IsMachine(v) /\ v.error = c.error
    BY <2>1, UpdateMakes
  <2>4. IsMachine(w) /\ w.error = FALSE
    BY <1>2, CleanMakes
  <2>5. /\ v.commit_at = u.commit_at /\ v.step = u.step /\ v.head = u.head
        /\ v.hist = u.hist /\ v.paths = u.paths /\ v.status = u.status
        /\ v.store = u.store /\ v.tasks = u.tasks /\ v.closed = u.closed
        /\ v.closed_at = u.closed_at /\ v.output = u.output
    <3> DEFINE status == IF in.action = "close" THEN "closed"
                         ELSE update_path_vm_status(m.status, PathResult(in.action))
               statusOfC == IF in.action = "close" THEN "closed"
                            ELSE update_path_vm_status(c.status, PathResult(in.action))
    <3>0. statusOfC = status
      BY <2>1
    <3>1. /\ u.commit_at = in.stamp /\ u.step = m.step + 1
          /\ u.head = Append(m.head, Commit(m, in))
          /\ u.hist = Append(m.hist, [action |-> in.action, path |-> in.path])
          /\ u.paths = IF in.action = "close" THEN m.paths
                       ELSE [m.paths EXCEPT ![in.path] = PathResult(in.action)]
          /\ u.status = status /\ u.store = m.store /\ u.tasks = m.tasks
          /\ u.closed = (m.closed \/ Ends(status))
          /\ u.closed_at = IF Ends(status) THEN in.stamp ELSE m.closed_at
          /\ u.output = IF Ends(status) THEN in.path ELSE m.output
      BY UpdateMakes
    <3>2. /\ v.commit_at = in.stamp /\ v.step = c.step + 1
          /\ v.head = Append(c.head, Commit(c, in))
          /\ v.hist = Append(c.hist, [action |-> in.action, path |-> in.path])
          /\ v.paths = IF in.action = "close" THEN c.paths
                       ELSE [c.paths EXCEPT ![in.path] = PathResult(in.action)]
          /\ v.status = statusOfC /\ v.store = c.store /\ v.tasks = c.tasks
          /\ v.closed = (c.closed \/ Ends(statusOfC))
          /\ v.closed_at = IF Ends(statusOfC) THEN in.stamp ELSE c.closed_at
          /\ v.output = IF Ends(statusOfC) THEN in.path ELSE c.output
      BY <2>0, UpdateMakes
    <3> HIDE DEF u, v, status, statusOfC
    <3> QED
      BY <2>1, <2>2, <3>0, <3>1, <3>2
  <2>6. /\ u.commit_at = w.commit_at /\ u.step = w.step /\ u.head = w.head
        /\ u.hist = w.hist /\ u.paths = w.paths /\ u.status = w.status
        /\ u.store = w.store /\ u.tasks = w.tasks /\ u.closed = w.closed
        /\ u.closed_at = w.closed_at /\ u.output = w.output
    <3> HIDE DEF u
    <3> QED
      BY <1>2, CleanMakes DEF u
  <2> HIDE DEF u, v, w
  <2>7. v = w
    BY <2>1, <2>3, <2>4, <2>5, <2>6, SameFields
  <2> QED
    BY <2>7 DEF c, u, v, w
<1> QED
  BY <1>1, <1>2, <1>3, CleanMakes DEF Try

\* A machine that a part of a task has made of m: the queue is the one of m, and
\* a machine that has a result is left alone.
Made(n, m) == /\ IsMachine(n) /\ n.tasks = m.tasks
              /\ m.output # NULL => n = m

\* One action of a task on its paths (schedule.ts:43-55).
LEMMA PathsKept ==
  ASSUME NEW m, IsMachine(m), NEW t \in Tasks, NEW action
  PROVE  LET after  == OverPaths(m, t, action)
             afresh == OverPaths(Clean(m), t, action)
             N      == Len(PathsOf(t))
         IN /\ \A k \in 0..N : Made(after[k], m) /\ afresh[k] = Clean(after[k])
            /\ \A i \in 0..N : \A j \in i..N : after[i].output # NULL => after[j] = after[i]
<1> DEFINE after  == OverPaths(m, t, action)
           afresh == OverPaths(Clean(m), t, action)
           N      == Len(PathsOf(t))
           in(k)  == TaskInput(t, action, PathsOf(t)[k])
<1>1. N \in Nat
  BY TaskLists
<1>2. after[0] = m /\ \A k \in 1..N : after[k] = Try(after[k - 1], in(k))
  BY <1>1, OverPathsDef DEF PathsOf
<1>3. afresh[0] = Clean(m) /\ \A k \in 1..N : afresh[k] = Try(afresh[k - 1], in(k))
  BY <1>1, OverPathsDef DEF PathsOf
<1> HIDE DEF after, afresh, N, in
<1>4. \A k \in 0..N : Made(after[k], m) /\ afresh[k] = Clean(after[k])
  <2> DEFINE Good == {k \in 0..N : Made(after[k], m) /\ afresh[k] = Clean(after[k])}
  <2>1. 0 \in Good
    BY <1>1, <1>2, <1>3 DEF Made
  <2>2. ASSUME NEW k \in 1..N, k - 1 \in Good PROVE k \in Good
    <3>1. Made(after[k - 1], m) /\ afresh[k - 1] = Clean(after[k - 1])
      BY <2>2
    <3>2. after[k] = Try(after[k - 1], in(k)) /\ afresh[k] = Try(Clean(after[k - 1]), in(k))
      BY <1>2, <1>3, <3>1
    <3>3. IsMachine(after[k - 1])
      BY <3>1 DEF Made
    <3>4. Made(after[k], m)
      BY <3>1, <3>2, <3>3, TryKeeps DEF Made
    <3>5. afresh[k] = Clean(after[k])
      BY <3>2, <3>3, TryKeeps
    <3> QED
      BY <1>1, <3>4, <3>5
  <2> HIDE DEF Good
  <2>3. 0..N \subseteq Good
    BY <1>1, <2>1, <2>2, Along
  <2> QED
    BY <2>3 DEF Good
<1>5. ASSUME NEW i \in 0..N, NEW j \in i..N, after[i].output # NULL
      PROVE  after[j] = after[i]
  <2> DEFINE Halt == {k \in 0..N : after[k].output # NULL}
  <2>1. ASSUME NEW k \in 1..N, k - 1 \in Halt PROVE k \in Halt /\ after[k] = after[k - 1]
    <3>1. k - 1 \in 0..N /\ k \in 0..N /\ after[k - 1].output # NULL
      BY <1>1, <2>1
    <3>2. IsMachine(after[k - 1])
      BY <1>4, <3>1 DEF Made
    <3>3. after[k] = after[k - 1]
      BY <1>2, <3>1, <3>2, TryKeeps
    <3> QED
      BY <3>1, <3>3
  <2>2. i \in Halt
    BY <1>5
  <2> HIDE DEF Halt
  <2> QED
    BY <1>1, <2>1, <2>2, Halts
<1> QED
  BY <1>4, <1>5 DEF after, afresh, N

\* The paths of an action, all of them.
LEMMA PathsMade ==
  ASSUME NEW m, IsMachine(m), NEW t \in Tasks, NEW action
  PROVE  /\ Made(run_paths(m, t, action), m)
         /\ run_paths(Clean(m), t, action) = Clean(run_paths(m, t, action))
<1>1. Len(PathsOf(t)) \in 0..Len(PathsOf(t))
  BY TaskLists
<1> QED
  BY <1>1, PathsKept DEF run_paths, PathsOf

\* One task, action by action (schedule.ts:35-68).
LEMMA ActionsKept ==
  ASSUME NEW m, IsMachine(m), NEW t \in Tasks
  PROVE  LET after  == OverActions(m, t)
             afresh == OverActions(Clean(m), t)
             N      == Len(ActionsOf(t))
         IN /\ \A k \in 0..N : Made(after[k], m) /\ afresh[k] = Clean(after[k])
            /\ \A i \in 0..N : \A j \in i..N : after[i].output # NULL => after[j] = after[i]
<1> DEFINE after  == OverActions(m, t)
           afresh == OverActions(Clean(m), t)
           N      == Len(ActionsOf(t))
           Turn(r, k) == IF ActionsOf(t)[k] \in PATH_ACTIONS
                         THEN run_paths(r, t, ActionsOf(t)[k])
                         ELSE Try(r, TaskInput(t, ActionsOf(t)[k], NULL))
<1>1. N \in Nat
  BY TaskLists
<1>2. after[0] = m /\ \A k \in 1..N : after[k] = Turn(after[k - 1], k)
  BY <1>1, OverActionsDef DEF ActionsOf
<1>3. afresh[0] = Clean(m) /\ \A k \in 1..N : afresh[k] = Turn(afresh[k - 1], k)
  <2>1. afresh = OverActions(Clean(m), t)
    OBVIOUS
  <2> HIDE DEF after
  <2> QED
    BY <1>1, OverActionsDef DEF ActionsOf
<1>4. ASSUME NEW n, IsMachine(n), NEW k
      PROVE  /\ Made(Turn(n, k), n)
             /\ Turn(Clean(n), k) = Clean(Turn(n, k))
  <2>1. CASE ActionsOf(t)[k] \in PATH_ACTIONS
    BY <1>4, <2>1, PathsMade
  <2>2. CASE ActionsOf(t)[k] \notin PATH_ACTIONS
    BY <1>4, <2>2, TryKeeps DEF Made
  <2> QED
    BY <2>1, <2>2
<1> HIDE DEF after, afresh, N, Turn
<1>5. \A k \in 0..N : Made(after[k], m) /\ afresh[k] = Clean(after[k])
  <2> DEFINE Good == {k \in 0..N : Made(after[k], m) /\ afresh[k] = Clean(after[k])}
  <2>1. 0 \in Good
    BY <1>1, <1>2, <1>3 DEF Made
  <2>2. ASSUME NEW k \in 1..N, k - 1 \in Good PROVE k \in Good
    <3>1. Made(after[k - 1], m) /\ afresh[k - 1] = Clean(after[k - 1])
      BY <2>2
    <3>2. after[k] = Turn(after[k - 1], k) /\ afresh[k] = Turn(Clean(after[k - 1]), k)
      BY <1>2, <1>3, <3>1
    <3>3. IsMachine(after[k - 1])
      BY <3>1 DEF Made
    <3>4. Made(after[k], after[k - 1]) /\ afresh[k] = Clean(after[k])
      BY <1>4, <3>2, <3>3
    <3>5. Made(after[k], m)
      BY <3>1, <3>4 DEF Made
    <3> QED
      BY <1>1, <3>4, <3>5
  <2> HIDE DEF Good
  <2>3. 0..N \subseteq Good
    BY <1>1, <2>1, <2>2, Along
  <2> QED
    BY <2>3 DEF Good
<1>6. ASSUME NEW i \in 0..N, NEW j \in i..N, after[i].output # NULL
      PROVE  after[j] = after[i]
  <2> DEFINE Halt == {k \in 0..N : after[k].output # NULL}
  <2>1. ASSUME NEW k \in 1..N, k - 1 \in Halt PROVE k \in Halt /\ after[k] = after[k - 1]
    <3>1. k - 1 \in 0..N /\ k \in 0..N /\ after[k - 1].output # NULL
      BY <1>1, <2>1
    <3>2. IsMachine(after[k - 1])
      BY <1>5, <3>1 DEF Made
    <3>3. after[k] = after[k - 1]
      BY <1>2, <1>4, <3>1, <3>2 DEF Made
    <3> QED
      BY <3>1, <3>3
  <2>2. i \in Halt
    BY <1>6
  <2> HIDE DEF Halt
  <2> QED
    BY <1>1, <2>1, <2>2, Halts
<1> QED
  BY <1>5, <1>6 DEF after, afresh, N

\* A task, all of it.
LEMMA TaskMade ==
  ASSUME NEW m, IsMachine(m), NEW t \in Tasks
  PROVE  /\ Made(run_task(m, t), m)
         /\ run_task(Clean(m), t) = Clean(run_task(m, t))
<1>1. Len(ActionsOf(t)) \in 0..Len(ActionsOf(t))
  BY TaskLists
<1> QED
  BY <1>1, ActionsKept DEF run_task, ActionsOf

\* No timer is negative, which nothing in the code ensures (proposal.ts:105-121).
TimersForward == \A t \in Tasks : t.ts >= 0

\* A queue of tasks in the order of their timers.
QueueOK(q) == q \in Seq(Tasks) /\ \A i, j \in DOMAIN q : i < j => q[i].ts <= q[j].ts

\* The queue without its first task.
LEMMA QueueShifts ==
  ASSUME NEW m, IsMachine(m), QueueOK(m.tasks)
  PROVE  LET n == FinishTask(m) IN
         /\ IsMachine(n) /\ n.tasks = Shift(m) /\ n.output = m.output /\ QueueOK(n.tasks)
         /\ FinishTask(Clean(m)) = Clean(n)
         /\ m.tasks # <<>> =>
              /\ Len(n.tasks) = Len(m.tasks) - 1
              /\ \A i \in 1..(Len(m.tasks) - 1) : n.tasks[i] = m.tasks[i + 1]
<1> DEFINE n == FinishTask(m)
<1>1. IsMachine(n) /\ n.tasks = Shift(m) /\ n.output = m.output
  BY DEF FinishTask, IsMachine, MachineFields
<1>2. FinishTask(Clean(m)) = Clean(n)
  BY DEF FinishTask, IsMachine, MachineFields, Clean, Shift
<1>3. m.tasks # <<>> =>
        /\ Len(Tail(m.tasks)) = Len(m.tasks) - 1
        /\ Tail(m.tasks) \in Seq(Tasks)
        /\ \A i \in 1..(Len(m.tasks) - 1) : Tail(m.tasks)[i] = m.tasks[i + 1]
  BY DEF QueueOK
<1>4. QueueOK(Shift(m))
  <2>1. CASE m.tasks = <<>>
    BY <2>1 DEF Shift, QueueOK
  <2>2. CASE m.tasks # <<>>
    <3> DEFINE q == Tail(m.tasks)
    <3>1. q \in Seq(Tasks) /\ DOMAIN q = 1..(Len(m.tasks) - 1) /\ Len(m.tasks) \in Nat
          /\ DOMAIN m.tasks = 1..Len(m.tasks)
      BY <1>3, <2>2 DEF QueueOK
    <3>2. ASSUME NEW i \in DOMAIN q, NEW j \in DOMAIN q, i < j PROVE q[i].ts <= q[j].ts
      <4>1. i + 1 \in DOMAIN m.tasks /\ j + 1 \in DOMAIN m.tasks /\ i + 1 < j + 1
        BY <3>1, <3>2
      <4>2. q[i] = m.tasks[i + 1] /\ q[j] = m.tasks[j + 1]
        BY <1>3, <2>2, <3>1
      <4> QED
        BY <4>1, <4>2 DEF QueueOK
    <3> QED
      BY <2>2, <3>1, <3>2 DEF Shift, QueueOK
  <2> QED
    BY <2>1, <2>2
<1> HIDE DEF n
<1> QED
  BY <1>1, <1>2, <1>3, <1>4 DEF n, Shift

\* The tasks that are due, one after the other (schedule.ts:15-30).
LEMMA TasksKept ==
  ASSUME NEW m, IsMachine(m), QueueOK(m.tasks), NEW stop_at
  PROVE  LET after  == OverTasks(m, stop_at)
             afresh == OverTasks(Clean(m), stop_at)
             N      == Len(m.tasks)
         IN /\ \A k \in 0..N : /\ IsMachine(after[k]) /\ QueueOK(after[k].tasks)
                               /\ afresh[k] = Clean(after[k])
                               /\ m.output # NULL => after[k] = m
            /\ \A i \in 0..N : \A j \in i..N : after[i].output # NULL => after[j] = after[i]
<1> DEFINE after  == OverTasks(m, stop_at)
           afresh == OverTasks(Clean(m), stop_at)
           N      == Len(m.tasks)
           Turn(r, k) == IF r.output # NULL \/ ~InWindow(m.tasks[k], stop_at) THEN r
                         ELSE FinishTask(run_task(r, m.tasks[k]))
<1>1. N \in Nat /\ \A k \in 1..N : m.tasks[k] \in Tasks
  BY DEF QueueOK
<1>2. after[0] = m /\ \A k \in 1..N : after[k] = Turn(after[k - 1], k)
  BY <1>1, OverTasksDef
<1>3. afresh[0] = Clean(m) /\ \A k \in 1..N : afresh[k] = Turn(afresh[k - 1], k)
  <2> DEFINE c == Clean(m)
  <2>1. c.tasks = m.tasks
    BY CleanMakes
  <2>2. afresh = OverTasks(c, stop_at)
    OBVIOUS
  <2> HIDE DEF c, after, afresh
  <2>3. Len(c.tasks) \in Nat
    BY <1>1, <2>1
  <2>4. /\ afresh[0] = c
        /\ \A k \in 1..Len(c.tasks) : afresh[k] =
             IF afresh[k - 1].output # NULL \/ ~InWindow(c.tasks[k], stop_at) THEN afresh[k - 1]
             ELSE FinishTask(run_task(afresh[k - 1], c.tasks[k]))
    BY <2>2, <2>3, OverTasksDef
  <2> QED
    BY <2>1, <2>4 DEF c
<1>4. ASSUME NEW n, IsMachine(n), QueueOK(n.tasks), NEW k \in 1..N
      PROVE  /\ IsMachine(Turn(n, k)) /\ QueueOK(Turn(n, k).tasks)
             /\ Turn(Clean(n), k) = Clean(Turn(n, k))
             /\ n.output # NULL => Turn(n, k) = n
  <2>0. m.tasks[k] \in Tasks /\ Clean(n).output = n.output
    BY <1>1, <1>4, CleanMakes
  <2>1. CASE n.output # NULL \/ ~InWindow(m.tasks[k], stop_at)
    BY <1>4, <2>0, <2>1
  <2>2. CASE ~(n.output # NULL \/ ~InWindow(m.tasks[k], stop_at))
    <3> DEFINE r == run_task(n, m.tasks[k])
    <3>1. IsMachine(r) /\ r.tasks = n.tasks /\ run_task(Clean(n), m.tasks[k]) = Clean(r)
      BY <1>4, <2>0, TaskMade DEF Made
    <3>2. Turn(n, k) = FinishTask(r) /\ Turn(Clean(n), k) = FinishTask(Clean(r))
      BY <2>0, <2>2, <3>1
    <3> HIDE DEF r, Turn
    <3> QED
      BY <1>4, <2>2, <3>1, <3>2, QueueShifts
  <2> QED
    BY <2>1, <2>2
<1> HIDE DEF after, afresh, N, Turn
<1>5. \A k \in 0..N : /\ IsMachine(after[k]) /\ QueueOK(after[k].tasks)
                      /\ afresh[k] = Clean(after[k])
                      /\ m.output # NULL => after[k] = m
  <2> DEFINE Kept(k) == /\ IsMachine(after[k]) /\ QueueOK(after[k].tasks)
                        /\ afresh[k] = Clean(after[k])
                        /\ m.output # NULL => after[k] = m
             Good == {k \in 0..N : Kept(k)}
  <2>1. 0 \in Good
    BY <1>1, <1>2, <1>3
  <2>2. ASSUME NEW k \in 1..N, k - 1 \in Good PROVE k \in Good
    <3>1. Kept(k - 1)
      BY <2>2
    <3>2. after[k] = Turn(after[k - 1], k) /\ afresh[k] = Turn(Clean(after[k - 1]), k)
      BY <1>2, <1>3, <3>1
    <3>3. Kept(k)
      BY <1>4, <3>1, <3>2
    <3> QED
      BY <1>1, <3>3
  <2> HIDE DEF Good
  <2>3. 0..N \subseteq Good
    BY <1>1, <2>1, <2>2, Along
  <2> QED
    BY <2>3 DEF Good
<1>6. ASSUME NEW i \in 0..N, NEW j \in i..N, after[i].output # NULL
      PROVE  after[j] = after[i]
  <2> DEFINE Halt == {k \in 0..N : after[k].output # NULL}
  <2>1. ASSUME NEW k \in 1..N, k - 1 \in Halt PROVE k \in Halt /\ after[k] = after[k - 1]
    <3>1. k - 1 \in 0..N /\ k \in 0..N /\ after[k - 1].output # NULL
      BY <1>1, <2>1
    <3>3. after[k] = after[k - 1]
      BY <1>2, <1>4, <1>5, <3>1
    <3> QED
      BY <3>1, <3>3
  <2>2. i \in Halt
    BY <1>6
  <2> HIDE DEF Halt
  <2> QED
    BY <1>1, <2>1, <2>2, Halts
<1> QED
  BY <1>5, <1>6 DEF after, afresh, N

\* A run of the schedule, all of it.
LEMMA ScheduleMade ==
  ASSUME NEW m, IsMachine(m), QueueOK(m.tasks), NEW stop_at
  PROVE  LET n == run_schedule(m, stop_at) IN
         /\ IsMachine(n) /\ QueueOK(n.tasks)
         /\ run_schedule(Clean(m), stop_at) = Clean(n)
         /\ m.output # NULL => n = m
<1> DEFINE N == Len(m.tasks)
           f == OverTasks(m, stop_at)
           g == OverTasks(Clean(m), stop_at)
<1>1. N \in 0..N /\ Clean(m).tasks = m.tasks
  <2>1. N \in Nat
    BY DEF QueueOK
  <2>2. N \in 0..N
    BY <2>1
  <2>3. Clean(m).tasks = m.tasks
    BY CleanMakes
  <2> QED
    BY <2>2, <2>3
<1>2. \A k \in 0..N : /\ IsMachine(f[k]) /\ QueueOK(f[k].tasks) /\ g[k] = Clean(f[k])
                      /\ m.output # NULL => f[k] = m
  BY TasksKept
<1>3. run_schedule(m, stop_at) = f[N] /\ run_schedule(Clean(m), stop_at) = g[N]
  BY <1>1 DEF run_schedule
<1> HIDE DEF N, f, g
<1> QED
  BY <1>1, <1>2, <1>3

\* A schedule that is run up to one time and then up to a later one does what it
\* does if it is run up to the later one at once.
LEMMA RunsAddUp ==
  ASSUME TimersForward, NEW m, IsMachine(m), QueueOK(m.tasks),
         NEW A \in Int, NEW S \in Int, A <= S
  PROVE  run_schedule(run_schedule(m, A), S) = run_schedule(m, S)
<1> DEFINE N == Len(m.tasks)
           f == OverTasks(m, A)
           g == OverTasks(m, S)
           Turn(r, t, stop_at) == IF r.output # NULL \/ ~InWindow(t, stop_at) THEN r
                                  ELSE FinishTask(run_task(r, t))
           In(k) == InWindow(m.tasks[k], A)
<1>1. N \in Nat /\ DOMAIN m.tasks = 1..N /\ \A k \in 1..N : m.tasks[k] \in Tasks
  BY DEF QueueOK
<1>2. f[0] = m /\ \A k \in 1..N : f[k] = Turn(f[k - 1], m.tasks[k], A)
  BY <1>1, OverTasksDef
<1>3. g[0] = m /\ \A k \in 1..N : g[k] = Turn(g[k - 1], m.tasks[k], S)
  BY <1>1, OverTasksDef
<1>4. \A i, j \in 1..N : i < j /\ In(j) => In(i)
  <2> SUFFICES ASSUME NEW i \in 1..N, NEW j \in 1..N, i < j, In(j) PROVE In(i)
    OBVIOUS
  <2>1. m.tasks[i].ts \in Int /\ m.tasks[j].ts \in Int /\ m.tasks[i].ts >= 0
    BY <1>1, ScheduleAssumption DEF TimersForward
  <2>2. m.tasks[i].ts <= m.tasks[j].ts
    BY <1>1 DEF QueueOK
  <2> QED
    BY <2>1, <2>2, TimeAssumption DEF InWindow
<1>5. \A i \in 1..N : In(i) => InWindow(m.tasks[i], S)
  BY <1>1, ScheduleAssumption, TimeAssumption DEF InWindow
<1>6. PICK K \in 0..N : (\A k \in 1..K : In(k)) /\ (\A k \in (K + 1)..N : ~In(k))
  <2> DEFINE Good == {k \in 0..N : (\A i \in 1..k : In(i)) \/
                        \E K \in 0..k : (\A i \in 1..K : In(i)) /\ (\A i \in (K + 1)..k : ~In(i))}
  <2> HIDE DEF In
  <2>1. 0 \in Good
    BY <1>1
  <2>2. ASSUME NEW k \in 1..N, k - 1 \in Good PROVE k \in Good
    <3>1. CASE In(k)
      <4>1. \A i \in 1..k : In(i)
        BY <1>1, <1>4, <3>1
      <4> QED
        BY <1>1, <4>1
    <3>2. CASE ~In(k)
      <4>1. PICK K \in 0..(k - 1) : (\A i \in 1..K : In(i)) /\ (\A i \in (K + 1)..(k - 1) : ~In(i))
        <5>1. CASE \A i \in 1..(k - 1) : In(i)
          <6>1. k - 1 \in 0..(k - 1) /\ \A i \in ((k - 1) + 1)..(k - 1) : ~In(i)
            BY <1>1
          <6> QED
            BY <5>1, <6>1
        <5> QED
          BY <2>2, <5>1
      <4>2. \A i \in (K + 1)..k : ~In(i)
        BY <1>1, <3>2, <4>1
      <4>3. K \in 0..k /\ k \in 0..N
        BY <1>1, <4>1
      <4> QED
        BY <4>1, <4>2, <4>3
    <3> QED
      BY <3>1, <3>2
  <2>3. N \in Good
    <3> HIDE DEF Good
    <3>1. 0..N \subseteq Good
      BY <1>1, <2>1, <2>2, Along
    <3> QED
      BY <1>1, <3>1
  <2>4. CASE \A i \in 1..N : In(i)
    <3>1. N \in 0..N /\ \A k \in (N + 1)..N : ~In(k)
      BY <1>1
    <3> QED
      BY <2>4, <3>1
  <2> QED
    BY <2>3, <2>4
<1>7. /\ \A k \in 0..N : IsMachine(f[k]) /\ QueueOK(f[k].tasks) /\ IsMachine(g[k])
      /\ \A i \in 0..N : \A j \in i..N : g[i].output # NULL => g[j] = g[i]
  BY TasksKept
<1> HIDE DEF f, g, N, Turn, In
<1>8. \A k \in 0..K : f[k] = g[k]
  <2> DEFINE Good == {k \in 0..K : f[k] = g[k]}
  <2>1. 0 \in Good
    BY <1>2, <1>3, <1>6
  <2>2. ASSUME NEW k \in 1..K, k - 1 \in Good PROVE k \in Good
    <3>1. k \in 1..N /\ InWindow(m.tasks[k], A) /\ InWindow(m.tasks[k], S)
      BY <1>1, <1>5, <1>6 DEF In
    <3>2. f[k - 1] = g[k - 1]
      BY <2>2
    <3> QED
      BY <1>2, <1>3, <3>1, <3>2 DEF Turn
  <2> HIDE DEF Good
  <2>3. K \in Nat
    BY <1>1, <1>6
  <2>4. 0..K \subseteq Good
    BY <2>1, <2>2, <2>3, Along
  <2> QED
    BY <2>4 DEF Good
<1>9. f[N] = f[K]
  <2>1. \A k \in (K + 1)..N : f[k] = f[k - 1]
    <3> SUFFICES ASSUME NEW k \in (K + 1)..N PROVE f[k] = f[k - 1]
      OBVIOUS
    <3>1. k \in 1..N /\ ~InWindow(m.tasks[k], A)
      BY <1>1, <1>6 DEF In
    <3> QED
      BY <1>2, <3>1 DEF Turn
  <2>2. K \in 0..N /\ N \in K..N
    BY <1>1, <1>6
  <2> QED
    BY <1>1, <2>1, <2>2, Idles
<1>10. run_schedule(m, A) = g[K] /\ run_schedule(m, S) = g[N]
  <2>1. K \in 0..K
    BY <1>1, <1>6
  <2> QED
    BY <1>8, <1>9, <2>1 DEF run_schedule, f, g, N
<1>11. K \in 0..N /\ N \in 0..N /\ K \in Nat /\ N \in K..N
  BY <1>1, <1>6
<1>12. QueueOK(g[K].tasks)
  BY <1>7, <1>8, <1>11
<1>13. CASE g[K].output # NULL
  <2>1. g[N] = g[K]
    BY <1>7, <1>11, <1>13
  <2>2. run_schedule(g[K], S) = g[K]
    BY <1>7, <1>11, <1>12, <1>13, ScheduleMade
  <2> QED
    BY <1>10, <2>1, <2>2
<1>14. CASE g[K].output = NULL
  <2>1. \A k \in 0..K : g[k].output = NULL
    <3> SUFFICES ASSUME NEW k \in 0..K PROVE g[k].output = NULL
      OBVIOUS
    <3>1. k \in 0..N /\ K \in k..N
      BY <1>11
    <3> QED
      BY <1>7, <1>14, <3>1
  <2>2. \A k \in 0..K : /\ Len(g[k].tasks) = N - k
                        /\ \A i \in 1..(N - k) : g[k].tasks[i] = m.tasks[k + i]
    <3> DEFINE Good == {k \in 0..K : /\ Len(g[k].tasks) = N - k
                                     /\ \A i \in 1..(N - k) : g[k].tasks[i] = m.tasks[k + i]}
    <3>1. 0 \in Good
      BY <1>1, <1>3, <1>11 DEF N
    <3>2. ASSUME NEW k \in 1..K, k - 1 \in Good PROVE k \in Good
      <4> DEFINE r == run_task(g[k - 1], m.tasks[k])
      <4>0. k \in 1..N /\ k - 1 \in 0..K /\ k - 1 \in 0..N /\ N - (k - 1) \in Nat \ {0}
        BY <1>11
      <4>1. /\ InWindow(m.tasks[k], S) /\ m.tasks[k] \in Tasks
            /\ g[k - 1].output = NULL
        BY <1>1, <1>5, <1>6, <2>1, <4>0 DEF In
      <4>2. g[k] = FinishTask(r)
        BY <1>3, <4>0, <4>1 DEF Turn
      <4>3. IsMachine(r) /\ r.tasks = g[k - 1].tasks /\ QueueOK(r.tasks)
        <5>1. IsMachine(g[k - 1]) /\ QueueOK(g[k - 1].tasks)
          BY <1>7, <1>8, <4>0
        <5> QED
          BY <4>1, <5>1, TaskMade DEF Made
      <4> HIDE DEF r
      <4>4. /\ Len(r.tasks) = N - (k - 1)
            /\ \A i \in 1..(N - (k - 1)) : r.tasks[i] = m.tasks[(k - 1) + i]
        BY <3>2, <4>3
      <4>5. r.tasks # <<>>
        BY <4>0, <4>4
      <4>6. /\ Len(g[k].tasks) = Len(r.tasks) - 1
            /\ \A i \in 1..(Len(r.tasks) - 1) : g[k].tasks[i] = r.tasks[i + 1]
        BY <4>2, <4>3, <4>5, QueueShifts
      <4>7. Len(g[k].tasks) = N - k
        BY <1>11, <4>4, <4>6
      <4>8. \A i \in 1..(N - k) : g[k].tasks[i] = m.tasks[k + i]
        <5> SUFFICES ASSUME NEW i \in 1..(N - k) PROVE g[k].tasks[i] = m.tasks[k + i]
          OBVIOUS
        <5>1. i \in 1..(Len(r.tasks) - 1) /\ i + 1 \in 1..(N - (k - 1)) /\ (k - 1) + (i + 1) = k + i
          BY <1>11, <4>4
        <5> QED
          BY <4>4, <4>6, <5>1
      <4> QED
        BY <1>11, <4>7, <4>8
    <3> HIDE DEF Good
    <3>3. 0..K \subseteq Good
      BY <1>11, <3>1, <3>2, Along
    <3> QED
      BY <3>3 DEF Good
  <2> DEFINE a == g[K]
             h == OverTasks(a, S)
             L == N - K
  <2>3. /\ L \in Nat /\ Len(a.tasks) = L
        /\ \A i \in 1..L : a.tasks[i] = m.tasks[K + i]
    <3>1. K \in 0..K
      BY <1>11
    <3> QED
      BY <1>11, <2>2, <3>1
  <2>4. h[0] = a /\ \A k \in 1..L : h[k] = Turn(h[k - 1], a.tasks[k], S)
    <3> HIDE DEF a
    <3> QED
      BY <2>3, OverTasksDef DEF Turn
  <2>5. \A j \in 0..L : h[j] = g[K + j]
    <3> DEFINE Good == {j \in 0..L : h[j] = g[K + j]}
    <3> HIDE DEF h
    <3>1. 0 \in Good
      BY <1>11, <2>3, <2>4
    <3>2. ASSUME NEW j \in 1..L, j - 1 \in Good PROVE j \in Good
      <4>1. K + j \in 1..N /\ (K + j) - 1 = K + (j - 1)
        BY <1>11, <2>3
      <4>2. h[j - 1] = g[(K + j) - 1]
        BY <3>2, <4>1
      <4>3. a.tasks[j] = m.tasks[K + j]
        BY <2>3
      <4> HIDE DEF a, L
      <4>4. h[j] = g[K + j]
        BY <1>3, <2>4, <4>1, <4>2, <4>3
      <4> QED
        BY <2>3, <4>4
    <3> HIDE DEF Good
    <3>3. 0..L \subseteq Good
      BY <2>3, <3>1, <3>2, Along
    <3> QED
      BY <3>3 DEF Good
  <2>6. h[L] = g[N]
    BY <1>11, <2>3, <2>5
  <2>7. run_schedule(a, S) = h[L]
    <3> HIDE DEF a, L
    <3> QED
      BY <2>3 DEF run_schedule
  <2> QED
    BY <1>10, <2>6, <2>7
<1> QED
  BY <1>13, <1>14

-----------------------------------------------------------------------------
(* There is one way to sort.                                                *)

\* A list that is sorted strictly has one order.
LEMMA OneOrder ==
  ASSUME NEW n \in Nat, NEW Before,
         \A i, j \in 1..n : <<i, j>> \in Before => <<j, i>> \notin Before,
         NEW q \in [1..n -> 1..n], NEW r \in [1..n -> 1..n],
         \A i, j \in 1..n : i < j => <<q[i], q[j]>> \in Before /\ <<r[i], r[j]>> \in Before
  PROVE  q = r
<1>1. ASSUME NEW f \in [1..n -> 1..n], \A i, j \in 1..n : i < j => <<f[i], f[j]>> \in Before
      PROVE  /\ \A i, j \in 1..n : f[i] = f[j] => i = j
             /\ \A k \in 1..n : \E i \in 1..n : f[i] = k
  <2>1. ASSUME NEW i \in 1..n, NEW j \in 1..n, f[i] = f[j], i < j PROVE FALSE
    BY <1>1, <2>1
  <2>2. \A i, j \in 1..n : f[i] = f[j] => i = j
    BY <2>1
  <2>3. f \in Injection(1..n, 1..n)
    BY <1>1, <2>2 DEF Injection, IsInjective
  <2>4. f \in Surjection(1..n, 1..n)
    <3> DEFINE S == 1..n
    <3>1. IsFiniteSet(S)
      BY FS_Interval
    <3> HIDE DEF S
    <3>2. f \in Injection(S, S) => f \in Surjection(S, S)
      BY <3>1, FS_Injection
    <3> QED
      BY <2>3, <3>2 DEF S
  <2> QED
    BY <2>2, <2>4 DEF Surjection
<1>2. /\ \A i, j \in 1..n : q[i] = q[j] => i = j
      /\ \A k \in 1..n : \E i \in 1..n : q[i] = k
      /\ \A i, j \in 1..n : r[i] = r[j] => i = j
      /\ \A k \in 1..n : \E i \in 1..n : r[i] = k
  BY <1>1
<1> DEFINE Good == {k \in 0..n : \A i \in 1..k : q[i] = r[i]}
<1>3. 0 \in Good
  OBVIOUS
<1>4. ASSUME NEW k \in 1..n, k - 1 \in Good PROVE k \in Good
  <2>1. \A i \in 1..(k - 1) : q[i] = r[i]
    BY <1>4
  <2>2. PICK j \in 1..n : r[j] = q[k]
    BY <1>2
  <2>3. PICK l \in 1..n : q[l] = r[k]
    BY <1>2
  <2>4. ASSUME q[k] # r[k] PROVE FALSE
    <3>1. j > k
      <4>1. j # k
        BY <2>2, <2>4
      <4>2. ASSUME j < k PROVE FALSE
        <5>1. q[j] = q[k]
          BY <2>1, <2>2, <4>2
        <5> QED
          BY <1>2, <4>2, <5>1
      <4> QED
        BY <4>1, <4>2
    <3>2. l > k
      <4>1. l # k
        BY <2>3, <2>4
      <4>2. ASSUME l < k PROVE FALSE
        <5>1. r[l] = r[k]
          BY <2>1, <2>3, <4>2
        <5> QED
          BY <1>2, <4>2, <5>1
      <4> QED
        BY <4>1, <4>2
    <3>3. <<q[k], r[k]>> \in Before /\ <<r[k], q[k]>> \in Before
      BY <2>2, <2>3, <3>1, <3>2
    <3> QED
      BY <3>3
  <2>5. q[k] = r[k]
    BY <2>4
  <2>6. \A i \in 1..k : i = k \/ i \in 1..(k - 1)
    OBVIOUS
  <2>7. \A i \in 1..k : q[i] = r[i]
    BY <2>1, <2>5, <2>6
  <2> QED
    BY <2>7
<1>5. n \in Good
  <2> HIDE DEF Good
  <2>1. 0..n \subseteq Good
    BY <1>3, <1>4, Along
  <2>2. n \in 0..n
    OBVIOUS
  <2> QED
    BY <2>1, <2>2
<1> QED
  BY <1>5

\* The queue of a new machine (util/vm.ts:19-25).
LEMMA NewQueue ==
  ASSUME NEW tasks \in init_tasks
  PROVE  QueueOK(tasks)
<1>1. PICK q \in [DOMAIN Schedule -> DOMAIN Schedule] :
        SortedBy(q) /\ tasks = [k \in DOMAIN Schedule |-> Schedule[q[k]]]
  BY DEF init_tasks
<1>2. DOMAIN Schedule = 1..Len(Schedule) /\ Len(Schedule) \in Nat
  BY ScheduleAssumption
<1>3. tasks \in [1..Len(Schedule) -> Tasks]
  BY <1>1, <1>2 DEF Tasks
<1>4. tasks \in Seq(Tasks) /\ DOMAIN tasks = DOMAIN Schedule
  BY <1>2, <1>3
<1>5. ASSUME NEW i \in DOMAIN tasks, NEW j \in DOMAIN tasks, i < j
      PROVE  tasks[i].ts <= tasks[j].ts
  <2>1. \/ Schedule[q[i]].ts < Schedule[q[j]].ts
        \/ Schedule[q[i]].ts = Schedule[q[j]].ts
    BY <1>1, <1>4, <1>5 DEF SortedBy
  <2>2. tasks[i] = Schedule[q[i]] /\ tasks[j] = Schedule[q[j]]
    BY <1>1, <1>4
  <2>3. tasks[i].ts \in Int /\ tasks[j].ts \in Int
    BY <1>3, <1>4, <1>2, ScheduleAssumption
  <2> QED
    BY <2>1, <2>2, <2>3
<1> QED
  BY <1>4, <1>5 DEF QueueOK

\* Whoever makes the machine makes the same (vm.ts:16-43).
LEMMA OneQueue ==
  ASSUME NEW tasks \in init_tasks
  PROVE  init_vm(tasks) = engine_init
<1>1. ASSUME NEW other \in init_tasks PROVE other = tasks
  <2> DEFINE n == Len(Schedule)
             Before == {p \in (1..n) \X (1..n) :
                          \/ Schedule[p[1]].ts < Schedule[p[2]].ts
                          \/ Schedule[p[1]].ts = Schedule[p[2]].ts /\ p[1] < p[2]}
  <2>1. n \in Nat /\ DOMAIN Schedule = 1..n /\ \A i \in 1..n : Schedule[i].ts \in Int
    BY ScheduleAssumption DEF Tasks
  <2>2. PICK q \in [1..n -> 1..n] :
          SortedBy(q) /\ tasks = [k \in 1..n |-> Schedule[q[k]]]
    BY <2>1 DEF init_tasks
  <2>3. PICK r \in [1..n -> 1..n] :
          SortedBy(r) /\ other = [k \in 1..n |-> Schedule[r[k]]]
    BY <2>1, ZenonT(40) DEF init_tasks
  <2>4. \A i, j \in 1..n : <<i, j>> \in Before => <<j, i>> \notin Before
    BY <2>1
  <2>5. \A i, j \in 1..n : i < j => <<q[i], q[j]>> \in Before
    BY <2>2 DEF SortedBy
  <2>6. \A i, j \in 1..n : i < j => <<r[i], r[j]>> \in Before
    BY <2>3 DEF SortedBy
  <2>7. \A i, j \in 1..n : i < j => <<q[i], q[j]>> \in Before /\ <<r[i], r[j]>> \in Before
    BY <2>5, <2>6
  <2>8. n \in Nat
    BY <2>1
  <2>9. q \in [1..n -> 1..n] /\ r \in [1..n -> 1..n]
    BY <2>2, <2>3
  <2> HIDE DEF n, Before
  <2>10. q = r
    BY <2>4, <2>7, <2>8, <2>9, OneOrder, ZenonT(60)
  <2> QED
    BY <2>2, <2>3, <2>10
<1>2. (CHOOSE other \in init_tasks : TRUE) \in init_tasks
  OBVIOUS
<1> QED
  BY <1>1, <1>2 DEF engine_init

\* A new machine is machine data, with its queue in order.
LEMMA NewMachine ==
  ASSUME NEW tasks \in init_tasks
  PROVE  /\ init_vm(tasks) = engine_init /\ IsMachine(engine_init)
         /\ QueueOK(engine_init.tasks)
<1>1. IsMachine(init_vm(tasks)) /\ init_vm(tasks).tasks = tasks
  BY DEF init_vm, IsMachine, MachineFields
<1> QED
  BY <1>1, OneQueue, NewQueue

-----------------------------------------------------------------------------
(* One call for each statement.                                             *)

\* One statement is sorted.
LEMMA OneStatement ==
  ASSUME NEW w
  PROVE  get_statements(<<w>>) = <<w>>
<1> DEFINE ws == <<w>>
           order == CHOOSE q \in [DOMAIN ws -> DOMAIN ws] :
                      \A i, j \in DOMAIN ws : i < j => Earlier(ws, q[i], q[j])
<1>1. DOMAIN ws = {1} /\ ws[1] = w
  OBVIOUS
<1>2. [i \in {1} |-> 1] \in [{1} -> {1}]
  OBVIOUS
<1>3. order \in [{1} -> {1}]
  <2>1. \E q \in [DOMAIN ws -> DOMAIN ws] :
           \A i, j \in DOMAIN ws : i < j => Earlier(ws, q[i], q[j])
    <3>1. \A i, j \in {1} : ~(i < j)
      OBVIOUS
    <3> HIDE DEF ws
    <3> QED
      BY <1>1, <1>2, <3>1
  <2>2. order \in [DOMAIN ws -> DOMAIN ws]
    <3> HIDE DEF ws
    <3> QED
      BY <2>1
  <2> QED
    BY <1>1, <2>2
<1> HIDE DEF order
<1>4. get_statements(ws) = [k \in DOMAIN ws |-> ws[order[k]]]
  BY DEF get_statements, order
<1>5. [k \in DOMAIN ws |-> ws[order[k]]] = [k \in 1..1 |-> w]
  <2>1. order[1] = 1 /\ 1..1 = {1}
    BY <1>3
  <2> HIDE DEF ws
  <2> QED
    BY <1>1, <2>1
<1>6. [k \in 1..1 |-> w] = <<w>>
  OBVIOUS
<1> QED
  BY <1>4, <1>5, <1>6

\* A call with one statement evaluates it on the machine without its error.
LEMMA OneCall ==
  ASSUME NEW m, NEW w, m.output = NULL
  PROVE  engine_eval(m, <<w>>) = eval_statement(Clean(m), w)
<1>1. Len(<<w>>) = 1 /\ <<w>>[1] = w
  OBVIOUS
<1> DEFINE ws == <<w>>
<1> HIDE DEF ws
<1>2. Len(ws) = 1 /\ ws[1] = w
  BY <1>1 DEF ws
<1> DEFINE after == OverStack(m, ws)
<1>3. /\ after[0] = [m |-> Clean(m), end |-> FALSE, threw |-> FALSE]
      /\ after[1] = IF after[0].end THEN after[0] ELSE eval_statement(after[0].m, ws[1])
  <2>1. Len(ws) \in Nat /\ 1 \in 1..Len(ws)
    BY <1>2
  <2>2. /\ after[0] = [m |-> Clean(m), end |-> FALSE, threw |-> FALSE]
        /\ \A k \in 1..Len(ws) : after[k] =
             IF after[k - 1].end THEN after[k - 1] ELSE eval_statement(after[k - 1].m, ws[k])
    BY <2>1, OverStackDef DEF Clean
  <2> HIDE DEF after
  <2>3. after[1] = IF after[1 - 1].end THEN after[1 - 1] ELSE eval_statement(after[1 - 1].m, ws[1])
    BY <2>1, <2>2
  <2> QED
    BY <2>2, <2>3
<1>4. after[1] = eval_statement(Clean(m), w)
  BY <1>2, <1>3
<1> HIDE DEF after
<1>5. engine_eval(m, ws) = after[1]
  BY <1>2, OneStatement DEF engine_eval, after, ws
<1> QED
  BY <1>4, <1>5 DEF ws

\* What comes later does not matter to the calls before.
LEMMA CallsOfPrefix ==
  ASSUME NEW ws, NEW vs, Len(ws) \in Nat, Len(vs) \in Nat, Len(vs) <= Len(ws),
         \A i \in 1..Len(vs) : vs[i] = ws[i]
  PROVE  EvalEach(vs) = OverCalls(ws)[Len(vs)]
<1> DEFINE f == OverCalls(ws)
           g == OverCalls(vs)
           N == Len(vs)
           Turn(r, w) == IF r.threw THEN r ELSE engine_eval(r.m, <<w>>)
<1>1. f[0] = Went(engine_init) /\ \A k \in 1..Len(ws) : f[k] = Turn(f[k - 1], ws[k])
  BY OverCallsDef
<1>2. g[0] = Went(engine_init) /\ \A k \in 1..N : g[k] = Turn(g[k - 1], vs[k])
  BY OverCallsDef
<1> HIDE DEF f, g, Turn
<1> DEFINE Good == {k \in 0..N : g[k] = f[k]}
<1>3. 0 \in Good
  BY <1>1, <1>2
<1>4. ASSUME NEW k \in 1..N, k - 1 \in Good PROVE k \in Good
  <2>1. g[k - 1] = f[k - 1] /\ k \in 1..Len(ws) /\ vs[k] = ws[k]
    BY <1>4
  <2> QED
    BY <1>1, <1>2, <2>1
<1>5. N \in Good
  <2> HIDE DEF Good
  <2>1. 0..N \subseteq Good
    BY <1>3, <1>4, Along
  <2> QED
    BY <2>1
<1> QED
  BY <1>5 DEF EvalEach, f, g

\* No statement leaves the machine as it was made.
LEMMA NoCall == EvalEach(<<>>) = Went(engine_init)
<1>1. Len(<<>>) = 0
  OBVIOUS
<1> DEFINE ws == <<>>
<1> HIDE DEF ws
<1>2. Len(ws) = 0
  BY <1>1 DEF ws
<1>3. OverCalls(ws)[0] = Went(engine_init)
  BY <1>2, OverCallsDef
<1> QED
  BY <1>2, <1>3 DEF EvalEach, ws

\* One more statement is one more call, unless an error was thrown.
LEMMA OneMoreCall ==
  ASSUME NEW S, NEW ws \in Seq(S), NEW w \in S
  PROVE  EvalEach(Append(ws, w)) =
           IF EvalEach(ws).threw THEN EvalEach(ws) ELSE engine_eval(EvalEach(ws).m, <<w>>)
<1> DEFINE vs == Append(ws, w)
<1>1. /\ Len(ws) \in Nat /\ Len(vs) = Len(ws) + 1
      /\ vs[Len(ws) + 1] = w /\ \A i \in 1..Len(ws) : vs[i] = ws[i]
  OBVIOUS
<1> HIDE DEF vs
<1>2. EvalEach(ws) = OverCalls(vs)[Len(ws)]
  BY <1>1, CallsOfPrefix
<1>3. Len(vs) \in Nat /\ Len(vs) \in 1..Len(vs) /\ Len(vs) - 1 = Len(ws)
  BY <1>1
<1> DEFINE after == OverCalls(vs)
<1>4. \A k \in 1..Len(vs) : after[k] =
        IF after[k - 1].threw THEN after[k - 1] ELSE engine_eval(after[k - 1].m, <<vs[k]>>)
  BY <1>3, OverCallsDef
<1> HIDE DEF after
<1>5. after[Len(vs)] = IF after[Len(ws)].threw THEN after[Len(ws)]
                       ELSE engine_eval(after[Len(ws)].m, <<w>>)
  BY <1>1, <1>3, <1>4
<1> QED
  BY <1>2, <1>5 DEF EvalEach, after, vs

-----------------------------------------------------------------------------
(* The steps of a run of the schedule, and the run as a function.           *)

\* The tasks that are still due after the first k of the queue at the start.
DueIs(q, start, stop_at, k) ==
  /\ DOMAIN q = {i \in (k + 1)..Len(start.tasks) : InWindow(start.tasks[i], stop_at)}
  /\ \A i \in DOMAIN q : q[i] = start.tasks[i]

\* Between two tasks the machine is what the first of them have made of it.
InSchedule(m, start, stop_at, q) ==
  \E k \in 0..Len(start.tasks) :
    /\ m = OverTasks(start, stop_at)[k]
    /\ IF m.output = NULL THEN DueIs(q, start, stop_at, k) ELSE DOMAIN q = {}

\* In a task, at position ps of its actions and paths, it is what those before
\* have made of n.
AtPlace(m, n, t, ps) ==
  /\ ps = [a |-> ps.a, p |-> ps.p] /\ ps.a \in 1..(Len(ActionsOf(t)) + 1)
  /\ IF ps.a <= Len(ActionsOf(t)) /\ ActionsOf(t)[ps.a] \in PATH_ACTIONS
     THEN /\ ps.p \in 1..(Len(PathsOf(t)) + 1)
          /\ m = OverPaths(OverActions(n, t)[ps.a - 1], t, ActionsOf(t)[ps.a])[ps.p - 1]
     ELSE m = OverActions(n, t)[ps.a - 1]

InTask(m, start, stop_at, q, t, ps) ==
  \E k \in 1..Len(start.tasks) :
    LET n == OverTasks(start, stop_at)[k - 1] IN
    /\ n.output = NULL /\ t = start.tasks[k] /\ InWindow(t, stop_at)
    /\ DueIs(q, start, stop_at, k) /\ AtPlace(m, n, t, ps)

\* The machine a run starts from.
Fit(start) == IsMachine(start) /\ QueueOK(start.tasks)

\* The queue of such a machine is a list of tasks (vm.ts:19-25).
LEMMA FitTasks ==
  ASSUME NEW start, Fit(start)
  PROVE  /\ Len(start.tasks) \in Nat /\ DOMAIN start.tasks = 1..Len(start.tasks)
         /\ \A k \in 1..Len(start.tasks) : start.tasks[k] \in Tasks
BY DEF Fit, QueueOK

\* A run starts with the tasks that are due (schedule.ts:15-22).
LEMMA RunStarts ==
  ASSUME NEW m, Fit(m), m.output = NULL, NEW stop_at, NEW q,
         q = get_tasks(m, stop_at)
  PROVE  InSchedule(m, m, stop_at, q)
<1>1. Len(m.tasks) \in Nat /\ DOMAIN m.tasks = 1..Len(m.tasks)
  BY FitTasks
<1>2. m = OverTasks(m, stop_at)[0]
  BY <1>1, OverTasksDef
<1>3. DOMAIN q = {i \in (0 + 1)..Len(m.tasks) : InWindow(m.tasks[i], stop_at)}
  BY <1>1 DEF get_tasks
<1>4. \A i \in DOMAIN q : q[i] = m.tasks[i]
  BY DEF get_tasks
<1>5. DueIs(q, m, stop_at, 0)
  BY <1>3, <1>4 DEF DueIs
<1>6. 0 \in 0..Len(m.tasks)
  BY <1>1
<1> HIDE DEF DueIs
<1> QED
  BY <1>2, <1>5, <1>6 DEF InSchedule

\* The next of them is taken (schedule.ts:24-26).
LEMMA RunTakes ==
  ASSUME NEW m, NEW start, Fit(start), NEW stop_at, NEW q,
         InSchedule(m, start, stop_at, q), NEW i \in DOMAIN q, IsLeast(i, DOMAIN q)
  PROVE  InTask(m, start, stop_at, Drop(q, i), q[i], [a |-> 1, p |-> 1])
<1> DEFINE after == OverTasks(start, stop_at)
           N == Len(start.tasks)
           t == q[i]
<1>1. PICK k \in 0..N : m = after[k] /\ m.output = NULL /\ DueIs(q, start, stop_at, k)
  BY DEF InSchedule
<1>2. N \in Nat /\ \A j \in 1..N : start.tasks[j] \in Tasks
  BY FitTasks
<1>3. i \in (k + 1)..N /\ InWindow(start.tasks[i], stop_at) /\ t = start.tasks[i]
  BY <1>1 DEF DueIs
<1>4. \A j \in (k + 1)..(i - 1) : ~InWindow(start.tasks[j], stop_at)
  <2> SUFFICES ASSUME NEW j \in (k + 1)..(i - 1), InWindow(start.tasks[j], stop_at) PROVE FALSE
    OBVIOUS
  <2>1. j \in DOMAIN q
    BY <1>1, <1>2, <1>3 DEF DueIs
  <2> QED
    BY <1>1, <1>2, <1>3, <2>1 DEF IsLeast
<1>5. after[i - 1] = m
  <2>1. \A j \in 1..N : after[j] =
          IF after[j - 1].output # NULL \/ ~InWindow(start.tasks[j], stop_at) THEN after[j - 1]
          ELSE FinishTask(run_task(after[j - 1], start.tasks[j]))
    BY <1>2, OverTasksDef
  <2>2. \A j \in (k + 1)..(i - 1) : after[j] = after[j - 1]
    <3> HIDE DEF after
    <3> SUFFICES ASSUME NEW j \in (k + 1)..(i - 1) PROVE after[j] = after[j - 1]
      OBVIOUS
    <3>1. j \in 1..N
      BY <1>1, <1>2, <1>3
    <3> QED
      BY <1>4, <2>1, <3>1
  <2>3. k \in 0..N /\ i - 1 \in k..N
    BY <1>1, <1>2, <1>3
  <2> HIDE DEF after, N
  <2> QED
    BY <1>1, <1>2, <2>2, <2>3, Idles
<1>6. DueIs(Drop(q, i), start, stop_at, i)
  <2> DEFINE r == Drop(q, i)
  <2>1. DOMAIN r = DOMAIN q \ {i} /\ \A j \in DOMAIN r : r[j] = q[j]
    BY DEF Drop
  <2>2. \A j \in DOMAIN q \ {i} : j > i
    BY <1>1, <1>2, <1>3 DEF DueIs, IsLeast
  <2>3. DOMAIN q \ {i} = {j \in (i + 1)..N : InWindow(start.tasks[j], stop_at)}
    BY <1>1, <1>2, <1>3, <2>2 DEF DueIs
  <2> HIDE DEF r
  <2> QED
    BY <1>1, <2>1, <2>3 DEF DueIs, r
<1>7. AtPlace(m, m, t, [a |-> 1, p |-> 1])
  <2>1. t \in Tasks
    BY <1>1, <1>2, <1>3
  <2>2. Len(PathsOf(t)) \in Nat /\ Len(ActionsOf(t)) \in Nat
    BY <2>1, TaskLists
  <2>3. OverActions(m, t)[0] = m
    BY <2>2, OverActionsDef DEF ActionsOf
  <2>4. OverPaths(m, t, ActionsOf(t)[1])[0] = m
    BY <2>2, OverPathsDef DEF PathsOf
  <2> HIDE DEF t
  <2> QED
    BY <2>2, <2>3, <2>4 DEF AtPlace
<1>8. i \in 1..N
  BY <1>1, <1>2, <1>3
<1> HIDE DEF after, N, t
<1> QED
  BY <1>1, <1>3, <1>5, <1>6, <1>7, <1>8 DEF InTask, after, N, t

\* Where a task is, and what that says of its actions.
LEMMA TaskPlace ==
  ASSUME NEW m, NEW start, Fit(start), NEW stop_at, NEW q, NEW t, NEW ps,
         InTask(m, start, stop_at, q, t, ps)
  PROVE  /\ t \in Tasks /\ Len(PathsOf(t)) \in Nat /\ Len(ActionsOf(t)) \in Nat
         /\ ps.a \in Nat
<1>1. t \in Tasks
  BY FitTasks DEF InTask
<1>2. Len(ActionsOf(t)) \in Nat
  BY <1>1, TaskLists
<1> QED
  BY <1>1, <1>2, TaskLists DEF InTask, AtPlace

\* The next action of a task.
LEMMA ActionStarts ==
  ASSUME NEW m, NEW n, NEW t \in Tasks, NEW a \in 1..(Len(ActionsOf(t)) + 1),
         m = OverActions(n, t)[a - 1]
  PROVE  AtPlace(m, n, t, [a |-> a, p |-> 1])
<1>1. Len(PathsOf(t)) \in Nat /\ Len(ActionsOf(t)) \in Nat
  BY TaskLists
<1>2. OverPaths(m, t, ActionsOf(t)[a])[0] = m
  BY <1>1, OverPathsDef DEF PathsOf
<1> QED
  BY <1>1, <1>2 DEF AtPlace

\* One path of an action (schedule.ts:43-55).
LEMMA RunPath ==
  ASSUME NEW m, NEW start, Fit(start), NEW stop_at, NEW q, NEW t, NEW ps,
         InTask(m, start, stop_at, q, t, ps), m.output = NULL,
         ps.a <= Len(ActionsOf(t)), ActionsOf(t)[ps.a] \in PATH_ACTIONS,
         ps.p <= Len(PathsOf(t))
  PROVE  InTask(Try(m, TaskInput(t, ActionsOf(t)[ps.a], PathsOf(t)[ps.p])),
                start, stop_at, q, t, [ps EXCEPT !.p = @ + 1])
<1> DEFINE n(k) == OverTasks(start, stop_at)[k - 1]
           next == [ps EXCEPT !.p = @ + 1]
           u    == Try(m, TaskInput(t, ActionsOf(t)[ps.a], PathsOf(t)[ps.p]))
<1>1. t \in Tasks /\ Len(PathsOf(t)) \in Nat /\ Len(ActionsOf(t)) \in Nat
  BY TaskPlace
<1>2. ASSUME NEW k, AtPlace(m, n(k), t, ps) PROVE AtPlace(u, n(k), t, next)
  <2> DEFINE base  == OverActions(n(k), t)[ps.a - 1]
             after == OverPaths(base, t, ActionsOf(t)[ps.a])
  <2>1. /\ ps = [a |-> ps.a, p |-> ps.p] /\ ps.a \in 1..(Len(ActionsOf(t)) + 1)
        /\ ps.p \in 1..Len(PathsOf(t)) /\ m = after[ps.p - 1]
    BY <1>1, <1>2 DEF AtPlace
  <2>2. next.a = ps.a /\ next.p = ps.p + 1 /\ next = [a |-> next.a, p |-> next.p]
    BY <2>1
  <2>3. after[ps.p] = u
    <3>1. \A j \in 1..Len(PathsOf(t)) :
            after[j] = Try(after[j - 1], TaskInput(t, ActionsOf(t)[ps.a], PathsOf(t)[j]))
      BY <1>1, OverPathsDef DEF PathsOf
    <3> HIDE DEF after
    <3> QED
      BY <2>1, <3>1
  <2>4. next.p \in 1..(Len(PathsOf(t)) + 1) /\ next.p - 1 = ps.p
    BY <1>1, <2>1, <2>2
  <2> HIDE DEF next, u
  <2> QED
    BY <2>1, <2>2, <2>3, <2>4 DEF AtPlace
<1> HIDE DEF next, u
<1> QED
  BY <1>2 DEF InTask, next, u

\* The paths of an action are over.
LEMMA PathsEnd ==
  ASSUME NEW m, NEW start, Fit(start), NEW stop_at, NEW q, NEW t, NEW ps,
         InTask(m, start, stop_at, q, t, ps),
         ps.a <= Len(ActionsOf(t)), ActionsOf(t)[ps.a] \in PATH_ACTIONS,
         ps.p > Len(PathsOf(t))
  PROVE  InTask(m, start, stop_at, q, t, [a |-> ps.a + 1, p |-> 1])
<1> DEFINE n(k) == OverTasks(start, stop_at)[k - 1]
<1>1. t \in Tasks /\ Len(PathsOf(t)) \in Nat /\ Len(ActionsOf(t)) \in Nat
  BY TaskPlace
<1>2. ASSUME NEW k, AtPlace(m, n(k), t, ps) PROVE AtPlace(m, n(k), t, [a |-> ps.a + 1, p |-> 1])
  <2> DEFINE after == OverActions(n(k), t)
  <2>1. /\ ps.a \in 1..Len(ActionsOf(t)) /\ ps.p = Len(PathsOf(t)) + 1
        /\ m = OverPaths(after[ps.a - 1], t, ActionsOf(t)[ps.a])[Len(PathsOf(t))]
    BY <1>1, <1>2 DEF AtPlace
  <2>2. m = run_paths(after[ps.a - 1], t, ActionsOf(t)[ps.a])
    BY <2>1 DEF run_paths, PathsOf
  <2>3. \A j \in 1..Len(ActionsOf(t)) : after[j] =
          IF ActionsOf(t)[j] \in PATH_ACTIONS THEN run_paths(after[j - 1], t, ActionsOf(t)[j])
          ELSE Try(after[j - 1], TaskInput(t, ActionsOf(t)[j], NULL))
    BY <1>1, OverActionsDef DEF ActionsOf
  <2> HIDE DEF after
  <2>4. m = after[ps.a]
    BY <2>1, <2>2, <2>3
  <2>5. ps.a + 1 \in 1..(Len(ActionsOf(t)) + 1) /\ (ps.a + 1) - 1 = ps.a
    BY <1>1, <2>1
  <2> QED
    BY <1>1, <2>4, <2>5, ActionStarts DEF after
<1> QED
  BY <1>2 DEF InTask

\* An action without a path (schedule.ts:57-66).
LEMMA RunAction ==
  ASSUME NEW m, NEW start, Fit(start), NEW stop_at, NEW q, NEW t, NEW ps,
         InTask(m, start, stop_at, q, t, ps),
         ps.a <= Len(ActionsOf(t)), ActionsOf(t)[ps.a] \notin PATH_ACTIONS
  PROVE  InTask(Try(m, TaskInput(t, ActionsOf(t)[ps.a], NULL)),
                start, stop_at, q, t, [a |-> ps.a + 1, p |-> 1])
<1> DEFINE n(k) == OverTasks(start, stop_at)[k - 1]
           u    == Try(m, TaskInput(t, ActionsOf(t)[ps.a], NULL))
<1>1. t \in Tasks /\ Len(PathsOf(t)) \in Nat /\ Len(ActionsOf(t)) \in Nat
  BY TaskPlace
<1>2. ASSUME NEW k, AtPlace(m, n(k), t, ps) PROVE AtPlace(u, n(k), t, [a |-> ps.a + 1, p |-> 1])
  <2> DEFINE after == OverActions(n(k), t)
  <2>1. ps.a \in 1..Len(ActionsOf(t)) /\ m = after[ps.a - 1]
    BY <1>1, <1>2 DEF AtPlace
  <2>3. \A j \in 1..Len(ActionsOf(t)) : after[j] =
          IF ActionsOf(t)[j] \in PATH_ACTIONS THEN run_paths(after[j - 1], t, ActionsOf(t)[j])
          ELSE Try(after[j - 1], TaskInput(t, ActionsOf(t)[j], NULL))
    BY <1>1, OverActionsDef DEF ActionsOf
  <2> HIDE DEF after
  <2>4. u = after[ps.a]
    BY <2>1, <2>3
  <2>5. ps.a + 1 \in 1..(Len(ActionsOf(t)) + 1) /\ (ps.a + 1) - 1 = ps.a
    BY <1>1, <2>1
  <2> HIDE DEF u
  <2> QED
    BY <1>1, <2>4, <2>5, ActionStarts DEF after
<1> HIDE DEF u
<1> QED
  BY <1>2 DEF InTask, u

\* A task that is over has done all it does (schedule.ts:27-28).
LEMMA TaskEnds ==
  ASSUME NEW m, NEW start, Fit(start), NEW stop_at, NEW q, NEW t, NEW ps,
         InTask(m, start, stop_at, q, t, ps),
         m.output # NULL \/ ps.a > Len(ActionsOf(t)), NEW r,
         r = IF m.output # NULL THEN <<>> ELSE q
  PROVE  InSchedule(FinishTask(m), start, stop_at, r)
<1> DEFINE after == OverTasks(start, stop_at)
           N == Len(start.tasks)
<1>0. t \in Tasks /\ Len(PathsOf(t)) \in Nat /\ Len(ActionsOf(t)) \in Nat
  BY TaskPlace
<1>1. PICK k \in 1..N :
        /\ after[k - 1].output = NULL /\ t = start.tasks[k] /\ InWindow(t, stop_at)
        /\ DueIs(q, start, stop_at, k) /\ AtPlace(m, after[k - 1], t, ps)
  BY DEF InTask
<1>2. N \in Nat
  BY FitTasks
<1>3. after[k] = FinishTask(run_task(after[k - 1], t))
  <2>1. \A j \in 1..N : after[j] =
          IF after[j - 1].output # NULL \/ ~InWindow(start.tasks[j], stop_at) THEN after[j - 1]
          ELSE FinishTask(run_task(after[j - 1], start.tasks[j]))
    BY <1>2, OverTasksDef
  <2> HIDE DEF after
  <2> QED
    BY <1>1, <2>1
<1>4. IsMachine(after[k - 1])
  <2>1. k - 1 \in 0..N
    BY <1>2
  <2>2. \A j \in 0..N : IsMachine(after[j])
    BY TasksKept DEF Fit
  <2> QED
    BY <2>1, <2>2
<1> HIDE DEF after, N
<1>5. m = run_task(after[k - 1], t) /\ IsMachine(m)
  <2> DEFINE acts == OverActions(after[k - 1], t)
             A    == Len(ActionsOf(t))
  <2>0. ps.a \in 1..(A + 1) /\ ps.a \in Nat /\ ps.a - 1 \in 0..A
    BY <1>0, <1>1 DEF AtPlace
  <2>1. /\ \A j \in 0..A : Made(acts[j], after[k - 1])
        /\ \A i \in 0..A : \A j \in i..A : acts[i].output # NULL => acts[j] = acts[i]
    BY <1>0, <1>4, ActionsKept
  <2>2. run_task(after[k - 1], t) = acts[A]
    BY DEF run_task, ActionsOf
  <2>3. IsMachine(acts[A])
    BY <1>0, <2>1 DEF Made
  <2>4. CASE ps.a > A
    <3>1. ps.a - 1 = A /\ m = acts[ps.a - 1]
      BY <1>0, <1>1, <2>0, <2>4 DEF AtPlace
    <3> QED
      BY <2>2, <2>3, <3>1
  <2>5. CASE ps.a <= A /\ m.output # NULL /\ ActionsOf(t)[ps.a] \notin PATH_ACTIONS
    <3>1. m = acts[ps.a - 1]
      BY <1>0, <1>1, <2>0, <2>5 DEF AtPlace
    <3>2. A \in (ps.a - 1)..A
      BY <1>0, <2>0
    <3>3. acts[A] = m
      BY <2>0, <2>1, <2>5, <3>1, <3>2
    <3> QED
      BY <2>2, <2>3, <3>3
  <2>6. CASE ps.a <= A /\ m.output # NULL /\ ActionsOf(t)[ps.a] \in PATH_ACTIONS
    <3> DEFINE base  == acts[ps.a - 1]
               paths == OverPaths(base, t, ActionsOf(t)[ps.a])
               P     == Len(PathsOf(t))
    <3>1. ps.p \in 1..(P + 1) /\ m = paths[ps.p - 1]
      BY <1>0, <1>1, <2>0, <2>6 DEF AtPlace
    <3>2. IsMachine(base)
      BY <2>0, <2>1 DEF Made
    <3>3. \A i \in 0..P : \A j \in i..P : paths[i].output # NULL => paths[j] = paths[i]
      BY <1>0, <3>2, PathsKept
    <3>4. ps.p - 1 \in 0..P /\ P \in (ps.p - 1)..P
      BY <1>0, <3>1
    <3>5. run_paths(base, t, ActionsOf(t)[ps.a]) = paths[P]
      BY DEF run_paths, PathsOf
    <3>6. acts[ps.a] = run_paths(base, t, ActionsOf(t)[ps.a])
      <4>1. \A j \in 1..A : acts[j] =
              IF ActionsOf(t)[j] \in PATH_ACTIONS THEN run_paths(acts[j - 1], t, ActionsOf(t)[j])
              ELSE Try(acts[j - 1], TaskInput(t, ActionsOf(t)[j], NULL))
        <5> HIDE DEF paths, base, P
        <5>1. Len(wlist(t.actions, VALID_ACTIONS)) \in Nat
          BY <1>0 DEF ActionsOf
        <5> QED
          BY <5>1, OverActionsDef DEF ActionsOf
      <4>2. ps.a \in 1..A
        BY <1>0, <2>0, <2>6
      <4> HIDE DEF acts
      <4> QED
        BY <2>6, <4>1, <4>2
    <3> HIDE DEF paths, base
    <3>7. paths[P] = m
      BY <2>6, <3>1, <3>3, <3>4
    <3>8. acts[ps.a] = m
      BY <3>5, <3>6, <3>7
    <3>9. ps.a \in 0..A /\ A \in ps.a..A
      BY <1>0, <2>0, <2>6
    <3> HIDE DEF acts
    <3>10. acts[A] = m
      BY <2>1, <2>6, <3>8, <3>9
    <3> QED
      BY <2>2, <2>3, <3>10
  <2> QED
    BY <1>0, <2>0, <2>4, <2>5, <2>6
<1>6. after[k] = FinishTask(m) /\ FinishTask(m).output = m.output
  <2>1. FinishTask(m).output = m.output
    BY <1>5 DEF FinishTask, IsMachine, MachineFields
  <2> QED
    BY <1>3, <1>5, <2>1
<1>7. k \in 0..N
  BY <1>2
<1> QED
  BY <1>1, <1>6, <1>7 DEF InSchedule, after, N

\* When no task is due any more the run has done all it does.
LEMMA RunEnds ==
  ASSUME NEW m, NEW start, Fit(start), NEW stop_at, NEW q,
         InSchedule(m, start, stop_at, q), DOMAIN q = {}
  PROVE  m = run_schedule(start, stop_at)
<1> DEFINE after == OverTasks(start, stop_at)
           N == Len(start.tasks)
<1>1. PICK k \in 0..N : /\ m = after[k]
                        /\ m.output = NULL => DueIs(q, start, stop_at, k)
  BY DEF InSchedule
<1>2. N \in Nat /\ k \in 0..N /\ N \in k..N
  BY <1>1, FitTasks
<1>3. /\ \A i \in 0..N : \A j \in i..N : after[i].output # NULL => after[j] = after[i]
  BY TasksKept DEF Fit
<1>4. \A j \in 1..N : after[j] =
        IF after[j - 1].output # NULL \/ ~InWindow(start.tasks[j], stop_at) THEN after[j - 1]
        ELSE FinishTask(run_task(after[j - 1], start.tasks[j]))
  BY <1>2, OverTasksDef
<1>5. run_schedule(start, stop_at) = after[N]
  BY DEF run_schedule
<1> HIDE DEF after, N
<1>6. CASE m.output # NULL
  BY <1>1, <1>2, <1>3, <1>5, <1>6
<1>7. CASE m.output = NULL
  <2>1. \A j \in (k + 1)..N : ~InWindow(start.tasks[j], stop_at)
    BY <1>1, <1>7 DEF DueIs, N
  <2>2. \A j \in (k + 1)..N : after[j] = after[j - 1]
    BY <1>2, <1>4, <2>1
  <2>3. after[N] = after[k]
    BY <1>2, <2>2, Idles
  <2> QED
    BY <1>1, <1>5, <2>3
<1> QED
  BY <1>6, <1>7

-----------------------------------------------------------------------------
(* The machine of the server, and the one that is made from what it         *)
(* published.                                                               *)

IsList(s) == \E S : s \in Seq(S)
IsStatement(w) == w.sigs \in Seq(Signers) /\ w.stamp \in Int

Latest == log[Len(log)]

\* What a call starts from, and how far it runs the schedule.
Start == IF op = "eval" THEN Clean(db) ELSE db
Stop  == IF op = "eval" THEN wit.stamp ELSE Latest.at

\* What a call with one statement returns, as a function.
Outcome == eval_statement(Clean(db), given)

Typed ==
  /\ IsList(published) /\ IsList(log)
  /\ draft # NULL => IsStatement(draft)
  /\ \A i \in DOMAIN published : IsStatement(published[i])
  /\ \A i \in DOMAIN log : log[i].at \in Int /\ log[i].call \in {"run", "eval"}
  /\ QueueOK(db.tasks) /\ QueueOK(vm.tasks)

\* Between two calls the working copy is the stored one; a call has a machine
\* without a result, and what it was called with.
Called ==
  /\ pc = "idle" => vm = db
  /\ pc # "idle" =>
       /\ db.output = NULL
       /\ \/ op = "eval" /\ IsStatement(given)
          \/ /\ op = "run" /\ pc \in {"sched", "task"}
             /\ log # <<>> /\ Latest.call = "run"

\* The statement of the call is the one that was given, before it is taken off
\* the stack, while it is evaluated, and when it is done.
Taken ==
  /\ pc = "next" /\ DOMAIN pend # {} => pend[1] = given /\ vm = Start
  /\ pc = "next" /\ DOMAIN pend = {} => ~Outcome.threw /\ vm = Outcome.m
  /\ op = "eval" /\ pc \notin {"idle", "next"} => wit = given

\* A run of the schedule is, step by step, the one of the function.
Scheduling ==
  /\ pc = "sched" => InSchedule(vm, Start, Stop, due)
  /\ pc = "task"  => InTask(vm, Start, Stop, due, task, pos)

\* So is the program of a statement.
Running ==
  pc \in {"load", "exec", "update"} =>
    LET n == run_schedule(Start, wit.stamp) IN
    /\ ~n.closed
    /\ pc = "load" => vm = n
    /\ pc = "exec" => /\ sig \in 1..(Len(wit.sigs) + 1)
                      /\ OverSigs(n, wit)[sig - 1] = [m |-> vm, st |-> "short"]
                      /\ method = "claim" => sig = 1
    /\ pc = "update" => exec_method(n, wit) = [m |-> vm, st |-> "met"]

Inside == Typed /\ Called /\ Taken /\ Scheduling /\ Running

\* How a call may end: with what the function returns, or with nothing to store.
Ended ==
  /\ vm' = db' /\ pc' = "idle"
  /\ op = "run" => db' = run_schedule(db, Latest.at)
  /\ op = "eval" => IF Throws THEN db' = db ELSE ~Outcome.threw /\ db' = Outcome.m

\* A call starts from the stored machine, without its error (main.ts:42-55).
LEMMA StartFits ==
  ASSUME IInv, Inside
  PROVE  Fit(Start) /\ Fit(db) /\ Fit(Clean(db)) /\ Start.output = db.output
BY CleanMakes DEF Fit, Start, IInv, Inside, Typed

-----------------------------------------------------------------------------
(* The steps of the schedule.                                               *)

\* The statement of the call is taken (main.ts:56-60).
LEMMA NextStatementInside ==
  ASSUME IInv, Inside, NextStatement, UNCHANGED audit
  PROVE  Inside'
<1>1. /\ pc = "next" /\ pc' = "sched" /\ UNCHANGED <<db, vm, op, sig, task, pos>>
      /\ UNCHANGED <<draft, given, published, log>>
  BY DEF NextStatement, audit
<1>2. op = "eval" /\ IsStatement(given) /\ db.output = NULL
  BY <1>1 DEF Inside, Called
<1>3. /\ wit' = given /\ due' = get_tasks(vm, given.stamp) /\ vm = Start
  BY <1>1 DEF NextStatement, IInv, OnStack, Inside, Taken
<1>4. Start' = vm /\ Stop' = given.stamp
  BY <1>1, <1>2, <1>3 DEF Start, Stop
<1>5. InSchedule(vm, vm, given.stamp, due')
  BY <1>2, <1>3, StartFits, RunStarts
<1>6. Scheduling'
  BY <1>1, <1>4, <1>5 DEF Scheduling
<1>7. Typed' /\ Called' /\ Taken'
  BY <1>1, <1>2, <1>3 DEF Inside, Typed, Called, Taken, Latest
<1>8. Running'
  BY <1>1 DEF Running
<1> QED
  BY <1>6, <1>7, <1>8 DEF Inside

\* What a step within a run of the schedule leaves alone.
LEMMA WithinRun ==
  ASSUME IInv, Inside, pc \in {"sched", "task"}, pc' \in {"sched", "task"},
         UNCHANGED <<db, op, pend, wit>>, UNCHANGED audit,
         QueueOK(vm.tasks)', Scheduling'
  PROVE  Inside'
<1>1. UNCHANGED <<draft, given, published, log>>
  BY DEF audit
<1>2. Typed' /\ Called' /\ Taken'
  BY <1>1 DEF Inside, Typed, Called, Taken, Latest
<1>3. Running'
  BY DEF Running
<1> QED
  BY <1>2, <1>3 DEF Inside

\* A due task is taken (schedule.ts:24-26).
LEMMA NextTaskInside ==
  ASSUME IInv, Inside, NextTask, UNCHANGED audit
  PROVE  Inside'
<1>1. /\ pc = "sched" /\ pc' = "task" /\ UNCHANGED <<db, vm, op, pend, wit>>
      /\ pos' = [a |-> 1, p |-> 1] /\ UNCHANGED log
  BY DEF NextTask, audit
<1>2. PICK i \in DOMAIN due : /\ IsLeast(i, DOMAIN due)
                              /\ task' = due[i] /\ due' = Drop(due, i)
  BY DEF NextTask
<1>3. InSchedule(vm, Start, Stop, due)
  BY <1>1 DEF Inside, Scheduling
<1>4. InTask(vm, Start, Stop, due', task', pos')
  BY <1>1, <1>2, <1>3, StartFits, RunTakes
<1>5. Start' = Start /\ Stop' = Stop
  BY <1>1 DEF Start, Stop, Latest
<1>6. Scheduling'
  BY <1>1, <1>4, <1>5 DEF Scheduling
<1> QED
  BY <1>1, <1>6, WithinRun DEF Inside, Typed

\* The paths and the actions of a task (schedule.ts:43-66).
LEMMA RunTaskInside ==
  ASSUME IInv, Inside, TaskPath \/ EndOfPaths \/ TaskClose, UNCHANGED audit
  PROVE  Inside'
<1>1. /\ pc = "task" /\ pc' = "task" /\ UNCHANGED <<db, op, pend, wit, due, task, log>>
      /\ vm.output = NULL /\ pos.a <= Len(ActionsOf(task))
  BY DEF TaskPath, EndOfPaths, TaskClose, audit, alist, ActionsOf
<1>2. InTask(vm, Start, Stop, due, task, pos)
  BY <1>1 DEF Inside, Scheduling
<1>3. Fit(Start) /\ IsMachine(vm)
  BY StartFits DEF IInv
<1>4. InTask(vm', Start, Stop, due, task, pos') /\ vm'.tasks = vm.tasks
  <2>1. CASE TaskPath
    <3> DEFINE in == TaskInput(task, ActionsOf(task)[pos.a], PathsOf(task)[pos.p])
    <3>1. /\ ActionsOf(task)[pos.a] \in PATH_ACTIONS /\ pos.p <= Len(PathsOf(task))
          /\ pos' = [pos EXCEPT !.p = @ + 1]
      BY <2>1 DEF TaskPath, NextPath, alist, plist, ActionsOf, PathsOf
    <3>2. Input(plist[pos.p]) = in
      BY DEF Input, TaskInput, alist, plist, ActionsOf, PathsOf
    <3>3. vm' = Try(vm, in)
      BY <1>1, <2>1, <3>2 DEF TaskPath, Try
    <3>4. vm'.tasks = vm.tasks
      BY <1>3, <3>3, TryKeeps
    <3> QED
      BY <1>1, <1>2, <1>3, <3>1, <3>3, <3>4, RunPath
  <2>2. CASE EndOfPaths
    <3>1. /\ ActionsOf(task)[pos.a] \in PATH_ACTIONS /\ pos.p > Len(PathsOf(task))
          /\ pos' = [a |-> pos.a + 1, p |-> 1] /\ vm' = vm
      BY <2>2 DEF EndOfPaths, NextAction, alist, plist, ActionsOf, PathsOf
    <3> QED
      BY <1>1, <1>2, <1>3, <3>1, PathsEnd
  <2>3. CASE TaskClose
    <3> DEFINE in == TaskInput(task, ActionsOf(task)[pos.a], NULL)
    <3>1. /\ ActionsOf(task)[pos.a] \notin PATH_ACTIONS
          /\ pos' = [a |-> pos.a + 1, p |-> 1]
      BY <2>3 DEF TaskClose, NextAction, alist, ActionsOf
    <3>2. Input(NULL) = in
      BY DEF Input, TaskInput, alist, ActionsOf
    <3>3. vm' = Try(vm, in)
      BY <1>1, <2>3, <3>2 DEF TaskClose, Try
    <3>4. vm'.tasks = vm.tasks
      BY <1>3, <3>3, TryKeeps
    <3> QED
      BY <1>1, <1>2, <1>3, <3>1, <3>3, <3>4, RunAction
  <2> QED
    BY <2>1, <2>2, <2>3
<1>5. Start' = Start /\ Stop' = Stop
  BY <1>1 DEF Start, Stop, Latest
<1>6. Scheduling'
  BY <1>1, <1>4, <1>5 DEF Scheduling
<1> QED
  BY <1>1, <1>4, <1>6, WithinRun DEF Inside, Typed

\* A task leaves the queue (schedule.ts:27-28).
LEMMA EndOfTaskInside ==
  ASSUME IInv, Inside, EndOfTask, UNCHANGED audit
  PROVE  Inside'
<1>1. /\ pc = "task" /\ pc' = "sched" /\ UNCHANGED <<db, op, pend, wit, log>>
      /\ vm' = FinishTask(vm) /\ due' = IF vm.output # NULL THEN <<>> ELSE due
      /\ vm.output # NULL \/ pos.a > Len(ActionsOf(task))
  BY DEF EndOfTask, FinishTask, audit, alist, ActionsOf
<1>2. InTask(vm, Start, Stop, due, task, pos)
  BY <1>1 DEF Inside, Scheduling
<1>3. Fit(Start) /\ IsMachine(vm) /\ QueueOK(vm.tasks)
  BY StartFits DEF IInv, Inside, Typed
<1>4. InSchedule(vm', Start, Stop, due')
  BY <1>1, <1>2, <1>3, TaskEnds
<1>5. Start' = Start /\ Stop' = Stop
  BY <1>1 DEF Start, Stop, Latest
<1>6. Scheduling'
  BY <1>1, <1>4, <1>5 DEF Scheduling
<1>7. QueueOK(vm'.tasks)
  BY <1>1, <1>3, QueueShifts
<1> QED
  BY <1>1, <1>6, <1>7, WithinRun

\* After the schedule the statement is loaded, or the call is over (main.ts:60-67).
LEMMA EndOfScheduleInside ==
  ASSUME IInv, Inside, EndOfSchedule
  PROVE  /\ pc' # "idle" /\ UNCHANGED audit => Inside'
         /\ pc' = "idle" => Ended
<1>1. pc = "sched" /\ vm = run_schedule(Start, Stop)
  BY StartFits, RunEnds DEF EndOfSchedule, Inside, Scheduling
<1>2. CASE (op = "run" \/ vm.closed) /\ Return(vm)
  <2>1. pc' = "idle" /\ db' = vm /\ vm' = vm
    BY <1>2 DEF Return
  <2>2. op = "run" => db' = run_schedule(db, Latest.at)
    BY <1>1, <2>1 DEF Start, Stop
  <2>3. op = "eval" => ~Throws /\ ~Outcome.threw /\ db' = Outcome.m
    <3> SUFFICES ASSUME op = "eval" PROVE ~Throws /\ ~Outcome.threw /\ db' = Outcome.m
      OBVIOUS
    <3>1. wit = given
      BY <1>1 DEF Inside, Taken
    <3>2. vm = run_schedule(Clean(db), given.stamp) /\ vm.closed
      BY <1>1, <1>2, <3>1 DEF Start, Stop
    <3>3. Outcome = Went(vm)
      BY <3>2 DEF Outcome, eval_statement
    <3> QED
      BY <1>1, <2>1, <3>3 DEF Throws, Went
  <2> QED
    BY <2>1, <2>2, <2>3 DEF Ended
<1>3. CASE op = "eval" /\ ~vm.closed /\ pc' = "load" /\ UNCHANGED <<db, vm, locals>>
  <2>1. UNCHANGED <<op, pend, wit, sig>>
    BY <1>3 DEF locals
  <2> SUFFICES ASSUME UNCHANGED audit PROVE Inside'
    BY <1>3
  <2>2. UNCHANGED <<draft, given, published, log>>
    BY DEF audit
  <2>3. Typed' /\ Called' /\ Taken'
    BY <1>1, <1>3, <2>1, <2>2 DEF Inside, Typed, Called, Taken, Latest
  <2>4. Scheduling'
    BY <1>3 DEF Scheduling
  <2>5. Running'
    BY <1>1, <1>3, <2>1 DEF Running, Start, Stop
  <2> QED
    BY <2>3, <2>4, <2>5 DEF Inside
<1> QED
  BY <1>2, <1>3 DEF EndOfSchedule

-----------------------------------------------------------------------------
(* The steps of a program.                                                  *)

\* Votes that have met the threshold, or were refused, end the loop.
LEMMA SigsEnd ==
  ASSUME NEW n, NEW w, Len(w.sigs) \in Nat, NEW k \in 0..Len(w.sigs),
         OverSigs(n, w)[k].st # "short" \/ k = Len(w.sigs)
  PROVE  OverSigs(n, w)[Len(w.sigs)] = OverSigs(n, w)[k]
<1> DEFINE after == OverSigs(n, w)
           N     == Len(w.sigs)
           Halt  == {i \in 0..N : after[i].st # "short"}
<1>1. \A i \in 1..N : after[i] = IF after[i - 1].st # "short" THEN after[i - 1]
                                 ELSE Vote(after[i - 1].m, w, i)
  BY OverSigsDef
<1> HIDE DEF after, N
<1>2. ASSUME NEW i \in 1..N, i - 1 \in Halt PROVE i \in Halt /\ after[i] = after[i - 1]
  <2>1. i - 1 \in 0..N /\ i \in 0..N /\ after[i - 1].st # "short"
    BY <1>2 DEF N
  <2> QED
    BY <1>1, <2>1
<1>3. CASE after[k].st # "short"
  <2>1. k \in 0..N /\ N \in k..N /\ N \in Nat /\ k \in Halt
    BY <1>3 DEF N
  <2> HIDE DEF Halt
  <2> QED
    BY <1>2, <2>1, Halts DEF after, N
<1> QED
  BY <1>3 DEF after, N

\* What the function makes of a statement that is loaded (program.ts:47-56).
LEMMA Evaluation ==
  ASSUME IInv, Inside, pc \in {"load", "exec", "update"}
  PROVE  LET n  == run_schedule(Start, wit.stamp)
             r  == exec_method(n, wit)
             in == StatementInput
         IN /\ op = "eval" /\ wit = given /\ IsStatement(wit)
            /\ n = run_schedule(Clean(db), given.stamp) /\ ~n.closed
            /\ Outcome = IF ~Loads(wit) THEN Threw(n)
                         ELSE IF r.st = "bad" THEN Refused(r.m)
                         ELSE IF r.st = "short" THEN Went(r.m)
                         ELSE IF Accepts(r.m, in) THEN Went(update_vm_state(r.m, in))
                         ELSE IF Faults(r.m, in) THEN Threw(n)
                         ELSE Refused(r.m)
<1> DEFINE n == run_schedule(Start, wit.stamp)
<1>1. op = "eval" /\ wit = given /\ IsStatement(wit)
  BY DEF Inside, Called, Taken
<1>2. n = run_schedule(Clean(db), given.stamp) /\ ~n.closed
  BY <1>1 DEF Start, Inside, Running
<1>3. StatementInput = [ action |-> wit.action, path |-> wit.path, stamp |-> wit.stamp,
                         wid    |-> get_witness_id(wit) ]
  BY DEF StatementInput, get_witness_id
<1>4. Outcome = run_program(n, wit)
  BY <1>1, <1>2 DEF Outcome, eval_statement
<1> HIDE DEF n
<1>5. run_program(n, wit) =
        LET r  == exec_method(n, wit)
            in == StatementInput
        IN IF ~Loads(wit) THEN Threw(n)
           ELSE IF r.st = "bad" THEN Refused(r.m)
           ELSE IF r.st = "short" THEN Went(r.m)
           ELSE IF Accepts(r.m, in) THEN Went(update_vm_state(r.m, in))
           ELSE IF Faults(r.m, in) THEN Threw(n)
           ELSE Refused(r.m)
  BY <1>3 DEF run_program
<1> QED
  BY <1>1, <1>2, <1>4, <1>5 DEF n

\* What a step within a program leaves alone.
LEMMA WithinProgram ==
  ASSUME IInv, Inside, pc \in {"load", "exec"}, pc' \in {"exec", "update"},
         UNCHANGED <<db, op, pend, wit>>, UNCHANGED audit,
         QueueOK(vm.tasks)', Running'
  PROVE  Inside'
<1>1. UNCHANGED <<draft, given, published, log>>
  BY DEF audit
<1>2. Typed' /\ Called' /\ Taken'
  BY <1>1 DEF Inside, Typed, Called, Taken, Latest
<1>3. Scheduling'
  BY DEF Scheduling
<1> QED
  BY <1>2, <1>3 DEF Inside

\* A program is loaded, or an error is thrown (program.ts:58-99).
LEMMA LoadInside ==
  ASSUME IInv, Inside, load_program
  PROVE  /\ pc' # "idle" /\ UNCHANGED audit => Inside'
         /\ pc' = "idle" => Ended
<1> DEFINE n == run_schedule(Start, wit.stamp)
<1>1. pc = "load" /\ op = "eval" /\ IsStatement(wit) /\ vm = n /\ ~n.closed
  BY Evaluation DEF load_program, Inside, Running
<1>2. CASE ~Loads(wit) /\ Throw
  <2>1. pc' = "idle" /\ db' = db /\ vm' = db /\ Throws
    BY <1>1, <1>2 DEF Throw, Return, Throws
  <2> QED
    BY <1>1, <2>1 DEF Ended
<1>3. CASE Loads(wit) /\ pc' = "exec" /\ sig' = 1 /\ UNCHANGED <<db, vm, op, pend, wit>>
  <2> SUFFICES ASSUME UNCHANGED audit PROVE Inside'
    BY <1>3
  <2>1. OverSigs(n, wit)[0] = [m |-> n, st |-> "short"]
    BY <1>1, OverSigsDef DEF IsStatement
  <2>2. n' = n
    BY <1>3 DEF Start
  <2>3. Running'
    BY <1>1, <1>3, <2>1, <2>2 DEF Running, IsStatement
  <2>4. QueueOK(vm.tasks)'
    BY <1>3 DEF Inside, Typed
  <2> QED
    BY <1>1, <1>3, <2>3, <2>4, WithinProgram
<1> QED
  BY <1>2, <1>3 DEF load_program

\* A vote is recorded, or refused (endorse.ts:38-101).
LEMMA VoteInside ==
  ASSUME IInv, Inside, record_entry
  PROVE  /\ pc' # "idle" /\ UNCHANGED audit => Inside'
         /\ pc' = "idle" => Ended
<1> DEFINE n == run_schedule(Start, wit.stamp)
           after == OverSigs(n, wit)
           N     == Len(wit.sigs)
<1>1. /\ pc = "exec" /\ op = "eval" /\ wit = given /\ IsStatement(wit) /\ Loads(wit)
      /\ after[sig - 1] = [m |-> vm, st |-> "short"] /\ method = "endorse"
      /\ sig \in 1..N /\ N \in Nat
  BY Evaluation DEF record_entry, Inside, Running, IInv, Control, IsStatement
<1>2. after[sig] = Vote(vm, wit, sig)
  <2>1. \A i \in 1..N : after[i] = IF after[i - 1].st # "short" THEN after[i - 1]
                                   ELSE Vote(after[i - 1].m, wit, i)
    <3>1. Len(wit.sigs) \in Nat
      BY <1>1
    <3> HIDE DEF n
    <3> QED
      BY <3>1, OverSigsDef
  <2> HIDE DEF after, N
  <2> QED
    BY <1>1, <2>1
<1>3. MembersOf(wit) = members
  BY DEF MembersOf, members
<1>4. exec_method(n, wit) = after[N]
  BY <1>1 DEF exec_method, method
<1>5. after[sig].st # "short" => after[N] = after[sig]
  BY <1>1, SigsEnd
<1>6. sig \in 0..N
  BY <1>1
<1>7. CASE /\ wit.sigs[sig] \notin members \/ Entry(wit, sig) \in vm.store
           /\ VMError
  <2>1. after[sig] = [m |-> vm, st |-> "bad"]
    BY <1>2, <1>3, <1>7 DEF Vote
  <2>2. exec_method(n, wit) = [m |-> vm, st |-> "bad"]
    BY <1>4, <1>5, <2>1
  <2> HIDE DEF n, after, N
  <2>3. Outcome = Refused(vm)
    BY <1>1, <2>2, Evaluation DEF n
  <2>4. pc' = "idle" /\ db' = [vm EXCEPT !.error = TRUE] /\ vm' = db'
    BY <1>7 DEF VMError, Return
  <2>5. ~Throws
    BY <1>1 DEF Throws
  <2> QED
    BY <1>1, <2>3, <2>4, <2>5 DEF Ended, Refused
<1>8. CASE /\ wit.sigs[sig] \in members /\ Entry(wit, sig) \notin vm.store
           /\ vm' = [vm EXCEPT !.store = @ \cup {Entry(wit, sig)}]
           /\ \/ QuorumMet(vm', wit) /\ pc' = "update" /\ UNCHANGED sig
              \/ ~QuorumMet(vm', wit) /\ sig' = sig + 1 /\ UNCHANGED pc
           /\ UNCHANGED <<db, op, pend, wit, due, task, pos>>
  <2>1. after[sig] = [m |-> vm', st |-> IF QuorumMet(vm', wit) THEN "met" ELSE "short"]
    BY <1>2, <1>3, <1>8 DEF Vote
  <2>2. pc' # "idle"
    BY <1>1, <1>8
  <2> SUFFICES ASSUME UNCHANGED audit PROVE Inside'
    BY <2>2
  <2>3. n' = n /\ after' = after
    BY <1>8 DEF Start
  <2>4. ~n.closed
    BY Evaluation, <1>1
  <2>5. Running'
    <3>1. CASE QuorumMet(vm', wit) /\ pc' = "update"
      <4>1. exec_method(n, wit) = [m |-> vm', st |-> "met"]
        BY <1>4, <1>5, <2>1, <3>1
      <4> HIDE DEF n, after, N
      <4> QED
        BY <1>8, <2>3, <2>4, <3>1, <4>1 DEF Running, n
    <3>2. CASE ~QuorumMet(vm', wit) /\ sig' = sig + 1 /\ pc' = "exec"
      <4>1. after[sig' - 1] = [m |-> vm', st |-> "short"] /\ sig' \in 1..(N + 1)
        BY <1>1, <2>1, <3>2
      <4>2. method' # "claim"
        BY <1>1, <1>8 DEF method
      <4> HIDE DEF n
      <4> QED
        BY <1>8, <2>3, <2>4, <3>2, <4>1, <4>2 DEF Running, n
    <3> QED
      BY <1>1, <1>8, <3>1, <3>2
  <2>6. vm'.tasks = vm.tasks
    BY <1>8 DEF IInv, IsMachine, MachineFields
  <2>7. QueueOK(vm.tasks)'
    BY <2>6 DEF Inside, Typed
  <2> QED
    BY <1>1, <1>8, <2>5, <2>7, WithinProgram
<1> QED
  BY <1>7, <1>8 DEF record_entry

\* What ends a statement and leaves the stack to the end of the call.
LEMMA StatementOver ==
  ASSUME IInv, Inside, pc \in {"exec", "update"}, pc' = "next",
         UNCHANGED <<db, op, pend>>, UNCHANGED audit,
         QueueOK(vm.tasks)', ~Outcome.threw, vm' = Outcome.m
  PROVE  Inside'
<1>1. UNCHANGED <<draft, given, published, log>>
  BY DEF audit
<1>2. op = "eval" /\ DOMAIN pend = {}
  BY Evaluation DEF IInv, OnStack
<1>3. Outcome' = Outcome
  BY <1>1 DEF Outcome
<1>4. Typed' /\ Called' /\ Taken'
  BY <1>1, <1>2, <1>3 DEF Inside, Typed, Called, Taken, Latest
<1>5. Scheduling' /\ Running'
  BY DEF Scheduling, Running
<1> QED
  BY <1>4, <1>5 DEF Inside

\* The votes fall short (endorse.ts:28-35).
LEMMA ShortInside ==
  ASSUME IInv, Inside, FallsShort, UNCHANGED audit
  PROVE  Inside'
<1> DEFINE n == run_schedule(Start, wit.stamp)
           after == OverSigs(n, wit)
           N     == Len(wit.sigs)
<1>1. /\ pc = "exec" /\ pc' = "next" /\ UNCHANGED <<db, vm, op, pend>>
      /\ after[sig - 1] = [m |-> vm, st |-> "short"] /\ method = "endorse"
      /\ sig \in 1..(N + 1) /\ sig > N /\ Loads(wit) /\ N \in Nat
  BY Evaluation DEF FallsShort, Inside, Running, IInv, Control, IsStatement
<1>2. sig - 1 = N
  BY <1>1
<1>3. exec_method(n, wit) = [m |-> vm, st |-> "short"]
  BY <1>1, <1>2 DEF exec_method, method
<1> HIDE DEF n
<1>4. Outcome = Went(vm)
  BY <1>1, <1>3, Evaluation DEF n
<1>5. QueueOK(vm.tasks)'
  BY <1>1 DEF Inside, Typed
<1> QED
  BY <1>1, <1>4, <1>5, StatementOver DEF Went

\* The preimage is shown, or not (claim.ts:9-43).
LEMMA ClaimInside ==
  ASSUME IInv, Inside, claim
  PROVE  /\ pc' # "idle" /\ UNCHANGED audit => Inside'
         /\ pc' = "idle" => Ended
<1> DEFINE n == run_schedule(Start, wit.stamp)
<1>1. /\ pc = "exec" /\ op = "eval" /\ IsStatement(wit) /\ Loads(wit)
      /\ OverSigs(n, wit)[0] = [m |-> vm, st |-> "short"] /\ method = "claim" /\ ~n.closed
  BY Evaluation DEF claim, Inside, Running, IInv, Control
<1>2. vm = n
  <2>1. OverSigs(n, wit)[0] = [m |-> n, st |-> "short"]
    BY <1>1, OverSigsDef DEF IsStatement
  <2> HIDE DEF n
  <2>2. [m |-> vm, st |-> "short"].m = [m |-> n, st |-> "short"].m
    BY <1>1, <2>1
  <2> QED
    BY <2>2
<1>3. Claims(wit) <=> Shows(wit)
  BY DEF Claims, Shows, MembersOf, members, param
<1>4. exec_method(n, wit) = [m |-> n, st |-> IF Shows(wit) THEN "met" ELSE "bad"]
  BY <1>1 DEF exec_method, method
<1>5. CASE Claims(wit) /\ pc' = "update" /\ UNCHANGED <<db, vm, locals>>
  <2> SUFFICES ASSUME UNCHANGED audit PROVE Inside'
    BY <1>5
  <2>1. UNCHANGED <<op, pend, wit, sig>>
    BY <1>5 DEF locals
  <2>2. n' = n
    BY <1>5, <2>1 DEF Start
  <2>3. exec_method(n, wit) = [m |-> vm, st |-> "met"]
    BY <1>2, <1>3, <1>4, <1>5
  <2> HIDE DEF n
  <2>4. Running'
    BY <1>1, <1>5, <2>1, <2>2, <2>3 DEF Running, n
  <2>5. QueueOK(vm.tasks)'
    BY <1>5 DEF Inside, Typed
  <2> QED
    BY <1>1, <1>5, <2>1, <2>4, <2>5, WithinProgram
<1>6. CASE ~Claims(wit) /\ VMError
  <2>1. exec_method(n, wit) = [m |-> vm, st |-> "bad"]
    BY <1>2, <1>3, <1>4, <1>6
  <2> HIDE DEF n
  <2>2. Outcome = Refused(vm)
    BY <1>1, <2>1, Evaluation DEF n
  <2>3. pc' = "idle" /\ db' = [vm EXCEPT !.error = TRUE] /\ vm' = db'
    BY <1>6 DEF VMError, Return
  <2>4. ~Throws
    BY <1>1 DEF Throws
  <2> QED
    BY <1>1, <2>2, <2>3, <2>4 DEF Ended, Refused
<1> QED
  BY <1>5, <1>6 DEF claim

\* The statement takes effect, or is refused, or throws (program.ts:53-55).
LEMMA UpdateInside ==
  ASSUME IInv, Inside, Update
  PROVE  /\ pc' # "idle" /\ UNCHANGED audit => Inside'
         /\ pc' = "idle" => Ended
<1> DEFINE n == run_schedule(Start, wit.stamp)
           m == update_vm_state(vm, StatementInput)
<1>1. /\ pc = "update" /\ op = "eval" /\ Loads(wit)
      /\ exec_method(n, wit) = [m |-> vm, st |-> "met"]
  BY Evaluation DEF Update, Inside, Running, IInv, Control
<1>2. /\ Accepts(vm, StatementInput) => Outcome = Went(m)
      /\ ~Accepts(vm, StatementInput) /\ ~Faults(vm, StatementInput) => Outcome = Refused(vm)
  <2> HIDE DEF n, m
  <2> QED
    BY <1>1, Evaluation DEF n, m
<1>3. m.tasks = vm.tasks
  BY UpdateMakes DEF IInv
<1>4. Accepts(vm, StatementInput) => ~Faults(vm, StatementInput)
  BY DEF Accepts, Faults
<1> HIDE DEF n, m
<1>5. CASE Accepts(vm, StatementInput) /\ m.closed /\ Return(m)
  <2>1. pc' = "idle" /\ db' = m /\ vm' = db'
    BY <1>5 DEF Return
  <2>2. ~Throws
    BY <1>1, <1>4, <1>5 DEF Throws
  <2> QED
    BY <1>1, <1>2, <1>5, <2>1, <2>2 DEF Ended, Went
<1>6. CASE /\ Accepts(vm, StatementInput) /\ ~m.closed
           /\ vm' = m /\ pc' = "next" /\ UNCHANGED <<db, op, pend>>
  <2> SUFFICES ASSUME UNCHANGED audit PROVE Inside'
    BY <1>6
  <2>1. QueueOK(vm.tasks)'
    BY <1>3, <1>6 DEF Inside, Typed
  <2> QED
    BY <1>1, <1>2, <1>6, <2>1, StatementOver DEF Went
<1>7. CASE Faults(vm, StatementInput) /\ Throw
  <2>1. pc' = "idle" /\ db' = db /\ vm' = db /\ Throws
    BY <1>1, <1>7 DEF Throw, Return, Throws
  <2> QED
    BY <1>1, <2>1 DEF Ended
<1>8. CASE ~Accepts(vm, StatementInput) /\ ~Faults(vm, StatementInput) /\ VMError
  <2>1. pc' = "idle" /\ db' = [vm EXCEPT !.error = TRUE] /\ vm' = db'
    BY <1>8 DEF VMError, Return
  <2>2. ~Throws
    BY <1>1, <1>8 DEF Throws
  <2> QED
    BY <1>1, <1>2, <1>8, <2>1, <2>2 DEF Ended, Refused
<1> QED
  BY <1>5, <1>6, <1>7, <1>8 DEF Update, m

\* The end of the stack (main.ts:70-78).
LEMMA EndOfStackInside ==
  ASSUME IInv, Inside, EndOfStack
  PROVE  Ended
<1>1. /\ pc = "next" /\ DOMAIN pend = {} /\ pc' = "idle" /\ db' = vm /\ vm' = vm
  BY DEF EndOfStack, Return
<1>2. op = "eval" /\ ~Outcome.threw /\ vm = Outcome.m
  BY <1>1 DEF Inside, Called, Taken
<1> QED
  BY <1>1, <1>2 DEF Ended, Throws

\* A step of a call.
LEMMA StepInside ==
  ASSUME IInv, Inside, Step
  PROVE  /\ pc' # "idle" /\ UNCHANGED audit => Inside'
         /\ pc' = "idle" => Ended
<1>1. CASE NextStatement
  BY <1>1, NextStatementInside DEF NextStatement
<1>2. CASE NextTask
  BY <1>2, NextTaskInside DEF NextTask
<1>3. CASE TaskPath \/ EndOfPaths \/ TaskClose
  BY <1>3, RunTaskInside DEF TaskPath, EndOfPaths, TaskClose
<1>4. CASE EndOfTask
  BY <1>4, EndOfTaskInside DEF EndOfTask
<1>5. CASE FallsShort
  BY <1>5, ShortInside DEF FallsShort
<1>6. CASE EndOfStack
  BY <1>6, EndOfStackInside DEF EndOfStack, Return
<1> QED
  BY <1>1, <1>2, <1>3, <1>4, <1>5, <1>6, EndOfScheduleInside, LoadInside, VoteInside,
     ClaimInside, UpdateInside DEF Step

-----------------------------------------------------------------------------
(* The calls, and what the client makes of them.                            *)

\* A list that grows.
LEMMA ListGrows ==
  ASSUME NEW s, IsList(s), NEW e
  PROVE  /\ Len(s) \in Nat /\ DOMAIN s = 1..Len(s) /\ IsList(Append(s, e))
         /\ Len(Append(s, e)) = Len(s) + 1 /\ DOMAIN Append(s, e) = 1..(Len(s) + 1)
         /\ Append(s, e)[Len(s) + 1] = e
         /\ \A i \in 1..Len(s) : Append(s, e)[i] = s[i]
         /\ s # <<>> => Len(s) \in DOMAIN s /\ Last(s) = s[Len(s)]
<1>1. PICK S : s \in Seq(S)
  BY DEF IsList
<1> DEFINE T == S \cup {e}
<1>2. s \in Seq(T) /\ e \in T
  BY <1>1
<1> HIDE DEF T
<1>3. Append(s, e) \in Seq(T)
  BY <1>2
<1>4. IsList(Append(s, e))
  BY <1>3 DEF IsList
<1>5. s # <<>> => Len(s) \in DOMAIN s /\ Last(s) = s[Len(s)]
  BY <1>2 DEF Last
<1> QED
  BY <1>2, <1>4, <1>5

\* The time of the last due task is a time of the schedule that makes the same
\* tasks due.
LEMMA LastDue ==
  ASSUME NEW m, Fit(m), NEW stop_at \in Int, NEW q, q = get_tasks(m, stop_at),
         DOMAIN q # {}, NEW last,
         last = CHOOSE i \in DOMAIN q : \A j \in DOMAIN q : j <= i
  PROVE  /\ ActiveAt + q[last].ts \in Int
         /\ q = get_tasks(m, ActiveAt + q[last].ts)
<1> DEFINE N == Len(m.tasks)
<1>1. N \in Nat /\ DOMAIN m.tasks = 1..N /\ \A k \in 1..N : m.tasks[k].ts \in Int
  BY FitTasks, ScheduleAssumption
<1>2. /\ DOMAIN q = {i \in 1..N : InWindow(m.tasks[i], stop_at)}
      /\ \A i \in DOMAIN q : q[i] = m.tasks[i]
  BY <1>1 DEF get_tasks
<1> HIDE DEF N
<1>3. \E i \in DOMAIN q : \A j \in DOMAIN q : j <= i
  <2> DEFINE Good == {k \in 0..N : (\E i \in DOMAIN q : i <= k) =>
                        \E i \in DOMAIN q : \A j \in DOMAIN q : j <= k => j <= i}
  <2>1. 0 \in Good
    BY <1>1, <1>2
  <2>2. ASSUME NEW k \in 1..N, k - 1 \in Good PROVE k \in Good
    <3>1. CASE k \in DOMAIN q
      BY <1>1, <3>1
    <3>2. CASE k \notin DOMAIN q
      <4>1. \A i \in DOMAIN q : i \in 1..N /\ (i <= k <=> i <= k - 1)
        BY <1>1, <1>2, <3>2
      <4> QED
        BY <1>1, <2>2, <4>1, SMTT(30)
    <3> QED
      BY <3>1, <3>2
  <2>3. N \in Good
    <3> HIDE DEF Good
    <3>1. 0..N \subseteq Good
      BY <1>1, <2>1, <2>2, Along
    <3> QED
      BY <1>1, <3>1
  <2>4. \A i \in DOMAIN q : i <= N
    BY <1>1, <1>2
  <2> QED
    BY <2>3, <2>4
<1>4. last \in DOMAIN q /\ \A j \in DOMAIN q : j <= last
  BY <1>3
<1> DEFINE at == ActiveAt + q[last].ts
<1>5. last \in 1..N /\ q[last] = m.tasks[last] /\ InWindow(m.tasks[last], stop_at)
  BY <1>2, <1>4
<1>6. at \in Int
  BY <1>1, <1>5, TimeAssumption
<1>7. ASSUME NEW i \in 1..N
      PROVE  InWindow(m.tasks[i], stop_at) <=> InWindow(m.tasks[i], at)
  <2>1. InWindow(m.tasks[i], stop_at) => m.tasks[i].ts <= m.tasks[last].ts
    <3> SUFFICES ASSUME InWindow(m.tasks[i], stop_at) PROVE m.tasks[i].ts <= m.tasks[last].ts
      OBVIOUS
    <3>1. i <= last
      BY <1>2, <1>4
    <3>2. CASE i = last
      BY <1>1, <3>2
    <3>3. CASE i < last
      BY <1>1, <1>5, <3>3 DEF Fit, QueueOK
    <3> QED
      BY <1>1, <1>5, <3>1, <3>2, <3>3
  <2> QED
    BY <1>1, <1>5, <2>1, TimeAssumption DEF InWindow
<1>8. {i \in DOMAIN m.tasks : InWindow(m.tasks[i], stop_at)} =
      {i \in DOMAIN m.tasks : InWindow(m.tasks[i], at)}
  <2> HIDE DEF at
  <2> QED
    BY <1>1, <1>7 DEF N
<1> HIDE DEF at
<1>9. get_tasks(m, stop_at) = get_tasks(m, at)
  BY <1>8 DEF get_tasks
<1> QED
  BY <1>6, <1>9 DEF at

\* A step that goes on leaves the stored machine and the call as they are.
LEMMA StepGoesOn ==
  ASSUME Step
  PROVE  pc # "idle" /\ (pc' # "idle" => UNCHANGED <<db, op>>)
BY DEF Step, NextStatement, EndOfStack, NextTask, EndOfSchedule, TaskPath, EndOfPaths,
       TaskClose, EndOfTask, load_program, record_entry, FallsShort, claim, Update,
       Return, Throw, VMError, locals

\* What a call returns has its queue in order.
LEMMA ReturnFits ==
  ASSUME IInv, Inside, Step, pc' = "idle"
  PROVE  QueueOK(db'.tasks)
<1>1. /\ QueueOK(vm.tasks) /\ QueueOK(db.tasks)
      /\ [vm EXCEPT !.error = TRUE].tasks = vm.tasks
      /\ update_vm_state(vm, StatementInput).tasks = vm.tasks
  <2>1. [vm EXCEPT !.error = TRUE].tasks = vm.tasks
    BY DEF IInv, IsMachine, MachineFields
  <2>2. update_vm_state(vm, StatementInput).tasks = vm.tasks
    BY UpdateMakes DEF IInv
  <2> QED
    BY <2>1, <2>2 DEF Inside, Typed
<1>2. CASE EndOfStack
  BY <1>1, <1>2 DEF EndOfStack, Return
<1>3. CASE EndOfSchedule
  BY <1>1, <1>3 DEF EndOfSchedule, Return
<1>4. CASE load_program
  BY <1>1, <1>4 DEF load_program, Throw, Return
<1>5. CASE record_entry
  BY <1>1, <1>5 DEF record_entry, VMError, Return
<1>6. CASE claim
  BY <1>1, <1>6 DEF claim, VMError, Return
<1>7. CASE Update
  BY <1>1, <1>7 DEF Update, VMError, Throw, Return
<1> QED
  BY <1>2, <1>3, <1>4, <1>5, <1>6, <1>7
     DEF Step, NextStatement, NextTask, TaskPath, EndOfPaths, TaskClose, EndOfTask, FallsShort

-----------------------------------------------------------------------------

\* The schedule got ahead of what came later.
Broken == \E i, j \in DOMAIN log : i < j /\ log[i].call = "run" /\ log[j].at < log[i].at

\* Unless it did, the machine of the server is the one the client makes of what
\* was published, after the last run of the schedule if there was one since.
Replayed ==
  ~Broken =>
    LET c == EvalEach(published) IN
    /\ ~c.threw /\ Fit(c.m)
    /\ IF pc # "idle" /\ op = "run"
       THEN run_schedule(db, Latest.at) = run_schedule(c.m, Latest.at)
       ELSE IF log # <<>> /\ Latest.call = "run" THEN db = run_schedule(c.m, Latest.at)
       ELSE db = c.m

Inv == IInv /\ Inside /\ Replayed

\* Who appends to the log appends to what was not broken.
LEMMA LogGrows ==
  ASSUME IsList(log), \A i \in DOMAIN log : log[i].at \in Int,
         NEW e, log' = Append(log, e), e.at \in Int, ~Broken'
  PROVE  /\ ~Broken /\ Latest' = e /\ log' # <<>>
         /\ log # <<>> /\ Latest.call = "run" => Latest.at <= e.at /\ Latest.at \in Int
<1> DEFINE N == Len(log)
<1>1. /\ N \in Nat /\ DOMAIN log = 1..N /\ Len(log') = N + 1 /\ DOMAIN log' = 1..(N + 1)
      /\ log'[N + 1] = e /\ \A i \in 1..N : log'[i] = log[i]
      /\ log # <<>> => N \in 1..N
  BY ListGrows
<1> HIDE DEF N
<1>2. ~Broken
  <2> SUFFICES ASSUME NEW i \in 1..N, NEW j \in 1..N, i < j, log[i].call = "run",
                      log[j].at < log[i].at
               PROVE  FALSE
    BY <1>1 DEF Broken
  <2>1. i \in DOMAIN log' /\ j \in DOMAIN log' /\ log'[i] = log[i] /\ log'[j] = log[j]
    BY <1>1
  <2> QED
    BY <2>1 DEF Broken
<1>3. Latest' = e /\ log' # <<>>
  BY <1>1 DEF Latest
<1>4. ASSUME log # <<>>, Latest.call = "run" PROVE Latest.at <= e.at /\ Latest.at \in Int
  <2>1. N \in DOMAIN log' /\ N + 1 \in DOMAIN log' /\ log'[N] = Latest /\ N < N + 1
    BY <1>1, <1>4 DEF Latest, N
  <2>2. ~(e.at < Latest.at)
    BY <1>1, <1>4, <2>1 DEF Broken
  <2>3. Latest.at \in Int
    BY <1>1, <1>4 DEF Latest, N
  <2> QED
    BY <2>2, <2>3
<1> QED
  BY <1>2, <1>3, <1>4

\* A statement has the same outcome on both machines, if the schedule did not get
\* ahead of it.
LEMMA SameOutcome ==
  ASSUME TimersForward, NEW m, NEW c, Fit(c), NEW w, w.stamp \in Int, m.output = NULL,
         \/ m = c
         \/ \E A \in Int : A <= w.stamp /\ m = run_schedule(c, A)
  PROVE  engine_eval(c, <<w>>) = eval_statement(Clean(m), w)
<1>1. CASE m = c
  BY <1>1, OneCall
<1>2. ASSUME NEW A \in Int, A <= w.stamp, m = run_schedule(c, A)
      PROVE  engine_eval(c, <<w>>) = eval_statement(Clean(m), w)
  <2>1. Fit(m)
    BY <1>2, ScheduleMade DEF Fit
  <2>2. c.output = NULL
    BY <1>2, ScheduleMade DEF Fit
  <2>3. run_schedule(m, w.stamp) = run_schedule(c, w.stamp)
    BY <1>2, RunsAddUp DEF Fit
  <2>4. run_schedule(Clean(m), w.stamp) = Clean(run_schedule(m, w.stamp))
    BY <2>1, ScheduleMade DEF Fit
  <2>5. run_schedule(Clean(c), w.stamp) = Clean(run_schedule(c, w.stamp))
    BY ScheduleMade DEF Fit
  <2>6. run_schedule(Clean(m), w.stamp) = run_schedule(Clean(c), w.stamp)
    BY <2>3, <2>4, <2>5
  <2>7. engine_eval(c, <<w>>) = eval_statement(Clean(c), w)
    BY <2>2, OneCall
  <2> QED
    BY <2>6, <2>7 DEF eval_statement
<1> QED
  BY <1>1, <1>2

\* A call that ended leaves nothing under way.
LEMMA EndInside ==
  ASSUME IInv, Inside, Step, pc' = "idle", Ended,
         IsList(published)', IsList(log)', UNCHANGED draft,
         \A i \in DOMAIN published' : IsStatement(published'[i]),
         \A i \in DOMAIN log' : log'[i].at \in Int /\ log'[i].call \in {"run", "eval"}
  PROVE  Inside'
<1>1. QueueOK(db'.tasks) /\ vm' = db'
  BY ReturnFits DEF Ended
<1>2. Typed'
  BY <1>1 DEF Inside, Typed
<1>3. Called' /\ Taken' /\ Scheduling' /\ Running'
  BY <1>1 DEF Called, Taken, Scheduling, Running
<1> QED
  BY <1>2, <1>3 DEF Inside

\* A step of a call goes on, or a run of the schedule is over.
LEMMA RunReplayed ==
  ASSUME Inv, Proceed \/ Finished
  PROVE  Inv'
<1>1. Step /\ UNCHANGED audit /\ IInv' /\ pc # "idle"
  BY StepInv, StepGoesOn DEF Proceed, Finished, Inv
<1>2. UNCHANGED <<draft, given, published, log>>
  BY <1>1 DEF audit
<1>3. Broken' <=> Broken
  BY <1>2 DEF Broken
<1>4. Latest' = Latest
  BY <1>2 DEF Latest
<1>5. CASE Proceed
  <2>1. pc' # "idle" /\ UNCHANGED <<db, op>>
    BY <1>1, <1>5, StepGoesOn DEF Proceed
  <2>2. Inside'
    BY <1>1, <2>1, StepInside DEF Inv
  <2>3. Replayed'
    BY <1>1, <1>2, <1>3, <1>4, <2>1 DEF Inv, Replayed
  <2> QED
    BY <1>1, <2>2, <2>3 DEF Inv
<1>6. CASE Finished
  <2>1. pc' = "idle" /\ op = "run" /\ Ended
    BY <1>1, <1>6, StepInside DEF Finished, Inv
  <2>2. Inside'
    <3>1. IsList(published)' /\ IsList(log)'
      BY <1>2 DEF Inv, Inside, Typed
    <3>2. \A i \in DOMAIN published' : IsStatement(published'[i])
      BY <1>2 DEF Inv, Inside, Typed
    <3>3. \A i \in DOMAIN log' : log'[i].at \in Int /\ log'[i].call \in {"run", "eval"}
      BY <1>2 DEF Inv, Inside, Typed
    <3> QED
      BY <1>1, <1>2, <2>1, <3>1, <3>2, <3>3, EndInside DEF Inv
  <2>3. db' = run_schedule(db, Latest.at)
    BY <2>1 DEF Ended
  <2>4. log # <<>> /\ Latest.call = "run"
    BY <1>1, <2>1 DEF Inv, Inside, Called
  <2>5. Replayed'
    BY <1>1, <1>2, <1>3, <1>4, <2>1, <2>3, <2>4 DEF Inv, Replayed
  <2> QED
    BY <1>1, <2>2, <2>5 DEF Inv
<1> QED
  BY <1>5, <1>6

\* An error that is thrown leaves no trace.
LEMMA FailedReplayed ==
  ASSUME Inv, Failed
  PROVE  Inv'
<1>1. /\ Step /\ UNCHANGED <<draft, published, log>> /\ IInv' /\ pc # "idle"
      /\ pc' = "idle" /\ op = "eval" /\ Throws
  BY StepInv, StepGoesOn DEF Failed, Inv
<1>2. Ended
  BY <1>1, StepInside DEF Inv
<1>3. db' = db
  BY <1>1, <1>2 DEF Ended
<1>4. Inside'
  <2>1. IsList(published)' /\ IsList(log)'
    BY <1>1 DEF Inv, Inside, Typed
  <2>2. \A i \in DOMAIN published' : IsStatement(published'[i])
    BY <1>1 DEF Inv, Inside, Typed
  <2>3. \A i \in DOMAIN log' : log'[i].at \in Int /\ log'[i].call \in {"run", "eval"}
    BY <1>1 DEF Inv, Inside, Typed
  <2> QED
    BY <1>1, <1>2, <2>1, <2>2, <2>3, EndInside DEF Inv
<1>5. Replayed'
  BY <1>1, <1>3 DEF Inv, Replayed, Broken, Latest
<1> QED
  BY <1>1, <1>4, <1>5 DEF Inv

\* A statement that was evaluated is published, and its outcome is the one of the
\* client.
LEMMA AnsweredReplayed ==
  ASSUME TimersForward, Inv, Answered
  PROVE  Inv'
<1> DEFINE e == [call |-> "eval", at |-> given.stamp]
           c == EvalEach(published)
<1>1. /\ Step /\ IInv' /\ pc # "idle" /\ pc' = "idle" /\ op = "eval" /\ ~Throws
      /\ published' = Append(published, given) /\ log' = Append(log, e) /\ draft' = draft
  BY StepInv, StepGoesOn DEF Answered, Inv
<1>2. /\ IsList(published) /\ IsList(log) /\ IsStatement(given) /\ db.output = NULL
      /\ \A i \in DOMAIN log : log[i].at \in Int
  BY <1>1 DEF Inv, Inside, Typed, Called
<1>3. Ended
  BY <1>1, StepInside DEF Inv
<1>4. ~Outcome.threw /\ db' = Outcome.m
  BY <1>1, <1>3 DEF Ended
<1>5. e.at \in Int /\ e.call = "eval"
  BY <1>2 DEF IsStatement
<1> HIDE DEF e
<1>6. Inside'
  <2>1. IsList(published)' /\ IsList(log)'
    BY <1>1, <1>2, ListGrows
  <2>2. \A i \in DOMAIN published' : IsStatement(published'[i])
    <3>1. /\ DOMAIN published = 1..Len(published) /\ Len(published) \in Nat
          /\ DOMAIN published' = 1..(Len(published) + 1)
          /\ published'[Len(published) + 1] = given
          /\ \A i \in 1..Len(published) : published'[i] = published[i]
      BY <1>1, <1>2, ListGrows
    <3>2. \A i \in DOMAIN published : IsStatement(published[i])
      BY DEF Inv, Inside, Typed
    <3>3. \A i \in DOMAIN published' : i \in DOMAIN published \/ i = Len(published) + 1
      BY <3>1
    <3> HIDE DEF IsStatement
    <3> QED
      BY <1>2, <3>1, <3>2, <3>3
  <2>3. \A i \in DOMAIN log' : log'[i].at \in Int /\ log'[i].call \in {"run", "eval"}
    <3>1. /\ DOMAIN log = 1..Len(log) /\ Len(log) \in Nat
          /\ DOMAIN log' = 1..(Len(log) + 1)
          /\ log'[Len(log) + 1] = e /\ \A i \in 1..Len(log) : log'[i] = log[i]
      BY <1>1, <1>2, ListGrows
    <3>2. \A i \in DOMAIN log : log[i].at \in Int /\ log[i].call \in {"run", "eval"}
      BY DEF Inv, Inside, Typed
    <3>3. \A i \in DOMAIN log' : i \in DOMAIN log \/ i = Len(log) + 1
      BY <3>1
    <3> QED
      BY <1>5, <3>1, <3>2, <3>3
  <2> QED
    BY <1>1, <1>3, <2>1, <2>2, <2>3, EndInside DEF Inv
<1>7. Replayed'
  <2> SUFFICES ASSUME ~Broken'
               PROVE  /\ EvalEach(published') = Outcome /\ Fit(db') /\ ~Outcome.threw
                      /\ Latest'.call # "run"
    BY <1>1, <1>4 DEF Replayed
  <2>1. /\ ~Broken /\ Latest' = e
        /\ log # <<>> /\ Latest.call = "run" => Latest.at <= given.stamp /\ Latest.at \in Int
    <3>1. e.at = given.stamp
      BY DEF e
    <3> QED
      BY <1>1, <1>2, <1>5, <3>1, LogGrows
  <2>2. /\ ~c.threw /\ Fit(c.m)
        /\ IF log # <<>> /\ Latest.call = "run" THEN db = run_schedule(c.m, Latest.at)
           ELSE db = c.m
    BY <1>1, <2>1 DEF Inv, Replayed
  <2>3. engine_eval(c.m, <<given>>) = Outcome
    <3>1. \/ db = c.m
          \/ \E A \in Int : A <= given.stamp /\ db = run_schedule(c.m, A)
      BY <2>1, <2>2
    <3> HIDE DEF c
    <3> QED
      BY <1>2, <2>2, <3>1, SameOutcome DEF Outcome, IsStatement
  <2>4. EvalEach(published') = engine_eval(c.m, <<given>>)
    <3>1. PICK S : published \in Seq(S)
      BY <1>2 DEF IsList
    <3> DEFINE T == S \cup {given}
    <3>2. published \in Seq(T) /\ given \in T
      BY <3>1
    <3> HIDE DEF T
    <3> QED
      BY <1>1, <2>2, <3>2, OneMoreCall
  <2>5. Fit(db')
    BY <1>1, <1>6 DEF IInv, Inside, Typed, Fit
  <2> QED
    BY <1>4, <1>5, <2>1, <2>3, <2>4, <2>5
<1> QED
  BY <1>1, <1>6, <1>7 DEF Inv

\* A statement is given to the server.
LEMMA SubmitReplayed ==
  ASSUME Inv, NEW w, IsStatement(w), Submit(w)
  PROVE  Inv'
<1>1. /\ pc = "idle" /\ pc' = "next" /\ op' = "eval" /\ db' = db /\ vm' = Clean(db)
      /\ db.output = NULL /\ pend' = <<w>> /\ given' = w
      /\ UNCHANGED <<published, log>> /\ draft' \in {NULL, draft}
  BY DEF Submit, eval_witness, Clean
<1>2. IInv'
  BY SubmitInv DEF Inv
<1>3. vm'.tasks = db.tasks
  BY <1>1, CleanMakes DEF Inv, IInv
<1>4. Typed'
  BY <1>1, <1>3 DEF Inv, Inside, Typed
<1>5. DOMAIN pend' = {1} /\ pend'[1] = w
  BY <1>1
<1>6. Called' /\ Taken' /\ Scheduling' /\ Running'
  BY <1>1, <1>5 DEF Called, Taken, Start, Scheduling, Running
<1>7. Replayed'
  BY <1>1 DEF Inv, Replayed, Broken, Latest
<1> QED
  BY <1>2, <1>4, <1>6, <1>7 DEF Inv, Inside

\* The server runs the schedule on its own.
LEMMA RunScheduleReplayed ==
  ASSUME TimersForward, Inv, NEW stop_at \in StopTimes, RunSchedule(stop_at)
  PROVE  Inv'
<1> DEFINE last == CHOOSE i \in DOMAIN due' : \A j \in DOMAIN due' : j <= i
           e    == [call |-> "run", at |-> ActiveAt + due'[last].ts]
           c    == EvalEach(published)
<1>1. /\ pc = "idle" /\ pc' = "sched" /\ op' = "run" /\ UNCHANGED <<db, vm>>
      /\ db.output = NULL /\ due' = get_tasks(db, stop_at) /\ DOMAIN due' # {}
      /\ log' = Append(log, e) /\ UNCHANGED <<draft, published>>
  BY DEF RunSchedule, eval_schedule
<1>2. IInv'
  BY RunScheduleInv DEF Inv
<1>3. /\ IsList(log) /\ vm = db /\ Fit(db)
      /\ \A i \in DOMAIN log : log[i].at \in Int /\ log[i].call \in {"run", "eval"}
  BY <1>1 DEF Inv, Inside, Typed, Called, IInv, Fit
<1>4. e.at \in Int /\ due' = get_tasks(db, e.at) /\ e.call = "run"
  <2>1. stop_at \in Int
    BY StatementAssumption
  <2>2. ActiveAt + due'[last].ts \in Int /\ due' = get_tasks(db, ActiveAt + due'[last].ts)
    BY <1>1, <1>3, <2>1, LastDue
  <2> QED
    BY <2>2
<1> HIDE DEF last, e
<1>5. /\ Len(log) \in Nat /\ DOMAIN log = 1..Len(log) /\ IsList(log)'
      /\ DOMAIN log' = 1..(Len(log) + 1) /\ Len(log') = Len(log) + 1
      /\ log'[Len(log) + 1] = e /\ \A i \in 1..Len(log) : log'[i] = log[i]
  BY <1>1, <1>3, ListGrows
<1>6. Latest' = e /\ log' # <<>>
  BY <1>5 DEF Latest
<1>7. Typed'
  <2>1. \A i \in DOMAIN log' : log'[i].at \in Int /\ log'[i].call \in {"run", "eval"}
    <3>1. \A i \in DOMAIN log' : i \in DOMAIN log \/ i = Len(log) + 1
      BY <1>5
    <3> QED
      BY <1>3, <1>4, <1>5, <3>1
  <2> QED
    BY <1>1, <1>5, <2>1 DEF Inv, Inside, Typed
<1>8. Called' /\ Taken' /\ Running'
  BY <1>1, <1>4, <1>6 DEF Called, Taken, Running
<1>9. Scheduling'
  <2>1. InSchedule(db, db, e.at, due')
    BY <1>1, <1>3, <1>4, RunStarts
  <2>2. Start' = db /\ Stop' = e.at
    BY <1>1, <1>6 DEF Start, Stop
  <2> QED
    BY <1>1, <1>3, <2>1, <2>2 DEF Scheduling
<1>10. Replayed'
  <2> SUFFICES ASSUME ~Broken'
               PROVE  /\ ~c.threw /\ Fit(c.m)
                      /\ run_schedule(db, e.at) = run_schedule(c.m, e.at)
    BY <1>1, <1>6 DEF Replayed
  <2>1. /\ ~Broken
        /\ log # <<>> /\ Latest.call = "run" => Latest.at <= e.at /\ Latest.at \in Int
    BY <1>1, <1>3, <1>4, LogGrows
  <2>2. /\ ~c.threw /\ Fit(c.m)
        /\ IF log # <<>> /\ Latest.call = "run" THEN db = run_schedule(c.m, Latest.at)
           ELSE db = c.m
    BY <1>1, <2>1 DEF Inv, Replayed
  <2> HIDE DEF c
  <2>3. CASE log # <<>> /\ Latest.call = "run"
    <3>1. run_schedule(run_schedule(c.m, Latest.at), e.at) = run_schedule(c.m, e.at)
      BY <1>4, <2>1, <2>2, <2>3, RunsAddUp DEF Fit
    <3> QED
      BY <2>2, <2>3, <3>1
  <2> QED
    BY <2>2, <2>3
<1> QED
  BY <1>2, <1>7, <1>8, <1>9, <1>10 DEF Inv, Inside

\* What the signers and the contract do leaves the machine alone.
LEMMA AroundReplayed ==
  ASSUME Inv, UNCHANGED <<vars, given, published, log>>,
         draft' # NULL => IsStatement(draft')
  PROVE  Inv'
<1>1. UNCHANGED <<db, vm, pc, op, pend, wit, sig, due, task, pos>>
  BY DEF vars, locals
<1>2. IInv'
  BY <1>1 DEF Inv, IInv, Control, OnStack, Evaluated, InTime, Permits
<1>3. Typed' /\ Called' /\ Taken'
  BY <1>1 DEF Inv, Inside, Typed, Called, Taken, Latest, Outcome, Start
<1>4. Scheduling' /\ Running'
  BY <1>1 DEF Inv, Inside, Scheduling, Running, Latest, Start, Stop, method
<1>5. Replayed'
  BY <1>1 DEF Inv, Replayed, Broken, Latest
<1> QED
  BY <1>2, <1>3, <1>4, <1>5 DEF Inv, Inside

\* Every step of the replay keeps the two machines together.
LEMMA ReplayedStep ==
  ASSUME TimersForward, Inv, [ReplayNext]_<<vars, audit>>
  PROVE  Inv'
<1>1. CASE UNCHANGED <<vars, audit>>
  BY <1>1, AroundReplayed DEF audit, Inv, Inside, Typed
<1>2. ASSUME NEW signer \in Signers, Endorse(signer)
      PROVE  Inv'
  <2>1. draft # NULL /\ draft' = [draft EXCEPT !.sigs = Append(@, signer)]
        /\ UNCHANGED <<vars, given, published, log>>
    BY <1>2 DEF Endorse, endorse_witness
  <2>2. IsStatement(draft)
    BY <2>1 DEF Inv, Inside, Typed
  <2>3. IsStatement(draft')
    <3>1. draft'.stamp = draft.stamp /\ draft'.sigs \in {draft.sigs, Append(draft.sigs, signer)}
      BY <2>1
    <3> QED
      BY <2>2, <3>1, SMTT(30) DEF IsStatement
  <2> QED
    BY <2>1, <2>3, AroundReplayed
<1>3. ASSUME NEW signer \in Signers, NEW t \in Templates, NEW stamp \in Stamps,
             Create(signer, t, stamp)
      PROVE  Inv'
  <2>1. PICK i : /\ draft' = endorse_witness(signer, create_witness(i, t, stamp))
                 /\ UNCHANGED <<vars, given, published, log>>
    BY <1>3 DEF Create
  <2>2. /\ create_witness(i, t, stamp).sigs = <<>>
        /\ create_witness(i, t, stamp).stamp = stamp
        /\ draft' = [create_witness(i, t, stamp) EXCEPT !.sigs = Append(@, signer)]
    BY <2>1 DEF create_witness, endorse_witness
  <2>3. draft'.stamp = stamp /\ draft'.sigs = Append(<<>>, signer)
    BY <2>1 DEF create_witness, endorse_witness
  <2>4. IsStatement(draft')
    BY <2>3, ReplayAssumption DEF IsStatement
  <2> QED
    BY <2>1, <2>4, AroundReplayed
<1>4. CASE Discard \/ close_contract
  <2>1. draft' \in {NULL, draft} /\ UNCHANGED <<vars, given, published, log>>
    BY <1>4 DEF Discard, close_contract
  <2> QED
    BY <2>1, AroundReplayed DEF Inv, Inside, Typed
<1>5. CASE draft # NULL /\ Submit(draft)
  BY <1>5, SubmitReplayed DEF Inv, Inside, Typed
<1>6. CASE published # <<>> /\ Submit(Last(published))
  <2>1. IsList(published) /\ \A i \in DOMAIN published : IsStatement(published[i])
    BY DEF Inv, Inside, Typed
  <2>2. IsStatement(Last(published))
    <3> HIDE DEF IsStatement
    <3> QED
      BY <1>6, <2>1, ListGrows
  <2> QED
    BY <1>6, <2>2, SubmitReplayed
<1>7. CASE \E stop_at \in StopTimes : RunSchedule(stop_at)
  BY <1>7, RunScheduleReplayed
<1>8. CASE Proceed \/ Finished \/ Failed \/ Answered
  BY <1>8, RunReplayed, FailedReplayed, AnsweredReplayed
<1> QED
  BY <1>1, <1>2, <1>3, <1>4, <1>5, <1>6, <1>7, <1>8 DEF ReplayNext

\* The two machines are the same in every reachable state.
THEOREM MachinesReplayed == ASSUME TimersForward PROVE ReplaySpec => []Inv
<1>1. ReplayInit => Inv
  <2> SUFFICES ASSUME ReplayInit PROVE Inv
    OBVIOUS
  <2>1. PICK tasks \in init_tasks : db = init_vm(tasks)
    BY DEF ReplayInit, Init
  <2>2. db = engine_init /\ IsMachine(engine_init) /\ QueueOK(engine_init.tasks)
    BY <2>1, NewMachine
  <2>3. /\ vm = db /\ pc = "idle" /\ pend = <<>> /\ due = <<>>
        /\ draft = NULL /\ published = <<>> /\ log = <<>>
    BY DEF ReplayInit, Init
  <2>4. IInv
    BY <2>2, <2>3 DEF IInv, Control, OnStack, Evaluated
  <2>5. IsList(<<>>) /\ DOMAIN <<>> = {}
    <3>1. <<>> \in Seq({})
      OBVIOUS
    <3> QED
      BY <3>1 DEF IsList
  <2>6. Typed
    BY <2>2, <2>3, <2>5 DEF Typed
  <2>7. Called /\ Taken /\ Scheduling /\ Running
    BY <2>3 DEF Called, Taken, Scheduling, Running
  <2>8. Replayed
    BY <2>2, <2>3, NoCall DEF Replayed, Went, Fit
  <2> QED
    BY <2>4, <2>6, <2>7, <2>8 DEF Inv, Inside
<1> QED
  BY <1>1, ReplayedStep, PTL DEF ReplaySpec

\* As long as the schedule did not get ahead, what the server published is what a
\* client needs to make its machine (validation/contract.ts:157-176).
THEOREM PublishedReplays == ASSUME TimersForward PROVE ReplaySpec => []ExecutionVerifies
<1>1. Inv => ExecutionVerifies
  <2> SUFFICES ASSUME Inv, pc = "idle"
               PROVE  /\ InStep => verify_contract_execution(db, published)
                      /\ verify_contract_execution(db, published) =>
                           EvalEach(published).m.head = db.head
    BY DEF ExecutionVerifies
  <2>1. ASSUME InStep PROVE verify_contract_execution(db, published)
    <3>1. /\ Len(log) \in Nat /\ DOMAIN log = 1..Len(log)
          /\ log # <<>> => Len(log) \in DOMAIN log
          /\ \A i \in DOMAIN log : log[i].at \in Int
      BY ListGrows DEF Inv, Inside, Typed
    <3>2. ~Broken
      BY <2>1, <3>1 DEF InStep, Broken
    <3>3. ~(log # <<>> /\ Latest.call = "run")
      BY <2>1, <3>1 DEF InStep, Latest
    <3>4. ~EvalEach(published).threw /\ db = EvalEach(published).m
      BY <3>2, <3>3 DEF Inv, Replayed
    <3> QED
      BY <3>4 DEF verify_contract_execution, Agree
  <2> QED
    BY <2>1 DEF verify_contract_execution, Agree
<1> QED
  BY <1>1, MachinesReplayed, PTL

-----------------------------------------------------------------------------
(* What the records say of the machine: its commits, the receipt, and the    *)
(* contract.                                                                 *)

\* The chain of commits ends at the time of the last of them, and a statement is
\* committed at its own time (state.ts:32-62).
Chained(m) ==
  /\ IsList(m.head) /\ m.step = Len(m.head)
  /\ m.step > 0 => m.commit_at = m.head[m.step].stamp
  /\ \A i \in 1..m.step : m.head[i].wid # VMID => m.head[i].wid.stamp = m.head[i].stamp

\* The receipt is of the stored machine until the schedule is run again.
Receipted ==
  receipt # NULL =>
    /\ published # <<>> /\ log # <<>>
    /\ Latest.call = "eval" => receipt = create_receipt(db, Last(published))

\* What the contract took over is what the machine says, unless there was a commit
\* since.
TakenOver(m) ==
  contract # NULL =>
    /\ Len(contract.head) \in Nat /\ Len(contract.head) <= Len(m.head)
    /\ Len(contract.head) = Len(m.head) =>
         m.closed /\ contract = [closed_at |-> m.closed_at, head |-> m.head, output |-> m.output]

Recorded == Chained(db) /\ Chained(vm) /\ Receipted /\ TakenOver(db) /\ TakenOver(vm)

\* What the records look at of the machine data.
SameRecord(m, n) ==
  /\ n.head = m.head /\ n.step = m.step /\ n.commit_at = m.commit_at
  /\ n.closed = m.closed /\ n.closed_at = m.closed_at /\ n.output = m.output

\* An input is of a task, or has the time of its statement (schedule.ts:43-60).
Honest(in) == in.wid # VMID => in.wid.stamp = in.stamp

\* A step of a call makes one update or none, or gives the working copy up.
LEMMA StepMakes ==
  ASSUME IInv, Step
  PROVE  /\ db' \in {db, vm'}
         /\ \/ vm' = db
            \/ SameRecord(vm, vm')
            \/ \E in : Honest(in) /\ vm' = update_vm_state(vm, in)
<1> DEFINE Goal == /\ db' \in {db, vm'}
                   /\ \/ vm' = db
                      \/ SameRecord(vm, vm')
                      \/ \E in : Honest(in) /\ vm' = update_vm_state(vm, in)
<1>1. SameRecord(vm, vm)
  BY DEF SameRecord
<1>2. SameRecord(vm, [vm EXCEPT !.error = TRUE]) /\ SameRecord(vm, [vm EXCEPT !.tasks = Shift(vm)])
  BY DEF SameRecord, IInv, IsMachine, MachineFields
<1>3. CASE vm' = vm /\ db' \in {db, vm'}
  BY <1>1, <1>3
<1>4. CASE Throw \/ VMError
  BY <1>2, <1>4 DEF Throw, VMError, Return
<1>5. CASE Return(vm)
  BY <1>1, <1>5 DEF Return
<1>6. CASE TaskPath \/ EndOfPaths \/ TaskClose
  <2>1. db' = db /\ (vm' = vm \/ \E path : vm' = update_vm_state(vm, Input(path)))
    BY <1>6 DEF TaskPath, EndOfPaths, TaskClose
  <2>2. \A path : Honest(Input(path))
    BY DEF Honest, Input
  <2> QED
    BY <1>1, <2>1, <2>2
<1>7. CASE EndOfTask
  BY <1>2, <1>7 DEF EndOfTask
<1>8. CASE record_entry
  <2>1. CASE VMError
    BY <1>4, <2>1
  <2>2. CASE vm' = [vm EXCEPT !.store = @ \cup {Entry(wit, sig)}] /\ db' = db
    <3>1. SameRecord(vm, vm')
      BY <2>2 DEF SameRecord, IInv, IsMachine, MachineFields
    <3> QED
      BY <2>2, <3>1
  <2> QED
    BY <1>8, <2>1, <2>2 DEF record_entry
<1>9. CASE Update
  <2>1. Honest(StatementInput)
    BY DEF Honest, StatementInput
  <2>2. CASE Throw \/ VMError
    BY <1>4, <2>2
  <2>3. CASE vm' = update_vm_state(vm, StatementInput) /\ db' \in {db, vm'}
    BY <2>1, <2>3
  <2>4. \/ Throw \/ VMError
        \/ vm' = update_vm_state(vm, StatementInput) /\ db' \in {db, vm'}
    BY <1>9 DEF Update, Return
  <2> QED
    BY <2>2, <2>3, <2>4
<1> QED
  BY <1>3, <1>4, <1>5, <1>6, <1>7, <1>8, <1>9
     DEF Step, NextStatement, EndOfStack, NextTask, EndOfSchedule, load_program,
         FallsShort, claim, locals

\* An update makes one commit more (state.ts:85-97).
LEMMA CommitRecorded ==
  ASSUME NEW m, IsMachine(m), Chained(m), NEW in, Honest(in)
  PROVE  LET n == update_vm_state(m, in) IN
         Chained(n) /\ Len(n.head) = Len(m.head) + 1 /\ Len(m.head) \in Nat
<1> DEFINE n == update_vm_state(m, in)
           e == Commit(m, in)
<1>1. n.step = m.step + 1 /\ n.commit_at = in.stamp /\ n.head = Append(m.head, e)
  <2>1. IsMachine(m)
    OBVIOUS
  <2> QED
    BY <2>1 DEF update_vm_state, get_commit_hash, IsMachine, MachineFields
<1>2. e.wid = in.wid /\ e.stamp = in.stamp
  BY DEF Commit
<1> HIDE DEF n, e
<1>3. /\ Len(m.head) \in Nat /\ IsList(n.head) /\ Len(n.head) = Len(m.head) + 1
      /\ n.head[Len(m.head) + 1] = e /\ \A i \in 1..Len(m.head) : n.head[i] = m.head[i]
  BY <1>1, ListGrows DEF Chained
<1>4. n.step = Len(n.head) /\ n.step # 0 /\ n.head[n.step] = e
  BY <1>1, <1>3 DEF Chained
<1>5. ASSUME NEW i \in 1..n.step, n.head[i].wid # VMID
      PROVE  n.head[i].wid.stamp = n.head[i].stamp
  <2>1. CASE i = n.step
    BY <1>2, <1>4, <1>5, <2>1 DEF Honest
  <2>2. CASE i # n.step
    <3>1. i \in 1..m.step /\ n.head[i] = m.head[i]
      BY <1>1, <1>3, <2>2 DEF Chained
    <3> QED
      BY <1>5, <3>1 DEF Chained
  <2> QED
    BY <2>1, <2>2
<1>6. Chained(n)
  BY <1>1, <1>2, <1>3, <1>4, <1>5 DEF Chained
<1> QED
  BY <1>3, <1>6 DEF n

\* A step of a call keeps the records of the machine.
LEMMA StepRecorded ==
  ASSUME IInv, Step, Chained(db), Chained(vm), TakenOver(db), TakenOver(vm),
         UNCHANGED contract
  PROVE  Chained(db') /\ Chained(vm') /\ TakenOver(db)' /\ TakenOver(vm)'
<1> DEFINE Kept(m) == /\ Chained(m)
                      /\ contract # NULL =>
                           /\ Len(contract.head) \in Nat /\ Len(contract.head) <= Len(m.head)
                           /\ Len(contract.head) = Len(m.head) =>
                                /\ m.closed
                                /\ contract = [closed_at |-> m.closed_at, head |-> m.head,
                                               output |-> m.output]
<1>1. Kept(db) /\ Kept(vm)
  BY DEF TakenOver
<1>2. ASSUME SameRecord(vm, vm') PROVE Kept(vm')
  BY <1>1, <1>2 DEF SameRecord, Chained
<1>3. ASSUME NEW in, Honest(in), vm' = update_vm_state(vm, in) PROVE Kept(vm')
  <2>1. Chained(vm') /\ Len(vm'.head) = Len(vm.head) + 1 /\ Len(vm.head) \in Nat
    BY <1>3, CommitRecorded DEF IInv
  <2>2. contract # NULL => Len(contract.head) \in Nat /\ Len(contract.head) <= Len(vm.head)
    BY <1>1
  <2> QED
    BY <2>1, <2>2
<1>4. Kept(vm')
  <2> HIDE DEF Kept
  <2> QED
    BY <1>1, <1>2, <1>3, StepMakes
<1>5. Kept(db')
  <2> HIDE DEF Kept
  <2> QED
    BY <1>1, <1>4, StepMakes
<1> QED
  BY <1>4, <1>5 DEF TakenOver

-----------------------------------------------------------------------------
(* The records, call by call.                                                *)

\* A receipt stays what it is while nothing but runs of the schedule change the
\* machine.
LEMMA ReceiptKept ==
  ASSUME Receipted, UNCHANGED <<published, receipt>>, IsList(log),
         \/ log' = log /\ (db' = db \/ Latest.call # "eval")
         \/ \E e : log' = Append(log, e) /\ e.call = "run"
  PROVE  Receipted'
<1>1. CASE log' = log /\ (db' = db \/ Latest.call # "eval")
  BY <1>1 DEF Receipted, Latest, create_receipt
<1>2. ASSUME NEW e, log' = Append(log, e), e.call = "run" PROVE Receipted'
  <2>1. Len(log) \in Nat /\ Len(log') = Len(log) + 1 /\ log'[Len(log) + 1] = e
    BY <1>2, ListGrows
  <2>2. Latest' = e /\ log' # <<>>
    BY <2>1 DEF Latest
  <2> QED
    BY <1>2, <2>2 DEF Receipted
<1> QED
  BY <1>1, <1>2

\* An answer is the receipt of what the machine has become (data.ts:53-68).
LEMMA AnswerReceipted ==
  ASSUME IsList(log), IsList(published), Answered
  PROVE  Receipted'
<1> DEFINE e == [call |-> "eval", at |-> given.stamp]
<1>1. /\ published' = Append(published, given) /\ log' = Append(log, e)
      /\ receipt' = create_receipt(db', given)
  BY DEF Answered
<1> HIDE DEF e
<1>2. Len(log) \in Nat /\ Len(log') = Len(log) + 1
  BY <1>1, ListGrows
<1>3. /\ Len(published) \in Nat /\ Len(published') = Len(published) + 1
      /\ published'[Len(published) + 1] = given
  BY <1>1, ListGrows
<1>4. published' # <<>> /\ Last(published') = given /\ log' # <<>>
  BY <1>2, <1>3 DEF Last
<1> QED
  BY <1>1, <1>4 DEF Receipted

\* Every step of the replay keeps the records.
LEMMA RecordedStep ==
  ASSUME Inv, Recorded, [ReplayNext]_<<vars, audit>>
  PROVE  Recorded'
<1>1. IsList(log) /\ IsList(published) /\ (pc = "idle" => vm = db)
  BY DEF Inv, Inside, Typed, Called
<1>2. ASSUME Step, UNCHANGED contract
      PROVE  Chained(db') /\ Chained(vm') /\ TakenOver(db)' /\ TakenOver(vm)'
  BY <1>2, StepRecorded DEF Inv, Recorded
<1>3. ASSUME UNCHANGED <<db, contract>>, vm' \in {vm, Clean(db)}
      PROVE  Chained(db') /\ Chained(vm') /\ TakenOver(db)' /\ TakenOver(vm)'
  <2>1. IsMachine(db)
    BY DEF Inv, IInv
  <2>2. SameRecord(db, Clean(db))
    BY <2>1 DEF Clean, SameRecord, IsMachine, MachineFields
  <2>3. CASE vm' = vm
    BY <1>3, <2>3 DEF Recorded, TakenOver
  <2>4. CASE vm' = Clean(db)
    <3>1. SameRecord(db, vm')
      BY <2>2, <2>4
    <3> QED
      BY <1>3, <3>1 DEF Recorded, TakenOver, Chained, SameRecord
  <2> QED
    BY <1>3, <2>3, <2>4
<1>4. CASE UNCHANGED <<vars, published, log, receipt, contract>>
  <2>1. UNCHANGED <<db, vm, published, log, receipt, contract>>
    BY <1>4 DEF vars
  <2> QED
    BY <1>1, <1>3, <2>1, ReceiptKept DEF Recorded
<1>5. CASE Proceed \/ Finished
  <2>1. Step /\ UNCHANGED <<published, log, receipt, contract>>
    BY <1>5 DEF Proceed, Finished, audit
  <2>2. CASE Proceed
    BY <1>1, <1>2, <2>1, <2>2, StepGoesOn, ReceiptKept DEF Proceed, Recorded
  <2>3. CASE Finished
    <3>1. Latest.call = "run"
      BY <2>1, <2>3, StepGoesOn DEF Finished, Inv, Inside, Called
    <3>2. Receipted'
      BY <1>1, <2>1, <3>1, ReceiptKept DEF Recorded
    <3> QED
      BY <1>2, <2>1, <3>2 DEF Recorded
  <2> QED
    BY <1>5, <2>2, <2>3
<1>6. CASE Failed
  <2>1. Step /\ pc' = "idle" /\ op = "eval" /\ Throws
        /\ UNCHANGED <<published, log, receipt, contract>>
    BY <1>6 DEF Failed
  <2>2. db' = db
    BY <2>1, StepInside DEF Inv, Ended
  <2>3. Receipted'
    BY <1>1, <2>1, <2>2, ReceiptKept DEF Recorded
  <2> QED
    BY <1>2, <2>1, <2>3 DEF Recorded
<1>7. CASE Answered
  BY <1>1, <1>2, <1>7, AnswerReceipted DEF Answered, Recorded
<1>8. CASE \E w : Submit(w)
  <2>1. vm' = Clean(db) /\ UNCHANGED <<db, published, log, receipt, contract>>
    BY <1>8 DEF Submit, eval_witness, Clean
  <2> QED
    BY <1>1, <1>3, <2>1, ReceiptKept DEF Recorded
<1>9. CASE \E stop_at : RunSchedule(stop_at)
  <2>1. UNCHANGED <<db, vm, published, receipt, contract>>
    BY <1>9 DEF RunSchedule, eval_schedule
  <2>2. \E e : log' = Append(log, e) /\ e.call = "run"
    <3>1. ASSUME NEW at PROVE [call |-> "run", at |-> at].call = "run"
      OBVIOUS
    <3> QED
      BY <1>9, <3>1, Zenon DEF RunSchedule
  <2>3. Receipted'
    BY <1>1, <2>1, <2>2, ReceiptKept DEF Recorded
  <2> QED
    BY <1>3, <2>1, <2>3 DEF Recorded
<1>10. CASE close_contract
  <2>1. /\ vm = db /\ db.closed /\ UNCHANGED <<db, vm, published, log, receipt>>
        /\ contract' = [closed_at |-> db.closed_at, head |-> db.head, output |-> db.output]
    BY <1>1, <1>10 DEF close_contract, vars
  <2>2. contract'.head = db.head
    BY <2>1
  <2>3. Len(db.head) \in Nat
    BY ListGrows DEF Recorded, Chained
  <2>4. TakenOver(db)' /\ TakenOver(vm)'
    BY <2>1, <2>2, <2>3 DEF TakenOver
  <2>5. Receipted'
    BY <1>1, <2>1, ReceiptKept DEF Recorded
  <2>6. Chained(db') /\ Chained(vm')
    BY <2>1 DEF Recorded
  <2> QED
    BY <2>4, <2>5, <2>6 DEF Recorded
<1>11. CASE \/ Discard \/ \E signer \in Signers :
              Endorse(signer) \/ \E t \in Templates, stamp \in Stamps : Create(signer, t, stamp)
  <2>1. UNCHANGED <<vars, published, log, receipt, contract>>
    BY <1>11 DEF Discard, Endorse, Create
  <2> QED
    BY <1>4, <2>1
<1>12. CASE UNCHANGED <<vars, audit>>
  BY <1>4, <1>12 DEF audit
<1> QED
  BY <1>5, <1>6, <1>7, <1>8, <1>9, <1>10, <1>11, <1>12 DEF ReplayNext

\* The records hold in every reachable state.
THEOREM RecordsKept == ASSUME TimersForward PROVE ReplaySpec => []Recorded
<1>1. ReplayInit => Recorded
  <2> SUFFICES ASSUME ReplayInit PROVE Recorded
    OBVIOUS
  <2>1. PICK tasks \in init_tasks : db = init_vm(tasks)
    BY DEF ReplayInit, Init
  <2>2. /\ db.head = <<>> /\ db.step = 0
        /\ vm = db /\ receipt = NULL /\ contract = NULL
    BY <2>1 DEF ReplayInit, Init, init_vm
  <2>3. IsList(<<>>) /\ Len(<<>>) = 0
    <3>1. <<>> \in Seq({})
      OBVIOUS
    <3> QED
      BY <3>1 DEF IsList
  <2> QED
    BY <2>2, <2>3 DEF Recorded, Chained, Receipted, TakenOver
<1>2. Inv /\ Recorded /\ [ReplayNext]_<<vars, audit>> => Recorded'
  BY RecordedStep
<1> QED
  BY <1>1, <1>2, MachinesReplayed, PTL DEF ReplaySpec

\* No statement has the id of the machine, which stands for the tasks: both are
\* hashes, of different things (schedule.ts:44, witness/util.ts:12-18).
IdsApart == \A w : get_witness_id(w) # VMID

\* A receipt verifies on the machine of the client if its statement took effect
\* (witness/data.ts:53-68, validation/witness.ts:80-104).
THEOREM ReceiptsTell ==
  ASSUME TimersForward, IdsApart
  PROVE  ReplaySpec => []ReceiptTells
<1>1. Inv /\ Recorded => ReceiptTells
  <2> SUFFICES ASSUME Inv, Recorded, pc = "idle", InStep, receipt # NULL
               PROVE  LET ws == published
                          m  == EvalEach(ws).m
                          committed == m.step > 0 /\ Last(m.head).wid = get_witness_id(Last(ws))
                      IN committed => verify_witness_receipt(receipt, Last(ws), m)
    BY DEF ReceiptTells
  <2>1. /\ Len(log) \in Nat /\ DOMAIN log = 1..Len(log)
        /\ log # <<>> => Len(log) \in DOMAIN log
        /\ \A i \in DOMAIN log : log[i].at \in Int /\ log[i].call \in {"run", "eval"}
    BY ListGrows DEF Inv, Inside, Typed
  <2>2. ~Broken
    BY <2>1 DEF InStep, Broken
  <2>3. log # <<>> /\ Latest.call = "eval"
    BY <2>1 DEF InStep, Latest, Recorded, Receipted
  <2>4. EvalEach(published).m = db
    BY <2>2, <2>3 DEF Inv, Replayed
  <2>5. receipt = create_receipt(db, Last(published))
    BY <2>3 DEF Recorded, Receipted
  <2> DEFINE w == Last(published)
  <2>6. /\ receipt.wid = get_witness_id(w) /\ receipt.wid.stamp = w.stamp
        /\ receipt.head = db.head /\ receipt.output = db.output /\ receipt.step = db.step
    BY <2>5 DEF create_receipt, get_witness_id
  <2> HIDE DEF w
  <2>7. /\ db.step = Len(db.head) /\ db.step \in Nat /\ DOMAIN db.head = 1..db.step
        /\ db.step > 0 => Last(db.head) = db.head[db.step]
    BY ListGrows DEF Recorded, Chained, Last
  <2>8. ASSUME db.step > 0, Last(db.head).wid = get_witness_id(w)
        PROVE  verify_witness_receipt(receipt, w, db)
    <3>1. db.head[db.step].wid = get_witness_id(w) /\ get_witness_id(w) # VMID
      BY <2>7, <2>8 DEF IdsApart
    <3>2. db.head[db.step].wid.stamp = db.head[db.step].stamp /\ db.commit_at = db.head[db.step].stamp
      BY <2>7, <2>8, <3>1 DEF Recorded, Chained
    <3> QED
      BY <2>6, <3>1, <3>2 DEF verify_witness_receipt
  <2> QED
    BY <2>4, <2>8 DEF w
<1> QED
  BY <1>1, MachinesReplayed, RecordsKept, PTL

-----------------------------------------------------------------------------
(* One call with all statements, and one call for each.                      *)

\* A machine with a result is closed (state.ts:45-60).
Sane(m) ==
  /\ Fit(m) /\ m.error \in BOOLEAN /\ m.closed \in BOOLEAN
  /\ m.output # NULL => m.closed

\* An update keeps that (state.ts:32-62).
LEMMA SaneUpdate ==
  ASSUME NEW m, Sane(m), NEW in
  PROVE  Sane(update_vm_state(m, in)) /\ Sane(Try(m, in))
<1> DEFINE n == update_vm_state(m, in)
           status == IF in.action = "close" THEN "closed"
                     ELSE update_path_vm_status(m.status, PathResult(in.action))
<1>1. /\ IsMachine(n) /\ n.tasks = m.tasks /\ n.error = m.error
      /\ n.closed = (m.closed \/ Ends(status))
      /\ n.output = IF Ends(status) THEN in.path ELSE m.output
  <2>1. IsMachine(m)
    BY DEF Sane, Fit
  <2> QED
    BY <2>1, UpdateMakes
<1> HIDE DEF n, status
<1>2. Sane(n)
  BY <1>1 DEF Sane, Fit
<1> QED
  BY <1>2 DEF n, Try

\* So does a task (schedule.ts:35-68).
LEMMA SaneTask ==
  ASSUME NEW m, Sane(m), NEW t \in Tasks
  PROVE  Sane(run_task(m, t))
<1>1. ASSUME NEW n, Sane(n), NEW action PROVE Sane(run_paths(n, t, action))
  <2> DEFINE N == Len(PathsOf(t))
             after == OverPaths(n, t, action)
             Good == {k \in 0..N : Sane(after[k])}
  <2>1. N \in Nat
    BY TaskLists
  <2>2. /\ after[0] = n
        /\ \A k \in 1..N : after[k] = Try(after[k - 1], TaskInput(t, action, PathsOf(t)[k]))
    BY <2>1, OverPathsDef DEF PathsOf
  <2> HIDE DEF N, after
  <2>3. 0 \in Good
    BY <1>1, <2>1, <2>2
  <2>4. ASSUME NEW k \in 1..N, k - 1 \in Good PROVE k \in Good
    BY <2>2, <2>4, SaneUpdate
  <2> HIDE DEF Good
  <2>5. 0..N \subseteq Good /\ N \in 0..N
    BY <2>1, <2>3, <2>4, Along
  <2>6. run_paths(n, t, action) = after[N]
    BY DEF run_paths, PathsOf, N, after
  <2> QED
    BY <2>5, <2>6 DEF Good
<1> DEFINE N == Len(ActionsOf(t))
           after == OverActions(m, t)
           Good == {k \in 0..N : Sane(after[k])}
<1>2. N \in Nat
  BY TaskLists
<1>3. /\ after[0] = m
      /\ \A k \in 1..N : after[k] =
           IF ActionsOf(t)[k] \in PATH_ACTIONS THEN run_paths(after[k - 1], t, ActionsOf(t)[k])
           ELSE Try(after[k - 1], TaskInput(t, ActionsOf(t)[k], NULL))
  BY <1>2, OverActionsDef DEF ActionsOf
<1> HIDE DEF N, after
<1>4. 0 \in Good
  BY <1>2, <1>3
<1>5. ASSUME NEW k \in 1..N, k - 1 \in Good PROVE k \in Good
  BY <1>1, <1>3, <1>5, SaneUpdate
<1> HIDE DEF Good
<1>6. 0..N \subseteq Good /\ N \in 0..N
  BY <1>2, <1>4, <1>5, Along
<1>7. run_task(m, t) = after[N]
  BY DEF run_task, ActionsOf, N, after
<1> QED
  BY <1>6, <1>7 DEF Good

\* And a run of the schedule (schedule.ts:15-30).
LEMMA SaneSchedule ==
  ASSUME NEW m, Sane(m), NEW stop_at
  PROVE  Sane(run_schedule(m, stop_at))
<1>1. ASSUME NEW n, Sane(n) PROVE Sane(FinishTask(n))
  <2>1. IsMachine(n) /\ QueueOK(n.tasks)
    BY <1>1 DEF Sane, Fit
  <2>2. IsMachine(FinishTask(n)) /\ QueueOK(FinishTask(n).tasks)
        /\ FinishTask(n).output = n.output
    BY <2>1, QueueShifts
  <2>3. FinishTask(n).error = n.error /\ FinishTask(n).closed = n.closed
    BY <2>1 DEF FinishTask, IsMachine, MachineFields
  <2> QED
    BY <1>1, <2>2, <2>3 DEF Sane, Fit
<1> DEFINE N == Len(m.tasks)
           after == OverTasks(m, stop_at)
           Good == {k \in 0..N : Sane(after[k])}
<1>2. N \in Nat /\ \A k \in 1..N : m.tasks[k] \in Tasks
  BY DEF Sane, Fit, QueueOK
<1>3. /\ after[0] = m
      /\ \A k \in 1..N : after[k] =
           IF after[k - 1].output # NULL \/ ~InWindow(m.tasks[k], stop_at) THEN after[k - 1]
           ELSE FinishTask(run_task(after[k - 1], m.tasks[k]))
  BY <1>2, OverTasksDef
<1> HIDE DEF N, after
<1>4. 0 \in Good
  BY <1>2, <1>3
<1>5. ASSUME NEW k \in 1..N, k - 1 \in Good PROVE k \in Good
  <2>1. Sane(after[k - 1])
    BY <1>5
  <2>2. Sane(FinishTask(run_task(after[k - 1], m.tasks[k])))
    BY <1>1, <1>2, <2>1, SaneTask
  <2> HIDE DEF Sane
  <2> QED
    BY <1>3, <2>1, <2>2
<1> HIDE DEF Good
<1>6. 0..N \subseteq Good /\ N \in 0..N
  BY <1>2, <1>4, <1>5, Along
<1>7. run_schedule(m, stop_at) = after[N]
  BY DEF run_schedule, N, after
<1> QED
  BY <1>6, <1>7 DEF Good

\* The result of a call ends it for a reason (main.ts:56-77).
Told(r) ==
  /\ Sane(r.m) /\ r.threw \in BOOLEAN
  /\ r.end => r.m.closed \/ r.m.error \/ r.threw

\* So does the evaluation of a statement.
LEMMA SaneStatement ==
  ASSUME NEW m, Sane(m), NEW w, Len(w.sigs) \in Nat
  PROVE  Told(eval_statement(m, w))
<1>1. ASSUME NEW n, Sane(n) PROVE Told(Went(n)) /\ Told(Refused(n)) /\ Told(Threw(n))
  <2> DEFINE u == [n EXCEPT !.error = TRUE]
  <2>1. Sane(u) /\ u.error = TRUE
    BY <1>1 DEF Sane, Fit, IsMachine, MachineFields
  <2> HIDE DEF u
  <2>2. Told(Refused(n))
    <3>1. Refused(n).m = u /\ Refused(n).threw = FALSE
      BY DEF Refused, u
    <3> QED
      BY <2>1, <3>1 DEF Told
  <2>3. Told(Went(n)) /\ Told(Threw(n))
    BY <1>1 DEF Told, Went, Threw
  <2> QED
    BY <2>2, <2>3
<1> DEFINE n == run_schedule(m, w.stamp)
           r == exec_method(n, w)
<1>2. Sane(n)
  BY SaneSchedule
<1> HIDE DEF n
<1>3. Sane(r.m)
  <2>1. ASSUME NEW o, Sane(o), NEW k PROVE Sane(Vote(o, w, k).m)
    <3> DEFINE u == [o EXCEPT !.store = @ \cup {Entry(w, k)}]
    <3>1. Sane(u)
      BY <2>1 DEF Sane, Fit, IsMachine, MachineFields
    <3> HIDE DEF u, Sane
    <3>2. Vote(o, w, k).m \in {o, u}
      BY DEF Vote, u
    <3> QED
      BY <2>1, <3>1, <3>2
  <2> DEFINE N == Len(w.sigs)
             after == OverSigs(n, w)
             Good == {k \in 0..N : Sane(after[k].m)}
  <2>2. /\ after[0] = [m |-> n, st |-> "short"]
        /\ \A k \in 1..N : after[k] = IF after[k - 1].st # "short" THEN after[k - 1]
                                      ELSE Vote(after[k - 1].m, w, k)
    BY OverSigsDef
  <2> HIDE DEF after
  <2>3. 0 \in Good
    BY <1>2, <2>2
  <2>4. ASSUME NEW k \in 1..N, k - 1 \in Good PROVE k \in Good
    BY <2>1, <2>2, <2>4
  <2>5. N \in Nat
    OBVIOUS
  <2> HIDE DEF Good, N
  <2>6. 0..N \subseteq Good /\ N \in 0..N
    BY <2>3, <2>4, <2>5, Along
  <2>7. Sane(after[N].m)
    BY <2>6 DEF Good
  <2> QED
    BY <1>2, <2>7 DEF exec_method, after, N
<1> HIDE DEF r
<1>4. \A in : Sane(update_vm_state(r.m, in))
  BY <1>3, SaneUpdate
<1>5. Told(run_program(n, w))
  <2> DEFINE in == [action |-> w.action, path |-> w.path, stamp |-> w.stamp,
                    wid |-> get_witness_id(w)]
  <2>1. run_program(n, w) \in {Threw(n), Refused(r.m), Went(r.m), Went(update_vm_state(r.m, in))}
    BY DEF run_program, r
  <2> HIDE DEF in
  <2> QED
    BY <1>1, <1>2, <1>3, <1>4, <2>1
<1>6. Told(Went(n))
  BY <1>1, <1>2
<1> QED
  BY <1>5, <1>6 DEF eval_statement, n

\* A new machine is as sane as any (vm.ts:16-43).
LEMMA SaneAtFirst ==
  ASSUME init_tasks # {}
  PROVE  /\ Sane(engine_init) /\ engine_init.output = NULL
         /\ engine_init.closed = FALSE /\ Clean(engine_init) = engine_init
<1>1. PICK tasks \in init_tasks : TRUE
  OBVIOUS
<1>2. engine_init = init_vm(tasks) /\ IsMachine(engine_init) /\ QueueOK(engine_init.tasks)
  BY NewMachine
<1>3. /\ engine_init.output = NULL /\ engine_init.closed = FALSE /\ engine_init.error = FALSE
  BY <1>2 DEF init_vm
<1>4. Clean(engine_init) = engine_init
  BY <1>2, <1>3 DEF Clean, IsMachine, MachineFields
<1> QED
  BY <1>2, <1>3, <1>4 DEF Sane, Fit

\* Of two statements one is the earlier (base.ts:37).
LEMMA OneEarlier ==
  ASSUME NEW ws, NEW i \in Int, NEW j \in Int, ws[i].stamp \in Int, ws[j].stamp \in Int,
         Earlier(ws, i, j)
  PROVE  ~Earlier(ws, j, i)
BY DEF Earlier

\* Statements are sorted in one way (base.ts:37).
LEMMA OneSort ==
  ASSUME NEW n \in Nat, NEW ws, \A i \in 1..n : ws[i].stamp \in Int,
         NEW q \in [1..n -> 1..n], NEW r \in [1..n -> 1..n],
         \A i, j \in 1..n : i < j => Earlier(ws, q[i], q[j]) /\ Earlier(ws, r[i], r[j])
  PROVE  q = r
<1> DEFINE Before == {p \in (1..n) \X (1..n) : Earlier(ws, p[1], p[2])}
<1>1. \A i, j \in 1..n : <<i, j>> \in Before => <<j, i>> \notin Before
  <2>1. ASSUME NEW i \in 1..n, NEW j \in 1..n, Earlier(ws, i, j) PROVE ~Earlier(ws, j, i)
    <3>1. i \in Int /\ j \in Int
      OBVIOUS
    <3>2. ws[i].stamp \in Int
      OBVIOUS
    <3>3. ws[j].stamp \in Int
      OBVIOUS
    <3> QED
      BY <2>1, <3>1, <3>2, <3>3, OneEarlier
  <2> QED
    BY <2>1
<1>2. \A i, j \in 1..n : i < j => <<q[i], q[j]>> \in Before /\ <<r[i], r[j]>> \in Before
  OBVIOUS
<1>3. n \in Nat /\ q \in [1..n -> 1..n] /\ r \in [1..n -> 1..n]
  OBVIOUS
<1> HIDE DEF Before
<1> QED
  BY <1>1, <1>2, <1>3, OneOrder, ZenonT(120)

\* Statements that come in order stay in order (base.ts:33-38).
LEMMA InOrder ==
  ASSUME NEW n \in Nat, NEW ws, DOMAIN ws = 1..n, \A i \in 1..n : ws[i].stamp \in Int,
         \A k \in 1..(n - 1) : ws[k].stamp <= ws[k + 1].stamp,
         ws = [k \in 1..n |-> ws[k]]
  PROVE  get_statements(ws) = ws
<1> DEFINE Sorts(q) == \A i, j \in 1..n : i < j => Earlier(ws, q[i], q[j])
           order == CHOOSE q \in [1..n -> 1..n] : Sorts(q)
           same == [i \in 1..n |-> i]
<1>1. \A i, j \in 1..n : i < j => ws[i].stamp <= ws[j].stamp
  <2> DEFINE Good == {j \in 0..n : \A i \in 1..n : i <= j => ws[i].stamp <= ws[j].stamp}
  <2>1. 0 \in Good
    OBVIOUS
  <2>2. ASSUME NEW k \in 1..n, k - 1 \in Good PROVE k \in Good
    <3> SUFFICES ASSUME NEW i \in 1..n, i <= k PROVE ws[i].stamp <= ws[k].stamp
      OBVIOUS
    <3>1. CASE i = k
      BY <3>1
    <3>2. CASE i < k
      <4>1. i <= k - 1 /\ k - 1 \in 1..(n - 1) /\ (k - 1) + 1 = k /\ k - 1 \in 1..n
        BY <3>2
      <4>2. ws[i].stamp <= ws[k - 1].stamp
        BY <2>2, <4>1
      <4>3. ws[k - 1].stamp <= ws[k].stamp
        BY <4>1
      <4> QED
        BY <4>1, <4>2, <4>3
    <3> QED
      BY <3>1, <3>2
  <2> HIDE DEF Good
  <2>3. 0..n \subseteq Good
    BY <2>1, <2>2, Along
  <2> QED
    BY <2>3 DEF Good
<1>2. same \in [1..n -> 1..n] /\ Sorts(same)
  <2>1. \A i, j \in 1..n : i < j => Earlier(ws, i, j)
    BY <1>1 DEF Earlier
  <2> QED
    BY <2>1
<1>3. order \in [1..n -> 1..n] /\ Sorts(order)
  <2> HIDE DEF Sorts
  <2> QED
    BY <1>2
<1>4. \A i, j \in 1..n : i < j => Earlier(ws, same[i], same[j]) /\ Earlier(ws, order[i], order[j])
  <2> HIDE DEF same, order
  <2> QED
    BY <1>2, <1>3
<1> HIDE DEF same, order
<1>5. order = same
  BY <1>2, <1>3, <1>4, OneSort
<1>6. get_statements(ws) = [k \in 1..n |-> ws[order[k]]]
  BY DEF get_statements, order
<1>7. [k \in 1..n |-> ws[order[k]]] = [k \in 1..n |-> ws[k]]
  BY <1>5 DEF same
<1> QED
  BY <1>6, <1>7

\* The calls of a client, one by one.
LEMMA CallsTold ==
  ASSUME init_tasks # {}, NEW ws, NEW n \in Nat, Len(ws) = n, \A i \in 1..n : Len(ws[i].sigs) \in Nat
  PROVE  /\ \A k \in 0..n : Told(OverCalls(ws)[k])
         /\ \A k \in 0..n : OverCalls(ws)[k].threw => OverCalls(ws)[n] = OverCalls(ws)[k]
<1> DEFINE g == OverCalls(ws)
           Good == {k \in 0..n : Told(g[k])}
           Halt == {k \in 0..n : g[k].threw}
<1>1. /\ g[0] = Went(engine_init)
      /\ \A k \in 1..n : g[k] = IF g[k - 1].threw THEN g[k - 1]
                                ELSE engine_eval(g[k - 1].m, <<ws[k]>>)
  BY OverCallsDef
<1> HIDE DEF g
<1>2. 0 \in Good
  <2>1. Told(Went(engine_init))
    BY SaneAtFirst DEF Told, Went
  <2> QED
    BY <1>1, <2>1
<1>3. ASSUME NEW k \in 1..n, k - 1 \in Good PROVE k \in Good
  <2> DEFINE m == g[k - 1].m
  <2>1. Told(g[k - 1]) /\ Sane(m)
    BY <1>3 DEF Told
  <2> HIDE DEF m
  <2>2. CASE m.output = NULL
    <3>1. engine_eval(m, <<ws[k]>>) = eval_statement(Clean(m), ws[k])
      BY <2>2, OneCall
    <3>2. Sane(Clean(m))
      BY <2>1, CleanMakes DEF Sane, Fit
    <3>3. Told(engine_eval(m, <<ws[k]>>))
      BY <3>1, <3>2, SaneStatement
    <3> QED
      BY <1>1, <2>1, <3>3 DEF m
  <2>3. CASE m.output # NULL
    <3>1. engine_eval(m, <<ws[k]>>) = Went(m)
      BY <2>3 DEF engine_eval
    <3>2. Told(Went(m))
      BY <2>1 DEF Told, Went
    <3> QED
      BY <1>1, <2>1, <3>1, <3>2 DEF m
  <2> QED
    BY <2>2, <2>3
<1>4. 0..n \subseteq Good
  <2> HIDE DEF Good
  <2> QED
    BY <1>2, <1>3, Along
<1>5. ASSUME NEW k \in 0..n, g[k].threw PROVE g[n] = g[k]
  <2>1. ASSUME NEW i \in 1..n, i - 1 \in Halt PROVE i \in Halt /\ g[i] = g[i - 1]
    <3>1. i - 1 \in 0..n /\ i \in 0..n /\ g[i - 1].threw
      BY <2>1
    <3> QED
      BY <1>1, <3>1
  <2>2. k \in Halt /\ n \in k..n
    BY <1>5
  <2> HIDE DEF Halt
  <2> QED
    BY <2>1, <2>2, Halts
<1> QED
  BY <1>4, <1>5 DEF g

\* If no statement but the last was refused or closed the machine, and none has
\* thrown, one call with all of them does what one call for each does
\* (main.ts:42-78, validation/contract.ts:163-165, 230-263).
LEMMA OneCallForAll ==
  ASSUME init_tasks # {}, NEW S, NEW ws \in Seq(S), \A i \in DOMAIN ws : Len(ws[i].sigs) \in Nat,
         ~EvalEach(ws).threw,
         \A k \in 1..(Len(ws) - 1) :
            ~EvalEach(SubSeq(ws, 1, k)).m.error /\ ~EvalEach(SubSeq(ws, 1, k)).m.closed
  PROVE  OverStack(engine_init, ws)[Len(ws)] = EvalEach(ws)
<1> DEFINE n == Len(ws)
           f == OverStack(engine_init, ws)
           g == OverCalls(ws)
           Good == {k \in 0..n : f[k] = g[k]}
<1>1. n \in Nat /\ DOMAIN ws = 1..n
  OBVIOUS
<1>2. /\ g[0] = Went(engine_init)
      /\ \A k \in 1..n : g[k] = IF g[k - 1].threw THEN g[k - 1]
                                ELSE engine_eval(g[k - 1].m, <<ws[k]>>)
  BY OverCallsDef
<1>3. /\ f[0] = [m |-> Clean(engine_init), end |-> FALSE, threw |-> FALSE]
      /\ \A k \in 1..n : f[k] = IF f[k - 1].end THEN f[k - 1]
                                ELSE eval_statement(f[k - 1].m, ws[k])
  BY OverStackDef DEF Clean
<1>4. /\ \A k \in 0..n : Told(g[k])
      /\ \A k \in 0..n : g[k].threw => g[n] = g[k]
  BY <1>1, CallsTold
<1>5. g[n] = EvalEach(ws)
  BY DEF EvalEach
<1>6. ASSUME NEW k \in 1..(n - 1) PROVE ~g[k].m.error /\ ~g[k].m.closed
  <2> DEFINE vs == SubSeq(ws, 1, k)
  <2>1. Len(vs) = k /\ \A i \in 1..k : vs[i] = ws[i]
    BY <1>1
  <2>2. ~EvalEach(vs).m.error /\ ~EvalEach(vs).m.closed
    OBVIOUS
  <2> HIDE DEF vs
  <2>3. EvalEach(vs) = g[k]
    BY <1>1, <2>1, CallsOfPrefix, SMTT(30)
  <2> QED
    BY <2>2, <2>3
<1> HIDE DEF n, f, g
<1>7. \A k \in 0..n : ~g[k].threw
  BY <1>4, <1>5
<1>8. 0 \in Good
  <2>1. Clean(engine_init) = engine_init /\ engine_init.closed = FALSE
    BY SaneAtFirst
  <2>2. f[0] = g[0]
    BY <1>2, <1>3, <2>1 DEF Went
  <2> QED
    BY <1>1, <2>2
<1>9. ASSUME NEW k \in 1..n, k - 1 \in Good PROVE k \in Good
  <2> DEFINE m == g[k - 1].m
  <2>1. k - 1 \in 0..n /\ f[k - 1] = g[k - 1] /\ ~g[k - 1].threw
    BY <1>1, <1>7, <1>9
  <2>2. ~m.error /\ ~m.closed
    <3>1. CASE k = 1
      <4>1. m = engine_init
        BY <1>2, <3>1 DEF Went
      <4>2. engine_init.error = FALSE
        BY SaneAtFirst, CleanMakes DEF Sane, Fit
      <4> QED
        BY <4>1, <4>2, SaneAtFirst
    <3>2. CASE k # 1
      <4>1. k - 1 \in 1..(n - 1)
        BY <1>1, <3>2
      <4> QED
        BY <1>6, <4>1
    <3> QED
      BY <3>1, <3>2
  <2>3. Sane(m) /\ ~g[k - 1].end
    BY <1>4, <2>1, <2>2 DEF Told
  <2>4. m.output = NULL /\ Clean(m) = m
    <3>1. m.output = NULL
      BY <2>2, <2>3 DEF Sane
    <3>2. IsMachine(m) /\ m.error = FALSE
      BY <2>2, <2>3 DEF Sane, Fit
    <3> HIDE DEF m
    <3> QED
      BY <3>1, <3>2 DEF Clean, IsMachine, MachineFields
  <2>5. engine_eval(m, <<ws[k]>>) = eval_statement(m, ws[k])
    BY <2>4, OneCall
  <2>6. f[k] = eval_statement(m, ws[k]) /\ g[k] = eval_statement(m, ws[k])
    BY <1>2, <1>3, <2>1, <2>3, <2>5
  <2> QED
    BY <1>1, <2>6
<1>10. 0..n \subseteq Good
  <2> HIDE DEF Good
  <2> QED
    BY <1>1, <1>8, <1>9, Along
<1>11. f[n] = g[n]
  BY <1>1, <1>10
<1> QED
  BY <1>5, <1>11 DEF f, n

\* A session verifies, its statements in one call, unless one before the last was
\* refused or closed the machine or came out of order, or the schedule got ahead;
\* the contract as well, if there was no commit since it was closed
\* (validation/contract.ts:178-187, 230-263).
THEOREM SessionsVerify == ASSUME TimersForward PROVE ReplaySpec => []SessionVerifies
<1>1. ReplayInit => init_tasks # {}
  BY DEF ReplayInit, Init
<1>2. init_tasks # {} /\ [ReplayNext]_<<vars, audit>> => (init_tasks # {})'
  OBVIOUS
<1>3. Inv /\ Recorded /\ init_tasks # {} => SessionVerifies
  <2> DEFINE ws == published
             InTurn == \A k \in 1..(Len(ws) - 1) :
                         LET r == EvalEach(SubSeq(ws, 1, k)) IN
                         ws[k].stamp <= ws[k + 1].stamp /\ ~r.m.error /\ ~r.m.closed
  <2> SUFFICES ASSUME Inv, Recorded, init_tasks # {}, pc = "idle", InStep, InTurn,
                      contract # NULL => contract.head = db.head
               PROVE  verify_contract_session(contract, ws)
    BY DEF SessionVerifies
  <2>1. PICK S : ws \in Seq(S)
    BY DEF Inv, Inside, Typed, IsList
  <2>2. /\ Len(ws) \in Nat /\ DOMAIN ws = 1..Len(ws) /\ ws = [k \in 1..Len(ws) |-> ws[k]]
    BY <2>1
  <2>3. \A i \in 1..Len(ws) : ws[i].stamp \in Int /\ Len(ws[i].sigs) \in Nat
    BY <2>2 DEF Inv, Inside, Typed, IsStatement
  <2>4. ~EvalEach(ws).threw /\ EvalEach(ws).m = db
    <3>1. /\ Len(log) \in Nat /\ DOMAIN log = 1..Len(log)
          /\ log # <<>> => Len(log) \in DOMAIN log
          /\ \A i \in DOMAIN log : log[i].at \in Int
      BY ListGrows DEF Inv, Inside, Typed
    <3>2. ~Broken
      BY <3>1 DEF InStep, Broken
    <3>3. ~(log # <<>> /\ Latest.call = "run")
      BY <3>1 DEF InStep, Latest
    <3> QED
      BY <3>2, <3>3 DEF Inv, Replayed
  <2>5. \A k \in 1..(Len(ws) - 1) : ws[k].stamp <= ws[k + 1].stamp
    OBVIOUS
  <2>6. \A k \in 1..(Len(ws) - 1) :
          ~EvalEach(SubSeq(ws, 1, k)).m.error /\ ~EvalEach(SubSeq(ws, 1, k)).m.closed
    OBVIOUS
  <2> HIDE DEF ws, InTurn
  <2>7. get_statements(ws) = ws
    BY <2>2, <2>3, <2>5, InOrder
  <2>8. OverStack(engine_init, ws)[Len(ws)] = EvalEach(ws)
    BY <2>1, <2>2, <2>3, <2>4, <2>6, OneCallForAll
  <2> DEFINE r == engine_eval(engine_init, ws)
  <2>9. r = EvalEach(ws)
    BY <2>7, <2>8, SaneAtFirst DEF engine_eval
  <2>10. ~r.threw /\ r.m = db
    BY <2>4, <2>9
  <2>11. verify_contract_execution(r.m, get_statements(ws))
    BY <2>4, <2>7, <2>10 DEF verify_contract_execution, Agree
  <2>12. contract # NULL => verify_contract_close(contract, r.m)
    <3> SUFFICES ASSUME contract # NULL PROVE verify_contract_close(contract, db)
      BY <2>10
    <3>1. db.closed /\ contract = [closed_at |-> db.closed_at, head |-> db.head,
                                   output |-> db.output]
      BY DEF Recorded, TakenOver
    <3> QED
      BY <3>1 DEF verify_contract_close
  <2> QED
    BY <2>10, <2>11, <2>12 DEF verify_contract_session
<1> QED
  BY <1>1, <1>2, <1>3, MachinesReplayed, RecordsKept, PTL DEF ReplaySpec
=============================================================================
