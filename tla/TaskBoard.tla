------------------------------ MODULE TaskBoard ------------------------------
(***************************************************************************)
(* The orchestration database: the tables tasks, dispatch_contexts and     *)
(* decision_gates of OrchestrationDb, and every method that writes them.   *)
(*                                                                         *)
(* Each method is synchronous and the runtime is single threaded, so one   *)
(* call is one action.  BoardNext lets any client call any method at any   *)
(* time with any argument: it is what the methods themselves promise,      *)
(* whoever the caller is.  Coordinator.tla restricts it to the calls the   *)
(* program makes.                                                          *)
(*                                                                         *)
(* A row id is the row's position in its table (the methods compare rowid, *)
(* and ids are never chosen by a caller).  A handle is a terminal handle;  *)
(* PaneOf gives the pane it addresses, the identity that survives a        *)
(* reissued handle.  A pane key is abstracted to its leaf, the part that   *)
(* isEquivalentPaneKey compares.                                           *)
(***************************************************************************)
EXTENDS Naturals, Sequences

CONSTANTS
  Handles,        \* terminal handles
  Panes,          \* panes (leaf ids of the pane keys)
  NoPane,         \* the pane key is NULL: the runtime could not resolve it
  PaneOf,         \* the pane behind a handle
  Manual,         \* the statuses an operator sets with orchestration.taskUpdate
  BreakerThreshold,  \* failures that break the circuit: 3 in failDispatch
  MaxTasks,       \* bound: rows of tasks
  MaxDispatches,  \* bound: rows of dispatch_contexts
  MaxGates,       \* bound: rows of decision_gates
  MaxFailures     \* bound: the largest failure_count explored

TaskStatus == {"pending", "ready", "dispatched", "completed", "failed", "blocked"}

\* The schema also lists 'pending', which nothing ever writes.
DispatchStatus == {"dispatched", "completed", "failed", "circuit_broken"}

GateStatus == {"pending", "resolved", "timeout"}

ASSUME BoardAssumption ==
  /\ NoPane \notin Panes
  /\ PaneOf \in [Handles -> Panes]
  /\ Manual \subseteq TaskStatus
  /\ MaxTasks \in Nat /\ MaxDispatches \in Nat /\ MaxGates \in Nat
  /\ MaxFailures \in Nat /\ BreakerThreshold \in Nat

VARIABLES
  tasks,       \* [status, deps] per task, in creation order
  dispatches,  \* [task, handle, pane, status, failures] per dispatch context, in rowid order
  gates        \* [task, status] per decision gate, in creation order

boardVars == <<tasks, dispatches, gates>>

TaskRow == [status : TaskStatus, deps : SUBSET Nat]

DispatchContextRow ==
  [task : Nat, handle : Handles, pane : Panes \cup {NoPane},
   status : DispatchStatus, failures : Nat]

DecisionGateRow == [task : Nat, status : GateStatus]

-----------------------------------------------------------------------------
(* Queries.                                                                 *)

Active(c) == dispatches[c].status = "dispatched"

DispatchesOf(t) == {c \in DOMAIN dispatches : dispatches[c].task = t}

ActiveDispatchesOf(t) == {c \in DispatchesOf(t) : Active(c)}

\* ORDER BY rowid DESC LIMIT 1
IsNewest(c, S) == c \in S /\ \A d \in S : d <= c

\* getDispatchContext(t) returns c
IsDispatchContext(c, t) == IsNewest(c, DispatchesOf(t))

\* Do two pane keys name one pane?  A NULL key names none.
SamePane(p, q) == p # NoPane /\ q # NoPane /\ p = q

\* Mutant: the lock looks at the handle alone.
ActiveForAssigneeByHandle(h, p) ==
  {c \in DOMAIN dispatches : Active(c) /\ dispatches[c].handle = h}

\* findActiveDispatchForAssignee(h, p): by handle first, then by pane.
ActiveForAssignee(h, p) ==
  {c \in DOMAIN dispatches :
     Active(c) /\ (dispatches[c].handle = h \/ SamePane(dispatches[c].pane, p))}

\* SELECT MAX(failure_count) over the contexts of t
IsMaxFailures(n, t) ==
  /\ n = 0 \/ \E c \in DispatchesOf(t) : dispatches[c].failures = n
  /\ \A c \in DispatchesOf(t) : dispatches[c].failures <= n

\* Mutant: only the handle that was dispatched to has authority.
HandleAuthority(c, h, p) == dispatches[c].handle = h

\* hasLifecycleAuthority: the pane decides when one was recorded, else the handle.
HasAuthority(c, h, p) ==
  IF dispatches[c].pane # NoPane
  THEN SamePane(dispatches[c].pane, p)
  ELSE dispatches[c].handle = h

\* Mutant: any open dispatch of a dispatched task may complete it.
AcceptsAnyOpenDispatch(c, h, p) ==
  /\ c \in DOMAIN dispatches
  /\ HasAuthority(c, h, p)
  /\ Active(c)
  /\ tasks[dispatches[c].task].status = "dispatched"

\* reconcileWorkerDoneMessage: the checks a worker_done passes to complete its task.
AcceptsWorkerDone(c, h, p) ==
  /\ c \in DOMAIN dispatches
  /\ HasAuthority(c, h, p)
  /\ Active(c)
  /\ IsDispatchContext(c, dispatches[c].task)
  /\ tasks[dispatches[c].task].status = "dispatched"

-----------------------------------------------------------------------------
(* The tables after a write.                                                *)

SetStatus(t, s) == [tasks EXCEPT ![t].status = s]

DepsCompletedWith(u, t) ==
  \A d \in tasks[u].deps : d = t \/ tasks[d].status = "completed"

\* updateTaskStatus(t, 'completed') with its promoteReadyTasks(t)
CompletedAndPromoted(t) ==
  [u \in DOMAIN tasks |->
     IF u = t
     THEN [tasks[u] EXCEPT !.status = "completed"]
     ELSE IF /\ tasks[u].status = "pending"
             /\ t \in tasks[u].deps
             /\ DepsCompletedWith(u, t)
          THEN [tasks[u] EXCEPT !.status = "ready"]
          ELSE tasks[u]]

\* completeActiveDispatchForTask(t)
ActiveDispatchCompleted(t) ==
  [c \in DOMAIN dispatches |->
     IF IsNewest(c, ActiveDispatchesOf(t))
     THEN [dispatches[c] EXCEPT !.status = "completed"]
     ELSE dispatches[c]]

Breaks(c) == dispatches[c].failures + 1 >= BreakerThreshold

PendingGate(g) == gates[g].status = "pending"

HasPendingGate(t) == \E g \in DOMAIN gates : gates[g].task = t /\ PendingGate(g)

-----------------------------------------------------------------------------
(* The methods.                                                             *)

\* createTask: deps that are already completed do not make the task ready.
CreateTask(D) ==
  /\ Len(tasks) < MaxTasks
  /\ tasks' = Append(tasks, [status |-> IF D = {} THEN "ready" ELSE "pending", deps |-> D])
  /\ UNCHANGED <<dispatches, gates>>

CompleteTask(t) ==
  /\ tasks' = CompletedAndPromoted(t)
  /\ dispatches' = ActiveDispatchCompleted(t)
  /\ UNCHANGED gates

\* updateTaskStatus as orchestration.taskUpdate reaches it: no look at the old status.
UpdateTask(t, s) ==
  IF s = "completed"
  THEN CompleteTask(t)
  ELSE /\ tasks' = SetStatus(t, s)
       /\ UNCHANGED <<dispatches, gates>>

CreateDispatchContext(t, h, p) ==
  /\ Len(dispatches) < MaxDispatches
  /\ tasks[t].status = "ready"
  /\ ActiveForAssignee(h, p) = {}
  /\ \E n \in 0 .. MaxFailures :
       /\ IsMaxFailures(n, t)
       /\ dispatches' = Append(dispatches,
            [task |-> t, handle |-> h, pane |-> p, status |-> "dispatched", failures |-> n])
  /\ tasks' = SetStatus(t, "dispatched")
  /\ UNCHANGED gates

\* The row failDispatch writes: one more failure, and a new status.
FailedRow(c, s) ==
  [task |-> dispatches[c].task, handle |-> dispatches[c].handle,
   pane |-> dispatches[c].pane, status |-> s, failures |-> dispatches[c].failures + 1]

StatusAfterFailure(c) == IF Breaks(c) THEN "circuit_broken" ELSE "failed"

\* Mutant: below the threshold the context is retried in place.
FailDispatchInPlace(c) ==
  /\ dispatches[c].failures < MaxFailures
  /\ dispatches' = [dispatches EXCEPT
       ![c] = FailedRow(c, IF Breaks(c) THEN "circuit_broken" ELSE "dispatched")]
  /\ tasks' = SetStatus(dispatches[c].task, IF Breaks(c) THEN "failed" ELSE "ready")
  /\ UNCHANGED gates

\* Mutant: the task is returned to the queue only when the circuit breaks.
FailDispatchForgetsTask(c) ==
  /\ dispatches[c].failures < MaxFailures
  /\ dispatches' = [dispatches EXCEPT ![c] = FailedRow(c, StatusAfterFailure(c))]
  /\ tasks' = IF Breaks(c) THEN SetStatus(dispatches[c].task, "failed") ELSE tasks
  /\ UNCHANGED gates

\* failDispatch: the context's status is not consulted.
FailDispatch(c) ==
  /\ dispatches[c].failures < MaxFailures
  /\ dispatches' = [dispatches EXCEPT ![c] = FailedRow(c, StatusAfterFailure(c))]
  /\ tasks' = SetStatus(dispatches[c].task, IF Breaks(c) THEN "failed" ELSE "ready")
  /\ UNCHANGED gates

\* reconcileWorkerDoneMessage when every check passes; otherwise no row changes.
WorkerDone(c, h, p) ==
  /\ AcceptsWorkerDone(c, h, p)
  /\ CompleteTask(dispatches[c].task)

CreateGate(t) ==
  /\ Len(gates) < MaxGates
  /\ gates' = Append(gates, [task |-> t, status |-> "pending"])
  /\ dispatches' = ActiveDispatchCompleted(t)
  /\ tasks' = SetStatus(t, "blocked")

\* Mutant: the gate's new status is written to the task row.
ResolveGateIntoTask(g) ==
  /\ gates' = [gates EXCEPT ![g].status = "resolved"]
  /\ tasks' = SetStatus(gates[g].task, "resolved")
  /\ UNCHANGED dispatches

\* resolveGate: neither the gate's nor the task's status is consulted.
ResolveGate(g) ==
  /\ gates' = [gates EXCEPT ![g].status = "resolved"]
  /\ tasks' = SetStatus(gates[g].task, "ready")
  /\ UNCHANGED dispatches

TimeoutGate(g) ==
  /\ gates' = [gates EXCEPT ![g].status = "timeout"]
  /\ UNCHANGED <<tasks, dispatches>>

\* Coordinator.processDecisionGates: updateTaskStatus(t, 'blocked') per gated task.
GatedTasksBlocked ==
  [t \in DOMAIN tasks |->
     IF HasPendingGate(t) THEN [tasks[t] EXCEPT !.status = "blocked"] ELSE tasks[t]]

BlockGatedTasks ==
  /\ tasks' = GatedTasksBlocked
  /\ UNCHANGED <<dispatches, gates>>

ResetTasks ==
  /\ tasks' = <<>>
  /\ dispatches' = <<>>
  /\ gates' = <<>>

-----------------------------------------------------------------------------
BoardInit == tasks = <<>> /\ dispatches = <<>> /\ gates = <<>>

\* The keys a call may carry for a handle: its pane's, or none.
KeysOf(h) == {PaneOf[h], NoPane}

BoardNext ==
  \/ \E D \in SUBSET DOMAIN tasks : CreateTask(D)
  \/ \E t \in DOMAIN tasks, s \in Manual : UpdateTask(t, s)
  \/ \E t \in DOMAIN tasks, h \in Handles : \E p \in KeysOf(h) : CreateDispatchContext(t, h, p)
  \/ \E c \in DOMAIN dispatches : FailDispatch(c)
  \/ \E c \in DOMAIN dispatches, h \in Handles : \E p \in KeysOf(h) : WorkerDone(c, h, p)
  \/ \E t \in DOMAIN tasks : CreateGate(t)
  \/ \E g \in DOMAIN gates : ResolveGate(g)
  \/ \E g \in DOMAIN gates : TimeoutGate(g)
  \/ BlockGatedTasks
  \/ ResetTasks

BoardSpec == BoardInit /\ [][BoardNext]_boardVars

-----------------------------------------------------------------------------
(* What the methods promise to any client.                                  *)

\* Every row has the columns the schema declares, and every reference from a
\* dispatch context or a gate names a task that exists.
BoardTypeOK ==
  /\ tasks \in Seq(TaskRow)
  /\ dispatches \in Seq(DispatchContextRow)
  /\ gates \in Seq(DecisionGateRow)
  /\ \A c \in DOMAIN dispatches : dispatches[c].task \in DOMAIN tasks
  /\ \A g \in DOMAIN gates : gates[g].task \in DOMAIN tasks

\* Two open dispatches never share a handle, nor a pane whose key both of them
\* recorded, also when a restart reissued the pane's handle between the two
\* (createDispatchContext, findActiveDispatchForAssignee).  A dispatch recorded without
\* a key is locked by its handle alone: under a reissued handle its pane can take another.
TerminalLock ==
  \A c, d \in DOMAIN dispatches :
    Active(c) /\ Active(d) /\ c # d =>
      /\ dispatches[c].handle # dispatches[d].handle
      /\ ~SamePane(dispatches[c].pane, dispatches[d].pane)

\* A task shown as dispatched is being worked on: its latest dispatch context is
\* open.  worker_done acceptance and the coordinator's busy-terminal filter both
\* read the latest context of a dispatched task and rely on it.
NoGhostDispatch ==
  \A t \in DOMAIN tasks :
    tasks[t].status = "dispatched" =>
      \E c \in DOMAIN dispatches : IsDispatchContext(c, t) /\ Active(c)

\* A dispatch context that was completed, failed or circuit-broken never becomes
\* the open dispatch of a terminal again; a retry gets a row of its own.
ClosedStaysClosed ==
  [][\A c \in DOMAIN dispatches :
       c \in DOMAIN dispatches' /\ ~Active(c) => dispatches'[c].status # "dispatched"]_boardVars

\* An accepted worker_done closes the dispatch it names.  The write goes through
\* completeActiveDispatchForTask, which looks the context up by task and not by
\* the id in the message, so this rests on every check of the reconciliation.
WorkerDoneClosesItsDispatch ==
  [][\A c \in DOMAIN dispatches, h \in Handles, p \in Panes \cup {NoPane} :
       WorkerDone(c, h, p) => dispatches'[c].status = "completed"]_boardVars

=============================================================================
