----------------------------- MODULE Coordinator -----------------------------
(***************************************************************************)
(* The coordinator loop over the orchestration database, with everything   *)
(* that runs beside it: the workers in their terminals, the operator at    *)
(* the CLI, the exit handler of the runtime, and an application restart.   *)
(*                                                                         *)
(* The runtime is one JavaScript event loop.  A tick of the coordinator is *)
(* synchronous except at its awaits, so the others run only when the loop  *)
(* sleeps ("top") or waits for the list of terminals ("listing"), for a    *)
(* new terminal ("creating"), for the drift probe ("probing") or for the   *)
(* prompt to be written ("sending").  While it handles its unread messages *)
(* ("messages") nobody else runs; one message is one step here.            *)
(*                                                                         *)
(* A terminal handle is <<pane, epoch>>: a restart reissues every handle,  *)
(* the pane stays.  Every handle's pane key resolves here; BoardNext also  *)
(* covers the calls without one.                                           *)
(*                                                                         *)
(* The runtime learns of an agent's exit through the leaf its terminal has *)
(* in the renderer's graph.  Leaves come and go (no window, a window that  *)
(* is closed or reloads, a terminal in the background, `orca serve`), so   *)
(* each exit is either seen ("exited") or not ("lost").                    *)
(***************************************************************************)
EXTENDS TaskBoard, FiniteSets

CONSTANTS
  MaxConcurrent,  \* --max-concurrent
  AllowStale,     \* the tasks whose spec says allow-stale-base: true
  OperatorMay,    \* what the operator does besides creating tasks and a run
  MaxInbox,       \* bound: unread messages, except accepted completions
  MaxFaults,      \* bound: faults of a task's workers
  MaxExits,       \* bound: agents that exit
  MaxRestarts,    \* bound: application restarts
  MaxGlitches     \* bound: failed calls of the loop, and upstream pushes

OperatorVerbs == {"create", "update", "gate", "dispatch", "stop", "reset"}

ASSUME CoordinatorAssumption ==
  /\ Handles = Panes \X (0 .. MaxRestarts)
  /\ \A h \in Handles : PaneOf[h] = h[1]
  /\ MaxConcurrent \in Nat \ {0}
  /\ AllowStale \subseteq Nat /\ OperatorMay \subseteq OperatorVerbs
  /\ {MaxInbox, MaxFaults, MaxExits, MaxRestarts, MaxGlitches} \subseteq Nat

VARIABLES
  terminal,  \* per pane: "none", "running", "exited" or "lost"
  epoch,     \* application starts so far: the epoch of the handles in use
  inbox,     \* the unread messages to the coordinator's handle
  runRow,    \* status of the latest coordinator_runs row
  pc,        \* where executeLoop stands
  todo,      \* the ready tasks of this tick that were not tried yet
  avail,     \* the panes of the terminals that this tick may still use
  slots,     \* slotsAvailable
  cur,       \* the dispatch whose prompt the loop is writing, else 0
  stopped,   \* has stop been called?
  failedTasks,  \* state.failedTasks
  prompts,   \* dispatches whose prompt an orchestration.dispatch is writing
  stale,     \* is the coordinator's worktree too far behind its base?
  faults,    \* history: what went wrong with workers and prompts, per task
  glitches   \* bound: calls of the loop that failed, and upstream pushes

tick == <<todo, avail, slots, cur>>
loopVars == <<pc, tick, stopped, failedTasks, runRow>>
worldVars == <<terminal, epoch, stale, glitches>>
mailVars == <<inbox, prompts, faults>>
vars == <<boardVars, loopVars, worldVars, mailVars>>

PcValues == {"off", "top", "messages", "listing", "creating", "probing", "sending"}

-----------------------------------------------------------------------------
(* Queries.                                                                 *)

EventLoopFree == pc # "messages"

HandleOf(p) == <<p, epoch>>

TasksWith(s) == {t \in DOMAIN tasks : tasks[t].status = s}

\* The prompt of c is being written; its worker cannot know of it yet.
InFlight(c) == (pc = "sending" /\ cur = c) \/ c \in prompts

WorkerAlive(c) == terminal[dispatches[c].pane] = "running"

\* Mutant: the handle of any dispatch ever made stays busy.
BusySinceDispatched(h) == \E c \in DOMAIN dispatches : dispatches[c].handle = h

\* The handle of a dispatched task's latest context
Busy(h) ==
  \E t \in TasksWith("dispatched") : \E c \in DispatchesOf(t) :
    IsDispatchContext(c, t) /\ dispatches[c].handle = h

Available(p) == terminal[p] = "running" /\ ~Busy(HandleOf(p))

Done(board) == \A t \in DOMAIN board : board[t].status \in {"completed", "failed"}

\* A message about task t.  Only a worker_done names a dispatch.
Message(type, t, c, h) == [type |-> type, task |-> t, dispatch |-> c, handle |-> h]

\* What the bounds leave of a task's misfortunes
MayFail(t) == faults[t] < MaxFaults
Fault(t) == faults' = [faults EXCEPT ![t] = @ + 1]

Glitch == glitches < MaxGlitches /\ glitches' = glitches + 1

-----------------------------------------------------------------------------
(* The operator: RPC methods called from the CLI.                           *)

OperatorCreates ==
  /\ EventLoopFree
  /\ "create" \in OperatorMay \/ runRow = "none"
  /\ \E D \in SUBSET DOMAIN tasks : CreateTask(D)
  /\ UNCHANGED <<loopVars, worldVars, mailVars>>

OperatorUpdates ==
  /\ EventLoopFree /\ "update" \in OperatorMay
  /\ \E t \in DOMAIN tasks, s \in Manual : UpdateTask(t, s)
  /\ UNCHANGED <<loopVars, worldVars, mailVars>>

\* Gates that exist and gates still to be read from a message share MaxGates.
GatesOnTheWay == Cardinality({i \in DOMAIN inbox : inbox[i].type = "decision_gate"})

OperatorGates ==
  /\ EventLoopFree /\ "gate" \in OperatorMay
  /\ Len(gates) + GatesOnTheWay < MaxGates
  /\ \E t \in DOMAIN tasks : CreateGate(t)
  /\ UNCHANGED <<loopVars, worldVars, mailVars>>

OperatorResolves(g) ==
  /\ EventLoopFree /\ g \in DOMAIN gates /\ PendingGate(g)
  /\ ResolveGate(g)
  /\ UNCHANGED <<loopVars, worldVars, mailVars>>

\* orchestration.dispatch, up to the await of the prompt if there is --inject
OperatorDispatches(t, p, inject) ==
  /\ EventLoopFree /\ "dispatch" \in OperatorMay
  /\ terminal[p] # "none" /\ (inject => terminal[p] = "running")
  /\ CreateDispatchContext(t, HandleOf(p), p)
  /\ prompts' = IF inject THEN prompts \cup {Len(dispatches) + 1} ELSE prompts
  /\ UNCHANGED <<loopVars, worldVars, inbox, faults>>

\* A prompt cannot be written when its terminal was gone before the dispatch; a
\* terminal that goes while the bytes are on their way may still take them.
CanAccept(c) == Active(c) => WorkerAlive(c)

CanReject(c) == MayFail(dispatches[c].task) \/ ~WorkerAlive(c)

\* The history counts a rejection once: what failed c before was counted then.
CountRejection(c) ==
  IF dispatches[c].status \in {"failed", "circuit_broken"}
  THEN UNCHANGED faults
  ELSE Fault(dispatches[c].task)

InjectAccepted(c) ==
  /\ EventLoopFree /\ c \in prompts /\ CanAccept(c)
  /\ prompts' = prompts \ {c}
  /\ UNCHANGED <<boardVars, loopVars, worldVars, inbox, faults>>

InjectRejected(c) ==
  /\ EventLoopFree /\ c \in prompts /\ CanReject(c)
  /\ prompts' = prompts \ {c}
  /\ FailDispatch(c)
  /\ CountRejection(c)
  /\ UNCHANGED <<loopVars, worldVars, inbox>>

RunStart ==
  /\ EventLoopFree /\ runRow # "running"
  /\ IF tasks = <<>>
     THEN runRow' = "failed" /\ UNCHANGED pc
     ELSE runRow' = "running" /\ pc' = "top"
  /\ UNCHANGED <<boardVars, tick, stopped, failedTasks, worldVars, mailVars>>

\* Without a loop the run row is left as it is.
RunStop ==
  /\ EventLoopFree /\ "stop" \in OperatorMay /\ runRow = "running"
  /\ pc # "off" /\ ~stopped
  /\ stopped' = TRUE
  /\ UNCHANGED <<boardVars, pc, tick, failedTasks, runRow, worldVars, mailVars>>

\* orchestration.reset --all, used as documented: not during active coordination.
Reset ==
  /\ "reset" \in OperatorMay /\ pc = "off" /\ prompts = {}
  /\ ResetTasks
  /\ inbox' = <<>> /\ runRow' = "none"
  /\ faults' = [t \in 1 .. MaxTasks |-> 0]
  /\ UNCHANGED <<pc, tick, stopped, failedTasks, worldVars, prompts>>

RefreshBase ==
  /\ EventLoopFree /\ stale /\ stale' = FALSE
  /\ UNCHANGED <<boardVars, loopVars, terminal, epoch, glitches, mailVars>>

BaseMoves ==
  /\ EventLoopFree /\ ~stale /\ stale' = TRUE /\ Glitch
  /\ UNCHANGED <<boardVars, loopVars, terminal, epoch, mailVars>>

-----------------------------------------------------------------------------
(* The workers and the runtime beside the loop.                             *)

\* orchestration.send of a worker_done: reconciled before anyone is woken, and
\* kept as a message whatever the outcome.
WorkerDoneSent(c) ==
  /\ EventLoopFree /\ c \in DOMAIN dispatches /\ ~InFlight(c) /\ WorkerAlive(c)
  /\ LET h == HandleOf(dispatches[c].pane)
     IN /\ IF AcceptsWorkerDone(c, h, PaneOf[h])
           THEN WorkerDone(c, h, PaneOf[h])
           ELSE Len(inbox) < MaxInbox /\ UNCHANGED boardVars
        /\ inbox' = Append(inbox, Message("worker_done", dispatches[c].task, c, h))
  /\ UNCHANGED <<loopVars, worldVars, prompts, faults>>

WorkerEscalates(c) ==
  /\ EventLoopFree /\ ~InFlight(c) /\ WorkerAlive(c)
  /\ Len(inbox) < MaxInbox /\ MayFail(dispatches[c].task)
  /\ inbox' = Append(inbox, Message("escalation", dispatches[c].task, 0, HandleOf(dispatches[c].pane)))
  /\ Fault(dispatches[c].task)
  /\ UNCHANGED <<boardVars, loopVars, worldVars, prompts>>

\* send --type decision_gate with the task in its payload
WorkerAsks(c) ==
  /\ EventLoopFree /\ ~InFlight(c) /\ WorkerAlive(c)
  /\ Len(inbox) < MaxInbox /\ Len(gates) + GatesOnTheWay < MaxGates
  /\ inbox' = Append(inbox, Message("decision_gate", dispatches[c].task, 0, HandleOf(dispatches[c].pane)))
  /\ UNCHANGED <<boardVars, loopVars, worldVars, prompts, faults>>

MayExit == Cardinality({q \in Panes : terminal[q] \in {"exited", "lost"}}) < MaxExits

\* onPtyExit of a terminal with a leaf, and its failActiveDispatchOnExit: the lookup is
\* by the current handle, not by the pane.
AgentExit(p) ==
  /\ EventLoopFree /\ terminal[p] = "running"
  /\ MayExit
  /\ terminal' = [terminal EXCEPT ![p] = "exited"]
  /\ LET S == ActiveForAssignee(HandleOf(p), NoPane)
     IN \/ S = {} /\ UNCHANGED <<boardVars, inbox, faults>>
        \/ \E c \in S :
             /\ FailDispatch(c)
             /\ Fault(dispatches[c].task)
             /\ inbox' = IF runRow = "running"
                         THEN Append(inbox, Message("escalation", dispatches[c].task, 0, HandleOf(p)))
                         ELSE inbox
  /\ UNCHANGED <<loopVars, epoch, stale, glitches, prompts>>

\* onPtyExit of a terminal without a leaf, or whose leaf had to be given a new handle
\* since: nothing is looked up, and a dispatch it holds stays open.
AgentExitUnseen(p) ==
  /\ EventLoopFree /\ terminal[p] = "running"
  /\ MayExit
  /\ terminal' = [terminal EXCEPT ![p] = "lost"]
  /\ UNCHANGED <<boardVars, loopVars, epoch, stale, glitches, mailVars>>

NoLoop ==
  /\ pc' = "off" /\ todo' = {} /\ avail' = {} /\ slots' = 0 /\ cur' = 0
  /\ stopped' = FALSE /\ failedTasks' = {}

\* The application dies, anywhere, and starts again.  Agents hosted by the daemon
\* live on, the others are gone and no exit is seen.  Nothing restarts the loop.
Restart ==
  /\ epoch < MaxRestarts
  /\ epoch' = epoch + 1
  /\ \E gone \in SUBSET {p \in Panes : terminal[p] = "running"} :
       terminal' = [p \in Panes |-> IF p \in gone THEN "lost" ELSE terminal[p]]
  /\ NoLoop
  /\ prompts' = {}
  /\ UNCHANGED <<boardVars, inbox, runRow, stale, faults, glitches>>

-----------------------------------------------------------------------------
(* The loop.                                                                *)

\* Mutant: a stop is looked at only when the run has converged.
StartTickWhenStopped ==
  /\ pc = "top" /\ pc' = "messages"
  /\ UNCHANGED <<boardVars, tick, stopped, failedTasks, runRow, worldVars, mailVars>>

StartTick ==
  /\ pc = "top" /\ ~stopped /\ pc' = "messages"
  /\ UNCHANGED <<boardVars, tick, stopped, failedTasks, runRow, worldVars, mailVars>>

StopLoop ==
  /\ pc = "top" /\ stopped
  /\ runRow' = "failed" /\ NoLoop
  /\ UNCHANGED <<boardVars, worldVars, mailVars>>

\* The tick ends and the loop sleeps.
Sleep(F) ==
  /\ pc' = "top" /\ todo' = {} /\ avail' = {} /\ slots' = 0 /\ cur' = 0
  /\ failedTasks' = F
  /\ UNCHANGED <<stopped, runRow>>

\* Mutant: the loop leaves without recording how its run ended.
EndTickForgetsRow(F) ==
  IF Done(tasks') THEN NoLoop /\ UNCHANGED runRow ELSE Sleep(F)

\* checkConvergence at the end of a tick, and what executeLoop does with it: tasks'
\* is the task table by then, F are the failed tasks recorded so far.
EndTick(F) ==
  IF Done(tasks')
  THEN /\ NoLoop
       /\ runRow' = IF stopped \/ F # {} \/ \E t \in DOMAIN tasks' : tasks'[t].status = "failed"
                    THEN "failed" ELSE "completed"
  ELSE Sleep(F)

\* Mutant: a dispatch does not use up its slot.
NextTaskForgetsSlot(T, A, n, F) ==
  IF n = 0 \/ T = {} \/ A = {}
  THEN EndTick(F)
  ELSE /\ pc' = "probing" /\ todo' = T /\ avail' = A /\ slots' = n /\ cur' = 0
       /\ failedTasks' = F
       /\ UNCHANGED <<stopped, runRow>>

\* The head of the loop in dispatchReadyTasks: T and A are the tasks and the terminals
\* that are left, n the slots.
NextTask(T, A, n, F) ==
  IF n = 0 \/ T = {} \/ A = {}
  THEN EndTick(F)
  ELSE /\ pc' = "probing" /\ todo' = T /\ avail' = A /\ slots' = n - 1 /\ cur' = 0
       /\ failedTasks' = F
       /\ UNCHANGED <<stopped, runRow>>

\* handleLifecycleMessage: worker_done again, after the reconciliation at send.
ReadWorkerDone(m) ==
  /\ IF AcceptsWorkerDone(m.dispatch, m.handle, PaneOf[m.handle])
     THEN WorkerDone(m.dispatch, m.handle, PaneOf[m.handle])
     ELSE UNCHANGED boardVars
  /\ UNCHANGED failedTasks

\* Mutant: an escalation returns the task to 'pending' and leaves its dispatch alone.
ReadEscalationToPending(m) ==
  /\ tasks' = IF tasks[m.task].status \in {"completed", "failed"}
              THEN tasks ELSE SetStatus(m.task, "pending")
  /\ UNCHANGED <<dispatches, gates, failedTasks>>

\* handleEscalation: the latest dispatch of the task pays, if the task is open.
ReadEscalation(m) ==
  \/ /\ tasks[m.task].status \in {"completed", "failed"} \/ DispatchesOf(m.task) = {}
     /\ UNCHANGED <<boardVars, failedTasks>>
  \/ /\ tasks[m.task].status \notin {"completed", "failed"}
     /\ \E c \in DispatchesOf(m.task) :
          /\ IsDispatchContext(c, m.task)
          /\ FailDispatch(c)
          /\ failedTasks' = IF Breaks(c) THEN failedTasks \cup {m.task} ELSE failedTasks

ReadGate(m) == CreateGate(m.task) /\ UNCHANGED failedTasks

\* One turn of the loop in processMessages.  The rows are marked read together at
\* its end; nobody looks in between, and a crash in between leaves a run that no
\* loop will ever resume, so the model drops each row as it is handled.
HandleMessage ==
  /\ pc = "messages" /\ inbox # <<>>
  /\ LET m == Head(inbox)
     IN \/ m.type = "worker_done" /\ ReadWorkerDone(m)
        \/ m.type = "escalation" /\ ReadEscalation(m)
        \/ m.type = "decision_gate" /\ ReadGate(m)
  /\ inbox' = Tail(inbox)
  /\ UNCHANGED <<pc, tick, stopped, runRow, worldVars, prompts, faults>>

ReadyTasks == {t \in DOMAIN tasks' : tasks'[t].status = "ready"}
DispatchedCount == Cardinality({t \in DOMAIN tasks' : tasks'[t].status = "dispatched"})

\* The snapshot of the ready tasks and of the free slots, unless one is empty.
StartDispatching ==
  IF ReadyTasks = {} \/ DispatchedCount >= MaxConcurrent
  THEN EndTick(failedTasks)
  ELSE /\ pc' = "listing" /\ todo' = ReadyTasks /\ slots' = MaxConcurrent - DispatchedCount
       /\ UNCHANGED <<avail, cur, stopped, failedTasks, runRow>>

\* Mutant: the tick does not restore the block of a gated task.
EndMessagesLeavesGated ==
  /\ pc = "messages" /\ inbox = <<>>
  /\ UNCHANGED boardVars
  /\ StartDispatching
  /\ UNCHANGED <<worldVars, mailVars>>

\* The rest of the tick up to its first await: processDecisionGates, then the
\* beginning of dispatchReadyTasks.
EndMessages ==
  /\ pc = "messages" /\ inbox = <<>>
  /\ BlockGatedTasks
  /\ StartDispatching
  /\ UNCHANGED <<worldVars, mailVars>>

\* getAvailableTerminals resolves; without a free terminal one is created.
WithTerminals(free) ==
  IF free = {}
  THEN pc' = "creating" /\ UNCHANGED <<tick, stopped, failedTasks, runRow>>
  ELSE NextTask(todo, free, slots, failedTasks)

\* In which order the terminals are listed is left open.
ListTerminals ==
  /\ pc = "listing"
  /\ UNCHANGED <<boardVars, worldVars, mailVars>>
  /\ WithTerminals({p \in Panes : Available(p)})

ListTerminalsFails ==
  /\ pc = "listing" /\ Glitch
  /\ UNCHANGED <<boardVars, terminal, epoch, stale, mailVars>>
  /\ WithTerminals({})

CreateTerminal(p) ==
  /\ pc = "creating" /\ terminal[p] = "none"
  /\ terminal' = [terminal EXCEPT ![p] = "running"]
  /\ UNCHANGED <<boardVars, epoch, stale, glitches, mailVars>>
  /\ NextTask(todo, {p}, slots, failedTasks)

\* The bound on panes also shows as a failure.
CreateTerminalFails ==
  /\ pc = "creating"
  /\ IF \A p \in Panes : terminal[p] # "none" THEN UNCHANGED glitches ELSE Glitch
  /\ UNCHANGED <<boardVars, terminal, epoch, stale, mailVars>>
  /\ EndTick(failedTasks)

\* dispatchTask(t, p): t is the oldest ready task left, p a terminal left.
IsNext(t, p) == t \in todo /\ (\A u \in todo : t <= u) /\ p \in avail

\* The loop goes on without t and p, whatever became of them.
Continue(t, p) == NextTask(todo \ {t}, avail \ {p}, slots, failedTasks)

BaseTooOld(t) == stale /\ t \notin AllowStale

\* Mutant: the drift check comes after the dispatch context and fails it.
SkipStaleAsFailure(t, p) ==
  /\ pc = "probing" /\ IsNext(t, p) /\ BaseTooOld(t)
  /\ Len(dispatches) < MaxDispatches
  /\ tasks[t].status = "ready"
  /\ dispatches' = Append(dispatches,
       [task |-> t, handle |-> HandleOf(p), pane |-> p, status |-> "failed", failures |-> 1])
  /\ UNCHANGED <<tasks, gates, worldVars, mailVars>>
  /\ Continue(t, p)

SkipStale(t, p) ==
  /\ pc = "probing" /\ IsNext(t, p) /\ BaseTooOld(t)
  /\ UNCHANGED <<boardVars, worldVars, mailVars>>
  /\ Continue(t, p)

\* A probe that fails counts as a fresh base.
DispatchTask(t, p) ==
  /\ pc = "probing" /\ IsNext(t, p)
  /\ IF BaseTooOld(t) THEN Glitch ELSE UNCHANGED glitches
  /\ CreateDispatchContext(t, HandleOf(p), p)
  /\ pc' = "sending" /\ cur' = Len(dispatches) + 1
  /\ todo' = todo \ {t} /\ avail' = avail \ {p}
  /\ UNCHANGED <<slots, stopped, failedTasks, runRow, terminal, epoch, stale, mailVars>>

\* createDispatchContext throws: the task is no longer ready or the terminal is locked.
\* The bound on rows also shows as an insert that throws.
DispatchRefused(t, p) ==
  /\ pc = "probing" /\ IsNext(t, p) /\ ~BaseTooOld(t)
  /\ \/ tasks[t].status # "ready"
     \/ ActiveForAssignee(HandleOf(p), p) # {}
     \/ Len(dispatches) = MaxDispatches
  /\ UNCHANGED <<boardVars, worldVars, mailVars>>
  /\ Continue(t, p)

PromptAccepted ==
  /\ pc = "sending" /\ CanAccept(cur)
  /\ UNCHANGED <<boardVars, worldVars, mailVars>>
  /\ NextTask(todo, avail, slots, failedTasks)

\* Mutant: the rejection is logged and the dispatch stays open.
PromptRejectedIgnored ==
  /\ pc = "sending" /\ CanReject(cur)
  /\ CountRejection(cur)
  /\ UNCHANGED <<boardVars, worldVars, inbox, prompts>>
  /\ NextTask(todo, avail, slots, failedTasks)

PromptRejected ==
  /\ pc = "sending" /\ CanReject(cur)
  /\ FailDispatch(cur)
  /\ CountRejection(cur)
  /\ UNCHANGED <<worldVars, inbox, prompts>>
  /\ NextTask(todo, avail, slots,
       IF Breaks(cur) THEN failedTasks \cup {dispatches[cur].task} ELSE failedTasks)

-----------------------------------------------------------------------------
Init ==
  /\ BoardInit
  /\ terminal \in [Panes -> {"none", "running"}]
  /\ epoch = 0
  /\ inbox = <<>>
  /\ runRow = "none"
  /\ pc = "off" /\ todo = {} /\ avail = {} /\ slots = 0 /\ cur = 0
  /\ stopped = FALSE /\ failedTasks = {}
  /\ prompts = {}
  /\ stale \in BOOLEAN
  /\ faults = [t \in 1 .. MaxTasks |-> 0]
  /\ glitches = 0

LoopStep ==
  \/ StartTick
  \/ StopLoop
  \/ HandleMessage
  \/ EndMessages
  \/ ListTerminals
  \/ ListTerminalsFails
  \/ \E p \in Panes : CreateTerminal(p)
  \/ CreateTerminalFails
  \/ \E t \in todo, p \in avail : SkipStale(t, p)
  \/ \E t \in todo, p \in avail : DispatchTask(t, p)
  \/ \E t \in todo, p \in avail : DispatchRefused(t, p)
  \/ PromptAccepted
  \/ PromptRejected

OperatorStep ==
  \/ OperatorCreates
  \/ OperatorUpdates
  \/ OperatorGates
  \/ \E g \in DOMAIN gates : OperatorResolves(g)
  \/ \E t \in DOMAIN tasks, p \in Panes, inject \in BOOLEAN : OperatorDispatches(t, p, inject)
  \/ \E c \in prompts : InjectAccepted(c)
  \/ \E c \in prompts : InjectRejected(c)
  \/ RunStart
  \/ RunStop
  \/ Reset
  \/ RefreshBase
  \/ BaseMoves

WorkerStep ==
  \/ \E c \in DOMAIN dispatches : WorkerDoneSent(c)
  \/ \E c \in DOMAIN dispatches : WorkerEscalates(c)
  \/ \E c \in DOMAIN dispatches : WorkerAsks(c)
  \/ \E p \in Panes : AgentExit(p)
  \/ \E p \in Panes : AgentExitUnseen(p)

Next == LoopStep \/ OperatorStep \/ WorkerStep \/ Restart

Spec == Init /\ [][Next]_vars

\* A worker that holds the open dispatch of a task reports it done.
WorkerCompletes ==
  \E c \in DOMAIN dispatches :
    /\ AcceptsWorkerDone(c, HandleOf(dispatches[c].pane), dispatches[c].pane)
    /\ WorkerDoneSent(c)

\* The event loop and its timers run.  Workers that live get done, gates get resolved
\* and a stale worktree gets refreshed: those calls wait in the event queue while a
\* tick runs and are served when it yields, hence strong fairness.
Fairness ==
  /\ WF_vars(LoopStep)
  /\ SF_vars(WorkerCompletes)
  /\ SF_vars(\E g \in DOMAIN gates : OperatorResolves(g))
  /\ SF_vars(RefreshBase)

FairSpec == Spec /\ Fairness

-----------------------------------------------------------------------------
(* What the loop promises, given how the others behave.                     *)

MessageRow ==
  [type : {"worker_done", "escalation", "decision_gate"},
   task : Nat, dispatch : Nat, handle : Handles]

WorldTypeOK ==
  /\ terminal \in [Panes -> {"none", "running", "exited", "lost"}]
  /\ epoch \in 0 .. MaxRestarts
  /\ stale \in BOOLEAN
  /\ glitches \in Nat

\* Without a loop its locals are gone.
LoopTypeOK ==
  /\ runRow \in {"none", "running", "completed", "failed"}
  /\ pc \in PcValues
  /\ todo \subseteq DOMAIN tasks /\ failedTasks \subseteq DOMAIN tasks
  /\ pc = "off" => todo = {} /\ failedTasks = {}
  /\ avail \subseteq Panes
  /\ slots \in 0 .. MaxConcurrent
  /\ cur \in DOMAIN dispatches \cup {0}
  /\ pc = "sending" <=> cur # 0
  /\ stopped \in BOOLEAN

MailTypeOK ==
  /\ inbox \in Seq(MessageRow)
  /\ \A i \in DOMAIN inbox : inbox[i].task \in DOMAIN tasks
  /\ prompts \subseteq DOMAIN dispatches
  /\ faults \in [1 .. MaxTasks -> Nat]

\* The variables have their types, every reference names a row that exists, and a
\* dispatch knows the pane it was made for.
CoordinatorTypeOK ==
  /\ BoardTypeOK
  /\ \A c \in DOMAIN dispatches : dispatches[c].pane \in Panes
  /\ WorldTypeOK
  /\ LoopTypeOK
  /\ MailTypeOK

\* The loop never has more than --max-concurrent tasks dispatched, although it counts
\* them once per tick and tasks change at every await of it; stated of a coordination
\* in which nobody else dispatches.
ConcurrencyCap == Cardinality(TasksWith("dispatched")) <= MaxConcurrent

\* A terminal whose exit the runtime saw holds no open dispatch, except the one whose
\* prompt is about to be rejected: whatever the order of the exit, the list of
\* terminals, the dispatch and the prompt.  An exit it does not see ("lost") strands
\* what the terminal held by then, see Orphaned, and this says nothing of it.
DeadTerminalHoldsNothing ==
  \A c \in DOMAIN dispatches :
    Active(c) /\ terminal[dispatches[c].pane] = "exited" => InFlight(c)

\* A task with a pending decision gate is not dispatched (SKILL.md: a gate blocks progress
\* until a decision is recorded).
GateBlocksDispatch ==
  [][\A t \in DOMAIN tasks :
       t \in DOMAIN tasks' /\ tasks[t].status = "ready" /\ tasks'[t].status = "dispatched"
         => ~HasPendingGate(t)]_vars

\* A stale base costs nothing: no dispatch of a task carries a failure before a worker
\* or a prompt of that task has failed.
NoFailureWithoutFault ==
  \A c \in DOMAIN dispatches : dispatches[c].failures > 0 => faults[dispatches[c].task] > 0

\* The run row and the loop agree: a live loop always finds its run 'running', and a
\* run is left 'running' without a loop only by a restart.  run and runStop read the
\* row where they mean the loop.
RunRowTracksLoop ==
  /\ pc # "off" => runRow = "running"
  /\ runRow = "running" /\ pc = "off" => epoch > 0

\* The worker that holds a task's dispatch can always finish it, also after restarts
\* that reissued its handle.
OwnerCanFinish ==
  \A t \in TasksWith("dispatched") : \A c \in DispatchesOf(t) :
    IsDispatchContext(c, t) =>
      LET h == HandleOf(dispatches[c].pane) IN AcceptsWorkerDone(c, h, PaneOf[h])

\* The circuit of a task breaks after that many faults of its workers and prompts.
BreakerCountsFaults ==
  \A c \in DOMAIN dispatches :
    dispatches[c].status = "circuit_broken" => faults[dispatches[c].task] >= BreakerThreshold

\* A task waits for one that failed: the loop does not notice.
Stranded ==
  \E t \in TasksWith("pending") : \E d \in tasks[t].deps : tasks[d].status = "failed"

\* A task was dispatched to an agent whose exit was not seen: nobody will report it.
Orphaned ==
  \E t \in TasksWith("dispatched") : \E c \in DispatchesOf(t) :
    IsDispatchContext(c, t) /\ terminal[dispatches[c].pane] = "lost" /\ ~InFlight(c)

\* The loop of a run ends, whatever escalates, asks or is seen to exit meanwhile, unless
\* a task is stranded behind a failed one or orphaned by an exit that was not seen: in
\* these two cases it polls for ever.
RunEnds == pc # "off" ~> pc = "off" \/ Stranded \/ Orphaned

\* A stopped loop ends, even when its tasks never do.
StopEndsLoop == stopped ~> pc = "off"

=============================================================================
