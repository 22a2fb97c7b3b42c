------------------------ MODULE CoordinatorLoopProofs ------------------------
(***************************************************************************)
(* What the loop keeps across its awaits: no dispatch is stranded on a     *)
(* terminal whose exit was seen, and never more tasks are dispatched than  *)
(* --max-concurrent.                                                       *)
(***************************************************************************)
EXTENDS CoordinatorProofs

\* Without an operator who dispatches, a step opens the loop's dispatch or none.
LEMMA OnlyTheLoopOpens ==
  ASSUME CoordinatorTypeOK, OrdinaryStep, "dispatch" \notin OperatorMay
  PROVE  \/ \E t \in DOMAIN tasks, p \in Panes : DispatchTask(t, p)
         \/ OnlyCloses(dispatches')
<1>0. BoardTypeOK
  BY DEF CoordinatorTypeOK
<1>1. BoardCall
  BY OrdinaryStepIsCall
<1>2. CASE Opening
  BY <1>2 DEF Opening
<1>3. CASE UNCHANGED dispatches
  BY <1>0, <1>3 DEF OnlyCloses, BoardTypeOK, Active
<1>4. ASSUME NEW t, CompleteTask(t) \/ CreateGate(t)
      PROVE  OnlyCloses(dispatches')
  BY <1>0, <1>4, CompletingOnlyCloses DEF CompleteTask, CreateGate
<1>5. CASE Charge
  BY <1>0, <1>5, FailingOnlyCloses DEF Charge
<1>6. CASE \/ UNCHANGED boardVars
           \/ \E D \in SUBSET DOMAIN tasks : CreateTask(D)
           \/ \E g \in DOMAIN gates : ResolveGate(g)
           \/ BlockGatedTasks
  BY <1>3, <1>6 DEF boardVars, CreateTask, ResolveGate, BlockGatedTasks
<1>7. CASE \/ \E t \in DOMAIN tasks, s \in Manual : UpdateTask(t, s)
           \/ \E d \in DOMAIN dispatches, h \in Handles : WorkerDone(d, h, PaneOf[h])
           \/ \E t \in DOMAIN tasks : CreateGate(t)
  BY <1>3, <1>4, <1>7 DEF UpdateTask, WorkerDone
<1> QED
  BY <1>1, <1>2, <1>5, <1>6, <1>7 DEF BoardCall, FreeCall

(***************************************************************************)
(* Dead terminals.                                                         *)
(***************************************************************************)

SeenToExit(c) == terminal[dispatches[c].pane] = "exited"

\* Without restarts a dispatch names the handle its pane still has, so the exit
\* handler, which looks up by the handle, finds it.
DeadInv ==
  /\ DeadTerminalHoldsNothing
  /\ prompts = {}
  /\ \A c \in DOMAIN dispatches : dispatches[c].handle = HandleOf(dispatches[c].pane)

LEMMA DeadClosingStep ==
  ASSUME CoordinatorTypeOK, DeadInv, OnlyCloses(dispatches'),
         UNCHANGED <<epoch, prompts>>,
         \A p \in Panes : terminal'[p] = "exited" => terminal[p] = "exited",
         pc = "sending" =>
           \/ UNCHANGED <<pc, cur>>
           \/ Active(cur) => WorkerAlive(cur)
           \/ dispatches'[cur].status # "dispatched"
  PROVE  DeadInv'
<1>1. ASSUME NEW c \in DOMAIN dispatches'
      PROVE  /\ c \in DOMAIN dispatches /\ dispatches[c].pane \in Panes
             /\ dispatches'[c].pane = dispatches[c].pane
             /\ dispatches'[c].handle = dispatches[c].handle
             /\ dispatches'[c].status = "dispatched" => Active(c)
  BY DEF OnlyCloses, CoordinatorTypeOK
<1>2. ASSUME NEW c \in DOMAIN dispatches', Active(c)', SeenToExit(c)'
      PROVE  InFlight(c)'
  <2>1. Active(c) /\ SeenToExit(c)
    BY <1>1, <1>2 DEF Active, SeenToExit
  <2>2. pc = "sending" /\ cur = c
    BY <1>1, <2>1 DEF DeadInv, DeadTerminalHoldsNothing, InFlight, SeenToExit
  <2> QED
    BY <1>2, <2>1, <2>2 DEF InFlight, Active, WorkerAlive, SeenToExit
<1>3. \A c \in DOMAIN dispatches' : dispatches'[c].handle = <<dispatches'[c].pane, epoch'>>
  BY <1>1 DEF DeadInv, HandleOf
<1> QED
  BY <1>2, <1>3 DEF DeadInv, DeadTerminalHoldsNothing, SeenToExit, HandleOf

\* The loop's own dispatch is the one whose prompt it writes.
LEMMA DeadDispatchStep ==
  ASSUME CoordinatorTypeOK, DeadInv,
         NEW t \in DOMAIN tasks, NEW p \in Panes, DispatchTask(t, p)
  PROVE  DeadInv'
<1> DEFINE k == Len(dispatches) + 1
<1>1. /\ pc = "probing" /\ pc' = "sending" /\ cur' = k
      /\ UNCHANGED <<terminal, epoch, prompts>>
      /\ CreateDispatchContext(t, HandleOf(p), p)
  BY DEF DispatchTask, mailVars
<1>2. /\ DOMAIN dispatches' = 1 .. k /\ Len(dispatches) \in Nat
      /\ DOMAIN dispatches = 1 .. Len(dispatches)
      /\ \A c \in DOMAIN dispatches : dispatches'[c] = dispatches[c]
      /\ dispatches'[k].handle = HandleOf(p) /\ dispatches'[k].pane = p
  BY <1>1, HandlesOfPanes, OpeningAppends DEF CoordinatorTypeOK
<1>3. ASSUME NEW c \in DOMAIN dispatches', Active(c)', SeenToExit(c)'
      PROVE  InFlight(c)'
  <2>1. CASE c = k
    BY <1>1, <2>1 DEF InFlight
  <2>2. CASE c \in DOMAIN dispatches
    BY <1>1, <1>2, <1>3, <2>2
       DEF Active, SeenToExit, InFlight, DeadInv, DeadTerminalHoldsNothing
  <2> QED
    BY <1>2, <2>1, <2>2
<1>4. \A c \in DOMAIN dispatches' : dispatches'[c].handle = <<dispatches'[c].pane, epoch'>>
  BY <1>1, <1>2 DEF DeadInv, HandleOf
<1> QED
  BY <1>1, <1>3, <1>4 DEF DeadInv, DeadTerminalHoldsNothing, SeenToExit, HandleOf

\* The exit handler finds the one dispatch the terminal holds and closes it.
LEMMA DeadExitStep ==
  ASSUME CoordinatorTypeOK, DeadInv, TerminalLock, OnlyCloses(dispatches'),
         NEW p \in Panes, AgentExit(p)
  PROVE  DeadInv'
<1>1. /\ UNCHANGED <<epoch, prompts, pc, cur>>
      /\ terminal' = [terminal EXCEPT ![p] = "exited"]
      /\ terminal \in [Panes -> {"none", "running", "exited", "lost"}]
  BY DEF AgentExit, loopVars, tick, CoordinatorTypeOK, WorldTypeOK
<1>2. \A c \in DOMAIN dispatches' :
        /\ c \in DOMAIN dispatches /\ dispatches[c].pane \in Panes
        /\ dispatches'[c].pane = dispatches[c].pane
        /\ dispatches'[c].handle = dispatches[c].handle
        /\ dispatches'[c].status = "dispatched" => Active(c)
        /\ dispatches[c].handle = HandleOf(dispatches[c].pane)
  BY DEF OnlyCloses, CoordinatorTypeOK, DeadInv
<1>3. ASSUME NEW c \in DOMAIN dispatches', dispatches[c].pane = p
      PROVE  dispatches'[c].status # "dispatched"
  <2>1. CASE ActiveForAssignee(HandleOf(p), NoPane) = {}
    BY <1>2, <1>3, <2>1 DEF ActiveForAssignee, Active
  <2>2. ASSUME NEW d \in ActiveForAssignee(HandleOf(p), NoPane), FailDispatch(d)
        PROVE  dispatches'[c].status # "dispatched"
    <3>1. d \in DOMAIN dispatches /\ Active(d) /\ dispatches[d].handle = HandleOf(p)
      BY <2>2 DEF ActiveForAssignee, SamePane
    <3>2. dispatches'[d].status # "dispatched"
      BY <2>2, <3>1, FailingOnlyCloses DEF CoordinatorTypeOK
    <3>3. Active(c) => c = d
      BY <1>2, <1>3, <3>1 DEF TerminalLock
    <3> QED
      BY <1>2, <3>2, <3>3
  <2> QED
    BY <2>1, <2>2 DEF AgentExit
<1>4. ASSUME NEW c \in DOMAIN dispatches', Active(c)', SeenToExit(c)'
      PROVE  InFlight(c)'
  <2>1. dispatches[c].pane # p /\ Active(c)
    BY <1>2, <1>3, <1>4 DEF Active
  <2>2. SeenToExit(c)
    BY <1>1, <1>2, <1>4, <2>1 DEF SeenToExit
  <2> QED
    BY <1>1, <1>2, <2>1, <2>2 DEF InFlight, DeadInv, DeadTerminalHoldsNothing, SeenToExit
<1>5. \A c \in DOMAIN dispatches' : dispatches'[c].handle = <<dispatches'[c].pane, epoch'>>
  BY <1>1, <1>2 DEF HandleOf
<1> QED
  BY <1>1, <1>4, <1>5 DEF DeadInv, DeadTerminalHoldsNothing, SeenToExit, HandleOf

\* Every other step leaves the terminals alive and the loop's prompt where it is,
\* unless the prompt is accepted by a living terminal or its rejection closes it.
LEMMA DeadLoopStep ==
  ASSUME CoordinatorTypeOK, DeadInv, OnlyCloses(dispatches'), LoopStep,
         ~\E t \in DOMAIN tasks, p \in Panes : DispatchTask(t, p)
  PROVE  DeadInv'
<1>0. terminal \in [Panes -> {"none", "running", "exited", "lost"}]
  BY DEF CoordinatorTypeOK, WorldTypeOK
<1>1. CASE PromptAccepted
  BY <1>1, DeadClosingStep DEF PromptAccepted, CanAccept, worldVars, mailVars
<1>2. CASE PromptRejected
  <2>1. cur \in DOMAIN dispatches /\ FailDispatch(cur)
    BY <1>2 DEF PromptRejected, CoordinatorTypeOK, LoopTypeOK
  <2>2. dispatches'[cur].status # "dispatched"
    BY <2>1, FailingOnlyCloses DEF CoordinatorTypeOK
  <2> QED
    BY <1>2, <2>2, DeadClosingStep DEF PromptRejected, worldVars
<1>3. ASSUME NEW p \in Panes, CreateTerminal(p)
      PROVE  DeadInv'
  <2>1. /\ pc = "creating" /\ UNCHANGED <<epoch, prompts>>
        /\ terminal' = [terminal EXCEPT ![p] = "running"]
    BY <1>3 DEF CreateTerminal, mailVars
  <2> QED
    BY <1>0, <2>1, DeadClosingStep
<1>4. ASSUME pc # "sending", UNCHANGED <<terminal, epoch, prompts>>
      PROVE  DeadInv'
  BY <1>4, DeadClosingStep
<1>5. CASE \/ StartTick \/ StopLoop \/ HandleMessage \/ EndMessages \/ ListTerminals
           \/ ListTerminalsFails \/ CreateTerminalFails
           \/ \E t \in todo, p \in avail : SkipStale(t, p)
           \/ \E t \in todo, p \in avail : DispatchRefused(t, p)
  BY <1>4, <1>5
     DEF StartTick, StopLoop, HandleMessage, EndMessages, ListTerminals, ListTerminalsFails,
         CreateTerminalFails, SkipStale, DispatchRefused, worldVars, mailVars
<1>6. ASSUME NEW t \in todo, NEW p \in avail, DispatchTask(t, p)
      PROVE  FALSE
  BY <1>6 DEF CoordinatorTypeOK, LoopTypeOK
<1> QED
  BY <1>1, <1>2, <1>3, <1>5, <1>6 DEF LoopStep

LEMMA DeadOtherStep ==
  ASSUME CoordinatorTypeOK, RunRowTracksLoop, DeadInv, OnlyCloses(dispatches'),
         "dispatch" \notin OperatorMay,
         \/ OrdinaryOperatorStep
         \/ \E c \in DOMAIN dispatches :
              WorkerDoneSent(c) \/ WorkerEscalates(c) \/ WorkerAsks(c)
         \/ \E p \in Panes : AgentExitUnseen(p)
  PROVE  DeadInv'
<1>1. ASSUME UNCHANGED <<terminal, epoch, prompts>>, UNCHANGED <<pc, cur>> \/ pc # "sending"
      PROVE  DeadInv'
  BY <1>1, DeadClosingStep
<1>2. CASE RunStart
  <2>1. pc # "sending"
    BY <1>2 DEF RunStart, RunRowTracksLoop
  <2> QED
    BY <1>1, <1>2, <2>1 DEF RunStart, worldVars, mailVars
<1>3. ASSUME \/ \E c \in prompts : InjectAccepted(c)
             \/ \E c \in prompts : InjectRejected(c)
             \/ \E t \in DOMAIN tasks, p \in Panes, inject \in BOOLEAN :
                  OperatorDispatches(t, p, inject)
      PROVE  FALSE
  BY <1>3 DEF OperatorDispatches, DeadInv
<1>4. CASE \/ OperatorCreates \/ OperatorUpdates \/ OperatorGates
           \/ \E g \in DOMAIN gates : OperatorResolves(g)
           \/ RunStop \/ RefreshBase \/ BaseMoves
  BY <1>1, <1>4
     DEF OperatorCreates, OperatorUpdates, OperatorGates, OperatorResolves, RunStop,
         RefreshBase, BaseMoves, loopVars, tick, worldVars, mailVars
<1>5. CASE \E c \in DOMAIN dispatches :
             WorkerDoneSent(c) \/ WorkerEscalates(c) \/ WorkerAsks(c)
  BY <1>1, <1>5
     DEF WorkerDoneSent, WorkerEscalates, WorkerAsks, loopVars, tick, worldVars
<1>6. ASSUME NEW p \in Panes, AgentExitUnseen(p)
      PROVE  DeadInv'
  <2>1. \A q \in Panes : terminal'[q] = "exited" => terminal[q] = "exited"
    BY <1>6 DEF AgentExitUnseen, CoordinatorTypeOK, WorldTypeOK
  <2>2. UNCHANGED <<epoch, prompts, pc, cur>>
    BY <1>6 DEF AgentExitUnseen, loopVars, tick, mailVars
  <2> QED
    BY <2>1, <2>2, DeadClosingStep
<1> QED
  BY <1>2, <1>3, <1>4, <1>5, <1>6 DEF OrdinaryOperatorStep

\* No terminal whose exit the runtime saw holds an open dispatch, whatever the order of
\* the exit, the list of terminals, the dispatch and the answer to its prompt; the one
\* exception is the dispatch whose prompt is about to be rejected.  It says nothing of an
\* exit that is not seen (a terminal without a leaf in the renderer's graph), which
\* leaves the dispatch open.  Stated without restarts, and of a coordination in which
\* only the loop dispatches.
THEOREM DeadTerminalsHoldNothing ==
  ASSUME MaxRestarts = 0, "dispatch" \notin OperatorMay
  PROVE  Spec => []DeadTerminalHoldsNothing
<1>1. Init => DeadInv
  BY DEF Init, BoardInit, DeadInv, DeadTerminalHoldsNothing
<1>2. CoordinatorTypeOK /\ RunRowTracksLoop /\ TerminalLock /\ DeadInv /\ [Next]_vars => DeadInv'
  <2> SUFFICES ASSUME CoordinatorTypeOK, RunRowTracksLoop, TerminalLock, DeadInv, [Next]_vars
               PROVE  DeadInv'
    OBVIOUS
  <2>1. CASE OrdinaryStep
    <3>1. CASE \E t \in DOMAIN tasks, p \in Panes : DispatchTask(t, p)
      BY <3>1, DeadDispatchStep
    <3>2. CASE ~\E t \in DOMAIN tasks, p \in Panes : DispatchTask(t, p)
      <4>1. OnlyCloses(dispatches')
        BY <2>1, <3>2, OnlyTheLoopOpens
      <4>2. ~Restart
        BY DEF Restart, CoordinatorTypeOK, WorldTypeOK
      <4>3. ASSUME NEW p \in Panes, AgentExit(p)
            PROVE  DeadInv'
        BY <4>1, <4>3, DeadExitStep
      <4> QED
        BY <2>1, <3>2, <4>1, <4>2, <4>3, DeadLoopStep, DeadOtherStep
           DEF OrdinaryStep, WorkerStep
    <3> QED
      BY <3>1, <3>2
  <2>2. CASE Reset
    <3>1. dispatches' = <<>> /\ UNCHANGED prompts
      BY <2>2 DEF Reset, ResetTasks
    <3> QED
      BY <3>1 DEF DeadInv, DeadTerminalHoldsNothing
  <2>3. CASE UNCHANGED vars
    BY <2>3 DEF vars, boardVars, loopVars, tick, worldVars, mailVars, DeadInv,
                DeadTerminalHoldsNothing, Active, InFlight, HandleOf
  <2> QED
    BY <2>1, <2>2, <2>3, NextCases
<1>3. DeadInv => DeadTerminalHoldsNothing
  BY DEF DeadInv
<1> QED
  BY <1>1, <1>2, <1>3, CoordinatorTypeCorrect, RunRowTracksLoopAlways, LoopKeepsTerminalLock,
     PTL DEF Spec

(***************************************************************************)
(* The concurrency limit.                                                  *)
(***************************************************************************)

Dispatched == TasksWith("dispatched")

\* The slots that the loop may still fill: counted at the start of the tick, and one
\* set aside for the task whose base is being probed.
SlotsHeld ==
  CASE pc \in {"listing", "creating", "sending"} -> slots
    [] pc = "probing" -> slots + 1
    [] OTHER -> 0

\* What is dispatched and what may still be dispatched in this tick fit together.
CapInv == Cardinality(Dispatched) + SlotsHeld <= MaxConcurrent

LEMMA DispatchedFinite ==
  ASSUME BoardTypeOK
  PROVE  IsFiniteSet(Dispatched) /\ Cardinality(Dispatched) \in Nat
<1>1. DOMAIN tasks = 1 .. Len(tasks) /\ Len(tasks) \in Nat
  BY LenProperties DEF BoardTypeOK
<1>2. IsFiniteSet(1 .. Len(tasks))
  BY <1>1, FS_Interval
<1>3. Dispatched \subseteq 1 .. Len(tasks)
  BY <1>1 DEF Dispatched, TasksWith
<1>4. IsFiniteSet(Dispatched)
  BY <1>2, <1>3, FS_Subset
<1> QED
  BY <1>4, FS_CardinalityType

LEMMA FewerDispatched ==
  ASSUME BoardTypeOK, NEW S, S \subseteq Dispatched
  PROVE  Cardinality(S) \in Nat /\ Cardinality(S) <= Cardinality(Dispatched)
<1>1. IsFiniteSet(Dispatched)
  BY DispatchedFinite
<1>2. IsFiniteSet(S) /\ Cardinality(S) <= Cardinality(Dispatched)
  BY <1>1, FS_Subset
<1> QED
  BY <1>2, FS_CardinalityType

\* No call but createDispatchContext makes a task dispatched.
LEMMA OnlyTheLoopDispatches ==
  ASSUME CoordinatorTypeOK, OrdinaryStep, "dispatch" \notin OperatorMay,
         "dispatched" \notin Manual
  PROVE  \/ \E t \in DOMAIN tasks, p \in Panes : DispatchTask(t, p)
         \/ Dispatched' \subseteq Dispatched
<1> USE DEF Dispatched, TasksWith
<1>0. BoardTypeOK
  BY DEF CoordinatorTypeOK
<1>1. BoardCall
  BY OrdinaryStepIsCall
<1>2. CASE Opening
  BY <1>2 DEF Opening
<1>3. CASE UNCHANGED tasks
  BY <1>3
<1>4. ASSUME NEW t \in DOMAIN tasks, NEW s \in TaskStatus, s # "dispatched",
             tasks' = SetStatus(t, s)
      PROVE  Dispatched' \subseteq Dispatched
  <2>1. /\ DOMAIN tasks' = DOMAIN tasks /\ tasks'[t].status = s
        /\ \A u \in DOMAIN tasks : u # t => tasks'[u] = tasks[u]
    BY <1>0, <1>4, SetStatusTyped
  <2> QED
    BY <1>4, <2>1
<1>5. ASSUME NEW t \in DOMAIN tasks, CompleteTask(t)
      PROVE  Dispatched' \subseteq Dispatched
  BY <1>0, <1>5, CompletedAndPromotedTyped DEF CompleteTask
<1>6. ASSUME NEW t \in DOMAIN tasks, NEW s \in Manual, UpdateTask(t, s)
      PROVE  Dispatched' \subseteq Dispatched
  BY <1>4, <1>5, <1>6, BoardAssumption DEF UpdateTask
<1>7. ASSUME NEW D \in SUBSET DOMAIN tasks, CreateTask(D)
      PROVE  Dispatched' \subseteq Dispatched
  <2> DEFINE row == [status |-> IF D = {} THEN "ready" ELSE "pending", deps |-> D]
  <2>1. tasks \in Seq(TaskRow) /\ DOMAIN tasks = 1 .. Len(tasks)
    BY <1>0, LenProperties DEF BoardTypeOK
  <2>2. row \in TaskRow
    BY <2>1 DEF TaskRow, TaskStatus
  <2>3. tasks' = Append(tasks, row)
    BY <1>7 DEF CreateTask
  <2>4. /\ Len(tasks) \in Nat /\ DOMAIN tasks' = 1 .. Len(tasks) + 1
        /\ tasks'[Len(tasks) + 1] = row
        /\ \A u \in DOMAIN tasks : tasks'[u] = tasks[u]
    BY <2>1, <2>2, <2>3, TableAppend
  <2> QED
    BY <2>1, <2>4
<1>8. ASSUME NEW c \in DOMAIN dispatches, FailDispatch(c)
      PROVE  Dispatched' \subseteq Dispatched
  BY <1>0, <1>4, <1>8 DEF FailDispatch, TaskStatus, BoardTypeOK
<1>9. ASSUME NEW c \in DOMAIN dispatches, NEW h \in Handles, WorkerDone(c, h, PaneOf[h])
      PROVE  Dispatched' \subseteq Dispatched
  BY <1>0, <1>5, <1>9 DEF WorkerDone, BoardTypeOK
<1>10. ASSUME NEW t \in DOMAIN tasks, CreateGate(t)
       PROVE  Dispatched' \subseteq Dispatched
  BY <1>4, <1>10 DEF CreateGate, TaskStatus
<1>11. ASSUME NEW g \in DOMAIN gates, ResolveGate(g)
       PROVE  Dispatched' \subseteq Dispatched
  BY <1>0, <1>4, <1>11 DEF ResolveGate, TaskStatus, BoardTypeOK
<1>12. CASE BlockGatedTasks
  BY <1>0, <1>12, GatedTasksBlockedTyped DEF BlockGatedTasks
<1> QED
  BY <1>1, <1>2, <1>3, <1>6, <1>7, <1>8, <1>9, <1>10, <1>11, <1>12
     DEF BoardCall, FreeCall, Charge, boardVars

\* The loop's dispatch uses up the slot set aside for it.
LEMMA CapDispatchStep ==
  ASSUME CoordinatorTypeOK, CapInv, NEW t \in DOMAIN tasks, NEW p \in Panes, DispatchTask(t, p)
  PROVE  CapInv'
<1>1. /\ pc = "probing" /\ pc' = "sending" /\ slots' = slots
      /\ tasks' = SetStatus(t, "dispatched")
  BY DEF DispatchTask, CreateDispatchContext
<1>2. /\ DOMAIN tasks' = DOMAIN tasks
      /\ \A u \in DOMAIN tasks : u # t => tasks'[u] = tasks[u]
  BY <1>1, SetStatusTyped DEF CoordinatorTypeOK, TaskStatus
<1>3. Dispatched' \subseteq Dispatched \cup {t}
  BY <1>2 DEF Dispatched, TasksWith
<1>4. IsFiniteSet(Dispatched) /\ Cardinality(Dispatched) \in Nat
  BY DispatchedFinite DEF CoordinatorTypeOK
<1>5. /\ IsFiniteSet(Dispatched \cup {t})
      /\ Cardinality(Dispatched \cup {t}) <= Cardinality(Dispatched) + 1
      /\ Cardinality(Dispatched \cup {t}) \in Nat
  <2>1. /\ IsFiniteSet(Dispatched \cup {t})
        /\ \/ Cardinality(Dispatched \cup {t}) = Cardinality(Dispatched)
           \/ Cardinality(Dispatched \cup {t}) = Cardinality(Dispatched) + 1
    BY <1>4, FS_AddElement, Zenon
  <2> QED
    BY <1>4, <2>1
<1>6. /\ Cardinality(Dispatched') <= Cardinality(Dispatched \cup {t})
      /\ Cardinality(Dispatched') \in Nat
  BY <1>3, <1>5, FS_Subset, FS_CardinalityType
<1>7. slots \in Nat
  BY CoordinatorAssumption DEF CoordinatorTypeOK, LoopTypeOK
<1>8. SlotsHeld = slots + 1 /\ SlotsHeld' = slots
  BY <1>1 DEF SlotsHeld
<1> QED
  BY <1>4, <1>5, <1>6, <1>7, <1>8, CoordinatorAssumption DEF CapInv

\* Every other step gives slots back at most.
LEMMA CapOtherStep ==
  ASSUME CoordinatorTypeOK, CapInv, Dispatched' \subseteq Dispatched,
         SlotsHeld' \in Nat, SlotsHeld' <= SlotsHeld, SlotsHeld \in Nat
  PROVE  CapInv'
<1>1. /\ Cardinality(Dispatched') \in Nat /\ Cardinality(Dispatched) \in Nat
      /\ Cardinality(Dispatched') <= Cardinality(Dispatched)
  BY FewerDispatched, DispatchedFinite DEF CoordinatorTypeOK
<1> QED
  BY <1>1, CoordinatorAssumption DEF CapInv

LEMMA SlotsAfterEndTick ==
  ASSUME NEW F, EndTick(F)
  PROVE  SlotsHeld' = 0
  BY DEF EndTick, NoLoop, Sleep, SlotsHeld

LEMMA SlotsAfterNextTask ==
  ASSUME NEW T, NEW A, NEW n \in Nat, NEW F, NextTask(T, A, n, F)
  PROVE  SlotsHeld' \in Nat /\ SlotsHeld' <= n
<1>1. CASE EndTick(F)
  BY <1>1, SlotsAfterEndTick
<1>2. CASE n # 0 /\ pc' = "probing" /\ slots' = n - 1
  BY <1>2 DEF SlotsHeld
<1> QED
  BY <1>1, <1>2 DEF NextTask

\* The snapshot counts what is dispatched at that moment.
LEMMA CapSnapshotStep ==
  ASSUME CoordinatorTypeOK, CapInv, EndMessages
  PROVE  CapInv'
<1>1. Dispatched' \subseteq Dispatched
  BY GatedTasksBlockedTyped
     DEF EndMessages, BlockGatedTasks, Dispatched, TasksWith, CoordinatorTypeOK
<1>2. Cardinality(Dispatched') \in Nat
  BY <1>1, FewerDispatched DEF CoordinatorTypeOK
<1>3. DispatchedCount = Cardinality(Dispatched')
  BY DEF DispatchedCount, Dispatched, TasksWith
<1>4. CASE EndTick(failedTasks)
  <2>1. SlotsHeld' = 0 /\ SlotsHeld = 0
    BY <1>4, SlotsAfterEndTick DEF EndMessages, SlotsHeld
  <2> QED
    BY <1>1, <2>1, CapOtherStep
<1>5. CASE /\ ~(DispatchedCount >= MaxConcurrent)
           /\ pc' = "listing" /\ slots' = MaxConcurrent - DispatchedCount
  BY <1>2, <1>3, <1>5, CoordinatorAssumption DEF CapInv, SlotsHeld
<1> QED
  BY <1>4, <1>5 DEF EndMessages, StartDispatching

LEMMA CapLoopStep ==
  ASSUME CoordinatorTypeOK, CapInv, LoopStep, Dispatched' \subseteq Dispatched,
         ~\E t \in DOMAIN tasks, p \in Panes : DispatchTask(t, p)
  PROVE  CapInv'
<1>0. slots \in Nat /\ SlotsHeld \in Nat
  BY CoordinatorAssumption DEF CoordinatorTypeOK, LoopTypeOK, SlotsHeld
<1>1. ASSUME SlotsHeld' \in Nat /\ SlotsHeld' <= SlotsHeld
      PROVE  CapInv'
  BY <1>0, <1>1, CapOtherStep
<1>2. CASE StartTick \/ HandleMessage \/ StopLoop
  <2>1. SlotsHeld' = 0
    BY <1>2 DEF StartTick, HandleMessage, StopLoop, NoLoop, SlotsHeld
  <2> QED
    BY <1>0, <1>1, <2>1
<1>3. CASE CreateTerminalFails
  BY <1>0, <1>1, <1>3, SlotsAfterEndTick DEF CreateTerminalFails
<1>4. ASSUME NEW T, NEW A, NEW F, NextTask(T, A, slots, F),
             pc \in {"listing", "creating", "probing", "sending"}
      PROVE  CapInv'
  <2>1. SlotsHeld' \in Nat /\ SlotsHeld' <= slots
    BY <1>0, <1>4, SlotsAfterNextTask
  <2>2. slots <= SlotsHeld
    BY <1>0, <1>4 DEF SlotsHeld
  <2> QED
    BY <1>0, <1>1, <2>1, <2>2
<1>5. ASSUME NEW A, pc = "listing", WithTerminals(A)
      PROVE  CapInv'
  <2>1. CASE pc' = "creating" /\ slots' = slots
    BY <1>0, <1>1, <1>5, <2>1 DEF SlotsHeld
  <2>2. CASE NextTask(todo, A, slots, failedTasks)
    BY <1>4, <1>5, <2>2
  <2> QED
    BY <1>5, <2>1, <2>2 DEF WithTerminals, tick
<1>6. CASE ListTerminals \/ ListTerminalsFails
  BY <1>5, <1>6 DEF ListTerminals, ListTerminalsFails
<1>7. CASE \E p \in Panes : CreateTerminal(p)
  BY <1>4, <1>7 DEF CreateTerminal
<1>8. CASE \/ \E t \in todo, p \in avail : SkipStale(t, p)
           \/ \E t \in todo, p \in avail : DispatchRefused(t, p)
  BY <1>4, <1>8 DEF SkipStale, DispatchRefused, Continue
<1>9. CASE PromptAccepted \/ PromptRejected
  BY <1>4, <1>9 DEF PromptAccepted, PromptRejected
<1>10. ASSUME NEW t \in todo, NEW p \in avail, DispatchTask(t, p)
       PROVE  FALSE
  BY <1>10 DEF CoordinatorTypeOK, LoopTypeOK
<1> QED
  BY <1>2, <1>3, <1>6, <1>7, <1>8, <1>9, <1>10, CapSnapshotStep DEF LoopStep

\* Whatever completes, fails, blocks or becomes ready while the loop waits, it never
\* has more than --max-concurrent tasks dispatched, although it counts them once per
\* tick.  Stated of a coordination in which only the loop dispatches.
THEOREM ConcurrencyCapHolds ==
  ASSUME "dispatch" \notin OperatorMay, "dispatched" \notin Manual
  PROVE  Spec => []ConcurrencyCap
<1>1. Init => CapInv
  <2> SUFFICES ASSUME Init PROVE CapInv
    OBVIOUS
  <2>1. Dispatched = {} /\ SlotsHeld = 0
    BY DEF Init, BoardInit, Dispatched, TasksWith, SlotsHeld
  <2> QED
    BY <2>1, FS_EmptySet, CoordinatorAssumption DEF CapInv
<1>2. CoordinatorTypeOK /\ RunRowTracksLoop /\ CapInv /\ [Next]_vars => CapInv'
  <2> SUFFICES ASSUME CoordinatorTypeOK, RunRowTracksLoop, CapInv, [Next]_vars
               PROVE  CapInv'
    OBVIOUS
  <2>0. SlotsHeld \in Nat
    BY CoordinatorAssumption DEF CoordinatorTypeOK, LoopTypeOK, SlotsHeld
  <2>1. CASE OrdinaryStep
    <3>1. CASE \E t \in DOMAIN tasks, p \in Panes : DispatchTask(t, p)
      BY <3>1, CapDispatchStep
    <3>2. CASE ~\E t \in DOMAIN tasks, p \in Panes : DispatchTask(t, p)
      <4>1. Dispatched' \subseteq Dispatched
        BY <2>1, <3>2, OnlyTheLoopDispatches
      <4>2. CASE LoopStep
        BY <3>2, <4>1, <4>2, CapLoopStep
      <4>3. ASSUME UNCHANGED loopVars
            PROVE  CapInv'
        <5>1. SlotsHeld' = SlotsHeld
          BY <4>3 DEF loopVars, tick, SlotsHeld
        <5> QED
          BY <2>0, <4>1, <5>1, CapOtherStep
      <4>4. CASE RunStart
        <5>1. pc = "off" /\ pc' \in {"off", "top"}
          BY <4>4 DEF RunStart, RunRowTracksLoop
        <5>2. SlotsHeld' = 0
          BY <5>1 DEF SlotsHeld
        <5> QED
          BY <2>0, <4>1, <5>2, CapOtherStep
      <4>5. CASE RunStop
        <5>1. SlotsHeld' = SlotsHeld
          BY <4>5 DEF RunStop, tick, SlotsHeld
        <5> QED
          BY <2>0, <4>1, <5>1, CapOtherStep
      <4>6. CASE Restart
        <5>1. SlotsHeld' = 0
          BY <4>6 DEF Restart, NoLoop, SlotsHeld
        <5> QED
          BY <2>0, <4>1, <5>1, CapOtherStep
      <4>7. CASE OrdinaryOperatorStep
        BY <4>3, <4>4, <4>5, <4>7
           DEF OrdinaryOperatorStep, OperatorCreates, OperatorUpdates, OperatorGates,
               OperatorResolves, OperatorDispatches, InjectAccepted, InjectRejected,
               RefreshBase, BaseMoves
      <4>8. CASE WorkerStep
        BY <4>3, <4>8
           DEF WorkerStep, WorkerDoneSent, WorkerEscalates, WorkerAsks, AgentExit,
               AgentExitUnseen
      <4> QED
        BY <2>1, <4>2, <4>6, <4>7, <4>8 DEF OrdinaryStep
    <3> QED
      BY <3>1, <3>2
  <2>2. CASE Reset
    <3>1. tasks' = <<>> /\ UNCHANGED <<pc, slots>>
      BY <2>2 DEF Reset, ResetTasks, tick
    <3>2. SlotsHeld' = SlotsHeld /\ Dispatched' \subseteq Dispatched
      BY <3>1 DEF SlotsHeld, Dispatched, TasksWith
    <3> QED
      BY <2>0, <3>2, CapOtherStep
  <2>3. CASE UNCHANGED vars
    <3>1. SlotsHeld' = SlotsHeld /\ Dispatched' = Dispatched
      BY <2>3 DEF vars, boardVars, loopVars, tick, SlotsHeld, Dispatched, TasksWith
    <3> QED
      BY <2>0, <3>1, CapOtherStep
  <2> QED
    BY <2>1, <2>2, <2>3, NextCases
<1>3. CoordinatorTypeOK /\ CapInv => ConcurrencyCap
  <2> SUFFICES ASSUME CoordinatorTypeOK, CapInv PROVE ConcurrencyCap
    OBVIOUS
  <2>1. Cardinality(Dispatched) \in Nat
    BY DispatchedFinite DEF CoordinatorTypeOK
  <2>2. SlotsHeld \in Nat
    BY CoordinatorAssumption DEF CoordinatorTypeOK, LoopTypeOK, SlotsHeld
  <2> QED
    BY <2>1, <2>2, CoordinatorAssumption DEF CapInv, ConcurrencyCap, Dispatched
<1> QED
  BY <1>1, <1>2, <1>3, CoordinatorTypeCorrect, RunRowTracksLoopAlways, PTL DEF Spec

=============================================================================
