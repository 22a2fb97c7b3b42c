-------------------------- MODULE CoordinatorProofs --------------------------
(***************************************************************************)
(* Theorems about Coordinator, for every number of panes, tasks, faults,   *)
(* exits and restarts.                                                     *)
(***************************************************************************)
EXTENDS Coordinator, TaskBoardProofs, FiniteSetTheorems

(***************************************************************************)
(* The coordinator implements the database's specification.                *)
(***************************************************************************)

\* A dispatch is made by the loop, or by an operator who does that.
Opening ==
  \E t \in DOMAIN tasks, p \in Panes :
    /\ CreateDispatchContext(t, HandleOf(p), p)
    /\ DispatchTask(t, p) \/ "dispatch" \in OperatorMay

\* A call of the database that charges no failure and is no reset, or none.
FreeCall ==
  \/ UNCHANGED boardVars
  \/ \E D \in SUBSET DOMAIN tasks : CreateTask(D)
  \/ \E t \in DOMAIN tasks, s \in Manual : UpdateTask(t, s)
  \/ Opening
  \/ \E c \in DOMAIN dispatches, h \in Handles : WorkerDone(c, h, PaneOf[h])
  \/ \E t \in DOMAIN tasks : CreateGate(t)
  \/ \E g \in DOMAIN gates : ResolveGate(g)
  \/ BlockGatedTasks

\* Why a failure is charged: an exit, a rejected prompt, or an escalation being read.
Reason(c) ==
  \/ Fault(dispatches[c].task)
  \/ CountRejection(c)
  \/ /\ UNCHANGED faults
     /\ \E i \in DOMAIN inbox :
          inbox[i].type = "escalation" /\ inbox[i].task = dispatches[c].task

Charge == \E c \in DOMAIN dispatches : FailDispatch(c) /\ Reason(c)

BoardCall == FreeCall \/ Charge

\* The steps of the coordinator's world, without the reset of the tables.
OrdinaryOperatorStep ==
  \/ OperatorCreates
  \/ OperatorUpdates
  \/ OperatorGates
  \/ \E g \in DOMAIN gates : OperatorResolves(g)
  \/ \E t \in DOMAIN tasks, p \in Panes, inject \in BOOLEAN : OperatorDispatches(t, p, inject)
  \/ \E c \in prompts : InjectAccepted(c)
  \/ \E c \in prompts : InjectRejected(c)
  \/ RunStart
  \/ RunStop
  \/ RefreshBase
  \/ BaseMoves

OrdinaryStep == LoopStep \/ OrdinaryOperatorStep \/ WorkerStep \/ Restart

LEMMA HandlesOfPanes ==
  ASSUME CoordinatorTypeOK, NEW p \in Panes
  PROVE  HandleOf(p) \in Handles /\ p \in KeysOf(HandleOf(p))
  BY CoordinatorAssumption DEF CoordinatorTypeOK, WorldTypeOK, HandleOf, KeysOf

\* Taking the first message off the inbox.
LEMMA InboxHead ==
  ASSUME CoordinatorTypeOK, inbox # <<>>
  PROVE  /\ Head(inbox) \in MessageRow
         /\ 1 \in DOMAIN inbox /\ Head(inbox) = inbox[1]
         /\ Head(inbox).task \in DOMAIN tasks
         /\ Head(inbox).handle \in Handles
         /\ Tail(inbox) \in Seq(MessageRow)
         /\ \A i \in DOMAIN Tail(inbox) : i + 1 \in DOMAIN inbox /\ Tail(inbox)[i] = inbox[i + 1]
<1>1. inbox \in Seq(MessageRow) /\ \A i \in DOMAIN inbox : inbox[i].task \in DOMAIN tasks
  BY DEF CoordinatorTypeOK, MailTypeOK
<1>2. /\ Head(inbox) \in MessageRow /\ Tail(inbox) \in Seq(MessageRow)
      /\ Len(Tail(inbox)) = Len(inbox) - 1
  BY <1>1, HeadTailProperties
<1>3. /\ Len(inbox) \in Nat \ {0} /\ DOMAIN inbox = 1 .. Len(inbox)
      /\ DOMAIN Tail(inbox) = 1 .. Len(Tail(inbox))
  BY <1>1, <1>2, LenProperties, EmptySeq
<1>4. Head(inbox) = inbox[1]
  BY <1>1
<1>5. \A i \in 1 .. Len(inbox) - 1 : Tail(inbox)[i] = inbox[i + 1]
  BY <1>1
<1>6. Head(inbox).handle \in Handles
  BY <1>2 DEF MessageRow
<1> QED
  BY <1>1, <1>2, <1>3, <1>4, <1>5, <1>6

\* A worker_done that the coordinator's world reconciles is a call of the database.
LEMMA WorkerDoneIsCall ==
  ASSUME NEW c, NEW h \in Handles, WorkerDone(c, h, PaneOf[h])
  PROVE  BoardCall
<1>1. c \in DOMAIN dispatches
  BY DEF WorkerDone, AcceptsWorkerDone
<1> QED
  BY <1>1 DEF BoardCall, FreeCall

LEMMA LoopStepIsCall ==
  ASSUME CoordinatorTypeOK, LoopStep
  PROVE  BoardCall
<1>1. ASSUME \/ StartTick \/ StopLoop \/ ListTerminals \/ ListTerminalsFails
             \/ \E p \in Panes : CreateTerminal(p)
             \/ CreateTerminalFails
             \/ \E t \in todo, p \in avail : SkipStale(t, p) \/ DispatchRefused(t, p)
             \/ PromptAccepted
      PROVE  BoardCall
  BY <1>1 DEF StartTick, StopLoop, ListTerminals, ListTerminalsFails, CreateTerminal,
              CreateTerminalFails, SkipStale, DispatchRefused, PromptAccepted, BoardCall, FreeCall
<1>2. CASE EndMessages
  BY <1>2 DEF EndMessages, BoardCall, FreeCall
<1>3. CASE HandleMessage
  <2> DEFINE m == Head(inbox)
  <2>1. /\ inbox # <<>>
        /\ \/ ReadWorkerDone(m)
           \/ m.type = "escalation" /\ ReadEscalation(m)
           \/ ReadGate(m)
    BY <1>3 DEF HandleMessage
  <2>2. m.handle \in Handles /\ m.task \in DOMAIN tasks
    BY <2>1, InboxHead
  <2>3. CASE ReadWorkerDone(m)
    BY <2>2, <2>3, WorkerDoneIsCall DEF ReadWorkerDone, BoardCall, FreeCall
  <2>4. CASE m.type = "escalation" /\ ReadEscalation(m)
    <3>1. CASE UNCHANGED boardVars
      BY <3>1 DEF BoardCall, FreeCall
    <3>2. ASSUME NEW c \in DispatchesOf(m.task), FailDispatch(c)
          PROVE  BoardCall
      <4>1. c \in DOMAIN dispatches /\ dispatches[c].task = m.task
        BY DEF DispatchesOf
      <4>2. UNCHANGED faults /\ m.type = "escalation"
        BY <1>3, <2>4 DEF HandleMessage
      <4>3. Reason(c)
        BY <2>1, <4>1, <4>2, InboxHead DEF Reason
      <4> QED
        BY <3>2, <4>1, <4>3 DEF BoardCall, Charge
    <3> QED
      BY <2>4, <3>1, <3>2 DEF ReadEscalation
  <2>5. CASE ReadGate(m)
    BY <2>2, <2>5 DEF ReadGate, BoardCall, FreeCall
  <2> QED
    BY <2>1, <2>3, <2>4, <2>5
<1>4. ASSUME NEW t \in todo, NEW p \in avail, DispatchTask(t, p)
      PROVE  BoardCall
  <2>1. t \in DOMAIN tasks /\ p \in Panes
    BY DEF CoordinatorTypeOK, LoopTypeOK
  <2>2. CreateDispatchContext(t, HandleOf(p), p)
    BY <1>4 DEF DispatchTask
  <2> QED
    BY <1>4, <2>1, <2>2 DEF BoardCall, FreeCall, Opening
<1>5. CASE PromptRejected
  <2>1. cur \in DOMAIN dispatches
    BY <1>5 DEF PromptRejected, CoordinatorTypeOK, LoopTypeOK
  <2> QED
    BY <1>5, <2>1 DEF PromptRejected, BoardCall, Charge, Reason
<1> QED
  BY <1>1, <1>2, <1>3, <1>4, <1>5 DEF LoopStep

LEMMA OperatorStepIsCall ==
  ASSUME CoordinatorTypeOK, OrdinaryOperatorStep
  PROVE  BoardCall
<1>1. ASSUME \/ \E c \in prompts : InjectAccepted(c)
             \/ RunStart \/ RunStop \/ RefreshBase \/ BaseMoves
      PROVE  BoardCall
  BY <1>1 DEF InjectAccepted, RunStart, RunStop, RefreshBase, BaseMoves, BoardCall, FreeCall
<1>2. ASSUME \/ OperatorCreates \/ OperatorUpdates \/ OperatorGates
             \/ \E g \in DOMAIN gates : OperatorResolves(g)
      PROVE  BoardCall
  BY <1>2 DEF OperatorCreates, OperatorUpdates, OperatorGates, OperatorResolves, BoardCall, FreeCall
<1>3. ASSUME NEW t \in DOMAIN tasks, NEW p \in Panes, NEW inject \in BOOLEAN,
             OperatorDispatches(t, p, inject)
      PROVE  BoardCall
  BY <1>3 DEF OperatorDispatches, BoardCall, FreeCall, Opening
<1>4. ASSUME NEW c \in prompts, InjectRejected(c)
      PROVE  BoardCall
  BY <1>4 DEF InjectRejected, CoordinatorTypeOK, MailTypeOK, BoardCall, Charge, Reason
<1> QED
  BY <1>1, <1>2, <1>3, <1>4 DEF OrdinaryOperatorStep

LEMMA WorkerStepIsCall ==
  ASSUME CoordinatorTypeOK, WorkerStep
  PROVE  BoardCall
<1>1. ASSUME NEW c \in DOMAIN dispatches, WorkerDoneSent(c)
      PROVE  BoardCall
  <2> DEFINE h == HandleOf(dispatches[c].pane)
  <2>1. CASE UNCHANGED boardVars
    BY <2>1 DEF BoardCall, FreeCall
  <2>2. CASE WorkerDone(c, h, PaneOf[h])
    <3>1. dispatches[c].pane \in Panes
      BY DEF CoordinatorTypeOK
    <3> QED
      BY <2>2, <3>1, HandlesOfPanes, WorkerDoneIsCall
  <2> QED
    BY <1>1, <2>1, <2>2 DEF WorkerDoneSent
<1>2. ASSUME \E c \in DOMAIN dispatches : WorkerEscalates(c) \/ WorkerAsks(c)
      PROVE  BoardCall
  BY <1>2 DEF WorkerEscalates, WorkerAsks, BoardCall, FreeCall
<1>3. ASSUME NEW p \in Panes, AgentExit(p)
      PROVE  BoardCall
  <2>1. CASE UNCHANGED boardVars
    BY <2>1 DEF BoardCall, FreeCall
  <2>2. ASSUME NEW c \in DOMAIN dispatches, FailDispatch(c), Fault(dispatches[c].task)
        PROVE  BoardCall
    BY <2>2 DEF BoardCall, Charge, Reason
  <2> QED
    BY <1>3, <2>1, <2>2 DEF AgentExit, ActiveForAssignee
<1>4. ASSUME NEW p \in Panes, AgentExitUnseen(p)
      PROVE  BoardCall
  BY <1>4 DEF AgentExitUnseen, BoardCall, FreeCall
<1> QED
  BY <1>1, <1>2, <1>3, <1>4 DEF WorkerStep

LEMMA OrdinaryStepIsCall ==
  ASSUME CoordinatorTypeOK, OrdinaryStep
  PROVE  BoardCall
<1>1. CASE Restart
  BY <1>1 DEF Restart, BoardCall, FreeCall
<1> QED
  BY <1>1, LoopStepIsCall, OperatorStepIsCall, WorkerStepIsCall DEF OrdinaryStep

LEMMA NextCases ==
  ASSUME Next
  PROVE  OrdinaryStep \/ Reset
  BY DEF Next, OperatorStep, OrdinaryOperatorStep, OrdinaryStep

LEMMA CallRefines ==
  ASSUME CoordinatorTypeOK, BoardCall
  PROVE  [BoardNext]_boardVars
<1>1. ASSUME NEW t \in DOMAIN tasks, NEW p \in Panes, CreateDispatchContext(t, HandleOf(p), p)
      PROVE  BoardNext
  BY <1>1, HandlesOfPanes DEF BoardNext
<1>2. ASSUME NEW c \in DOMAIN dispatches, NEW h \in Handles, WorkerDone(c, h, PaneOf[h])
      PROVE  BoardNext
  <2>1. PaneOf[h] \in KeysOf(h)
    BY DEF KeysOf
  <2> QED
    BY <1>2, <2>1 DEF BoardNext
<1> QED
  BY <1>1, <1>2 DEF BoardCall, FreeCall, Opening, Charge, BoardNext

LEMMA StepRefines ==
  ASSUME CoordinatorTypeOK, [Next]_vars
  PROVE  [BoardNext]_boardVars
<1>1. CASE OrdinaryStep
  BY <1>1, OrdinaryStepIsCall, CallRefines
<1>2. CASE Reset
  BY <1>2 DEF Reset, BoardNext
<1>3. CASE UNCHANGED vars
  BY <1>3 DEF vars, boardVars
<1> QED
  BY <1>1, <1>2, <1>3, NextCases

(***************************************************************************)
(* The run row.                                                            *)
(***************************************************************************)

RunInv == epoch \in Nat /\ RunRowTracksLoop

LEMMA RunRowStep ==
  ASSUME RunInv, [Next]_vars
  PROVE  RunInv'
<1> USE DEF RunInv, RunRowTracksLoop
<1>1. ASSUME UNCHANGED epoch,
             \/ UNCHANGED <<pc, runRow>>
             \/ pc' # "off" /\ pc # "off" /\ UNCHANGED runRow
             \/ pc' = "off" /\ runRow' # "running"
      PROVE  RunInv'
  BY <1>1
<1>2. ASSUME NEW F, EndTick(F), pc # "off"
      PROVE  \/ pc' # "off" /\ UNCHANGED runRow
             \/ pc' = "off" /\ runRow' # "running"
  BY <1>2 DEF EndTick, NoLoop, Sleep
<1>3. ASSUME NEW T, NEW A, NEW n, NEW F, NextTask(T, A, n, F), pc # "off"
      PROVE  \/ pc' # "off" /\ UNCHANGED runRow
             \/ pc' = "off" /\ runRow' # "running"
  <2>1. CASE EndTick(F)
    BY <1>2, <1>3, <2>1
  <2>2. CASE pc' = "probing" /\ UNCHANGED runRow
    BY <2>2
  <2> QED
    BY <1>3, <2>1, <2>2 DEF NextTask
<1>4. CASE StartTick \/ StopLoop \/ HandleMessage \/ RunStart \/ RunStop
  <2>1. CASE StartTick
    BY <1>1, <2>1 DEF StartTick, worldVars
  <2>2. CASE StopLoop
    BY <1>1, <2>2 DEF StopLoop, NoLoop, worldVars
  <2>3. CASE HandleMessage \/ RunStop
    BY <1>1, <2>3 DEF HandleMessage, RunStop, worldVars
  <2>4. CASE RunStart
    <3>1. UNCHANGED epoch /\ pc = "off"
      BY <2>4 DEF RunStart, worldVars
    <3>2. \/ pc' = "off" /\ runRow' = "failed"
          \/ pc' = "top" /\ runRow' = "running"
      BY <2>4, <3>1 DEF RunStart
    <3> QED
      BY <3>1, <3>2
  <2> QED
    BY <1>4, <2>1, <2>2, <2>3, <2>4
<1>5. CASE EndMessages
  BY <1>1, <1>2, <1>5 DEF EndMessages, StartDispatching, worldVars
<1>6. CASE \/ ListTerminals \/ ListTerminalsFails \/ CreateTerminalFails
           \/ \E p \in Panes : CreateTerminal(p)
  BY <1>1, <1>2, <1>3, <1>6
     DEF ListTerminals, ListTerminalsFails, CreateTerminalFails, CreateTerminal, WithTerminals,
         worldVars
<1>7. CASE \/ \E t \in todo, p \in avail : SkipStale(t, p)
           \/ \E t \in todo, p \in avail : DispatchRefused(t, p)
           \/ \E t \in todo, p \in avail : DispatchTask(t, p)
  BY <1>1, <1>3, <1>7 DEF SkipStale, DispatchRefused, DispatchTask, Continue, worldVars
<1>8. CASE PromptAccepted \/ PromptRejected
  BY <1>1, <1>3, <1>8 DEF PromptAccepted, PromptRejected, worldVars
<1>9. CASE Reset
  BY <1>1, <1>9 DEF Reset, worldVars
<1>10. CASE OrdinaryOperatorStep
  BY <1>1, <1>4, <1>10
     DEF OrdinaryOperatorStep, OperatorCreates, OperatorUpdates, OperatorGates,
         OperatorResolves, OperatorDispatches, InjectAccepted, InjectRejected,
         RefreshBase, BaseMoves, loopVars, worldVars
<1>11. CASE WorkerStep \/ UNCHANGED vars
  BY <1>1, <1>11
     DEF WorkerStep, WorkerDoneSent, WorkerEscalates, WorkerAsks, AgentExit,
         AgentExitUnseen, vars, loopVars, worldVars
<1>12. CASE Restart
  BY <1>12 DEF Restart, NoLoop
<1> QED
  BY <1>4, <1>5, <1>6, <1>7, <1>8, <1>9, <1>10, <1>11, <1>12, NextCases
     DEF OrdinaryStep, LoopStep

\* A live loop always finds its run 'running', and only a restart leaves a run
\* 'running' without a loop: run may refuse on the row alone, and runStop may take a
\* missing coordinator for a finished one, as long as the application never died.
THEOREM RunRowTracksLoopAlways == Spec => []RunRowTracksLoop
<1>1. Init => RunInv
  BY DEF Init, RunInv, RunRowTracksLoop
<1>2. RunInv /\ [Next]_vars => RunInv'
  BY RunRowStep
<1>3. RunInv => RunRowTracksLoop
  BY DEF RunInv
<1> QED
  BY <1>1, <1>2, <1>3, PTL DEF Spec

(***************************************************************************)
(* Type correctness.                                                       *)
(***************************************************************************)

\* No call but a reset removes a row, and none opens a context without a pane.
LEMMA CallGrows ==
  ASSUME CoordinatorTypeOK, BoardCall
  PROVE  /\ DOMAIN tasks \subseteq DOMAIN tasks'
         /\ DOMAIN tasks' \subseteq DOMAIN tasks \cup 1 .. MaxTasks
         /\ DOMAIN dispatches \subseteq DOMAIN dispatches'
         /\ \A c \in DOMAIN dispatches : dispatches'[c].task = dispatches[c].task
         /\ \A c \in DOMAIN dispatches' : dispatches'[c].pane \in Panes
<1> DEFINE Grows == /\ DOMAIN tasks \subseteq DOMAIN tasks'
                    /\ DOMAIN tasks' \subseteq DOMAIN tasks \cup 1 .. MaxTasks
                    /\ DOMAIN dispatches \subseteq DOMAIN dispatches'
                    /\ \A c \in DOMAIN dispatches : dispatches'[c].task = dispatches[c].task
                    /\ \A c \in DOMAIN dispatches' : dispatches'[c].pane \in Panes
<1>0. BoardTypeOK /\ \A c \in DOMAIN dispatches : dispatches[c].pane \in Panes
  BY DEF CoordinatorTypeOK
<1>1. ASSUME UNCHANGED dispatches \/ OnlyCloses(dispatches'),
             DOMAIN tasks \subseteq DOMAIN tasks',
             DOMAIN tasks' \subseteq DOMAIN tasks \cup 1 .. MaxTasks
      PROVE  Grows
  BY <1>0, <1>1 DEF OnlyCloses
<1>2. ASSUME NEW t \in DOMAIN tasks, NEW s \in TaskStatus, tasks' = SetStatus(t, s)
      PROVE  DOMAIN tasks' = DOMAIN tasks
  BY <1>0, <1>2, SetStatusTyped
<1>3. CASE UNCHANGED boardVars
  BY <1>1, <1>3 DEF boardVars
<1>4. ASSUME NEW D \in SUBSET DOMAIN tasks, CreateTask(D)
      PROVE  Grows
  <2> DEFINE row == [status |-> IF D = {} THEN "ready" ELSE "pending", deps |-> D]
  <2>1. tasks \in Seq(TaskRow) /\ DOMAIN tasks = 1 .. Len(tasks)
    BY <1>0, LenProperties DEF BoardTypeOK
  <2>2. row \in TaskRow
    BY <2>1 DEF TaskRow, TaskStatus
  <2>3. tasks' = Append(tasks, row) /\ dispatches' = dispatches
    BY <1>4 DEF CreateTask
  <2>4. /\ DOMAIN tasks \subseteq DOMAIN tasks'
        /\ DOMAIN tasks' \subseteq DOMAIN tasks \cup 1 .. MaxTasks
    <3>1. /\ Len(tasks) \in Nat /\ Len(tasks) < MaxTasks
          /\ DOMAIN tasks' = 1 .. Len(tasks) + 1
      BY <1>4, <2>1, <2>2, <2>3, TableAppend DEF CreateTask
    <3> QED
      BY <2>1, <3>1, BoardAssumption
  <2> QED
    BY <1>1, <2>3, <2>4
<1>5. ASSUME NEW t \in DOMAIN tasks, CompleteTask(t)
      PROVE  Grows
  BY <1>0, <1>1, <1>5, CompletedAndPromotedTyped, CompletingOnlyCloses DEF CompleteTask
<1>6. ASSUME NEW t \in DOMAIN tasks, NEW s \in Manual, UpdateTask(t, s)
      PROVE  Grows
  BY <1>1, <1>2, <1>5, <1>6, BoardAssumption DEF UpdateTask
<1>7. ASSUME NEW t \in DOMAIN tasks, NEW p \in Panes, CreateDispatchContext(t, HandleOf(p), p)
      PROVE  Grows
  <2> DEFINE k == Len(dispatches) + 1
  <2>1. /\ Len(dispatches) \in Nat /\ DOMAIN dispatches = 1 .. Len(dispatches)
        /\ DOMAIN dispatches' = 1 .. k
        /\ \A c \in DOMAIN dispatches : dispatches'[c] = dispatches[c]
        /\ dispatches'[k].pane = p
    BY <1>0, <1>7, HandlesOfPanes, OpeningAppends
  <2>2. DOMAIN tasks' = DOMAIN tasks
    BY <1>2, <1>7 DEF CreateDispatchContext, TaskStatus
  <2>3. \A c \in DOMAIN dispatches' : c \in DOMAIN dispatches \/ c = k
    BY <2>1
  <2> QED
    BY <1>0, <2>1, <2>2, <2>3
<1>8. ASSUME NEW c \in DOMAIN dispatches, FailDispatch(c)
      PROVE  Grows
  <2>1. dispatches[c].task \in DOMAIN tasks
    BY <1>0 DEF BoardTypeOK
  <2>2. DOMAIN tasks' = DOMAIN tasks
    BY <1>2, <1>8, <2>1 DEF FailDispatch, TaskStatus
  <2> QED
    BY <1>0, <1>1, <1>8, <2>2, FailingOnlyCloses
<1>9. ASSUME NEW c \in DOMAIN dispatches, NEW h \in Handles, WorkerDone(c, h, PaneOf[h])
      PROVE  Grows
  BY <1>0, <1>5, <1>9 DEF WorkerDone, BoardTypeOK
<1>10. ASSUME NEW t \in DOMAIN tasks, CreateGate(t)
       PROVE  Grows
  BY <1>0, <1>1, <1>2, <1>10, CompletingOnlyCloses DEF CreateGate, TaskStatus
<1>11. ASSUME NEW g \in DOMAIN gates, ResolveGate(g)
       PROVE  Grows
  BY <1>0, <1>1, <1>2, <1>11 DEF ResolveGate, TaskStatus, BoardTypeOK
<1>12. CASE BlockGatedTasks
  BY <1>0, <1>1, <1>12, GatedTasksBlockedTyped DEF BlockGatedTasks
<1> QED
  BY <1>3, <1>4, <1>6, <1>7, <1>8, <1>9, <1>10, <1>11, <1>12
     DEF BoardCall, FreeCall, Opening, Charge

LEMMA WorldTypeStep ==
  ASSUME CoordinatorTypeOK, [Next]_vars
  PROVE  WorldTypeOK'
<1> USE CoordinatorAssumption DEF WorldTypeOK
<1>0. WorldTypeOK
  BY DEF CoordinatorTypeOK
<1>1. ASSUME NEW p \in avail \cup Panes, CreateTerminal(p)
      PROVE  WorldTypeOK'
  BY <1>0, <1>1 DEF CreateTerminal
<1>2. ASSUME NEW p \in Panes, AgentExit(p) \/ AgentExitUnseen(p)
      PROVE  WorldTypeOK'
  BY <1>0, <1>2 DEF AgentExit, AgentExitUnseen
<1>3. CASE Restart
  <2>1. epoch' \in 0 .. MaxRestarts
    BY <1>0, <1>3 DEF Restart
  <2> QED
    BY <1>0, <1>3, <2>1 DEF Restart
<1>4. ASSUME /\ UNCHANGED <<terminal, epoch>> /\ stale' \in BOOLEAN
             /\ UNCHANGED glitches \/ Glitch
      PROVE  WorldTypeOK'
  BY <1>0, <1>4 DEF Glitch
<1>5. ASSUME \/ StartTick \/ StopLoop \/ HandleMessage \/ EndMessages
             \/ ListTerminals \/ ListTerminalsFails \/ CreateTerminalFails
             \/ \E t \in todo, p \in avail : SkipStale(t, p)
             \/ \E t \in todo, p \in avail : DispatchTask(t, p)
             \/ \E t \in todo, p \in avail : DispatchRefused(t, p)
             \/ PromptAccepted \/ PromptRejected
      PROVE  WorldTypeOK'
  BY <1>0, <1>4, <1>5
     DEF StartTick, StopLoop, HandleMessage, EndMessages, ListTerminals, ListTerminalsFails,
         CreateTerminalFails, SkipStale, DispatchTask, DispatchRefused, PromptAccepted,
         PromptRejected, worldVars
<1>6. CASE OperatorStep
  BY <1>0, <1>4, <1>6
     DEF OperatorStep, OperatorCreates, OperatorUpdates, OperatorGates, OperatorResolves,
         OperatorDispatches, InjectAccepted, InjectRejected, RunStart, RunStop, Reset,
         RefreshBase, BaseMoves, worldVars
<1>7. ASSUME \/ \E c \in DOMAIN dispatches : WorkerDoneSent(c)
             \/ \E c \in DOMAIN dispatches : WorkerEscalates(c)
             \/ \E c \in DOMAIN dispatches : WorkerAsks(c)
             \/ UNCHANGED vars
      PROVE  WorldTypeOK'
  BY <1>0, <1>4, <1>7 DEF WorkerDoneSent, WorkerEscalates, WorkerAsks, vars, worldVars
<1> QED
  BY <1>1, <1>2, <1>3, <1>5, <1>6, <1>7 DEF Next, LoopStep, WorkerStep

\* The end of a tick, and the head of the dispatch loop, leave the loop well formed.
LEMMA NoLoopTyped ==
  ASSUME NoLoop, runRow' \in {"none", "running", "completed", "failed"}
  PROVE  LoopTypeOK'
<1>1. stopped' \in BOOLEAN
  BY DEF NoLoop
<1>2. /\ pc' = "off" /\ todo' = {} /\ avail' = {} /\ slots' = 0 /\ cur' = 0
      /\ failedTasks' = {}
  BY DEF NoLoop
<1>3. slots' \in 0 .. MaxConcurrent
  BY <1>2, CoordinatorAssumption
<1> QED
  BY <1>1, <1>2, <1>3 DEF LoopTypeOK, PcValues

LEMMA EndTickTyped ==
  ASSUME CoordinatorTypeOK, NEW F, F \subseteq DOMAIN tasks', EndTick(F)
  PROVE  LoopTypeOK'
<1>1. runRow \in {"none", "running", "completed", "failed"} /\ stopped \in BOOLEAN
  BY DEF CoordinatorTypeOK, LoopTypeOK
<1>2. CASE NoLoop /\ runRow' \in {"completed", "failed"}
  BY <1>2, NoLoopTyped
<1>3. CASE Sleep(F)
  BY <1>1, <1>3, CoordinatorAssumption DEF Sleep, LoopTypeOK, PcValues
<1> QED
  BY <1>2, <1>3 DEF EndTick

LEMMA NextTaskTyped ==
  ASSUME CoordinatorTypeOK, NEW T, NEW A, NEW n \in 0 .. MaxConcurrent, NEW F,
         T \subseteq DOMAIN tasks', A \subseteq Panes, F \subseteq DOMAIN tasks',
         NextTask(T, A, n, F)
  PROVE  LoopTypeOK'
<1>1. CASE n = 0 \/ T = {} \/ A = {}
  BY <1>1, EndTickTyped DEF NextTask
<1>2. CASE ~(n = 0 \/ T = {} \/ A = {})
  <2>1. runRow \in {"none", "running", "completed", "failed"} /\ stopped \in BOOLEAN
    BY DEF CoordinatorTypeOK, LoopTypeOK
  <2>2. n - 1 \in 0 .. MaxConcurrent
    BY <1>2, CoordinatorAssumption
  <2> QED
    BY <1>2, <2>1, <2>2 DEF NextTask, LoopTypeOK, PcValues
<1> QED
  BY <1>1, <1>2

\* The snapshot of the free slots is a number of slots.
LEMMA FreeSlots ==
  ASSUME BoardTypeOK', ~(DispatchedCount >= MaxConcurrent)
  PROVE  MaxConcurrent - DispatchedCount \in 0 .. MaxConcurrent
<1> DEFINE S == {t \in DOMAIN tasks' : tasks'[t].status = "dispatched"}
<1>1. DOMAIN tasks' = 1 .. Len(tasks)' /\ Len(tasks)' \in Nat
  BY LenProperties DEF BoardTypeOK
<1>2. IsFiniteSet(1 .. Len(tasks)')
  BY <1>1, FS_Interval
<1>3. IsFiniteSet(S)
  BY <1>1, <1>2, FS_Subset
<1>4. Cardinality(S) \in Nat
  BY <1>3, FS_CardinalityType
<1> QED
  BY <1>4, CoordinatorAssumption DEF DispatchedCount

LEMMA LoopTypeStep ==
  ASSUME CoordinatorTypeOK, RunRowTracksLoop, OrdinaryStep
  PROVE  LoopTypeOK'
<1> USE DEF PcValues
<1>0. LoopTypeOK
  BY DEF CoordinatorTypeOK
<1>1. /\ DOMAIN tasks \subseteq DOMAIN tasks'
      /\ DOMAIN dispatches \subseteq DOMAIN dispatches'
  BY OrdinaryStepIsCall, CallGrows
<1>2. CASE UNCHANGED loopVars
  BY <1>0, <1>1, <1>2 DEF LoopTypeOK, loopVars, tick
<1>3. ASSUME pc' \in {"messages", "top"}, pc \in {"top", "off"}, UNCHANGED <<tick, failedTasks>>,
             stopped' \in BOOLEAN, runRow' \in {"none", "running", "completed", "failed"}
      PROVE  LoopTypeOK'
  BY <1>0, <1>1, <1>3 DEF LoopTypeOK, tick
<1>4. CASE StartTick \/ RunStart \/ RunStop
  <2>1. CASE StartTick
    BY <1>0, <1>3, <2>1 DEF StartTick, LoopTypeOK
  <2>2. CASE RunStart
    <3>1. pc = "off"
      BY <2>2 DEF RunStart, RunRowTracksLoop
    <3>2. UNCHANGED <<tick, failedTasks, stopped>>
      BY <2>2 DEF RunStart
    <3>3. CASE runRow' = "running" /\ pc' = "top"
      BY <1>0, <1>3, <3>1, <3>2, <3>3 DEF LoopTypeOK
    <3>4. CASE runRow' = "failed" /\ UNCHANGED pc
      BY <1>0, <1>1, <3>1, <3>2, <3>4 DEF LoopTypeOK, tick
    <3> QED
      BY <2>2, <3>3, <3>4 DEF RunStart
  <2>3. CASE RunStop
    <3>1. stopped' \in BOOLEAN
      BY <2>3 DEF RunStop
    <3>2. UNCHANGED <<pc, tick, failedTasks, runRow>>
      BY <2>3 DEF RunStop
    <3> QED
      BY <1>0, <1>1, <3>1, <3>2 DEF LoopTypeOK, tick
  <2> QED
    BY <1>4, <2>1, <2>2, <2>3
<1>5. CASE StopLoop \/ Restart
  <2>1. NoLoop /\ runRow' \in {"none", "running", "completed", "failed"}
    BY <1>0, <1>5 DEF StopLoop, Restart, LoopTypeOK
  <2> QED
    BY <2>1, NoLoopTyped
<1>6. CASE HandleMessage
  <2>1. UNCHANGED <<pc, tick, stopped, runRow>>
    BY <1>6 DEF HandleMessage
  <2>2. failedTasks' \subseteq DOMAIN tasks
    BY <1>0, <1>6, InboxHead
       DEF HandleMessage, ReadWorkerDone, ReadEscalation, ReadGate, LoopTypeOK
  <2> QED
    BY <1>0, <1>1, <1>6, <2>1, <2>2 DEF HandleMessage, LoopTypeOK, tick
<1>7. CASE EndMessages
  <2>1. BoardTypeOK'
    BY <1>7, BoardTypeStep DEF EndMessages, CoordinatorTypeOK, BoardNext
  <2>2. CASE EndTick(failedTasks)
    BY <1>0, <1>1, <2>2, EndTickTyped DEF LoopTypeOK
  <2>3. CASE ~(ReadyTasks = {} \/ DispatchedCount >= MaxConcurrent)
    <3>1. /\ pc' = "listing" /\ todo' = ReadyTasks
          /\ slots' = MaxConcurrent - DispatchedCount
          /\ UNCHANGED <<avail, cur, stopped, failedTasks, runRow>>
      BY <1>7, <2>3 DEF EndMessages, StartDispatching
    <3>2. slots' \in 0 .. MaxConcurrent
      BY <2>1, <2>3, <3>1, FreeSlots
    <3> QED
      BY <1>0, <1>1, <1>7, <3>1, <3>2 DEF EndMessages, LoopTypeOK, ReadyTasks
  <2> QED
    BY <1>7, <2>2, <2>3 DEF EndMessages, StartDispatching
<1>8. ASSUME NEW A, A \subseteq Panes, pc = "listing", WithTerminals(A)
      PROVE  LoopTypeOK'
  BY <1>0, <1>1, <1>8, NextTaskTyped DEF WithTerminals, LoopTypeOK, tick
<1>9. CASE ListTerminals \/ ListTerminalsFails
  BY <1>8, <1>9 DEF ListTerminals, ListTerminalsFails
<1>10. ASSUME NEW p \in Panes, CreateTerminal(p)
       PROVE  LoopTypeOK'
  <2>1. NextTask(todo, {p}, slots, failedTasks) /\ {p} \subseteq Panes
    BY <1>10 DEF CreateTerminal
  <2>2. /\ todo \subseteq DOMAIN tasks' /\ failedTasks \subseteq DOMAIN tasks'
        /\ slots \in 0 .. MaxConcurrent
    BY <1>0, <1>1 DEF LoopTypeOK
  <2> QED
    BY <2>1, <2>2, NextTaskTyped
<1>11. CASE CreateTerminalFails
  BY <1>0, <1>1, <1>11, EndTickTyped DEF CreateTerminalFails, LoopTypeOK
<1>12. ASSUME NEW t, NEW p, SkipStale(t, p) \/ DispatchRefused(t, p)
       PROVE  LoopTypeOK'
  <2>1. NextTask(todo \ {t}, avail \ {p}, slots, failedTasks)
    BY <1>12 DEF SkipStale, DispatchRefused, Continue
  <2>2. /\ todo \ {t} \subseteq DOMAIN tasks' /\ avail \ {p} \subseteq Panes
        /\ failedTasks \subseteq DOMAIN tasks' /\ slots \in 0 .. MaxConcurrent
    BY <1>0, <1>1 DEF LoopTypeOK
  <2> QED
    BY <2>1, <2>2, NextTaskTyped
<1>13. ASSUME NEW t \in todo, NEW p \in avail, DispatchTask(t, p)
       PROVE  LoopTypeOK'
  <2>1. CreateDispatchContext(t, HandleOf(p), p) /\ t \in DOMAIN tasks /\ p \in Panes
    BY <1>0, <1>13 DEF DispatchTask, LoopTypeOK
  <2>2. Len(dispatches) + 1 \in DOMAIN dispatches' /\ Len(dispatches) + 1 # 0
    BY <2>1, HandlesOfPanes, OpeningAppends DEF CoordinatorTypeOK
  <2> QED
    BY <1>0, <1>1, <1>13, <2>2 DEF DispatchTask, LoopTypeOK
<1>14. CASE PromptAccepted
  BY <1>0, <1>1, <1>14, NextTaskTyped DEF PromptAccepted, LoopTypeOK
<1>15. CASE PromptRejected
  <2> DEFINE F == IF Breaks(cur) THEN failedTasks \cup {dispatches[cur].task} ELSE failedTasks
  <2>1. NextTask(todo, avail, slots, F) /\ cur \in DOMAIN dispatches
    BY <1>0, <1>15 DEF PromptRejected, LoopTypeOK
  <2>2. dispatches[cur].task \in DOMAIN tasks
    BY <2>1 DEF CoordinatorTypeOK, BoardTypeOK
  <2>3. F \subseteq DOMAIN tasks'
    BY <1>0, <1>1, <2>2 DEF LoopTypeOK
  <2> QED
    BY <1>0, <1>1, <2>1, <2>3, NextTaskTyped DEF LoopTypeOK
<1>16. CASE OrdinaryOperatorStep
  BY <1>2, <1>4, <1>16
     DEF OrdinaryOperatorStep, OperatorCreates, OperatorUpdates, OperatorGates,
         OperatorResolves, OperatorDispatches, InjectAccepted, InjectRejected,
         RefreshBase, BaseMoves
<1>17. CASE WorkerStep
  BY <1>2, <1>17
     DEF WorkerStep, WorkerDoneSent, WorkerEscalates, WorkerAsks, AgentExit, AgentExitUnseen
<1> QED
  BY <1>4, <1>5, <1>6, <1>7, <1>9, <1>10, <1>11, <1>12, <1>13, <1>14, <1>15, <1>16, <1>17
     DEF OrdinaryStep, LoopStep

\* A message about the task of a dispatch is well formed.
LEMMA MessageTyped ==
  ASSUME CoordinatorTypeOK, NEW c \in DOMAIN dispatches, NEW h \in Handles, NEW d \in Nat,
         NEW type \in {"worker_done", "escalation", "decision_gate"}
  PROVE  LET m == Message(type, dispatches[c].task, d, h) IN
         /\ m \in MessageRow
         /\ m.task \in DOMAIN tasks
         /\ m.task = dispatches[c].task /\ m.type = type
<1>1. dispatches[c].task \in DOMAIN tasks
  BY DEF CoordinatorTypeOK, BoardTypeOK
<1>2. dispatches[c].task \in Nat
  BY <1>1, LenProperties DEF CoordinatorTypeOK, BoardTypeOK
<1> QED
  BY <1>1, <1>2 DEF Message, MessageRow

\* The inbox after a message about a dispatch arrived: its messages, and that one.
LEMMA InboxAppend ==
  ASSUME CoordinatorTypeOK, NEW m \in MessageRow, m.task \in DOMAIN tasks
  PROVE  /\ Append(inbox, m) \in Seq(MessageRow)
         /\ \A i \in DOMAIN Append(inbox, m) :
              \/ i \in DOMAIN inbox /\ Append(inbox, m)[i] = inbox[i]
              \/ Append(inbox, m)[i] = m
         /\ \A i \in DOMAIN Append(inbox, m) : Append(inbox, m)[i].task \in DOMAIN tasks
<1>1. inbox \in Seq(MessageRow) /\ \A i \in DOMAIN inbox : inbox[i].task \in DOMAIN tasks
  BY DEF CoordinatorTypeOK, MailTypeOK
<1> QED
  BY <1>1, TableAppend

LEMMA FaultTyped ==
  ASSUME CoordinatorTypeOK, NEW t, Fault(t)
  PROVE  faults' \in [1 .. MaxTasks -> Nat]
<1>1. faults \in [1 .. MaxTasks -> Nat]
  BY DEF CoordinatorTypeOK, MailTypeOK
<1>2. faults' = [u \in 1 .. MaxTasks |-> IF u = t THEN faults[t] + 1 ELSE faults[u]]
  BY <1>1 DEF Fault
<1> QED
  BY <1>1, <1>2

LEMMA RejectionTyped ==
  ASSUME CoordinatorTypeOK, NEW c, CountRejection(c)
  PROVE  faults' \in [1 .. MaxTasks -> Nat]
<1>1. CASE UNCHANGED faults
  BY <1>1 DEF CoordinatorTypeOK, MailTypeOK
<1> QED
  BY <1>1, FaultTyped DEF CountRejection

LEMMA MailTypeStep ==
  ASSUME CoordinatorTypeOK, OrdinaryStep
  PROVE  MailTypeOK'
<1>0. /\ inbox \in Seq(MessageRow)
      /\ \A i \in DOMAIN inbox : inbox[i].task \in DOMAIN tasks
      /\ prompts \subseteq DOMAIN dispatches
      /\ faults \in [1 .. MaxTasks -> Nat]
  BY DEF CoordinatorTypeOK, MailTypeOK
<1>1. /\ DOMAIN tasks \subseteq DOMAIN tasks'
      /\ DOMAIN dispatches \subseteq DOMAIN dispatches'
  BY OrdinaryStepIsCall, CallGrows
<1>2. ASSUME inbox' \in Seq(MessageRow),
             \A i \in DOMAIN inbox' : inbox'[i].task \in DOMAIN tasks,
             prompts' \subseteq DOMAIN dispatches',
             faults' \in [1 .. MaxTasks -> Nat]
      PROVE  MailTypeOK'
  BY <1>1, <1>2 DEF MailTypeOK
<1>3. CASE UNCHANGED mailVars
  BY <1>0, <1>1, <1>2, <1>3 DEF mailVars
<1>4. CASE HandleMessage
  <2>1. /\ inbox # <<>> /\ inbox' = Tail(inbox)
        /\ UNCHANGED <<prompts, faults>>
    BY <1>4 DEF HandleMessage
  <2> QED
    BY <1>0, <1>1, <1>2, <2>1, InboxHead
<1>5. CASE PromptRejected
  <2>1. UNCHANGED <<inbox, prompts>> /\ faults' \in [1 .. MaxTasks -> Nat]
    BY <1>5, RejectionTyped DEF PromptRejected
  <2> QED
    BY <1>0, <1>1, <1>2, <2>1
<1>6. CASE LoopStep
  BY <1>3, <1>4, <1>5, <1>6
     DEF LoopStep, StartTick, StopLoop, EndMessages, ListTerminals, ListTerminalsFails,
         CreateTerminal, CreateTerminalFails, SkipStale, DispatchTask, DispatchRefused,
         PromptAccepted
<1>7. ASSUME NEW t \in DOMAIN tasks, NEW p \in Panes, NEW inject \in BOOLEAN,
             OperatorDispatches(t, p, inject)
      PROVE  MailTypeOK'
  <2>1. CreateDispatchContext(t, HandleOf(p), p)
        /\ prompts' \subseteq prompts \cup {Len(dispatches) + 1}
        /\ UNCHANGED <<inbox, faults>>
    BY <1>7 DEF OperatorDispatches
  <2>2. Len(dispatches) + 1 \in DOMAIN dispatches'
    BY <2>1, HandlesOfPanes, OpeningAppends DEF CoordinatorTypeOK
  <2> QED
    BY <1>0, <1>1, <1>2, <2>1, <2>2
<1>8. ASSUME NEW c \in prompts, InjectAccepted(c) \/ InjectRejected(c)
      PROVE  MailTypeOK'
  <2>1. UNCHANGED inbox /\ prompts' \subseteq prompts
    BY <1>8 DEF InjectAccepted, InjectRejected
  <2>2. faults' \in [1 .. MaxTasks -> Nat]
    BY <1>0, <1>8, RejectionTyped DEF InjectAccepted, InjectRejected
  <2> QED
    BY <1>0, <1>1, <1>2, <2>1, <2>2
<1>9. CASE OrdinaryOperatorStep
  BY <1>3, <1>7, <1>8, <1>9
     DEF OrdinaryOperatorStep, OperatorCreates, OperatorUpdates, OperatorGates,
         OperatorResolves, RunStart, RunStop, RefreshBase, BaseMoves
<1>10. ASSUME NEW c \in DOMAIN dispatches, NEW h \in Handles, NEW d \in Nat,
              NEW type \in {"worker_done", "escalation", "decision_gate"},
              inbox' = Append(inbox, Message(type, dispatches[c].task, d, h)),
              UNCHANGED prompts, faults' \in [1 .. MaxTasks -> Nat]
       PROVE  MailTypeOK'
  BY <1>0, <1>1, <1>2, <1>10, MessageTyped, InboxAppend
<1>11. ASSUME NEW c \in DOMAIN dispatches
       PROVE  HandleOf(dispatches[c].pane) \in Handles /\ c \in Nat
  BY HandlesOfPanes, LenProperties DEF CoordinatorTypeOK, BoardTypeOK
<1>12. ASSUME NEW c \in DOMAIN dispatches, WorkerDoneSent(c)
       PROVE  MailTypeOK'
  BY <1>0, <1>10, <1>11, <1>12 DEF WorkerDoneSent
<1>13. ASSUME NEW c \in DOMAIN dispatches, WorkerEscalates(c)
       PROVE  MailTypeOK'
  BY <1>10, <1>11, <1>13, FaultTyped DEF WorkerEscalates
<1>14. ASSUME NEW c \in DOMAIN dispatches, WorkerAsks(c)
       PROVE  MailTypeOK'
  BY <1>0, <1>10, <1>11, <1>14 DEF WorkerAsks
<1>15. ASSUME NEW p \in Panes, AgentExit(p)
       PROVE  MailTypeOK'
  <2>1. CASE UNCHANGED <<inbox, faults>>
    BY <1>3, <1>15, <2>1 DEF AgentExit, mailVars
  <2>2. ASSUME NEW c \in DOMAIN dispatches, Fault(dispatches[c].task),
               inbox' = IF runRow = "running"
                        THEN Append(inbox, Message("escalation", dispatches[c].task, 0, HandleOf(p)))
                        ELSE inbox
        PROVE  MailTypeOK'
    <3>1. faults' \in [1 .. MaxTasks -> Nat] /\ UNCHANGED prompts
      BY <1>15, <2>2, FaultTyped DEF AgentExit
    <3>2. CASE runRow = "running"
      BY <1>10, <2>2, <3>1, <3>2, HandlesOfPanes
    <3>3. CASE runRow # "running"
      BY <1>0, <1>1, <1>2, <2>2, <3>1, <3>3
    <3> QED
      BY <3>2, <3>3
  <2> QED
    BY <1>15, <2>1, <2>2 DEF AgentExit, ActiveForAssignee
<1>16. CASE Restart
  BY <1>0, <1>1, <1>2, <1>16 DEF Restart
<1>17. ASSUME NEW p \in Panes, AgentExitUnseen(p)
       PROVE  MailTypeOK'
  BY <1>3, <1>17 DEF AgentExitUnseen
<1> QED
  BY <1>6, <1>9, <1>12, <1>13, <1>14, <1>15, <1>16, <1>17 DEF OrdinaryStep, WorkerStep

LEMMA CoordinatorTypeStep ==
  ASSUME CoordinatorTypeOK, RunRowTracksLoop, [Next]_vars
  PROVE  CoordinatorTypeOK'
<1>1. BoardTypeOK'
  BY StepRefines, BoardTypeStep DEF CoordinatorTypeOK
<1>2. WorldTypeOK'
  BY WorldTypeStep
<1>3. CASE OrdinaryStep
  <2>1. \A c \in DOMAIN dispatches' : dispatches'[c].pane \in Panes
    BY <1>3, OrdinaryStepIsCall, CallGrows
  <2> QED
    BY <1>1, <1>2, <1>3, <2>1, LoopTypeStep, MailTypeStep DEF CoordinatorTypeOK
<1>4. CASE Reset
  <2>1. /\ pc = "off" /\ prompts = {} /\ tasks' = <<>> /\ dispatches' = <<>>
        /\ inbox' = <<>> /\ runRow' = "none" /\ faults' = [t \in 1 .. MaxTasks |-> 0]
        /\ UNCHANGED <<pc, todo, avail, slots, cur, stopped, failedTasks, prompts>>
    BY <1>4 DEF Reset, ResetTasks, tick
  <2>2. LoopTypeOK /\ MailTypeOK
    BY DEF CoordinatorTypeOK
  <2>3. LoopTypeOK'
    BY <2>1, <2>2 DEF LoopTypeOK
  <2>4. inbox' \in Seq(MessageRow) /\ DOMAIN inbox' = {}
    BY <2>1, EmptySeq
  <2>5. MailTypeOK'
    BY <2>1, <2>4 DEF MailTypeOK
  <2>6. \A c \in DOMAIN dispatches' : dispatches'[c].pane \in Panes
    BY <2>1
  <2> QED
    BY <1>1, <1>2, <2>3, <2>5, <2>6 DEF CoordinatorTypeOK
<1>5. CASE UNCHANGED vars
  BY <1>1, <1>2, <1>5
     DEF vars, boardVars, loopVars, mailVars, tick, CoordinatorTypeOK, LoopTypeOK, MailTypeOK
<1> QED
  BY <1>3, <1>4, <1>5, NextCases

LEMMA CoordinatorTypeInit ==
  ASSUME Init
  PROVE  CoordinatorTypeOK
<1>1. BoardTypeOK
  BY EmptySeq DEF Init, BoardInit, BoardTypeOK
<1>2. stopped \in BOOLEAN /\ stale \in BOOLEAN
  BY DEF Init
<1>3. LoopTypeOK
  <2>1. /\ pc = "off" /\ runRow = "none" /\ todo = {} /\ avail = {} /\ failedTasks = {}
        /\ cur = 0 /\ slots \in 0 .. MaxConcurrent
    BY CoordinatorAssumption DEF Init
  <2> QED
    BY <1>2, <2>1 DEF LoopTypeOK, PcValues
<1>4. WorldTypeOK
  BY <1>2, CoordinatorAssumption DEF Init, WorldTypeOK
<1>5. inbox \in Seq(MessageRow) /\ DOMAIN inbox = {}
  BY EmptySeq DEF Init
<1>6. MailTypeOK
  BY <1>5 DEF Init, MailTypeOK
<1> QED
  BY <1>1, <1>3, <1>4, <1>6 DEF CoordinatorTypeOK, Init, BoardInit

\* The tables, the loop, its messages and the world stay well formed whatever is
\* interleaved with the loop's awaits: in particular a task or a dispatch that the
\* loop holds across an await still exists afterwards.
THEOREM CoordinatorTypeCorrect == Spec => []CoordinatorTypeOK
<1>1. Init => CoordinatorTypeOK
  BY CoordinatorTypeInit
<1>2. CoordinatorTypeOK /\ RunRowTracksLoop /\ [Next]_vars => CoordinatorTypeOK'
  BY CoordinatorTypeStep
<1> QED
  BY <1>1, <1>2, RunRowTracksLoopAlways, PTL DEF Spec

\* Whatever the loop, the operator, the workers, the exit handler and a restart do to
\* the tables, they do through the methods of the database.
THEOREM CoordinatorImplementsBoard == Spec => BoardSpec
<1>1. Init => BoardInit
  BY DEF Init
<1>2. CoordinatorTypeOK /\ [Next]_vars => [BoardNext]_boardVars
  BY StepRefines
<1> QED
  BY <1>1, <1>2, CoordinatorTypeCorrect, PTL DEF Spec, BoardSpec

(***************************************************************************)
(* Every counted failure has a cause.                                      *)
(***************************************************************************)

Faulty(t) == faults[t] > 0

\* ... after the step
FaultyThen(t) == faults'[t] > 0

\* A failed context shows it, and an escalation is about a task that had a fault:
\* when the loop reads it and charges the latest context, the cause is on record.
FaultInv ==
  /\ NoFailureWithoutFault
  /\ DOMAIN tasks \subseteq 1 .. MaxTasks
  /\ \A c \in DOMAIN dispatches :
       dispatches[c].status \in {"failed", "circuit_broken"} => dispatches[c].failures > 0
  /\ \A i \in DOMAIN inbox : inbox[i].type = "escalation" => Faulty(inbox[i].task)

LEMMA FaultCounts ==
  ASSUME CoordinatorTypeOK, NEW t, Fault(t)
  PROVE  /\ \A u \in 1 .. MaxTasks : Faulty(u) => FaultyThen(u)
         /\ t \in 1 .. MaxTasks => FaultyThen(t)
<1>1. faults \in [1 .. MaxTasks -> Nat]
  BY DEF CoordinatorTypeOK, MailTypeOK
<1>2. faults' = [u \in 1 .. MaxTasks |-> IF u = t THEN faults[t] + 1 ELSE faults[u]]
  BY <1>1 DEF Fault
<1> QED
  BY <1>1, <1>2 DEF Faulty, FaultyThen

LEMMA FaultsLast ==
  ASSUME CoordinatorTypeOK, OrdinaryStep
  PROVE  \A u \in 1 .. MaxTasks : Faulty(u) => FaultyThen(u)
<1>1. CASE UNCHANGED faults
  BY <1>1 DEF Faulty, FaultyThen
<1>2. CASE \E t : Fault(t)
  BY <1>2, FaultCounts
<1>3. \A c : CountRejection(c) => UNCHANGED faults \/ \E t : Fault(t)
  BY DEF CountRejection
<1>4. CASE LoopStep
  BY <1>1, <1>2, <1>3, <1>4
     DEF LoopStep, StartTick, StopLoop, HandleMessage, EndMessages, ListTerminals,
         ListTerminalsFails, CreateTerminal, CreateTerminalFails, SkipStale, DispatchTask,
         DispatchRefused, PromptAccepted, PromptRejected, mailVars
<1>5. CASE OrdinaryOperatorStep
  BY <1>1, <1>2, <1>3, <1>5
     DEF OrdinaryOperatorStep, OperatorCreates, OperatorUpdates, OperatorGates,
         OperatorResolves, OperatorDispatches, InjectAccepted, InjectRejected, RunStart,
         RunStop, RefreshBase, BaseMoves, mailVars
<1>6. CASE WorkerStep \/ Restart
  BY <1>1, <1>2, <1>6
     DEF WorkerStep, WorkerDoneSent, WorkerEscalates, WorkerAsks, AgentExit,
         AgentExitUnseen, Restart, mailVars
<1> QED
  BY <1>4, <1>5, <1>6 DEF OrdinaryStep

\* Completing carries the failure count over and makes nothing 'failed'.
LEMMA CompletingKeepsFailures ==
  ASSUME BoardTypeOK, NEW t, NEW c \in DOMAIN dispatches
  PROVE  /\ ActiveDispatchCompleted(t)[c].failures = dispatches[c].failures
         /\ ActiveDispatchCompleted(t)[c].status \in {dispatches[c].status, "completed"}
<1>1. dispatches[c] \in DispatchContextRow
  BY LenProperties DEF BoardTypeOK
<1> QED
  BY <1>1 DEF ActiveDispatchCompleted, DispatchContextRow

\* What a call that charges nothing does to the failure counts of the contexts.
LEMMA FreeCallKeepsFailures ==
  ASSUME CoordinatorTypeOK, FreeCall, NEW c \in DOMAIN dispatches'
  PROVE  \/ /\ c \in DOMAIN dispatches
            /\ dispatches'[c].task = dispatches[c].task
            /\ dispatches'[c].failures = dispatches[c].failures
            /\ dispatches'[c].status \in {dispatches[c].status, "completed"}
         \/ /\ dispatches'[c].status = "dispatched"
            /\ dispatches'[c].failures > 0 =>
                 \E d \in DOMAIN dispatches :
                   /\ dispatches[d].task = dispatches'[c].task
                   /\ dispatches[d].failures > 0
<1> DEFINE Kept == /\ c \in DOMAIN dispatches
                   /\ dispatches'[c].task = dispatches[c].task
                   /\ dispatches'[c].failures = dispatches[c].failures
                   /\ dispatches'[c].status \in {dispatches[c].status, "completed"}
<1>0. BoardTypeOK
  BY DEF CoordinatorTypeOK
<1>1. CASE UNCHANGED dispatches
  BY <1>1
<1>2. ASSUME NEW t, dispatches' = ActiveDispatchCompleted(t)
      PROVE  Kept
  BY <1>0, <1>2, CompletingOnlyCloses, CompletingKeepsFailures DEF OnlyCloses
<1>3. ASSUME NEW t \in DOMAIN tasks, NEW p \in Panes, CreateDispatchContext(t, HandleOf(p), p)
      PROVE  \/ Kept
             \/ /\ dispatches'[c].status = "dispatched"
                /\ dispatches'[c].failures > 0 =>
                     \E d \in DOMAIN dispatches :
                       /\ dispatches[d].task = dispatches'[c].task
                       /\ dispatches[d].failures > 0
  <2>1. PICK n \in 0 .. MaxFailures :
          /\ IsMaxFailures(n, t)
          /\ dispatches' = Append(dispatches,
               [task |-> t, handle |-> HandleOf(p), pane |-> p, status |-> "dispatched",
                failures |-> n])
    BY <1>3 DEF CreateDispatchContext
  <2> DEFINE row == [task |-> t, handle |-> HandleOf(p), pane |-> p, status |-> "dispatched",
                     failures |-> n]
  <2>2. t \in Nat /\ dispatches \in Seq(DispatchContextRow)
    BY <1>0, LenProperties DEF BoardTypeOK
  <2>3. row \in DispatchContextRow
    BY <2>2, BoardAssumption, HandlesOfPanes DEF DispatchContextRow, DispatchStatus
  <2>4. /\ Len(dispatches) \in Nat /\ DOMAIN dispatches = 1 .. Len(dispatches)
        /\ DOMAIN dispatches' = 1 .. Len(dispatches) + 1
        /\ dispatches'[Len(dispatches) + 1] = row
        /\ \A d \in DOMAIN dispatches : dispatches'[d] = dispatches[d]
    BY <2>1, <2>2, <2>3, TableAppend
  <2>5. CASE c \in DOMAIN dispatches
    BY <2>4, <2>5
  <2>6. CASE c = Len(dispatches) + 1
    <3>1. dispatches'[c].task = t /\ dispatches'[c].failures = n
          /\ dispatches'[c].status = "dispatched"
      BY <2>4, <2>6
    <3> QED
      BY <2>1, <3>1 DEF IsMaxFailures, DispatchesOf
  <2> QED
    BY <2>4, <2>5, <2>6
<1>4. ASSUME NEW t, CompleteTask(t) \/ CreateGate(t)
      PROVE  Kept
  BY <1>2, <1>4 DEF CompleteTask, CreateGate
<1>5. CASE \/ UNCHANGED boardVars
           \/ \E D \in SUBSET DOMAIN tasks : CreateTask(D)
           \/ \E g \in DOMAIN gates : ResolveGate(g)
           \/ BlockGatedTasks
  BY <1>1, <1>5 DEF boardVars, CreateTask, ResolveGate, BlockGatedTasks
<1>6. CASE \E t \in DOMAIN tasks, s \in Manual : UpdateTask(t, s)
  BY <1>1, <1>4, <1>6 DEF UpdateTask
<1>7. CASE \E d \in DOMAIN dispatches, h \in Handles : WorkerDone(d, h, PaneOf[h])
  BY <1>4, <1>7 DEF WorkerDone
<1>8. CASE \E t \in DOMAIN tasks : CreateGate(t)
  BY <1>4, <1>8
<1> QED
  BY <1>3, <1>5, <1>6, <1>7, <1>8 DEF FreeCall, Opening

\* An escalation is sent with a fault of its task, or was there before.
LEMMA EscalationsHaveFaults ==
  ASSUME CoordinatorTypeOK, FaultInv, OrdinaryStep,
         NEW i \in DOMAIN inbox', inbox'[i].type = "escalation"
  PROVE  FaultyThen(inbox'[i].task)
<1>0. /\ DOMAIN tasks \subseteq 1 .. MaxTasks
      /\ \A k \in DOMAIN inbox : inbox[k].type = "escalation" => Faulty(inbox[k].task)
      /\ \A k \in DOMAIN inbox : inbox[k].task \in DOMAIN tasks
  BY DEF FaultInv, CoordinatorTypeOK, MailTypeOK
<1>1. ASSUME NEW k \in DOMAIN inbox, inbox'[i] = inbox[k]
      PROVE  FaultyThen(inbox'[i].task)
  BY <1>0, <1>1, FaultsLast DEF Faulty, FaultyThen
<1>2. CASE UNCHANGED inbox
  BY <1>1, <1>2
<1>3. CASE HandleMessage
  BY <1>1, <1>3, InboxHead DEF HandleMessage
<1>4. ASSUME NEW c \in DOMAIN dispatches, NEW h \in Handles, NEW d \in Nat,
             NEW type \in {"worker_done", "escalation", "decision_gate"},
             type = "escalation" => Fault(dispatches[c].task),
             inbox' = Append(inbox, Message(type, dispatches[c].task, d, h))
      PROVE  FaultyThen(inbox'[i].task)
  <2> DEFINE m == Message(type, dispatches[c].task, d, h)
  <2>1. m \in MessageRow /\ m.task \in DOMAIN tasks /\ m.task = dispatches[c].task
        /\ m.type = type
    BY MessageTyped
  <2>2. CASE inbox'[i] = m
    <3>1. Fault(dispatches[c].task) /\ dispatches[c].task \in 1 .. MaxTasks
      BY <1>0, <1>4, <2>1, <2>2
    <3> QED
      BY <2>1, <2>2, <3>1, FaultCounts DEF Faulty, FaultyThen
  <2>3. CASE \E k \in DOMAIN inbox : inbox'[i] = inbox[k]
    BY <1>1, <2>3
  <2> HIDE DEF m
  <2>4. inbox' = Append(inbox, m)
    BY <1>4 DEF m
  <2> QED
    BY <2>1, <2>2, <2>3, <2>4, InboxAppend
<1>5. ASSUME NEW c \in DOMAIN dispatches
      PROVE  HandleOf(dispatches[c].pane) \in Handles /\ c \in Nat
  BY HandlesOfPanes, LenProperties DEF CoordinatorTypeOK, BoardTypeOK
<1>6. ASSUME NEW c \in DOMAIN dispatches,
             WorkerDoneSent(c) \/ WorkerEscalates(c) \/ WorkerAsks(c)
      PROVE  FaultyThen(inbox'[i].task)
  BY <1>4, <1>5, <1>6 DEF WorkerDoneSent, WorkerEscalates, WorkerAsks
<1>7. ASSUME NEW p \in Panes, AgentExit(p)
      PROVE  FaultyThen(inbox'[i].task)
  <2>1. ASSUME NEW c \in DOMAIN dispatches, Fault(dispatches[c].task),
               inbox' = Append(inbox, Message("escalation", dispatches[c].task, 0, HandleOf(p)))
        PROVE  FaultyThen(inbox'[i].task)
    BY <1>4, <2>1, HandlesOfPanes
  <2> QED
    BY <1>2, <1>7, <2>1 DEF AgentExit, ActiveForAssignee
<1>8. CASE LoopStep
  BY <1>2, <1>3, <1>8
     DEF LoopStep, StartTick, StopLoop, EndMessages, ListTerminals,
         ListTerminalsFails, CreateTerminal, CreateTerminalFails, SkipStale, DispatchTask,
         DispatchRefused, PromptAccepted, PromptRejected, mailVars
<1>9. CASE OrdinaryOperatorStep
  BY <1>2, <1>9
     DEF OrdinaryOperatorStep, OperatorCreates, OperatorUpdates, OperatorGates,
         OperatorResolves, OperatorDispatches, InjectAccepted, InjectRejected, RunStart,
         RunStop, RefreshBase, BaseMoves, mailVars
<1>10. CASE Restart
  BY <1>2, <1>10 DEF Restart
<1>11. ASSUME NEW p \in Panes, AgentExitUnseen(p)
       PROVE  FaultyThen(inbox'[i].task)
  BY <1>2, <1>11 DEF AgentExitUnseen, mailVars
<1> QED
  BY <1>6, <1>7, <1>8, <1>9, <1>10, <1>11 DEF OrdinaryStep, WorkerStep

\* A failure is charged to a task that has a fault on record.
LEMMA ChargedTaskIsFaulty ==
  ASSUME CoordinatorTypeOK, FaultInv, NEW c \in DOMAIN dispatches, Reason(c)
  PROVE  FaultyThen(dispatches[c].task)
<1> DEFINE t == dispatches[c].task
<1>1. t \in 1 .. MaxTasks
  BY DEF CoordinatorTypeOK, BoardTypeOK, FaultInv
<1>2. CASE Fault(t)
  BY <1>1, <1>2, FaultCounts
<1>3. CASE CountRejection(c) /\ UNCHANGED faults
  <2>1. CASE dispatches[c].status \in {"failed", "circuit_broken"}
    BY <1>3, <2>1 DEF FaultInv, NoFailureWithoutFault, Faulty, FaultyThen
  <2>2. CASE dispatches[c].status \notin {"failed", "circuit_broken"}
    BY <1>2, <1>3, <2>2 DEF CountRejection
  <2> QED
    BY <2>1, <2>2
<1>4. CASE /\ UNCHANGED faults
           /\ \E i \in DOMAIN inbox : inbox[i].type = "escalation" /\ inbox[i].task = t
  BY <1>4 DEF FaultInv, Faulty, FaultyThen
<1> QED
  BY <1>2, <1>3, <1>4 DEF Reason, CountRejection

LEMMA FaultStep ==
  ASSUME CoordinatorTypeOK, FaultInv, OrdinaryStep
  PROVE  FaultInv'
<1>0. /\ BoardTypeOK /\ DOMAIN tasks \subseteq 1 .. MaxTasks
      /\ \A c \in DOMAIN dispatches :
           dispatches[c].task \in 1 .. MaxTasks /\ dispatches[c].failures \in Nat
  <2>1. \A c \in DOMAIN dispatches : dispatches[c] \in DispatchContextRow
    BY LenProperties DEF CoordinatorTypeOK, BoardTypeOK
  <2> QED
    BY <2>1 DEF CoordinatorTypeOK, BoardTypeOK, FaultInv, DispatchContextRow
<1>1. BoardCall
  BY OrdinaryStepIsCall
<1>2. DOMAIN tasks' \subseteq 1 .. MaxTasks
  BY <1>0, <1>1, CallGrows
<1>3. ASSUME NEW c \in DOMAIN dispatches'
      PROVE  /\ dispatches'[c].failures > 0 => FaultyThen(dispatches'[c].task)
             /\ dispatches'[c].status \in {"failed", "circuit_broken"} =>
                  dispatches'[c].failures > 0
  <2>1. CASE FreeCall
    <3>1. ASSUME NEW d \in DOMAIN dispatches, dispatches[d].failures > 0
          PROVE  FaultyThen(dispatches[d].task)
      BY <1>0, <3>1, FaultsLast DEF FaultInv, NoFailureWithoutFault, Faulty, FaultyThen
    <3>2. CASE /\ c \in DOMAIN dispatches
               /\ dispatches'[c].task = dispatches[c].task
               /\ dispatches'[c].failures = dispatches[c].failures
               /\ dispatches'[c].status \in {dispatches[c].status, "completed"}
      BY <3>1, <3>2 DEF FaultInv, Faulty, FaultyThen
    <3>3. CASE /\ dispatches'[c].status = "dispatched"
               /\ dispatches'[c].failures > 0 =>
                    \E d \in DOMAIN dispatches :
                      /\ dispatches[d].task = dispatches'[c].task
                      /\ dispatches[d].failures > 0
      BY <3>1, <3>3 DEF Faulty, FaultyThen
    <3> QED
      BY <2>1, <3>2, <3>3, FreeCallKeepsFailures
  <2>2. ASSUME NEW e \in DOMAIN dispatches, FailDispatch(e), Reason(e)
        PROVE  /\ dispatches'[c].failures > 0 => FaultyThen(dispatches'[c].task)
               /\ dispatches'[c].status \in {"failed", "circuit_broken"} =>
                    dispatches'[c].failures > 0
    <3>1. /\ c \in DOMAIN dispatches /\ dispatches'[c].task = dispatches[c].task
          /\ c # e => dispatches'[c] = dispatches[c]
      BY <1>0, <2>2, FailingOnlyCloses DEF OnlyCloses
    <3>2. CASE c # e
      BY <1>0, <3>1, <3>2, FaultsLast DEF FaultInv, NoFailureWithoutFault, Faulty, FaultyThen
    <3>3. CASE c = e
      <4>1. FaultyThen(dispatches[c].task)
        BY <2>2, <3>3, ChargedTaskIsFaulty
      <4>2. dispatches' = [dispatches EXCEPT ![c] = FailedRow(c, StatusAfterFailure(c))]
        BY <2>2, <3>3 DEF FailDispatch
      <4>3. dispatches'[c].failures = dispatches[c].failures + 1
        BY <3>1, <4>2 DEF FailedRow
      <4> QED
        BY <1>0, <3>1, <4>1, <4>3 DEF Faulty, FaultyThen
    <3> QED
      BY <3>2, <3>3
  <2> QED
    BY <1>1, <2>1, <2>2 DEF BoardCall, Charge
<1> QED
  BY <1>2, <1>3, EscalationsHaveFaults DEF FaultInv, NoFailureWithoutFault, Faulty, FaultyThen

\* A failure counted against a task always has a cause: an exit, an escalation or a
\* rejected prompt of that task, also when the escalation is read, or the prompt
\* rejected, long after the dispatch it was about.  A stale base costs no attempt.
THEOREM FailuresHaveCauses == Spec => []NoFailureWithoutFault
<1>1. Init => FaultInv
  BY DEF Init, BoardInit, FaultInv, NoFailureWithoutFault
<1>2. CoordinatorTypeOK /\ FaultInv /\ [Next]_vars => FaultInv'
  <2> SUFFICES ASSUME CoordinatorTypeOK, FaultInv, [Next]_vars
               PROVE  FaultInv'
    OBVIOUS
  <2>1. CASE OrdinaryStep
    BY <2>1, FaultStep
  <2>2. CASE Reset
    <3>1. tasks' = <<>> /\ dispatches' = <<>> /\ inbox' = <<>>
      BY <2>2 DEF Reset, ResetTasks
    <3> QED
      BY <3>1 DEF FaultInv, NoFailureWithoutFault
  <2>3. CASE UNCHANGED vars
    BY <2>3 DEF vars, boardVars, mailVars, FaultInv, NoFailureWithoutFault, Faulty, FaultyThen
  <2> QED
    BY <2>1, <2>2, <2>3, NextCases
<1>3. FaultInv => NoFailureWithoutFault
  BY DEF FaultInv
<1> QED
  BY <1>1, <1>2, <1>3, CoordinatorTypeCorrect, PTL DEF Spec

(***************************************************************************)
(* Who holds a task can finish it.                                         *)
(***************************************************************************)

\* The lock of the database, for the program that calls it.
COROLLARY LoopKeepsTerminalLock == Spec => []TerminalLock
  BY CoordinatorImplementsBoard, TerminalLockHolds, PTL

\* The worker that holds the latest dispatch of a dispatched task passes every check
\* of the reconciliation, under the handle that its pane has now: no restart, retry
\* or rejected prompt leaves a task dispatched whose worker_done would be refused.
THEOREM OwnerCanAlwaysFinish ==
  ASSUME "dispatched" \notin Manual
  PROVE  Spec => []OwnerCanFinish
<1>1. CoordinatorTypeOK /\ NoGhostDispatch => OwnerCanFinish
  <2> SUFFICES ASSUME CoordinatorTypeOK, NoGhostDispatch,
                      NEW t \in TasksWith("dispatched"), NEW c \in DispatchesOf(t),
                      IsDispatchContext(c, t)
               PROVE  LET h == HandleOf(dispatches[c].pane)
                      IN AcceptsWorkerDone(c, h, PaneOf[h])
    BY DEF OwnerCanFinish
  <2> DEFINE q == dispatches[c].pane
             h == HandleOf(q)
  <2>1. /\ t \in DOMAIN tasks /\ tasks[t].status = "dispatched"
        /\ c \in DOMAIN dispatches /\ dispatches[c].task = t
    BY DEF TasksWith, DispatchesOf
  <2>2. Active(c)
    <3>1. PICK d \in DOMAIN dispatches : IsDispatchContext(d, t) /\ Active(d)
      BY <2>1 DEF NoGhostDispatch
    <3>2. d = c
      <4>1. c \in Nat /\ d \in Nat
        BY <2>1, LenProperties DEF CoordinatorTypeOK, BoardTypeOK
      <4>2. c <= d /\ d <= c
        BY <3>1 DEF IsDispatchContext, IsNewest
      <4> QED
        BY <4>1, <4>2
    <3> QED
      BY <3>1, <3>2
  <2>3. q \in Panes /\ h \in Handles /\ PaneOf[h] = q
    <3>1. q \in Panes
      BY <2>1 DEF CoordinatorTypeOK
    <3> QED
      BY <3>1, HandlesOfPanes, CoordinatorAssumption DEF HandleOf
  <2>4. HasAuthority(c, h, PaneOf[h])
    BY <2>3, BoardAssumption DEF HasAuthority, SamePane
  <2> QED
    BY <2>1, <2>2, <2>4 DEF AcceptsWorkerDone
<1> QED
  BY <1>1, CoordinatorTypeCorrect, CoordinatorImplementsBoard, DispatchedIsBacked, PTL

=============================================================================
