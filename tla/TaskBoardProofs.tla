--------------------------- MODULE TaskBoardProofs ---------------------------
(***************************************************************************)
(* Theorems about TaskBoard, for every set of handles and panes and every  *)
(* bound on the tables.                                                    *)
(***************************************************************************)
EXTENDS TaskBoard, SequenceTheorems, TLAPS

(***************************************************************************)
(* Tables.                                                                 *)
(***************************************************************************)

\* A function on the index set of a table is a table of the same length.
LEMMA TableOfFunction ==
  ASSUME NEW R, NEW S, NEW s \in Seq(R), NEW f \in [DOMAIN s -> S]
  PROVE  f \in Seq(S) /\ Len(f) = Len(s) /\ DOMAIN f = DOMAIN s
<1>1. Len(s) \in Nat /\ DOMAIN s = 1 .. Len(s)
  BY LenProperties
<1>2. f \in [1 .. Len(s) -> S]
  BY <1>1
<1>3. f \in Seq(S)
  BY <1>1, <1>2, SeqDef
<1>4. DOMAIN f = 1 .. Len(f) /\ Len(f) \in Nat
  BY <1>3, LenProperties
<1>5. Len(f) = Len(s)
  BY <1>1, <1>2, <1>4
<1> QED
  BY <1>1, <1>3, <1>4, <1>5

\* Appending a row keeps every other row and adds one index.
LEMMA TableAppend ==
  ASSUME NEW S, NEW s \in Seq(S), NEW e \in S
  PROVE  /\ Append(s, e) \in Seq(S)
         /\ Len(s) \in Nat
         /\ DOMAIN s = 1 .. Len(s)
         /\ DOMAIN Append(s, e) = 1 .. Len(s) + 1
         /\ Append(s, e)[Len(s) + 1] = e
         /\ \A i \in DOMAIN s : Append(s, e)[i] = s[i]
<1>1. Len(s) \in Nat /\ DOMAIN s = 1 .. Len(s) /\ Append(s, e) \in Seq(S)
  BY LenProperties
<1>2. Len(Append(s, e)) = Len(s) + 1
  OBVIOUS
<1>3. DOMAIN Append(s, e) = 1 .. Len(Append(s, e))
  BY <1>1, LenProperties
<1>4. Append(s, e)[Len(s) + 1] = e
  OBVIOUS
<1>5. \A i \in 1 .. Len(s) : Append(s, e)[i] = s[i]
  OBVIOUS
<1> QED
  BY <1>1, <1>2, <1>3, <1>4, <1>5

(***************************************************************************)
(* The tables after a write.                                               *)
(***************************************************************************)

LEMMA SetStatusTyped ==
  ASSUME BoardTypeOK, NEW t \in DOMAIN tasks, NEW s \in TaskStatus
  PROVE  /\ SetStatus(t, s) \in Seq(TaskRow)
         /\ DOMAIN SetStatus(t, s) = DOMAIN tasks
         /\ SetStatus(t, s)[t].status = s
         /\ \A u \in DOMAIN tasks : u # t => SetStatus(t, s)[u] = tasks[u]
<1>1. tasks \in [DOMAIN tasks -> TaskRow] /\ tasks \in Seq(TaskRow)
  BY LenProperties DEF BoardTypeOK
<1>2. SetStatus(t, s) \in [DOMAIN tasks -> TaskRow]
  BY <1>1 DEF SetStatus, TaskRow
<1>3. SetStatus(t, s) \in Seq(TaskRow) /\ DOMAIN SetStatus(t, s) = DOMAIN tasks
  BY <1>1, <1>2, TableOfFunction
<1>4. /\ SetStatus(t, s)[t].status = s
      /\ \A u \in DOMAIN tasks : u # t => SetStatus(t, s)[u] = tasks[u]
  BY <1>1 DEF SetStatus, TaskRow
<1> QED
  BY <1>3, <1>4

LEMMA CompletedAndPromotedTyped ==
  ASSUME BoardTypeOK, NEW t \in DOMAIN tasks
  PROVE  /\ CompletedAndPromoted(t) \in Seq(TaskRow)
         /\ DOMAIN CompletedAndPromoted(t) = DOMAIN tasks
         /\ \A u \in DOMAIN tasks :
              CompletedAndPromoted(t)[u].status = "dispatched" =>
                u # t /\ tasks[u].status = "dispatched"
<1>1. tasks \in [DOMAIN tasks -> TaskRow] /\ tasks \in Seq(TaskRow)
  BY LenProperties DEF BoardTypeOK
<1>2. CompletedAndPromoted(t) \in [DOMAIN tasks -> TaskRow]
  BY <1>1 DEF CompletedAndPromoted, TaskRow, TaskStatus
<1>3. CompletedAndPromoted(t) \in Seq(TaskRow) /\ DOMAIN CompletedAndPromoted(t) = DOMAIN tasks
  BY <1>1, <1>2, TableOfFunction
<1>4. ASSUME NEW u \in DOMAIN tasks, CompletedAndPromoted(t)[u].status = "dispatched"
      PROVE  u # t /\ tasks[u].status = "dispatched"
  BY <1>1, <1>4 DEF CompletedAndPromoted, TaskRow
<1> QED
  BY <1>3, <1>4

LEMMA GatedTasksBlockedTyped ==
  ASSUME BoardTypeOK
  PROVE  /\ GatedTasksBlocked \in Seq(TaskRow)
         /\ DOMAIN GatedTasksBlocked = DOMAIN tasks
         /\ \A u \in DOMAIN tasks :
              GatedTasksBlocked[u].status = "dispatched" => tasks[u].status = "dispatched"
<1>1. tasks \in [DOMAIN tasks -> TaskRow] /\ tasks \in Seq(TaskRow)
  BY LenProperties DEF BoardTypeOK
<1>2. GatedTasksBlocked \in [DOMAIN tasks -> TaskRow]
  BY <1>1 DEF GatedTasksBlocked, TaskRow, TaskStatus
<1>3. GatedTasksBlocked \in Seq(TaskRow) /\ DOMAIN GatedTasksBlocked = DOMAIN tasks
  BY <1>1, <1>2, TableOfFunction
<1>4. ASSUME NEW u \in DOMAIN tasks, GatedTasksBlocked[u].status = "dispatched"
      PROVE  tasks[u].status = "dispatched"
  BY <1>1, <1>4 DEF GatedTasksBlocked, TaskRow
<1> QED
  BY <1>3, <1>4

\* What every write but createDispatchContext and reset does to the contexts: rows
\* keep their task, handle and pane, and none is opened.
OnlyCloses(next) ==
  /\ next \in Seq(DispatchContextRow)
  /\ DOMAIN next = DOMAIN dispatches
  /\ \A c \in DOMAIN dispatches :
       /\ next[c].task = dispatches[c].task
       /\ next[c].handle = dispatches[c].handle
       /\ next[c].pane = dispatches[c].pane
       /\ next[c].status = "dispatched" => Active(c)

LEMMA CompletingOnlyCloses ==
  ASSUME BoardTypeOK, NEW t
  PROVE  /\ OnlyCloses(ActiveDispatchCompleted(t))
         /\ \A c \in DOMAIN dispatches :
              /\ dispatches[c].task # t => ActiveDispatchCompleted(t)[c] = dispatches[c]
              /\ IsNewest(c, ActiveDispatchesOf(t)) =>
                   ActiveDispatchCompleted(t)[c].status = "completed"
<1>1. dispatches \in [DOMAIN dispatches -> DispatchContextRow]
      /\ dispatches \in Seq(DispatchContextRow)
  BY LenProperties DEF BoardTypeOK
<1>2. ActiveDispatchCompleted(t) \in [DOMAIN dispatches -> DispatchContextRow]
  BY <1>1 DEF ActiveDispatchCompleted, DispatchContextRow, DispatchStatus
<1>3. /\ ActiveDispatchCompleted(t) \in Seq(DispatchContextRow)
      /\ DOMAIN ActiveDispatchCompleted(t) = DOMAIN dispatches
  BY <1>1, <1>2, TableOfFunction
<1>4. ASSUME NEW c \in DOMAIN dispatches
      PROVE  /\ ActiveDispatchCompleted(t)[c].task = dispatches[c].task
             /\ ActiveDispatchCompleted(t)[c].handle = dispatches[c].handle
             /\ ActiveDispatchCompleted(t)[c].pane = dispatches[c].pane
             /\ ActiveDispatchCompleted(t)[c].status = "dispatched" => Active(c)
             /\ IsNewest(c, ActiveDispatchesOf(t)) =>
                  ActiveDispatchCompleted(t)[c].status = "completed"
  BY <1>1 DEF ActiveDispatchCompleted, DispatchContextRow, Active
<1>5. ASSUME NEW c \in DOMAIN dispatches, dispatches[c].task # t
      PROVE  ActiveDispatchCompleted(t)[c] = dispatches[c]
  BY <1>5 DEF ActiveDispatchCompleted, IsNewest, ActiveDispatchesOf, DispatchesOf
<1> QED
  BY <1>3, <1>4, <1>5 DEF OnlyCloses

LEMMA FailingOnlyCloses ==
  ASSUME BoardTypeOK, NEW c \in DOMAIN dispatches, FailDispatch(c)
  PROVE  /\ OnlyCloses(dispatches')
         /\ \A d \in DOMAIN dispatches : d # c => dispatches'[d] = dispatches[d]
         /\ dispatches'[c].status # "dispatched"
<1>1. dispatches \in [DOMAIN dispatches -> DispatchContextRow]
      /\ dispatches \in Seq(DispatchContextRow)
  BY LenProperties DEF BoardTypeOK
<1>2. dispatches[c] \in DispatchContextRow
  BY <1>1
<1> DEFINE row == FailedRow(c, StatusAfterFailure(c))
<1>3. dispatches' = [dispatches EXCEPT ![c] = row]
  BY DEF FailDispatch
<1>4. row \in DispatchContextRow
  BY <1>2 DEF FailedRow, StatusAfterFailure, DispatchContextRow, DispatchStatus
<1>5. row.task = dispatches[c].task /\ row.handle = dispatches[c].handle
      /\ row.pane = dispatches[c].pane /\ row.status # "dispatched"
  BY DEF FailedRow, StatusAfterFailure
<1>6. dispatches' \in [DOMAIN dispatches -> DispatchContextRow]
  BY <1>1, <1>3, <1>4
<1>7. dispatches' \in Seq(DispatchContextRow) /\ DOMAIN dispatches' = DOMAIN dispatches
  BY <1>1, <1>6, TableOfFunction
<1>8. dispatches'[c] = row /\ \A d \in DOMAIN dispatches : d # c => dispatches'[d] = dispatches[d]
  BY <1>1, <1>3
<1> QED
  BY <1>5, <1>7, <1>8 DEF OnlyCloses, Active


(***************************************************************************)
(* Type correctness.                                                       *)
(***************************************************************************)

\* No method spoils the tables.
LEMMA BoardTypeStep ==
  ASSUME BoardTypeOK, [BoardNext]_boardVars
  PROVE  BoardTypeOK'
<1> USE BoardAssumption
<1>0. /\ tasks \in Seq(TaskRow) /\ DOMAIN tasks = 1 .. Len(tasks) /\ Len(tasks) \in Nat
      /\ dispatches \in Seq(DispatchContextRow)
      /\ DOMAIN dispatches = 1 .. Len(dispatches) /\ Len(dispatches) \in Nat
      /\ gates \in Seq(DecisionGateRow)
      /\ DOMAIN gates = 1 .. Len(gates) /\ Len(gates) \in Nat
  BY LenProperties DEF BoardTypeOK
<1>1. ASSUME NEW D \in SUBSET DOMAIN tasks, CreateTask(D)
      PROVE  BoardTypeOK'
  <2> DEFINE row == [status |-> IF D = {} THEN "ready" ELSE "pending", deps |-> D]
  <2>1. row \in TaskRow
    BY <1>0 DEF TaskRow, TaskStatus
  <2>2. tasks' = Append(tasks, row) /\ UNCHANGED <<dispatches, gates>>
    BY <1>1 DEF CreateTask
  <2>3. tasks' \in Seq(TaskRow) /\ DOMAIN tasks \subseteq DOMAIN tasks'
    BY <1>0, <2>1, <2>2, TableAppend
  <2> QED
    BY <2>2, <2>3 DEF BoardTypeOK
<1>2. ASSUME NEW t \in DOMAIN tasks, CompleteTask(t)
      PROVE  BoardTypeOK'
  <2>1. tasks' \in Seq(TaskRow) /\ DOMAIN tasks' = DOMAIN tasks
    BY <1>2, CompletedAndPromotedTyped DEF CompleteTask
  <2>2. OnlyCloses(dispatches') /\ gates' = gates
    BY <1>2, CompletingOnlyCloses DEF CompleteTask
  <2> QED
    BY <2>1, <2>2 DEF BoardTypeOK, OnlyCloses
<1>3. ASSUME NEW t \in DOMAIN tasks, NEW s \in Manual, UpdateTask(t, s)
      PROVE  BoardTypeOK'
  <2>1. CASE s = "completed"
    BY <1>2, <1>3, <2>1 DEF UpdateTask
  <2>2. CASE s # "completed"
    <3>1. tasks' = SetStatus(t, s) /\ UNCHANGED <<dispatches, gates>> /\ s \in TaskStatus
      BY <1>3, <2>2 DEF UpdateTask
    <3>2. tasks' \in Seq(TaskRow) /\ DOMAIN tasks' = DOMAIN tasks
      BY <3>1, SetStatusTyped
    <3> QED
      BY <3>1, <3>2 DEF BoardTypeOK
  <2> QED
    BY <2>1, <2>2
<1>4. ASSUME NEW t \in DOMAIN tasks, NEW h \in Handles, NEW p \in KeysOf(h),
             CreateDispatchContext(t, h, p)
      PROVE  BoardTypeOK'
  <2>1. PICK n \in 0 .. MaxFailures :
          dispatches' = Append(dispatches,
            [task |-> t, handle |-> h, pane |-> p, status |-> "dispatched", failures |-> n])
    BY <1>4 DEF CreateDispatchContext
  <2> DEFINE row == [task |-> t, handle |-> h, pane |-> p,
                     status |-> "dispatched", failures |-> n]
  <2>2. row \in DispatchContextRow /\ row.task = t
    BY <1>0 DEF DispatchContextRow, DispatchStatus, KeysOf
  <2>3. /\ dispatches' \in Seq(DispatchContextRow)
        /\ DOMAIN dispatches' = 1 .. Len(dispatches) + 1
        /\ dispatches'[Len(dispatches) + 1] = row
        /\ \A c \in DOMAIN dispatches : dispatches'[c] = dispatches[c]
    BY <1>0, <2>1, <2>2, TableAppend
  <2>4. tasks' \in Seq(TaskRow) /\ DOMAIN tasks' = DOMAIN tasks
    BY <1>4, SetStatusTyped DEF CreateDispatchContext, TaskStatus
  <2> HIDE DEF row
  <2>5. ASSUME NEW c \in DOMAIN dispatches'
        PROVE  dispatches'[c].task \in DOMAIN tasks'
    <3>1. CASE c \in DOMAIN dispatches
      BY <2>3, <2>4, <3>1 DEF BoardTypeOK
    <3>2. CASE c = Len(dispatches) + 1
      BY <2>2, <2>3, <2>4, <3>2
    <3> QED
      BY <1>0, <2>3, <3>1, <3>2
  <2> QED
    BY <1>4, <2>3, <2>4, <2>5 DEF BoardTypeOK, CreateDispatchContext
<1>5. ASSUME NEW c \in DOMAIN dispatches, FailDispatch(c)
      PROVE  BoardTypeOK'
  <2>1. OnlyCloses(dispatches')
    BY <1>5, FailingOnlyCloses
  <2>2. tasks' \in Seq(TaskRow) /\ DOMAIN tasks' = DOMAIN tasks
    BY <1>5, SetStatusTyped DEF BoardTypeOK, FailDispatch, TaskStatus
  <2> QED
    BY <1>5, <2>1, <2>2 DEF BoardTypeOK, OnlyCloses, FailDispatch
<1>6. ASSUME NEW c \in DOMAIN dispatches, NEW h \in Handles, NEW p \in KeysOf(h),
             WorkerDone(c, h, p)
      PROVE  BoardTypeOK'
  BY <1>2, <1>6 DEF WorkerDone, BoardTypeOK
<1>7. ASSUME NEW t \in DOMAIN tasks, CreateGate(t)
      PROVE  BoardTypeOK'
  <2> DEFINE row == [task |-> t, status |-> "pending"]
  <2>1. row \in DecisionGateRow /\ row.task = t
    BY <1>0 DEF DecisionGateRow, GateStatus
  <2>2. /\ gates' \in Seq(DecisionGateRow)
        /\ DOMAIN gates' = 1 .. Len(gates) + 1
        /\ gates'[Len(gates) + 1] = row
        /\ \A g \in DOMAIN gates : gates'[g] = gates[g]
    BY <1>0, <1>7, <2>1, TableAppend DEF CreateGate
  <2>3. OnlyCloses(dispatches')
    BY <1>7, CompletingOnlyCloses DEF CreateGate
  <2>4. tasks' \in Seq(TaskRow) /\ DOMAIN tasks' = DOMAIN tasks
    BY <1>7, SetStatusTyped DEF CreateGate, TaskStatus
  <2> HIDE DEF row
  <2>5. ASSUME NEW g \in DOMAIN gates'
        PROVE  gates'[g].task \in DOMAIN tasks'
    <3>1. CASE g \in DOMAIN gates
      BY <2>2, <2>4, <3>1 DEF BoardTypeOK
    <3>2. CASE g = Len(gates) + 1
      BY <2>1, <2>2, <2>4, <3>2
    <3> QED
      BY <1>0, <2>2, <3>1, <3>2
  <2> QED
    BY <2>2, <2>3, <2>4, <2>5 DEF BoardTypeOK, OnlyCloses
<1>8. ASSUME NEW g \in DOMAIN gates, NEW s \in GateStatus,
             gates' = [gates EXCEPT ![g].status = s]
      PROVE  /\ gates' \in Seq(DecisionGateRow) /\ DOMAIN gates' = DOMAIN gates
             /\ \A f \in DOMAIN gates : gates'[f].task = gates[f].task
  <2>1. gates \in [DOMAIN gates -> DecisionGateRow]
    BY <1>0, LenProperties
  <2>2. gates' \in [DOMAIN gates -> DecisionGateRow]
    BY <1>8, <2>1 DEF DecisionGateRow
  <2>3. \A f \in DOMAIN gates : gates'[f].task = gates[f].task
    BY <1>8, <2>1 DEF DecisionGateRow
  <2> QED
    BY <1>0, <2>2, <2>3, TableOfFunction
<1>9. ASSUME NEW g \in DOMAIN gates, ResolveGate(g)
      PROVE  BoardTypeOK'
  <2>1. gates' \in Seq(DecisionGateRow) /\ DOMAIN gates' = DOMAIN gates
        /\ \A f \in DOMAIN gates : gates'[f].task = gates[f].task
    BY <1>8, <1>9 DEF ResolveGate, GateStatus
  <2>2. tasks' \in Seq(TaskRow) /\ DOMAIN tasks' = DOMAIN tasks
    BY <1>9, SetStatusTyped DEF BoardTypeOK, ResolveGate, TaskStatus
  <2> QED
    BY <1>9, <2>1, <2>2 DEF BoardTypeOK, ResolveGate
<1>10. ASSUME NEW g \in DOMAIN gates, TimeoutGate(g)
       PROVE  BoardTypeOK'
  <2>1. gates' \in Seq(DecisionGateRow) /\ DOMAIN gates' = DOMAIN gates
        /\ \A f \in DOMAIN gates : gates'[f].task = gates[f].task
    BY <1>8, <1>10 DEF TimeoutGate, GateStatus
  <2> QED
    BY <1>10, <2>1 DEF BoardTypeOK, TimeoutGate
<1>11. CASE BlockGatedTasks
  BY <1>11, GatedTasksBlockedTyped DEF BlockGatedTasks, BoardTypeOK
<1>12. CASE ResetTasks
  BY <1>12, EmptySeq DEF ResetTasks, BoardTypeOK
<1>13. CASE UNCHANGED boardVars
  BY <1>13 DEF boardVars, BoardTypeOK
<1> QED
  BY <1>1, <1>3, <1>4, <1>5, <1>6, <1>7, <1>9, <1>10, <1>11, <1>12, <1>13 DEF BoardNext

\* Every table keeps its shape, and every reference names a task that exists,
\* whatever method is called.
THEOREM BoardTypeCorrect == BoardSpec => []BoardTypeOK
<1>1. BoardInit => BoardTypeOK
  BY EmptySeq DEF BoardInit, BoardTypeOK
<1>2. BoardTypeOK /\ [BoardNext]_boardVars => BoardTypeOK'
  BY BoardTypeStep
<1> QED
  BY <1>1, <1>2, PTL DEF BoardSpec

(***************************************************************************)
(* The terminal lock.                                                      *)
(***************************************************************************)

\* A step opens one dispatch, deletes every row, or only closes dispatches.
LEMMA StepKinds ==
  ASSUME BoardTypeOK, [BoardNext]_boardVars
  PROVE  \/ OnlyCloses(dispatches')
         \/ \E t \in DOMAIN tasks, h \in Handles : \E p \in KeysOf(h) :
              CreateDispatchContext(t, h, p)
         \/ dispatches' = <<>>
<1>1. ASSUME UNCHANGED dispatches
      PROVE  OnlyCloses(dispatches')
  BY <1>1 DEF OnlyCloses, BoardTypeOK, Active
<1>2. ASSUME NEW t, CompleteTask(t)
      PROVE  OnlyCloses(dispatches')
  BY <1>2, CompletingOnlyCloses DEF CompleteTask
<1>3. ASSUME NEW t, NEW s, UpdateTask(t, s)
      PROVE  OnlyCloses(dispatches')
  BY <1>1, <1>2, <1>3 DEF UpdateTask
<1>4. ASSUME NEW t, CreateGate(t)
      PROVE  OnlyCloses(dispatches')
  BY <1>4, CompletingOnlyCloses DEF CreateGate
<1>5. ASSUME NEW c \in DOMAIN dispatches, FailDispatch(c)
      PROVE  OnlyCloses(dispatches')
  BY <1>5, FailingOnlyCloses
<1>6. ASSUME NEW c, NEW h, NEW p, WorkerDone(c, h, p)
      PROVE  OnlyCloses(dispatches')
  BY <1>2, <1>6 DEF WorkerDone
<1>7. ASSUME \/ \E D \in SUBSET DOMAIN tasks : CreateTask(D)
             \/ \E g \in DOMAIN gates : ResolveGate(g) \/ TimeoutGate(g)
             \/ BlockGatedTasks
             \/ UNCHANGED boardVars
      PROVE  UNCHANGED dispatches
  BY <1>7 DEF CreateTask, ResolveGate, TimeoutGate, BlockGatedTasks, boardVars
<1>8. CASE ResetTasks
  BY <1>8 DEF ResetTasks
<1> QED
  BY <1>1, <1>3, <1>4, <1>5, <1>6, <1>7, <1>8 DEF BoardNext

LEMMA ClosingKeepsLock ==
  ASSUME BoardTypeOK, TerminalLock, OnlyCloses(dispatches')
  PROVE  TerminalLock'
<1> SUFFICES ASSUME NEW c \in DOMAIN dispatches', NEW d \in DOMAIN dispatches',
                    Active(c)', Active(d)', c # d
             PROVE  /\ dispatches'[c].handle # dispatches'[d].handle
                    /\ ~SamePane(dispatches'[c].pane, dispatches'[d].pane)
  BY DEF TerminalLock
<1>1. /\ c \in DOMAIN dispatches /\ d \in DOMAIN dispatches
      /\ dispatches'[c].handle = dispatches[c].handle /\ dispatches'[c].pane = dispatches[c].pane
      /\ dispatches'[d].handle = dispatches[d].handle /\ dispatches'[d].pane = dispatches[d].pane
      /\ Active(c) /\ Active(d)
  BY DEF OnlyCloses, Active
<1> QED
  BY <1>1 DEF TerminalLock

\* The context createDispatchContext adds, and the rows it leaves alone.
LEMMA OpeningAppends ==
  ASSUME BoardTypeOK, NEW t \in DOMAIN tasks, NEW h \in Handles, NEW p \in KeysOf(h),
         CreateDispatchContext(t, h, p)
  PROVE  LET k == Len(dispatches) + 1 IN
         /\ Len(dispatches) \in Nat
         /\ DOMAIN dispatches = 1 .. Len(dispatches)
         /\ DOMAIN dispatches' = 1 .. k
         /\ \A c \in DOMAIN dispatches : dispatches'[c] = dispatches[c]
         /\ dispatches'[k].task = t /\ dispatches'[k].handle = h /\ dispatches'[k].pane = p
         /\ dispatches'[k].status = "dispatched"
<1>1. PICK n \in 0 .. MaxFailures :
        dispatches' = Append(dispatches,
          [task |-> t, handle |-> h, pane |-> p, status |-> "dispatched", failures |-> n])
  BY DEF CreateDispatchContext
<1> DEFINE row == [task |-> t, handle |-> h, pane |-> p,
                   status |-> "dispatched", failures |-> n]
<1>2. t \in Nat
  BY LenProperties DEF BoardTypeOK
<1>3. row \in DispatchContextRow
  BY <1>2, BoardAssumption DEF DispatchContextRow, DispatchStatus, KeysOf
<1>4. dispatches \in Seq(DispatchContextRow)
  BY DEF BoardTypeOK
<1> QED
  BY <1>1, <1>3, <1>4, TableAppend

LEMMA OpeningKeepsLock ==
  ASSUME BoardTypeOK, TerminalLock,
         NEW t \in DOMAIN tasks, NEW h \in Handles, NEW p \in KeysOf(h),
         CreateDispatchContext(t, h, p)
  PROVE  TerminalLock'
<1> DEFINE k == Len(dispatches) + 1
<1>1. /\ Len(dispatches) \in Nat
      /\ DOMAIN dispatches = 1 .. Len(dispatches)
      /\ DOMAIN dispatches' = 1 .. k
      /\ \A c \in DOMAIN dispatches : dispatches'[c] = dispatches[c]
      /\ dispatches'[k].handle = h /\ dispatches'[k].pane = p
  BY OpeningAppends
<1>2. \A c \in DOMAIN dispatches :
        Active(c) => dispatches[c].handle # h /\ ~SamePane(dispatches[c].pane, p)
  BY DEF CreateDispatchContext, ActiveForAssignee
<1>3. ASSUME NEW c \in DOMAIN dispatches', NEW d \in DOMAIN dispatches',
             Active(c)', Active(d)', c # d
      PROVE  /\ dispatches'[c].handle # dispatches'[d].handle
             /\ ~SamePane(dispatches'[c].pane, dispatches'[d].pane)
  <2>1. CASE c \in DOMAIN dispatches /\ d \in DOMAIN dispatches
    <3>1. Active(c) /\ Active(d)
      BY <1>1, <1>3, <2>1 DEF Active
    <3> QED
      BY <1>1, <1>3, <2>1, <3>1 DEF TerminalLock
  <2>2. CASE c = k /\ d \in DOMAIN dispatches
    <3>1. Active(d)
      BY <1>1, <1>3, <2>2 DEF Active
    <3> QED
      BY <1>1, <1>2, <2>2, <3>1 DEF SamePane
  <2>3. CASE d = k /\ c \in DOMAIN dispatches
    <3>1. Active(c)
      BY <1>1, <1>3, <2>3 DEF Active
    <3> QED
      BY <1>1, <1>2, <2>3, <3>1 DEF SamePane
  <2> QED
    BY <1>1, <1>3, <2>1, <2>2, <2>3
<1> QED
  BY <1>3 DEF TerminalLock

\* No interleaving of calls opens two dispatches under one handle, or under two handles
\* of a pane whose key both recorded: createDispatchContext's lock is never bypassed.  It
\* does not cover the pane of a dispatch that was recorded without its key.
THEOREM TerminalLockHolds == BoardSpec => []TerminalLock
<1>1. BoardInit => TerminalLock
  BY DEF BoardInit, TerminalLock
<1>2. BoardTypeOK /\ TerminalLock /\ [BoardNext]_boardVars => TerminalLock'
  <2> SUFFICES ASSUME BoardTypeOK, TerminalLock, [BoardNext]_boardVars
               PROVE  TerminalLock'
    OBVIOUS
  <2>1. CASE OnlyCloses(dispatches')
    BY <2>1, ClosingKeepsLock
  <2>2. CASE \E t \in DOMAIN tasks, h \in Handles : \E p \in KeysOf(h) :
               CreateDispatchContext(t, h, p)
    BY <2>2, OpeningKeepsLock
  <2>3. CASE dispatches' = <<>>
    BY <2>3 DEF TerminalLock
  <2> QED
    BY <2>1, <2>2, <2>3, StepKinds
<1> QED
  BY <1>1, <1>2, BoardTypeCorrect, PTL DEF BoardSpec

\* A closed dispatch context is never reopened: a retry is always a new row.
THEOREM ClosedForGood == BoardSpec => ClosedStaysClosed
<1>1. BoardTypeOK /\ [BoardNext]_boardVars =>
        [\A c \in DOMAIN dispatches :
           c \in DOMAIN dispatches' /\ ~Active(c) =>
             dispatches'[c].status # "dispatched"]_boardVars
  <2> SUFFICES ASSUME BoardTypeOK, [BoardNext]_boardVars,
                      NEW c \in DOMAIN dispatches, c \in DOMAIN dispatches', ~Active(c)
               PROVE  dispatches'[c].status # "dispatched"
    OBVIOUS
  <2>1. CASE OnlyCloses(dispatches')
    BY <2>1 DEF OnlyCloses
  <2>2. CASE \E t \in DOMAIN tasks, h \in Handles : \E p \in KeysOf(h) :
               CreateDispatchContext(t, h, p)
    BY <2>2, OpeningAppends DEF Active
  <2>3. CASE dispatches' = <<>>
    BY <2>3
  <2> QED
    BY <2>1, <2>2, <2>3, StepKinds
<1> QED
  BY <1>1, BoardTypeCorrect, PTL DEF BoardSpec, ClosedStaysClosed

\* Whoever sends it and whatever else is going on, an accepted worker_done closes
\* exactly the dispatch it names.
THEOREM WorkerDoneClosesNamed == BoardSpec => WorkerDoneClosesItsDispatch
<1>1. BoardTypeOK =>
        [\A c \in DOMAIN dispatches, h \in Handles, p \in Panes \cup {NoPane} :
           WorkerDone(c, h, p) => dispatches'[c].status = "completed"]_boardVars
  <2> SUFFICES ASSUME BoardTypeOK, NEW c \in DOMAIN dispatches, NEW h \in Handles,
                      NEW p \in Panes \cup {NoPane}, WorkerDone(c, h, p)
               PROVE  dispatches'[c].status = "completed"
    OBVIOUS
  <2> DEFINE t == dispatches[c].task
  <2>1. Active(c) /\ IsNewest(c, DispatchesOf(t)) /\ CompleteTask(t)
    BY DEF WorkerDone, AcceptsWorkerDone, IsDispatchContext
  <2>2. IsNewest(c, ActiveDispatchesOf(t))
    BY <2>1 DEF IsNewest, ActiveDispatchesOf
  <2> QED
    BY <2>1, <2>2, CompletingOnlyCloses DEF CompleteTask
<1> QED
  BY <1>1, BoardTypeCorrect, PTL DEF BoardSpec, WorkerDoneClosesItsDispatch

(***************************************************************************)
(* A dispatched task has an open dispatch.                                 *)
(***************************************************************************)

\* The invariant carries over to a step after which every dispatched task was
\* dispatched before, with its contexts as they were.
LEMMA UntouchedStaysBacked ==
  ASSUME BoardTypeOK, NoGhostDispatch, OnlyCloses(dispatches'),
         DOMAIN tasks' = DOMAIN tasks,
         \A u \in DOMAIN tasks : tasks'[u].status = "dispatched" =>
           /\ tasks[u].status = "dispatched"
           /\ \A c \in DispatchesOf(u) : dispatches'[c] = dispatches[c]
  PROVE  NoGhostDispatch'
<1> SUFFICES ASSUME NEW u \in DOMAIN tasks, tasks'[u].status = "dispatched"
             PROVE  \E c \in DOMAIN dispatches' : IsDispatchContext(c, u)' /\ Active(c)'
  BY DEF NoGhostDispatch
<1>1. tasks[u].status = "dispatched"
      /\ \A c \in DispatchesOf(u) : dispatches'[c] = dispatches[c]
  OBVIOUS
<1>2. PICK c \in DOMAIN dispatches : IsDispatchContext(c, u) /\ Active(c)
  BY <1>1 DEF NoGhostDispatch
<1>3. c \in DispatchesOf(u)
  BY <1>2 DEF IsDispatchContext, IsNewest
<1>4. DispatchesOf(u)' = DispatchesOf(u) /\ DOMAIN dispatches' = DOMAIN dispatches
  BY DEF DispatchesOf, OnlyCloses
<1>5. IsDispatchContext(c, u)'
  BY <1>2, <1>4 DEF IsDispatchContext, IsNewest
<1>6. Active(c)'
  BY <1>1, <1>2, <1>3 DEF Active
<1> QED
  BY <1>4, <1>5, <1>6

\* As long as no operator writes the status 'dispatched' by hand, a task shown as
\* dispatched always has its latest dispatch context open, so a worker exists
\* whose worker_done can complete it.
THEOREM DispatchedIsBacked ==
  ASSUME "dispatched" \notin Manual
  PROVE  BoardSpec => []NoGhostDispatch
<1>1. BoardInit => NoGhostDispatch
  BY DEF BoardInit, NoGhostDispatch
<1>2. BoardTypeOK /\ NoGhostDispatch /\ [BoardNext]_boardVars => NoGhostDispatch'
  <2> SUFFICES ASSUME BoardTypeOK, NoGhostDispatch, [BoardNext]_boardVars
               PROVE  NoGhostDispatch'
    OBVIOUS
  <2>0. /\ tasks \in Seq(TaskRow) /\ DOMAIN tasks = 1 .. Len(tasks) /\ Len(tasks) \in Nat
        /\ \A c \in DOMAIN dispatches : dispatches[c].task \in DOMAIN tasks
        /\ DOMAIN dispatches = 1 .. Len(dispatches) /\ Len(dispatches) \in Nat
    BY LenProperties DEF BoardTypeOK
  <2>1. ASSUME NEW D \in SUBSET DOMAIN tasks, CreateTask(D)
        PROVE  NoGhostDispatch'
    <3> DEFINE row == [status |-> IF D = {} THEN "ready" ELSE "pending", deps |-> D]
    <3>1. row \in TaskRow
      BY <2>0 DEF TaskRow, TaskStatus
    <3>2. tasks' = Append(tasks, row) /\ dispatches' = dispatches
      BY <2>1 DEF CreateTask
    <3>3. /\ DOMAIN tasks' = 1 .. Len(tasks) + 1
          /\ tasks'[Len(tasks) + 1] = row
          /\ \A u \in DOMAIN tasks : tasks'[u] = tasks[u]
      BY <2>0, <3>1, <3>2, TableAppend
    <3>4. ASSUME NEW u \in DOMAIN tasks', tasks'[u].status = "dispatched"
          PROVE  u \in DOMAIN tasks /\ tasks[u].status = "dispatched"
      BY <2>0, <3>3, <3>4
    <3> QED
      BY <3>2, <3>4 DEF NoGhostDispatch, IsDispatchContext, IsNewest, DispatchesOf, Active
  <2>2. ASSUME NEW t \in DOMAIN tasks, CompleteTask(t)
        PROVE  NoGhostDispatch'
    <3>1. DOMAIN tasks' = DOMAIN tasks
          /\ \A u \in DOMAIN tasks :
               tasks'[u].status = "dispatched" => u # t /\ tasks[u].status = "dispatched"
      BY <2>2, CompletedAndPromotedTyped DEF CompleteTask
    <3>2. OnlyCloses(dispatches')
          /\ \A c \in DOMAIN dispatches :
               dispatches[c].task # t => dispatches'[c] = dispatches[c]
      BY <2>2, CompletingOnlyCloses DEF CompleteTask
    <3> QED
      BY <3>1, <3>2, UntouchedStaysBacked DEF DispatchesOf
  <2>3. ASSUME NEW t \in DOMAIN tasks, NEW s \in TaskStatus, s # "dispatched",
               tasks' = SetStatus(t, s), OnlyCloses(dispatches'),
               \A c \in DOMAIN dispatches :
                 dispatches[c].task # t => dispatches'[c] = dispatches[c]
        PROVE  NoGhostDispatch'
    <3>1. /\ DOMAIN tasks' = DOMAIN tasks /\ tasks'[t].status = s
          /\ \A u \in DOMAIN tasks : u # t => tasks'[u] = tasks[u]
      BY <2>3, SetStatusTyped
    <3> QED
      BY <2>3, <3>1, UntouchedStaysBacked DEF DispatchesOf
  <2>4. ASSUME UNCHANGED dispatches
        PROVE  /\ OnlyCloses(dispatches')
               /\ \A c \in DOMAIN dispatches : dispatches'[c] = dispatches[c]
    BY <2>4 DEF OnlyCloses, BoardTypeOK, Active
  <2>5. ASSUME NEW t \in DOMAIN tasks, NEW s \in Manual, UpdateTask(t, s)
        PROVE  NoGhostDispatch'
    <3>1. CASE s = "completed"
      BY <2>2, <2>5, <3>1 DEF UpdateTask
    <3>2. CASE s # "completed"
      BY <2>3, <2>4, <2>5, <3>2, BoardAssumption DEF UpdateTask
    <3> QED
      BY <3>1, <3>2
  <2>6. ASSUME NEW t \in DOMAIN tasks, NEW h \in Handles, NEW p \in KeysOf(h),
               CreateDispatchContext(t, h, p)
        PROVE  NoGhostDispatch'
    <3> DEFINE k == Len(dispatches) + 1
    <3>1. /\ DOMAIN dispatches' = 1 .. k
          /\ \A c \in DOMAIN dispatches : dispatches'[c] = dispatches[c]
          /\ dispatches'[k].task = t /\ dispatches'[k].status = "dispatched"
      BY <2>6, OpeningAppends
    <3>2. /\ DOMAIN tasks' = DOMAIN tasks
          /\ \A u \in DOMAIN tasks : u # t => tasks'[u] = tasks[u]
      BY <2>6, SetStatusTyped DEF CreateDispatchContext, TaskStatus
    <3>3. ASSUME NEW u \in DOMAIN tasks', tasks'[u].status = "dispatched"
          PROVE  \E c \in DOMAIN dispatches' : IsDispatchContext(c, u)' /\ Active(c)'
      <4>1. CASE u = t
        <5>1. k \in DispatchesOf(u)' /\ \A d \in DispatchesOf(u)' : d <= k
          BY <2>0, <3>1, <4>1 DEF DispatchesOf
        <5> QED
          BY <2>0, <3>1, <5>1 DEF IsDispatchContext, IsNewest, Active
      <4>2. CASE u # t
        <5>1. PICK c \in DOMAIN dispatches : IsDispatchContext(c, u) /\ Active(c)
          BY <3>2, <3>3, <4>2 DEF NoGhostDispatch
        <5>2. DispatchesOf(u)' = DispatchesOf(u)
          BY <2>0, <3>1, <4>2 DEF DispatchesOf
        <5>3. IsDispatchContext(c, u)' /\ Active(c)'
          BY <3>1, <5>1, <5>2 DEF IsDispatchContext, IsNewest, Active
        <5> QED
          BY <2>0, <3>1, <5>3
      <4> QED
        BY <4>1, <4>2
    <3> QED
      BY <3>3 DEF NoGhostDispatch
  <2>7. ASSUME NEW c \in DOMAIN dispatches, FailDispatch(c)
        PROVE  NoGhostDispatch'
    <3>1. OnlyCloses(dispatches')
          /\ \A d \in DOMAIN dispatches : d # c => dispatches'[d] = dispatches[d]
      BY <2>7, FailingOnlyCloses
    <3> QED
      BY <2>0, <2>3, <2>7, <3>1 DEF FailDispatch, TaskStatus
  <2>8. ASSUME NEW c \in DOMAIN dispatches, NEW h \in Handles, NEW p \in KeysOf(h),
               WorkerDone(c, h, p)
        PROVE  NoGhostDispatch'
    BY <2>0, <2>2, <2>8 DEF WorkerDone
  <2>9. ASSUME NEW t \in DOMAIN tasks, CreateGate(t)
        PROVE  NoGhostDispatch'
    BY <2>3, <2>9, CompletingOnlyCloses DEF CreateGate, TaskStatus
  <2>10. ASSUME NEW g \in DOMAIN gates, ResolveGate(g)
         PROVE  NoGhostDispatch'
    BY <2>3, <2>4, <2>10 DEF ResolveGate, TaskStatus, BoardTypeOK
  <2>11. CASE BlockGatedTasks
    <3>1. OnlyCloses(dispatches') /\ \A c \in DOMAIN dispatches : dispatches'[c] = dispatches[c]
      BY <2>4, <2>11 DEF BlockGatedTasks
    <3> QED
      BY <2>11, <3>1, GatedTasksBlockedTyped, UntouchedStaysBacked
         DEF BlockGatedTasks, DispatchesOf
  <2>12. CASE ResetTasks
    BY <2>12 DEF ResetTasks, NoGhostDispatch
  <2>13. ASSUME UNCHANGED <<tasks, dispatches>>
         PROVE  NoGhostDispatch'
    BY <2>13 DEF NoGhostDispatch, IsDispatchContext, IsNewest, DispatchesOf, Active
  <2> QED
    BY <2>1, <2>5, <2>6, <2>7, <2>8, <2>9, <2>10, <2>11, <2>12, <2>13
       DEF BoardNext, TimeoutGate, boardVars
<1> QED
  BY <1>1, <1>2, BoardTypeCorrect, PTL DEF BoardSpec

=============================================================================
