------------------------------- MODULE Mailbox -------------------------------
(***************************************************************************)
(* The messages addressed to one terminal handle, and the three ways they  *)
(* reach the agent behind it: pasted into its terminal when it is idle,    *)
(* returned by orchestration.check (which may wait), or, for the reply to  *)
(* a question, returned by orchestration.ask.  Handles do not share rows,  *)
(* waiters or terminals, so one mailbox is modelled.                       *)
(*                                                                         *)
(* The two bits of a row, read and delivered, are independent: a paste     *)
(* stamps delivered, a check stamps read.  Lifecycle messages are about    *)
(* one dispatch, whose end elsewhere is an input here.                     *)
(***************************************************************************)
EXTENDS Naturals, Sequences, FiniteSets

CONSTANTS
  Callers,      \* the processes that call check or ask
  Filters,      \* the --types a check may be given, as sets of types
  NoEnter,      \* may the agent be the active coordinator or a Cursor agent, and may it not?
  Exits,        \* do workers of this coordinator exit while a run is active?
  MaxMessages,  \* bound: rows
  MaxTimers,    \* bound: pastes that wait for their Enter
  MaxBreaks     \* bound: times the terminal stops taking writes

MessageType == {"status", "escalation", "worker_done", "heartbeat"}
NoThread == "none"
ExitThread == "exit"  \* no thread either; marks the rows of ExitEscalation

ASSUME MailboxAssumption ==
  /\ {NoThread, ExitThread} \cap Callers = {}
  /\ Filters \subseteq SUBSET MessageType
  /\ NoEnter \subseteq BOOLEAN /\ Exits \in BOOLEAN
  /\ {MaxMessages, MaxTimers, MaxBreaks} \subseteq Nat

VARIABLES
  messages,  \* [type, thread, read, delivered] per row, in sequence order
  dispatch,  \* the dispatch the lifecycle messages are about: "open", "done", "closed"
  status,    \* lastAgentStatus of the leaf, "idle" or "busy"
  writable,  \* does the terminal take a write?
  timers,    \* the 500 ms timers of deliverPendingMessages: the rows each one pasted
  calls,     \* [kind, filter, pc] of each caller
  pasted,    \* history: how often a row was pasted
  breaks     \* bound: times the terminal stopped taking writes

mailboxVars == <<messages, dispatch, status, writable, timers, calls, pasted, breaks>>

NoCall == [kind |-> "none", filter |-> {}, pc |-> "idle"]

-----------------------------------------------------------------------------
(* Queries and writes on the messages table.                                *)

Unread(F) == {i \in DOMAIN messages : ~messages[i].read /\ messages[i].type \in F}

\* getUndeliveredUnreadMessages over the table ms
Undelivered(ms) == {i \in DOMAIN ms : ~ms[i].read /\ ~ms[i].delivered}

Row(type, thread) == [type |-> type, thread |-> thread, read |-> FALSE, delivered |-> FALSE]

MarkRead(ms, S) == [i \in DOMAIN ms |-> IF i \in S THEN [ms[i] EXCEPT !.read = TRUE] ELSE ms[i]]

MarkDelivered(ms, S) ==
  [i \in DOMAIN ms |-> IF i \in S THEN [ms[i] EXCEPT !.delivered = TRUE] ELSE ms[i]]

\* markAsReadAndDelivered
Suppress(ms, S) == MarkDelivered(MarkRead(ms, S), S)

\* Mutant: a worker_done leaves the heartbeats before it unread.
ReconciledKeepsHeartbeats(ms, owner) ==
  IF ms[Len(ms)].type = "heartbeat" /\ dispatch # "open"
  THEN Suppress(ms, {Len(ms)})
  ELSE ms

\* reconcileLifecycleMessage of the last row of ms, sent by the dispatch's owner or
\* not: a heartbeat of a dispatch that ended is suppressed, and a worker_done that
\* ends it suppresses the unread heartbeats before it.
Reconciled(ms, owner) ==
  LET n == Len(ms)
  IN CASE ms[n].type = "heartbeat" /\ dispatch # "open" -> Suppress(ms, {n})
       [] ms[n].type = "worker_done" /\ owner /\ dispatch = "open" ->
            Suppress(ms, {i \in DOMAIN ms : ms[i].type = "heartbeat" /\ ~ms[i].read})
       [] OTHER -> ms

Replies(k) == {i \in DOMAIN messages : messages[i].thread = k}

-----------------------------------------------------------------------------
(* Delivery.                                                                *)

\* A resolved waiter continues before any other event is taken from the queue.
Settled == \A k \in Callers : calls[k].pc # "woken"

\* The history tells no paste, one, and more apart.
More(n) == IF n = 0 THEN 1 ELSE 2

\* deliverPendingMessages of the table ms, the write of a step that goes on elsewhere.
\* A write fails exactly when the terminal is not writable.  The active coordinator and
\* a Cursor agent get no Enter.
Deliver(ms) ==
  LET S == Undelivered(ms)
  IN IF S = {} \/ ~writable
     THEN messages' = ms /\ UNCHANGED <<timers, pasted>>
     ELSE /\ pasted' = [i \in DOMAIN pasted |-> IF i \in S THEN More(pasted[i]) ELSE pasted[i]]
          /\ \/ /\ TRUE \in NoEnter
                /\ messages' = MarkDelivered(ms, S)
                /\ UNCHANGED timers
             \/ /\ FALSE \in NoEnter /\ Len(timers) < MaxTimers
                /\ timers' = Append(timers, S)
                /\ messages' = ms

\* deliverPendingMessagesForHandle
DeliverIfIdle(ms) ==
  IF status = "idle" THEN Deliver(ms) ELSE messages' = ms /\ UNCHANGED <<timers, pasted>>

\* notifyMessageArrived: an ask waits without a filter.
Woken(type) ==
  [k \in Callers |->
     IF calls[k].pc = "waiting" /\ type \in calls[k].filter
     THEN [calls[k] EXCEPT !.pc = "woken"]
     ELSE calls[k]]

-----------------------------------------------------------------------------
(* Senders.                                                                 *)

\* orchestration.send to this handle.  A suppressed message wakes nobody.
Send(type, owner) ==
  /\ Settled /\ Len(messages) < MaxMessages
  /\ LET ms == Reconciled(Append(messages, Row(type, NoThread)), owner)
     IN IF ms[Len(ms)].read
        THEN messages' = ms /\ UNCHANGED <<timers, pasted, calls>>
        ELSE DeliverIfIdle(ms) /\ calls' = Woken(type)
  /\ dispatch' = IF type = "worker_done" /\ owner /\ dispatch = "open" THEN "done" ELSE dispatch
  /\ UNCHANGED <<status, writable, breaks>>

\* Mutant: the reply is stored and nobody is woken.
ReplySilently(k) ==
  /\ Settled /\ Len(messages) < MaxMessages
  /\ calls[k].kind = "ask" /\ Replies(k) = {}
  /\ messages' = Append(messages, Row("status", k))
  /\ UNCHANGED <<dispatch, status, writable, timers, calls, pasted, breaks>>

\* orchestration.reply to the question of k: no push, but the waiters are woken.
Reply(k) ==
  /\ Settled /\ Len(messages) < MaxMessages
  /\ calls[k].kind = "ask" /\ Replies(k) = {}
  /\ messages' = Append(messages, Row("status", k))
  /\ calls' = Woken("status")
  /\ UNCHANGED <<dispatch, status, writable, timers, pasted, breaks>>

\* failActiveDispatchOnExit, for a worker of another dispatch: the row is inserted,
\* and nothing else happens.
ExitEscalation ==
  /\ Settled /\ Exits /\ Len(messages) < MaxMessages
  /\ messages' = Append(messages, Row("escalation", ExitThread))
  /\ UNCHANGED <<dispatch, status, writable, timers, calls, pasted, breaks>>

\* The dispatch ends without a worker_done: it failed, or a gate closed it.
DispatchCloses ==
  /\ Settled /\ dispatch = "open" /\ dispatch' = "closed"
  /\ UNCHANGED <<messages, status, writable, timers, calls, pasted, breaks>>

-----------------------------------------------------------------------------
(* The terminal.                                                            *)

\* Mutant: only a message that arrives at an idle agent is pushed.
BecomesIdleQuietly ==
  /\ Settled /\ status = "busy" /\ status' = "idle"
  /\ UNCHANGED <<messages, dispatch, writable, timers, calls, pasted, breaks>>

\* The pushes presuppose a leaf in the renderer's graph: a terminal without one gets none.
BecomesIdle ==
  /\ Settled /\ status = "busy" /\ status' = "idle"
  /\ Deliver(messages)
  /\ UNCHANGED <<dispatch, writable, calls, breaks>>

BecomesBusy ==
  /\ Settled /\ status = "idle" /\ status' = "busy"
  /\ UNCHANGED <<messages, dispatch, writable, timers, calls, pasted, breaks>>

\* Mutant: the timer stamps what is undelivered by then.
EnterStampsAll ==
  /\ Settled /\ timers # <<>>
  /\ messages' = IF writable THEN MarkDelivered(messages, Undelivered(messages)) ELSE messages
  /\ timers' = Tail(timers)
  /\ UNCHANGED <<dispatch, status, writable, calls, pasted, breaks>>

\* Mutant: what was delivered is deleted.
EnterDeletes ==
  /\ Settled /\ timers # <<>>
  /\ messages' = IF writable THEN <<>> ELSE messages
  /\ timers' = Tail(timers)
  /\ UNCHANGED <<dispatch, status, writable, calls, pasted, breaks>>

\* The Enter of a paste, 500 ms later; its rows are delivered if it was written.
Enter ==
  /\ Settled /\ timers # <<>>
  /\ messages' = IF writable THEN MarkDelivered(messages, Head(timers)) ELSE messages
  /\ timers' = Tail(timers)
  /\ UNCHANGED <<dispatch, status, writable, calls, pasted, breaks>>

Breaks ==
  /\ writable /\ breaks < MaxBreaks
  /\ writable' = FALSE /\ breaks' = breaks + 1
  /\ UNCHANGED <<messages, dispatch, status, timers, calls, pasted>>

Recovers ==
  /\ ~writable /\ writable' = TRUE
  /\ UNCHANGED <<messages, dispatch, status, timers, calls, pasted, breaks>>

-----------------------------------------------------------------------------
(* Callers.                                                                 *)

\* readAndReturn with --unread: what it returns is reconciled again and marked read, and
\* a late heartbeat is suppressed (one that was rejected when it was sent stays so, which
\* a row does not show here: any of them may be).  A worker_done meets the dispatch as
\* its send left it, or closed.  --peek leaves everything.
ReadAndReturn(F, peek) ==
  \/ peek /\ messages' = messages
  \/ /\ ~peek
     /\ \E late \in SUBSET {i \in Unread(F) : messages[i].type = "heartbeat" /\ dispatch # "open"} :
          messages' = MarkDelivered(MarkRead(messages, Unread(F)), late)

\* orchestration.check --types F, by whoever reads the mailbox: what is there is returned at once.
CheckAtOnce(F, peek) ==
  /\ Settled /\ Unread(F) # {}
  /\ ReadAndReturn(F, peek)
  /\ UNCHANGED <<dispatch, status, writable, timers, calls, pasted, breaks>>

\* orchestration.check --types F --wait, of a mailbox without such messages.
CheckWaits(k, F, peek) ==
  /\ Settled /\ calls[k].pc = "idle" /\ calls[k].kind # "ask"
  /\ Unread(F) = {}
  /\ calls' = [calls EXCEPT
       ![k] = [kind |-> IF peek THEN "peek" ELSE "check", filter |-> F, pc |-> "waiting"]]
  /\ UNCHANGED <<messages, dispatch, status, writable, timers, pasted, breaks>>

\* A check that was woken, by a message or by its timeout, reads once more and returns.
CheckReturns(k) ==
  /\ calls[k].pc = "woken" /\ calls[k].kind \in {"check", "peek"}
  /\ ReadAndReturn(calls[k].filter, calls[k].kind = "peek")
  /\ calls' = [calls EXCEPT ![k] = NoCall]
  /\ UNCHANGED <<dispatch, status, writable, timers, pasted, breaks>>

\* orchestration.ask, once per caller; the question goes to another mailbox.
Ask(k) ==
  /\ Settled /\ calls[k].kind = "none"
  /\ calls' = [calls EXCEPT ![k] = [kind |-> "ask", filter |-> MessageType, pc |-> "waiting"]]
  /\ UNCHANGED <<messages, dispatch, status, writable, timers, pasted, breaks>>

\* Mutant: the deadline is looked at before the replies.
AskResumesDeadlineFirst(k) ==
  /\ calls[k].pc = "woken" /\ calls[k].kind = "ask"
  /\ \/ /\ calls' = [calls EXCEPT ![k].pc = "timedOut"]
        /\ UNCHANGED messages
     \/ /\ Replies(k) # {}
        /\ messages' = MarkRead(messages, Replies(k))
        /\ calls' = [calls EXCEPT ![k].pc = "answered"]
     \/ /\ Replies(k) = {}
        /\ calls' = [calls EXCEPT ![k].pc = "waiting"]
        /\ UNCHANGED messages
  /\ UNCHANGED <<dispatch, status, writable, timers, pasted, breaks>>

\* The turn of the ask loop after a wake-up: the reply, else the deadline, else again.
AskResumes(k) ==
  /\ calls[k].pc = "woken" /\ calls[k].kind = "ask"
  /\ \/ /\ Replies(k) # {}
        /\ messages' = MarkRead(messages, Replies(k))
        /\ calls' = [calls EXCEPT ![k].pc = "answered"]
     \/ /\ Replies(k) = {}
        /\ \E pc \in {"timedOut", "waiting"} : calls' = [calls EXCEPT ![k].pc = pc]
        /\ UNCHANGED messages
  /\ UNCHANGED <<dispatch, status, writable, timers, pasted, breaks>>

\* The timeout of waitForMessage.
WaitTimesOut(k) ==
  /\ Settled /\ calls[k].pc = "waiting"
  /\ calls' = [calls EXCEPT ![k].pc = "woken"]
  /\ UNCHANGED <<messages, dispatch, status, writable, timers, pasted, breaks>>

\* The caller's socket closes: nothing is read.  An ask looks at its replies once more.
CallerAborts(k) ==
  /\ Settled /\ calls[k].pc = "waiting" /\ calls[k].kind # "ask"
  /\ calls' = [calls EXCEPT ![k] = NoCall]
  /\ UNCHANGED <<messages, dispatch, status, writable, timers, pasted, breaks>>

-----------------------------------------------------------------------------
MailboxInit ==
  /\ messages = <<>>
  /\ dispatch = "open"
  /\ status \in {"idle", "busy"}
  /\ writable = TRUE
  /\ timers = <<>>
  /\ calls = [k \in Callers |-> NoCall]
  /\ pasted = [i \in 1 .. MaxMessages |-> 0]
  /\ breaks = 0

MailboxNext ==
  \/ \E type \in MessageType, owner \in BOOLEAN : Send(type, owner)
  \/ \E k \in Callers : Reply(k)
  \/ ExitEscalation
  \/ DispatchCloses
  \/ BecomesIdle
  \/ BecomesBusy
  \/ Enter
  \/ Breaks
  \/ Recovers
  \/ \E F \in Filters, peek \in BOOLEAN : CheckAtOnce(F, peek)
  \/ \E k \in Callers, F \in Filters, peek \in BOOLEAN : CheckWaits(k, F, peek)
  \/ \E k \in Callers : CheckReturns(k)
  \/ \E k \in Callers : Ask(k)
  \/ \E k \in Callers : AskResumes(k)
  \/ \E k \in Callers : WaitTimesOut(k)
  \/ \E k \in Callers : CallerAborts(k)

MailboxSpec == MailboxInit /\ [][MailboxNext]_mailboxVars

\* Woken promises continue and timers fire, after the events queued before them; the
\* agent works and becomes idle again and again, and a terminal that fails a write takes
\* one later.
MailboxFairness ==
  /\ \A k \in Callers : WF_mailboxVars(CheckReturns(k)) /\ WF_mailboxVars(AskResumes(k))
  /\ WF_mailboxVars(Recovers)
  /\ SF_mailboxVars(Enter)
  /\ SF_mailboxVars(BecomesBusy)
  /\ SF_mailboxVars(BecomesIdle)

FairMailboxSpec == MailboxSpec /\ MailboxFairness

-----------------------------------------------------------------------------
MailboxTypeOK ==
  /\ messages \in Seq([type : MessageType, thread : Callers \cup {NoThread, ExitThread},
                       read : BOOLEAN, delivered : BOOLEAN])
  /\ dispatch \in {"open", "done", "closed"}
  /\ status \in {"idle", "busy"} /\ writable \in BOOLEAN
  /\ \A j \in DOMAIN timers : timers[j] \subseteq DOMAIN messages
  /\ \A k \in Callers :
       /\ calls[k].kind \in {"none", "check", "peek", "ask"}
       /\ calls[k].pc \in {"idle", "waiting", "woken", "answered", "timedOut"}

\* Whoever waits has nothing to wait for: no unread message of the awaited types for a
\* check, no reply for an ask, while checks come and go and answers are read.  The comment of
\* notifyMessageArrived asks for it of every message that is inserted; the rows of the exit
\* handler, which wakes nobody, are left out.
NoLostWakeup ==
  Settled => \A k \in Callers : calls[k].pc = "waiting" =>
    IF calls[k].kind = "ask" THEN Replies(k) = {}
    ELSE \A i \in Unread(calls[k].filter) : messages[i].thread = ExitThread

\* A row stamped delivered was pasted or is read: the stamp, 500 ms after the paste,
\* never takes along a message that arrived in between.
DeliveredWasShown ==
  \A i \in DOMAIN messages : messages[i].delivered => messages[i].read \/ pasted[i] > 0

\* When the dispatch was completed by its worker_done, no heartbeat of it is unread,
\* whether it came before the worker_done or after.
NoHeartbeatAfterDone == dispatch = "done" => Unread({"heartbeat"}) = {}

\* An ask does not report a timeout when its reply is already there.
AskTimesOutUnanswered ==
  [][\A k \in Callers :
       calls[k].pc # "timedOut" /\ calls'[k].pc = "timedOut" => Replies(k) = {}]_mailboxVars

\* Every message reaches its agent, by a paste or by a read, although pastes fail, the
\* agent is busy, and the exit escalations wake nobody.
EveryMessageSurfaces ==
  \A i \in 1 .. MaxMessages :
    i \in Undelivered(messages) ~> ~(i \in Undelivered(messages))

=============================================================================
