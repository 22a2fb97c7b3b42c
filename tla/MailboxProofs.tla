----------------------------- MODULE MailboxProofs -----------------------------
(***************************************************************************)
(* Theorems about Mailbox, for every number of messages, pastes, callers   *)
(* and broken writes, and every choice of filters.                         *)
(***************************************************************************)
EXTENDS Mailbox, SequenceTheorems, TLAPS

(***************************************************************************)
(* The rows.                                                               *)
(***************************************************************************)

RowType ==
  [type : MessageType, thread : Callers \cup {NoThread, ExitThread},
   read : BOOLEAN, delivered : BOOLEAN]

\* The rows new are those of ms, with more of them read or delivered.
Marks(ms, new) ==
  /\ new \in Seq(RowType) /\ Len(new) = Len(ms)
  /\ \A i \in 1 .. Len(ms) :
       /\ new[i].type = ms[i].type /\ new[i].thread = ms[i].thread
       /\ ms[i].read => new[i].read
       /\ ms[i].delivered => new[i].delivered

\* A function on 1 .. n is a sequence of that length.
LEMMA RowsAreSeq ==
  ASSUME NEW n \in Nat, NEW f \in [1 .. n -> RowType]
  PROVE  f \in Seq(RowType) /\ Len(f) = n
<1>1. f \in Seq(RowType)
  BY SeqDef
<1> QED
  BY <1>1, LenProperties

\* markRead: the rows of S are read, and nothing else changes.
LEMMA MarkReadRows ==
  ASSUME NEW ms \in Seq(RowType), NEW S
  PROVE  /\ Marks(ms, MarkRead(ms, S))
         /\ \A i \in 1 .. Len(ms) :
              /\ MarkRead(ms, S)[i].delivered = ms[i].delivered
              /\ MarkRead(ms, S)[i].read = (ms[i].read \/ i \in S)
<1> DEFINE new == MarkRead(ms, S)
<1>1. DOMAIN ms = 1 .. Len(ms) /\ Len(ms) \in Nat
  BY LenProperties
<1>2. ASSUME NEW i \in 1 .. Len(ms)
      PROVE  /\ new[i] \in RowType
             /\ new[i].type = ms[i].type /\ new[i].thread = ms[i].thread
             /\ new[i].delivered = ms[i].delivered
             /\ new[i].read = (ms[i].read \/ i \in S)
  <2>1. ms[i] \in RowType
    BY ElementOfSeq
  <2>2. new[i] = IF i \in S THEN [ms[i] EXCEPT !.read = TRUE] ELSE ms[i]
    BY <1>1 DEF MarkRead
  <2> QED
    BY <2>1, <2>2 DEF RowType
<1>3. new \in [1 .. Len(ms) -> RowType]
  <2>1. new = [i \in 1 .. Len(ms) |-> new[i]]
    BY <1>1 DEF MarkRead
  <2> QED
    BY <1>2, <2>1
<1>4. new \in Seq(RowType) /\ Len(new) = Len(ms)
  BY <1>1, <1>3, RowsAreSeq
<1> QED
  BY <1>2, <1>4 DEF Marks

\* markAsDelivered: the rows of S are delivered, and nothing else changes.
LEMMA MarkDeliveredRows ==
  ASSUME NEW ms \in Seq(RowType), NEW S
  PROVE  /\ Marks(ms, MarkDelivered(ms, S))
         /\ \A i \in 1 .. Len(ms) :
              /\ MarkDelivered(ms, S)[i].read = ms[i].read
              /\ MarkDelivered(ms, S)[i].delivered = (ms[i].delivered \/ i \in S)
<1> DEFINE new == MarkDelivered(ms, S)
<1>1. DOMAIN ms = 1 .. Len(ms) /\ Len(ms) \in Nat
  BY LenProperties
<1>2. ASSUME NEW i \in 1 .. Len(ms)
      PROVE  /\ new[i] \in RowType
             /\ new[i].type = ms[i].type /\ new[i].thread = ms[i].thread
             /\ new[i].read = ms[i].read
             /\ new[i].delivered = (ms[i].delivered \/ i \in S)
  <2>1. ms[i] \in RowType
    BY ElementOfSeq
  <2>2. new[i] = IF i \in S THEN [ms[i] EXCEPT !.delivered = TRUE] ELSE ms[i]
    BY <1>1 DEF MarkDelivered
  <2> QED
    BY <2>1, <2>2 DEF RowType
<1>3. new \in [1 .. Len(ms) -> RowType]
  <2>1. new = [i \in 1 .. Len(ms) |-> new[i]]
    BY <1>1 DEF MarkDelivered
  <2> QED
    BY <1>2, <2>1
<1>4. new \in Seq(RowType) /\ Len(new) = Len(ms)
  BY <1>1, <1>3, RowsAreSeq
<1> QED
  BY <1>2, <1>4 DEF Marks

\* markAsReadAndDelivered: the rows of S are both.
LEMMA SuppressRows ==
  ASSUME NEW ms \in Seq(RowType), NEW S
  PROVE  /\ Marks(ms, Suppress(ms, S))
         /\ \A i \in 1 .. Len(ms) :
              /\ Suppress(ms, S)[i].read = (ms[i].read \/ i \in S)
              /\ Suppress(ms, S)[i].delivered = (ms[i].delivered \/ i \in S)
<1> DEFINE mid == MarkRead(ms, S)
<1>1. /\ Marks(ms, mid)
      /\ \A i \in 1 .. Len(ms) :
           mid[i].delivered = ms[i].delivered /\ mid[i].read = (ms[i].read \/ i \in S)
  BY MarkReadRows
<1>2. mid \in Seq(RowType) /\ Len(mid) = Len(ms)
  BY <1>1 DEF Marks
<1> HIDE DEF mid
<1>3. /\ Marks(mid, MarkDelivered(mid, S))
      /\ \A i \in 1 .. Len(ms) :
           /\ MarkDelivered(mid, S)[i].read = mid[i].read
           /\ MarkDelivered(mid, S)[i].delivered = (mid[i].delivered \/ i \in S)
  BY <1>2, MarkDeliveredRows
<1>4. Suppress(ms, S) = MarkDelivered(mid, S)
  BY DEF Suppress, mid
<1> QED
  BY <1>1, <1>2, <1>3, <1>4 DEF Marks

-----------------------------------------------------------------------------
(***************************************************************************)
(* What is delivered was shown.                                            *)
(***************************************************************************)

\* The table ms, with the timers ts and the pastes ps so far: a timer stamps only what it pasted,
\* and what is stamped was pasted or read.
RowsOK(ms, ts, ps) ==
  /\ ms \in Seq(RowType) /\ Len(ms) <= MaxMessages
  /\ ts \in Seq(SUBSET (1 .. Len(ms)))
  /\ ps \in [1 .. MaxMessages -> 0 .. 2]
  /\ \A j \in 1 .. Len(ts) : \A i \in ts[j] : ps[i] > 0
  /\ \A i \in 1 .. Len(ms) : ms[i].delivered => ms[i].read \/ ps[i] > 0

\* Rows that are read, or read and delivered, were shown.
LEMMA ReadRowsOK ==
  ASSUME NEW ms, NEW ts, NEW ps, RowsOK(ms, ts, ps), NEW new, Marks(ms, new),
         \A i \in 1 .. Len(ms) : new[i].delivered => ms[i].delivered \/ new[i].read
  PROVE  RowsOK(new, ts, ps)
  BY DEF RowsOK, Marks

\* A row that arrives was neither pasted nor delivered.
LEMMA ArrivedRowsOK ==
  ASSUME MailboxAssumption, RowsOK(messages, timers, pasted), Len(messages) < MaxMessages,
         NEW type \in MessageType, NEW thread \in Callers \cup {NoThread, ExitThread}
  PROVE  LET ms == Append(messages, Row(type, thread))
         IN /\ RowsOK(ms, timers, pasted)
            /\ Len(ms) = Len(messages) + 1 /\ Len(messages) \in Nat
            /\ \A i \in 1 .. Len(messages) : ms[i] = messages[i]
            /\ ms[Len(ms)] = Row(type, thread)
<1> DEFINE ms == Append(messages, Row(type, thread))
<1>1. Row(type, thread) \in RowType
  BY DEF Row, RowType
<1>2. messages \in Seq(RowType)
  BY DEF RowsOK
<1>3. /\ ms \in Seq(RowType) /\ Len(ms) = Len(messages) + 1 /\ Len(messages) \in Nat
      /\ \A i \in 1 .. Len(messages) : ms[i] = messages[i]
      /\ ms[Len(ms)] = Row(type, thread)
  BY <1>1, <1>2, AppendProperties, LenProperties
<1> HIDE DEF ms
<1>4. Len(ms) <= MaxMessages
  BY <1>3 DEF MailboxAssumption
<1>5. timers \in Seq(SUBSET (1 .. Len(ms)))
  <2>1. SUBSET (1 .. Len(messages)) \subseteq SUBSET (1 .. Len(ms))
    BY <1>3
  <2> QED
    BY <2>1, SeqMonotonic DEF RowsOK
<1>6. ASSUME NEW i \in 1 .. Len(ms), ms[i].delivered
      PROVE  ms[i].read \/ pasted[i] > 0
  <2>1. i # Len(ms)
    BY <1>3, <1>6 DEF Row
  <2>2. i \in 1 .. Len(messages)
    BY <1>3, <2>1
  <2>3. ms[i] = messages[i]
    BY <1>3, <2>2
  <2> QED
    BY <1>6, <2>2, <2>3 DEF RowsOK
<1>7. RowsOK(ms, timers, pasted)
  BY <1>3, <1>4, <1>5, <1>6 DEF RowsOK
<1> QED
  BY <1>3, <1>7 DEF ms

\* A delivery pastes before it stamps, and reads nothing.
LEMMA DeliverKeepsRows ==
  ASSUME MailboxAssumption, NEW ms, RowsOK(ms, timers, pasted), Deliver(ms)
  PROVE  /\ RowsOK(messages', timers', pasted')
         /\ Marks(ms, messages')
         /\ \A i \in 1 .. Len(ms) : messages'[i].read = ms[i].read
<1> DEFINE S == Undelivered(ms)
<1>1. ms \in Seq(RowType) /\ Len(ms) \in Nat /\ DOMAIN ms = 1 .. Len(ms) /\ Len(ms) <= MaxMessages
  BY LenProperties DEF RowsOK
<1>2. S \subseteq 1 .. Len(ms)
  BY <1>1 DEF Undelivered
<1>3. Marks(ms, ms)
  BY <1>1 DEF Marks
<1>4. CASE messages' = ms /\ UNCHANGED <<timers, pasted>>
  BY <1>3, <1>4
<1>5. CASE pasted' = [i \in DOMAIN pasted |-> IF i \in S THEN More(pasted[i]) ELSE pasted[i]]
  <2>1. /\ pasted' \in [1 .. MaxMessages -> 0 .. 2]
        /\ \A i \in 1 .. MaxMessages : pasted[i] > 0 => pasted'[i] > 0
        /\ \A i \in S : i \in 1 .. MaxMessages /\ pasted'[i] > 0
    <3>1. pasted \in [1 .. MaxMessages -> 0 .. 2]
      BY DEF RowsOK
    <3>2. S \subseteq 1 .. MaxMessages
      BY <1>1, <1>2 DEF MailboxAssumption
    <3> QED
      BY <1>5, <3>1, <3>2 DEF More
  <2>2. \A j \in 1 .. Len(timers) : \A i \in timers[j] : pasted'[i] > 0
    <3> SUFFICES ASSUME NEW j \in 1 .. Len(timers), NEW i \in timers[j]
                 PROVE  pasted'[i] > 0
      OBVIOUS
    <3>1. timers[j] \subseteq 1 .. Len(ms)
      BY ElementOfSeq DEF RowsOK
    <3>2. i \in 1 .. MaxMessages
      BY <1>1, <3>1 DEF MailboxAssumption
    <3> QED
      BY <2>1, <3>2 DEF RowsOK
  <2>3. CASE messages' = MarkDelivered(ms, S) /\ UNCHANGED timers
    <3>1. /\ Marks(ms, messages')
          /\ \A i \in 1 .. Len(ms) :
               /\ messages'[i].read = ms[i].read
               /\ messages'[i].delivered = (ms[i].delivered \/ i \in S)
      BY <1>1, <2>3, MarkDeliveredRows
    <3>2. ASSUME NEW i \in 1 .. Len(ms), messages'[i].delivered
          PROVE  messages'[i].read \/ pasted'[i] > 0
      <4>1. i \in 1 .. MaxMessages
        BY <1>1 DEF MailboxAssumption
      <4>2. CASE i \in S
        BY <2>1, <4>2
      <4>3. CASE i \notin S
        <5>1. ms[i].delivered
          BY <3>1, <3>2, <4>3
        <5>2. ms[i].read \/ pasted[i] > 0
          BY <5>1 DEF RowsOK
        <5> QED
          BY <2>1, <3>1, <4>1, <5>2
      <4> QED
        BY <4>2, <4>3
    <3>3. RowsOK(messages', timers', pasted')
      BY <2>1, <2>2, <2>3, <3>1, <3>2 DEF RowsOK, Marks
    <3> QED
      BY <3>1, <3>3
  <2>4. CASE timers' = Append(timers, S) /\ messages' = ms
    <3>1. /\ timers' \in Seq(SUBSET (1 .. Len(ms)))
          /\ Len(timers') = Len(timers) + 1 /\ Len(timers) \in Nat
          /\ \A j \in 1 .. Len(timers) : timers'[j] = timers[j]
          /\ timers'[Len(timers) + 1] = S
      BY <1>2, <2>4, AppendProperties, LenProperties DEF RowsOK
    <3>2. \A j \in 1 .. Len(timers') : \A i \in timers'[j] : pasted'[i] > 0
      BY <2>1, <2>2, <3>1
    <3>3. \A i \in 1 .. Len(ms) : ms[i].delivered => ms[i].read \/ pasted'[i] > 0
      BY <1>1, <2>1 DEF RowsOK, MailboxAssumption
    <3>4. RowsOK(messages', timers', pasted')
      BY <1>1, <2>1, <2>4, <3>1, <3>2, <3>3 DEF RowsOK
    <3> QED
      BY <1>3, <2>4, <3>4
  <2> QED
    BY <1>5, <2>3, <2>4, <1>4 DEF Deliver
<1> QED
  BY <1>4, <1>5 DEF Deliver

-----------------------------------------------------------------------------
(***************************************************************************)
(* Reconciliation of the last row.                                         *)
(***************************************************************************)

\* reconcileLifecycleMessage only marks rows, stamps none that it does not read, and leaves no
\* heartbeat unread where the dispatch has ended or ends.
LEMMA ReconciledRows ==
  ASSUME NEW ms \in Seq(RowType), Len(ms) > 0, NEW owner \in BOOLEAN
  PROVE  LET new == Reconciled(ms, owner)
         IN /\ Marks(ms, new)
            /\ \A i \in 1 .. Len(ms) : new[i].delivered => ms[i].delivered \/ new[i].read
            /\ ms[Len(ms)].type = "heartbeat" /\ dispatch # "open" => new[Len(ms)].read
            /\ ms[Len(ms)].type = "worker_done" /\ owner /\ dispatch = "open" =>
                 \A i \in 1 .. Len(ms) : ms[i].type = "heartbeat" => new[i].read
<1> DEFINE n == Len(ms)
           new == Reconciled(ms, owner)
           beats == {i \in DOMAIN ms : ms[i].type = "heartbeat" /\ ~ms[i].read}
<1>1. DOMAIN ms = 1 .. n /\ n \in Nat /\ n \in 1 .. n
  BY LenProperties
<1>2. CASE ms[n].type = "heartbeat" /\ dispatch # "open"
  <2>1. new = Suppress(ms, {n})
    BY <1>2 DEF Reconciled
  <2>2. /\ Marks(ms, new)
        /\ \A i \in 1 .. n : /\ new[i].read = (ms[i].read \/ i \in {n})
                            /\ new[i].delivered = (ms[i].delivered \/ i \in {n})
    BY <2>1, SuppressRows
  <2> QED
    BY <1>1, <1>2, <2>2
<1>3. CASE ms[n].type = "worker_done" /\ owner /\ dispatch = "open"
  <2>1. new = Suppress(ms, beats)
    BY <1>3 DEF Reconciled
  <2>2. /\ Marks(ms, new)
        /\ \A i \in 1 .. n : /\ new[i].read = (ms[i].read \/ i \in beats)
                            /\ new[i].delivered = (ms[i].delivered \/ i \in beats)
    BY <2>1, SuppressRows
  <2> QED
    BY <1>1, <1>3, <2>2
<1>4. CASE ~(ms[n].type = "heartbeat" /\ dispatch # "open")
           /\ ~(ms[n].type = "worker_done" /\ owner /\ dispatch = "open")
  <2>1. new = ms
    BY <1>4 DEF Reconciled
  <2> QED
    BY <1>4, <2>1 DEF Marks
<1> QED
  BY <1>2, <1>3, <1>4

-----------------------------------------------------------------------------
(***************************************************************************)
(* The rows are an inductive invariant by themselves.                      *)
(***************************************************************************)

BeatsRead(ms) == \A i \in 1 .. Len(ms) : ms[i].type = "heartbeat" => ms[i].read

RowInv ==
  /\ RowsOK(messages, timers, pasted)
  /\ dispatch \in {"open", "done", "closed"}
  /\ status \in {"idle", "busy"}
  /\ writable \in BOOLEAN
  /\ dispatch = "done" => BeatsRead(messages)

\* Rows are never unread again.
LEMMA MarksKeepBeats ==
  ASSUME NEW ms, NEW new, Marks(ms, new), BeatsRead(ms)
  PROVE  BeatsRead(new)
  BY DEF Marks, BeatsRead

\* A table is a marking of itself, and a marking of a marking is one.
LEMMA MarksCompose ==
  /\ \A ms \in Seq(RowType) : Marks(ms, ms)
  /\ \A ms, mid, new : Marks(ms, mid) /\ Marks(mid, new) => Marks(ms, new)
  BY DEF Marks

\* What orchestration.send does to the table and to the waiters: one row more, which is read or
\* else wakes whoever waits for its type; no heartbeat stays unread once the dispatch is done.
LEMMA SendEffect ==
  ASSUME MailboxAssumption, RowInv, NEW type \in MessageType, NEW owner \in BOOLEAN,
         Send(type, owner)
  PROVE  /\ RowsOK(messages', timers', pasted')
         /\ Marks(Append(messages, Row(type, NoThread)), messages')
         /\ dispatch' = "done" => BeatsRead(messages')
         /\ \/ messages'[Len(messages) + 1].read /\ calls' = calls
            \/ calls' = Woken(type)
<1> DEFINE old == Append(messages, Row(type, NoThread))
           ms == Reconciled(old, owner)
           n == Len(messages) + 1
<1>1. /\ RowsOK(old, timers, pasted)
      /\ Len(old) = n /\ Len(messages) \in Nat
      /\ \A i \in 1 .. Len(messages) : old[i] = messages[i]
      /\ old[n] = Row(type, NoThread)
  BY ArrivedRowsOK DEF Send, RowInv
<1>2. old \in Seq(RowType) /\ Len(old) > 0
  BY <1>1 DEF RowsOK
<1>3. /\ IF ms[Len(ms)].read
         THEN messages' = ms /\ UNCHANGED <<timers, pasted, calls>>
         ELSE DeliverIfIdle(ms) /\ calls' = Woken(type)
      /\ dispatch' = IF type = "worker_done" /\ owner /\ dispatch = "open" THEN "done" ELSE dispatch
  BY DEF Send
<1> HIDE DEF old
<1>4. /\ Marks(old, ms)
      /\ \A i \in 1 .. Len(old) : ms[i].delivered => old[i].delivered \/ ms[i].read
      /\ old[Len(old)].type = "heartbeat" /\ dispatch # "open" => ms[Len(old)].read
      /\ old[Len(old)].type = "worker_done" /\ owner /\ dispatch = "open" =>
           \A i \in 1 .. Len(old) : old[i].type = "heartbeat" => ms[i].read
  BY <1>2, ReconciledRows
<1> HIDE DEF ms
<1>5. ms \in Seq(RowType) /\ Len(ms) = n
  BY <1>1, <1>4 DEF Marks
<1>6. RowsOK(ms, timers, pasted)
  BY <1>1, <1>4, ReadRowsOK
<1>7. dispatch' = "done" => BeatsRead(ms)
  <2>1. ASSUME type = "worker_done" /\ owner /\ dispatch = "open" PROVE BeatsRead(ms)
    BY <1>1, <1>4, <2>1 DEF Row, BeatsRead, Marks
  <2>2. ASSUME dispatch = "done", NEW i \in 1 .. n, ms[i].type = "heartbeat" PROVE ms[i].read
    <3>1. old[i].type = "heartbeat"
      BY <1>1, <1>4, <2>2 DEF Marks
    <3>2. CASE i = n
      BY <1>1, <1>4, <2>2, <3>1, <3>2
    <3>3. CASE i # n
      <4>1. i \in 1 .. Len(messages) /\ old[i] = messages[i]
        BY <1>1, <3>3
      <4>2. messages[i].read
        BY <2>2, <3>1, <4>1 DEF RowInv, BeatsRead
      <4> QED
        BY <1>1, <1>4, <4>1, <4>2 DEF Marks
    <3> QED
      BY <3>2, <3>3
  <2> QED
    BY <1>3, <1>5, <2>1, <2>2 DEF BeatsRead
<1>8. CASE messages' = ms /\ UNCHANGED <<timers, pasted>>
  <2>1. (ms[n].read /\ calls' = calls) \/ calls' = Woken(type)
    BY <1>3, <1>5
  <2> QED
    BY <1>4, <1>6, <1>7, <1>8, <2>1 DEF old
<1>9. CASE Deliver(ms) /\ calls' = Woken(type)
  <2>1. RowsOK(messages', timers', pasted') /\ Marks(ms, messages')
    BY <1>6, <1>9, DeliverKeepsRows
  <2>2. Marks(old, messages')
    BY <1>4, <2>1, MarksCompose
  <2>3. dispatch' = "done" => BeatsRead(messages')
    BY <1>7, <2>1, MarksKeepBeats
  <2> QED
    BY <1>9, <2>1, <2>2, <2>3 DEF old
<1> QED
  BY <1>3, <1>8, <1>9 DEF DeliverIfIdle

\* The steps that only mark rows, with their pastes: what they leave of the table.
LEMMA MarkingSteps ==
  ASSUME MailboxAssumption, RowInv, [MailboxNext]_mailboxVars
  PROVE  \/ \E type \in MessageType, owner \in BOOLEAN : Send(type, owner)
         \/ \E k \in Callers : Reply(k)
         \/ ExitEscalation
         \/ /\ RowsOK(messages', timers', pasted')
            /\ Marks(messages, messages')
            /\ dispatch' # dispatch => dispatch' = "closed"
            /\ status' \in {"idle", "busy"} /\ writable' \in BOOLEAN
<1> DEFINE Marked == /\ RowsOK(messages', timers', pasted')
                     /\ Marks(messages, messages')
                     /\ dispatch' # dispatch => dispatch' = "closed"
                     /\ status' \in {"idle", "busy"} /\ writable' \in BOOLEAN
<1> SUFFICES ASSUME ~ \E type \in MessageType, owner \in BOOLEAN : Send(type, owner),
                    ~ \E k \in Callers : Reply(k),
                    ~ ExitEscalation
             PROVE  Marked
  OBVIOUS
<1>1. /\ RowsOK(messages, timers, pasted) /\ messages \in Seq(RowType)
      /\ status \in {"idle", "busy"} /\ writable \in BOOLEAN
      /\ Marks(messages, messages)
  BY MarksCompose DEF RowInv, RowsOK
<1>2. ASSUME UNCHANGED <<messages, timers, pasted>>,
             dispatch' # dispatch => dispatch' = "closed",
             status' \in {"idle", "busy"} /\ writable' \in BOOLEAN
      PROVE  Marked
  BY <1>1, <1>2
<1>3. ASSUME NEW S, messages' = MarkRead(messages, S),
             UNCHANGED <<timers, pasted, dispatch, status, writable>>
      PROVE  Marked
  <2>1. /\ Marks(messages, messages')
        /\ \A i \in 1 .. Len(messages) : messages'[i].delivered = messages[i].delivered
    BY <1>1, <1>3, MarkReadRows
  <2>2. RowsOK(messages', timers, pasted)
    BY <1>1, <2>1, ReadRowsOK
  <2> QED
    BY <1>1, <1>3, <2>1, <2>2
<1>4. ASSUME NEW F, NEW peek, ReadAndReturn(F, peek),
             UNCHANGED <<timers, pasted, dispatch, status, writable>>
      PROVE  Marked
  <2>1. CASE messages' = messages
    BY <1>1, <1>2, <1>4, <2>1
  <2>2. ASSUME NEW late \in SUBSET Unread(F),
               messages' = MarkDelivered(MarkRead(messages, Unread(F)), late)
        PROVE  Marked
    <3> DEFINE mid == MarkRead(messages, Unread(F))
    <3>1. /\ Marks(messages, mid)
          /\ \A i \in 1 .. Len(messages) :
               /\ mid[i].delivered = messages[i].delivered
               /\ mid[i].read = (messages[i].read \/ i \in Unread(F))
      BY <1>1, MarkReadRows
    <3>2. mid \in Seq(RowType) /\ Len(mid) = Len(messages)
      BY <3>1 DEF Marks
    <3>3. messages' = MarkDelivered(mid, late)
      BY <2>2
    <3> HIDE DEF mid
    <3>4. /\ Marks(mid, messages')
          /\ \A i \in 1 .. Len(messages) :
               /\ messages'[i].read = mid[i].read
               /\ messages'[i].delivered = (mid[i].delivered \/ i \in late)
      BY <3>2, <3>3, MarkDeliveredRows
    <3>5. Marks(messages, messages')
      BY <3>1, <3>4, MarksCompose
    <3>6. \A i \in 1 .. Len(messages) :
            messages'[i].delivered => messages[i].delivered \/ messages'[i].read
      BY <3>1, <3>4
    <3>7. RowsOK(messages', timers, pasted)
      BY <1>1, <3>5, <3>6, ReadRowsOK
    <3> QED
      BY <1>1, <1>4, <3>5, <3>7
  <2> QED
    BY <1>4, <2>1, <2>2 DEF ReadAndReturn
<1>5. CASE BecomesIdle
  <2>1. RowsOK(messages', timers', pasted') /\ Marks(messages, messages')
    BY <1>1, <1>5, DeliverKeepsRows DEF BecomesIdle
  <2> QED
    BY <1>1, <1>5, <2>1 DEF BecomesIdle
<1>6. CASE Enter
  <2>1. /\ timers # <<>> /\ timers' = Tail(timers)
        /\ UNCHANGED <<pasted, dispatch, status, writable>>
        /\ messages' = IF writable THEN MarkDelivered(messages, Head(timers)) ELSE messages
    BY <1>6 DEF Enter
  <2>2. /\ timers \in Seq(SUBSET (1 .. Len(messages)))
        /\ \A j \in 1 .. Len(timers) : \A i \in timers[j] : pasted[i] > 0
    BY <1>1 DEF RowsOK
  <2>3. /\ timers' \in Seq(SUBSET (1 .. Len(messages)))
        /\ Len(timers) \in Nat /\ Len(timers') = Len(timers) - 1
        /\ \A j \in 1 .. Len(timers') : timers'[j] = timers[j + 1]
        /\ Head(timers) = timers[1] /\ Len(timers) # 0
    BY <2>1, <2>2, HeadTailProperties, EmptySeq, LenProperties
  <2>4. /\ \A j \in 1 .. Len(timers') : \A i \in timers'[j] : pasted[i] > 0
        /\ \A i \in Head(timers) : pasted[i] > 0
    BY <2>2, <2>3
  <2>5. RowsOK(messages, timers', pasted)
    BY <1>1, <2>3, <2>4 DEF RowsOK
  <2>6. CASE messages' = messages
    BY <1>1, <2>1, <2>5, <2>6
  <2>7. CASE messages' = MarkDelivered(messages, Head(timers))
    <3>1. /\ Marks(messages, messages')
          /\ \A i \in 1 .. Len(messages) :
               /\ messages'[i].read = messages[i].read
               /\ messages'[i].delivered = (messages[i].delivered \/ i \in Head(timers))
      BY <1>1, <2>7, MarkDeliveredRows
    <3>2. ASSUME NEW i \in 1 .. Len(messages), messages'[i].delivered
          PROVE  messages'[i].read \/ pasted[i] > 0
      BY <1>1, <2>4, <3>1, <3>2 DEF RowsOK
    <3>3. RowsOK(messages', timers', pasted)
      BY <2>5, <3>1, <3>2 DEF RowsOK, Marks
    <3> QED
      BY <1>1, <2>1, <3>1, <3>3
  <2> QED
    BY <2>1, <2>6, <2>7
<1>7. CASE DispatchCloses \/ BecomesBusy \/ Breaks \/ Recovers \/ UNCHANGED mailboxVars
  BY <1>1, <1>2, <1>7 DEF DispatchCloses, BecomesBusy, Breaks, Recovers, mailboxVars
<1>8. ASSUME NEW F \in Filters, NEW peek \in BOOLEAN, CheckAtOnce(F, peek) PROVE Marked
  BY <1>4, <1>8 DEF CheckAtOnce
<1>9. ASSUME NEW k \in Callers, CheckReturns(k) PROVE Marked
  BY <1>4, <1>9 DEF CheckReturns
<1>10. ASSUME NEW k \in Callers, AskResumes(k) PROVE Marked
  BY <1>1, <1>2, <1>3, <1>10 DEF AskResumes
<1>11. ASSUME NEW k \in Callers, NEW F \in Filters, NEW peek \in BOOLEAN, CheckWaits(k, F, peek)
       PROVE  Marked
  BY <1>1, <1>2, <1>11 DEF CheckWaits
<1>12. ASSUME NEW k \in Callers, Ask(k) \/ WaitTimesOut(k) \/ CallerAborts(k) PROVE Marked
  BY <1>1, <1>2, <1>12 DEF Ask, WaitTimesOut, CallerAborts
<1> HIDE DEF Marked
<1>13. CASE \/ \E F \in Filters, peek \in BOOLEAN : CheckAtOnce(F, peek)
            \/ \E k \in Callers, F \in Filters, peek \in BOOLEAN : CheckWaits(k, F, peek)
            \/ \E k \in Callers : CheckReturns(k) \/ AskResumes(k)
            \/ \E k \in Callers : Ask(k) \/ WaitTimesOut(k) \/ CallerAborts(k)
  BY <1>8, <1>9, <1>10, <1>11, <1>12, <1>13
<1> QED
  BY <1>5, <1>6, <1>7, <1>13 DEF MailboxNext

\* Every step keeps the rows as they must be.
LEMMA RowInvStep ==
  ASSUME MailboxAssumption, RowInv, [MailboxNext]_mailboxVars
  PROVE  RowInv'
<1>1. ASSUME NEW type \in MessageType, NEW thread \in Callers \cup {NoThread, ExitThread},
             Len(messages) < MaxMessages, type # "heartbeat",
             messages' = Append(messages, Row(type, thread)),
             UNCHANGED <<timers, pasted, dispatch, status, writable>>
      PROVE  RowInv'
  <2>1. /\ RowsOK(messages', timers, pasted)
        /\ Len(messages') = Len(messages) + 1 /\ Len(messages) \in Nat
        /\ \A i \in 1 .. Len(messages) : messages'[i] = messages[i]
        /\ messages'[Len(messages')] = Row(type, thread)
    BY <1>1, ArrivedRowsOK DEF RowInv
  <2>2. BeatsRead(messages) => BeatsRead(messages')
    <3> SUFFICES ASSUME BeatsRead(messages), NEW i \in 1 .. Len(messages'),
                        messages'[i].type = "heartbeat"
                 PROVE  messages'[i].read
      BY DEF BeatsRead
    <3>1. i # Len(messages')
      BY <1>1, <2>1 DEF Row
    <3>2. i \in 1 .. Len(messages)
      BY <2>1, <3>1
    <3> QED
      BY <2>1, <3>2 DEF BeatsRead
  <2> QED
    BY <1>1, <2>1, <2>2 DEF RowInv
<1>2. ASSUME NEW type \in MessageType, NEW owner \in BOOLEAN, Send(type, owner) PROVE RowInv'
  <2>1. RowsOK(messages', timers', pasted') /\ (dispatch' = "done" => BeatsRead(messages'))
    BY <1>2, SendEffect
  <2> QED
    BY <1>2, <2>1 DEF RowInv, Send
<1>3. ASSUME NEW k \in Callers, Reply(k) PROVE RowInv'
  BY <1>1, <1>3 DEF Reply, MessageType
<1>4. CASE ExitEscalation
  BY <1>1, <1>4 DEF ExitEscalation, MessageType
<1>5. ASSUME RowsOK(messages', timers', pasted'), Marks(messages, messages'),
             dispatch' # dispatch => dispatch' = "closed",
             status' \in {"idle", "busy"} /\ writable' \in BOOLEAN
      PROVE  RowInv'
  <2>1. BeatsRead(messages) => BeatsRead(messages')
    BY <1>5, MarksKeepBeats
  <2> QED
    BY <1>5, <2>1 DEF RowInv
<1> QED
  BY <1>2, <1>3, <1>4, <1>5, MarkingSteps

-----------------------------------------------------------------------------
(***************************************************************************)
(* The callers: whoever waits has nothing to wait for.                     *)
(***************************************************************************)

CallType ==
  [kind : {"none", "check", "peek", "ask"}, filter : SUBSET MessageType,
   pc : {"idle", "waiting", "woken", "answered", "timedOut"}]

NoReply(ms, k) == \A i \in 1 .. Len(ms) : ms[i].thread # k

NothingNew(ms, F) ==
  \A i \in 1 .. Len(ms) : ~ms[i].read /\ ms[i].type \in F => ms[i].thread = ExitThread

\* The call c of k, over the table ms.  Replies are written to askers only, so that a caller has
\* none before its question.
CallOK(ms, c, k) ==
  /\ c.kind = "ask" => c.filter = MessageType
  /\ c.kind # "ask" => NoReply(ms, k)
  /\ c.pc = "waiting" => IF c.kind = "ask" THEN NoReply(ms, k) ELSE NothingNew(ms, c.filter)

CallInv ==
  /\ calls \in [Callers -> CallType]
  /\ \A k \in Callers : CallOK(messages, calls[k], k)

\* Marking rows brings nobody anything.
LEMMA MarksBringNothing ==
  ASSUME NEW ms, NEW new, Marks(ms, new), NEW k, NEW c, CallOK(ms, c, k)
  PROVE  CallOK(new, c, k)
  BY DEF Marks, CallOK, NoReply, NothingNew

\* notifyMessageArrived wakes everybody whom the new row concerns: it leaves nobody waiting for it.
LEMMA ArrivalWakes ==
  ASSUME MailboxAssumption, RowInv, CallInv, Len(messages) < MaxMessages,
         NEW type \in MessageType, NEW thread \in Callers \cup {NoThread},
         thread \in Callers => calls[thread].kind = "ask"
  PROVE  /\ Woken(type) \in [Callers -> CallType]
         /\ \A k \in Callers :
              CallOK(Append(messages, Row(type, thread)), Woken(type)[k], k)
<1> DEFINE ms == Append(messages, Row(type, thread))
<1>1. /\ Len(ms) = Len(messages) + 1 /\ Len(messages) \in Nat
      /\ \A i \in 1 .. Len(messages) : ms[i] = messages[i]
      /\ ms[Len(ms)] = Row(type, thread)
  BY ArrivedRowsOK DEF RowInv
<1> HIDE DEF ms
<1>2. ms[Len(ms)].type = type /\ ms[Len(ms)].thread = thread
  BY <1>1 DEF Row
<1>3. ASSUME NEW k \in Callers
      PROVE  Woken(type)[k] \in CallType /\ CallOK(ms, Woken(type)[k], k)
  <2> DEFINE c == Woken(type)[k]
  <2>1. calls[k] \in CallType /\ CallOK(messages, calls[k], k)
    BY DEF CallInv
  <2>2. c = IF calls[k].pc = "waiting" /\ type \in calls[k].filter
            THEN [calls[k] EXCEPT !.pc = "woken"]
            ELSE calls[k]
    BY DEF Woken
  <2>3. /\ c \in CallType /\ c.kind = calls[k].kind /\ c.filter = calls[k].filter
        /\ c.pc = "waiting" => calls[k].pc = "waiting" /\ type \notin calls[k].filter
    BY <2>1, <2>2 DEF CallType
  <2> HIDE DEF c
  <2>4. c.kind = "ask" => c.filter = MessageType
    BY <2>1, <2>3 DEF CallOK
  <2>5. ASSUME c.kind # "ask" PROVE NoReply(ms, k)
    <3>1. thread # k
      BY <2>3, <2>5 DEF MailboxAssumption
    <3>2. NoReply(messages, k)
      BY <2>1, <2>3, <2>5 DEF CallOK
    <3>3. ASSUME NEW i \in 1 .. Len(ms) PROVE ms[i].thread # k
      <4>1. CASE i = Len(ms)
        BY <1>2, <3>1, <4>1
      <4>2. CASE i # Len(ms)
        BY <1>1, <3>2, <4>2 DEF NoReply
      <4> QED
        BY <4>1, <4>2
    <3> QED
      BY <3>3 DEF NoReply
  <2>6. ASSUME c.pc = "waiting" PROVE c.kind # "ask" /\ NothingNew(ms, c.filter)
    <3>1. type \notin c.filter /\ calls[k].pc = "waiting"
      BY <2>3, <2>6
    <3>2. c.kind # "ask"
      BY <2>4, <3>1
    <3>3. NothingNew(messages, c.filter)
      BY <2>1, <2>3, <3>1, <3>2 DEF CallOK
    <3>4. ASSUME NEW i \in 1 .. Len(ms), ~ms[i].read, ms[i].type \in c.filter
          PROVE  ms[i].thread = ExitThread
      <4>1. i # Len(ms)
        BY <1>2, <3>1, <3>4
      <4> QED
        BY <1>1, <3>3, <3>4, <4>1 DEF NothingNew
    <3> QED
      BY <3>2, <3>4 DEF NothingNew
  <2>7. CallOK(ms, c, k)
    BY <2>4, <2>5, <2>6 DEF CallOK
  <2> QED
    BY <2>3, <2>7 DEF c
<1>4. Woken(type) = [k \in Callers |-> Woken(type)[k]]
  BY DEF Woken
<1> QED
  BY <1>3, <1>4 DEF ms

\* A suppressed row, and a row of the exit handler, bring nobody anything.
LEMMA QuietArrival ==
  ASSUME MailboxAssumption, RowInv, NEW new, NEW type, NEW thread \in {NoThread, ExitThread},
         Len(new) = Len(messages) + 1,
         \A i \in 1 .. Len(messages) :
           /\ new[i].type = messages[i].type /\ new[i].thread = messages[i].thread
           /\ messages[i].read => new[i].read,
         new[Len(messages) + 1].thread = thread,
         new[Len(messages) + 1].read \/ thread = ExitThread,
         NEW k \in Callers, NEW c, CallOK(messages, c, k)
  PROVE  CallOK(new, c, k)
<1> DEFINE n == Len(messages) + 1
<1>1. Len(messages) \in Nat
  BY LenProperties DEF RowInv, RowsOK
<1>2. NoReply(messages, k) => NoReply(new, k)
  <2> SUFFICES ASSUME NoReply(messages, k), NEW i \in 1 .. n PROVE new[i].thread # k
    BY DEF NoReply
  <2>1. CASE i = n
    BY <2>1 DEF MailboxAssumption
  <2>2. CASE i # n
    BY <1>1, <2>2 DEF NoReply
  <2> QED
    BY <2>1, <2>2
<1>3. ASSUME NEW F, NothingNew(messages, F) PROVE NothingNew(new, F)
  <2> SUFFICES ASSUME NEW i \in 1 .. n, ~new[i].read, new[i].type \in F
               PROVE  new[i].thread = ExitThread
    BY DEF NothingNew
  <2>1. CASE i = n
    BY <2>1
  <2>2. CASE i # n
    BY <1>1, <1>3, <2>2 DEF NothingNew
  <2> QED
    BY <2>1, <2>2
<1> QED
  BY <1>2, <1>3 DEF CallOK

\* Every step keeps the callers as they must be.
LEMMA CallInvStep ==
  ASSUME MailboxAssumption, RowInv, CallInv, [MailboxNext]_mailboxVars
  PROVE  CallInv'
<1>1. /\ Len(messages) \in Nat /\ DOMAIN messages = 1 .. Len(messages)
      /\ messages \in Seq(RowType)
  BY LenProperties DEF RowInv, RowsOK
<1>2. ASSUME NEW type \in MessageType, NEW owner \in BOOLEAN, Send(type, owner) PROVE CallInv'
  <2> DEFINE old == Append(messages, Row(type, NoThread))
             n == Len(messages) + 1
  <2>1. /\ Marks(old, messages')
        /\ \/ messages'[n].read /\ calls' = calls
           \/ calls' = Woken(type)
        /\ Len(messages) < MaxMessages
    BY <1>2, SendEffect DEF Send
  <2>2. /\ Len(old) = n
        /\ \A i \in 1 .. Len(messages) : old[i] = messages[i]
        /\ old[n] = Row(type, NoThread)
    BY <2>1, ArrivedRowsOK DEF RowInv
  <2>3. CASE calls' = Woken(type)
    <3>1. /\ Woken(type) \in [Callers -> CallType]
          /\ \A k \in Callers : CallOK(old, Woken(type)[k], k)
      <4>1. NoThread \notin Callers
        BY DEF MailboxAssumption
      <4> QED
        BY <2>1, <4>1, ArrivalWakes
    <3> HIDE DEF old
    <3>2. \A k \in Callers : CallOK(messages', Woken(type)[k], k)
      BY <2>1, <3>1, MarksBringNothing
    <3> QED
      BY <2>3, <3>1, <3>2 DEF CallInv
  <2>4. CASE messages'[n].read /\ calls' = calls
    <3> HIDE DEF old
    <3>1. /\ Len(messages') = n
          /\ \A i \in 1 .. Len(messages) :
               /\ messages'[i].type = messages[i].type /\ messages'[i].thread = messages[i].thread
               /\ messages[i].read => messages'[i].read
          /\ messages'[n].thread = NoThread
      BY <1>1, <2>1, <2>2 DEF Marks, Row
    <3>2. \A k \in Callers : CallOK(messages', calls[k], k)
      BY <2>4, <3>1, QuietArrival DEF CallInv
    <3> QED
      BY <2>4, <3>2 DEF CallInv
  <2> QED
    BY <2>1, <2>3, <2>4
<1>3. ASSUME NEW k \in Callers, Reply(k) PROVE CallInv'
  <2>1. /\ Woken("status") \in [Callers -> CallType]
        /\ \A c \in Callers : CallOK(Append(messages, Row("status", k)), Woken("status")[c], c)
    BY <1>3, ArrivalWakes DEF Reply, MessageType
  <2> QED
    BY <1>3, <2>1 DEF CallInv, Reply
<1>4. CASE ExitEscalation
  <2> DEFINE n == Len(messages) + 1
  <2>1. /\ calls' = calls /\ Len(messages') = n
        /\ \A i \in 1 .. Len(messages) : messages'[i] = messages[i]
        /\ messages'[n].thread = ExitThread
    BY <1>4, ArrivedRowsOK DEF RowInv, ExitEscalation, MessageType, Row
  <2>2. \A k \in Callers : CallOK(messages', calls[k], k)
    BY <2>1, QuietArrival DEF CallInv
  <2> QED
    BY <2>1, <2>2 DEF CallInv
<1>5. CASE /\ Marks(messages, messages')
           /\ ~ \E type \in MessageType, owner \in BOOLEAN : Send(type, owner)
           /\ ~ \E k \in Callers : Reply(k)
           /\ ~ ExitEscalation
  <2>1. \A c, k : CallOK(messages, c, k) => CallOK(messages', c, k)
    BY <1>5, MarksBringNothing
  <2>2. ASSUME NEW k \in Callers, NEW c \in CallType, CallOK(messages', c, k),
               calls' = [calls EXCEPT ![k] = c]
        PROVE  CallInv'
    BY <2>1, <2>2 DEF CallInv
  <2>3. ASSUME calls' = calls PROVE CallInv'
    BY <2>1, <2>3 DEF CallInv
  <2>4. ASSUME NEW k \in Callers, NEW F \in Filters, NEW peek \in BOOLEAN, CheckWaits(k, F, peek)
        PROVE  CallInv'
    <3> DEFINE c == [kind |-> IF peek THEN "peek" ELSE "check", filter |-> F, pc |-> "waiting"]
    <3>1. c \in CallType
      BY DEF CallType, MailboxAssumption
    <3>2. NoReply(messages, k)
      BY <2>4 DEF CheckWaits, CallInv, CallOK
    <3>3. NothingNew(messages, F)
      BY <1>1, <2>4 DEF CheckWaits, Unread, NothingNew
    <3>4. CallOK(messages', c, k)
      BY <2>1, <3>2, <3>3 DEF CallOK
    <3>5. calls' = [calls EXCEPT ![k] = c]
      BY <2>4 DEF CheckWaits
    <3> HIDE DEF c
    <3> QED
      BY <2>2, <3>1, <3>4, <3>5
  <2>5. ASSUME NEW k \in Callers, CheckReturns(k) \/ CallerAborts(k) PROVE CallInv'
    <3>1. NoCall \in CallType
      BY DEF NoCall, CallType
    <3>2. calls[k].kind # "ask" /\ calls' = [calls EXCEPT ![k] = NoCall]
      BY <2>5 DEF CheckReturns, CallerAborts
    <3>3. CallOK(messages', NoCall, k)
      BY <2>1, <3>2 DEF CallInv, CallOK, NoCall
    <3> QED
      BY <2>2, <3>1, <3>2, <3>3
  <2>6. ASSUME NEW k \in Callers, Ask(k) PROVE CallInv'
    <3> DEFINE c == [kind |-> "ask", filter |-> MessageType, pc |-> "waiting"]
    <3>1. c \in CallType
      BY DEF CallType
    <3>2. calls[k].kind = "none" /\ calls' = [calls EXCEPT ![k] = c]
      BY <2>6 DEF Ask
    <3>3. CallOK(messages', c, k)
      BY <2>1, <3>2 DEF CallInv, CallOK
    <3> HIDE DEF c
    <3> QED
      BY <2>2, <3>1, <3>2, <3>3
  <2>7. ASSUME NEW k \in Callers, NEW pc \in {"idle", "waiting", "woken", "answered", "timedOut"},
               calls' = [calls EXCEPT ![k].pc = pc],
               pc = "waiting" => calls[k].kind = "ask" /\ NoReply(messages, k)
        PROVE  CallInv'
    <3> DEFINE c == [calls[k] EXCEPT !.pc = pc]
    <3>1. calls[k] \in CallType /\ CallOK(messages, calls[k], k)
      BY DEF CallInv
    <3>2. c \in CallType /\ c.kind = calls[k].kind /\ c.filter = calls[k].filter /\ c.pc = pc
      BY <3>1 DEF CallType
    <3>3. calls' = [calls EXCEPT ![k] = c]
      BY <2>7
    <3> HIDE DEF c
    <3>4. CallOK(messages, c, k)
      BY <2>7, <3>1, <3>2 DEF CallOK
    <3> QED
      BY <2>1, <2>2, <3>2, <3>3, <3>4
  <2>8. ASSUME NEW k \in Callers, AskResumes(k) \/ WaitTimesOut(k) PROVE CallInv'
    <3>1. Replies(k) = {} => NoReply(messages, k)
      BY <1>1 DEF Replies, NoReply
    <3>2. PICK pc \in {"idle", "waiting", "woken", "answered", "timedOut"} :
            /\ calls' = [calls EXCEPT ![k].pc = pc]
            /\ pc = "waiting" => calls[k].kind = "ask" /\ Replies(k) = {}
      BY <2>8 DEF AskResumes, WaitTimesOut
    <3> QED
      BY <2>7, <3>1, <3>2
  <2>9. CASE calls' = calls
    BY <2>3, <2>9
  <2>10. CASE \/ \E k \in Callers, F \in Filters, peek \in BOOLEAN : CheckWaits(k, F, peek)
              \/ \E k \in Callers : CheckReturns(k) \/ CallerAborts(k)
              \/ \E k \in Callers : Ask(k)
              \/ \E k \in Callers : AskResumes(k) \/ WaitTimesOut(k)
    BY <2>4, <2>5, <2>6, <2>8, <2>10
  <2>11. CASE DispatchCloses \/ BecomesIdle \/ BecomesBusy \/ Enter \/ Breaks \/ Recovers
              \/ (\E F \in Filters, peek \in BOOLEAN : CheckAtOnce(F, peek))
              \/ UNCHANGED mailboxVars
    <3>1. calls' = calls
      BY <2>11 DEF DispatchCloses, BecomesIdle, BecomesBusy, Enter, Breaks, Recovers, CheckAtOnce,
                   mailboxVars
    <3> QED
      BY <2>3, <3>1
  <2> QED
    BY <1>5, <2>10, <2>11 DEF MailboxNext
<1> QED
  BY <1>2, <1>3, <1>4, <1>5, MarkingSteps

-----------------------------------------------------------------------------
(***************************************************************************)
(* The theorems.                                                           *)
(***************************************************************************)

\* The mailbox starts empty, with nobody waiting.
LEMMA MailboxInvInit ==
  ASSUME MailboxAssumption, MailboxInit
  PROVE  RowInv /\ CallInv
<1>1. /\ messages \in Seq(RowType) /\ Len(messages) = 0
      /\ timers \in Seq(SUBSET (1 .. Len(messages))) /\ Len(timers) = 0
  BY EmptySeq DEF MailboxInit
<1>2. pasted \in [1 .. MaxMessages -> 0 .. 2]
  BY DEF MailboxInit
<1>3. RowsOK(messages, timers, pasted)
  BY <1>1, <1>2 DEF RowsOK, MailboxAssumption
<1>4. RowInv
  BY <1>3 DEF RowInv, MailboxInit
<1>5. NoCall \in CallType /\ calls = [k \in Callers |-> NoCall]
  BY DEF MailboxInit, NoCall, CallType
<1>6. \A k \in Callers : CallOK(messages, NoCall, k)
  BY <1>1 DEF CallOK, NoCall, NoReply
<1>7. CallInv
  BY <1>5, <1>6 DEF CallInv
<1> QED
  BY <1>4, <1>7

\* The inductive invariant: every reachable mailbox has its rows, its pastes and its callers as
\* described above.
THEOREM MailboxInvariant == MailboxSpec => [](RowInv /\ CallInv)
<1>1. MailboxInit => RowInv /\ CallInv
  BY MailboxInvInit, MailboxAssumption
<1>2. RowInv /\ CallInv /\ [MailboxNext]_mailboxVars => RowInv' /\ CallInv'
  BY RowInvStep, CallInvStep, MailboxAssumption
<1> QED
  BY <1>1, <1>2, PTL DEF MailboxSpec

\* The variables of the mailbox keep their types, and a timer stamps existing rows only.
THEOREM MailboxTypeCorrect == MailboxSpec => []MailboxTypeOK
<1>1. RowInv /\ CallInv => MailboxTypeOK
  <2> SUFFICES ASSUME RowInv, CallInv PROVE MailboxTypeOK
    OBVIOUS
  <2>1. messages \in Seq(RowType) /\ DOMAIN messages = 1 .. Len(messages)
    BY LenProperties DEF RowInv, RowsOK
  <2>2. \A j \in DOMAIN timers : timers[j] \subseteq DOMAIN messages
    BY <2>1, LenProperties, ElementOfSeq DEF RowInv, RowsOK
  <2>3. \A k \in Callers :
          /\ calls[k].kind \in {"none", "check", "peek", "ask"}
          /\ calls[k].pc \in {"idle", "waiting", "woken", "answered", "timedOut"}
    BY DEF CallInv, CallType
  <2> QED
    BY <2>1, <2>2, <2>3 DEF MailboxTypeOK, RowType, RowInv
<1> QED
  BY <1>1, MailboxInvariant, PTL

\* A row stamped delivered was pasted or read: the stamp that comes 500 ms after a paste never
\* takes along a message that arrived in between (deliverPendingMessages).
THEOREM DeliveredIsShown == MailboxSpec => []DeliveredWasShown
<1>1. RowInv => DeliveredWasShown
  BY LenProperties DEF RowInv, RowsOK, DeliveredWasShown
<1> QED
  BY <1>1, MailboxInvariant, PTL

\* Once a worker_done completed the dispatch, no heartbeat of it is unread: the ones before it
\* and the ones that come late are suppressed (reconcileLifecycleMessage).
THEOREM HeartbeatsEndWithTheDispatch == MailboxSpec => []NoHeartbeatAfterDone
<1>1. RowInv => NoHeartbeatAfterDone
  <2> SUFFICES ASSUME RowInv, dispatch = "done" PROVE Unread({"heartbeat"}) = {}
    BY DEF NoHeartbeatAfterDone
  <2>1. DOMAIN messages = 1 .. Len(messages)
    BY LenProperties DEF RowInv, RowsOK
  <2>2. BeatsRead(messages)
    BY DEF RowInv
  <2> QED
    BY <2>1, <2>2 DEF BeatsRead, Unread
<1> QED
  BY <1>1, MailboxInvariant, PTL

\* Nobody waits for a message that is there: an insert wakes every check whose filter takes it and
\* every ask (notifyMessageArrived), except for the rows of the exit handler.
THEOREM WakeupsAreNotLost == MailboxSpec => []NoLostWakeup
<1>1. RowInv /\ CallInv => NoLostWakeup
  <2> SUFFICES ASSUME RowInv, CallInv, NEW k \in Callers, calls[k].pc = "waiting"
               PROVE  IF calls[k].kind = "ask" THEN Replies(k) = {}
                      ELSE \A i \in Unread(calls[k].filter) : messages[i].thread = ExitThread
    BY DEF NoLostWakeup
  <2>1. DOMAIN messages = 1 .. Len(messages)
    BY LenProperties DEF RowInv, RowsOK
  <2>2. CallOK(messages, calls[k], k)
    BY DEF CallInv
  <2>3. CASE calls[k].kind = "ask"
    BY <2>1, <2>2, <2>3 DEF CallOK, NoReply, Replies
  <2>4. CASE calls[k].kind # "ask"
    BY <2>1, <2>2, <2>4 DEF CallOK, NothingNew, Unread
  <2> QED
    BY <2>3, <2>4
<1> QED
  BY <1>1, MailboxInvariant, PTL

\* orchestration.ask reports a timeout only when its reply is not there at the turn that ends it.
THEOREM TimeoutsAreUnanswered == MailboxSpec => AskTimesOutUnanswered
<1> DEFINE Fair == \A k \in Callers :
             calls[k].pc # "timedOut" /\ calls'[k].pc = "timedOut" => Replies(k) = {}
<1>1. ASSUME RowInv /\ CallInv, [MailboxNext]_mailboxVars PROVE [Fair]_mailboxVars
  <2> SUFFICES ASSUME NEW k \in Callers,
                      calls[k].pc # "timedOut", calls'[k].pc = "timedOut"
               PROVE  Replies(k) = {}
    OBVIOUS
  <2>1. calls \in [Callers -> CallType]
    BY <1>1 DEF CallInv
  <2>2. ASSUME NEW c \in Callers, AskResumes(c) PROVE Replies(k) = {}
    BY <2>1, <2>2 DEF AskResumes, CallType
  <2>3. ASSUME NEW type \in MessageType, NEW owner \in BOOLEAN, Send(type, owner) PROVE FALSE
    BY <2>1, <2>3 DEF Send, Woken, CallType
  <2>4. ASSUME NEW c \in Callers,
               Reply(c) \/ CheckReturns(c) \/ Ask(c) \/ WaitTimesOut(c) \/ CallerAborts(c)
        PROVE  FALSE
    BY <2>1, <2>4 DEF Reply, Woken, CheckReturns, Ask, WaitTimesOut, CallerAborts, NoCall, CallType
  <2>5. ASSUME NEW c \in Callers, NEW F \in Filters, NEW peek \in BOOLEAN, CheckWaits(c, F, peek)
        PROVE  FALSE
    BY <2>1, <2>5 DEF CheckWaits, CallType
  <2>6. CASE \/ ExitEscalation \/ DispatchCloses \/ BecomesIdle \/ BecomesBusy \/ Enter \/ Breaks
             \/ Recovers \/ (\E F \in Filters, peek \in BOOLEAN : CheckAtOnce(F, peek))
             \/ UNCHANGED mailboxVars
    BY <2>6 DEF ExitEscalation, DispatchCloses, BecomesIdle, BecomesBusy, Enter, Breaks, Recovers,
                CheckAtOnce, mailboxVars
  <2> QED
    BY <1>1, <2>2, <2>3, <2>4, <2>5, <2>6 DEF MailboxNext
<1> QED
  BY <1>1, MailboxInvariant, PTL DEF MailboxSpec, AskTimesOutUnanswered

=============================================================================
