----------------------------- MODULE SshMuxProofs -----------------------------
(***************************************************************************)
(* Theorems about SshMux, for every number of requests, ticks and          *)
(* keepalives, and every gap between two ticks.                            *)
(***************************************************************************)
EXTENDS SshMux, SequenceTheorems, TLAPS

(***************************************************************************)
(* The inductive invariant: what is on its way agrees with both ends.      *)
(***************************************************************************)

UpFrame == [kind : {"request", "cancel"}, r : Requests] \cup [kind : {"alive"}, r : {0}]
DownFrame ==
  [kind : {"response"}, r : Requests, ack : Nat] \cup [kind : {"alive"}, r : {0}, ack : Nat]

WiresTypeOK ==
  /\ up \in Seq(UpFrame) /\ down \in Seq(DownFrame)
  /\ got \in Nat /\ acked \in Nat

\* A handler runs for a request that was made.
MadeFirst == \A r \in Requests : call[r] = "new" => work[r] = "none"

\* A request arrives once, and finds no handler; a cancellation finds nobody who waits.
UpAgrees(u, calls, works) ==
  /\ \A i \in 1 .. Len(u) :
       /\ u[i].kind = "request" => calls[u[i].r] # "new" /\ works[u[i].r] = "none"
       /\ u[i].kind = "cancel" => calls[u[i].r] \in {"cancelled", "lost"}
  /\ \A i, j \in 1 .. Len(u) :
       u[i].kind = "request" /\ u[j].kind = "request" /\ u[i].r = u[j].r => i = j

\* A response is from a handler that ran to its end; no frame acknowledges what is to come.
DownAgrees(d, works, n) ==
  \A i \in 1 .. Len(d) :
    /\ d[i].kind = "response" => works[d[i].r] = "done"
    /\ d[i].ack <= n

MuxInv ==
  /\ MuxTypeOK /\ WiresTypeOK /\ MadeFirst
  /\ UpAgrees(up, call, work) /\ DownAgrees(down, work, got)

(***************************************************************************)
(* What each end may do to the requests and the frames in one step.        *)
(***************************************************************************)

\* A request is left alone, made, or given up.
CallMoves(from, to) ==
  \A r \in Requests :
    \/ to[r] = from[r]
    \/ from[r] = "new" /\ to[r] = "pending"
    \/ from[r] \in {"new", "pending"} /\ to[r] \in {"cancelled", "lost"}

Calls == [Requests -> {"new", "pending", "answered", "cancelled", "lost"}]
Works == [Requests -> {"none", "running", "stopped", "done", "abandoned"}]

\* A step of the channel is one that RequestReply allows; the channel does not come back.
ReplyStep ==
  /\ link # "up" => link' # "up"
  /\ \A r \in Requests :
       /\ call'[r] = call[r] \/ Reply!Made(r) \/ Reply!Dropped(r) \/ Reply!Answered(r)
       /\ work'[r] = work[r] \/ Reply!Started(r) \/ Reply!Stopped(r) \/ Reply!Ended(r)

\* A handler is left alone, ends, or is stopped.
WorkMoves(from, to) ==
  \A r \in Requests :
    \/ to[r] = from[r]
    \/ from[r] = "running" /\ to[r] \in {"done", "stopped"}
    \/ from[r] = "stopped" /\ to[r] = "abandoned"

\* A function on 1 .. n is a sequence.
LEMMA FunctionIsSeq ==
  ASSUME NEW S, NEW n \in Nat, NEW s \in [1 .. n -> S]
  PROVE  s \in Seq(S)
  BY SeqDef

\* Frames that were on their way still agree when requests are made or given up.
LEMMA UpAgreesWithMoves ==
  ASSUME NEW u \in Seq(UpFrame), NEW calls \in Calls, NEW to \in Calls, NEW works,
         UpAgrees(u, calls, works), CallMoves(calls, to)
  PROVE  UpAgrees(u, to, works)
<1>1. \A i \in 1 .. Len(u) : u[i] \in UpFrame
  OBVIOUS
<1>2. ASSUME NEW i \in 1 .. Len(u), u[i].kind \in {"request", "cancel"}
      PROVE  u[i].r \in Requests
  BY <1>1, <1>2 DEF UpFrame
<1> QED
  BY <1>2 DEF UpAgrees, CallMoves

\* One more frame agrees: a keepalive, a new request, or a cancellation of one given up.
LEMMA UpAgreesAppended ==
  ASSUME NEW u \in Seq(UpFrame), NEW f \in UpFrame, NEW calls, NEW works,
         UpAgrees(u, calls, works),
         f.kind = "request" =>
           /\ calls[f.r] # "new" /\ works[f.r] = "none"
           /\ \A i \in 1 .. Len(u) : u[i].kind = "request" => u[i].r # f.r,
         f.kind = "cancel" => calls[f.r] \in {"cancelled", "lost"}
  PROVE  /\ u \o <<f>> \in Seq(UpFrame)
         /\ UpAgrees(u \o <<f>>, calls, works)
<1> DEFINE v == Append(u, f)
<1>1. u \o <<f>> = v
  BY AppendIsConcat
<1>2. /\ v \in Seq(UpFrame) /\ Len(v) = Len(u) + 1 /\ v[Len(u) + 1] = f
      /\ \A i \in 1 .. Len(u) : v[i] = u[i]
  BY AppendProperties
<1> HIDE DEF v
<1>3. UpAgrees(v, calls, works)
  BY <1>2 DEF UpAgrees
<1> QED
  BY <1>1, <1>2, <1>3

\* What is left when the first frame was read.
LEMMA UpAgreesTail ==
  ASSUME NEW u \in Seq(UpFrame), u # <<>>, NEW calls, NEW works, UpAgrees(u, calls, works)
  PROVE  /\ Head(u) = u[1] /\ Head(u) \in UpFrame /\ Tail(u) \in Seq(UpFrame)
         /\ UpAgrees(Tail(u), calls, works)
         /\ Head(u).kind = "request" =>
              \A i \in 1 .. Len(Tail(u)) :
                Tail(u)[i].kind = "request" => Tail(u)[i].r # Head(u).r
<1>1. /\ Tail(u) \in Seq(UpFrame) /\ Len(Tail(u)) = Len(u) - 1 /\ Head(u) \in UpFrame
      /\ \A i \in 1 .. Len(Tail(u)) : Tail(u)[i] = u[i + 1]
      /\ Len(u) \in Nat \ {0}
  BY HeadTailProperties, EmptySeq
<1>2. Head(u) = u[1]
  BY <1>1
<1>3. \A i \in 1 .. Len(Tail(u)) : i + 1 \in 1 .. Len(u) /\ i + 1 # 1
  BY <1>1
<1>4. UpAgrees(Tail(u), calls, works)
  <2>1. \A i, j \in 1 .. Len(Tail(u)) : i + 1 = j + 1 => i = j
    BY <1>1
  <2> QED
    BY <1>1, <1>3, <2>1 DEF UpAgrees
<1>5. 1 \in 1 .. Len(u)
  BY <1>1
<1>6. ASSUME NEW i \in 1 .. Len(Tail(u)), Head(u).kind = "request", Tail(u)[i].kind = "request",
             Tail(u)[i].r = Head(u).r
      PROVE  FALSE
  BY <1>1, <1>2, <1>3, <1>5, <1>6 DEF UpAgrees
<1> QED
  BY <1>1, <1>2, <1>4, <1>6

\* A disposal settles what is pending, and nothing is read any more.
LEMMA DisposedKeeps ==
  ASSUME MuxInv, NEW calls \in Calls, CallMoves(call, calls), Disposed(calls),
         silence' \in 0 .. Quiet + 1, verdict' \in BOOLEAN,
         UNCHANGED <<acked, up, relaySide>>
  PROVE  MuxInv' /\ ReplyStep
<1>1. call' \in Calls /\ CallMoves(call, call')
  BY DEF Disposed, CallMoves, Calls
<1>2. \A r \in Requests : call'[r] # "pending"
  BY DEF Disposed, Calls
<1>3. MuxTypeOK'
  BY <1>1, <1>2 DEF MuxInv, MuxTypeOK, Disposed, Calls, Pending, relaySide
<1>4. WiresTypeOK'
  BY DEF MuxInv, WiresTypeOK, Disposed, relaySide
<1>5. MadeFirst'
  <2>1. \A r \in Requests : call'[r] = "new" => call[r] = "new"
    BY <1>1 DEF CallMoves
  <2> QED
    BY <2>1 DEF MuxInv, MadeFirst, relaySide
<1>6. UpAgrees(up', call', work')
  BY <1>1, UpAgreesWithMoves DEF MuxInv, MuxTypeOK, WiresTypeOK, Calls, relaySide
<1>7. DownAgrees(down', work', got')
  BY DEF DownAgrees, Disposed
<1>8. link' = "closed"
  BY DEF Disposed
<1>9. ReplyStep
  BY <1>1, <1>8 DEF ReplyStep, CallMoves, Reply!Made, Reply!Dropped, Reply!GivenUp, relaySide
<1> QED
  BY <1>1, <1>3, <1>4, <1>5, <1>6, <1>7, <1>8, <1>9 DEF MuxInv

\* The frames fs are sent, or the multiplexer is disposed.
LEMMA SentKeeps ==
  ASSUME MuxInv, mux = "open", NEW calls \in Calls, CallMoves(call, calls), NEW fs, NEW as,
         NEW n \in Nat, fs \in [1 .. n -> UpFrame], as \in Seq(0 .. Quiet + 1),
         up \o fs \in Seq(UpFrame), UpAgrees(up \o fs, calls, work),
         Sent(fs, calls, as),
         silence' \in 0 .. Quiet + 1, verdict' \in BOOLEAN,
         UNCHANGED <<acked, relaySide>>,
         \A r \in Requests : calls[r] = "lost" => call[r] = "lost"
  PROVE  MuxInv' /\ ReplyStep
<1>1. CASE link # "up" /\ Disposed(calls) /\ UNCHANGED up
  BY <1>1, DisposedKeeps
<1>2. CASE /\ call' = calls
           /\ ages' = as \o [i \in DOMAIN fs |-> 0]
           /\ up' = IF link = "up" THEN up \o fs ELSE up
           /\ UNCHANGED <<mux, link, down>>
  <2>1. ages' \in Seq(0 .. Quiet + 1)
    <3>1. [i \in DOMAIN fs |-> 0] \in Seq(0 .. Quiet + 1)
      <4>1. [i \in DOMAIN fs |-> 0] \in [1 .. n -> 0 .. Quiet + 1]
        BY DEF Quiet
      <4> QED
        BY <4>1, FunctionIsSeq
    <3> QED
      BY <1>2, <3>1, ConcatProperties
  <2>2. MuxTypeOK'
    BY <1>2, <2>1 DEF MuxInv, MuxTypeOK, relaySide, Calls
  <2>3. WiresTypeOK'
    BY <1>2 DEF MuxInv, WiresTypeOK, relaySide
  <2>4. MadeFirst'
    <3>1. \A r \in Requests : call'[r] = "new" => call[r] = "new"
      BY <1>2 DEF CallMoves
    <3> QED
      BY <3>1 DEF MuxInv, MadeFirst, relaySide
  <2>5. UpAgrees(up, calls, work)
    BY UpAgreesWithMoves DEF MuxInv, MuxTypeOK, WiresTypeOK, Calls
  <2>6. UpAgrees(up', call', work')
    BY <1>2, <2>5 DEF relaySide
  <2>7. DownAgrees(down', work', got')
    BY <1>2 DEF MuxInv, relaySide
  <2>8. ReplyStep
    BY <1>2 DEF ReplyStep, CallMoves, Reply!Made, Reply!Dropped, Reply!GivenUp, relaySide
  <2> QED
    BY <1>2, <2>2, <2>3, <2>4, <2>6, <2>7, <2>8 DEF MuxInv
<1> QED
  BY <1>1, <1>2 DEF Sent

\* Handlers end or are stopped: what is on its way to either end still agrees.
LEMMA WorkMovesKeep ==
  ASSUME MuxInv, NEW to, WorkMoves(work, to)
  PROVE  /\ UpAgrees(up, call, to) /\ DownAgrees(down, to, got)
         /\ \A r \in Requests : call[r] = "new" => to[r] = "none"
<1>1. \A i \in 1 .. Len(up) : up[i] \in UpFrame
  BY DEF MuxInv, WiresTypeOK
<1>2. \A i \in 1 .. Len(up) : up[i].kind \in {"request", "cancel"} => up[i].r \in Requests
  BY <1>1 DEF UpFrame
<1>3. \A i \in 1 .. Len(down) : down[i] \in DownFrame
  BY DEF MuxInv, WiresTypeOK
<1>4. \A i \in 1 .. Len(down) : down[i].kind = "response" => down[i].r \in Requests
  BY <1>3 DEF DownFrame
<1>5. UpAgrees(up, call, to)
  BY <1>2 DEF MuxInv, UpAgrees, WorkMoves
<1>6. DownAgrees(down, to, got)
  BY <1>4 DEF MuxInv, DownAgrees, WorkMoves
<1> QED
  BY <1>5, <1>6 DEF MuxInv, MadeFirst, WorkMoves

\* The relay's client is closed: whatever ran is stopped, what was on its way is not read.
LEMMA ClientClosedKeeps ==
  ASSUME MuxInv, NEW works \in Works, WorkMoves(work, works), link # "up",
         client' = "closed", up' = <<>>,
         work' = [r \in Requests |-> IF works[r] = "running" THEN "stopped" ELSE works[r]],
         UNCHANGED <<muxSide, link, down, got>>
  PROVE  MuxInv' /\ ReplyStep
<1>1. WorkMoves(work, work') /\ work' \in Works /\ \A r \in Requests : work'[r] # "running"
  BY DEF WorkMoves, Works
<1>2. MuxTypeOK'
  BY <1>1 DEF MuxInv, MuxTypeOK, muxSide, Works, Pending
<1>3. WiresTypeOK'
  BY DEF MuxInv, WiresTypeOK, muxSide
<1>4. MadeFirst' /\ DownAgrees(down', work', got')
  BY <1>1, WorkMovesKeep DEF MadeFirst, muxSide
<1>5. UpAgrees(up', call', work')
  BY DEF UpAgrees
<1>6. ReplyStep
  BY <1>1 DEF ReplyStep, WorkMoves, Reply!Stopped, Reply!Ended, muxSide
<1> QED
  BY <1>2, <1>3, <1>4, <1>5, <1>6 DEF MuxInv

\* The relay sends the frame f, with its handlers as in works.
LEMMA RelaySendsKeeps ==
  ASSUME MuxInv, NEW f \in DownFrame, NEW works \in Works, WorkMoves(work, works),
         \A r \in Requests : works[r] = "stopped" => work[r] = "stopped",
         f.kind = "response" => works[f.r] = "done", f.ack = got,
         RelaySends(f, works), UNCHANGED <<muxSide, link, got>>
  PROVE  MuxInv' /\ ReplyStep
<1>1. CASE /\ down' = IF link = "up" THEN Append(down, f) ELSE down
           /\ work' = works /\ UNCHANGED <<client, up>>
  <2> DEFINE d == Append(down, f)
  <2>1. /\ d \in Seq(DownFrame) /\ Len(d) = Len(down) + 1 /\ d[Len(down) + 1] = f
        /\ \A i \in 1 .. Len(down) : d[i] = down[i]
    BY AppendProperties DEF MuxInv, WiresTypeOK
  <2>2. down' \in {d, down}
    BY <1>1
  <2> HIDE DEF d
  <2>3. UpAgrees(up, call, work') /\ DownAgrees(down, work', got) /\ MadeFirst'
    BY <1>1, WorkMovesKeep DEF MadeFirst, muxSide
  <2>4. DownAgrees(d, work', got)
    BY <1>1, <2>1, <2>3 DEF DownAgrees, MuxInv, WiresTypeOK
  <2>5. DownAgrees(down', work', got')
    BY <2>2, <2>3, <2>4
  <2>6. MuxTypeOK'
    BY <1>1 DEF MuxInv, MuxTypeOK, muxSide, Works, WorkMoves, Pending
  <2>7. WiresTypeOK'
    BY <1>1, <2>1, <2>2 DEF MuxInv, WiresTypeOK, muxSide
  <2>8. ReplyStep
    BY <1>1 DEF ReplyStep, WorkMoves, Reply!Stopped, Reply!Ended, muxSide
  <2> QED
    BY <1>1, <2>3, <2>5, <2>6, <2>7, <2>8 DEF MuxInv, muxSide
<1>2. CASE /\ link # "up" /\ client' = "closed"
           /\ work' = [r \in Requests |-> IF works[r] = "running" THEN "stopped" ELSE works[r]]
           /\ up' = <<>> /\ UNCHANGED down
  BY <1>2, ClientClosedKeeps
<1> QED
  BY <1>1, <1>2 DEF RelaySends

(***************************************************************************)
(* One step of either end.                                                 *)
(***************************************************************************)

\* The two ends start with nothing on its way.
LEMMA MuxInvInitially == MuxInit => MuxInv /\ Reply!ReplyInit
<1> SUFFICES ASSUME MuxInit
             PROVE  MuxInv /\ Reply!ReplyInit
  OBVIOUS
<1>1. ages \in Seq(0 .. Quiet + 1) /\ up \in Seq(UpFrame) /\ down \in Seq(DownFrame)
  BY EmptySeq DEF MuxInit
<1>2. Len(up) = 0 /\ Len(down) = 0
  BY DEF MuxInit
<1>3. MuxTypeOK /\ WiresTypeOK
  <2>1. verdict \in BOOLEAN
    BY DEF MuxInit
  <2>2. silence \in 0 .. Quiet + 1
    BY DEF MuxInit, Quiet
  <2> QED
    BY <1>1, <2>1, <2>2 DEF MuxInit, MuxTypeOK, WiresTypeOK
<1>4. MadeFirst /\ UpAgrees(up, call, work) /\ DownAgrees(down, work, got)
  BY <1>2 DEF MuxInit, MadeFirst, UpAgrees, DownAgrees
<1>5. Reply!ReplyInit
  BY DEF MuxInit, Reply!ReplyInit
<1> QED
  BY <1>3, <1>4, <1>5 DEF MuxInv

\* A request is made: its frame is the first of its number.
LEMMA MakeRequestKeeps ==
  ASSUME MuxInv, NEW r \in Requests, MakeRequest(r)
  PROVE  MuxInv' /\ ReplyStep
<1> DEFINE calls == Settle({r}, "pending")
           f == Frame("request", r)
<1>1. /\ calls \in Calls /\ CallMoves(call, calls) /\ calls[r] = "pending"
      /\ \A q \in Requests : calls[q] = "lost" => call[q] = "lost"
  BY DEF MuxInv, MuxTypeOK, MakeRequest, Settle, Calls, CallMoves
<1>2. f \in UpFrame /\ f.kind = "request" /\ f.r = r
  BY DEF UpFrame, Frame
<1>3. call[r] = "new" /\ work[r] = "none"
  BY DEF MakeRequest, MuxInv, MadeFirst
<1>4. \A i \in 1 .. Len(up) : up[i].kind = "request" => up[i].r # r
  BY <1>3 DEF MuxInv, UpAgrees
<1>5. mux = "open" /\ Sent(<<f>>, calls, ages) /\ UNCHANGED <<acked, silence, verdict, relaySide>>
  BY DEF MakeRequest
<1> HIDE DEF calls, f
<1>6. up \in Seq(UpFrame) /\ UpAgrees(up, calls, work)
  BY <1>1, UpAgreesWithMoves DEF MuxInv, MuxTypeOK, WiresTypeOK, Calls
<1>7. up \o <<f>> \in Seq(UpFrame) /\ UpAgrees(up \o <<f>>, calls, work)
  BY <1>1, <1>2, <1>3, <1>4, <1>6, UpAgreesAppended
<1>8. <<f>> \in [1 .. 1 -> UpFrame]
  BY <1>2
<1>9. ages \in Seq(0 .. Quiet + 1) /\ silence' \in 0 .. Quiet + 1 /\ verdict' \in BOOLEAN
  BY <1>5 DEF MuxInv, MuxTypeOK
<1> QED
  BY <1>1, <1>5, <1>7, <1>8, <1>9, SentKeeps

\* A request is given up: its cancellation is sent after it.
LEMMA CancelKeeps ==
  ASSUME MuxInv, NEW r \in Requests, GiveUp(r),
         Sent(<<Frame("cancel", r)>>, Settle({r}, "cancelled"), ages)
  PROVE  MuxInv' /\ ReplyStep
<1> DEFINE calls == Settle({r}, "cancelled")
           f == Frame("cancel", r)
<1>1. /\ calls \in Calls /\ CallMoves(call, calls) /\ calls[r] = "cancelled"
      /\ \A q \in Requests : calls[q] = "lost" => call[q] = "lost"
  BY DEF MuxInv, MuxTypeOK, GiveUp, Settle, Calls, CallMoves
<1>2. f \in UpFrame /\ f.kind = "cancel" /\ f.r = r
  BY DEF UpFrame, Frame
<1>3. mux = "open" /\ Sent(<<f>>, calls, ages) /\ UNCHANGED <<acked, silence, verdict, relaySide>>
  BY DEF GiveUp
<1> HIDE DEF calls, f
<1>4. up \in Seq(UpFrame) /\ UpAgrees(up, calls, work)
  BY <1>1, UpAgreesWithMoves DEF MuxInv, MuxTypeOK, WiresTypeOK, Calls
<1>5. up \o <<f>> \in Seq(UpFrame) /\ UpAgrees(up \o <<f>>, calls, work)
  BY <1>1, <1>2, <1>4, UpAgreesAppended
<1>6. <<f>> \in [1 .. 1 -> UpFrame]
  BY <1>2
<1>7. ages \in Seq(0 .. Quiet + 1) /\ silence' \in 0 .. Quiet + 1 /\ verdict' \in BOOLEAN
  BY <1>3 DEF MuxInv, MuxTypeOK
<1> QED
  BY <1>1, <1>3, <1>5, <1>6, <1>7, SentKeeps

\* The last b of a numbers up to n are numbers up to n.
LEMMA InSuffix ==
  \A a, b, n \in Nat : \A i \in a - b + 1 .. n : a >= b => i \in 1 .. n
  OBVIOUS

\* A difference that is not negative is a natural number.
LEMMA DifferenceIsNat == \A a, b \in Nat : a >= b => a - b \in Nat
  OBVIOUS

\* A frame of the relay is read.
LEMMA MuxReceivesKeeps ==
  ASSUME MuxInv, MuxReceives
  PROVE  MuxInv' /\ ReplyStep
<1> DEFINE f == Head(down)
<1>1. /\ f \in DownFrame /\ f = down[1] /\ 1 \in 1 .. Len(down)
      /\ Tail(down) \in Seq(DownFrame) /\ Len(Tail(down)) = Len(down) - 1
      /\ \A i \in 1 .. Len(Tail(down)) : Tail(down)[i] = down[i + 1]
  BY HeadTailProperties, EmptySeq DEF MuxInv, WiresTypeOK, MuxReceives
<1>2. f.ack \in Nat /\ f.ack <= got
  BY <1>1 DEF DownFrame, MuxInv, DownAgrees
<1>3. f.kind = "response" => f.r \in Requests /\ work[f.r] = "done"
  BY <1>1 DEF DownFrame, MuxInv, DownAgrees
<1>4. /\ acked' = IF f.ack > acked THEN f.ack ELSE acked
      /\ ages' = SubSeq(ages, acked' - acked + 1, Len(ages))
      /\ call' = IF f.kind = "response" THEN Answered(f.r) ELSE call
      /\ down' = Tail(down) /\ silence' = 0 /\ mux = "open"
      /\ UNCHANGED <<mux, verdict, link, up, relaySide>>
  BY DEF MuxReceives
<1> HIDE DEF f
<1>5. acked \in Nat /\ acked' \in Nat /\ acked' >= acked /\ acked' <= got
  BY <1>2, <1>4 DEF MuxInv, MuxTypeOK, WiresTypeOK
<1>6. ages' \in Seq(0 .. Quiet + 1)
  <2>1. ages \in Seq(0 .. Quiet + 1) /\ Len(ages) \in Nat
    BY DEF MuxInv, MuxTypeOK
  <2>2. ASSUME NEW i \in acked' - acked + 1 .. Len(ages)
        PROVE  ages[i] \in 0 .. Quiet + 1
    <3>1. i \in 1 .. Len(ages)
      BY <1>5, <2>1, InSuffix
    <3> QED
      BY <2>1, <3>1, ElementOfSeq
  <2> HIDE DEF Quiet
  <2> QED
    BY <1>4, <1>5, <2>1, <2>2, DifferenceIsNat, SubSeqProperties DEF MuxInv, WiresTypeOK
<1>7. /\ call' \in Calls
      /\ \A r \in Requests :
           \/ call'[r] = call[r]
           \/ call[r] = "pending" /\ call'[r] = "answered" /\ work[r] = "done"
  BY <1>3, <1>4 DEF Answered, Settle, Pending, MuxInv, MuxTypeOK, Calls
<1>8. MuxTypeOK'
  BY <1>4, <1>5, <1>6, <1>7 DEF MuxInv, MuxTypeOK, WiresTypeOK, relaySide, Calls, Quiet
<1>9. WiresTypeOK'
  BY <1>1, <1>4, <1>5 DEF MuxInv, WiresTypeOK, relaySide
<1>10. MadeFirst'
  BY <1>4, <1>7 DEF MuxInv, MadeFirst, relaySide
<1>11. UpAgrees(up', call', work')
  <2>1. \A i \in 1 .. Len(up) : up[i].kind \in {"request", "cancel"} => up[i].r \in Requests
    BY DEF MuxInv, WiresTypeOK, UpFrame
  <2> QED
    BY <1>4, <1>7, <2>1 DEF MuxInv, UpAgrees, relaySide
<1>12. DownAgrees(down', work', got')
  <2>1. \A i \in 1 .. Len(Tail(down)) : i + 1 \in 1 .. Len(down)
    BY <1>1
  <2> QED
    BY <1>1, <1>4, <2>1 DEF MuxInv, DownAgrees, relaySide
<1>13. ReplyStep
  BY <1>4, <1>7 DEF ReplyStep, Reply!Answered, relaySide
<1> QED
  BY <1>8, <1>9, <1>10, <1>11, <1>12, <1>13 DEF MuxInv

\* The clocks of the health timer keep their type.
LEMMA OlderTyped ==
  ASSUME NEW n \in 0 .. Quiet + 1, NEW gap \in 1 .. WakeGap
  PROVE  Older(n, gap) \in 0 .. Quiet + 1
  BY DEF Older, Quiet, WakeGap

\* Keepalives are sent.
LEMMA AliveIsSent ==
  ASSUME MuxInv
  PROVE  LET f == Frame("alive", 0)
         IN  /\ <<f>> \in [1 .. 1 -> UpFrame] /\ <<f, f>> \in [1 .. 2 -> UpFrame]
             /\ up \o <<f>> \in Seq(UpFrame) /\ UpAgrees(up \o <<f>>, call, work)
             /\ up \o <<f, f>> \in Seq(UpFrame) /\ UpAgrees(up \o <<f, f>>, call, work)
<1> DEFINE f == Frame("alive", 0)
<1>1. f \in UpFrame /\ f.kind = "alive"
  BY DEF UpFrame, Frame
<1> HIDE DEF f
<1>2. up \in Seq(UpFrame) /\ UpAgrees(up, call, work)
  BY DEF MuxInv, WiresTypeOK
<1>3. up \o <<f>> \in Seq(UpFrame) /\ UpAgrees(up \o <<f>>, call, work)
  BY <1>1, <1>2, UpAgreesAppended
<1>4. (up \o <<f>>) \o <<f>> \in Seq(UpFrame) /\ UpAgrees((up \o <<f>>) \o <<f>>, call, work)
  BY <1>1, <1>3, UpAgreesAppended
<1>5. (up \o <<f>>) \o <<f>> = up \o (<<f>> \o <<f>>)
  BY <1>1, <1>2, ConcatAssociative
<1>6. <<f>> \o <<f>> = <<f, f>>
  <2>1. /\ <<f>> \in Seq(UpFrame) /\ Len(<<f>>) = 1 /\ <<f>>[1] = f
        /\ <<f, f>> \in Seq(UpFrame) /\ Len(<<f, f>>) = 2
    BY <1>1
  <2>2. \A i \in 1 .. 2 : <<f, f>>[i] = f
    OBVIOUS
  <2>3. /\ <<f>> \o <<f>> \in Seq(UpFrame) /\ Len(<<f>> \o <<f>>) = 2
        /\ \A i \in 1 .. 2 : (<<f>> \o <<f>>)[i] = f
    BY <2>1, ConcatProperties
  <2> QED
    BY <2>1, <2>2, <2>3, SeqEqual
<1>7. <<f>> \in [1 .. 1 -> UpFrame] /\ <<f, f>> \in [1 .. 2 -> UpFrame]
  BY <1>1
<1>8. up \o <<f, f>> = (up \o <<f>>) \o <<f>>
  BY <1>5, <1>6
<1>9. up \o <<f, f>> \in Seq(UpFrame) /\ UpAgrees(up \o <<f, f>>, call, work)
  BY <1>4, <1>8
<1> QED
  BY <1>3, <1>7, <1>9 DEF f

\* A tick of the health timer.
LEMMA TickKeeps ==
  ASSUME MuxInv, Wakes \/ \E gap \in Gaps : TickPasses(gap) \/ TickGivesUp(gap)
  PROVE  MuxInv' /\ ReplyStep
<1> DEFINE f == Frame("alive", 0)
<1>1. /\ call \in Calls /\ CallMoves(call, call) /\ mux = "open"
      /\ UNCHANGED <<acked, relaySide>>
  BY DEF MuxInv, MuxTypeOK, Calls, CallMoves, Wakes, TickPasses, TickGivesUp, TickBegins
<1>2. /\ <<f>> \in [1 .. 1 -> UpFrame] /\ <<f, f>> \in [1 .. 2 -> UpFrame]
      /\ up \o <<f>> \in Seq(UpFrame) /\ UpAgrees(up \o <<f>>, call, work)
      /\ up \o <<f, f>> \in Seq(UpFrame) /\ UpAgrees(up \o <<f, f>>, call, work)
  BY AliveIsSent
<1>3. /\ ages \in Seq(0 .. Quiet + 1) /\ Len(ages) \in Nat /\ DOMAIN ages = 1 .. Len(ages)
      /\ \A i \in 1 .. Len(ages) : ages[i] \in 0 .. Quiet + 1
      /\ silence \in 0 .. Quiet + 1 /\ verdict \in BOOLEAN /\ 0 \in 0 .. Quiet + 1
  BY DEF MuxInv, MuxTypeOK, Quiet
<1> HIDE DEF f
<1>4. CASE Wakes
  <2> DEFINE as == [i \in DOMAIN ages |-> 0]
  <2>1. as \in Seq(0 .. Quiet + 1)
    <3>1. as \in [1 .. Len(ages) -> 0 .. Quiet + 1]
      BY <1>3
    <3> QED
      BY <1>3, <3>1, FunctionIsSeq
  <2>2. Sent(<<f, f>>, call, as) /\ silence' = 0 /\ verdict' = verdict
    BY <1>4 DEF Wakes, f
  <2> HIDE DEF as
  <2>3. silence' \in 0 .. Quiet + 1 /\ verdict' \in BOOLEAN
    BY <1>3, <2>2
  <2> QED
    BY <1>1, <1>2, <2>1, <2>2, <2>3, SentKeeps
<1>5. ASSUME NEW gap \in Gaps, TickPasses(gap) \/ TickGivesUp(gap)
      PROVE  MuxInv' /\ ReplyStep
  <2>1. gap \in 1 .. WakeGap
    BY MuxAssumption
  <2>2. silence' \in 0 .. Quiet + 1
    BY <1>3, <1>5, <2>1, OlderTyped DEF TickPasses, TickGivesUp
  <2>3. CASE TickPasses(gap)
    <3> DEFINE as == Aged(gap)
    <3>1. as \in Seq(0 .. Quiet + 1)
      <4>1. as \in [1 .. Len(ages) -> 0 .. Quiet + 1]
        BY <1>3, <2>1, OlderTyped DEF Aged
      <4> QED
        BY <1>3, <4>1, FunctionIsSeq
    <3>2. Sent(<<f>>, call, as) /\ verdict' = verdict
      BY <2>3 DEF TickPasses, f
    <3>3. verdict' \in BOOLEAN
      BY <1>3, <3>2
    <3> HIDE DEF as
    <3> QED
      BY <1>1, <1>2, <2>2, <3>1, <3>2, <3>3, SentKeeps
  <2>4. CASE TickGivesUp(gap)
    <3>1. Disposed(call) /\ UNCHANGED up /\ verdict' \in BOOLEAN
      BY <2>4 DEF TickGivesUp
    <3> QED
      BY <1>1, <2>2, <3>1, DisposedKeeps
  <2> QED
    BY <1>5, <2>3, <2>4
<1> QED
  BY <1>4, <1>5

\* A frame of the multiplexer is read.
LEMMA RelayReceivesKeeps ==
  ASSUME MuxInv, RelayReceives
  PROVE  MuxInv' /\ ReplyStep
<1> DEFINE f == Head(up)
           u == Tail(up)
<1>1. up \in Seq(UpFrame) /\ up # <<>> /\ UpAgrees(up, call, work) /\ Len(up) \in Nat \ {0}
  BY EmptySeq DEF MuxInv, WiresTypeOK, RelayReceives
<1>2. /\ f = up[1] /\ f \in UpFrame /\ u \in Seq(UpFrame) /\ UpAgrees(u, call, work)
      /\ f.kind = "request" =>
           \A i \in 1 .. Len(u) : u[i].kind = "request" => u[i].r # f.r
  BY <1>1, UpAgreesTail
<1>3. /\ f.kind = "request" => f.r \in Requests /\ call[f.r] # "new" /\ work[f.r] = "none"
      /\ f.kind = "cancel" => f.r \in Requests /\ call[f.r] \in {"cancelled", "lost"}
  BY <1>1, <1>2 DEF UpAgrees, UpFrame
<1>4. /\ up' = u /\ got' = got + 1 /\ client = "open"
      /\ UNCHANGED <<muxSide, link, down, client>>
      /\ work' = CASE f.kind = "request" -> [work EXCEPT ![f.r] = "running"]
                   [] f.kind = "cancel" -> StoppedBy(f.r)
                   [] OTHER -> work
  BY DEF RelayReceives
<1> HIDE DEF f, u
<1>5. \A i \in 1 .. Len(down) :
        down[i] \in DownFrame /\ (down[i].kind = "response" => down[i].r \in Requests)
  BY DEF MuxInv, WiresTypeOK, DownFrame
<1>6. \A i \in 1 .. Len(down) : down[i].ack <= got + 1
  <2>1. \A i \in 1 .. Len(down) : down[i].ack \in Nat
    BY <1>5 DEF DownFrame
  <2> QED
    BY <2>1 DEF MuxInv, DownAgrees, WiresTypeOK
<1>7. CASE f.kind = "request"
  <2>1. work' = [work EXCEPT ![f.r] = "running"] /\ f.r \in Requests /\ work[f.r] = "none"
    BY <1>3, <1>4, <1>7
  <2>2. MuxTypeOK' /\ WiresTypeOK' /\ MadeFirst'
    <3>1. MuxTypeOK'
      BY <1>4, <2>1 DEF MuxInv, MuxTypeOK, WiresTypeOK, Pending, muxSide
    <3>2. WiresTypeOK' /\ MadeFirst'
      BY <1>2, <1>3, <1>4, <1>7, <2>1 DEF MuxInv, MuxTypeOK, WiresTypeOK, MadeFirst, muxSide
    <3> QED
      BY <3>1, <3>2
  <2>3. UpAgrees(up', call', work')
    <3>1. \A i \in 1 .. Len(u) : u[i].kind = "request" => u[i].r \in Requests /\ u[i].r # f.r
      BY <1>2, <1>7 DEF UpFrame
    <3> QED
      BY <1>2, <1>4, <2>1, <3>1 DEF UpAgrees, muxSide, MuxInv, MuxTypeOK
  <2>4. DownAgrees(down', work', got')
    BY <1>4, <1>5, <1>6, <2>1 DEF DownAgrees, MuxInv, MuxTypeOK
  <2>5. ReplyStep
    BY <1>3, <1>4, <1>7, <2>1 DEF ReplyStep, Reply!Started, muxSide, MuxInv, MuxTypeOK
  <2> QED
    BY <2>2, <2>3, <2>4, <2>5 DEF MuxInv
<1>8. CASE f.kind # "request"
  <2>1. /\ WorkMoves(work, work') /\ work' \in Works
        /\ \A r \in Requests : work'[r] # work[r] =>
             work[r] = "running" /\ work'[r] = "stopped" /\ call[r] \in {"cancelled", "lost"}
    BY <1>3, <1>4, <1>8 DEF StoppedBy, WorkMoves, Works, MuxInv, MuxTypeOK
  <2>2. /\ UpAgrees(up, call, work') /\ DownAgrees(down, work', got)
        /\ \A r \in Requests : call[r] = "new" => work'[r] = "none"
    BY <2>1, WorkMovesKeep
  <2>3. UpAgrees(u, call, work')
    <3>1. UpAgrees(u, call, work')
      BY <1>1, <2>2, UpAgreesTail DEF u
    <3> QED
      BY <3>1
  <2>4. DownAgrees(down', work', got')
    BY <1>4, <1>6, <2>2 DEF DownAgrees
  <2>5. MuxTypeOK'
    BY <1>4, <2>1 DEF MuxInv, MuxTypeOK, WiresTypeOK, Works, Pending, muxSide
  <2>6. WiresTypeOK' /\ MadeFirst'
    BY <1>2, <1>4, <2>2 DEF MuxInv, WiresTypeOK, MadeFirst, muxSide
  <2>7. ReplyStep
    BY <1>4, <2>1 DEF ReplyStep, Reply!Stopped, Reply!GivenUp, muxSide
  <2> QED
    BY <1>4, <2>3, <2>4, <2>5, <2>6, <2>7 DEF MuxInv, muxSide
<1> QED
  BY <1>7, <1>8

\* A handler ends, or the relay sends a keepalive.
LEMMA RelaySideKeeps ==
  ASSUME MuxInv, RelayAlive \/ \E r \in Requests : WorkEnds(r)
  PROVE  MuxInv' /\ ReplyStep
<1>1. CASE RelayAlive
  <2> DEFINE f == [kind |-> "alive", r |-> 0, ack |-> got]
  <2>1. f \in DownFrame /\ f.kind = "alive" /\ f.ack = got
    BY DEF DownFrame, MuxInv, WiresTypeOK
  <2>2. work \in Works /\ WorkMoves(work, work)
    BY DEF MuxInv, MuxTypeOK, Works, WorkMoves
  <2>3. RelaySends(f, work) /\ UNCHANGED <<muxSide, link, got>>
    BY <1>1 DEF RelayAlive
  <2> HIDE DEF f
  <2> QED
    BY <2>1, <2>2, <2>3, RelaySendsKeeps
<1>2. ASSUME NEW r \in Requests, WorkEnds(r)
      PROVE  MuxInv' /\ ReplyStep
  <2>1. CASE work[r] = "running"
    <3> DEFINE f == [kind |-> "response", r |-> r, ack |-> got]
               works == [work EXCEPT ![r] = "done"]
    <3>1. f \in DownFrame /\ f.kind = "response" /\ f.ack = got /\ f.r = r
      BY DEF DownFrame, MuxInv, WiresTypeOK
    <3>2. /\ works \in Works /\ WorkMoves(work, works) /\ works[r] = "done"
          /\ \A q \in Requests : works[q] = "stopped" => work[q] = "stopped"
      BY <2>1 DEF MuxInv, MuxTypeOK, Works, WorkMoves
    <3>3. RelaySends(f, works) /\ UNCHANGED <<muxSide, link, got>>
      BY <1>2, <2>1 DEF WorkEnds
    <3> HIDE DEF f, works
    <3> QED
      BY <3>1, <3>2, <3>3, RelaySendsKeeps
  <2>2. CASE work[r] = "stopped"
    <3>1. /\ work' = [work EXCEPT ![r] = "abandoned"]
          /\ UNCHANGED <<client, up, down, muxSide, link, got>>
      BY <1>2, <2>2 DEF WorkEnds
    <3>2. WorkMoves(work, work') /\ work' \in Works
      BY <2>2, <3>1 DEF WorkMoves, Works, MuxInv, MuxTypeOK
    <3>3. UpAgrees(up', call', work') /\ DownAgrees(down', work', got') /\ MadeFirst'
      BY <3>1, <3>2, WorkMovesKeep DEF MadeFirst, muxSide
    <3>4. MuxTypeOK'
      BY <2>2, <3>1, <3>2 DEF MuxInv, MuxTypeOK, Works, Pending, muxSide
    <3>5. WiresTypeOK'
      BY <3>1 DEF MuxInv, WiresTypeOK, muxSide
    <3>6. ReplyStep
      BY <2>2, <3>1 DEF ReplyStep, Reply!Ended, muxSide, MuxInv, MuxTypeOK
    <3> QED
      BY <3>3, <3>4, <3>5, <3>6 DEF MuxInv
  <2> QED
    BY <1>2, <2>1, <2>2 DEF WorkEnds
<1> QED
  BY <1>1, <1>2

\* The network goes, or the relay learns that it did.
LEMMA LinkKeeps ==
  ASSUME MuxInv, LinkDies \/ RelaySeesClose
  PROVE  MuxInv' /\ ReplyStep
<1>1. CASE LinkDies
  <2>1. UNCHANGED <<muxSide, up, down, relaySide>> /\ link = "up" /\ link' = "dead"
    BY <1>1 DEF LinkDies
  <2>2. MuxTypeOK'
    BY <2>1 DEF MuxInv, MuxTypeOK, Pending, muxSide, relaySide
  <2>3. /\ WiresTypeOK' /\ MadeFirst'
        /\ UpAgrees(up', call', work') /\ DownAgrees(down', work', got')
    BY <2>1 DEF MuxInv, WiresTypeOK, MadeFirst, muxSide, relaySide
  <2>4. ReplyStep
    BY <2>1 DEF ReplyStep, muxSide, relaySide
  <2> QED
    BY <2>2, <2>3, <2>4 DEF MuxInv
<1>2. CASE RelaySeesClose
  <2>1. work \in Works /\ WorkMoves(work, work)
    BY DEF MuxInv, MuxTypeOK, Works, WorkMoves
  <2>2. /\ link # "up" /\ client' = "closed" /\ up' = <<>>
        /\ work' = [r \in Requests |-> IF work[r] = "running" THEN "stopped" ELSE work[r]]
        /\ UNCHANGED <<muxSide, link, down, got>>
    BY <1>2 DEF RelaySeesClose, Aborted
  <2> QED
    BY <2>1, <2>2, ClientClosedKeeps
<1> QED
  BY <1>1, <1>2

\* The transport reports its end, or the session disposes the multiplexer.
LEMMA DisposeKeeps ==
  ASSUME MuxInv, MuxSeesClose \/ Dispose
  PROVE  MuxInv' /\ ReplyStep
<1>1. call \in Calls /\ CallMoves(call, call)
  BY DEF MuxInv, MuxTypeOK, Calls, CallMoves
<1>2. Disposed(call) /\ UNCHANGED <<acked, silence, verdict, up, relaySide>>
  BY DEF MuxSeesClose, Dispose
<1>3. silence' \in 0 .. Quiet + 1 /\ verdict' \in BOOLEAN
  BY <1>2 DEF MuxInv, MuxTypeOK
<1> QED
  BY <1>1, <1>2, <1>3, DisposedKeeps

\* A request is given up, or its timeout finds that the channel is gone.
LEMMA GiveUpKeeps ==
  ASSUME MuxInv, NEW r \in Requests, GiveUp(r)
  PROVE  MuxInv' /\ ReplyStep
<1>1. CASE link # "up" /\ Disposed(call) /\ UNCHANGED up
  BY <1>1, DisposeKeeps DEF GiveUp, MuxSeesClose
<1>2. CASE Sent(<<Frame("cancel", r)>>, Settle({r}, "cancelled"), ages)
  BY <1>2, CancelKeeps
<1> QED
  BY <1>1, <1>2 DEF GiveUp

\* Every step keeps the invariant and is a step of the request/reply channel, or none.
LEMMA MuxStepKeeps ==
  ASSUME MuxInv, [MuxNext]_muxVars
  PROVE  MuxInv' /\ ReplyStep
<1>1. CASE MuxNext
  BY <1>1, MakeRequestKeeps, GiveUpKeeps, RelaySideKeeps, MuxReceivesKeeps, DisposeKeeps,
     TickKeeps, LinkKeeps, RelayReceivesKeeps DEF MuxNext
<1>2. CASE UNCHANGED muxVars
  <2>1. UNCHANGED <<muxSide, wires, relaySide>>
    BY <1>2 DEF muxVars
  <2>2. MuxTypeOK'
    BY <2>1 DEF MuxInv, MuxTypeOK, Pending, muxSide, wires, relaySide
  <2>3. /\ WiresTypeOK' /\ MadeFirst'
        /\ UpAgrees(up', call', work') /\ DownAgrees(down', work', got')
    BY <2>1 DEF MuxInv, WiresTypeOK, MadeFirst, muxSide, wires, relaySide
  <2>4. ReplyStep
    BY <2>1 DEF ReplyStep, muxSide, wires, relaySide
  <2> QED
    BY <2>2, <2>3, <2>4 DEF MuxInv
<1> QED
  BY <1>1, <1>2

(***************************************************************************)
(* The theorems.                                                           *)
(***************************************************************************)

\* What is on its way between the two ends agrees with both, in every reachable state.
THEOREM MuxInvariant == MuxSpec => []MuxInv
<1>1. MuxInit => MuxInv
  BY MuxInvInitially
<1>2. MuxInv /\ [MuxNext]_muxVars => MuxInv'
  BY MuxStepKeeps
<1> QED
  BY <1>1, <1>2, PTL DEF MuxSpec

\* The multiplexer and the relay's client keep the shape of their state: an end that is closed
\* holds nothing and waits for nothing.
THEOREM MuxTypeCorrect == MuxSpec => []MuxTypeOK
<1>1. MuxInv => MuxTypeOK
  BY DEF MuxInv
<1> QED
  BY <1>1, MuxInvariant, PTL

\* The two ends implement the request/reply channel, for any number of requests, ticks and
\* keepalives: a request is executed once at most, settled once, answered by its own execution
\* alone, and not stopped while somebody waits for it on a channel that is there.
THEOREM MuxImplementsChannel == MuxSpec => ChannelReplies
<1>1. MuxInit => Reply!ReplyInit
  BY MuxInvInitially
<1>2. MuxInv /\ [MuxNext]_muxVars => [Reply!ReplyNext]_(Reply!replyVars)
  <2> SUFFICES ASSUME MuxInv, [MuxNext]_muxVars
               PROVE  Reply!ReplyNext
    OBVIOUS
  <2>1. MuxInv' /\ ReplyStep
    BY MuxStepKeeps
  <2>2. call' \in [Requests -> Reply!Outcome] /\ work' \in [Requests -> Reply!Work]
    BY <2>1 DEF MuxInv, MuxTypeOK, Reply!Outcome, Reply!GivenUp, Reply!Work
  <2>3. (link' # "up") \in {link # "up", TRUE}
    BY <2>1 DEF ReplyStep
  <2>4. \A r \in Requests :
          /\ call'[r] = call[r] \/ Reply!Made(r) \/ Reply!Dropped(r) \/ Reply!Answered(r)
          /\ work'[r] = work[r] \/ Reply!Started(r) \/ Reply!Stopped(r) \/ Reply!Ended(r)
    BY <2>1 DEF ReplyStep
  <2> QED
    BY <2>2, <2>3, <2>4 DEF Reply!ReplyNext
<1> QED
  BY <1>1, <1>2, MuxInvariant, PTL DEF MuxSpec, ChannelReplies, Reply!ReplySpec

----
(* The health check. *)

\* Silence is counted by ticks: none since the last sign of life, no silence.
ChanceInv ==
  /\ chances \in Nat
  /\ silence \in Nat
  /\ chances = 0 => silence = 0

\* A tick leaves a silence that is a number of intervals, whatever the gap, and one gap of an
\* application that is awake is shorter than the time a channel may be quiet.
LEMMA OneGapIsNotTooLong ==
  ASSUME NEW gap \in Gaps, NEW n \in Nat
  PROVE  /\ Older(n, gap) \in Nat
         /\ ~(Older(0, gap) > Quiet)
<1>1. gap \in 1 .. 3
  BY MuxAssumption DEF WakeGap
<1> QED
  BY <1>1 DEF Older, Quiet

\* Every step counts a tick whenever it lets silence grow, and the verdict is passed only by a
\* tick that follows another with nothing received in between.
LEMMA ChanceStep ==
  ASSUME ChanceInv, [MuxNext]_muxVars
  PROVE  /\ ChanceInv'
         /\ ~verdict /\ verdict' => chances > 0
<1> USE DEF ChanceInv
<1>1. CASE UNCHANGED muxVars
  BY <1>1 DEF muxVars, muxSide, counters
<1>2. CASE MuxNext
  <2>1. ASSUME NEW r \in Requests, MakeRequest(r) \/ GiveUp(r)
        PROVE  UNCHANGED <<silence, chances, verdict>>
    BY <2>1 DEF MakeRequest, GiveUp, counters
  <2>2. ASSUME NEW r \in Requests, WorkEnds(r)
        PROVE  UNCHANGED <<silence, chances, verdict>>
    BY <2>2 DEF WorkEnds, muxSide, counters
  <2>3. CASE MuxReceives
    BY <2>3 DEF MuxReceives
  <2>4. CASE MuxSeesClose \/ Dispose
    BY <2>4 DEF MuxSeesClose, Dispose, counters
  <2>5. CASE Wakes
    BY <2>5 DEF Wakes
  <2>6. ASSUME NEW gap \in Gaps, TickPasses(gap)
        PROVE  ChanceInv' /\ UNCHANGED verdict
    BY <2>6, OneGapIsNotTooLong DEF TickPasses
  <2>7. ASSUME NEW gap \in Gaps, TickGivesUp(gap)
        PROVE  ChanceInv' /\ chances > 0
    <3>1. silence' = Older(silence, gap) /\ silence' > Quiet /\ chances' = chances
      BY <2>7 DEF TickGivesUp
    <3>2. silence # 0
      BY <3>1, OneGapIsNotTooLong
    <3>3. chances # 0
      BY <3>2
    <3> QED
      BY <3>1, <3>3, OneGapIsNotTooLong
  <2>8. CASE LinkDies \/ RelayReceives \/ RelayAlive \/ RelaySeesClose
    BY <2>8 DEF LinkDies, RelayReceives, RelayAlive, RelaySeesClose, muxSide, counters
  <2> QED
    BY <1>2, <2>1, <2>2, <2>3, <2>4, <2>5, <2>6, <2>7, <2>8 DEF MuxNext
<1> QED
  BY <1>1, <1>2

\* The health check gives a channel up only after a tick that found it silent and asked it for a
\* sign of life, for any number of ticks and any gaps of an application that is awake.
THEOREM RelayGetsItsChance == MuxSpec => RelayHadItsChance
<1>1. MuxInit => ChanceInv
  BY DEF MuxInit, ChanceInv
<1>2. ChanceInv /\ [MuxNext]_muxVars => ChanceInv' /\ (~verdict /\ verdict' => chances > 0)
  BY ChanceStep
<1>3. (~verdict /\ verdict' => chances > 0) => [~verdict /\ verdict' => chances > 0]_muxVars
  OBVIOUS
<1> QED
  BY <1>1, <1>2, <1>3, PTL DEF MuxSpec, RelayHadItsChance

=============================================================================
