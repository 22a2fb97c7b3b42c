-------------------------------- MODULE SshMux --------------------------------
(***************************************************************************)
(* One SSH channel between Orca and its relay: the multiplexer that makes  *)
(* requests and gives them up, and the relay's client that executes them,  *)
(* with cancellation, acknowledgements, the health check of the channel,   *)
(* its death (noticed or not) and the disposal of either end.              *)
(*                                                                         *)
(* The channel keeps the order and repeats nothing.  A new channel has a   *)
(* new multiplexer and a new client, whose numbers start again, so one is  *)
(* modelled.  Time passes in keepalive intervals, between two ticks of the *)
(* health timer, and stands still elsewhere.                               *)
(***************************************************************************)
EXTENDS Naturals, Sequences, FiniteSets

CONSTANTS
  Gaps,         \* intervals between two ticks of an application that is awake
  MaxRequests,  \* bound: requests
  MaxTicks,     \* bound: ticks of the health timer
  MaxAlive      \* bound: keepalives of the relay

Quiet == 4    \* TIMEOUT_MS in keepalive intervals
WakeGap == 3  \* WAKE_GAP_MS in keepalive intervals

ASSUME MuxAssumption ==
  Gaps \subseteq 1 .. WakeGap /\ {MaxRequests, MaxTicks, MaxAlive} \subseteq Nat

VARIABLES
  mux,      \* "open" or "disposed"
  call,     \* pendingRequests, and how each request was settled
  ages,     \* unackedTimestamps: intervals since each unacknowledged frame was sent
  acked,    \* highestAckedBySelf
  silence,  \* intervals since lastReceivedAt
  link,     \* "up", "dead" (and nobody knows) or "closed"
  up, down, \* frames on their way to the relay, and from it
  client,   \* the relay's client: "open" or "closed"
  got,      \* its highestReceivedSeq
  work,     \* handlers: "none", "running", "stopped" (their signal is aborted), "done", "abandoned"
  ticks,    \* bound: ticks so far
  alive,    \* bound: keepalives of the relay so far
  chances,  \* history: ticks since the last frame that was received, or the last wake
  verdict   \* history: did the health check give the channel up?

muxSide == <<mux, call, ages, acked, silence, verdict>>
wires == <<link, up, down>>
relaySide == <<client, got, work>>
counters == <<ticks, alive, chances>>
muxVars == <<muxSide, wires, relaySide, counters>>

Requests == 1 .. MaxRequests

Frame(kind, r) == [kind |-> kind, r |-> r]
Pending == {r \in Requests : call[r] = "pending"}
Settle(S, how) == [r \in Requests |-> IF r \in S THEN how ELSE call[r]]

-----------------------------------------------------------------------------
(* Sending and disposing.                                                   *)

\* Mutant: disposal forgets to reject what is pending.
DisposedUnanswered(calls) ==
  /\ mux' = "disposed"
  /\ call' = calls
  /\ ages' = <<>>
  /\ link' = "closed" /\ down' = <<>>

\* dispose: what is pending is rejected, the transport is closed and nothing more is read.
Disposed(calls) ==
  /\ mux' = "disposed"
  /\ call' = [r \in Requests |-> IF calls[r] = "pending" THEN "lost" ELSE calls[r]]
  /\ ages' = <<>>
  /\ link' = "closed" /\ down' = <<>>

\* sendMessage of the frames fs, with the requests as in calls: a dead channel takes the frames
\* and loses them, or its transport throws, which disposes the multiplexer.
Sent(fs, calls, as) ==
  \/ /\ call' = calls
     /\ ages' = as \o [i \in DOMAIN fs |-> 0]
     /\ up' = IF link = "up" THEN up \o fs ELSE up
     /\ UNCHANGED <<mux, link, down>>
  \/ /\ link # "up"
     /\ Disposed(calls)
     /\ UNCHANGED up

-----------------------------------------------------------------------------
(* The multiplexer.                                                         *)

\* request; its number is taken from a counter.
MakeRequest(r) ==
  /\ mux = "open" /\ call[r] = "new" /\ \A q \in Requests : q < r => call[q] # "new"
  /\ Sent(<<Frame("request", r)>>, Settle({r}, "pending"), ages)
  /\ UNCHANGED <<acked, silence, verdict, relaySide, counters>>

\* Mutant: a timeout forgets the request and does not cancel it.
GiveUpSilently(r) ==
  /\ mux = "open" /\ call[r] = "pending"
  /\ call' = Settle({r}, "cancelled")
  /\ UNCHANGED <<mux, ages, acked, silence, verdict, wires, relaySide, counters>>

\* The abort signal of the caller, or the timeout: the request is rejected, the relay is told.
\* The timeout tells the relay first: if that write throws, the request is still pending
\* and is lost with the others.
GiveUp(r) ==
  /\ mux = "open" /\ call[r] = "pending"
  /\ \/ Sent(<<Frame("cancel", r)>>, Settle({r}, "cancelled"), ages)
     \/ link # "up" /\ Disposed(call) /\ UNCHANGED up
  /\ UNCHANGED <<acked, silence, verdict, relaySide, counters>>

\* handleResponse: a request that was given up is not in the map.
Answered(r) == Settle({r} \cap Pending, "answered")

\* handleFrame: any frame is a sign of life, and acknowledges.
MuxReceives ==
  /\ mux = "open" /\ down # <<>>
  /\ down' = Tail(down)
  /\ silence' = 0 /\ chances' = 0
  /\ LET f == Head(down)
     IN /\ acked' = IF f.ack > acked THEN f.ack ELSE acked
        /\ ages' = SubSeq(ages, acked' - acked + 1, Len(ages))
        /\ call' = IF f.kind = "response" THEN Answered(f.r) ELSE call
  /\ UNCHANGED <<mux, verdict, link, up, relaySide, ticks, alive>>

\* The transport reports its end.
MuxSeesClose ==
  /\ mux = "open" /\ link # "up"
  /\ Disposed(call)
  /\ UNCHANGED <<acked, silence, verdict, up, relaySide, counters>>

\* dispose by the session: a shutdown, or a reconnect.
Dispose ==
  /\ mux = "open"
  /\ Disposed(call)
  /\ UNCHANGED <<acked, silence, verdict, up, relaySide, counters>>

Older(n, gap) == IF n + gap > Quiet THEN Quiet + 1 ELSE n + gap
Aged(gap) == [i \in DOMAIN ages |-> Older(ages[i], gap)]

\* One tick of the health timer, gap intervals after the last, before its checks.
TickBegins ==
  /\ mux = "open" /\ ticks < MaxTicks
  /\ ticks' = ticks + 1
  /\ UNCHANGED <<acked, relaySide, alive>>

\* Mutant: the first tick after a sleep forgives nothing.
WakesUnforgiving ==
  /\ TickBegins
  /\ Sent(<<Frame("alive", 0), Frame("alive", 0)>>, call, Aged(Quiet + 1))
  /\ silence' = Quiet + 1
  /\ chances' = 0 /\ UNCHANGED verdict

\* The first tick after a sleep: what was silent slept, and the relay is asked again.
Wakes ==
  /\ TickBegins
  /\ Sent(<<Frame("alive", 0), Frame("alive", 0)>>, call, [i \in DOMAIN ages |-> 0])
  /\ silence' = 0
  /\ chances' = 0 /\ UNCHANGED verdict

\* Any other tick sends a keepalive, and the channel is good ...
TickPasses(gap) ==
  /\ TickBegins
  /\ Sent(<<Frame("alive", 0)>>, call, Aged(gap))
  /\ silence' = Older(silence, gap)
  /\ mux' = "open" => ~(silence' > Quiet /\ \E i \in DOMAIN ages' : ages'[i] > Quiet)
  /\ chances' = (IF chances = 2 THEN 2 ELSE chances + 1) /\ UNCHANGED verdict

\* ... or nothing was received, and something is unacknowledged, for too long.
TickGivesUp(gap) ==
  /\ TickBegins
  /\ silence' = Older(silence, gap) /\ silence' > Quiet
  /\ \E i \in DOMAIN ages : Older(ages[i], gap) > Quiet
  /\ Disposed(call)
  /\ up' = up
  /\ verdict' = TRUE /\ UNCHANGED chances

-----------------------------------------------------------------------------
(* The channel.                                                             *)

\* The network goes: what is sent from now on is lost.
LinkDies ==
  /\ link = "up" /\ link' = "dead"
  /\ UNCHANGED <<muxSide, up, down, relaySide, counters>>

-----------------------------------------------------------------------------
(* The relay.                                                               *)

\* abortClient
Aborted == [r \in Requests |-> IF work[r] = "running" THEN "stopped" ELSE work[r]]

\* sendFrame with the handlers as in works: it is on its way, or lost on a channel that is gone,
\* or the write throws, which detaches the client.
RelaySends(f, works) ==
  \/ /\ down' = IF link = "up" THEN Append(down, f) ELSE down
     /\ work' = works /\ UNCHANGED <<client, up>>
  \/ /\ link # "up"
     /\ client' = "closed"
     /\ work' = [r \in Requests |-> IF works[r] = "running" THEN "stopped" ELSE works[r]]
     /\ up' = <<>> /\ UNCHANGED down

\* Mutant: a cancellation stops whatever the client asked for.
StoppedByAny(r) == Aborted

\* rpc.cancel aborts the handler of the request, if it runs.
StoppedBy(r) == [work EXCEPT ![r] = IF @ = "running" THEN "stopped" ELSE @]

\* handleFrame: a request starts its handler, a cancellation aborts it, a keepalive is counted.
RelayReceives ==
  /\ client = "open" /\ up # <<>>
  /\ up' = Tail(up) /\ got' = got + 1
  /\ LET f == Head(up)
     IN work' = CASE f.kind = "request" -> [work EXCEPT ![f.r] = "running"]
                  [] f.kind = "cancel" -> StoppedBy(f.r)
                  [] OTHER -> work
  /\ UNCHANGED <<muxSide, link, down, client, counters>>

\* A handler ends, with a result or an error: a stale one keeps it to itself.
WorkEnds(r) ==
  /\ \/ /\ work[r] = "running"
        /\ RelaySends([kind |-> "response", r |-> r, ack |-> got], [work EXCEPT ![r] = "done"])
     \/ /\ work[r] = "stopped"
        /\ work' = [work EXCEPT ![r] = "abandoned"]
        /\ UNCHANGED <<client, up, down>>
  /\ UNCHANGED <<muxSide, link, got, counters>>

\* startKeepalive
RelayAlive ==
  /\ client = "open" /\ alive < MaxAlive
  /\ alive' = alive + 1
  /\ RelaySends([kind |-> "alive", r |-> 0, ack |-> got], work)
  /\ UNCHANGED <<muxSide, link, got, ticks, chances>>

\* detachClient: the socket of the client closed.  What was sent before an orderly end is read
\* first; a failed network may take it along.
RelaySeesClose ==
  /\ client = "open" /\ link # "up" /\ (link = "closed" => up = <<>>)
  /\ client' = "closed" /\ work' = Aborted /\ up' = <<>>
  /\ UNCHANGED <<muxSide, link, down, got, counters>>

-----------------------------------------------------------------------------
MuxInit ==
  /\ mux = "open" /\ call = [r \in Requests |-> "new"] /\ ages = <<>> /\ acked = 0
  /\ silence = 0 /\ verdict = FALSE
  /\ link = "up" /\ up = <<>> /\ down = <<>>
  /\ client = "open" /\ got = 0 /\ work = [r \in Requests |-> "none"]
  /\ ticks = 0 /\ alive = 0 /\ chances = 0

MuxNext ==
  \/ \E r \in Requests : MakeRequest(r) \/ GiveUp(r) \/ WorkEnds(r)
  \/ MuxReceives \/ MuxSeesClose \/ Dispose
  \/ Wakes
  \/ \E gap \in Gaps : TickPasses(gap) \/ TickGivesUp(gap)
  \/ LinkDies
  \/ RelayReceives \/ RelayAlive \/ RelaySeesClose

MuxSpec == MuxInit /\ [][MuxNext]_muxVars

\* The relay reads the frames that arrived, and the operating system closes, sooner or later, the
\* socket of a channel that is gone.  Handlers need not end.
MuxFairness == WF_muxVars(RelayReceives) /\ WF_muxVars(RelaySeesClose)

FairMuxSpec == MuxSpec /\ MuxFairness

-----------------------------------------------------------------------------
\* The shape of the state; an end that is closed holds nothing and waits for nothing, and the
\* relay is never ahead of what it received.
MuxTypeOK ==
  /\ mux \in {"open", "disposed"} /\ client \in {"open", "closed"}
  /\ link \in {"up", "dead", "closed"} /\ verdict \in BOOLEAN
  /\ call \in [Requests -> {"new", "pending", "answered", "cancelled", "lost"}]
  /\ work \in [Requests -> {"none", "running", "stopped", "done", "abandoned"}]
  /\ silence \in 0 .. Quiet + 1 /\ ages \in Seq(0 .. Quiet + 1)
  /\ mux = "disposed" => Pending = {} /\ ages = <<>> /\ link = "closed"
  /\ client = "closed" => link # "up" /\ \A r \in Requests : work[r] # "running"
  /\ got >= acked

\* The two ends make a request/reply channel (RequestReply): however cancellations, timeouts,
\* late responses, failed writes and the end of the channel fall together, a request is executed
\* once at most, settled once, and answered only by its own execution, which nobody stops while
\* somebody waits for it.
Reply == INSTANCE RequestReply WITH Request <- Requests, outcome <- call, cut <- (link # "up")
ChannelReplies == Reply!ReplySpec

\* The health check does not give a channel up at the first tick after a frame arrived, nor at the
\* first tick after a sleep: the relay had a whole interval to answer a keepalive, and the time
\* that was slept is not held against it.
RelayHadItsChance == [][~verdict /\ verdict' => chances > 0]_muxVars

\* A handler does not run on for a caller that gave up (which is final), whether the caller could
\* tell the relay or the channel took the cancellation with it.
NoOrphanWork ==
  \A r \in Requests : []<>~(call[r] \in Reply!GivenUp /\ work[r] = "running")

=============================================================================
