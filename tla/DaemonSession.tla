----------------------------- MODULE DaemonSession -----------------------------
(***************************************************************************)
(* One session id in the terminal daemon, from createOrAttach to the exit  *)
(* of its shell: the gate that holds input back until the shell is ready,  *)
(* the pause of the producer, and the ways a shell is ended (a graceful    *)
(* kill with its forced fallback, an immediate kill, the snapshot of an    *)
(* agent's descendants, the shutdown of the daemon).                       *)
(*                                                                         *)
(* A session leaves the host's map in the turn its shell's exit is         *)
(* reported, so "live" says both that it is alive and that it is there.    *)
(* Output is not modelled here, but for what moves the gate.               *)
(***************************************************************************)
EXTENDS Naturals, Sequences

CONSTANTS
  MaxShells,   \* bound: shells started under this id
  MaxInputs,   \* bound: pieces of input
  MaxPauses,   \* bound: pauses of the producer
  MaxFailures  \* bound: signals the system refuses

ASSUME SessionAssumption == {MaxShells, MaxInputs, MaxPauses, MaxFailures} \subseteq Nat

VARIABLES
  live,         \* is a session with a running shell in the host's map?
  gen,          \* shells started so far; the last is the session's
  child,        \* each shell's process: "unborn", "running", "dead" (not reported) or "gone"
  signalled,    \* the strongest signal each shell got: "none", "hangup" or "kill"
  agent,        \* launchAgent
  shell,        \* _shellState
  gate,         \* postReadyFlushGate: "off", "prompt" (awaitingPromptDraw) or "settle"
  queue,        \* preReadyStdinQueue
  received,     \* history: the input written to this shell
  paused,       \* producerPaused
  failsafe,     \* is producerPauseFailsafeTimer armed?
  terminating,  \* _isTerminating
  killTimer,    \* attempts left to the armed kill timer, 0 when it is off
  forceSent,    \* forceKillSent
  sweep,        \* the teardown operation of this id
  stop,         \* who waits for a physical exit, and how far they are
  fenced,       \* creationFenced
  inputs,       \* bound: pieces of input so far
  pauses,       \* bound: pauses so far
  failures      \* bound: refused signals so far

process == <<gen, child, signalled>>
input == <<shell, gate, queue, received>>
flow == <<paused, failsafe>>
ending == <<terminating, killTimer, forceSent>>
bounds == <<inputs, pauses, failures>>
sessionVars == <<live, process, agent, input, flow, ending, sweep, stop, fenced, bounds>>

Shells == 1 .. MaxShells
Stoppers == {"user", "shutdown"}
NoSweep == [pc |-> "none", immediate |-> FALSE, gen |-> 0]
NoStop == [pc |-> "none", gen |-> 0]
KillAttempts == 2  \* SESSION_FORCE_KILL_MAX_ATTEMPTS

-----------------------------------------------------------------------------
(* Input.                                                                   *)

\* Mutant: the gate is not asked, only the state of the shell.
HeldUntilReady == shell = "pending"

\* write queues while the shell is not ready or the flush is still to come.
Held == shell = "pending" \/ gate # "off"

Write ==
  /\ live /\ inputs < MaxInputs
  /\ inputs' = inputs + 1
  /\ IF Held
     THEN queue' = Append(queue, inputs') /\ UNCHANGED received
     ELSE received' = Append(received, inputs') /\ UNCHANGED queue
  /\ UNCHANGED <<live, process, agent, shell, gate, flow, ending, sweep, stop, fenced, pauses,
                 failures>>

Flush == received' = received \o queue /\ queue' = <<>>

\* handleSubprocessData while the shell is pending: the marker, alone or with what follows,
\* arms the gate if there is something to flush.
Marker(more) ==
  /\ live /\ shell = "pending"
  /\ shell' = "ready"
  /\ gate' = IF queue = <<>> THEN "off" ELSE IF more THEN "settle" ELSE "prompt"
  /\ UNCHANGED <<live, process, agent, queue, received, flow, ending, sweep, stop, fenced,
                 bounds>>

\* notifyData: the prompt is drawn, the short delay replaces the long one.
PromptDrawn ==
  /\ live /\ shell # "pending" /\ gate = "prompt"
  /\ gate' = "settle"
  /\ UNCHANGED <<live, process, agent, shell, queue, received, flow, ending, sweep, stop, fenced,
                 bounds>>

\* Either timer of the gate.
GateFires ==
  /\ live /\ gate # "off"
  /\ gate' = "off"
  /\ Flush
  /\ UNCHANGED <<live, process, agent, shell, flow, ending, sweep, stop, fenced, bounds>>

\* Mutant: the timeout does not flush.
ReadyTimeoutKeepsQueue ==
  /\ live /\ shell = "pending"
  /\ shell' = "timed_out"
  /\ UNCHANGED <<live, process, agent, gate, queue, received, flow, ending, sweep, stop, fenced,
                 bounds>>

\* onShellReadyTimeout
ReadyTimeout ==
  /\ live /\ shell = "pending"
  /\ shell' = "timed_out"
  /\ Flush
  /\ UNCHANGED <<live, process, agent, gate, flow, ending, sweep, stop, fenced, bounds>>

-----------------------------------------------------------------------------
(* Flow control of the producer.                                            *)

\* Mutant: the failsafe is armed by the first pause alone.
PauseArmsOnce ==
  /\ live /\ pauses < MaxPauses
  /\ pauses' = pauses + 1
  /\ paused' = TRUE /\ failsafe' = (failsafe \/ pauses = 0)
  /\ UNCHANGED <<live, process, agent, input, ending, sweep, stop, fenced, inputs, failures>>

\* pauseProducer arms the failsafe, again if need be; a terminating session can be paused too.
Pause ==
  /\ live /\ pauses < MaxPauses
  /\ pauses' = pauses + 1
  /\ paused' = TRUE /\ failsafe' = TRUE
  /\ UNCHANGED <<live, process, agent, input, ending, sweep, stop, fenced, inputs, failures>>

\* releaseProducerPause
Release == paused' = FALSE /\ failsafe' = FALSE

\* resumeProducer, or the last client detaches: either may never come.
Resume ==
  /\ live /\ Release
  /\ UNCHANGED <<live, process, agent, input, ending, sweep, stop, fenced, bounds>>

FailsafeFires ==
  /\ failsafe /\ Release
  /\ UNCHANGED <<live, process, agent, input, ending, sweep, stop, fenced, bounds>>

-----------------------------------------------------------------------------
(* createOrAttach.                                                          *)

\* Mutant: a terminating session may be replaced, and a pending teardown is not looked at.
MayCreateAnytime == ~fenced /\ (live => terminating)

\* No session, and nobody tears one down.
MayCreate == ~fenced /\ sweep = NoSweep /\ ~live

Create(isAgent, waits, command) ==
  /\ MayCreate /\ gen < MaxShells /\ (command => inputs < MaxInputs)
  /\ live' = TRUE
  /\ gen' = gen + 1
  /\ child' = [child EXCEPT ![gen'] = "running"]
  /\ agent' = isAgent
  /\ shell' = IF waits THEN "pending" ELSE "unsupported"
  /\ gate' = "off"
  /\ inputs' = IF command THEN inputs + 1 ELSE inputs
  /\ queue' = IF command /\ waits THEN <<inputs'>> ELSE <<>>
  /\ received' = IF command /\ ~waits THEN <<inputs'>> ELSE <<>>
  /\ Release
  /\ terminating' = FALSE /\ killTimer' = 0 /\ forceSent' = FALSE
  /\ UNCHANGED <<signalled, sweep, stop, fenced, pauses, failures>>

\* A live session is handed to the new client; its old client's pause is lifted.
Attach ==
  /\ ~fenced /\ live /\ ~terminating /\ sweep = NoSweep
  /\ Release
  /\ UNCHANGED <<live, process, agent, input, ending, sweep, stop, fenced, bounds>>

-----------------------------------------------------------------------------
(* Ending a shell.                                                          *)

\* The system takes a signal, or refuses it.
Signalled(g, signal, sent) ==
  IF sent
  THEN /\ signalled' = [signalled EXCEPT ![g] = IF @ = "kill" THEN @ ELSE signal]
       /\ UNCHANGED failures
  ELSE /\ failures < MaxFailures /\ failures' = failures + 1
       /\ UNCHANGED signalled

\* signalTerminationRoot: a refused signal reopens the session.
SignalRoot(g, timer, sent) ==
  /\ Signalled(g, "hangup", sent)
  /\ terminating' = sent /\ killTimer' = IF sent THEN timer ELSE 0

\* requestForceKill: once it was sent, there is nothing more to do.
RequestForceKill(sent) ==
  \/ forceSent /\ sent /\ UNCHANGED <<signalled, forceSent, failures>>
  \/ ~forceSent /\ Signalled(gen, "kill", sent) /\ forceSent' = sent

Settled(s, pc) == [stop EXCEPT ![s].pc = pc]

\* forceKillAndWaitForExit, for s.
ForceKillAndWait(s) ==
  /\ terminating' = TRUE
  /\ \E sent \in BOOLEAN :
       /\ RequestForceKill(sent)
       /\ stop' = [stop EXCEPT ![s] = [pc |-> IF sent THEN "wait" ELSE "retry", gen |-> gen]]
  /\ UNCHANGED killTimer

ReleaseOnce == IF terminating THEN UNCHANGED flow ELSE Release

\* The graceful kill of a shell: signalled at once, forced after five seconds.
KillShell ==
  /\ live /\ ~agent /\ ~terminating /\ sweep = NoSweep
  /\ \E sent \in BOOLEAN : SignalRoot(gen, KillAttempts, sent)
  /\ Release
  /\ UNCHANGED <<live, gen, child, agent, input, forceSent, sweep, stop, fenced, inputs, pauses>>

\* The graceful kill of an agent: its descendants are looked up first.
KillAgent ==
  /\ live /\ agent /\ ~terminating /\ sweep = NoSweep
  /\ terminating' = TRUE /\ killTimer' = KillAttempts /\ Release
  /\ sweep' = [pc |-> "capture", immediate |-> FALSE, gen |-> gen]
  /\ UNCHANGED <<live, process, agent, input, forceSent, stop, fenced, bounds>>

\* Mutant: an immediate request that joins a graceful one leaves it graceful.
JoinGracefully == sweep.pc = "capture" /\ UNCHANGED sweep

\* requestImmediate: the pending operation becomes immediate.
JoinImmediate == sweep.pc = "capture" /\ sweep' = [sweep EXCEPT !.immediate = TRUE]

\* kill with immediate, of a session whose teardown is pending.
KillJoins ==
  /\ stop["user"].pc = "none"
  /\ JoinImmediate
  /\ stop' = [stop EXCEPT !["user"] = [pc |-> "joined", gen |-> sweep.gen]]
  /\ UNCHANGED <<live, process, agent, input, flow, ending, fenced, bounds>>

\* kill with immediate, of an agent that is not terminating.
KillAgentNow ==
  /\ live /\ agent /\ ~terminating /\ sweep = NoSweep /\ stop["user"].pc = "none"
  /\ terminating' = TRUE /\ Release
  /\ sweep' = [pc |-> "capture", immediate |-> TRUE, gen |-> gen]
  /\ stop' = [stop EXCEPT !["user"] = [pc |-> "joined", gen |-> gen]]
  /\ UNCHANGED <<live, process, agent, input, killTimer, forceSent, fenced, bounds>>

\* kill with immediate, of any other session.
KillNow ==
  /\ live /\ (agent => terminating) /\ sweep = NoSweep /\ stop["user"].pc = "none"
  /\ ForceKillAndWait("user")
  /\ ReleaseOnce
  /\ UNCHANGED <<live, gen, child, agent, input, sweep, fenced, inputs, pauses>>

\* Does the operation's session still own its root?
OwnsRoot == live /\ gen = sweep.gen

\* Whoever joined the operation gets its outcome.
Joined(pc) == IF stop["user"].pc = "joined" THEN Settled("user", pc) ELSE stop

\* Mutant: the root is signalled whether or not its session lives.
SweepSignalsAnyway(sent) ==
  /\ sweep.pc = "capture" /\ ~sweep.immediate
  /\ SignalRoot(sweep.gen, killTimer, sent)
  /\ sweep' = NoSweep /\ stop' = Joined(IF sent THEN "acked" ELSE "failed")
  /\ UNCHANGED <<live, gen, child, agent, input, flow, forceSent, fenced, inputs, pauses>>

\* The descendants are known and the root is still there: a graceful operation ends with the
\* signal ...
SweepSignals(sent) ==
  /\ sweep.pc = "capture" /\ ~sweep.immediate /\ OwnsRoot
  /\ SignalRoot(gen, killTimer, sent)
  /\ sweep' = NoSweep /\ stop' = Joined(IF sent THEN "acked" ELSE "failed")
  /\ UNCHANGED <<live, gen, child, agent, input, flow, forceSent, fenced, inputs, pauses>>

\* ... an immediate one with the physical exit.
SweepForces ==
  /\ sweep.pc = "capture" /\ sweep.immediate /\ OwnsRoot
  /\ ForceKillAndWait("user") /\ sweep' = [sweep EXCEPT !.pc = "exit"]
  /\ UNCHANGED <<live, gen, child, agent, input, flow, fenced, inputs, pauses>>

\* The root went while its descendants were looked up.
SweepEnds ==
  /\ sweep.pc = "capture" /\ ~OwnsRoot
  /\ sweep' = NoSweep /\ stop' = Joined("acked")
  /\ UNCHANGED <<live, process, agent, input, flow, ending, fenced, bounds>>

-----------------------------------------------------------------------------
(* Waiting for the exit.                                                    *)

\* An immediate operation ends with the wait it stands for.
SweepAfter(s) == IF s = "user" /\ sweep.pc = "exit" THEN NoSweep ELSE sweep

\* requestForceKillWithRetry, 250 ms after a refused attempt: the second is the last.
RetryForceKill(s, sent) ==
  /\ live /\ stop[s].pc = "retry"
  /\ RequestForceKill(sent)
  /\ stop' = Settled(s, IF sent THEN "wait" ELSE "failed")
  /\ sweep' = IF sent THEN sweep ELSE SweepAfter(s)
  /\ UNCHANGED <<live, gen, child, agent, input, flow, terminating, killTimer, fenced, inputs,
                 pauses>>

\* waitForPhysicalExit gives up; the kill was sent all the same.
WaitTimesOut(s) ==
  /\ stop[s].pc = "wait"
  /\ stop' = Settled(s, "failed")
  /\ sweep' = SweepAfter(s)
  /\ UNCHANGED <<live, process, agent, input, flow, ending, fenced, bounds>>

\* The caller has its answer.
Answered ==
  /\ stop["user"].pc \in {"acked", "failed"}
  /\ stop' = [stop EXCEPT !["user"] = NoStop]
  /\ UNCHANGED <<live, process, agent, input, flow, ending, sweep, fenced, bounds>>

\* Mutant: the timer fires once.
KillTimerFiresOnce(sent) ==
  /\ killTimer # 0
  /\ RequestForceKill(sent)
  /\ killTimer' = 0
  /\ UNCHANGED <<live, gen, child, agent, input, flow, terminating, sweep, stop, fenced, inputs,
                 pauses>>

\* armForceKillFallback: a refused attempt is repeated once.
KillTimerFires(sent) ==
  /\ killTimer # 0
  /\ RequestForceKill(sent)
  /\ killTimer' = IF sent THEN 0 ELSE killTimer - 1
  /\ UNCHANGED <<live, gen, child, agent, input, flow, terminating, sweep, stop, fenced, inputs,
                 pauses>>

\* The process ends, by itself or by a signal.
ChildExits ==
  /\ live /\ child[gen] = "running"
  /\ child' = [child EXCEPT ![gen] = "dead"]
  /\ UNCHANGED <<live, gen, signalled, agent, input, flow, ending, sweep, stop, fenced, bounds>>

\* handleSubprocessExit and reapSession.
ExitReported ==
  /\ live /\ child[gen] = "dead"
  /\ live' = FALSE
  /\ child' = [child EXCEPT ![gen] = "gone"]
  /\ queue' = <<>> /\ gate' = "off"
  /\ Release /\ terminating' = FALSE /\ killTimer' = 0
  /\ stop' = [s \in Stoppers |-> IF stop[s].pc \in {"wait", "retry"}
                                   THEN [stop[s] EXCEPT !.pc = "acked"] ELSE stop[s]]
  /\ sweep' = IF sweep.pc = "exit" THEN NoSweep ELSE sweep
  /\ UNCHANGED <<gen, signalled, agent, shell, received, forceSent, fenced, bounds>>

\* TerminalHost.dispose: no session is created from now on, and the live one is ended.
\* A shutdown that failed may be asked for again.
Shutdown ==
  /\ stop["shutdown"].pc \in {"none", "failed"}
  /\ fenced' = TRUE
  /\ IF live
     THEN /\ ForceKillAndWait("shutdown") /\ Release
          /\ UNCHANGED <<gen, child>>
     ELSE /\ stop' = Settled("shutdown", "acked")
          /\ UNCHANGED <<process, flow, ending, failures>>
  /\ UNCHANGED <<live, agent, input, sweep, inputs, pauses>>

-----------------------------------------------------------------------------
SessionInit ==
  /\ live = FALSE /\ gen = 0
  /\ child = [g \in Shells |-> "unborn"] /\ signalled = [g \in Shells |-> "none"]
  /\ agent = FALSE /\ shell = "unsupported" /\ gate = "off" /\ queue = <<>> /\ received = <<>>
  /\ paused = FALSE /\ failsafe = FALSE /\ terminating = FALSE /\ killTimer = 0 /\ forceSent = FALSE
  /\ sweep = NoSweep /\ stop = [s \in Stoppers |-> NoStop] /\ fenced = FALSE
  /\ inputs = 0 /\ pauses = 0 /\ failures = 0

SweepStep == (\E sent \in BOOLEAN : SweepSignals(sent)) \/ SweepForces \/ SweepEnds

Retry(s) == \E sent \in BOOLEAN : RetryForceKill(s, sent)
KillTimer == \E sent \in BOOLEAN : KillTimerFires(sent)

SessionNext ==
  \/ Write \/ \E more \in BOOLEAN : Marker(more)
  \/ PromptDrawn \/ GateFires \/ ReadyTimeout
  \/ Pause \/ Resume \/ FailsafeFires
  \/ \E isAgent, waits, command \in BOOLEAN : Create(isAgent, waits, command)
  \/ Attach
  \/ KillShell \/ KillAgent \/ KillJoins \/ KillAgentNow \/ KillNow
  \/ SweepStep
  \/ \E s \in Stoppers : Retry(s) \/ WaitTimesOut(s)
  \/ Answered \/ KillTimer \/ ChildExits \/ ExitReported \/ Shutdown

SessionSpec == SessionInit /\ [][SessionNext]_sessionVars

\* Timers fire and events are delivered; a process that was killed ends.
SessionFairness ==
  /\ WF_sessionVars(GateFires) /\ WF_sessionVars(ReadyTimeout)
  /\ WF_sessionVars(FailsafeFires)
  /\ WF_sessionVars(SweepStep)
  /\ WF_sessionVars(KillTimer)
  /\ \A s \in Stoppers : WF_sessionVars(Retry(s))
  /\ WF_sessionVars(ChildExits /\ signalled[gen] = "kill")
  /\ WF_sessionVars(ExitReported)

FairSessionSpec == SessionSpec /\ SessionFairness

-----------------------------------------------------------------------------
(* Properties.                                                              *)

\* The shape of the state; a timer, a queue or a kill is pending for a live shell alone, and the
\* gate is armed once the shell is ready and has something to flush.
SessionTypeOK ==
  /\ {live, agent, paused, failsafe, terminating, forceSent, fenced} \subseteq BOOLEAN
  /\ gen \in 0 .. MaxShells
  /\ child \in [Shells -> {"unborn", "running", "dead", "gone"}]
  /\ signalled \in [Shells -> {"none", "hangup", "kill"}]
  /\ shell \in {"unsupported", "pending", "ready", "timed_out"}
  /\ gate \in {"off", "prompt", "settle"}
  /\ queue \in Seq(1 .. MaxInputs) /\ received \in Seq(1 .. MaxInputs)
  /\ killTimer \in 0 .. KillAttempts
  /\ sweep \in [pc : {"none", "capture", "exit"}, immediate : BOOLEAN, gen : 0 .. MaxShells]
  /\ stop \in [Stoppers -> [pc : {"none", "joined", "retry", "wait", "acked", "failed"},
                             gen : 0 .. MaxShells]]
  /\ ~live => queue = <<>> /\ gate = "off" /\ ~paused /\ killTimer = 0
  /\ gate # "off" => shell = "ready" /\ queue # <<>>
  /\ queue # <<>> => shell = "pending" \/ gate # "off"

\* One id never hides two shells: every process but the session's own is gone, however kills,
\* refused signals, exits and new requests for the id fall together (createOrAttach).
OneShell ==
  \A g \in Shells : child[g] \in {"running", "dead"} => live /\ g = gen

\* A kill that was asked to be immediate, or the shutdown of the daemon, is acknowledged only
\* once the process is gone: an immediate request that joins a graceful teardown does not take
\* the graceful signal for an answer, and no shell is born behind a finished shutdown.
AckedKillIsDone ==
  /\ \A s \in Stoppers : stop[s].pc = "acked" /\ stop[s].gen # 0 => child[stop[s].gen] = "gone"
  /\ stop["shutdown"].pc = "acked" => \A g \in Shells : child[g] \in {"unborn", "gone"}

\* No signal is addressed to a process that was reaped: its number may be another's by now.
NoStaleSignal ==
  [][\A g \in Shells : signalled'[g] # signalled[g] => child[g] \in {"running", "dead"}]_sessionVars

\* The input of a session is the channel of InputChannel: in order, once, nothing passes the
\* queue, nothing is discarded before the shell ends.
Channel == INSTANCE InputChannel
             WITH Input <- 1 .. MaxInputs, open <- live, waiting <- queue, received <- received
InputIsFifo == Channel!ChannelSpec

\* Nothing is held for ever: queued input is written, or its shell ends, whether or not the shell
\* says that it is ready; a paused producer goes on, though the client's resume may be lost.
HeldIsReleased == []<>(queue = <<>>) /\ []<>~paused

\* A session that was told to end ends, or is open again: a signal the system refuses once does
\* not leave a session that can neither be used nor be ended.
KilledShellEnds == []<>~terminating

=============================================================================
