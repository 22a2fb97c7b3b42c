-------------------------- MODULE DaemonSessionProofs --------------------------
(***************************************************************************)
(* Theorems about DaemonSession, for every number of shells, inputs,       *)
(* pauses and refused signals.                                             *)
(***************************************************************************)
EXTENDS DaemonSession, SequenceTheorems, TLAPS

(***************************************************************************)
(* The input.                                                              *)
(***************************************************************************)

\* The input variables have their types, a queue waits for a live shell alone, and the gate is
\* armed once the shell is ready and has something to flush.
InputInv ==
  /\ live \in BOOLEAN
  /\ shell \in {"unsupported", "pending", "ready", "timed_out"}
  /\ gate \in {"off", "prompt", "settle"}
  /\ queue \in Seq(1 .. MaxInputs) /\ received \in Seq(1 .. MaxInputs)
  /\ inputs \in 0 .. MaxInputs
  /\ ~live => queue = <<>> /\ gate = "off"
  /\ gate # "off" => shell = "ready" /\ queue # <<>>
  /\ queue # <<>> => shell = "pending" \/ gate # "off"

ChannelStep == Channel!ChannelNext \/ UNCHANGED <<live, queue, received>>

\* The steps that do not touch the input.
OtherSessionStep ==
  \/ Pause \/ Resume \/ FailsafeFires \/ Attach
  \/ KillShell \/ KillAgent \/ KillJoins \/ KillAgentNow \/ KillNow
  \/ SweepStep
  \/ \E s \in Stoppers : Retry(s) \/ WaitTimesOut(s)
  \/ Answered \/ KillTimer \/ ChildExits \/ Shutdown

\* Flow control, kills and their waits leave the input alone.
LEMMA InputUntouched ==
  ASSUME OtherSessionStep
  PROVE  UNCHANGED <<live, input, inputs>>
<1>1. CASE Pause \/ Resume \/ FailsafeFires \/ Attach \/ Answered \/ ChildExits
  BY <1>1 DEF Pause, Resume, FailsafeFires, Attach, Answered, ChildExits, input, bounds
<1>2. CASE KillShell \/ KillAgent \/ KillJoins \/ KillAgentNow \/ KillNow
  BY <1>2 DEF KillShell, KillAgent, KillJoins, KillAgentNow, KillNow, input, bounds
<1>3. CASE SweepStep
  BY <1>3 DEF SweepStep, SweepSignals, SweepForces, SweepEnds, input, bounds
<1>4. CASE KillTimer \/ Shutdown
  BY <1>4 DEF KillTimer, KillTimerFires, Shutdown, input, bounds
<1>5. CASE \E s \in Stoppers : Retry(s) \/ WaitTimesOut(s)
  BY <1>5 DEF Retry, RetryForceKill, WaitTimesOut, input, bounds
<1> QED
  BY <1>1, <1>2, <1>3, <1>4, <1>5 DEF OtherSessionStep

\* Input is written or queued: it passes the queue only when nothing waits.
LEMMA WriteKeepsInput ==
  ASSUME InputInv, Write
  PROVE  InputInv' /\ Channel!ChannelNext
<1>1. inputs' \in 1 .. MaxInputs /\ inputs' \in 0 .. MaxInputs /\ live /\ live' = live
  BY SessionAssumption DEF InputInv, Write
<1>2. CASE Held
  <2>1. queue' = Append(queue, inputs') /\ UNCHANGED <<received, shell, gate>>
    BY <1>2 DEF Write
  <2>2. queue' \in Seq(1 .. MaxInputs) /\ queue' # <<>>
    BY <1>1, <2>1, AppendProperties DEF InputInv
  <2>3. InputInv'
    BY <1>1, <1>2, <2>1, <2>2 DEF InputInv, Held
  <2>4. Channel!Accept
    BY <1>1, <2>1 DEF Channel!Accept
  <2> QED
    BY <2>3, <2>4 DEF Channel!ChannelNext
<1>3. CASE ~Held
  <2>1. received' = Append(received, inputs') /\ UNCHANGED <<queue, shell, gate>>
    BY <1>3 DEF Write
  <2>2. received' \in Seq(1 .. MaxInputs) /\ queue = <<>>
    BY <1>1, <1>3, <2>1, AppendProperties DEF InputInv, Held
  <2>3. InputInv'
    BY <1>1, <2>1, <2>2 DEF InputInv
  <2>4. Channel!Accept
    BY <1>1, <2>1, <2>2 DEF Channel!Accept
  <2> QED
    BY <2>3, <2>4 DEF Channel!ChannelNext
<1> QED
  BY <1>2, <1>3

\* The queue is flushed, by the gate or by the timeout.
LEMMA FlushKeepsInput ==
  ASSUME InputInv, GateFires \/ ReadyTimeout
  PROVE  InputInv' /\ ChannelStep
<1>1. /\ received' = received \o queue /\ queue' = <<>> /\ UNCHANGED <<live, inputs>> /\ live
      /\ gate' \in {"off", gate} /\ gate' \in {"off", "prompt", "settle"}
      /\ shell' \in {"unsupported", "pending", "ready", "timed_out"}
  BY DEF InputInv, GateFires, ReadyTimeout, Flush, bounds
<1>2. gate' = "off"
  BY DEF InputInv, GateFires, ReadyTimeout
<1>3. queue' \in Seq(1 .. MaxInputs) /\ received' \in Seq(1 .. MaxInputs)
  BY <1>1, EmptySeq, ConcatProperties DEF InputInv
<1>4. InputInv'
  BY <1>1, <1>2, <1>3 DEF InputInv
<1>5. CASE queue # <<>>
  <2>1. Channel!Deliver
    BY <1>1, <1>5 DEF Channel!Deliver
  <2> QED
    BY <1>4, <2>1 DEF ChannelStep, Channel!ChannelNext
<1>6. CASE queue = <<>>
  BY <1>1, <1>4, <1>6, ConcatEmptySeq DEF ChannelStep, InputInv
<1> QED
  BY <1>5, <1>6

\* The gate is armed or shortened, which writes nothing.
LEMMA GateKeepsInput ==
  ASSUME InputInv, PromptDrawn \/ \E more \in BOOLEAN : Marker(more)
  PROVE  InputInv' /\ ChannelStep
<1>1. CASE PromptDrawn
  BY <1>1 DEF InputInv, PromptDrawn, ChannelStep, bounds
<1>2. ASSUME NEW more \in BOOLEAN, Marker(more)
      PROVE  InputInv' /\ ChannelStep
  <2>1. /\ UNCHANGED <<live, queue, received, inputs>> /\ live /\ shell' = "ready"
        /\ gate' \in {"off", "prompt", "settle"} /\ (gate' = "off" <=> queue = <<>>)
    BY <1>2 DEF Marker, bounds
  <2> QED
    BY <2>1 DEF InputInv, ChannelStep
<1> QED
  BY <1>1, <1>2

\* A shell starts with its first command, or with none.
LEMMA CreateKeepsInput ==
  ASSUME InputInv, NEW isAgent \in BOOLEAN, NEW waits \in BOOLEAN, NEW command \in BOOLEAN,
         Create(isAgent, waits, command)
  PROVE  InputInv' /\ Channel!ChannelNext
<1>1. /\ ~live /\ live' = TRUE /\ gate' = "off"
      /\ shell' = IF waits THEN "pending" ELSE "unsupported"
      /\ inputs' = IF command THEN inputs + 1 ELSE inputs
      /\ command => inputs < MaxInputs
      /\ queue' = IF command /\ waits THEN <<inputs'>> ELSE <<>>
      /\ received' = IF command /\ ~waits THEN <<inputs'>> ELSE <<>>
  BY DEF Create, MayCreate
<1>2. inputs' \in 0 .. MaxInputs /\ (command => inputs' \in 1 .. MaxInputs)
  BY <1>1, SessionAssumption DEF InputInv
<1>3. <<>> \in Seq(1 .. MaxInputs) /\ (command => <<inputs'>> \in Seq(1 .. MaxInputs))
  BY <1>2
<1>4. <<inputs'>> # <<>>
  OBVIOUS
<1>5. InputInv'
  BY <1>1, <1>2, <1>3, <1>4 DEF InputInv
<1>6. Channel!Open
  <2>1. CASE command
    BY <1>1, <1>2, <2>1 DEF Channel!Open
  <2>2. CASE ~command
    BY <1>1, <2>2 DEF Channel!Open
  <2> QED
    BY <2>1, <2>2
<1> QED
  BY <1>5, <1>6 DEF Channel!ChannelNext

\* The end of a shell discards what waits.
LEMMA ExitKeepsInput ==
  ASSUME InputInv, ExitReported
  PROVE  InputInv' /\ Channel!ChannelNext
<1>1. /\ live /\ live' = FALSE /\ queue' = <<>> /\ gate' = "off"
      /\ UNCHANGED <<shell, received, inputs>>
  BY DEF ExitReported, bounds
<1>2. InputInv'
  BY <1>1, EmptySeq DEF InputInv
<1>3. Channel!Close
  BY <1>1 DEF Channel!Close
<1> QED
  BY <1>2, <1>3 DEF Channel!ChannelNext

\* Every step of a session is a step of the channel, or none.
LEMMA StepKeepsInput ==
  ASSUME InputInv, [SessionNext]_sessionVars
  PROVE  InputInv' /\ ChannelStep
<1>1. CASE OtherSessionStep \/ UNCHANGED sessionVars
  <2>1. UNCHANGED <<live, input, inputs>>
    BY <1>1, InputUntouched DEF sessionVars, bounds
  <2> QED
    BY <2>1 DEF InputInv, ChannelStep, input
<1>2. CASE Write
  BY <1>2, WriteKeepsInput DEF ChannelStep
<1>3. CASE GateFires \/ ReadyTimeout
  BY <1>3, FlushKeepsInput
<1>4. CASE PromptDrawn \/ \E more \in BOOLEAN : Marker(more)
  BY <1>4, GateKeepsInput
<1>5. CASE \E isAgent, waits, command \in BOOLEAN : Create(isAgent, waits, command)
  BY <1>5, CreateKeepsInput DEF ChannelStep
<1>6. CASE ExitReported
  BY <1>6, ExitKeepsInput DEF ChannelStep
<1> QED
  BY <1>1, <1>2, <1>3, <1>4, <1>5, <1>6 DEF SessionNext, OtherSessionStep

\* A session starts with an empty, closed channel.
LEMMA InputInitially == SessionInit => InputInv /\ Channel!ChannelInit
<1>1. <<>> \in Seq(1 .. MaxInputs)
  BY EmptySeq
<1>2. 0 \in 0 .. MaxInputs
  BY SessionAssumption
<1> QED
  BY <1>1, <1>2 DEF SessionInit, InputInv, Channel!ChannelInit

\* What waits, waits for the gate of a live shell: the gate is never off, with the shell
\* ready, while input is queued (write, handleSubprocessData and the flushes of session.ts).
THEOREM InputInvariant == SessionSpec => []InputInv
<1>1. SessionInit => InputInv
  BY InputInitially
<1>2. InputInv /\ [SessionNext]_sessionVars => InputInv'
  BY StepKeepsInput
<1> QED
  BY <1>1, <1>2, PTL DEF SessionSpec

\* The session implements the channel of InputChannel, whatever readiness, timeouts, kills and
\* exits do: input reaches the shell in order and once, and only its end discards what waits.
THEOREM SessionImplementsChannel == SessionSpec => InputIsFifo
<1>1. SessionInit => Channel!ChannelInit
  BY InputInitially
<1>2. InputInv /\ [SessionNext]_sessionVars => [Channel!ChannelNext]_(Channel!channelVars)
  BY StepKeepsInput DEF ChannelStep, Channel!channelVars
<1> QED
  BY <1>1, <1>2, InputInvariant, PTL DEF SessionSpec, InputIsFifo, Channel!ChannelSpec

(***************************************************************************)
(* The process.                                                            *)
(***************************************************************************)

Signals == [Shells -> {"none", "hangup", "kill"}]

\* The shells before the session's own are gone, those after it unborn; a live session has a
\* process that was not reaped, and only a live one has a kill timer.
ProcessInv ==
  /\ gen \in 0 .. MaxShells
  /\ child \in [Shells -> {"unborn", "running", "dead", "gone"}]
  /\ signalled \in Signals
  /\ killTimer \in 0 .. KillAttempts /\ (~live => killTimer = 0)
  /\ live => gen \in Shells /\ child[gen] \in {"running", "dead"}
  /\ \A g \in Shells :
       /\ g < gen \/ (g = gen /\ ~live) => child[g] = "gone"
       /\ g > gen => child[g] = "unborn"

\* A signal goes to the process of the live session, or none is sent.
SignalsRoot == \A g \in Shells : signalled'[g] # signalled[g] => live /\ g = gen

\* One signal, taken or refused, changes at most what the addressed process got.
LEMMA SignalledRoot ==
  ASSUME signalled \in Signals, NEW signal \in {"hangup", "kill"}, NEW sent,
         Signalled(gen, signal, sent)
  PROVE  signalled' \in Signals /\ \A g \in Shells : signalled'[g] # signalled[g] => g = gen
<1>1. CASE sent
  BY <1>1 DEF Signalled, Signals
<1>2. CASE ~sent
  BY <1>2 DEF Signalled
<1> QED
  BY <1>1, <1>2

\* A forced kill addresses the session's own process.
LEMMA ForcedRoot ==
  ASSUME signalled \in Signals, NEW sent, RequestForceKill(sent)
  PROVE  signalled' \in Signals /\ \A g \in Shells : signalled'[g] # signalled[g] => g = gen
<1>1. CASE UNCHANGED signalled
  BY <1>1
<1>2. CASE Signalled(gen, "kill", sent)
  BY <1>2, SignalledRoot
<1> QED
  BY <1>1, <1>2 DEF RequestForceKill

\* The armed timer counts down within its attempts.
LEMMA OneAttemptLess == \A n \in 0 .. KillAttempts : n # 0 => n - 1 \in 0 .. KillAttempts
  BY DEF KillAttempts

\* The steps that end a shell signal its process and no other.
LEMMA EndingSignalsRoot ==
  ASSUME ProcessInv, OtherSessionStep, ~ChildExits
  PROVE  /\ SignalsRoot /\ signalled' \in Signals /\ UNCHANGED <<live, gen, child>>
         /\ killTimer' \in 0 .. KillAttempts /\ (~live => killTimer' = 0)
<1>1. KillAttempts \in 0 .. KillAttempts /\ 0 \in 0 .. KillAttempts
  BY DEF KillAttempts
<1> USE DEF process, ending
<1>2. CASE Pause \/ Resume \/ FailsafeFires \/ Attach \/ Answered
  BY <1>2 DEF ProcessInv, SignalsRoot, Pause, Resume, FailsafeFires, Attach, Answered
<1>3. CASE KillAgent \/ KillJoins \/ KillAgentNow
  BY <1>1, <1>3 DEF ProcessInv, SignalsRoot, KillAgent, KillJoins, KillAgentNow
<1>4. CASE KillShell
  <2>1. PICK sent \in BOOLEAN : SignalRoot(gen, KillAttempts, sent)
    BY <1>4 DEF KillShell
  <2>2. live /\ UNCHANGED <<live, gen, child>>
    BY <1>4 DEF KillShell
  <2>3. killTimer' \in 0 .. KillAttempts
    BY <1>1, <2>1 DEF SignalRoot
  <2>4. signalled' \in Signals /\ \A g \in Shells : signalled'[g] # signalled[g] => g = gen
    BY <2>1, SignalledRoot DEF SignalRoot, ProcessInv
  <2> QED
    BY <2>2, <2>3, <2>4 DEF SignalsRoot
<1>5. CASE KillNow \/ SweepForces
  <2>1. live /\ UNCHANGED <<live, gen, child, killTimer>>
    BY <1>5 DEF KillNow, SweepForces, ForceKillAndWait, OwnsRoot
  <2>2. PICK sent \in BOOLEAN : RequestForceKill(sent)
    BY <1>5 DEF KillNow, SweepForces, ForceKillAndWait
  <2>3. signalled' \in Signals /\ \A g \in Shells : signalled'[g] # signalled[g] => g = gen
    BY <2>2, ForcedRoot DEF ProcessInv
  <2> QED
    BY <2>1, <2>3 DEF SignalsRoot, ProcessInv
<1>6. CASE \E sent \in BOOLEAN : SweepSignals(sent)
  <2>1. PICK sent \in BOOLEAN : SweepSignals(sent)
    BY <1>6
  <2>2. live /\ UNCHANGED <<live, gen, child>> /\ SignalRoot(gen, killTimer, sent)
    BY <2>1 DEF SweepSignals, OwnsRoot
  <2>3. killTimer' \in 0 .. KillAttempts
    BY <1>1, <2>2 DEF SignalRoot, ProcessInv
  <2>4. signalled' \in Signals /\ \A g \in Shells : signalled'[g] # signalled[g] => g = gen
    BY <2>2, SignalledRoot DEF SignalRoot, ProcessInv
  <2> QED
    BY <2>2, <2>3, <2>4 DEF SignalsRoot
<1>7. CASE SweepEnds \/ \E s \in Stoppers : WaitTimesOut(s)
  BY <1>7 DEF ProcessInv, SignalsRoot, SweepEnds, WaitTimesOut
<1>8. CASE \E s \in Stoppers : Retry(s)
  <2>1. PICK s \in Stoppers, sent \in BOOLEAN : RetryForceKill(s, sent)
    BY <1>8 DEF Retry
  <2>2. live /\ UNCHANGED <<live, gen, child, killTimer>> /\ RequestForceKill(sent)
    BY <2>1 DEF RetryForceKill
  <2>3. signalled' \in Signals /\ \A g \in Shells : signalled'[g] # signalled[g] => g = gen
    BY <2>2, ForcedRoot DEF ProcessInv
  <2> QED
    BY <2>2, <2>3 DEF SignalsRoot, ProcessInv
<1>9. CASE KillTimer
  <2>1. PICK sent \in BOOLEAN : KillTimerFires(sent)
    BY <1>9 DEF KillTimer
  <2>2. /\ UNCHANGED <<live, gen, child>> /\ RequestForceKill(sent) /\ killTimer # 0
        /\ killTimer' = IF sent THEN 0 ELSE killTimer - 1
    BY <2>1 DEF KillTimerFires
  <2>3. killTimer' \in 0 .. KillAttempts /\ live
    BY <1>1, <2>2, OneAttemptLess DEF ProcessInv
  <2>4. signalled' \in Signals /\ \A g \in Shells : signalled'[g] # signalled[g] => g = gen
    BY <2>2, ForcedRoot DEF ProcessInv
  <2> QED
    BY <2>2, <2>3, <2>4 DEF SignalsRoot
<1>10. CASE Shutdown
  <2>1. CASE live
    <3>1. UNCHANGED <<live, gen, child, killTimer>>
      BY <1>10, <2>1 DEF Shutdown, ForceKillAndWait
    <3>2. PICK sent \in BOOLEAN : RequestForceKill(sent)
      BY <1>10, <2>1 DEF Shutdown, ForceKillAndWait
    <3>3. signalled' \in Signals /\ \A g \in Shells : signalled'[g] # signalled[g] => g = gen
      BY <3>2, ForcedRoot DEF ProcessInv
    <3> QED
      BY <2>1, <3>1, <3>3 DEF SignalsRoot, ProcessInv
  <2>2. CASE ~live
    BY <1>10, <2>2 DEF Shutdown, SignalsRoot, ProcessInv
  <2> QED
    BY <2>1, <2>2
<1> QED
  BY <1>2, <1>3, <1>4, <1>5, <1>6, <1>7, <1>8, <1>9, <1>10 DEF OtherSessionStep, SweepStep

\* The steps of the input leave the process alone.
InputStep ==
  \/ Write \/ GateFires \/ ReadyTimeout \/ PromptDrawn
  \/ \E more \in BOOLEAN : Marker(more)

\* Input leaves the process and its ending alone.
LEMMA ProcessUntouched ==
  ASSUME InputStep
  PROVE  UNCHANGED <<live, process, agent, flow, ending, sweep, stop, fenced>>
  BY DEF InputStep, Write, GateFires, ReadyTimeout, PromptDrawn, Marker

\* Every step keeps the process invariant and signals the root alone.
LEMMA StepKeepsProcess ==
  ASSUME ProcessInv, [SessionNext]_sessionVars
  PROVE  ProcessInv' /\ SignalsRoot
<1>1. CASE InputStep \/ UNCHANGED sessionVars
  <2>1. UNCHANGED <<live, process, ending>>
    BY <1>1, ProcessUntouched DEF sessionVars
  <2> QED
    BY <2>1 DEF ProcessInv, SignalsRoot, process, ending
<1>2. CASE OtherSessionStep /\ ~ChildExits
  BY <1>2, EndingSignalsRoot DEF ProcessInv
<1>3. CASE ChildExits
  <2>1. /\ live /\ child' = [child EXCEPT ![gen] = "dead"]
        /\ UNCHANGED <<live, gen, signalled, killTimer>>
    BY <1>3 DEF ChildExits, ending
  <2> QED
    BY <2>1 DEF ProcessInv, SignalsRoot
<1>4. CASE ExitReported
  <2>1. /\ live /\ live' = FALSE /\ child' = [child EXCEPT ![gen] = "gone"]
        /\ killTimer' = 0 /\ UNCHANGED <<gen, signalled>>
    BY <1>4 DEF ExitReported
  <2>2. 0 \in 0 .. KillAttempts
    BY DEF KillAttempts
  <2> QED
    BY <2>1, <2>2 DEF ProcessInv, SignalsRoot
<1>5. CASE \E isAgent, waits, command \in BOOLEAN : Create(isAgent, waits, command)
  <2>1. /\ ~live /\ gen < MaxShells /\ live' = TRUE /\ gen' = gen + 1
        /\ child' = [child EXCEPT ![gen'] = "running"] /\ killTimer' = 0
        /\ UNCHANGED signalled
    BY <1>5 DEF Create, MayCreate
  <2>2. 0 \in 0 .. KillAttempts /\ MaxShells \in Nat
    BY SessionAssumption DEF KillAttempts
  <2>3. gen' \in 0 .. MaxShells /\ gen' \in Shells
    BY <2>1, <2>2 DEF ProcessInv, Shells
  <2>4. child' \in [Shells -> {"unborn", "running", "dead", "gone"}] /\ child'[gen'] = "running"
    BY <2>1, <2>3 DEF ProcessInv
  <2>5. ASSUME NEW g \in Shells
        PROVE  (g < gen' => child'[g] = "gone") /\ (g > gen' => child'[g] = "unborn")
    BY <2>1, <2>3, <2>5 DEF ProcessInv, Shells
  <2> QED
    BY <2>1, <2>2, <2>3, <2>4, <2>5 DEF ProcessInv, SignalsRoot
<1> QED
  BY <1>1, <1>2, <1>3, <1>4, <1>5 DEF SessionNext, OtherSessionStep, InputStep

\* The process of the live session is the last one started and everything before it is gone;
\* without a live session there is none (createOrAttach, handleSubprocessExit, reapSession).
THEOREM ProcessInvariant == SessionSpec => []ProcessInv
<1>1. SessionInit => ProcessInv
  <2> SUFFICES ASSUME SessionInit
               PROVE  ProcessInv
    OBVIOUS
  <2>1. gen \in 0 .. MaxShells /\ killTimer \in 0 .. KillAttempts
    BY SessionAssumption DEF SessionInit, KillAttempts
  <2> QED
    BY <2>1 DEF SessionInit, ProcessInv, Signals, Shells
<1>2. ProcessInv /\ [SessionNext]_sessionVars => ProcessInv'
  BY StepKeepsProcess
<1> QED
  BY <1>1, <1>2, PTL DEF SessionSpec

\* One id never hides two shells, however often it is used again.
THEOREM OneShellHolds == SessionSpec => []OneShell
<1>1. ProcessInv => OneShell
  BY DEF ProcessInv, OneShell, Shells
<1> QED
  BY <1>1, ProcessInvariant, PTL

\* No signal reaches a process that was reaped: every way to end a shell addresses the process
\* of the live session, which is there until its exit is reported.
THEOREM SignalsAreFresh == SessionSpec => NoStaleSignal
<1> DEFINE Fresh == \A g \in Shells :
                      signalled'[g] # signalled[g] => child[g] \in {"running", "dead"}
<1>1. ProcessInv /\ [SessionNext]_sessionVars => [Fresh]_sessionVars
  BY StepKeepsProcess DEF ProcessInv, SignalsRoot
<1> QED
  BY <1>1, ProcessInvariant, PTL DEF SessionSpec, NoStaleSignal

(***************************************************************************)
(* Waiting for the exit.                                                   *)
(***************************************************************************)

Sweeps == [pc : {"none", "capture", "exit"}, immediate : BOOLEAN, gen : 0 .. MaxShells]
Stops == [Stoppers -> [pc : {"none", "joined", "retry", "wait", "acked", "failed"},
                       gen : 0 .. MaxShells]]

\* Whoever waits for an exit waits for the live shell; whoever joined a teardown joined an
\* immediate one of the session's last shell; an exit that was acknowledged is in the past, and
\* no shell is created once a shutdown began.
WaitInv ==
  /\ sweep \in Sweeps /\ stop \in Stops
  /\ sweep.pc # "none" => sweep.gen = gen
  /\ stop["user"].pc = "joined" =>
       sweep.pc = "capture" /\ sweep.immediate = TRUE /\ stop["user"].gen = gen
  /\ stop["shutdown"].pc # "joined"
  /\ stop["shutdown"].pc \in {"wait", "retry", "acked"} => fenced
  /\ stop["shutdown"].pc = "acked" => ~live
  /\ \A s \in Stoppers :
       /\ stop[s].gen <= gen
       /\ stop[s].pc \in {"wait", "retry"} => live /\ stop[s].gen = gen
       /\ stop[s].pc = "acked" /\ stop[s].gen = gen => ~live

\* Nothing of what the invariant of the waits speaks of changes.
LEMMA WaitInvUntouched ==
  ASSUME WaitInv, UNCHANGED <<live, gen, sweep, stop, fenced>>
  PROVE  WaitInv'
  BY DEF WaitInv

\* A stopper that was answered, or failed, or whose wait goes on.
LEMMA SettledKeeps ==
  ASSUME WaitInv, NEW s \in Stoppers, NEW pc \in {"wait", "failed"},
         stop[s].pc \in {"wait", "retry"}, stop' = Settled(s, pc),
         sweep' \in {sweep, SweepAfter(s)}, UNCHANGED <<live, gen, fenced>>
  PROVE  WaitInv'
<1>1. /\ stop' \in Stops /\ stop'[s].pc = pc /\ stop'[s].gen = stop[s].gen
      /\ \A q \in Stoppers : q # s => stop'[q] = stop[q]
  BY DEF WaitInv, Settled, Stops, Stoppers
<1>2. NoSweep \in Sweeps
  BY SessionAssumption DEF NoSweep, Sweeps
<1>3. sweep' \in Sweeps /\ (sweep' = sweep \/ sweep'.pc = "none")
  <2>1. sweep' = sweep \/ sweep' = NoSweep
    BY DEF SweepAfter
  <2>2. NoSweep.pc = "none"
    BY DEF NoSweep
  <2> QED
    BY <1>2, <2>1, <2>2 DEF WaitInv
<1>4. stop'["user"].pc = "joined" => s # "user" /\ sweep' = sweep
  BY <1>1 DEF SweepAfter, Stoppers, WaitInv
<1> QED
  BY <1>1, <1>3, <1>4 DEF WaitInv, Stoppers

\* A stopper forces the exit of the live shell and waits for it.
LEMMA ForceKillAndWaitKeeps ==
  ASSUME WaitInv, ProcessInv, live, NEW s \in Stoppers, ForceKillAndWait(s),
         sweep' \in Sweeps, sweep'.pc # "none" => sweep'.gen = gen,
         s = "shutdown" => fenced' = TRUE /\ sweep' = sweep, s = "user" => fenced' = fenced,
         UNCHANGED <<live, gen>>
  PROVE  WaitInv'
<1>1. PICK pc \in {"wait", "retry"} : stop' = [stop EXCEPT ![s] = [pc |-> pc, gen |-> gen]]
  BY DEF ForceKillAndWait
<1>2. /\ stop' \in Stops /\ stop'[s] = [pc |-> pc, gen |-> gen]
      /\ \A q \in Stoppers : q # s => stop'[q] = stop[q]
  BY <1>1 DEF WaitInv, ProcessInv, Stops, Stoppers
<1>3. CASE s = "user"
  BY <1>1, <1>2, <1>3 DEF WaitInv, ProcessInv, Stoppers
<1>4. CASE s = "shutdown"
  BY <1>1, <1>2, <1>4 DEF WaitInv, ProcessInv, Stoppers
<1> QED
  BY <1>3, <1>4 DEF Stoppers

\* The kills and their joins.
LEMMA KillKeepsWait ==
  ASSUME WaitInv, ProcessInv, KillAgent \/ KillJoins \/ KillAgentNow \/ KillNow
  PROVE  WaitInv'
<1>1. NoSweep.pc = "none"
  BY DEF NoSweep
<1>2. gen \in 0 .. MaxShells /\ TRUE \in BOOLEAN /\ FALSE \in BOOLEAN
  BY DEF ProcessInv
<1>3. CASE KillAgent
  <2>1. /\ sweep = NoSweep /\ sweep' = [pc |-> "capture", immediate |-> FALSE, gen |-> gen]
        /\ UNCHANGED <<live, gen, stop, fenced>>
    BY <1>3 DEF KillAgent, process
  <2>2. sweep' \in Sweeps
    BY <1>2, <2>1 DEF Sweeps
  <2> QED
    BY <1>1, <2>1, <2>2 DEF WaitInv
<1>4. CASE KillJoins
  <2>1. /\ sweep.pc = "capture" /\ sweep' = [sweep EXCEPT !.immediate = TRUE]
        /\ stop' = [stop EXCEPT !["user"] = [pc |-> "joined", gen |-> sweep.gen]]
        /\ UNCHANGED <<live, gen, fenced>>
    BY <1>4 DEF KillJoins, JoinImmediate, process
  <2>2. /\ sweep' \in Sweeps /\ sweep'.pc = "capture" /\ sweep'.immediate = TRUE
        /\ sweep'.gen = gen
    BY <2>1 DEF WaitInv, Sweeps
  <2>3. /\ stop' \in Stops /\ stop'["user"] = [pc |-> "joined", gen |-> gen]
        /\ stop'["shutdown"] = stop["shutdown"]
    BY <1>2, <2>1 DEF WaitInv, Stops, Stoppers
  <2> QED
    BY <1>2, <2>1, <2>2, <2>3 DEF WaitInv, Stoppers
<1>5. CASE KillAgentNow
  <2>1. /\ sweep' = [pc |-> "capture", immediate |-> TRUE, gen |-> gen]
        /\ stop' = [stop EXCEPT !["user"] = [pc |-> "joined", gen |-> gen]]
        /\ UNCHANGED <<live, gen, fenced>>
    BY <1>5 DEF KillAgentNow, process
  <2>2. /\ sweep' \in Sweeps /\ sweep'.pc = "capture" /\ sweep'.immediate = TRUE
        /\ sweep'.gen = gen
    BY <1>2, <2>1 DEF Sweeps
  <2>3. /\ stop' \in Stops /\ stop'["user"] = [pc |-> "joined", gen |-> gen]
        /\ stop'["shutdown"] = stop["shutdown"]
    BY <1>2, <2>1 DEF WaitInv, Stops, Stoppers
  <2> QED
    BY <1>2, <2>1, <2>2, <2>3 DEF WaitInv, Stoppers
<1>6. CASE KillNow
  <2>1. live /\ ForceKillAndWait("user") /\ UNCHANGED <<live, gen, sweep, fenced>>
    BY <1>6 DEF KillNow
  <2> QED
    BY <2>1, ForceKillAndWaitKeeps DEF WaitInv, Stoppers
<1> QED
  BY <1>3, <1>4, <1>5, <1>6

\* The steps of a teardown: a graceful one has nobody joined, so it acknowledges nothing.
LEMMA SweepKeepsWait ==
  ASSUME WaitInv, ProcessInv, SweepStep
  PROVE  WaitInv'
<1>1. NoSweep \in Sweeps /\ NoSweep.pc = "none"
  BY SessionAssumption DEF NoSweep, Sweeps
<1>2. ASSUME NEW sent \in BOOLEAN, SweepSignals(sent)
      PROVE  WaitInv'
  <2>1. stop["user"].pc # "joined"
    BY <1>2 DEF SweepSignals, WaitInv
  <2>2. sweep' = NoSweep /\ stop' = stop /\ UNCHANGED <<live, gen, fenced>>
    BY <1>2, <2>1 DEF SweepSignals, Joined
  <2> QED
    BY <1>1, <2>1, <2>2 DEF WaitInv
<1>3. CASE SweepForces
  <2>1. /\ live /\ ForceKillAndWait("user") /\ sweep' = [sweep EXCEPT !.pc = "exit"]
        /\ sweep.pc = "capture" /\ UNCHANGED <<live, gen, fenced>>
    BY <1>3 DEF SweepForces, OwnsRoot
  <2>2. sweep' \in Sweeps /\ sweep'.gen = gen
    BY <2>1 DEF WaitInv, Sweeps
  <2> QED
    BY <2>1, <2>2, ForceKillAndWaitKeeps DEF Stoppers
<1>4. CASE SweepEnds
  <2>1. /\ sweep.pc = "capture" /\ ~live /\ sweep' = NoSweep /\ stop' = Joined("acked")
        /\ UNCHANGED <<live, gen, fenced>>
    BY <1>4 DEF SweepEnds, OwnsRoot, WaitInv, process
  <2>2. /\ stop' \in Stops /\ stop'["shutdown"] = stop["shutdown"]
        /\ stop'["user"].gen = stop["user"].gen
        /\ stop'["user"].pc \in {stop["user"].pc, "acked"} \ {"joined"}
    BY <2>1 DEF Joined, Settled, WaitInv, Stops, Stoppers
  <2> QED
    BY <1>1, <2>1, <2>2 DEF WaitInv, Stoppers
<1> QED
  BY <1>2, <1>3, <1>4 DEF SweepStep

\* The exit is reported: whoever waited for it is answered.
LEMMA ExitKeepsWait ==
  ASSUME WaitInv, ProcessInv, ExitReported
  PROVE  WaitInv'
<1>1. NoSweep \in Sweeps /\ NoSweep.pc = "none"
  BY SessionAssumption DEF NoSweep, Sweeps
<1>2. /\ live' = FALSE /\ UNCHANGED <<gen, fenced>>
      /\ sweep' = IF sweep.pc = "exit" THEN NoSweep ELSE sweep
      /\ stop' = [s \in Stoppers |-> IF stop[s].pc \in {"wait", "retry"}
                                        THEN [stop[s] EXCEPT !.pc = "acked"] ELSE stop[s]]
  BY DEF ExitReported
<1>3. \A s \in Stoppers :
        /\ stop'[s].gen = stop[s].gen
        /\ stop'[s].pc = IF stop[s].pc \in {"wait", "retry"} THEN "acked" ELSE stop[s].pc
  BY <1>2 DEF WaitInv, Stops
<1>4. stop' \in Stops /\ sweep' \in Sweeps
  BY <1>1, <1>2 DEF WaitInv, Stops
<1> QED
  BY <1>1, <1>2, <1>3, <1>4 DEF WaitInv, Stoppers

\* A shutdown fences the host before it is acknowledged.
LEMMA ShutdownKeepsWait ==
  ASSUME WaitInv, ProcessInv, Shutdown
  PROVE  WaitInv'
<1>1. fenced' = TRUE /\ UNCHANGED <<live, sweep>>
  BY DEF Shutdown
<1>2. CASE live
  <2>1. ForceKillAndWait("shutdown") /\ UNCHANGED gen
    BY <1>2 DEF Shutdown
  <2> QED
    BY <1>1, <1>2, <2>1, ForceKillAndWaitKeeps DEF WaitInv, Stoppers
<1>3. CASE ~live
  <2>1. stop' = Settled("shutdown", "acked") /\ UNCHANGED gen
    BY <1>3 DEF Shutdown, process
  <2>2. /\ stop' \in Stops /\ stop'["user"] = stop["user"] /\ stop'["shutdown"].pc = "acked"
        /\ stop'["shutdown"].gen = stop["shutdown"].gen
    BY <2>1 DEF Settled, WaitInv, Stops, Stoppers
  <2> QED
    BY <1>1, <1>3, <2>1, <2>2 DEF WaitInv, Stoppers
<1> QED
  BY <1>2, <1>3

\* A shell is created only when nobody tears one down and no shutdown began.
LEMMA CreateKeepsWait ==
  ASSUME WaitInv, ProcessInv,
         \E isAgent, waits, command \in BOOLEAN : Create(isAgent, waits, command)
  PROVE  WaitInv'
<1>1. /\ ~live /\ ~fenced /\ sweep = NoSweep /\ gen < MaxShells /\ live' = TRUE
      /\ gen' = gen + 1 /\ UNCHANGED <<sweep, stop, fenced>>
  BY DEF Create, MayCreate
<1>2. sweep.pc = "none" /\ gen \in Nat
  BY <1>1 DEF NoSweep, ProcessInv
<1>3. \A s \in Stoppers : stop[s].gen \in Nat /\ stop[s].gen <= gen
  BY DEF WaitInv, Stops
<1>4. \A s \in Stoppers : stop[s].gen <= gen' /\ stop[s].gen # gen'
  BY <1>1, <1>2, <1>3
<1> QED
  BY <1>1, <1>2, <1>4 DEF WaitInv, Stoppers

\* Every step keeps the invariant of the waits.
LEMMA StepKeepsWait ==
  ASSUME WaitInv, ProcessInv, [SessionNext]_sessionVars
  PROVE  WaitInv'
<1>1. CASE InputStep \/ UNCHANGED sessionVars
  BY <1>1, ProcessUntouched, WaitInvUntouched DEF sessionVars, process
<1>2. CASE Pause \/ Resume \/ FailsafeFires \/ Attach \/ KillShell \/ KillTimer \/ ChildExits
  <2>1. UNCHANGED <<live, gen, sweep, stop, fenced>>
    BY <1>2 DEF Pause, Resume, FailsafeFires, Attach, KillShell, KillTimer, KillTimerFires,
                ChildExits, process
  <2> QED
    BY <2>1, WaitInvUntouched
<1>3. CASE KillAgent \/ KillJoins \/ KillAgentNow \/ KillNow
  BY <1>3, KillKeepsWait
<1>4. CASE SweepStep
  BY <1>4, SweepKeepsWait
<1>5. CASE \E s \in Stoppers : Retry(s) \/ WaitTimesOut(s)
  <2>1. PICK s \in Stoppers : Retry(s) \/ WaitTimesOut(s)
    BY <1>5
  <2>2. CASE WaitTimesOut(s)
    BY <2>2, SettledKeeps DEF WaitTimesOut, process
  <2>3. CASE Retry(s)
    <3>1. PICK sent \in BOOLEAN : RetryForceKill(s, sent)
      BY <2>3 DEF Retry
    <3>2. /\ stop[s].pc = "retry" /\ UNCHANGED <<live, gen, fenced>>
          /\ \E pc \in {"wait", "failed"} : stop' = Settled(s, pc)
          /\ sweep' \in {sweep, SweepAfter(s)}
      BY <3>1 DEF RetryForceKill
    <3> QED
      BY <3>2, SettledKeeps
  <2> QED
    BY <2>1, <2>2, <2>3
<1>6. CASE Answered
  <2>1. stop' = [stop EXCEPT !["user"] = NoStop] /\ UNCHANGED <<live, gen, sweep, fenced>>
    BY <1>6 DEF Answered, process
  <2>2. stop' \in Stops /\ stop'["user"] = NoStop /\ stop'["shutdown"] = stop["shutdown"]
    BY <2>1, SessionAssumption DEF WaitInv, Stops, Stoppers, NoStop
  <2> QED
    BY <2>1, <2>2 DEF WaitInv, ProcessInv, NoStop, Stoppers
<1>7. CASE ExitReported
  BY <1>7, ExitKeepsWait
<1>8. CASE Shutdown
  BY <1>8, ShutdownKeepsWait
<1>9. CASE \E isAgent, waits, command \in BOOLEAN : Create(isAgent, waits, command)
  BY <1>9, CreateKeepsWait
<1> QED
  BY <1>1, <1>2, <1>3, <1>4, <1>5, <1>6, <1>7, <1>8, <1>9 DEF SessionNext, InputStep

\* Whoever waits for an exit waits for the live shell, nobody joined a graceful teardown, and
\* no shell is live behind a shutdown that was acknowledged.
THEOREM WaitInvariant == SessionSpec => []WaitInv
<1>1. SessionInit => WaitInv
  <2> SUFFICES ASSUME SessionInit
               PROVE  WaitInv
    OBVIOUS
  <2>1. sweep \in Sweeps /\ stop \in Stops
    BY SessionAssumption DEF SessionInit, NoSweep, NoStop, Sweeps, Stops
  <2> QED
    BY <2>1 DEF SessionInit, WaitInv, NoSweep, NoStop, Stoppers
<1>2. WaitInv /\ ProcessInv /\ [SessionNext]_sessionVars => WaitInv'
  BY StepKeepsWait
<1> QED
  BY <1>1, <1>2, ProcessInvariant, PTL DEF SessionSpec

\* An immediate kill, or the shutdown of the daemon, is acknowledged only when the process is
\* gone, whatever teardowns, retries, timeouts and exits it meets.
THEOREM AcknowledgedKillsAreDone == SessionSpec => []AckedKillIsDone
<1>1. WaitInv /\ ProcessInv => AckedKillIsDone
  BY DEF WaitInv, ProcessInv, AckedKillIsDone, Stops, Stoppers, Shells
<1> QED
  BY <1>1, WaitInvariant, ProcessInvariant, PTL

(***************************************************************************)
(* Types.                                                                  *)
(***************************************************************************)

\* The flags are flags, and only a live session is paused.
FlagsInv ==
  /\ agent \in BOOLEAN /\ terminating \in BOOLEAN /\ forceSent \in BOOLEAN
  /\ fenced \in BOOLEAN
  /\ paused \in BOOLEAN /\ failsafe \in BOOLEAN /\ (~live => paused = FALSE)

\* What a step may do to the flags of the producer: nothing, a release, or a pause of a live one.
FlowStep ==
  \/ UNCHANGED flow /\ (live' \/ ~live)
  \/ Release
  \/ paused' = TRUE /\ failsafe' = TRUE /\ live /\ live' = live

\* Every step does one of these to the flags of the producer.
LEMMA FlowSteps ==
  ASSUME SessionNext
  PROVE  FlowStep
<1> USE DEF FlowStep
<1>1. CASE InputStep
  BY <1>1, ProcessUntouched
<1>2. CASE Pause
  BY <1>2 DEF Pause
<1>3. CASE Resume \/ FailsafeFires \/ Attach \/ KillShell \/ KillAgent \/ KillAgentNow \/ ExitReported
  BY <1>3 DEF Resume, FailsafeFires, Attach, KillShell, KillAgent, KillAgentNow, ExitReported
<1>4. CASE KillJoins \/ SweepStep \/ Answered \/ KillTimer \/ ChildExits
  BY <1>4 DEF KillJoins, SweepStep, SweepSignals, SweepForces, SweepEnds, Answered, KillTimer,
              KillTimerFires, ChildExits
<1>5. CASE KillNow
  BY <1>5 DEF KillNow, ReleaseOnce
<1>6. CASE \E s \in Stoppers : Retry(s) \/ WaitTimesOut(s)
  BY <1>6 DEF Retry, RetryForceKill, WaitTimesOut
<1>7. CASE Shutdown
  BY <1>7 DEF Shutdown
<1>8. CASE \E isAgent, waits, command \in BOOLEAN : Create(isAgent, waits, command)
  BY <1>8 DEF Create
<1> QED
  BY <1>1, <1>2, <1>3, <1>4, <1>5, <1>6, <1>7, <1>8 DEF SessionNext, InputStep

\* What a step may do to the other flags.
FlagStep ==
  /\ agent' = agent \/ agent' \in BOOLEAN
  /\ terminating' = terminating \/ terminating' \in BOOLEAN
  /\ forceSent' = forceSent \/ forceSent' \in BOOLEAN
  /\ fenced' = fenced \/ fenced' = TRUE

\* A forced kill marks the session as terminating.
LEMMA ForceFlags ==
  ASSUME NEW s \in Stoppers, ForceKillAndWait(s)
  PROVE  terminating' = TRUE /\ (forceSent' = forceSent \/ forceSent' \in BOOLEAN)
  BY DEF ForceKillAndWait, RequestForceKill

\* Every step does one of these to the other flags.
LEMMA FlagSteps ==
  ASSUME SessionNext
  PROVE  FlagStep
<1> USE DEF FlagStep, ending
<1>1. CASE InputStep
  BY <1>1, ProcessUntouched
<1>2. CASE Pause \/ Resume \/ FailsafeFires \/ Attach \/ KillAgent \/ KillJoins \/ KillAgentNow
  BY <1>2 DEF Pause, Resume, FailsafeFires, Attach, KillAgent, KillJoins, KillAgentNow
<1>3. CASE KillShell
  BY <1>3 DEF KillShell, SignalRoot
<1>4. CASE KillNow
  BY <1>4, ForceFlags DEF KillNow, Stoppers
<1>5. CASE SweepStep
  <2>1. CASE \E sent \in BOOLEAN : SweepSignals(sent)
    BY <2>1 DEF SweepSignals, SignalRoot
  <2>2. CASE SweepForces
    BY <2>2, ForceFlags DEF SweepForces, Stoppers
  <2>3. CASE SweepEnds
    BY <2>3 DEF SweepEnds
  <2> QED
    BY <1>5, <2>1, <2>2, <2>3 DEF SweepStep
<1>6. CASE \E s \in Stoppers : Retry(s) \/ WaitTimesOut(s)
  BY <1>6 DEF Retry, RetryForceKill, RequestForceKill, WaitTimesOut
<1>7. CASE KillTimer
  BY <1>7 DEF KillTimer, KillTimerFires, RequestForceKill
<1>8. CASE Answered \/ ChildExits \/ ExitReported
  BY <1>8 DEF Answered, ChildExits, ExitReported
<1>9. CASE Shutdown
  <2>1. CASE live
    BY <1>9, <2>1, ForceFlags DEF Shutdown, Stoppers
  <2>2. CASE ~live
    BY <1>9, <2>2 DEF Shutdown
  <2> QED
    BY <2>1, <2>2
<1>10. CASE \E isAgent, waits, command \in BOOLEAN : Create(isAgent, waits, command)
  BY <1>10 DEF Create
<1> QED
  BY <1>1, <1>2, <1>3, <1>4, <1>5, <1>6, <1>7, <1>8, <1>9, <1>10 DEF SessionNext, InputStep

\* The flags are Booleans, and the producer of a dead session is not paused: the exit
\* releases it (handleSubprocessExit).
THEOREM FlagsInvariant == SessionSpec => []FlagsInv
<1>1. SessionInit => FlagsInv
  BY DEF SessionInit, FlagsInv
<1>2. FlagsInv /\ [SessionNext]_sessionVars => FlagsInv'
  <2> SUFFICES ASSUME FlagsInv, [SessionNext]_sessionVars
               PROVE  FlagsInv'
    OBVIOUS
  <2>1. CASE SessionNext
    <3>1. paused' \in BOOLEAN /\ failsafe' \in BOOLEAN /\ (~live' => paused' = FALSE)
      <4>1. CASE UNCHANGED flow /\ (live' \/ ~live)
        <5>1. paused' = paused /\ failsafe' = failsafe
          BY <4>1 DEF flow
        <5> QED
          BY <4>1, <5>1, Zenon DEF FlagsInv
      <4>2. CASE Release
        BY <4>2 DEF Release
      <4>3. CASE paused' = TRUE /\ failsafe' = TRUE /\ live /\ live' = live
        <5>1. paused' \in BOOLEAN /\ failsafe' \in BOOLEAN
          BY <4>3
        <5>2. ~live' => paused' = FALSE
          BY <4>3, Zenon
        <5> QED
          BY <5>1, <5>2
      <4> QED
        BY <2>1, <4>1, <4>2, <4>3, FlowSteps DEF FlowStep
    <3>2. /\ agent' \in BOOLEAN /\ terminating' \in BOOLEAN /\ forceSent' \in BOOLEAN
          /\ fenced' \in BOOLEAN
      BY <2>1, FlagSteps DEF FlagStep, FlagsInv
    <3> QED
      BY <3>1, <3>2 DEF FlagsInv
  <2>2. CASE UNCHANGED sessionVars
    BY <2>2 DEF sessionVars, flow, ending, FlagsInv
  <2> QED
    BY <2>1, <2>2
<1> QED
  BY <1>1, <1>2, PTL DEF SessionSpec

\* A session keeps the shape of its state: a timer, a queue or a kill is pending for a live shell
\* alone, and the gate is armed only while it has something to flush.
THEOREM SessionTypeCorrect == SessionSpec => []SessionTypeOK
<1>1. InputInv /\ ProcessInv /\ WaitInv /\ FlagsInv => SessionTypeOK
  <2> SUFFICES ASSUME InputInv, ProcessInv, WaitInv, FlagsInv
               PROVE  SessionTypeOK
    OBVIOUS
  <2>1. {live, agent, paused, failsafe, terminating, forceSent, fenced} \subseteq BOOLEAN
    BY DEF InputInv, FlagsInv
  <2> QED
    BY <2>1 DEF InputInv, ProcessInv, WaitInv, FlagsInv, SessionTypeOK, Signals, Sweeps, Stops
<1> QED
  BY <1>1, InputInvariant, ProcessInvariant, WaitInvariant, FlagsInvariant, PTL

=============================================================================
