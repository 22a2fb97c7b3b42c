---------------------------- MODULE TerminalHistory ----------------------------
(***************************************************************************)
(* The saved history of one terminal: what the application writes to disk  *)
(* while the daemon runs the shell, and what it brings back when the       *)
(* daemon is gone.                                                         *)
(*                                                                         *)
(* Three parties: the daemon with the session and its undrained records,   *)
(* the application with its passes over the dirty sessions, and the disk   *)
(* with meta.json, checkpoint.json and output.log.  The application or the *)
(* daemon may die, and the socket between them drop, at every await.       *)
(*                                                                         *)
(* Whatever is applied to the emulator (output, a resize, a clear) is one  *)
(* token, and a screen is the sequence of tokens applied.  The daemon's    *)
(* emulator accepts seeds, and alternate screens are not told apart.       *)
(***************************************************************************)
EXTENDS Naturals, SequencesExt

CONSTANTS
  PendingMax,  \* PENDING_OUTPUT_MAX_BYTES, in tokens
  LogMax,      \* LOG_MAX_BYTES, in tokens
  MaxOutput,   \* bound: tokens
  MaxTakes,    \* bound: takes after which no pass starts
  MaxShells,   \* bound: shells the daemon starts
  MaxFaults    \* bound: crashes, lost connections and failed writes

ASSUME HistoryAssumption ==
  /\ {PendingMax, LogMax} \subseteq Nat \ {0}
  /\ {MaxOutput, MaxTakes, MaxShells, MaxFaults} \subseteq Nat

VARIABLES
  live,        \* does the daemon run the session?
  screen,      \* what was applied to its emulator
  pending,     \* pendingOutputRecords
  overflowed,  \* pendingOutputOverflowed
  seq,         \* pendingOutputSeq
  exiting,     \* is an exit event on its way to the application?
  up,          \* does the application run?
  linked,      \* is its client connected?
  active,      \* is the session in activeSessionIds?
  dirty,       \* is it in dirtySessionVersions?
  needFull,    \* is it in sessionsNeedingFullCheckpoint?
  cooling,     \* was the last full checkpoint less than 45 s ago?
  writer,      \* its history writer: "none", "on" or "disabled"
  cached,      \* its coldRestoreCache entry: "no", "restore", or "sleep"
  leaving,     \* what follows the final pass: "no", "quit" or "sleep"
  pass,        \* the checkpoint pass in flight
  meta,        \* meta.json: "none", "open" or "ended"
  ckpt,        \* checkpoint.json
  log,         \* output.log
  produced,    \* bound: tokens so far
  shells,      \* bound: shells so far
  faults,      \* bound: faults so far
  past,        \* history: the last screens of the sessions this one was restored from
  excused,     \* history: was the log opened again without a full checkpoint to come, by a
               \* cached restore or by a writer registered anew for a managed session?
  asked        \* history: length of the screen when the user put the running shell to sleep

session == <<live, screen, pending, overflowed, seq, shells>>
flags == <<active, dirty, needFull, cooling>>
disk == <<meta, ckpt, log>>
ghosts == <<past, excused, asked>>
historyVars == <<session, exiting, up, linked, flags, writer, cached, leaving, pass, disk,
                 produced, faults, ghosts>>

NoTake == [seq |-> 0, records |-> <<>>, overflowed |-> FALSE, snapshot |-> <<>>]
Idle == [pc |-> "idle", kind |-> "tick", take |-> NoTake, gen |-> 0]
NoCkpt == [content |-> <<>>, gen |-> 0]
NoLog == [gen |-> 0, seqs |-> <<>>, records |-> <<>>, tail |-> "missing"]

-----------------------------------------------------------------------------
(* The disk.                                                                *)

\* resolveLogState: the generation the next write continues.
LogGeneration == IF log.tail = "missing" THEN ckpt.gen ELSE log.gen

\* appendFile of encodeLogBatch of a take, cut after its first n records.  A log without a
\* header gets one first, and what follows a torn frame cannot be read.
Appended(take, n) ==
  CASE log.tail \in {"missing", "whole"} ->
         [gen |-> LogGeneration,
          seqs |-> Append(log.seqs, take.seq),
          records |-> log.records \o SubSeq(take.records, 1, n),
          tail |-> "whole"]
    [] OTHER -> [log EXCEPT !.tail = "garbled"]

\* decodeTerminalHistoryLog: a torn tail is dropped, a gap in the sequence is not read.
Contiguous == \A i \in 1 .. Len(log.seqs) - 1 : log.seqs[i + 1] = log.seqs[i] + 1

\* Mutant: the log is read whatever its generation.
LogAppliesAnyGeneration == log.tail \in {"whole", "torn"} /\ log.seqs # <<>> /\ Contiguous

\* restoreFromIncrementalLog: the log continues the checkpoint, or there is none.
LogApplies ==
  /\ log.tail \in {"whole", "torn"} /\ log.seqs # <<>> /\ Contiguous
  /\ log.gen = ckpt.gen

\* detectColdRestore finds something to restore.
HasSaved == ckpt # NoCkpt \/ LogApplies

\* What it restores.
Restored == IF LogApplies THEN ckpt.content \o log.records ELSE ckpt.content

\* The logs that are left when the write of pass p does not complete.
CutShort ==
  CASE pass.pc = "append" ->
         {log} \cup {[Appended(pass.take, n) EXCEPT !.tail = IF @ = "whole" THEN "torn" ELSE @]
                     : n \in 0 .. Len(pass.take.records)}
    [] pass.pc = "reset" -> {log, NoLog}
    [] OTHER -> {log}

-----------------------------------------------------------------------------
(* The session in the daemon.                                               *)

\* recordPendingOutput: an overflow drops all records.
Record(token) ==
  CASE overflowed -> UNCHANGED <<pending, overflowed>>
    [] ~overflowed /\ Len(pending) + 1 > PendingMax -> pending' = <<>> /\ overflowed' = TRUE
    [] OTHER -> pending' = Append(pending, token) /\ UNCHANGED overflowed

\* emitSubprocessOutput, resize or clearScrollback.
Output ==
  /\ live /\ produced < MaxOutput
  /\ produced' = produced + 1
  /\ screen' = Append(screen, produced + 1)
  /\ Record(produced + 1)
  /\ UNCHANGED <<live, seq, shells, exiting, up, linked, flags, writer, cached, leaving, pass, disk,
                 faults, ghosts>>

Full == pass.kind # "tick"

\* takePendingOutput: the records are drained, and a full take carries the snapshot of
\* the same turn instead of them.  A session that is gone answers null.
Take ==
  /\ pass.pc = "asked"
  /\ IF ~live
     THEN pass' = [pass EXCEPT !.pc = "replied"] /\ UNCHANGED session
     ELSE /\ seq' = seq + 1 /\ pending' = <<>> /\ overflowed' = FALSE
          /\ pass' = [pass EXCEPT !.pc = "replied",
               !.take = [seq |-> seq + 1,
                            records |-> IF Full THEN <<>> ELSE pending,
                            overflowed |-> overflowed,
                            snapshot |-> IF Full THEN screen ELSE <<>>]]
          /\ UNCHANGED <<live, screen, shells>>
  /\ UNCHANGED <<exiting, up, linked, flags, writer, cached, leaving, disk, produced, faults,
                 ghosts>>

ShellExits ==
  /\ live /\ live' = FALSE /\ exiting' = linked
  /\ asked' = 0
  /\ UNCHANGED <<screen, pending, overflowed, seq, shells, up, linked, flags, writer, cached, leaving,
                 pass, disk, produced, faults, past, excused>>

-----------------------------------------------------------------------------
(* The passes of the application.                                           *)

Asked(kind) == [Idle EXCEPT !.pc = "asked", !.kind = kind]

\* markSessionDirty: a data event arrives, or the user writes or resizes.
Touched ==
  /\ up /\ active /\ seq < MaxTakes
  /\ dirty' = TRUE
  /\ UNCHANGED <<session, exiting, up, linked, active, needFull, cooling, writer, cached, leaving,
                 pass, disk, produced, faults, ghosts>>

\* The timer of scheduleCheckpointTimer.  A pass of a session that cools down, or without
\* a connection, ends where it starts.
TimerFires ==
  /\ up /\ linked /\ active /\ dirty /\ leaving = "no" /\ pass.pc = "idle"
  /\ ~(needFull /\ cooling)
  /\ pass' = Asked(IF needFull THEN "flagged" ELSE "tick")
  /\ UNCHANGED <<session, exiting, up, linked, active, dirty, needFull, cooling, writer, cached,
                 leaving, disk, produced, faults, ghosts>>

\* checkpointSession returns 'done': the session is clean unless it was marked meanwhile.
Done ==
  /\ pass' = Idle
  /\ dirty' \in IF pass.kind = "final" THEN {dirty} ELSE {FALSE, dirty /\ seq < MaxTakes}
  /\ needFull' = IF pass.kind \in {"flagged", "final"} THEN FALSE ELSE needFull

\* Mutant: a deferred checkpoint is forgotten.
DeferForgotten ==
  /\ pass' = Idle
  /\ UNCHANGED needFull

\* checkpointSession returns 'deferred': the session stays dirty.
Defer ==
  /\ pass' = Idle
  /\ needFull' = TRUE

\* An overflow, or a log at its cap: the full checkpoint now, or after the cooldown.
Escalate ==
  IF cooling
  THEN Defer
  ELSE pass' = Asked("escalated") /\ UNCHANGED needFull

\* Mutant: the cap of the log is not looked at.
LogNeverFull(take) == FALSE

\* appendIncrements answers 'needs-checkpoint'.
LogIsFull(take) == Len(log.records) + Len(take.records) > LogMax

\* The reply of a take: the rest of checkpointSession and takeSnapshotAndCheckpoint up to
\* the next await.  A full checkpoint nobody writes starts the cooldown all the same.
Receive ==
  LET take == pass.take
      Step(pc) == pass' = [pass EXCEPT !.pc = pc, !.gen = LogGeneration + 1]
  IN /\ pass.pc = "replied"
     /\ \/ /\ take.seq # 0 /\ Full /\ writer = "on"
           /\ Step("tmp") /\ UNCHANGED <<dirty, needFull>>
        \/ /\ take.seq # 0 /\ Full /\ writer # "on"
           /\ Done
        \/ /\ take.seq # 0 /\ ~Full /\ take.overflowed
           /\ Escalate /\ UNCHANGED <<dirty>>
        \/ /\ take.seq # 0 /\ ~Full /\ ~take.overflowed
           /\ take.records # <<>> /\ writer = "on"
           /\ IF LogIsFull(take)
              THEN Escalate /\ UNCHANGED dirty
              ELSE Step("append") /\ UNCHANGED <<dirty, needFull>>
        \/ /\ take.seq # 0 /\ ~Full /\ ~take.overflowed
           /\ take.records # <<>> /\ writer # "on"
           /\ Done
        \/ /\ take.seq = 0 \/ (~Full /\ ~take.overflowed /\ take.records = <<>>)
           /\ Done
     /\ cooling' = (cooling \/ (take.seq # 0 /\ Full /\ writer # "on"))
     /\ UNCHANGED <<session, exiting, up, linked, active, writer, cached, leaving, disk,
                    produced, faults, ghosts>>

\* appendIncrements.
AppendIncrements ==
  /\ pass.pc = "append"
  /\ log' = Appended(pass.take, Len(pass.take.records))
  /\ Done
  /\ UNCHANGED <<session, exiting, up, linked, active, cooling, writer, cached, leaving,
                 meta, ckpt, produced, faults, ghosts>>

\* checkpoint: the tmp file takes its name.
Rename ==
  /\ pass.pc = "tmp"
  /\ pass' = [pass EXCEPT !.pc = "reset"]
  /\ ckpt' = [content |-> pass.take.snapshot, gen |-> pass.gen]
  /\ UNCHANGED <<session, exiting, up, linked, flags, writer, cached, leaving, meta, log, produced,
                 faults, ghosts>>

\* checkpoint: the log starts the new generation.
ResetLog ==
  /\ pass.pc = "reset"
  /\ log' = [gen |-> pass.gen, seqs |-> <<>>, records |-> <<>>, tail |-> "whole"]
  /\ cooling' = TRUE
  /\ Done
  /\ UNCHANGED <<session, exiting, up, linked, active, writer, cached, leaving, meta,
                 ckpt, produced, faults, ghosts>>

CooldownEnds ==
  /\ cooling /\ cooling' = FALSE
  /\ UNCHANGED <<session, exiting, up, linked, active, dirty, needFull, writer, cached,
                 leaving, pass, disk, produced, faults, ghosts>>

\* handleWriteError: history of this session is off.  A full checkpoint counts as written.
WriteFails ==
  /\ pass.pc \in {"append", "tmp", "reset"} /\ faults < MaxFaults
  /\ faults' = faults + 1
  /\ log' \in CutShort
  /\ writer' = IF writer = "on" THEN "disabled" ELSE writer
  /\ cooling' = (cooling \/ pass.pc # "append")
  /\ Done
  /\ UNCHANGED <<session, exiting, up, linked, active, cached, leaving, meta, ckpt, produced,
                 ghosts>>

-----------------------------------------------------------------------------
(* Leaving: the application quits, or the user puts the terminal to sleep.  *)

\* Mutant: the final pass of a session that cools down is deferred too.
LeaveWhenCool(how) ==
  /\ up /\ active /\ leaving = "no" /\ seq < MaxTakes /\ pass.pc = "idle"
  /\ leaving' = how
  /\ pass' = IF linked /\ ~cooling THEN Asked("final") ELSE Idle
  /\ asked' = IF how = "sleep" /\ live THEN Len(screen) ELSE 0
  /\ UNCHANGED <<session, exiting, up, linked, flags, writer, cached, disk, produced, faults, past,
                 excused>>

\* disconnectOnly, or shutdown with keepHistory, after the pass in flight.
Leave(how) ==
  /\ up /\ active /\ leaving = "no" /\ seq < MaxTakes /\ pass.pc = "idle"
  /\ leaving' = how
  /\ pass' = IF linked THEN Asked("final") ELSE Idle
  /\ asked' = IF how = "sleep" /\ live THEN Len(screen) ELSE 0
  /\ UNCHANGED <<session, exiting, up, linked, flags, writer, cached, disk, produced, faults, past,
                 excused>>

\* What the application keeps in memory is gone; a write under way is cut short.
AppGone ==
  /\ up' = FALSE /\ linked' = FALSE /\ active' = FALSE /\ dirty' = FALSE
  /\ needFull' = FALSE /\ cooling' = FALSE /\ writer' = "none" /\ cached' = "no"
  /\ leaving' = "no" /\ exiting' = FALSE
  /\ pass' = Idle /\ log' \in CutShort

\* The end of disconnectOnly.
QuitEnds ==
  /\ leaving = "quit" /\ pass.pc = "idle"
  /\ AppGone
  /\ UNCHANGED <<session, meta, ckpt, produced, faults, ghosts>>

\* The end of shutdown with keepHistory.  What can be restored is kept from the exit
\* event; the kill needs a connection.
SleepEnds ==
  /\ leaving = "sleep" /\ pass.pc = "idle"
  /\ leaving' = "no"
  /\ LET keeps == meta = "open" /\ HasSaved
     IN /\ cached' = IF keeps THEN "sleep" ELSE cached
        /\ writer' = IF keeps THEN "none" ELSE writer
  /\ IF linked
     THEN /\ live' = FALSE /\ exiting' = (live \/ exiting)
          /\ active' = FALSE /\ dirty' = FALSE /\ needFull' = FALSE /\ cooling' = FALSE
     ELSE UNCHANGED <<live, exiting, active, dirty, needFull, cooling>>
  /\ UNCHANGED <<screen, pending, overflowed, seq, shells, up, linked, pass, disk, produced,
                 faults, ghosts>>

\* The exit event: closeSession, and everything about the session is forgotten.  It names
\* the session id, not the shell that exited.
ExitEvent ==
  /\ exiting /\ up /\ linked
  /\ exiting' = FALSE
  /\ active' = FALSE /\ dirty' = FALSE /\ needFull' = FALSE /\ cooling' = FALSE
  /\ cached' = IF cached = "sleep" THEN "sleep" ELSE "no"
  /\ writer' = "none"
  /\ meta' = IF writer = "none" THEN meta ELSE "ended"
  /\ asked' = IF live THEN 0 ELSE asked
  /\ UNCHANGED <<session, up, linked, leaving, pass, ckpt, log, produced, faults,
                 past, excused>>

\* ackColdRestore
Ack ==
  /\ up /\ cached # "no" /\ active /\ cached' = "no"
  /\ UNCHANGED <<session, exiting, up, linked, flags, writer, leaving, pass, disk, produced,
                 faults, ghosts>>

-----------------------------------------------------------------------------
(* doSpawn.                                                                 *)

\* The reply to createOrAttach comes after those of the takes asked before it, on the same
\* socket; the writes they led to are assumed to end while the daemon starts a shell.
MaySpawn == up /\ leaving = "no" /\ pass.pc = "idle"

\* Mutant: the shell starts without the seed.
NewSessionUnseeded(s) ==
  /\ shells < MaxShells /\ shells' = shells + 1
  /\ live' = TRUE /\ screen' = <<>> /\ pending' = <<>> /\ overflowed' = FALSE /\ seq' = 0

\* The daemon starts a session whose emulator shows s.
NewSession(s) ==
  /\ shells < MaxShells /\ shells' = shells + 1
  /\ live' = TRUE /\ screen' = s /\ pending' = <<>> /\ overflowed' = FALSE /\ seq' = 0

\* A cached restore: reopenSession, and no full checkpoint is asked for.
Reopen ==
  /\ writer' = "on" /\ meta' = "open"
  /\ excused' = (excused \/ log.seqs # <<>> \/ ~HasSaved \/ meta # "open")
  /\ UNCHANGED <<needFull, cooling, cached, ckpt, log>>

\* registerWriter, and the next pass writes a full checkpoint.
Reanchor ==
  /\ writer' = IF writer = "none" THEN "on" ELSE writer
  /\ needFull' = TRUE /\ cooling' = FALSE

\* The session lives.  One that this application managed before goes on as it was.
Attach ==
  /\ MaySpawn /\ live
  /\ linked' = TRUE /\ active' = TRUE
  /\ IF cached # "no"
     THEN Reopen
     ELSE /\ IF active
             THEN /\ writer' = IF writer = "none" THEN "on" ELSE writer
                  /\ excused' = (excused \/ (writer = "none" /\ ~needFull /\ log.seqs # <<>>))
                  /\ UNCHANGED <<needFull, cooling>>
             ELSE Reanchor /\ UNCHANGED excused
          /\ UNCHANGED <<cached, disk>>
  /\ UNCHANGED <<session, exiting, up, dirty, leaving, pass, produced, faults, past,
                 asked>>

\* The session is gone and its end was not recorded: the new one is seeded.
ColdRestore ==
  /\ MaySpawn /\ ~live /\ meta = "open" /\ HasSaved
  /\ linked' = TRUE /\ active' = TRUE
  /\ NewSession(Restored) /\ past' = past \cup {screen}
  /\ IF cached # "no"
     THEN Reopen
     ELSE Reanchor /\ cached' = "restore" /\ UNCHANGED <<disk, excused>>
  /\ UNCHANGED <<exiting, up, dirty, leaving, pass, produced, faults, asked>>

\* openSession: stale files are removed.
OpenSession ==
  /\ meta' = "open" /\ ckpt' = NoCkpt /\ log' = NoLog /\ writer' = "on"

\* Nothing to restore.
Fresh ==
  /\ MaySpawn /\ ~live /\ ~(meta = "open" /\ HasSaved) /\ cached = "no"
  /\ linked' = TRUE /\ active' = TRUE
  /\ NewSession(<<>>) /\ past' = {} /\ excused' = FALSE
  /\ OpenSession
  /\ UNCHANGED <<exiting, up, dirty, needFull, cooling, cached, leaving, pass, produced,
                 faults, asked>>

\* A restore that was never acknowledged outlives a clean end: the new shell starts empty
\* and the history goes on from the old files.
StaleRestore ==
  /\ MaySpawn /\ ~live /\ ~(meta = "open" /\ HasSaved) /\ cached # "no"
  /\ linked' = TRUE /\ active' = TRUE
  /\ NewSession(<<>>) /\ past' = past \cup {screen}
  /\ Reopen
  /\ UNCHANGED <<exiting, up, dirty, leaving, pass, produced, faults, asked>>

\* The session was alive when it was probed and exits before createOrAttach: its files
\* are restored even if its exit event has recorded a clean end by now.
RacedRestore ==
  /\ MaySpawn /\ linked /\ live /\ meta = "open" /\ HasSaved /\ cached = "no"
  /\ NewSession(Restored) /\ past' = past \cup {screen}
  /\ active' = TRUE /\ needFull' = TRUE /\ cooling' = FALSE /\ cached' = "restore"
  /\ \/ exiting' = TRUE
        /\ writer' = (IF writer = "none" THEN "on" ELSE writer)
        /\ UNCHANGED <<dirty, meta>>
     \/ exiting' = FALSE /\ dirty' = FALSE
        /\ writer' = "on"
        /\ meta' = (IF writer = "none" THEN meta ELSE "ended")
  /\ UNCHANGED <<up, linked, leaving, pass, ckpt, log, produced, faults,
                 excused, asked>>

-----------------------------------------------------------------------------
(* Faults.                                                                  *)

\* The reply is lost, or comes after the client gave up: the pass fails, and the session
\* stays dirty.
Lost ==
  /\ pass.pc \in {"asked", "replied"}

Unlink ==
  /\ pass' = IF Lost THEN Idle ELSE pass
  /\ linked' = FALSE /\ exiting' = FALSE

RequestTimesOut ==
  /\ Lost /\ faults < MaxFaults /\ faults' = faults + 1
  /\ pass' = Idle
  /\ UNCHANGED <<session, exiting, up, linked, flags, writer, cached, leaving, disk, produced,
                 ghosts>>

LinkDrops ==
  /\ linked /\ faults < MaxFaults /\ faults' = faults + 1
  /\ Unlink
  /\ UNCHANGED <<session, up, flags, writer, cached, leaving, disk, produced, ghosts>>

DaemonDies ==
  /\ live /\ faults < MaxFaults /\ faults' = faults + 1
  /\ live' = FALSE
  /\ Unlink
  /\ UNCHANGED <<screen, pending, overflowed, seq, shells, up, flags, writer, cached, leaving, disk,
                 produced, ghosts>>

AppCrashes ==
  /\ up /\ faults < MaxFaults /\ faults' = faults + 1
  /\ AppGone
  /\ UNCHANGED <<session, meta, ckpt, produced, ghosts>>

AppStarts ==
  /\ ~up /\ up' = TRUE
  /\ UNCHANGED <<session, exiting, linked, flags, writer, cached, leaving, pass, disk, produced,
                 faults, ghosts>>

-----------------------------------------------------------------------------
HistoryInit ==
  /\ live = FALSE /\ screen = <<>> /\ pending = <<>> /\ overflowed = FALSE /\ seq = 0 /\ shells = 0
  /\ exiting = FALSE /\ up = TRUE /\ linked = FALSE
  /\ active = FALSE /\ dirty = FALSE /\ needFull = FALSE /\ cooling = FALSE
  /\ writer = "none" /\ cached = "no" /\ leaving = "no"
  /\ pass = Idle
  /\ meta = "none" /\ ckpt = NoCkpt /\ log = NoLog
  /\ produced = 0 /\ faults = 0 /\ past = {} /\ excused = FALSE /\ asked = 0

PassSteps ==
  Take \/ Receive \/ AppendIncrements \/ Rename \/ ResetLog

HistoryNext ==
  \/ Output \/ Touched \/ ShellExits \/ ExitEvent \/ Ack
  \/ TimerFires \/ CooldownEnds
  \/ PassSteps
  \/ WriteFails
  \/ RequestTimesOut
  \/ \E how \in {"quit", "sleep"} : Leave(how)
  \/ QuitEnds \/ SleepEnds
  \/ Attach \/ ColdRestore \/ Fresh \/ StaleRestore \/ RacedRestore
  \/ LinkDrops \/ DaemonDies \/ AppCrashes \/ AppStarts

HistorySpec == HistoryInit /\ [][HistoryNext]_historyVars

-----------------------------------------------------------------------------
Token == 1 .. MaxOutput
Tokens == Seq(Token)

\* The shape of the state; undrained records and the log keep their limits, whatever a pass that
\* was asked for under other circumstances adds.
HistoryTypeOK ==
  /\ {live, overflowed, exiting, up, linked, active, dirty, needFull, cooling,
    excused} \subseteq BOOLEAN
  /\ screen \in Tokens /\ pending \in Tokens /\ past \subseteq Tokens
  /\ Len(pending) <= PendingMax
  /\ writer \in {"none", "on", "disabled"} /\ cached \in {"no", "restore", "sleep"}
  /\ leaving \in {"no", "quit", "sleep"} /\ meta \in {"none", "open", "ended"}
  /\ pass.pc \in {"idle", "asked", "replied", "append", "tmp", "reset"}
  /\ pass.kind \in {"tick", "flagged", "escalated", "final"}
  /\ log.tail \in {"missing", "whole", "torn", "garbled"}
  /\ Len(log.records) <= LogMax

\* What a restore brings back is the beginning of what some session of this terminal
\* showed: nothing twice, nothing out of order, nothing missing in between, whatever was
\* cut short.  Exempt are records drained by a request that was lost before the first batch
\* of the log, which the sequence does not show, and what "excused" names.
RestoredIsReal ==
  LET n == Len(Restored)
      Continues(s, i) ==
        /\ IsPrefix(SubSeq(Restored, 1, i), s)
        /\ \E j \in i .. Len(s) - (n - i) :
             SubSeq(Restored, i + 1, n) = SubSeq(s, j + 1, j + n - i)
      MayMiss(i) == i = n \/ (faults # 0 /\ i = Len(ckpt.content))
  IN meta = "open" /\ ~excused =>
       \E s \in past \cup {screen} : \E i \in 0 .. n : Continues(s, i) /\ MayMiss(i)

\* Without a fault nothing is appended past a range that was dropped, whether or not the
\* sequence would show it: an overflow or a full log is followed by a full checkpoint first.
LogHasNoHole ==
  meta = "open" /\ ~excused /\ faults = 0 /\ log.gen = ckpt.gen =>
    \E s \in past \cup {screen} : IsPrefix(ckpt.content \o log.records, s)

\* What the terminal showed when the user put it to sleep is there when it wakes up.
SleepKeepsTheScreen ==
  cached = "sleep" /\ leaving = "no" /\ faults = 0 => Len(Restored) >= asked

\* A new checkpoint never forgets what the one before it had.
CheckpointsGrow ==
  [][~excused /\ meta = "open" /\ meta' = "open" /\ ckpt # ckpt' /\ ckpt' # NoCkpt
       => IsPrefix(ckpt.content, ckpt'.content)]_historyVars

\* Nothing was lost, so the log has no gap (decodeTerminalHistoryLog: "a non-contiguous
\* batch sequence means an appended batch was lost").
GapMeansLoss == faults = 0 => Contiguous

=============================================================================
