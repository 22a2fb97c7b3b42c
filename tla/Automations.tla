------------------------------ MODULE Automations ------------------------------
(***************************************************************************)
(* The scheduler of automations (AutomationService), the store of their    *)
(* runs with its retention, and what launches a run: in serve mode a       *)
(* headless launch the scheduler awaits, on the desktop the renderer,      *)
(* which is told and reports back.  Users edit, delete and run automations *)
(* while that goes on; pages reload, windows close, Orca crashes.          *)
(*                                                                         *)
(* Time passes in half periods of one schedule: an occurrence at every     *)
(* odd time.  The code between two awaits is one step, and the scheduler   *)
(* goes from one automation to the next without a pause unless it awaits.  *)
(***************************************************************************)
EXTENDS Naturals, Sequences, FiniteSets

CONSTANTS
  Autos,      \* the automations, all of them there at the start
  Grace,      \* missedRunGraceMinutes, in half periods
  MaxKept,    \* MAX_AUTOMATION_RUNS_PER_AUTOMATION
  MaxTime,    \* bound: half periods
  MaxEvents   \* bound: what users do, crashes, reloads and closed windows

ASSUME AutomationsAssumption == {Grace, MaxKept, MaxTime, MaxEvents} \subseteq Nat

VARIABLES
  exists, enabled, next,  \* stored: the automations and their nextRunAt
  runs,       \* stored: the runs in the order of creation; a run whose row is gone stays as "gone"
  now,        \* the clock
  serve,      \* is this a server, with a headless dispatcher?
  evaluating, \* the service's guard
  todo, at,   \* what the tick has yet to evaluate, and the time it started at
  awaited,    \* the run whose launch the tick awaits, or 0
  launches,   \* headless launches in progress
  ready,      \* rendererReady, of a window that is there
  page,       \* "none", "loading" or "loaded"
  handlers,   \* runs the page was told to dispatch
  agents,     \* dispatched runs whose end somebody observes
  usage,      \* runs whose usage is being collected
  launched,   \* history: the occurrences launched in this life of Orca
  events      \* bound: so far

stored == <<exists, enabled, next, runs>>
tick == <<evaluating, todo, at, awaited>>
window == <<ready, page, handlers>>
autoVars == <<stored, now, serve, tick, launches, window, agents, usage, launched, events>>

\* "ended" is any status that is final: completed, failed, or skipped for one reason or another.
Status == {"pending", "dispatching", "dispatched", "ended", "gone"}

\* latestAutomationOccurrenceAtOrBefore, from the first occurrence on, and
\* nextAutomationOccurrenceAfter
Latest(t) == IF t % 2 = 1 THEN t ELSE t - 1
NextAfter(t) == IF t % 2 = 1 THEN t + 2 ELSE t + 1

\* Nothing runs to its next await.
Free == awaited # 0 \/ todo = {}
\* Somebody does something, or something goes.
Event == Free /\ events < MaxEvents /\ events' = events + 1

Due(a) == exists[a] /\ enabled[a] /\ next[a] <= now

-----------------------------------------------------------------------------
(* The store.                                                               *)

\* A row that is gone: of what it held, the model recalls its automation.
Gone(run) == [run EXCEPT !.status = "gone", !.at = 0, !.usage = FALSE]

\* Mutant: retention by age, whatever the status.
KeptNewest(rs, i) ==
  Cardinality({j \in DOMAIN rs : j > i /\ rs[j].auto = rs[i].auto /\ rs[j].status # "gone"}) < MaxKept

\* pruneAutomationRuns evicts the older final runs of an automation, and only those.
Kept(rs, i) ==
  \/ rs[i].status # "ended"
  \/ Cardinality({j \in DOMAIN rs : j > i /\ rs[j].auto = rs[i].auto /\ rs[j].status = "ended"}) < MaxKept
Pruned(rs) == [i \in DOMAIN rs |-> IF Kept(rs, i) THEN rs[i] ELSE Gone(rs[i])]

\* createAutomationRun: the run of that occurrence, if it has one.
Found(a, t) == {i \in DOMAIN runs : runs[i].auto = a /\ runs[i].at = t /\ runs[i].status # "gone"}
Created(a, t) ==
  IF Found(a, t) # {} THEN runs
  ELSE Pruned(Append(runs, [auto |-> a, at |-> t, status |-> "pending", usage |-> FALSE]))
RunOf(a, t) == IF Found(a, t) # {} THEN CHOOSE i \in Found(a, t) : TRUE ELSE Len(runs) + 1

Updated(rs, r, status) == [rs EXCEPT ![r].status = status]

-----------------------------------------------------------------------------
(* The scheduler.                                                           *)

\* Mutant: a timer does not look whether a tick is under way.
TickStartsAlways ==
  /\ Free /\ \E a \in Autos : Due(a)
  /\ evaluating' = TRUE
  /\ todo' = {a \in Autos : Due(a)} /\ at' = now /\ awaited' = 0
  /\ UNCHANGED <<stored, now, serve, launches, window, agents, usage, launched, events>>

\* evaluateDueRuns, by the timer or a page that is ready.  The automations are those of now.
TickStarts ==
  /\ Free /\ ~evaluating /\ \E a \in Autos : Due(a)
  /\ evaluating' = TRUE
  /\ todo' = {a \in Autos : Due(a)} /\ at' = now
  /\ UNCHANGED <<stored, now, serve, awaited, launches, window, agents, usage, launched, events>>

\* Mutant: a tick is over with its first automation.
AdvanceEarly(a, rest) ==
  IF exists[a]
    THEN /\ next' = [next EXCEPT ![a] = NextAfter(at)]
         /\ todo' = rest /\ evaluating' = FALSE /\ awaited' = 0
         /\ at' = IF rest = {} THEN 0 ELSE at
    ELSE /\ evaluating' = FALSE /\ todo' = {} /\ awaited' = 0 /\ at' = 0
         /\ UNCHANGED next

\* Mutant: a tick that fails stays under way.
AdvanceStuck(a, rest) ==
  IF exists[a]
    THEN /\ next' = [next EXCEPT ![a] = NextAfter(at)]
         /\ todo' = rest /\ evaluating' = (rest # {}) /\ awaited' = 0
         /\ at' = IF rest = {} THEN 0 ELSE at
    ELSE /\ todo' = {} /\ awaited' = 0 /\ at' = 0
         /\ UNCHANGED <<next, evaluating>>

\* advanceAutomationNextRun, then the rest of the tick; it throws for an automation that was
\* deleted, which ends the tick.
Advance(a, rest) ==
  IF exists[a]
    THEN /\ next' = [next EXCEPT ![a] = NextAfter(at)]
         /\ todo' = rest /\ evaluating' = (rest # {}) /\ awaited' = 0
         /\ at' = IF rest = {} THEN 0 ELSE at
    ELSE /\ evaluating' = FALSE /\ todo' = {} /\ awaited' = 0 /\ at' = 0
         /\ UNCHANGED next

\* The next automation of the tick, in the order of listAutomations.
Turn(a) == awaited = 0 /\ todo # {} /\ a = CHOOSE x \in todo : TRUE

\* The automation's latest occurrence was missed for too long.
Missed(a) ==
  /\ Turn(a) /\ at - Latest(at) > Grace
  /\ runs' = Updated(Created(a, Latest(at)), RunOf(a, Latest(at)), "ended")
  /\ Advance(a, todo \ {a})
  /\ UNCHANGED <<exists, enabled, now, serve, launches, window, agents, usage, launched, events>>

\* requestDispatch of r, a run of rs: no target and no window skip it ...
Skips(rs, r) ==
  /\ runs' = Updated(rs, r, "ended")
  /\ UNCHANGED <<launches, handlers, launched>>
\* ... a page that is ready is told, if it can listen ...
Tells(rs, r) ==
  /\ ready
  /\ runs' = Updated(rs, r, "dispatching")
  /\ handlers' = IF page = "loaded" THEN handlers \cup {r} ELSE handlers
  /\ launched' = IF rs[r].at = 0 THEN launched ELSE Append(launched, <<rs[r].auto, rs[r].at>>)
  /\ UNCHANGED launches
\* ... and a server launches it.
Launches(rs, r) ==
  /\ serve /\ ~ready
  /\ runs' = rs /\ launches' = launches \cup {r} /\ launched' = IF rs[r].at = 0 THEN launched ELSE Append(launched, <<rs[r].auto, rs[r].at>>)
  /\ UNCHANGED handlers

\* evaluateAutomation.
Evaluate(a) ==
  /\ Turn(a) /\ at - Latest(at) <= Grace
  /\ LET rs == Created(a, Latest(at))
         r == RunOf(a, Latest(at))
     IN \/ (Skips(rs, r) \/ Tells(rs, r)) /\ Advance(a, todo \ {a})
        \/ Launches(rs, r) /\ awaited' = r /\ UNCHANGED <<next, todo, at, evaluating>>
  /\ UNCHANGED <<exists, enabled, now, serve, ready, page, agents, usage, events>>

\* runNow: a run of its own time.
RunNow(a) ==
  /\ Event /\ exists[a]
  /\ LET rs == Pruned(Append(runs, [auto |-> a, at |-> 0, status |-> "pending", usage |-> FALSE]))
         r == Len(runs) + 1
     IN Skips(rs, r) \/ Tells(rs, r) \/ Launches(rs, r)
  /\ UNCHANGED <<exists, enabled, next, now, serve, tick, ready, page, agents, usage>>

\* A headless launch ends: refused by its precheck, failed, or with an agent at work.  Without its
\* row it throws; so does the precheck of an automation that was deleted.
LaunchEnds(r) ==
  /\ Free /\ r \in launches
  /\ launches' = launches \ {r}
  /\ LET lost == runs[r].status = "gone"
         fails == lost \/ ~exists[runs[r].auto]
     IN /\ \/ /\ ~lost /\ runs' = Updated(runs, r, "ended")
              /\ UNCHANGED agents
           \/ /\ ~lost /\ runs' = Updated(runs, r, "dispatched")
              /\ agents' = agents \cup {r}
           \/ fails /\ UNCHANGED <<runs, agents>>
        /\ IF r = awaited THEN Advance(runs[r].auto, todo \ {runs[r].auto})
           ELSE UNCHANGED <<next, tick>>
  /\ UNCHANGED <<exists, enabled, now, serve, window, usage, launched, events>>

-----------------------------------------------------------------------------
(* Results.                                                                 *)

\* markDispatchResult: the usage of a run that ended is collected, unless it is there.  Without
\* its row it throws.
Marked(r, status) ==
  IF runs[r].status = "gone" THEN UNCHANGED <<runs, usage>>
  ELSE /\ runs' = Updated(runs, r, status)
       /\ usage' = IF status = "ended" /\ ~runs[r].usage THEN usage \cup {r}
                   ELSE usage

\* The agent of a run is done, or exits.
AgentEnds(r) ==
  /\ Free /\ r \in agents
  /\ agents' = agents \ {r}
  /\ Marked(r, "ended")
  /\ UNCHANGED <<exists, enabled, next, now, serve, tick, launches, window, launched, events>>

\* The usage is known: written, with the status of then, if the row is still there.
UsageCollected(r) ==
  /\ Free /\ r \in usage
  /\ usage' = usage \ {r}
  /\ runs' = IF runs[r].status = "gone" THEN runs
             ELSE [runs EXCEPT ![r].status = "ended", ![r].usage = TRUE]
  /\ UNCHANGED <<exists, enabled, next, now, serve, tick, launches, window, agents, launched, events>>

\* The page dispatches a run it was told of: it gives it up, or there is an agent at work.
PageDispatches(r) ==
  /\ Free /\ r \in handlers
  /\ handlers' = handlers \ {r}
  /\ \/ /\ Marked(r, "ended")
        /\ UNCHANGED agents
     \/ /\ Marked(r, "dispatched")
        /\ agents' = IF runs[r].status = "gone" THEN agents ELSE agents \cup {r}
  /\ UNCHANGED <<exists, enabled, next, now, serve, tick, launches, ready, page, launched, events>>

\* The automations page sees the agent of a dispatched run done, whoever else observes it.
PageCompletes(r) ==
  /\ Free /\ page = "loaded" /\ r \in DOMAIN runs /\ runs[r].status = "dispatched"
  /\ Marked(r, "ended")
  /\ UNCHANGED <<exists, enabled, next, now, serve, tick, launches, window, agents, launched, events>>

-----------------------------------------------------------------------------
(* The user and the world.                                                  *)

Delete(a) ==
  /\ Event /\ exists[a]
  /\ exists' = [exists EXCEPT ![a] = FALSE]
  /\ runs' = [i \in DOMAIN runs |-> IF runs[i].auto = a THEN Gone(runs[i]) ELSE runs[i]]
  /\ UNCHANGED <<enabled, next, now, serve, tick, launches, window, agents, usage, launched>>

Toggle(a) ==
  /\ Event /\ exists[a]
  /\ enabled' = [enabled EXCEPT ![a] = ~@]
  /\ UNCHANGED <<exists, next, runs, now, serve, tick, launches, window, agents, usage, launched>>

\* An edit of the schedule.
Reschedule(a) ==
  /\ Event /\ exists[a]
  /\ next' = [next EXCEPT ![a] = NextAfter(now)]
  /\ UNCHANGED <<exists, enabled, runs, now, serve, tick, launches, window, agents, usage, launched>>

TimePasses ==
  /\ Free /\ now < MaxTime /\ now' = now + 1
  /\ UNCHANGED <<stored, serve, tick, launches, window, agents, usage, launched, events>>

\* setWebContents; a server has no window.
WindowOpens ==
  /\ Free /\ ~serve /\ page = "none"
  /\ page' = "loading" /\ ready' = FALSE
  /\ UNCHANGED <<stored, now, serve, tick, launches, handlers, agents, usage, launched, events>>

\* setRendererReady
PageLoads ==
  /\ Free /\ page = "loading"
  /\ page' = "loaded" /\ ready' = TRUE
  /\ UNCHANGED <<stored, now, serve, tick, launches, handlers, agents, usage, launched, events>>

\* A page that goes takes its handlers and observers along; the service learns of a closed window
\* and not of a reload.
PageGoes ==
  /\ Event /\ page = "loaded"
  /\ \/ page' = "none" /\ ready' = FALSE
     \/ page' = "loading" /\ ready' = ready
  /\ handlers' = {} /\ agents' = {}
  /\ UNCHANGED <<stored, now, serve, tick, launches, usage, launched>>

\* Orca crashes: what is stored remains.
Crash ==
  /\ Event
  /\ evaluating' = FALSE /\ todo' = {} /\ at' = 0 /\ awaited' = 0 /\ launches' = {}
  /\ ready' = FALSE /\ page' = "none" /\ handlers' = {} /\ agents' = {} /\ usage' = {}
  /\ launched' = <<>>
  /\ UNCHANGED <<stored, now, serve>>

-----------------------------------------------------------------------------
AutoInit ==
  /\ exists = [a \in Autos |-> TRUE] /\ enabled = [a \in Autos |-> TRUE]
  /\ next = [a \in Autos |-> NextAfter(0)]
  /\ runs = <<>> /\ now = 0 /\ serve \in BOOLEAN
  /\ evaluating = FALSE /\ todo = {} /\ at = 0 /\ awaited = 0
  /\ launches = {} /\ ready = FALSE /\ page = "none" /\ handlers = {} /\ agents = {} /\ usage = {}
  /\ launched = <<>> /\ events = 0

Scheduler == TickStarts \/ \E a \in Autos : Missed(a) \/ Evaluate(a)

AutoNext ==
  \/ TickStarts \/ TimePasses \/ WindowOpens \/ PageLoads \/ PageGoes \/ Crash
  \/ \E a \in Autos : Missed(a) \/ Evaluate(a) \/ RunNow(a) \/ Delete(a) \/ Toggle(a) \/ Reschedule(a)
  \/ \E r \in DOMAIN runs : LaunchEnds(r) \/ AgentEnds(r) \/ PageDispatches(r) \/ PageCompletes(r)
  \/ \E r \in usage : UsageCollected(r)

AutoSpec == AutoInit /\ [][AutoNext]_autoVars

\* The timer fires.  Nothing is assumed of launches, agents, pages and users.
FairAutoSpec == AutoSpec /\ WF_autoVars(Scheduler)

-----------------------------------------------------------------------------
\* The shape of the state; every reference to a run is a run that was created, and a tick that has
\* automations left is under way.
AutomationsTypeOK ==
  /\ exists \in [Autos -> BOOLEAN] /\ enabled \in [Autos -> BOOLEAN] /\ next \in [Autos -> Nat]
  /\ now \in 0 .. MaxTime /\ at \in 0 .. now /\ serve \in BOOLEAN /\ ready \in BOOLEAN
  /\ \A i \in DOMAIN runs :
       /\ runs[i].auto \in Autos /\ runs[i].at \in 0 .. now
       /\ runs[i].status \in Status /\ runs[i].usage \in BOOLEAN
  /\ todo \subseteq Autos /\ page \in {"none", "loading", "loaded"}
  /\ launches \cup handlers \cup agents \subseteq DOMAIN runs
  /\ awaited # 0 => awaited \in launches /\ todo # {}
  /\ todo # {} => evaluating

\* An occurrence is launched once in a life of Orca, however timers, slow launches, pages that get
\* ready, edits and deletions fall together.
LaunchedOnce == \A i, j \in DOMAIN launched : i # j => launched[i] # launched[j]

\* The row of a run somebody will still report on is there, unless its automation was deleted:
\* retention leaves it alone, however many runs come and go in the meantime.  (On the desktop an
\* agent has two observers, and the second may come when the run has ended and gone.)
ReportsFindTheirRun ==
  \A r \in launches \cup handlers \cup (IF serve THEN agents ELSE {}) :
    runs[r].status = "gone" => ~exists[runs[r].auto]

\* If the launches it awaits end, the scheduler gets to every automation that is due.
DueIsHandled == []<>(awaited = 0) => \A a \in Autos : Due(a) ~> ~Due(a)

=============================================================================
