--------------------------- MODULE AutomationsProofs ---------------------------
(***************************************************************************)
(* Theorems about Automations, for every number of automations, every      *)
(* grace and retention, and any number of events.                          *)
(***************************************************************************)
EXTENDS Automations, SequenceTheorems, TLAPS

(***************************************************************************)
(* The schedule.                                                           *)
(***************************************************************************)

\* The latest occurrence and the next one lie around the time, and nothing between them.
LEMMA Occurrences ==
  ASSUME NEW t \in Nat
  PROVE  /\ NextAfter(t) \in Nat /\ NextAfter(t) % 2 = 1 /\ t < NextAfter(t)
         /\ t > 0 => /\ Latest(t) \in 1 .. t /\ Latest(t) < NextAfter(t)
                     /\ \A n \in Nat : n % 2 = 1 /\ n <= t => n <= Latest(t)
<1>1. NextAfter(t) \in Nat /\ NextAfter(t) % 2 = 1 /\ t < NextAfter(t)
  BY DEF NextAfter
<1>2. ASSUME t > 0 PROVE Latest(t) \in 1 .. t /\ Latest(t) < NextAfter(t)
  BY <1>2 DEF Latest, NextAfter
<1>3. ASSUME t > 0, NEW n \in Nat, n % 2 = 1, n <= t PROVE n <= Latest(t)
  BY <1>3 DEF Latest
<1> QED
  BY <1>1, <1>2, <1>3

-----------------------------------------------------------------------------
(***************************************************************************)
(* The rows of runs.                                                       *)
(***************************************************************************)

RunType == [auto : Autos, at : Nat, status : Status, usage : BOOLEAN]

\* Retention takes an ended row, or leaves the row alone.
Ages(row, new) == new = row \/ (row.status = "ended" /\ new = Gone(row))

\* A function on 1 .. n is a sequence of that length.
LEMMA RunsAreSeq ==
  ASSUME NEW n \in Nat, NEW f \in [1 .. n -> RunType]
  PROVE  f \in Seq(RunType) /\ Len(f) = n
<1>1. f \in Seq(RunType)
  BY SeqDef
<1> QED
  BY <1>1, LenProperties

\* A row that is gone keeps its automation and has no occurrence.
LEMMA GoneRow ==
  ASSUME NEW row \in RunType
  PROVE  /\ Gone(row) \in RunType /\ Gone(row).auto = row.auto
         /\ Gone(row).status = "gone" /\ Gone(row).at = 0
  BY DEF Gone, RunType, Status

\* pruneAutomationRuns takes only rows that ended.
LEMMA PrunedRows ==
  ASSUME NEW rs \in Seq(RunType)
  PROVE  /\ Pruned(rs) \in Seq(RunType) /\ Len(Pruned(rs)) = Len(rs)
         /\ \A i \in 1 .. Len(rs) : Ages(rs[i], Pruned(rs)[i])
<1> DEFINE new == Pruned(rs)
<1>1. DOMAIN rs = 1 .. Len(rs) /\ Len(rs) \in Nat
  BY LenProperties
<1>2. ASSUME NEW i \in 1 .. Len(rs) PROVE new[i] \in RunType /\ Ages(rs[i], new[i])
  <2>1. rs[i] \in RunType
    BY ElementOfSeq
  <2>2. new[i] = IF Kept(rs, i) THEN rs[i] ELSE Gone(rs[i])
    BY <1>1 DEF Pruned
  <2>3. ~Kept(rs, i) => rs[i].status = "ended"
    BY DEF Kept
  <2>4. CASE Kept(rs, i)
    BY <2>1, <2>2, <2>4 DEF Ages
  <2>5. CASE ~Kept(rs, i)
    BY <2>1, <2>2, <2>3, <2>5, GoneRow DEF Ages
  <2> QED
    BY <2>4, <2>5
<1>3. new \in [1 .. Len(rs) -> RunType]
  <2>1. new = [i \in 1 .. Len(rs) |-> new[i]]
    BY <1>1 DEF Pruned
  <2> HIDE DEF new
  <2> QED
    BY <1>2, <2>1
<1>4. new \in Seq(RunType) /\ Len(new) = Len(rs)
  BY <1>1, <1>3, RunsAreSeq
<1> QED
  BY <1>2, <1>4

\* updateAutomationRun changes the status of one row.
LEMMA UpdatedRows ==
  ASSUME NEW rs \in Seq(RunType), NEW r \in 1 .. Len(rs), NEW status \in Status
  PROVE  LET new == Updated(rs, r, status)
         IN /\ new \in Seq(RunType) /\ Len(new) = Len(rs)
            /\ \A i \in 1 .. Len(rs) : i # r => new[i] = rs[i]
            /\ new[r].auto = rs[r].auto /\ new[r].at = rs[r].at /\ new[r].status = status
<1> DEFINE row == [rs[r] EXCEPT !.status = status]
<1>1. rs[r] \in RunType
  BY ElementOfSeq
<1>2. row \in RunType /\ row.auto = rs[r].auto /\ row.at = rs[r].at /\ row.status = status
  BY <1>1 DEF RunType
<1>3. Updated(rs, r, status) = [rs EXCEPT ![r] = row]
  BY DEF Updated
<1> HIDE DEF row
<1> QED
  BY <1>2, <1>3, ExceptSeq

-----------------------------------------------------------------------------
(***************************************************************************)
(* The inductive invariant.                                                *)
(***************************************************************************)

TypeInv ==
  /\ exists \in [Autos -> BOOLEAN] /\ enabled \in [Autos -> BOOLEAN] /\ next \in [Autos -> Nat]
  /\ runs \in Seq(RunType) /\ \A r \in 1 .. Len(runs) : runs[r].at <= now
  /\ now \in 0 .. MaxTime /\ at \in 0 .. now /\ awaited \in Nat
  /\ serve \in BOOLEAN /\ ready \in BOOLEAN /\ page \in {"none", "loading", "loaded"}
  /\ todo \subseteq Autos
  /\ launches \cup handlers \cup agents \cup usage \subseteq 1 .. Len(runs)
  /\ launched \in Seq(Autos \X Nat)

\* A server has no window, and only a server launches.
ModeInv ==
  /\ serve => page = "none" /\ ~ready /\ handlers = {}
  /\ ~serve => launches = {}

\* A tick with automations left started at some time, and awaits the launch of one of them at most,
\* for the occurrence that was the latest then.
TickInv ==
  /\ \A a \in Autos : next[a] % 2 = 1
  /\ todo # {} => evaluating /\ at > 0
  /\ awaited # 0 =>
       /\ awaited \in launches /\ runs[awaited].auto \in todo
       /\ runs[awaited].status # "gone" => runs[awaited].at = Latest(at)

Awaits(a) == awaited # 0 /\ runs[awaited].auto = a

\* The schedule is past the occurrence t of a, and so is the tick that is under way.
Behind(a, t) ==
  /\ t <= now
  /\ exists[a] => t < next[a]
  /\ a \in todo => t < Latest(at)

\* What was launched is behind the schedule, but for the occurrence whose launch is awaited.
LaunchInv ==
  /\ LaunchedOnce
  /\ \A i \in 1 .. Len(launched) :
       \/ Behind(launched[i][1], launched[i][2])
       \/ Awaits(launched[i][1]) /\ launched[i][2] = Latest(at)

Lost(r) == runs[r].status = "gone" /\ ~exists[runs[r].auto]

\* A run has at most one owner, told by its status, and a run that got further than "pending" is
\* behind the schedule.
RowOK(r) ==
  /\ runs[r].status = "gone" => runs[r].at = 0
  /\ r \in launches => /\ runs[r].status = "pending" \/ Lost(r)
                       /\ runs[r].at # 0 => r = awaited
  /\ r \in handlers => runs[r].status = "dispatching" \/ Lost(r)
  /\ r \in agents => IF serve THEN runs[r].status = "dispatched" \/ Lost(r)
                     ELSE runs[r].status \in {"dispatched", "ended", "gone"}
  /\ r \in usage => runs[r].status \in {"ended", "gone"}
  /\ runs[r].at # 0 /\ runs[r].status # "pending" => Behind(runs[r].auto, runs[r].at)

RowInv == \A r \in 1 .. Len(runs) : RowOK(r)

AutoInv == TypeInv /\ ModeInv /\ TickInv /\ LaunchInv /\ RowInv

-----------------------------------------------------------------------------
(***************************************************************************)
(* What is behind the schedule stays there.                                *)
(***************************************************************************)

\* The end of an automation's turn puts its latest occurrence behind the schedule, and keeps what
\* is behind it there.
LEMMA AdvanceSettles ==
  ASSUME TypeInv, TickInv, NEW a \in todo, Advance(a, todo \ {a}), exists' = exists, now' = now
  PROVE  /\ \A t \in Nat : t = Latest(at) => Behind(a, t)'
         /\ \A b \in Autos, t \in Nat : Behind(b, t) => Behind(b, t)'
         /\ next' \in [Autos -> Nat] /\ \A b \in Autos : next'[b] % 2 = 1
         /\ at' \in 0 .. now' /\ awaited' = 0 /\ todo' \subseteq Autos
         /\ todo' # {} => evaluating' /\ at' > 0
<1>1. at \in Nat /\ at > 0 /\ at <= now /\ now \in Nat /\ a \in Autos
  BY DEF TypeInv, TickInv
<1>2. /\ NextAfter(at) \in Nat /\ NextAfter(at) % 2 = 1
      /\ Latest(at) \in 1 .. at /\ Latest(at) < NextAfter(at)
  BY <1>1, Occurrences
<1> DEFINE Settled == \A t \in Nat : t = Latest(at) => Behind(a, t)'
<1>3. CASE exists[a]
  <2>1. /\ next' = [next EXCEPT ![a] = NextAfter(at)]
        /\ todo' = todo \ {a} /\ evaluating' = (todo' # {}) /\ awaited' = 0
        /\ at' = IF todo' = {} THEN 0 ELSE at
    BY <1>3 DEF Advance
  <2>2. next' \in [Autos -> Nat] /\ \A b \in Autos : next'[b] = IF b = a THEN NextAfter(at) ELSE next[b]
    BY <1>1, <1>2, <2>1 DEF TypeInv
  <2>3. Latest(at) <= now' /\ Latest(at) < next'[a] /\ a \notin todo'
    BY <1>1, <1>2, <2>1, <2>2
  <2>4. ASSUME NEW b \in Autos, NEW t \in Nat, Behind(b, t) PROVE Behind(b, t)'
    <3>1. exists'[b] => t < next'[b]
      BY <1>1, <1>2, <1>3, <2>2, <2>4 DEF Behind
    <3>2. b \in todo' => t < Latest(at')
      BY <2>1, <2>4 DEF Behind
    <3> QED
      BY <2>4, <3>1, <3>2 DEF Behind
  <2>5. Settled
    BY <2>3 DEF Behind
  <2>6. at' \in 0 .. now' /\ (todo' # {} => at' > 0) /\ todo' \subseteq Autos
    BY <1>1, <2>1 DEF TypeInv
  <2>7. \A b \in Autos : next'[b] % 2 = 1
    BY <1>2, <2>2 DEF TickInv
  <2>8. todo' # {} => evaluating'
    BY <2>1
  <2> QED
    BY <2>1, <2>2, <2>4, <2>5, <2>6, <2>7, <2>8
<1>4. CASE ~exists[a]
  <2>1. evaluating' = FALSE /\ todo' = {} /\ awaited' = 0 /\ at' = 0 /\ next' = next
    BY <1>4 DEF Advance
  <2>2. \A b \in Autos, t \in Nat : Behind(b, t) => Behind(b, t)'
    BY <2>1 DEF Behind
  <2>3. Settled
    BY <1>1, <1>2, <1>4, <2>1 DEF Behind
  <2> QED
    BY <1>1, <2>1, <2>2, <2>3 DEF TypeInv, TickInv
<1> QED
  BY <1>3, <1>4

\* Every row is a run of an automation, of some time.
LEMMA RowTypes ==
  ASSUME TypeInv, NEW r \in 1 .. Len(runs)
  PROVE  runs[r] \in RunType /\ runs[r].auto \in Autos /\ runs[r].at \in Nat
<1>1. runs[r] \in RunType
  BY ElementOfSeq DEF TypeInv
<1> QED
  BY <1>1 DEF RunType

BehindStays == \A b \in Autos, t \in Nat : Behind(b, t) => Behind(b, t)'

\* The launches of this life stay as they should be while the awaited one goes on, or settles.
LEMMA LaunchInvKept ==
  ASSUME TypeInv, LaunchInv, BehindStays, launched' = launched,
         \A a \in Autos : Awaits(a) => \/ Awaits(a)' /\ at' = at
                                      \/ \A t \in Nat : t = Latest(at) => Behind(a, t)'
  PROVE  LaunchInv'
<1>1. ASSUME NEW i \in 1 .. Len(launched)
      PROVE  \/ Behind(launched[i][1], launched[i][2])'
             \/ (Awaits(launched[i][1]) /\ launched[i][2] = Latest(at))'
  <2>1. launched[i] \in Autos \X Nat
    BY ElementOfSeq DEF TypeInv
  <2>2. PICK a \in Autos, t \in Nat : launched[i] = <<a, t>>
    BY <2>1
  <2>3. Behind(a, t) \/ (Awaits(a) /\ t = Latest(at))
    BY <2>2 DEF LaunchInv
  <2>4. Behind(a, t)' \/ (Awaits(a)' /\ t = Latest(at'))
    BY <2>3 DEF BehindStays
  <2>5. launched' = launched /\ launched'[i][1] = a /\ launched'[i][2] = t
    BY <2>2
  <2> QED
    BY <2>2, <2>4, <2>5 DEF Behind, Awaits
<1>2. LaunchedOnce'
  BY DEF LaunchInv, LaunchedOnce
<1> QED
  BY <1>1, <1>2 DEF LaunchInv

\* A row that at most ages stays as it should be while nobody becomes its owner.
LEMMA RowKept ==
  ASSUME TypeInv, NEW r \in 1 .. Len(runs), RowOK(r), Ages(runs[r], runs'[r]), BehindStays,
         serve' = serve, \A a \in Autos : exists'[a] => exists[a],
         r \in launches' => r \in launches,
         r \in launches' /\ r = awaited => r = awaited',
         r \in handlers' => r \in handlers,
         r \in agents' => r \in agents,
         r \in usage' => r \in usage
  PROVE  RowOK(r)'
<1>1. runs[r] \in RunType
  BY ElementOfSeq DEF TypeInv
<1>2. CASE runs'[r] = runs[r]
  <2>1. runs[r].auto \in Autos /\ runs[r].at \in Nat
    BY <1>1 DEF RunType
  <2>2. \A a \in Autos, t \in Nat :
          a = runs[r].auto /\ t = runs[r].at /\ t # 0 /\ runs[r].status # "pending" => Behind(a, t)'
    BY DEF RowOK, BehindStays
  <2>3. Lost(r) => Lost(r)'
    BY <1>2, <2>1 DEF Lost
  <2>4. runs'[r].at # 0 /\ runs'[r].status # "pending" => Behind(runs[r].auto, runs[r].at)'
    BY <1>2, <2>1, <2>2 DEF Behind
  <2> QED
    BY <1>2, <2>3, <2>4 DEF RowOK
<1>3. CASE runs[r].status = "ended" /\ runs'[r] = Gone(runs[r])
  <2>1. runs'[r].status = "gone" /\ runs'[r].at = 0
    BY <1>1, <1>3, GoneRow
  <2>2. r \notin launches /\ r \notin handlers /\ (serve => r \notin agents)
    BY <1>3 DEF RowOK, Lost
  <2> QED
    BY <2>1, <2>2 DEF RowOK
<1> QED
  BY <1>2, <1>3 DEF Ages

\* Where no row changes and nobody becomes an owner, the rows stay as they should be.
LEMMA SameRows ==
  ASSUME TypeInv, RowInv, BehindStays, UNCHANGED <<runs, serve>>,
         \A a \in Autos : exists'[a] => exists[a],
         launches' \subseteq launches, handlers' \subseteq handlers, agents' \subseteq agents,
         usage' \subseteq usage, awaited' = awaited \/ launches' = {}
  PROVE  RowInv'
<1>1. ASSUME NEW r \in 1 .. Len(runs) PROVE RowOK(r)'
  BY RowKept DEF Ages, RowInv
<1> QED
  BY <1>1 DEF RowInv

-----------------------------------------------------------------------------
(***************************************************************************)
(* The steps.                                                              *)
(***************************************************************************)

\* Windows and pages come and go, time passes, automations are switched on and off.
LEMMA WorldSteps ==
  ASSUME AutoInv,
         \/ TimePasses \/ WindowOpens \/ PageLoads \/ PageGoes \/ UNCHANGED autoVars
         \/ \E a \in Autos : Toggle(a)
  PROVE  AutoInv'
<1> DEFINE Same == UNCHANGED <<exists, next, runs, serve, tick, launches, usage, launched>>
<1>1. /\ Same
      /\ now \in Nat /\ now' \in 0 .. MaxTime /\ now <= now'
      /\ enabled' \in [Autos -> BOOLEAN]
      /\ ready' \in BOOLEAN /\ page' \in {"none", "loading", "loaded"}
      /\ handlers' \subseteq handlers /\ agents' \subseteq agents
      /\ serve => page' = "none" /\ ~ready'
  <2>1. /\ now \in 0 .. MaxTime /\ now \in Nat /\ MaxTime \in Nat /\ enabled \in [Autos -> BOOLEAN]
        /\ ready \in BOOLEAN /\ page \in {"none", "loading", "loaded"}
        /\ serve => page = "none" /\ ~ready
    BY AutomationsAssumption DEF AutoInv, TypeInv, ModeInv
  <2>2. CASE TimePasses
    <3>1. /\ Same /\ now' = now + 1 /\ now < MaxTime
          /\ UNCHANGED <<enabled, ready, page, handlers, agents>>
      BY <2>2 DEF TimePasses, stored, window
    <3> QED
      BY <2>1, <3>1
  <2>3. CASE WindowOpens
    <3>1. /\ Same /\ ~serve /\ page' = "loading" /\ ready' = FALSE
          /\ UNCHANGED <<enabled, now, handlers, agents>>
      BY <2>3 DEF WindowOpens, stored
    <3>2. now' \in 0 .. MaxTime /\ now <= now' /\ enabled' \in [Autos -> BOOLEAN]
      BY <2>1, <3>1
    <3>3. (serve => page' = "none" /\ ~ready') /\ ready' \in BOOLEAN
      BY <3>1
    <3> QED
      BY <2>1, <3>1, <3>2, <3>3
  <2>4. CASE PageLoads
    BY <2>1, <2>4 DEF PageLoads, stored
  <2>5. CASE PageGoes
    <3>1. /\ Same /\ page = "loaded" /\ page' \in {"none", "loading"} /\ ready' \in {FALSE, ready}
          /\ UNCHANGED <<enabled, now>> /\ handlers' = {} /\ agents' = {}
      BY <2>5 DEF PageGoes, stored
    <3>2. ~serve
      BY <2>1, <3>1
    <3>3. now' \in 0 .. MaxTime /\ now <= now' /\ enabled' \in [Autos -> BOOLEAN]
      BY <2>1, <3>1
    <3>4. (serve => page' = "none" /\ ~ready') /\ ready' \in BOOLEAN
      BY <2>1, <3>1, <3>2
    <3> QED
      BY <2>1, <3>1, <3>3, <3>4
  <2>6. CASE UNCHANGED autoVars
    BY <2>1, <2>6 DEF autoVars, stored, window
  <2>7. ASSUME NEW a \in Autos, Toggle(a)
        PROVE  /\ Same
               /\ now \in Nat /\ now' \in 0 .. MaxTime /\ now <= now'
               /\ enabled' \in [Autos -> BOOLEAN]
               /\ ready' \in BOOLEAN /\ page' \in {"none", "loading", "loaded"}
               /\ handlers' \subseteq handlers /\ agents' \subseteq agents
               /\ serve => page' = "none" /\ ~ready'
    <3>1. Same /\ UNCHANGED <<now, ready, page, handlers, agents>>
      BY <2>7 DEF Toggle, window
    <3>2. enabled' \in [Autos -> BOOLEAN]
      BY <2>1, <2>7 DEF Toggle
    <3> QED
      BY <2>1, <3>1, <3>2
  <2> QED
    BY <2>2, <2>3, <2>4, <2>5, <2>6, <2>7
<1>2. TypeInv' /\ ModeInv' /\ TickInv'
  <2>1. UNCHANGED <<exists, next, runs, serve, evaluating, todo, at, awaited, launches, usage, launched>>
    BY <1>1 DEF tick
  <2>2. \A r \in 1 .. Len(runs) : runs[r].at \in Nat
    BY RowTypes DEF AutoInv
  <2>3. TypeInv'
    <3>1. (\A r \in 1 .. Len(runs) : runs[r].at <= now') /\ at \in 0 .. now'
      BY <1>1, <2>2 DEF AutoInv, TypeInv
    <3> QED
      BY <1>1, <2>1, <3>1 DEF AutoInv, TypeInv
  <2>4. ModeInv' /\ TickInv'
    BY <1>1, <2>1 DEF AutoInv, ModeInv, TickInv
  <2> QED
    BY <2>3, <2>4
<1>3. BehindStays
  BY <1>1 DEF BehindStays, Behind, tick
<1>4. LaunchInv'
  BY <1>1, <1>3, LaunchInvKept DEF AutoInv, Awaits, tick
<1>5. RowInv'
  BY <1>1, <1>3, SameRows DEF AutoInv, tick
<1> QED
  BY <1>2, <1>4, <1>5 DEF AutoInv

\* A tick starts: what is behind the schedule is behind the latest occurrence.
LEMMA TickStartsStep ==
  ASSUME AutoInv, TickStarts
  PROVE  AutoInv'
<1>1. /\ ~evaluating /\ evaluating' = TRUE /\ todo' = {a \in Autos : Due(a)} /\ at' = now
      /\ UNCHANGED <<exists, enabled, next, runs, now, serve, awaited, launches, ready, page,
                     handlers, agents, usage, launched>>
  BY DEF TickStarts, stored, window
<1>2. todo = {} /\ awaited = 0 /\ now \in Nat
  BY <1>1 DEF AutoInv, TypeInv, TickInv
<1>3. ASSUME NEW a \in Autos, Due(a) PROVE now > 0 /\ next[a] <= Latest(now)
  <2>1. next[a] \in Nat /\ next[a] % 2 = 1 /\ next[a] <= now
    BY <1>3 DEF AutoInv, TypeInv, TickInv, Due
  <2>2. now > 0
    BY <1>2, <2>1
  <2> QED
    BY <1>2, <2>1, <2>2, Occurrences
<1>4. TypeInv'
  BY <1>1 DEF AutoInv, TypeInv
<1>5. ModeInv'
  BY <1>1 DEF AutoInv, ModeInv
<1>6. TickInv'
  BY <1>1, <1>2, <1>3 DEF AutoInv, TickInv
<1>7. BehindStays
  <2> SUFFICES ASSUME NEW b \in Autos, NEW t \in Nat, Behind(b, t) PROVE Behind(b, t)'
    BY DEF BehindStays
  <2>1. ASSUME b \in todo' PROVE t < Latest(at')
    <3>1. Due(b) /\ t < next[b] /\ next[b] \in Nat
      BY <1>1, <2>1 DEF Due, Behind, AutoInv, TypeInv
    <3>2. Latest(now) \in Nat
      BY <1>2, <1>3, <3>1, Occurrences
    <3> QED
      BY <1>1, <1>3, <3>1, <3>2
  <2> QED
    BY <1>1, <2>1 DEF Behind
<1>8. LaunchInv'
  BY <1>1, <1>2, <1>7, LaunchInvKept DEF AutoInv, Awaits
<1>9. RowInv'
  BY <1>1, <1>7, SameRows DEF AutoInv
<1> QED
  BY <1>4, <1>5, <1>6, <1>8, <1>9 DEF AutoInv

\* An edit of the schedule: the next occurrence is yet to come.
LEMMA RescheduleStep ==
  ASSUME AutoInv, NEW a \in Autos, Reschedule(a)
  PROVE  AutoInv'
<1>1. /\ next' = [next EXCEPT ![a] = NextAfter(now)]
      /\ UNCHANGED <<exists, enabled, runs, now, serve, evaluating, todo, at, awaited, launches,
                     ready, page, handlers, agents, usage, launched>>
  BY DEF Reschedule, tick, window
<1>2. now \in Nat /\ NextAfter(now) \in Nat /\ NextAfter(now) % 2 = 1 /\ now < NextAfter(now)
  BY Occurrences DEF AutoInv, TypeInv
<1>3. \A b \in Autos : next'[b] = IF b = a THEN NextAfter(now) ELSE next[b]
  BY <1>1 DEF AutoInv, TypeInv
<1>4. TypeInv'
  <2>1. next' \in [Autos -> Nat]
    BY <1>1, <1>2 DEF AutoInv, TypeInv
  <2> QED
    BY <1>1, <2>1 DEF AutoInv, TypeInv
<1>5. ModeInv' /\ TickInv'
  BY <1>1, <1>2, <1>3 DEF AutoInv, ModeInv, TickInv
<1>6. BehindStays
  BY <1>1, <1>2, <1>3 DEF BehindStays, Behind
<1>7. LaunchInv'
  BY <1>1, <1>6, LaunchInvKept DEF AutoInv, Awaits
<1>8. RowInv'
  BY <1>1, <1>6, SameRows DEF AutoInv
<1> QED
  BY <1>4, <1>5, <1>7, <1>8 DEF AutoInv

\* After a crash nothing is launched yet, and what was awaited is pending again.
LEMMA CrashStep ==
  ASSUME AutoInv, Crash
  PROVE  AutoInv'
<1>1. /\ evaluating' = FALSE /\ todo' = {} /\ at' = 0 /\ awaited' = 0 /\ launches' = {}
      /\ ready' = FALSE /\ page' = "none" /\ handlers' = {} /\ agents' = {} /\ usage' = {}
      /\ launched' = <<>>
      /\ UNCHANGED <<exists, enabled, next, runs, now, serve>>
  BY DEF Crash, stored
<1>2. TypeInv'
  <2>1. launched' \in Seq(Autos \X Nat)
    BY <1>1, EmptySeq
  <2>2. now \in 0 .. MaxTime /\ MaxTime \in Nat /\ at' \in 0 .. now'
    BY <1>1, AutomationsAssumption DEF AutoInv, TypeInv
  <2> QED
    BY <1>1, <2>1, <2>2 DEF AutoInv, TypeInv
<1>3. ModeInv' /\ TickInv'
  BY <1>1 DEF AutoInv, ModeInv, TickInv
<1>4. BehindStays
  BY <1>1 DEF BehindStays, Behind
<1>5. LaunchInv'
  <2>1. Len(launched') = 0 /\ DOMAIN launched' = 1 .. 0
    BY <1>1, EmptySeq, LenProperties
  <2> QED
    BY <2>1 DEF LaunchInv, LaunchedOnce
<1>6. RowInv'
  BY <1>1, <1>4, SameRows DEF AutoInv
<1> QED
  BY <1>2, <1>3, <1>5, <1>6 DEF AutoInv

\* The rows rs are those of runs, except for the status of r.
Restated(rs, r, status) ==
  /\ rs \in Seq(RunType) /\ Len(rs) = Len(runs)
  /\ \A i \in 1 .. Len(runs) : i # r => rs[i] = runs[i]
  /\ rs[r].auto = runs[r].auto /\ rs[r].at = runs[r].at /\ rs[r].status = status

\* A row that is not gone gets another status, or the same.
LEMMA RestatedRows ==
  ASSUME TypeInv, TickInv, NEW r \in 1 .. Len(runs), NEW status,
         Restated(runs', r, status), runs[r].status # "gone", UNCHANGED <<now, tick>>
  PROVE  /\ runs' \in Seq(RunType) /\ \A i \in 1 .. Len(runs') : runs'[i].at <= now'
         /\ \A i \in 1 .. Len(runs) : runs'[i].auto = runs[i].auto
         /\ awaited' # 0 =>
              /\ awaited' \in launches /\ runs'[awaited'].auto \in todo'
              /\ runs'[awaited'].status # "gone" => runs'[awaited'].at = Latest(at')
         /\ \A a \in Autos : Awaits(a) => Awaits(a)'
<1>1. UNCHANGED <<evaluating, todo, at, awaited>>
  BY DEF tick
<1>2. \A i \in 1 .. Len(runs) : runs'[i].auto = runs[i].auto /\ runs'[i].at = runs[i].at
  BY DEF Restated
<1>3. \A i \in 1 .. Len(runs) : runs'[i].status # "gone" => runs[i].status # "gone"
  BY DEF Restated
<1>4. runs' \in Seq(RunType) /\ \A i \in 1 .. Len(runs') : runs'[i].at <= now'
  BY <1>2 DEF Restated, TypeInv
<1>5. awaited # 0 => awaited \in launches /\ awaited \in 1 .. Len(runs)
  BY DEF TickInv, TypeInv
<1> QED
  BY <1>1, <1>2, <1>3, <1>4, <1>5 DEF TickInv, Awaits

\* A report on a run that is there and was given out: it ends, or has an agent at work.
LEMMA ReportKeeps ==
  ASSUME AutoInv, NEW r \in 1 .. Len(runs), NEW status \in {"dispatched", "ended"},
         runs[r].status \notin {"gone", "pending"}, Restated(runs', r, status),
         UNCHANGED <<exists, enabled, next, now, serve, tick, launches, ready, page, launched>>,
         handlers' \subseteq handlers \ {r},
         agents' \subseteq agents \cup {r},
         r \in agents' => status = "dispatched" \/ ~serve,
         usage' \subseteq usage \cup {r},
         r \in usage' => status = "ended"
  PROVE  AutoInv'
<1>1. UNCHANGED <<evaluating, todo, at, awaited>>
  BY DEF tick
<1>2. /\ runs' \in Seq(RunType) /\ \A i \in 1 .. Len(runs') : runs'[i].at <= now'
      /\ awaited' # 0 =>
            /\ awaited' \in launches' /\ runs'[awaited'].auto \in todo'
            /\ runs'[awaited'].status # "gone" => runs'[awaited'].at = Latest(at')
      /\ \A a \in Autos : Awaits(a) => Awaits(a)'
  BY RestatedRows DEF AutoInv
<1>3. TypeInv'
  <2>1. Len(runs') = Len(runs)
    BY DEF Restated
  <2>2. launches' \cup handlers' \cup agents' \cup usage' \subseteq 1 .. Len(runs')
    BY <2>1 DEF AutoInv, TypeInv
  <2> QED
    BY <1>1, <1>2, <2>2 DEF AutoInv, TypeInv
<1>4. ModeInv'
  BY DEF AutoInv, ModeInv
<1>5. TickInv'
  <2>1. \A a \in Autos : next'[a] % 2 = 1
    BY DEF AutoInv, TickInv
  <2>2. todo' # {} => evaluating' /\ at' > 0
    BY <1>1 DEF AutoInv, TickInv
  <2> QED
    BY <1>2, <2>1, <2>2 DEF TickInv
<1>6. BehindStays
  BY <1>1 DEF BehindStays, Behind
<1>7. LaunchInv'
  BY <1>1, <1>2, <1>6, LaunchInvKept DEF AutoInv
<1>8. RowOK(r)'
  <2>1. RowOK(r) /\ r \notin launches
    BY DEF AutoInv, RowInv, RowOK, Lost
  <2>2. \A a \in Autos, t \in Nat : a = runs[r].auto /\ t = runs[r].at /\ t # 0 => Behind(a, t)'
    BY <1>6, <2>1 DEF RowOK, BehindStays
  <2>3. runs[r].auto \in Autos /\ runs[r].at \in Nat
    BY RowTypes DEF AutoInv
  <2>4. runs'[r].auto = runs[r].auto /\ runs'[r].at = runs[r].at /\ runs'[r].status = status
    BY DEF Restated
  <2>5. runs'[r].at # 0 => Behind(runs[r].auto, runs[r].at)'
    BY <2>2, <2>3, <2>4 DEF Behind
  <2>6. r \in agents' => IF serve' THEN status = "dispatched" ELSE status \in {"dispatched", "ended"}
    OBVIOUS
  <2> QED
    BY <2>1, <2>4, <2>5, <2>6 DEF RowOK
<1>9. ASSUME NEW i \in 1 .. Len(runs), i # r PROVE RowOK(i)'
  BY <1>1, <1>6, <1>9, RowKept DEF AutoInv, RowInv, Ages, Restated
<1>10. RowInv'
  BY <1>8, <1>9 DEF RowInv, Restated
<1> QED
  BY <1>3, <1>4, <1>5, <1>7, <1>10 DEF AutoInv

\* A report on a run whose row is gone changes nothing but who observes it.
LEMMA LostReport ==
  ASSUME AutoInv,
         UNCHANGED <<exists, enabled, next, runs, now, serve, tick, launches, ready, page, launched>>,
         handlers' \subseteq handlers, agents' \subseteq agents, usage' \subseteq usage
  PROVE  AutoInv'
<1>1. UNCHANGED <<evaluating, todo, at, awaited>>
  BY DEF tick
<1>2. TypeInv'
  BY <1>1 DEF AutoInv, TypeInv
<1>3. ModeInv' /\ TickInv'
  BY <1>1 DEF AutoInv, ModeInv, TickInv
<1>4. BehindStays
  BY <1>1 DEF BehindStays, Behind
<1>5. LaunchInv'
  BY <1>1, <1>4, LaunchInvKept DEF AutoInv, Awaits
<1>6. RowInv'
  BY <1>1, <1>4, SameRows DEF AutoInv
<1> QED
  BY <1>2, <1>3, <1>5, <1>6 DEF AutoInv

\* The four reports: an agent ends, usage is known, the page dispatches or completes a run.
LEMMA ReportSteps ==
  ASSUME AutoInv, NEW r,
         \/ r \in 1 .. Len(runs) /\ (AgentEnds(r) \/ PageDispatches(r) \/ PageCompletes(r))
         \/ r \in usage /\ UsageCollected(r)
  PROVE  AutoInv'
<1>1. /\ r \in 1 .. Len(runs) /\ runs \in Seq(RunType) /\ RowOK(r) /\ DOMAIN runs = 1 .. Len(runs)
  BY LenProperties DEF AutoInv, TypeInv, RowInv
<1>2. ASSUME NEW status \in {"dispatched", "ended"}
      PROVE  Restated(Updated(runs, r, status), r, status)
  <2>1. status \in Status
    BY DEF Status
  <2>2. LET new == Updated(runs, r, status)
        IN /\ new \in Seq(RunType) /\ Len(new) = Len(runs)
           /\ \A i \in 1 .. Len(runs) : i # r => new[i] = runs[i]
           /\ new[r].auto = runs[r].auto /\ new[r].at = runs[r].at /\ new[r].status = status
    BY <1>1, <2>1, UpdatedRows
  <2> QED
    BY <2>2 DEF Restated
<1>3. CASE AgentEnds(r)
  <2>1. /\ r \in agents /\ agents' = agents \ {r} /\ Marked(r, "ended")
        /\ UNCHANGED <<exists, enabled, next, now, serve, tick, launches, ready, page, handlers, launched>>
    BY <1>3 DEF AgentEnds, window
  <2>2. CASE runs[r].status = "gone"
    BY <2>1, <2>2, LostReport DEF Marked
  <2>3. CASE runs[r].status # "gone"
    <3>1. runs[r].status \in {"dispatched", "ended"}
      BY <1>1, <2>1, <2>3 DEF RowOK, Lost
    <3>2. r \notin handlers
      BY <1>1, <2>3, <3>1 DEF RowOK, Lost
    <3>3. Restated(runs', r, "ended") /\ usage' \subseteq usage \cup {r}
      BY <1>2, <2>1, <2>3 DEF Marked
    <3> QED
      BY <1>1, <2>1, <3>1, <3>2, <3>3, ReportKeeps
  <2> QED
    BY <2>2, <2>3
<1>4. CASE r \in usage /\ UsageCollected(r)
  <2>1. /\ usage' = usage \ {r}
        /\ runs' = IF runs[r].status = "gone" THEN runs
                   ELSE [runs EXCEPT ![r].status = "ended", ![r].usage = TRUE]
        /\ UNCHANGED <<exists, enabled, next, now, serve, tick, launches, ready, page, handlers, agents,
                       launched>>
    BY <1>4 DEF UsageCollected, window
  <2>2. CASE runs[r].status = "gone"
    BY <2>1, <2>2, LostReport
  <2>3. CASE runs[r].status # "gone"
    <3>1. runs[r].status = "ended"
      BY <1>1, <1>4, <2>3 DEF RowOK
    <3>2. r \notin handlers /\ (r \in agents => ~serve)
      BY <1>1, <3>1 DEF RowOK, Lost
    <3>3. Restated(runs', r, "ended")
      <4> DEFINE row == [runs[r] EXCEPT !.status = "ended", !.usage = TRUE]
      <4>1. runs[r] \in RunType
        BY <1>1, ElementOfSeq
      <4>2. /\ row \in RunType /\ row.auto = runs[r].auto /\ row.at = runs[r].at
            /\ row.status = "ended"
        BY <4>1 DEF RunType, Status
      <4>3. runs' = [runs EXCEPT ![r] = row]
        BY <1>1, <2>1, <2>3
      <4> HIDE DEF row
      <4> QED
        BY <1>1, <4>2, <4>3, ExceptSeq DEF Restated
    <3> QED
      BY <1>1, <2>1, <3>1, <3>2, <3>3, ReportKeeps
  <2> QED
    BY <2>2, <2>3
<1>5. CASE PageDispatches(r)
  <2>1. /\ r \in handlers /\ handlers' = handlers \ {r}
        /\ \/ Marked(r, "ended") /\ agents' = agents
           \/ /\ Marked(r, "dispatched")
              /\ agents' = IF runs[r].status = "gone" THEN agents ELSE agents \cup {r}
        /\ UNCHANGED <<exists, enabled, next, now, serve, tick, launches, ready, page, launched>>
    BY <1>5 DEF PageDispatches
  <2>2. CASE runs[r].status = "gone"
    BY <2>1, <2>2, LostReport DEF Marked
  <2>3. CASE runs[r].status # "gone"
    <3>1. runs[r].status = "dispatching"
      BY <1>1, <2>1, <2>3 DEF RowOK, Lost
    <3>2. r \notin agents /\ r \notin usage
      BY <1>1, <3>1 DEF RowOK, Lost
    <3>3. PICK status \in {"dispatched", "ended"} :
            /\ Restated(runs', r, status)
            /\ agents' \subseteq agents \cup {r} /\ (r \in agents' => status = "dispatched")
            /\ usage' \subseteq usage \cup {r} /\ (r \in usage' => status = "ended")
      BY <1>2, <2>1, <2>3, <3>2 DEF Marked
    <3> QED
      BY <1>1, <2>1, <3>1, <3>3, ReportKeeps
  <2> QED
    BY <2>2, <2>3
<1>6. CASE PageCompletes(r)
  <2>1. /\ page = "loaded" /\ runs[r].status = "dispatched" /\ Marked(r, "ended")
        /\ UNCHANGED <<exists, enabled, next, now, serve, tick, launches, ready, page, handlers, agents,
                       launched>>
    BY <1>6 DEF PageCompletes, window
  <2>2. ~serve
    BY <2>1 DEF AutoInv, ModeInv
  <2>3. r \notin handlers
    BY <1>1, <2>1 DEF RowOK, Lost
  <2>4. Restated(runs', r, "ended") /\ usage' \subseteq usage \cup {r}
    BY <1>2, <2>1 DEF Marked
  <2> QED
    BY <1>1, <2>1, <2>2, <2>3, <2>4, ReportKeeps
<1> QED
  BY <1>3, <1>4, <1>5, <1>6

\* A deletion takes the rows of the automation; its owners are left without a row to report on.
LEMMA DeleteStep ==
  ASSUME AutoInv, NEW a \in Autos, Delete(a)
  PROVE  AutoInv'
<1>1. /\ exists' = [exists EXCEPT ![a] = FALSE]
      /\ runs' = [i \in DOMAIN runs |-> IF runs[i].auto = a THEN Gone(runs[i]) ELSE runs[i]]
      /\ UNCHANGED <<enabled, next, now, serve, evaluating, todo, at, awaited, launches, ready, page,
                     handlers, agents, usage, launched>>
  BY DEF Delete, tick, window
<1>2. runs \in Seq(RunType) /\ DOMAIN runs = 1 .. Len(runs) /\ Len(runs) \in Nat /\ now \in Nat
  BY LenProperties DEF AutoInv, TypeInv
<1>3. ASSUME NEW i \in 1 .. Len(runs)
      PROVE  /\ runs'[i] \in RunType /\ runs'[i].auto = runs[i].auto /\ runs'[i].at <= now
             /\ \/ runs'[i] = runs[i] /\ runs[i].auto # a
                \/ runs'[i].status = "gone" /\ runs'[i].at = 0 /\ runs[i].auto = a
  <2>1. runs[i] \in RunType /\ runs[i].at <= now
    BY <1>2, ElementOfSeq DEF AutoInv, TypeInv
  <2>2. runs'[i] = IF runs[i].auto = a THEN Gone(runs[i]) ELSE runs[i]
    BY <1>1, <1>2
  <2> QED
    BY <1>2, <2>1, <2>2, GoneRow
<1>4. runs' \in Seq(RunType) /\ Len(runs') = Len(runs)
  <2>1. runs' \in [1 .. Len(runs) -> RunType]
    <3>1. runs' = [i \in 1 .. Len(runs) |-> runs'[i]]
      BY <1>1, <1>2
    <3> QED
      BY <1>3, <3>1
  <2> QED
    BY <1>2, <2>1, RunsAreSeq
<1>5. exists' \in [Autos -> BOOLEAN] /\ ~exists'[a] /\ \A b \in Autos : exists'[b] => exists[b]
  BY <1>1 DEF AutoInv, TypeInv
<1>6. TypeInv'
  BY <1>1, <1>3, <1>4, <1>5 DEF AutoInv, TypeInv
<1>7. ModeInv'
  BY <1>1 DEF AutoInv, ModeInv
<1>8. awaited # 0 => awaited \in 1 .. Len(runs)
  BY DEF AutoInv, TypeInv, TickInv
<1>9. TickInv'
  <2>1. ASSUME awaited # 0
        PROVE  /\ runs'[awaited].auto \in todo
               /\ runs'[awaited].status # "gone" => runs'[awaited].at = Latest(at)
    BY <1>3, <1>8, <2>1 DEF AutoInv, TickInv
  <2>2. todo' # {} => evaluating' /\ at' > 0
    BY <1>1 DEF AutoInv, TickInv
  <2> QED
    BY <1>1, <2>1, <2>2 DEF AutoInv, TickInv
<1>10. BehindStays
  BY <1>1, <1>5 DEF BehindStays, Behind
<1>11. \A b \in Autos : Awaits(b) => Awaits(b)'
  BY <1>1, <1>3, <1>8 DEF Awaits
<1>12. LaunchInv'
  BY <1>1, <1>10, <1>11, LaunchInvKept DEF AutoInv
<1>13. ASSUME NEW i \in 1 .. Len(runs) PROVE RowOK(i)'
  <2>1. CASE runs'[i] = runs[i]
    BY <1>1, <1>5, <1>10, <2>1, RowKept DEF AutoInv, RowInv, Ages
  <2>2. CASE runs'[i].status = "gone" /\ runs'[i].at = 0 /\ runs[i].auto = a
    <3>1. Lost(i)'
      BY <1>3, <1>5, <2>2 DEF Lost
    <3>2. i \in usage' => runs'[i].status \in {"ended", "gone"}
      BY <2>2
    <3> QED
      BY <2>2, <3>1, <3>2 DEF RowOK
  <2> QED
    BY <1>3, <2>1, <2>2
<1>14. RowInv'
  BY <1>4, <1>13 DEF RowInv
<1> QED
  BY <1>6, <1>7, <1>9, <1>12, <1>14 DEF AutoInv

\* A launch ends.  If the tick awaited it, the turn of its automation is over.
LEMMA LaunchEndsStep ==
  ASSUME AutoInv, NEW r \in 1 .. Len(runs), LaunchEnds(r)
  PROVE  AutoInv'
<1>1. /\ r \in launches /\ launches' = launches \ {r}
      /\ \/ UNCHANGED <<runs, agents>>
         \/ /\ runs[r].status # "gone" /\ runs' = Updated(runs, r, "ended") /\ agents' = agents
         \/ /\ runs[r].status # "gone" /\ runs' = Updated(runs, r, "dispatched")
            /\ agents' = agents \cup {r}
      /\ IF r = awaited THEN Advance(runs[r].auto, todo \ {runs[r].auto})
         ELSE UNCHANGED <<next, tick>>
      /\ UNCHANGED <<exists, enabled, now, serve, ready, page, handlers, usage, launched>>
  BY DEF LaunchEnds, window
<1>2. /\ runs \in Seq(RunType) /\ RowOK(r) /\ runs[r].auto \in Autos /\ runs[r].at \in Nat
      /\ serve /\ handlers = {}
  BY <1>1, RowTypes DEF AutoInv, TypeInv, RowInv, ModeInv
<1>3. PICK status :
        \/ UNCHANGED <<runs, agents>>
        \/ /\ runs[r].status # "gone" /\ Restated(runs', r, status)
           /\ \/ status = "ended" /\ agents' = agents
              \/ status = "dispatched" /\ agents' = agents \cup {r}
  <2>1. ASSUME NEW status \in {"dispatched", "ended"}, runs' = Updated(runs, r, status)
        PROVE  Restated(runs', r, status)
    <3>1. status \in Status
      BY DEF Status
    <3>2. LET new == Updated(runs, r, status)
          IN /\ new \in Seq(RunType) /\ Len(new) = Len(runs)
             /\ \A i \in 1 .. Len(runs) : i # r => new[i] = runs[i]
             /\ new[r].auto = runs[r].auto /\ new[r].at = runs[r].at /\ new[r].status = status
      BY <1>2, <3>1, UpdatedRows
    <3> QED
      BY <2>1, <3>2 DEF Restated
  <2> QED
    BY <1>1, <2>1
<1>4. /\ runs' \in Seq(RunType) /\ Len(runs') = Len(runs)
      /\ \A i \in 1 .. Len(runs) : runs'[i].auto = runs[i].auto /\ runs'[i].at = runs[i].at
      /\ \A i \in 1 .. Len(runs) : runs'[i].status # "gone" => runs[i].status # "gone"
      /\ \A i \in 1 .. Len(runs) : i # r => runs'[i] = runs[i]
  BY <1>2, <1>3 DEF Restated
<1>5. /\ \A i \in 1 .. Len(runs') : runs'[i].at <= now'
      /\ launches' \cup handlers' \cup agents' \cup usage' \subseteq 1 .. Len(runs')
  BY <1>1, <1>3, <1>4 DEF AutoInv, TypeInv
<1>6. ModeInv'
  BY <1>1, <1>2 DEF AutoInv, ModeInv
<1>7. ASSUME BehindStays,
             runs[r].status # "gone" =>
               \A a \in Autos, t \in Nat : a = runs[r].auto /\ t = runs[r].at /\ t # 0 => Behind(a, t)',
             \A i \in launches' : i = awaited => i = awaited'
      PROVE  RowInv'
  <2>1. ASSUME NEW i \in 1 .. Len(runs), i # r PROVE RowOK(i)'
    BY <1>1, <1>3, <1>4, <1>7, <2>1, RowKept DEF AutoInv, RowInv, Ages
  <2>2. CASE UNCHANGED <<runs, agents>>
    BY <1>1, <1>7, <2>1, <2>2, RowKept DEF AutoInv, RowInv, Ages
  <2>3. CASE /\ runs[r].status # "gone" /\ Restated(runs', r, status)
             /\ \/ status = "ended" /\ agents' = agents
                \/ status = "dispatched" /\ agents' = agents \cup {r}
    <3>1. runs[r].status = "pending"
      BY <1>1, <1>2, <2>3 DEF RowOK, Lost
    <3>2. r \notin agents /\ r \notin usage
      BY <1>2, <3>1 DEF RowOK, Lost
    <3>3. runs'[r].status = status /\ runs'[r].auto = runs[r].auto /\ runs'[r].at = runs[r].at
      BY <2>3 DEF Restated
    <3>4. runs'[r].at # 0 => Behind(runs[r].auto, runs[r].at)'
      BY <1>2, <1>7, <2>3, <3>3 DEF Behind
    <3>5. r \notin launches' /\ r \notin handlers' /\ r \notin usage'
      BY <1>1, <1>2, <3>2
    <3>6. r \in agents' => status = "dispatched"
      BY <2>3, <3>2
    <3>7. status # "gone" /\ serve'
      BY <1>1, <1>2, <2>3
    <3>8. RowOK(r)'
      BY <3>3, <3>4, <3>5, <3>6, <3>7 DEF RowOK
    <3> QED
      BY <1>4, <2>1, <3>8 DEF RowInv
  <2> QED
    BY <1>3, <2>2, <2>3
<1>8. CASE r = awaited
  <2> DEFINE a == runs[r].auto
  <2>1. r # 0 /\ a \in todo /\ (runs[r].status # "gone" => runs[r].at = Latest(at))
    BY <1>8 DEF AutoInv, TickInv
  <2>2. /\ \A t \in Nat : t = Latest(at) => \A b \in Autos : b = a => Behind(b, t)'
        /\ BehindStays
        /\ next' \in [Autos -> Nat] /\ \A b \in Autos : next'[b] % 2 = 1
        /\ at' \in 0 .. now' /\ awaited' = 0 /\ todo' \subseteq Autos
        /\ todo' # {} => evaluating' /\ at' > 0
    <3>1. PICK b \in todo : b = a
      BY <2>1
    <3>2. Advance(b, todo \ {b})
      BY <1>1, <1>8, <3>1
    <3> QED
      BY <1>1, <3>1, <3>2, AdvanceSettles DEF AutoInv, BehindStays
  <2>3. TypeInv'
    BY <1>1, <1>4, <1>5, <2>2 DEF AutoInv, TypeInv
  <2>4. TickInv'
    BY <2>2 DEF TickInv
  <2>5. LaunchInv'
    <3>1. \A b \in Autos : Awaits(b) => \A t \in Nat : t = Latest(at) => Behind(b, t)'
      BY <1>8, <2>2 DEF Awaits
    <3> QED
      BY <1>1, <2>2, <3>1, LaunchInvKept DEF AutoInv
  <2>6. RowInv'
    BY <1>1, <1>2, <1>7, <1>8, <2>1, <2>2
  <2> QED
    BY <1>6, <2>3, <2>4, <2>5, <2>6 DEF AutoInv
<1>9. CASE r # awaited
  <2>1. UNCHANGED <<next, evaluating, todo, at, awaited>>
    BY <1>1, <1>9 DEF tick
  <2>2. TypeInv'
    BY <1>1, <1>4, <1>5, <2>1 DEF AutoInv, TypeInv
  <2>3. awaited # 0 => awaited \in launches' /\ awaited \in 1 .. Len(runs)
    BY <1>1, <1>9 DEF AutoInv, TypeInv, TickInv
  <2>4. TickInv'
    <3>1. todo' # {} => evaluating' /\ at' > 0
      BY <2>1 DEF AutoInv, TickInv
    <3>2. awaited # 0 =>
            /\ runs'[awaited].auto \in todo
            /\ runs'[awaited].status # "gone" => runs'[awaited].at = Latest(at)
      BY <1>4, <2>3 DEF AutoInv, TickInv
    <3> QED
      BY <2>1, <2>3, <3>1, <3>2 DEF AutoInv, TickInv
  <2>5. BehindStays
    BY <1>1, <2>1 DEF BehindStays, Behind
  <2>6. LaunchInv'
    <3>1. \A a \in Autos : Awaits(a) => Awaits(a)'
      BY <1>4, <2>1, <2>3 DEF Awaits
    <3> QED
      BY <1>1, <2>1, <2>5, <3>1, LaunchInvKept DEF AutoInv
  <2>7. runs[r].at = 0
    BY <1>1, <1>2, <1>9 DEF RowOK
  <2>8. RowInv'
    BY <1>7, <2>1, <2>5, <2>7
  <2> QED
    BY <1>6, <2>2, <2>4, <2>6, <2>8 DEF AutoInv
<1> QED
  BY <1>8, <1>9

-----------------------------------------------------------------------------
(***************************************************************************)
(* The steps that create a run, or find one that nobody owns.              *)
(***************************************************************************)

\* In the table rs, which comes from runs, r is pending and nobody's.
Fresh(rs, r) ==
  /\ rs \in Seq(RunType) /\ Len(rs) >= Len(runs) /\ r \in 1 .. Len(rs)
  /\ rs[r].status = "pending" /\ rs[r].at <= now
  /\ r \notin launches \cup handlers \cup agents \cup usage
  /\ \A i \in 1 .. Len(runs) : Ages(runs[i], rs[i])
  /\ \A i \in 1 .. Len(rs) : i \in 1 .. Len(runs) \/ i = r

\* A run that is created is fresh; retention leaves it alone.
LEMMA NewRowIsFresh ==
  ASSUME TypeInv, NEW a \in Autos, NEW t \in Nat, t <= now
  PROVE  LET rs == Pruned(Append(runs, [auto |-> a, at |-> t, status |-> "pending", usage |-> FALSE]))
             r == Len(runs) + 1
         IN Fresh(rs, r) /\ rs[r].auto = a /\ rs[r].at = t
<1> DEFINE row == [auto |-> a, at |-> t, status |-> "pending", usage |-> FALSE]
           old == Append(runs, row)
           rs == Pruned(old)
           n == Len(runs) + 1
<1>1. row \in RunType /\ row.auto = a /\ row.at = t /\ row.status = "pending"
  BY DEF RunType, Status
<1> HIDE DEF row
<1>2. /\ old \in Seq(RunType) /\ Len(old) = n /\ Len(runs) \in Nat
      /\ \A i \in 1 .. Len(runs) : old[i] = runs[i]
      /\ old[n] = row
  BY <1>1, AppendProperties, LenProperties DEF TypeInv
<1> HIDE DEF old
<1>3. rs \in Seq(RunType) /\ Len(rs) = n /\ \A i \in 1 .. n : Ages(old[i], rs[i])
  BY <1>2, PrunedRows
<1> HIDE DEF rs
<1>4. rs[n] = row
  BY <1>1, <1>2, <1>3 DEF Ages
<1>5. \A i \in 1 .. Len(runs) : Ages(runs[i], rs[i])
  BY <1>2, <1>3
<1>6. n \notin launches \cup handlers \cup agents \cup usage
  BY <1>2 DEF TypeInv
<1>7. Fresh(rs, n)
  BY <1>1, <1>2, <1>3, <1>4, <1>5, <1>6 DEF Fresh
<1> QED
  BY <1>1, <1>4, <1>7 DEF rs, old, row

\* In its turn, an automation has a fresh run for its latest occurrence: one that was found had
\* been launched before a crash, or was never launched.
LEMMA TurnRowIsFresh ==
  ASSUME AutoInv, NEW a \in todo, awaited = 0
  PROVE  LET rs == Created(a, Latest(at))
             r == RunOf(a, Latest(at))
         IN Fresh(rs, r) /\ rs[r].auto = a /\ rs[r].at = Latest(at)
<1> DEFINE t == Latest(at)
<1>1. a \in Autos /\ at \in Nat /\ at > 0 /\ at <= now /\ now \in Nat
  BY DEF AutoInv, TypeInv, TickInv
<1>2. t \in Nat /\ t > 0 /\ t <= now
  BY <1>1, Occurrences
<1> HIDE DEF t
<1>3. CASE Found(a, t) = {}
  <2>1. /\ Created(a, t) = Pruned(Append(runs, [auto |-> a, at |-> t, status |-> "pending", usage |-> FALSE]))
        /\ RunOf(a, t) = Len(runs) + 1
    BY <1>3 DEF Created, RunOf
  <2>2. Fresh(Created(a, t), RunOf(a, t)) /\ Created(a, t)[RunOf(a, t)].auto = a
        /\ Created(a, t)[RunOf(a, t)].at = t
    BY <1>1, <1>2, <2>1, NewRowIsFresh DEF AutoInv
  <2> QED
    BY <2>2 DEF t
<1>4. CASE Found(a, t) # {}
  <2>1. Created(a, t) = runs /\ RunOf(a, t) \in Found(a, t)
    BY <1>4 DEF Created, RunOf
  <2>2. /\ runs \in Seq(RunType) /\ DOMAIN runs = 1 .. Len(runs) /\ Len(runs) \in Nat
    BY LenProperties DEF AutoInv, TypeInv
  <2>3. PICK r \in 1 .. Len(runs) : /\ r = RunOf(a, t)
                                   /\ runs[r].auto = a /\ runs[r].at = t /\ runs[r].status # "gone"
    BY <2>1, <2>2 DEF Found
  <2>4. RowOK(r)
    BY DEF AutoInv, RowInv
  <2>5. ~Behind(a, t)
    BY <1>2 DEF Behind, t
  <2>6. runs[r].status = "pending"
    BY <1>2, <2>3, <2>4, <2>5 DEF RowOK
  <2>7. r \notin launches \cup handlers \cup agents \cup usage
    BY <1>2, <2>3, <2>4, <2>6 DEF RowOK, Lost
  <2>8. Fresh(runs, r)
    BY <1>2, <2>2, <2>3, <2>6, <2>7 DEF Fresh, Ages
  <2> QED
    BY <2>1, <2>3, <2>8 DEF t
<1> QED
  BY <1>3, <1>4

\* The fresh run r of rs is skipped, given to the page, or to a headless launch.
Given(rs, r, status) ==
  /\ Fresh(rs, r)
  /\ runs' \in Seq(RunType) /\ Len(runs') = Len(rs)
  /\ \A i \in 1 .. Len(rs) : i # r => runs'[i] = rs[i]
  /\ runs'[r].auto = rs[r].auto /\ runs'[r].at = rs[r].at /\ runs'[r].status = status
  /\ \/ status = "ended" /\ launches' = launches /\ handlers' = handlers
     \/ status = "dispatching" /\ ready /\ launches' = launches /\ handlers' \subseteq handlers \cup {r}
     \/ status = "pending" /\ serve /\ launches' = launches \cup {r} /\ handlers' = handlers

\* requestDispatch of a fresh run gives it to one of them at most.
LEMMA DispatchGives ==
  ASSUME NEW rs, NEW r, Fresh(rs, r)
  PROVE  /\ Skips(rs, r) \/ Tells(rs, r) => \E status : Given(rs, r, status) /\ status # "pending"
         /\ Launches(rs, r) => Given(rs, r, "pending")
<1>1. ASSUME NEW status \in Status
      PROVE  LET new == Updated(rs, r, status)
             IN /\ new \in Seq(RunType) /\ Len(new) = Len(rs)
                /\ \A i \in 1 .. Len(rs) : i # r => new[i] = rs[i]
                /\ new[r].auto = rs[r].auto /\ new[r].at = rs[r].at /\ new[r].status = status
  BY UpdatedRows DEF Fresh
<1>2. ASSUME Skips(rs, r) PROVE Given(rs, r, "ended")
  <2>1. "ended" \in Status
    BY DEF Status
  <2> QED
    BY <1>1, <1>2, <2>1 DEF Given, Skips
<1>3. ASSUME Tells(rs, r) PROVE Given(rs, r, "dispatching")
  <2>1. "dispatching" \in Status
    BY DEF Status
  <2> QED
    BY <1>1, <1>3, <2>1 DEF Given, Tells
<1>4. ASSUME Launches(rs, r) PROVE Given(rs, r, "pending")
  BY <1>4 DEF Given, Launches, Fresh
<1>5. "ended" # "pending" /\ "dispatching" # "pending"
  OBVIOUS
<1> QED
  BY <1>2, <1>3, <1>4, <1>5

\* The rows stay as they should be when a fresh run is given away, be it skipped for good, if its
\* occurrence is behind the schedule then, or is the one that the tick awaits.
LEMMA GivenKeeps ==
  ASSUME AutoInv, NEW rs, NEW r, NEW status, Given(rs, r, status), BehindStays,
         UNCHANGED <<exists, now, serve, agents, usage, ready, page>>,
         awaited' = awaited \/ awaited = 0,
         status = "pending" /\ rs[r].at # 0 => awaited' = r,
         status # "pending" =>
           \A a \in Autos, t \in Nat : a = rs[r].auto /\ t = rs[r].at /\ t # 0 => Behind(a, t)'
  PROVE  /\ RowInv' /\ ModeInv'
         /\ runs' \in Seq(RunType) /\ \A i \in 1 .. Len(runs') : runs'[i].at <= now'
         /\ launches' \cup handlers' \cup agents' \cup usage' \subseteq 1 .. Len(runs')
         /\ launches \subseteq launches' /\ \A i \in launches : runs'[i] = runs[i]
<1>1. /\ rs \in Seq(RunType) /\ Len(rs) \in Nat /\ Len(runs) \in Nat /\ r \in 1 .. Len(rs)
      /\ rs[r].status = "pending" /\ rs[r].at <= now
      /\ r \notin launches \cup handlers \cup agents \cup usage
      /\ \A i \in 1 .. Len(runs) : Ages(runs[i], rs[i])
      /\ \A i \in 1 .. Len(rs) : i \in 1 .. Len(runs) \/ i = r
      /\ Len(rs) >= Len(runs)
  BY LenProperties DEF Given, Fresh, AutoInv, TypeInv
<1>2. /\ runs' \in Seq(RunType) /\ Len(runs') = Len(rs)
      /\ \A i \in 1 .. Len(rs) : i # r => runs'[i] = rs[i]
      /\ runs'[r].auto = rs[r].auto /\ runs'[r].at = rs[r].at /\ runs'[r].status = status
  BY DEF Given
<1>3. rs[r].auto \in Autos /\ rs[r].at \in Nat
  <2>1. rs[r] \in RunType
    BY <1>1, ElementOfSeq
  <2> QED
    BY <2>1 DEF RunType
<1>4. ASSUME NEW i \in 1 .. Len(runs) PROVE runs[i].at \in Nat /\ runs[i].at <= now
  BY RowTypes DEF AutoInv, TypeInv
<1>5. \A i \in 1 .. Len(runs') : runs'[i].at <= now'
  <2> SUFFICES ASSUME NEW i \in 1 .. Len(rs), i # r PROVE runs'[i].at <= now
    BY <1>1, <1>2
  <2>1. i \in 1 .. Len(runs) /\ Ages(runs[i], runs'[i]) /\ runs[i] \in RunType /\ now \in Nat
    BY <1>1, <1>2, RowTypes DEF AutoInv, TypeInv
  <2> QED
    BY <1>4, <2>1, GoneRow DEF Ages
<1>6. /\ \/ status = "ended" /\ launches' = launches /\ handlers' = handlers
         \/ /\ status = "dispatching" /\ ready /\ launches' = launches
            /\ handlers' \subseteq handlers \cup {r}
         \/ status = "pending" /\ serve /\ launches' = launches \cup {r} /\ handlers' = handlers
  BY DEF Given
<1>7. launches' \cup handlers' \cup agents' \cup usage' \subseteq 1 .. Len(runs')
  <2>1. launches \cup handlers \cup agents \cup usage \subseteq 1 .. Len(rs)
    BY <1>1 DEF AutoInv, TypeInv
  <2>2. launches' \subseteq launches \cup {r} /\ handlers' \subseteq handlers \cup {r}
    BY <1>6
  <2> QED
    BY <1>1, <1>2, <2>1, <2>2
<1>8. ModeInv'
  <2>1. serve => handlers' = {}
    BY <1>6 DEF AutoInv, ModeInv
  <2>2. ~serve => launches' = {}
    BY <1>6 DEF AutoInv, ModeInv
  <2> QED
    BY <2>1, <2>2 DEF AutoInv, ModeInv
<1>9. ASSUME NEW i \in launches PROVE i \in launches' /\ runs'[i] = runs[i]
  <2>1. i \in 1 .. Len(runs) /\ RowOK(i) /\ i # r
    BY <1>1 DEF AutoInv, TypeInv, RowInv
  <2>2. runs[i].status # "ended"
    BY <2>1 DEF RowOK, Lost
  <2> QED
    BY <1>1, <1>2, <1>6, <2>1, <2>2 DEF Ages
<1>10. ASSUME NEW i \in 1 .. Len(runs), i # r PROVE RowOK(i)'
  <2>1. Ages(runs[i], runs'[i]) /\ RowOK(i)
    BY <1>1, <1>2, <1>10 DEF AutoInv, RowInv
  <2>2. i \in launches' /\ i = awaited => i = awaited'
    BY <1>10
  <2>3. /\ i \in launches' => i \in launches
        /\ i \in handlers' => i \in handlers
    BY <1>6, <1>10
  <2> QED
    BY <2>1, <2>2, <2>3, RowKept DEF AutoInv
<1>11. RowOK(r)'
  <2>1. r \notin agents' /\ r \notin usage' /\ runs'[r].status # "gone"
    BY <1>1, <1>2, <1>6
  <2>2. r \in launches' => status = "pending" /\ (rs[r].at # 0 => r = awaited')
    BY <1>1, <1>6
  <2>3. r \in handlers' => status = "dispatching"
    BY <1>1, <1>6
  <2>4. status # "pending" /\ rs[r].at # 0 => Behind(runs[r].auto, runs[r].at)'
    BY <1>2, <1>3 DEF Behind
  <2> QED
    BY <1>2, <2>1, <2>2, <2>3, <2>4 DEF RowOK
<1>12. RowInv'
  <2> SUFFICES ASSUME NEW i \in 1 .. Len(rs) PROVE RowOK(i)'
    BY <1>2 DEF RowInv
  <2> QED
    BY <1>1, <1>10, <1>11
<1> QED
  BY <1>2, <1>5, <1>7, <1>8, <1>9, <1>12

\* The launch of the latest occurrence is a new one.
LEMMA LaunchAppended ==
  ASSUME AutoInv, BehindStays, NEW a \in todo, awaited = 0,
         launched' = Append(launched, <<a, Latest(at)>>),
         \/ \A t \in Nat : t = Latest(at) => Behind(a, t)'
         \/ Awaits(a)' /\ at' = at
  PROVE  LaunchInv' /\ launched' \in Seq(Autos \X Nat)
<1>1. a \in Autos /\ at \in Nat /\ at > 0 /\ Latest(at) \in Nat
  <2>1. a \in Autos /\ at \in Nat /\ at > 0
    BY DEF AutoInv, TypeInv, TickInv
  <2> QED
    BY <2>1, Occurrences
<1>2. /\ launched \in Seq(Autos \X Nat) /\ Len(launched) \in Nat
      /\ DOMAIN launched = 1 .. Len(launched)
  BY LenProperties DEF AutoInv, TypeInv
<1>3. <<a, Latest(at)>> \in Autos \X Nat
  BY <1>1
<1> DEFINE n == Len(launched) + 1
<1>4. /\ launched' \in Seq(Autos \X Nat) /\ Len(launched') = n
      /\ \A i \in 1 .. Len(launched) : launched'[i] = launched[i]
      /\ launched'[n] = <<a, Latest(at)>>
      /\ DOMAIN launched' = 1 .. n
  BY <1>2, <1>3, AppendProperties, LenProperties
<1>5. ASSUME NEW i \in 1 .. Len(launched)
      PROVE  \E b \in Autos, t \in Nat :
               launched[i] = <<b, t>> /\ Behind(b, t) /\ launched[i] # <<a, Latest(at)>>
  <2>1. launched[i] \in Autos \X Nat
    BY <1>2, ElementOfSeq
  <2>2. PICK b \in Autos, t \in Nat : launched[i] = <<b, t>>
    BY <2>1
  <2>3. Behind(b, t)
    BY <2>2 DEF AutoInv, LaunchInv, Awaits
  <2>4. b = a => t # Latest(at)
    BY <1>1, <2>3 DEF Behind
  <2> QED
    BY <2>2, <2>3, <2>4
<1>6. LaunchedOnce'
  <2> SUFFICES ASSUME NEW i \in 1 .. n, NEW j \in 1 .. n, i # j PROVE launched'[i] # launched'[j]
    BY <1>4 DEF LaunchedOnce
  <2>1. CASE i = n
    BY <1>2, <1>4, <1>5, <2>1
  <2>2. CASE j = n
    BY <1>2, <1>4, <1>5, <2>2
  <2>3. CASE i # n /\ j # n
    <3>1. i \in 1 .. Len(launched) /\ j \in 1 .. Len(launched)
      BY <1>2, <2>3
    <3> QED
      BY <1>2, <1>4, <3>1 DEF AutoInv, LaunchInv, LaunchedOnce
  <2> QED
    BY <2>1, <2>2, <2>3
<1>7. ASSUME NEW i \in 1 .. n
      PROVE  \/ Behind(launched[i][1], launched[i][2])'
             \/ (Awaits(launched[i][1]) /\ launched[i][2] = Latest(at))'
  <2>1. CASE i = n
    <3>1. launched'[i][1] = a /\ launched'[i][2] = Latest(at)
      BY <1>4, <2>1
    <3> QED
      BY <1>1, <3>1 DEF Behind, Awaits
  <2>2. CASE i # n
    <3>1. i \in 1 .. Len(launched) /\ launched'[i] = launched[i]
      BY <1>2, <1>4, <2>2
    <3>2. PICK b \in Autos, t \in Nat : launched[i] = <<b, t>> /\ Behind(b, t)
      BY <1>5, <3>1
    <3>3. launched'[i][1] = b /\ launched'[i][2] = t /\ Behind(b, t)'
      BY <3>1, <3>2 DEF BehindStays
    <3> QED
      BY <3>3 DEF Behind
  <2> QED
    BY <2>1, <2>2
<1> QED
  BY <1>4, <1>6, <1>7 DEF LaunchInv

\* runNow: its run has no occurrence, and the tick goes on as it was.
LEMMA RunNowStep ==
  ASSUME AutoInv, NEW a \in Autos, RunNow(a)
  PROVE  AutoInv'
<1> DEFINE rs == Pruned(Append(runs, [auto |-> a, at |-> 0, status |-> "pending", usage |-> FALSE]))
           r == Len(runs) + 1
<1>1. /\ Skips(rs, r) \/ Tells(rs, r) \/ Launches(rs, r)
      /\ UNCHANGED <<exists, enabled, next, now, serve, evaluating, todo, at, awaited, ready, page,
                     agents, usage>>
  BY DEF RunNow, tick
<1>2. Fresh(rs, r) /\ rs[r].at = 0
  <2>1. 0 \in Nat /\ 0 <= now
    BY DEF AutoInv, TypeInv
  <2> QED
    BY <2>1, NewRowIsFresh DEF AutoInv
<1> HIDE DEF rs, r
<1>3. PICK status : Given(rs, r, status)
  BY <1>1, <1>2, DispatchGives
<1>4. launched' = launched
  BY <1>1, <1>2 DEF Skips, Tells, Launches
<1>5. BehindStays
  BY <1>1 DEF BehindStays, Behind
<1>6. /\ RowInv' /\ ModeInv'
      /\ runs' \in Seq(RunType) /\ \A i \in 1 .. Len(runs') : runs'[i].at <= now'
      /\ launches' \cup handlers' \cup agents' \cup usage' \subseteq 1 .. Len(runs')
      /\ launches \subseteq launches' /\ \A i \in launches : runs'[i] = runs[i]
  BY <1>1, <1>2, <1>3, <1>5, GivenKeeps
<1>7. TypeInv'
  BY <1>1, <1>4, <1>6 DEF AutoInv, TypeInv
<1>8. TickInv'
  <2>1. todo' # {} => evaluating' /\ at' > 0
    BY <1>1 DEF AutoInv, TickInv
  <2>2. awaited' # 0 =>
          /\ awaited' \in launches' /\ runs'[awaited'].auto \in todo'
          /\ runs'[awaited'].status # "gone" => runs'[awaited'].at = Latest(at')
    BY <1>1, <1>6 DEF AutoInv, TickInv
  <2> QED
    BY <1>1, <2>1, <2>2 DEF AutoInv, TickInv
<1>9. \A b \in Autos : Awaits(b) => Awaits(b)'
  BY <1>1, <1>6 DEF AutoInv, TickInv, Awaits
<1>10. LaunchInv'
  BY <1>1, <1>4, <1>5, <1>9, LaunchInvKept DEF AutoInv
<1> QED
  BY <1>6, <1>7, <1>8, <1>10 DEF AutoInv

\* The turn of an automation: its latest occurrence is skipped, given to the page, or launched.
LEMMA TurnSteps ==
  ASSUME AutoInv, NEW a \in Autos, Missed(a) \/ Evaluate(a)
  PROVE  AutoInv'
<1> DEFINE rs == Created(a, Latest(at))
           r == RunOf(a, Latest(at))
           T == Latest(at)
<1>1. /\ awaited = 0 /\ a \in todo
      /\ UNCHANGED <<exists, enabled, now, serve, ready, page, agents, usage>>
  <2>1. Turn(a)
    BY DEF Missed, Evaluate
  <2>2. awaited = 0 /\ a \in todo
    BY <2>1 DEF Turn
  <2> QED
    BY <2>2 DEF Missed, Evaluate, window
<1>2. Fresh(rs, r) /\ rs[r].auto = a /\ rs[r].at = T
  BY <1>1, TurnRowIsFresh
<1>3. T \in Nat /\ T # 0
  <2>1. at \in Nat /\ at > 0
    BY <1>1 DEF AutoInv, TypeInv, TickInv
  <2> QED
    BY <2>1, Occurrences
<1>4. \/ /\ runs' = Updated(rs, r, "ended") /\ UNCHANGED <<launches, handlers, launched>>
         /\ Advance(a, todo \ {a})
      \/ (Skips(rs, r) \/ Tells(rs, r)) /\ Advance(a, todo \ {a})
      \/ Launches(rs, r) /\ awaited' = r /\ UNCHANGED <<next, todo, at, evaluating>>
  BY DEF Missed, Evaluate, window
<1>5. \/ (Skips(rs, r) \/ Tells(rs, r)) /\ Advance(a, todo \ {a})
      \/ Launches(rs, r) /\ awaited' = r /\ UNCHANGED <<next, todo, at, evaluating>>
  BY <1>4 DEF Skips
<1> HIDE DEF rs, r, T
<1>6. CASE (Skips(rs, r) \/ Tells(rs, r)) /\ Advance(a, todo \ {a})
  <2>1. /\ \A t \in Nat : t = T => Behind(a, t)'
        /\ BehindStays
        /\ next' \in [Autos -> Nat] /\ \A b \in Autos : next'[b] % 2 = 1
        /\ at' \in 0 .. now' /\ awaited' = 0 /\ todo' \subseteq Autos
        /\ todo' # {} => evaluating' /\ at' > 0
    BY <1>1, <1>6, AdvanceSettles DEF AutoInv, BehindStays, T
  <2>2. PICK status : Given(rs, r, status) /\ status # "pending"
    BY <1>2, <1>6, DispatchGives
  <2>3. \A b \in Autos, t \in Nat : b = rs[r].auto /\ t = rs[r].at /\ t # 0 => Behind(b, t)'
    BY <1>2, <2>1
  <2>4. /\ RowInv' /\ ModeInv'
        /\ runs' \in Seq(RunType) /\ \A i \in 1 .. Len(runs') : runs'[i].at <= now'
        /\ launches' \cup handlers' \cup agents' \cup usage' \subseteq 1 .. Len(runs')
    BY <1>1, <2>1, <2>2, <2>3, GivenKeeps
  <2>5. launched' = launched \/ launched' = Append(launched, <<a, T>>)
    BY <1>2, <1>6 DEF Skips, Tells
  <2>6. LaunchInv' /\ launched' \in Seq(Autos \X Nat)
    <3>1. CASE launched' = launched
      <4>1. LaunchInv'
        BY <1>1, <2>1, <3>1, LaunchInvKept DEF AutoInv, Awaits
      <4> QED
        BY <3>1, <4>1 DEF AutoInv, TypeInv
    <3>2. CASE launched' = Append(launched, <<a, T>>)
      BY <1>1, <2>1, <3>2, LaunchAppended DEF T
    <3> QED
      BY <2>5, <3>1, <3>2
  <2>7. TypeInv'
    BY <1>1, <2>1, <2>4, <2>6 DEF AutoInv, TypeInv
  <2>8. TickInv'
    BY <2>1 DEF TickInv
  <2> QED
    BY <2>4, <2>6, <2>7, <2>8 DEF AutoInv
<1>7. CASE Launches(rs, r) /\ awaited' = r /\ UNCHANGED <<next, todo, at, evaluating>>
  <2>1. Given(rs, r, "pending") /\ runs' = rs /\ launches' = launches \cup {r}
    BY <1>2, <1>7, DispatchGives DEF Launches
  <2>2. BehindStays
    BY <1>1, <1>7 DEF BehindStays, Behind
  <2>3. /\ RowInv' /\ ModeInv'
        /\ runs' \in Seq(RunType) /\ \A i \in 1 .. Len(runs') : runs'[i].at <= now'
        /\ launches' \cup handlers' \cup agents' \cup usage' \subseteq 1 .. Len(runs')
    BY <1>1, <1>7, <2>1, <2>2, GivenKeeps
  <2>4. launched' = Append(launched, <<a, T>>)
    BY <1>2, <1>3, <1>7 DEF Launches
  <2>5. r # 0 /\ r \in Nat /\ runs'[r].auto = a /\ runs'[r].at = T
    BY <1>2, <2>1, LenProperties DEF Fresh
  <2>6. Awaits(a)'
    BY <1>7, <2>5 DEF Awaits
  <2>7. LaunchInv' /\ launched' \in Seq(Autos \X Nat)
    BY <1>1, <1>7, <2>2, <2>4, <2>6, LaunchAppended DEF T
  <2>8. TypeInv'
    BY <1>1, <1>7, <2>3, <2>5, <2>7 DEF AutoInv, TypeInv
  <2>9. TickInv'
    <3>1. todo' # {} => evaluating' /\ at' > 0
      BY <1>7 DEF AutoInv, TickInv
    <3>2. runs'[awaited'].auto \in todo' /\ awaited' \in launches' /\ runs'[awaited'].at = Latest(at')
      BY <1>1, <1>7, <2>1, <2>5 DEF T
    <3> QED
      BY <1>7, <3>1, <3>2 DEF AutoInv, TickInv
  <2> QED
    BY <2>3, <2>7, <2>8, <2>9 DEF AutoInv
<1> QED
  BY <1>5, <1>6, <1>7

-----------------------------------------------------------------------------
(***************************************************************************)
(* The theorems.                                                           *)
(***************************************************************************)

\* The store starts with the automations and no run, the first occurrence ahead of each.
LEMMA AutoInvInit ==
  ASSUME AutoInit
  PROVE  AutoInv
<1>1. /\ runs \in Seq(RunType) /\ Len(runs) = 0
      /\ launched \in Seq(Autos \X Nat) /\ Len(launched) = 0 /\ DOMAIN launched = 1 .. 0
  BY EmptySeq, LenProperties DEF AutoInit
<1>2. /\ next \in [Autos -> Nat] /\ \A a \in Autos : next[a] % 2 = 1
  BY Occurrences DEF AutoInit
<1>3. now \in 0 .. MaxTime /\ at \in 0 .. now
  BY AutomationsAssumption DEF AutoInit
<1>4. TypeInv
  <2>1. exists \in [Autos -> BOOLEAN] /\ enabled \in [Autos -> BOOLEAN]
    BY DEF AutoInit
  <2>2. launches \cup handlers \cup agents \cup usage \subseteq 1 .. Len(runs) /\ todo \subseteq Autos
    BY DEF AutoInit
  <2>3. serve \in BOOLEAN /\ ready \in BOOLEAN /\ page \in {"none", "loading", "loaded"} /\ awaited \in Nat
    BY DEF AutoInit
  <2> QED
    BY <1>1, <1>2, <1>3, <2>1, <2>2, <2>3 DEF TypeInv
<1>5. ModeInv /\ TickInv
  BY <1>2 DEF ModeInv, TickInv, AutoInit
<1>6. LaunchInv
  BY <1>1 DEF LaunchInv, LaunchedOnce
<1>7. RowInv
  BY <1>1 DEF RowInv
<1> QED
  BY <1>4, <1>5, <1>6, <1>7 DEF AutoInv

\* Every step keeps the invariant.
LEMMA AutoInvStep ==
  ASSUME AutoInv, [AutoNext]_autoVars
  PROVE  AutoInv'
<1>1. DOMAIN runs = 1 .. Len(runs)
  BY LenProperties DEF AutoInv, TypeInv
<1>2. CASE \/ TimePasses \/ WindowOpens \/ PageLoads \/ PageGoes \/ UNCHANGED autoVars
           \/ \E a \in Autos : Toggle(a)
  BY <1>2, WorldSteps
<1>3. CASE TickStarts \/ Crash
  BY <1>3, TickStartsStep, CrashStep
<1>4. ASSUME NEW a \in Autos,
             Missed(a) \/ Evaluate(a) \/ RunNow(a) \/ Delete(a) \/ Reschedule(a)
      PROVE  AutoInv'
  BY <1>4, TurnSteps, RunNowStep, DeleteStep, RescheduleStep
<1>5. ASSUME NEW r \in 1 .. Len(runs),
             LaunchEnds(r) \/ AgentEnds(r) \/ PageDispatches(r) \/ PageCompletes(r)
      PROVE  AutoInv'
  BY <1>5, LaunchEndsStep, ReportSteps
<1>6. ASSUME NEW r \in usage, UsageCollected(r) PROVE AutoInv'
  BY <1>6, ReportSteps
<1> QED
  BY <1>1, <1>2, <1>3, <1>4, <1>5, <1>6 DEF AutoNext

\* The inductive invariant: the schedule is past whatever was launched or got further than pending,
\* and every run has at most one owner.
THEOREM AutomationsInvariant == AutoSpec => []AutoInv
  BY AutoInvInit, AutoInvStep, PTL DEF AutoSpec

\* The shape of the state; no owner refers to a run that was not created, and a tick that has
\* automations left is under way.
THEOREM AutomationsTypeCorrect == AutoSpec => []AutomationsTypeOK
<1>1. AutoInv => AutomationsTypeOK
  <2> SUFFICES ASSUME AutoInv PROVE AutomationsTypeOK
    OBVIOUS
  <2>1. DOMAIN runs = 1 .. Len(runs)
    BY LenProperties DEF AutoInv, TypeInv
  <2>2. ASSUME NEW i \in DOMAIN runs
        PROVE  /\ runs[i].auto \in Autos /\ runs[i].at \in 0 .. now
               /\ runs[i].status \in Status /\ runs[i].usage \in BOOLEAN
    <3>1. runs[i] \in RunType /\ runs[i].at \in Nat /\ runs[i].at <= now /\ now \in Nat
      BY <2>1, RowTypes DEF AutoInv, TypeInv
    <3> QED
      BY <3>1 DEF RunType
  <2>3. awaited # 0 => awaited \in launches /\ todo # {}
    BY DEF AutoInv, TickInv
  <2>4. todo # {} => evaluating
    BY DEF AutoInv, TickInv
  <2> QED
    BY <2>1, <2>2, <2>3, <2>4 DEF AutomationsTypeOK, AutoInv, TypeInv
<1> QED
  BY <1>1, AutomationsInvariant, PTL

\* No occurrence is launched twice in a life of Orca, however ticks, slow launches, edits of the
\* schedule, deletions and pages fall together (evaluateDueRuns, createAutomationRun).
THEOREM OccurrencesLaunchOnce == AutoSpec => []LaunchedOnce
<1>1. AutoInv => LaunchedOnce
  BY DEF AutoInv, LaunchInv
<1> QED
  BY <1>1, AutomationsInvariant, PTL

\* Retention spares the runs that somebody will still report on: only a deletion takes their rows
\* (pruneAutomationRuns, markDispatchResult).
THEOREM RetentionSparesOwnedRuns == AutoSpec => []ReportsFindTheirRun
<1>1. AutoInv => ReportsFindTheirRun
  <2> SUFFICES ASSUME AutoInv,
                      NEW r \in launches \cup handlers \cup (IF serve THEN agents ELSE {}),
                      runs[r].status = "gone"
               PROVE  ~exists[runs[r].auto]
    BY DEF ReportsFindTheirRun
  <2>1. r \in 1 .. Len(runs)
    BY DEF AutoInv, TypeInv
  <2>2. RowOK(r)
    BY <2>1 DEF AutoInv, RowInv
  <2> QED
    BY <2>2 DEF RowOK, Lost
<1> QED
  BY <1>1, AutomationsInvariant, PTL

=============================================================================
