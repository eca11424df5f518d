----------------------- MODULE ProcessTelemetry_proofs -----------------------
(***************************************************************************)
(* Theorems about the lifecycle stage (ProcessLifecycle), for every set of *)
(* processes, every gap and every clock, and about the poll loop           *)
(* (PollLoop).  The composed telemetry path (ProcessTelemetry) implements  *)
(* both: seen from the scheduler it is the poll loop, seen from Layer 2    *)
(* it is the stage under a caller whose clock does not go back.  What is   *)
(* proved of the components holds of the whole.                            *)
(***************************************************************************)
EXTENDS ProcessTelemetry, TLAPS

-----------------------------------------------------------------------------
(* The lifecycle stage *)

\* Before the first tick is complete nothing has been rotated into `prior`.
UnprimedIsEmpty == ~primed => prior = EmptyTick

LifecycleInv == LifecycleTypeOK /\ LedgerIsPrior /\ UnprimedIsEmpty

-----------------------------------------------------------------------------
\* HashMap::insert keeps a map of processes to times one, and adds its key.
LEMMA InsertType ==
  ASSUME NEW tick, IsTick(tick), NEW k \in ProcessKey, NEW ts \in Time
  PROVE  /\ IsTick(Insert(tick, k, ts))
         /\ DOMAIN Insert(tick, k, ts) = DOMAIN tick \cup {k}
BY DEF IsTick, Insert

\* The empty map is one.
LEMMA EmptyTickType == IsTick(EmptyTick) /\ DOMAIN EmptyTick = {}
BY DEF IsTick, EmptyTick

\* The events of a finished tick are well-formed, and their keys are the
\* differences of the two ticks.
LEMMA DiffType ==
  ASSUME IsTick(current), IsTick(prior), NEW at \in Time
  PROVE  /\ Births \subseteq Event
         /\ Deaths(at) \subseteq Event
         /\ Keys(Births) = DOMAIN current \ DOMAIN prior
         /\ Keys(Deaths(at)) = DOMAIN prior \ DOMAIN current
<1>1. \A k \in DOMAIN current : k \in ProcessKey /\ current[k] \in Time
  BY DEF IsTick
<1>2. \A k \in DOMAIN prior : k \in ProcessKey
  BY DEF IsTick
<1>3. Births \subseteq Event /\ Deaths(at) \subseteq Event
  BY <1>1, <1>2 DEF Births, Deaths, Event
<1>4. Keys(Births) = DOMAIN current \ DOMAIN prior
  <2>1. ASSUME NEW k \in Keys(Births)  PROVE k \in DOMAIN current \ DOMAIN prior
    BY DEF Keys, Births
  <2>2. ASSUME NEW k \in DOMAIN current \ DOMAIN prior  PROVE k \in Keys(Births)
    <3>1. [key |-> k, ts |-> current[k]] \in Births
      BY DEF Births
    <3> QED BY <3>1 DEF Keys
  <2> QED BY <2>1, <2>2
<1>5. Keys(Deaths(at)) = DOMAIN prior \ DOMAIN current
  <2>1. ASSUME NEW k \in Keys(Deaths(at))  PROVE k \in DOMAIN prior \ DOMAIN current
    BY DEF Keys, Deaths
  <2>2. ASSUME NEW k \in DOMAIN prior \ DOMAIN current  PROVE k \in Keys(Deaths(at))
    <3>1. [key |-> k, ts |-> at] \in Deaths(at)
      BY DEF Deaths
    <3> QED BY <3>1 DEF Keys
  <2> QED BY <2>1, <2>2
<1> QED BY <1>3, <1>4, <1>5

\* No events have no keys.
LEMMA NoEventsType ==
  /\ NoEvents.births = {} /\ NoEvents.deaths = {}
  /\ Keys({}) = {}
BY DEF NoEvents, Keys

\* What finalize_tick leaves: the completed tick in `prior`, and a ledger that
\* agrees with it; and what it says of each process is news.
LEMMA FinalizeTickInv ==
  ASSUME LifecycleInv, NEW at \in Time, FinalizeTick(at)
  PROVE  /\ prior' = current /\ primed' = TRUE
         /\ events'.births \subseteq Event /\ events'.deaths \subseteq Event
         /\ ledger' \in [ProcessKey -> {"unknown", "seeded", "born", "dead"}]
         /\ LedgerIsPrior'
         /\ \A k \in Keys(events'.births) : ~Believed(k)
         /\ \A k \in Keys(events'.deaths) : Believed(k)
<1> USE DEF LifecycleInv, LifecycleTypeOK
<1>1. prior' = current /\ primed' = TRUE
  BY DEF FinalizeTick
<1>2. DOMAIN current \subseteq ProcessKey /\ DOMAIN prior \subseteq ProcessKey
  BY DEF IsTick
<1>3. \A k \in ProcessKey : k \in DOMAIN prior <=> Believed(k)
  BY <1>2 DEF LedgerIsPrior
<1>4. CASE primed
  <2>1. events' = [births |-> Births, deaths |-> Deaths(at)]
        /\ ledger' = Recorded(events', {})
    BY <1>4 DEF FinalizeTick
  <2>2. events'.births = Births /\ events'.deaths = Deaths(at)
    BY <2>1
  <2>3. /\ Keys(events'.births) = DOMAIN current \ DOMAIN prior
        /\ Keys(events'.deaths) = DOMAIN prior \ DOMAIN current
    BY <2>2, DiffType
  <2>4. events'.births \subseteq Event /\ events'.deaths \subseteq Event
    BY <2>2, DiffType
  <2>5. ledger' = [k \in ProcessKey |->
                     IF k \in DOMAIN prior \ DOMAIN current THEN "dead"
                     ELSE IF k \in DOMAIN current \ DOMAIN prior THEN "born"
                     ELSE ledger[k]]
    BY <2>1, <2>3 DEF Recorded
  <2>6. ledger' \in [ProcessKey -> {"unknown", "seeded", "born", "dead"}]
    BY <2>5
  <2>7. \A k \in ProcessKey : Believed(k)' <=> k \in DOMAIN current
    BY <2>5, <1>3 DEF Believed
  <2>8. LedgerIsPrior'
    BY <2>7, <1>1, <1>2 DEF LedgerIsPrior
  <2> QED BY <1>1, <1>2, <1>3, <2>3, <2>4, <2>6, <2>8
<1>5. CASE ~primed
  <2>1. events' = NoEvents /\ ledger' = Recorded(NoEvents, DOMAIN current)
    BY <1>5 DEF FinalizeTick
  <2>2. events'.births = {} /\ events'.deaths = {}
    BY <2>1, NoEventsType
  <2>3. ledger' = [k \in ProcessKey |->
                     IF k \in DOMAIN current THEN "seeded" ELSE ledger[k]]
    BY <2>1, NoEventsType DEF Recorded
  <2>4. \A k \in ProcessKey : ~Believed(k)
    BY <1>3, <1>5, EmptyTickType DEF UnprimedIsEmpty
  <2>5. \A k \in ProcessKey : Believed(k)' <=> k \in DOMAIN current
    BY <2>3, <2>4 DEF Believed
  <2>6. LedgerIsPrior'
    BY <2>5, <1>1, <1>2 DEF LedgerIsPrior
  <2>7. ledger' \in [ProcessKey -> {"unknown", "seeded", "born", "dead"}]
    BY <2>3
  <2>8. Keys(events'.births) = {} /\ Keys(events'.deaths) = {}
    BY <2>2, NoEventsType
  <2> QED BY <1>1, <2>2, <2>6, <2>7, <2>8
<1> QED BY <1>4, <1>5

-----------------------------------------------------------------------------
\* A fresh stage satisfies the invariant.
LEMMA LifecycleInitInv == LifecycleInit => LifecycleInv
<1> SUFFICES ASSUME LifecycleInit PROVE LifecycleInv
  OBVIOUS
<1>1. IsTick(current) /\ IsTick(prior) /\ DOMAIN prior = {}
  BY EmptyTickType DEF LifecycleInit
<1>2. events.births = {} /\ events.deaths = {}
  BY NoEventsType DEF LifecycleInit
<1>3. LifecycleTypeOK
  BY <1>1, <1>2 DEF LifecycleInit, LifecycleTypeOK
<1>4. LedgerIsPrior
  BY <1>1 DEF LifecycleInit, LedgerIsPrior, Believed
<1> QED BY <1>3, <1>4 DEF LifecycleInit, LifecycleInv, UnprimedIsEmpty

\* An observation within a burst.
LEMMA AccumulateInv ==
  ASSUME LifecycleInv, NEW k \in ProcessKey, NEW ts \in Time, Accumulate(k, ts)
  PROVE  LifecycleInv' /\ events' = NoEvents
<1> USE DEF LifecycleInv, LifecycleTypeOK, Accumulate
<1>1. IsTick(current')
  BY InsertType
<1>2. events'.births = {} /\ events'.deaths = {}
  BY NoEventsType
<1>3. IsTick(prior)' /\ LedgerIsPrior' /\ UnprimedIsEmpty'
  BY DEF IsTick, LedgerIsPrior, Believed, UnprimedIsEmpty, EmptyTick
<1> QED BY <1>1, <1>2, <1>3 DEF IsTick

\* An observation that opens the next burst.
LEMMA BeginTickInv ==
  ASSUME LifecycleInv, NEW k \in ProcessKey, NEW ts \in Time, BeginTick(k, ts)
  PROVE  /\ LifecycleInv'
         /\ \A x \in Keys(events'.births) : ~Believed(x)
         /\ \A x \in Keys(events'.deaths) : Believed(x)
<1>1. lastObsTs \in Time /\ FinalizeTick(lastObsTs)
  BY DEF BeginTick, IsBoundary, LifecycleInv, LifecycleTypeOK
<1>2. IsTick(current')
  BY InsertType, EmptyTickType DEF BeginTick
<1>3. IsTick(current)
  BY DEF LifecycleInv, LifecycleTypeOK
<1>4. lastObsTs' = ts
  BY DEF BeginTick
<1>5. /\ prior' = current /\ primed' = TRUE
      /\ events'.births \subseteq Event /\ events'.deaths \subseteq Event
      /\ ledger' \in [ProcessKey -> {"unknown", "seeded", "born", "dead"}]
      /\ LedgerIsPrior'
      /\ \A x \in Keys(events'.births) : ~Believed(x)
      /\ \A x \in Keys(events'.deaths) : Believed(x)
  BY <1>1, FinalizeTickInv
<1>6. LifecycleTypeOK'
  BY <1>2, <1>3, <1>4, <1>5 DEF LifecycleTypeOK, IsTick
<1> QED BY <1>5, <1>6 DEF LifecycleInv, UnprimedIsEmpty

\* The public flush.
LEMMA OnTickCompleteInv ==
  ASSUME LifecycleInv, NEW ts \in Time, OnTickComplete(ts)
  PROVE  /\ LifecycleInv'
         /\ \A x \in Keys(events'.births) : ~Believed(x)
         /\ \A x \in Keys(events'.deaths) : Believed(x)
<1>1. FinalizeTick(ts) /\ current' = EmptyTick /\ lastObsTs' = lastObsTs
  BY DEF OnTickComplete
<1>2. IsTick(current') /\ IsTick(current)
  BY <1>1, EmptyTickType DEF LifecycleInv, LifecycleTypeOK
<1>3. /\ prior' = current /\ primed' = TRUE
      /\ events'.births \subseteq Event /\ events'.deaths \subseteq Event
      /\ ledger' \in [ProcessKey -> {"unknown", "seeded", "born", "dead"}]
      /\ LedgerIsPrior'
      /\ \A x \in Keys(events'.births) : ~Believed(x)
      /\ \A x \in Keys(events'.deaths) : Believed(x)
  BY <1>1, FinalizeTickInv
<1>4. LifecycleTypeOK'
  BY <1>1, <1>2, <1>3 DEF LifecycleInv, LifecycleTypeOK, IsTick
<1> QED BY <1>3, <1>4 DEF LifecycleInv, UnprimedIsEmpty

\* A step that leaves the stage alone.
LEMMA LifecycleStutterInv ==
  LifecycleInv /\ UNCHANGED lifecycleVars => LifecycleInv'
BY DEF LifecycleInv, LifecycleTypeOK, LedgerIsPrior, UnprimedIsEmpty, Believed,
       IsTick, EmptyTick, lifecycleVars

\* Every call preserves the invariant.
LEMMA LifecycleNextInv ==
  LifecycleInv /\ [LifecycleNext]_lifecycleVars => LifecycleInv'
<1> SUFFICES ASSUME LifecycleInv, [LifecycleNext]_lifecycleVars
             PROVE  LifecycleInv'
  OBVIOUS
<1>1. CASE UNCHANGED lifecycleVars
  BY <1>1, LifecycleStutterInv
<1>2. CASE LifecycleNext
  <2> PICK ts \in Time : \/ \E k \in ProcessKey : Accumulate(k, ts)
                         \/ \E k \in ProcessKey : BeginTick(k, ts)
                         \/ OnTickComplete(ts)
    BY <1>2 DEF LifecycleNext
  <2>1. ASSUME NEW k \in ProcessKey, Accumulate(k, ts) PROVE LifecycleInv'
    BY <2>1, AccumulateInv
  <2>2. ASSUME NEW k \in ProcessKey, BeginTick(k, ts) PROVE LifecycleInv'
    BY <2>2, BeginTickInv
  <2>3. CASE OnTickComplete(ts)
    BY <2>3, OnTickCompleteInv
  <2> QED BY <2>1, <2>2, <2>3
<1> QED BY <1>1, <1>2

\* The stage's invariant, under every sequence of calls.
THEOREM LifecycleInvariant == LifecycleSpec => []LifecycleInv
BY LifecycleInitInv, LifecycleNextInv, PTL DEF LifecycleSpec

\* The stage's state is always well-typed.
THEOREM LifecycleTypeCorrect == LifecycleSpec => []LifecycleTypeOK
<1>1. LifecycleInv => LifecycleTypeOK
  BY DEF LifecycleInv
<1> QED BY <1>1, LifecycleInvariant, PTL

\* The net effect of all events is the last completed tick, whatever was lost,
\* split, merged or flushed on the way.
THEOREM LedgerAlwaysIsPrior == LifecycleSpec => []LedgerIsPrior
<1>1. LifecycleInv => LedgerIsPrior
  BY DEF LifecycleInv
<1> QED BY <1>1, LifecycleInvariant, PTL

-----------------------------------------------------------------------------
\* What one call may report, given the invariant.
LEMMA AlternateStep ==
  ASSUME LifecycleInv, LifecycleNext
  PROVE  /\ \A k \in Keys(events'.births) : ~Believed(k)
         /\ \A k \in Keys(events'.deaths) : Believed(k)
<1> PICK ts \in Time : \/ \E k \in ProcessKey : Accumulate(k, ts)
                       \/ \E k \in ProcessKey : BeginTick(k, ts)
                       \/ OnTickComplete(ts)
  BY DEF LifecycleNext
<1>1. ASSUME NEW k \in ProcessKey, Accumulate(k, ts)
      PROVE  Keys(events'.births) = {} /\ Keys(events'.deaths) = {}
  BY <1>1, NoEventsType DEF Accumulate
<1>2. ASSUME NEW k \in ProcessKey, BeginTick(k, ts)
      PROVE  /\ \A x \in Keys(events'.births) : ~Believed(x)
             /\ \A x \in Keys(events'.deaths) : Believed(x)
  BY <1>2, BeginTickInv
<1>3. CASE OnTickComplete(ts)
  BY <1>3, OnTickCompleteInv
<1> QED BY <1>1, <1>2, <1>3

\* Births and deaths of a process alternate.
THEOREM EventsAlwaysAlternate == LifecycleSpec => EventsAlternate
<1>1. LifecycleInv /\ [LifecycleNext]_lifecycleVars =>
        [/\ \A k \in Keys(events'.births) : ~Believed(k)
         /\ \A k \in Keys(events'.deaths) : Believed(k)]_lifecycleVars
  BY AlternateStep
<1> QED BY <1>1, LifecycleInvariant, PTL DEF LifecycleSpec, EventsAlternate

-----------------------------------------------------------------------------
\* No record of the tick being assembled is newer than the latest observation.
RecordsAreOld == \A k \in DOMAIN current : current[k] <= lastObsTs

LagInv == LifecycleInv /\ RecordsAreOld

\* The invariant of time, step by step.
LEMMA LagNextInv ==
  LagInv /\ [LifecycleNext]_lifecycleVars => LagInv'
<1> SUFFICES ASSUME LagInv, [LifecycleNext]_lifecycleVars
             PROVE  RecordsAreOld'
  BY LifecycleNextInv DEF LagInv
<1>1. CASE UNCHANGED lifecycleVars
  BY <1>1 DEF LagInv, RecordsAreOld, lifecycleVars
<1>2. CASE LifecycleNext
  <2> PICK ts \in Time : /\ ts >= lastObsTs
                         /\ \/ \E k \in ProcessKey : Accumulate(k, ts)
                            \/ \E k \in ProcessKey : BeginTick(k, ts)
                            \/ OnTickComplete(ts)
    BY <1>2 DEF LifecycleNext
  <2>1. /\ ts \in Int /\ lastObsTs \in Int
        /\ \A k \in DOMAIN current : current[k] \in Int
    BY LifecycleAssumption
       DEF LagInv, LifecycleInv, LifecycleTypeOK, IsTick, NoTs
  <2>2. ASSUME NEW k \in ProcessKey, Accumulate(k, ts) PROVE RecordsAreOld'
    <3>1. /\ DOMAIN current' = DOMAIN current \cup {k} /\ lastObsTs' = ts
          /\ \A x \in DOMAIN current' :
               current'[x] = IF x = k THEN ts ELSE current[x]
      BY <2>2 DEF Accumulate, Insert
    <3> QED BY <2>1, <3>1 DEF LagInv, RecordsAreOld
  <2>3. ASSUME NEW k \in ProcessKey, BeginTick(k, ts) PROVE RecordsAreOld'
    <3>1. DOMAIN current' = {k} /\ current'[k] = ts /\ lastObsTs' = ts
      BY <2>3, EmptyTickType DEF BeginTick, Insert
    <3> QED BY <2>1, <3>1 DEF RecordsAreOld
  <2>4. CASE OnTickComplete(ts)
    BY <2>4, EmptyTickType DEF OnTickComplete, RecordsAreOld
  <2> QED BY <2>2, <2>3, <2>4
<1> QED BY <1>1, <1>2

\* What a closed tick reports is older than the observation that closes it.
LEMMA LagStep ==
  ASSUME LagInv, LifecycleNext
  PROVE  lastObsTs' # lastObsTs =>
           \A e \in events'.births \cup events'.deaths :
             lastObsTs' - e.ts > TickGap
<1> PICK ts \in Time : \/ \E k \in ProcessKey : Accumulate(k, ts)
                       \/ \E k \in ProcessKey : BeginTick(k, ts)
                       \/ OnTickComplete(ts)
  BY DEF LifecycleNext
<1>1. ASSUME NEW k \in ProcessKey, Accumulate(k, ts)
      PROVE  events'.births = {} /\ events'.deaths = {}
  BY <1>1, NoEventsType DEF Accumulate
<1>2. ASSUME NEW k \in ProcessKey, BeginTick(k, ts)
      PROVE  \A e \in events'.births \cup events'.deaths :
               lastObsTs' - e.ts > TickGap
  <2>1. ts - lastObsTs > TickGap /\ lastObsTs' = ts /\ FinalizeTick(lastObsTs)
    BY <1>2 DEF BeginTick, IsBoundary
  <2>2. /\ ts \in Int /\ lastObsTs \in Int /\ TickGap \in Int
        /\ \A x \in DOMAIN current : current[x] \in Int
    BY LifecycleAssumption
       DEF LagInv, LifecycleInv, LifecycleTypeOK, IsTick, NoTs
  <2>3. \A e \in Births \cup Deaths(lastObsTs) : e.ts \in Int /\ e.ts <= lastObsTs
    BY <2>2 DEF Births, Deaths, LagInv, RecordsAreOld
  <2>4. CASE primed
    <3>1. events'.births = Births /\ events'.deaths = Deaths(lastObsTs)
      BY <2>1, <2>4 DEF FinalizeTick
    <3> QED BY <2>1, <2>2, <2>3, <3>1
  <2>5. CASE ~primed
    <3>1. events'.births = {} /\ events'.deaths = {}
      BY <2>1, <2>5, NoEventsType DEF FinalizeTick
    <3> QED BY <3>1
  <2> QED BY <2>4, <2>5
<1>3. CASE OnTickComplete(ts)
  BY <1>3 DEF OnTickComplete
<1> QED BY <1>1, <1>2, <1>3

\* Reconstructed time runs behind observed time by more than the gap.
THEOREM EventsAlwaysLag == LifecycleSpec => EventsLag
<1>1. LifecycleInit => LagInv
  BY LifecycleInitInv, EmptyTickType DEF LifecycleInit, LagInv, RecordsAreOld
<1>2. LagInv /\ [LifecycleNext]_lifecycleVars =>
        [lastObsTs' # lastObsTs =>
           \A e \in events'.births \cup events'.deaths :
             lastObsTs' - e.ts > TickGap]_lifecycleVars
  BY LagStep
<1> QED BY <1>1, <1>2, LagNextInv, PTL DEF LifecycleSpec, EventsLag

-----------------------------------------------------------------------------
(* The poll loop *)

PollInv == PollTypeOK /\ OnePollAtATime

-----------------------------------------------------------------------------
\* The ticker's next deadline lies ahead, by one period at most.
LEMMA NextDeadlineRange ==
  ASSUME PollTypeOK, timer <= 0
  PROVE  NextDeadline \in 1..curInterval
<1>1. curInterval \in Nat \ {0} /\ -timer \in Nat
  BY PollLoopAssumption DEF PollTypeOK
<1>2. ASSUME NEW a \in Nat, NEW b \in Nat \ {0}  PROVE a % b \in 0..(b - 1)
  OBVIOUS
<1>3. (-timer) % curInterval \in 0..(curInterval - 1)
  BY <1>1, <1>2
<1> QED BY <1>1, <1>3 DEF NextDeadline

\* A doubled or halved interval stays within the band.
LEMMA AdaptedRange ==
  ASSUME PollTypeOK
  PROVE  /\ Widened \in BaseInterval..MaxInterval
         /\ Narrowed \in BaseInterval..MaxInterval
<1>1. /\ BaseInterval \in Nat \ {0} /\ MaxInterval \in Nat
      /\ curInterval \in BaseInterval..MaxInterval
  BY PollLoopAssumption DEF PollTypeOK
<1>2. Widened \in BaseInterval..MaxInterval
  BY <1>1, PollLoopAssumption DEF Widened, Smaller
<1>3. curInterval \div 2 \in Nat /\ curInterval \div 2 <= curInterval
  BY <1>1
<1>4. Narrowed \in BaseInterval..MaxInterval
  BY <1>1, <1>3, PollLoopAssumption DEF Narrowed, Larger
<1> QED BY <1>2, <1>4

\* Setting an interval of the band leaves the ticker ahead of the present.
LEMMA SetIntervalRange ==
  ASSUME PollTypeOK, timer <= 0,
         NEW i \in BaseInterval..MaxInterval, SetInterval(i)
  PROVE  /\ curInterval' \in BaseInterval..MaxInterval
         /\ timer' \in 1..curInterval'
<1>1. BaseInterval \in Nat \ {0} /\ MaxInterval \in Nat
  BY PollLoopAssumption
<1>2. CASE i # curInterval
  BY <1>1, <1>2 DEF SetInterval
<1>3. CASE i = curInterval
  BY <1>3, NextDeadlineRange DEF SetInterval
<1> QED BY <1>2, <1>3

\* The adaptation after a poll, whatever the counters say.
LEMMA AdaptRange ==
  ASSUME PollTypeOK, timer <= 0, Adapt
  PROVE  /\ curInterval' \in BaseInterval..MaxInterval
         /\ timer' \in 1..curInterval'
         /\ dirtyTicks' \in 0..(WidenAfter - 1)
         /\ cleanTicks' \in 0..(NarrowAfter - 1)
<1> DEFINE dirty == IF drops THEN dirtyTicks + 1 ELSE 0
           clean == IF drops THEN 0 ELSE cleanTicks + 1
<1>1. /\ WidenAfter \in Nat \ {0} /\ NarrowAfter \in Nat \ {0}
      /\ dirtyTicks \in 0..(WidenAfter - 1) /\ cleanTicks \in 0..(NarrowAfter - 1)
      /\ curInterval \in BaseInterval..MaxInterval
      /\ drops \in BOOLEAN
  BY PollLoopAssumption DEF PollTypeOK
<1>2. dirty \in 0..WidenAfter /\ clean \in 0..NarrowAfter /\ (dirty = 0 \/ clean = 0)
  BY <1>1
<1>3. CASE /\ dirty >= WidenAfter
           /\ dirtyTicks' = 0 /\ cleanTicks' = clean
           /\ SetInterval(Widened)
  <2>1. clean = 0
    BY <1>1, <1>2, <1>3
  <2> QED BY <1>1, <1>3, <2>1, AdaptedRange, SetIntervalRange
<1>4. CASE /\ dirty < WidenAfter /\ clean >= NarrowAfter
           /\ dirtyTicks' = dirty /\ cleanTicks' = 0
           /\ SetInterval(Narrowed)
  BY <1>1, <1>2, <1>4, AdaptedRange, SetIntervalRange
<1>5. CASE /\ dirty < WidenAfter /\ clean < NarrowAfter
           /\ dirtyTicks' = dirty /\ cleanTicks' = clean
           /\ SetInterval(curInterval)
  BY <1>1, <1>2, <1>5, SetIntervalRange
<1> QED BY <1>3, <1>4, <1>5 DEF Adapt

\* The history of the polls stays within its bounds.
LEMMA StreakRange ==
  ASSUME PollTypeOK
  PROVE  /\ Streak \in (-NarrowAfter)..WidenAfter
         /\ CountPoll => streak' \in (-NarrowAfter)..WidenAfter
<1>1. Streak \in (-NarrowAfter)..WidenAfter
  BY PollLoopAssumption DEF PollTypeOK, Streak, Smaller, Larger
<1> QED BY <1>1, PollLoopAssumption DEF CountPoll

-----------------------------------------------------------------------------
\* A loop that has just been spawned.
LEMMA PollInitInv == PollInit => PollInv
<1> SUFFICES ASSUME PollInit PROVE PollInv
  OBVIOUS
<1>1. /\ curInterval \in BaseInterval..MaxInterval
      /\ timer \in (-MaxLate)..MaxInterval
      /\ dirtyTicks \in 0..(WidenAfter - 1)
      /\ cleanTicks \in 0..(NarrowAfter - 1)
      /\ streak \in (-NarrowAfter)..WidenAfter
  BY PollLoopAssumption DEF PollInit
<1>2. inFlight = "none" /\ polls = 0 /\ drops = FALSE /\ fresh = FALSE
  BY DEF PollInit
<1> QED BY <1>1, <1>2 DEF PollInv, PollTypeOK, OnePollAtATime

\* Every step preserves the invariant.
LEMMA PollNextInv == PollInv /\ [PollNext]_pollVars => PollInv'
<1> SUFFICES ASSUME PollInv, [PollNext]_pollVars PROVE PollInv'
  OBVIOUS
<1>1. /\ PollTypeOK /\ OnePollAtATime
      /\ BaseInterval \in Nat \ {0} /\ MaxInterval \in Nat /\ MaxLate \in Nat
      /\ curInterval \in BaseInterval..MaxInterval
      /\ timer \in (-MaxLate)..MaxInterval
      /\ polls \in {0, 1}
  BY PollLoopAssumption DEF PollInv, PollTypeOK, OnePollAtATime
<1>2. CASE StartPoll
  <2>1. /\ timer <= 0 /\ Adapt /\ polls' = 1 /\ inFlight' = "running" /\ drops' = FALSE
    BY <1>1, <1>2 DEF StartPoll, OnePollAtATime
  <2>3. fresh' = FALSE /\ streak' \in (-NarrowAfter)..WidenAfter
    <3>1. CountPoll
      BY <1>2 DEF StartPoll
    <3> QED BY <1>1, <3>1, StreakRange DEF CountPoll
  <2>2. timer' \in (-MaxLate)..MaxInterval
    BY <1>1, <2>1, AdaptRange
  <2> QED BY <1>1, <2>1, <2>2, <2>3, AdaptRange DEF PollInv, PollTypeOK, OnePollAtATime
<1>3. CASE SkipTick
  <2>1. timer' \in (-MaxLate)..MaxInterval
    BY <1>1, <1>3, NextDeadlineRange DEF SkipTick
  <2> QED BY <1>1, <1>3, <2>1
          DEF SkipTick, PollInv, PollTypeOK, OnePollAtATime, adaptVars, evidenceVars
<1>4. CASE FinishPoll
  BY <1>1, <1>4 DEF FinishPoll, PollInv, PollTypeOK, OnePollAtATime, adaptVars, evidenceVars
<1>5. CASE BusDrops
  BY <1>1, <1>5 DEF BusDrops, PollInv, PollTypeOK, OnePollAtATime, adaptVars
<1>6. CASE PassTime
  BY <1>1, <1>6 DEF PassTime, PollInv, PollTypeOK, OnePollAtATime, adaptVars, evidenceVars
<1>7. CASE UNCHANGED pollVars
  BY <1>1, <1>7 DEF pollVars, PollInv, PollTypeOK, OnePollAtATime
<1> QED BY <1>2, <1>3, <1>4, <1>5, <1>6, <1>7 DEF PollNext

\* The loop's invariant.
THEOREM PollInvariant == PollSpec => []PollInv
BY PollInitInv, PollNextInv, PTL DEF PollSpec

\* The interval never leaves its band, nor a counter its threshold.
THEOREM PollTypeCorrect == PollSpec => []PollTypeOK
<1>1. PollInv => PollTypeOK
  BY DEF PollInv
<1> QED BY <1>1, PollInvariant, PTL

\* Polls of one source never overlap.
THEOREM PollsNeverOverlap == PollSpec => []OnePollAtATime
<1>1. PollInv => OnePollAtATime
  BY DEF PollInv
<1> QED BY <1>1, PollInvariant, PTL

\* A doubled interval is longer and a halved one shorter, short of the band's
\* ends, where they stay.
LEMMA AdaptedDiffers ==
  ASSUME PollTypeOK
  PROVE  /\ curInterval < MaxInterval => Widened > curInterval
         /\ curInterval = MaxInterval => Widened = curInterval
         /\ curInterval > BaseInterval => Narrowed < curInterval
         /\ curInterval = BaseInterval => Narrowed = curInterval
<1>1. /\ BaseInterval \in Nat \ {0} /\ MaxInterval \in Nat
      /\ curInterval \in BaseInterval..MaxInterval
  BY PollLoopAssumption DEF PollTypeOK
<1>2. curInterval \div 2 \in Nat /\ curInterval \div 2 < curInterval
  BY <1>1
<1> QED BY <1>1, <1>2 DEF Widened, Narrowed, Smaller, Larger

\* The code's counters hold the history of the polls, as far as the interval
\* can still change in their direction.
EvidenceInv ==
  /\ drops <=> fresh
  /\ curInterval < MaxInterval => dirtyTicks = Larger(streak, 0)
  /\ curInterval > BaseInterval => cleanTicks = Larger(-streak, 0)

\* A poll changes the interval on evidence only, and keeps the counters right.
LEMMA StartPollEvidence ==
  ASSUME PollInv, EvidenceInv, StartPoll
  PROVE  /\ EvidenceInv'
         /\ polls' > polls
         /\ curInterval' > curInterval <=> curInterval < MaxInterval /\ Streak = WidenAfter
         /\ curInterval' < curInterval <=> curInterval > BaseInterval /\ Streak = -NarrowAfter
<1> DEFINE dirty == IF drops THEN dirtyTicks + 1 ELSE 0
           clean == IF drops THEN 0 ELSE cleanTicks + 1
<1>1. /\ BaseInterval \in Nat \ {0} /\ MaxInterval \in Nat
      /\ WidenAfter \in Nat \ {0} /\ NarrowAfter \in Nat \ {0}
      /\ curInterval \in BaseInterval..MaxInterval
      /\ dirtyTicks \in 0..(WidenAfter - 1) /\ cleanTicks \in 0..(NarrowAfter - 1)
      /\ drops \in BOOLEAN /\ fresh \in BOOLEAN
      /\ streak \in (-NarrowAfter)..WidenAfter
      /\ polls \in Nat
  BY PollLoopAssumption DEF PollInv, PollTypeOK
<1>2. /\ drops' = FALSE /\ fresh' = FALSE /\ polls' = polls + 1 /\ Adapt
      /\ streak' = IF curInterval' = curInterval THEN Streak ELSE 0
  BY DEF StartPoll, CountPoll
<1>3. /\ fresh => Streak = Smaller(Larger(streak, 0) + 1, WidenAfter)
      /\ ~fresh => Streak = Larger(Smaller(streak, 0) - 1, -NarrowAfter)
  BY DEF Streak
<1>4. /\ fresh => Streak \in 1..WidenAfter /\ clean = 0 /\ dirty = dirtyTicks + 1
      /\ ~fresh => -Streak \in 1..NarrowAfter /\ dirty = 0 /\ clean = cleanTicks + 1
      /\ Streak \in Int
  BY <1>1, <1>3 DEF Smaller, Larger, EvidenceInv
<1>5. /\ curInterval < MaxInterval => dirty = Larger(Streak, 0)
      /\ curInterval > BaseInterval => clean = Larger(-Streak, 0)
  <2>1. CASE fresh
    BY <1>1, <1>3, <1>4, <2>1 DEF Smaller, Larger, EvidenceInv
  <2>2. CASE ~fresh
    BY <1>1, <1>3, <1>4, <2>2 DEF Smaller, Larger, EvidenceInv
  <2> QED BY <2>1, <2>2
<1>6. /\ Widened \in Int /\ Narrowed \in Int
      /\ curInterval < MaxInterval => Widened > curInterval
      /\ curInterval = MaxInterval => Widened = curInterval
      /\ curInterval > BaseInterval => Narrowed < curInterval
      /\ curInterval = BaseInterval => Narrowed = curInterval
  BY <1>1, AdaptedDiffers, AdaptedRange DEF PollInv
<1> HIDE DEF dirty, clean
<1>7. CASE /\ dirty >= WidenAfter
           /\ dirtyTicks' = 0 /\ cleanTicks' = clean
           /\ SetInterval(Widened)
  <2>1. fresh /\ clean = 0 /\ curInterval' = Widened
    BY <1>1, <1>4, <1>7 DEF SetInterval
  <2>2. CASE curInterval < MaxInterval
    BY <1>1, <1>2, <1>4, <1>5, <1>6, <1>7, <2>1, <2>2 DEF Larger, EvidenceInv
  <2>3. CASE curInterval = MaxInterval
    BY <1>1, <1>2, <1>4, <1>5, <1>6, <1>7, <2>1, <2>3 DEF Larger, EvidenceInv
  <2> QED BY <1>1, <2>2, <2>3
<1>8. CASE /\ dirty < WidenAfter /\ clean >= NarrowAfter
           /\ dirtyTicks' = dirty /\ cleanTicks' = 0
           /\ SetInterval(Narrowed)
  <2>1. ~fresh /\ dirty = 0 /\ curInterval' = Narrowed
    BY <1>1, <1>4, <1>8 DEF SetInterval
  <2>2. CASE curInterval > BaseInterval
    BY <1>1, <1>2, <1>4, <1>5, <1>6, <1>8, <2>1, <2>2 DEF Larger, EvidenceInv
  <2>3. CASE curInterval = BaseInterval
    BY <1>1, <1>2, <1>4, <1>5, <1>6, <1>8, <2>1, <2>3 DEF Larger, EvidenceInv
  <2> QED BY <1>1, <2>2, <2>3
<1>9. CASE /\ dirty < WidenAfter /\ clean < NarrowAfter
           /\ dirtyTicks' = dirty /\ cleanTicks' = clean
           /\ SetInterval(curInterval)
  BY <1>1, <1>2, <1>4, <1>5, <1>9 DEF SetInterval, Larger, EvidenceInv
<1> QED BY <1>7, <1>8, <1>9, <1>2 DEF Adapt, dirty, clean

\* No other step changes the interval, or lets the counters and the history
\* part.
LEMMA OtherEvidence ==
  ASSUME PollInv, EvidenceInv, [PollNext]_pollVars, ~StartPoll
  PROVE  EvidenceInv' /\ curInterval' = curInterval /\ polls' <= polls
<1>1. /\ UNCHANGED <<curInterval, dirtyTicks, cleanTicks, streak>>
      /\ UNCHANGED <<drops, fresh>> \/ (drops' = TRUE /\ fresh' = TRUE)
      /\ polls' \in {polls, polls - 1}
  BY DEF PollNext, SkipTick, FinishPoll, BusDrops, PassTime, adaptVars, evidenceVars,
         pollVars
<1>2. polls \in Nat
  BY DEF PollInv, PollTypeOK
<1> QED BY <1>1, <1>2 DEF EvidenceInv

\* The interval changes on evidence only: WidenAfter polls in a row that began
\* after new drops, or NarrowAfter that did not, all of them since it last
\* changed.
THEOREM AlwaysAdaptsOnEvidence == PollSpec => AdaptsOnEvidence
<1>1. PollInit => EvidenceInv
  BY PollLoopAssumption DEF PollInit, EvidenceInv, Larger
<1>2. PollInv /\ EvidenceInv /\ [PollNext]_pollVars => EvidenceInv'
  BY StartPollEvidence, OtherEvidence
<1>3. PollInv /\ EvidenceInv /\ [PollNext]_pollVars =>
        [/\ curInterval' > curInterval <=>
              /\ polls' > polls
              /\ curInterval < MaxInterval
              /\ Streak = WidenAfter
         /\ curInterval' < curInterval <=>
              /\ polls' > polls
              /\ curInterval > BaseInterval
              /\ Streak = -NarrowAfter]_pollVars
  <2> SUFFICES ASSUME PollInv, EvidenceInv, [PollNext]_pollVars
               PROVE  /\ curInterval' > curInterval <=>
                           /\ polls' > polls
                           /\ curInterval < MaxInterval
                           /\ Streak = WidenAfter
                      /\ curInterval' < curInterval <=>
                           /\ polls' > polls
                           /\ curInterval > BaseInterval
                           /\ Streak = -NarrowAfter
    OBVIOUS
  <2>1. CASE StartPoll
    BY <2>1, StartPollEvidence
  <2>2. CASE ~StartPoll
    <3>1. curInterval \in Int /\ polls \in Nat /\ polls' \in Int
      BY PollLoopAssumption, PollNextInv DEF PollInv, PollTypeOK
    <3>2. curInterval' = curInterval /\ polls' <= polls
      BY <2>2, OtherEvidence
    <3> QED BY <3>1, <3>2
  <2> QED BY <2>1, <2>2
<1> QED BY <1>1, <1>2, <1>3, PollInvariant, PTL DEF PollSpec, AdaptsOnEvidence

-----------------------------------------------------------------------------
(* What the clock and the system's processes are *)

\* The clock is in range and no observation comes from the future.
ClockInv ==
  /\ now \in Time
  /\ lastObsTs \in Time \cup {NoTs}
  /\ lastObsTs <= now

\* A pid that is occupied is occupied by a process.
WorldInv ==
  /\ occupant \in [Pid -> Nat]
  /\ \A p \in Pid : occupant[p] # 0 => Key(p) \in ProcessKey

-----------------------------------------------------------------------------
\* The poll loop's view of one step.
LEMMA StepIsPollStep == [Next]_vars => [PollNext]_pollVars
<1> SUFFICES ASSUME [Next]_vars PROVE [PollNext]_pollVars
  OBVIOUS
<1> USE DEF pollVars
<1>1. ASSUME NEW p \in Pid, Spawn(p) PROVE UNCHANGED pollVars
  BY <1>1 DEF Spawn
<1>2. ASSUME NEW p \in Pid, Exit(p) PROVE UNCHANGED pollVars
  BY <1>2 DEF Exit
<1>3. CASE LoopTick
  BY <1>3 DEF LoopTick, PollNext
<1>4. CASE ListPids
  BY <1>4 DEF ListPids, PollNext
<1>5. ASSUME NEW p \in Pid, QueryPid(p) PROVE BusDrops \/ UNCHANGED pollVars
  <2>1. UNCHANGED <<curInterval, timer, inFlight, polls, dirtyTicks, cleanTicks, streak>>
    BY <1>5 DEF QueryPid
  <2>2. UNCHANGED <<drops, fresh>> \/ (drops' = TRUE /\ fresh' = TRUE)
    BY <1>5 DEF QueryPid, Gone, Unread, Delivered, Lost
  <2> QED BY <2>1, <2>2 DEF BusDrops, adaptVars
<1>6. CASE EndBurst
  BY <1>6 DEF EndBurst, PollNext
<1>7. CASE Advance
  BY <1>7 DEF Advance, PollNext
<1>8. CASE UNCHANGED vars
  BY <1>8 DEF vars
<1>9. CASE OthersDrop
  BY <1>9 DEF OthersDrop, PollNext
<1> QED BY <1>1, <1>2, <1>3, <1>4, <1>5, <1>6, <1>7, <1>8, <1>9 DEF Next, PollNext

\* Seen from the scheduler, the telemetry path is a poll loop.
THEOREM TelemetryImplementsPollLoop == Spec => PollSpec
<1>1. Init => PollInit
  BY DEF Init
<1> QED BY <1>1, StepIsPollStep, PTL DEF Spec, PollSpec

-----------------------------------------------------------------------------
\* The machine's processes keep their identities.
LEMMA WorldNextInv == WorldInv /\ [Next]_vars => WorldInv'
<1> SUFFICES ASSUME WorldInv, [Next]_vars PROVE WorldInv'
  OBVIOUS
<1> USE DEF WorldInv, Key
<1>1. ASSUME NEW p \in Pid, Spawn(p) PROVE WorldInv'
  <2>1. /\ <<p, used[p] + 1>> \in ProcessKey
        /\ occupant' = [occupant EXCEPT ![p] = used[p] + 1]
    BY <1>1 DEF Spawn
  <2>2. used[p] + 1 \in Nat
    BY <2>1, TelemetryAssumption
  <2> QED BY <2>1, <2>2
<1>2. ASSUME NEW p \in Pid, Exit(p) PROVE WorldInv'
  BY <1>2 DEF Exit
<1>3. CASE LoopTick
  BY <1>3 DEF LoopTick, worldVars
<1>4. CASE ListPids
  BY <1>4 DEF ListPids, worldVars
<1>5. ASSUME NEW p \in Pid, QueryPid(p) PROVE WorldInv'
  BY <1>5 DEF QueryPid, worldVars
<1>6. CASE EndBurst
  BY <1>6 DEF EndBurst, worldVars
<1>7. CASE Advance
  BY <1>7 DEF Advance, worldVars
<1>8. CASE UNCHANGED vars
  BY <1>8 DEF vars, worldVars
<1>9. CASE OthersDrop
  BY <1>9 DEF OthersDrop, worldVars
<1> QED BY <1>1, <1>2, <1>3, <1>4, <1>5, <1>6, <1>7, <1>8, <1>9 DEF Next

\* The stage's view of one step: an observation stamped with the present, or
\* nothing.
LEMMA QueryIsStageStep ==
  ASSUME WorldInv, ClockInv, NEW p \in Pid, QueryPid(p)
  PROVE  /\ LifecycleNext \/ UNCHANGED lifecycleVars
         /\ lastObsTs' \in {lastObsTs, now}
         /\ now' = now
<1>1. now' = now
  BY DEF QueryPid
<1>2. CASE Gone(p) \/ Unread(p) \/ Lost(p)
  BY <1>1, <1>2 DEF Gone, Unread, Lost, lifecycleVars
<1>3. CASE Delivered(p)
  <2>1. Key(p) \in ProcessKey /\ now \in Time /\ now >= lastObsTs
    BY <1>3 DEF Delivered, WorldInv, ClockInv
  <2>2. Accumulate(Key(p), now) \/ BeginTick(Key(p), now)
    BY <1>3 DEF Delivered
  <2>3. LifecycleNext
    BY <2>1, <2>2 DEF LifecycleNext
  <2>4. lastObsTs' = now
    BY <2>2 DEF Accumulate, BeginTick
  <2> QED BY <1>1, <2>3, <2>4
<1> QED BY <1>2, <1>3 DEF QueryPid

\* Every other step leaves the stage alone, and the clock does not go back.
LEMMA StepIsStageStep ==
  ASSUME WorldInv, ClockInv, [Next]_vars
  PROVE  [LifecycleNext]_lifecycleVars /\ ClockInv'
<1>1. MaxTime \in Nat /\ Time = 0..MaxTime
  BY TelemetryAssumption
<1>2. ASSUME NEW p \in Pid, Spawn(p) \/ Exit(p)
      PROVE  UNCHANGED lifecycleVars /\ now' = now /\ lastObsTs' = lastObsTs
  BY <1>2 DEF Spawn, Exit, lifecycleVars
<1>3. CASE LoopTick
  BY <1>3 DEF LoopTick, lifecycleVars, ClockInv
<1>4. CASE ListPids
  BY <1>4 DEF ListPids, lifecycleVars, ClockInv
<1>5. ASSUME NEW p \in Pid, QueryPid(p)
      PROVE  [LifecycleNext]_lifecycleVars /\ ClockInv'
  <2>1. /\ LifecycleNext \/ UNCHANGED lifecycleVars
        /\ lastObsTs' \in {lastObsTs, now} /\ now' = now
    BY <1>5, QueryIsStageStep
  <2>2. now \in Int /\ lastObsTs \in Int
    BY <1>1 DEF ClockInv, NoTs
  <2> QED BY <2>1, <2>2 DEF ClockInv
<1>6. CASE EndBurst
  BY <1>6 DEF EndBurst, lifecycleVars, ClockInv
<1>7. CASE Advance
  <2>1. now < MaxTime /\ now' = now + 1 /\ UNCHANGED lifecycleVars
    BY <1>7 DEF Advance
  <2>2. lastObsTs' = lastObsTs
    BY <2>1 DEF lifecycleVars
  <2>3. now' \in Time /\ lastObsTs' <= now'
    BY <1>1, <2>1, <2>2 DEF ClockInv, NoTs
  <2> QED BY <2>1, <2>2, <2>3 DEF ClockInv
<1>8. CASE UNCHANGED vars
  BY <1>8 DEF vars, lifecycleVars, ClockInv
<1>9. ASSUME NEW p \in Pid, Spawn(p) \/ Exit(p)
      PROVE  [LifecycleNext]_lifecycleVars /\ ClockInv'
  BY <1>2, <1>9 DEF ClockInv
<1>10. CASE OthersDrop
  BY <1>10 DEF OthersDrop, lifecycleVars, ClockInv
<1> QED BY <1>3, <1>4, <1>5, <1>6, <1>7, <1>8, <1>9, <1>10 DEF Next

\* A telemetry path that has just been started.
LEMMA TelemetryInit == Init => WorldInv /\ ClockInv /\ LifecycleInit
<1> SUFFICES ASSUME Init PROVE WorldInv /\ ClockInv
  BY DEF Init
<1>1. ClockInv
  BY TelemetryAssumption DEF Init, LifecycleInit, ClockInv, NoTs
<1>2. occupant \in [Pid -> {0, 1}]
  BY DEF Init
<1>3. ASSUME NEW p \in Pid, occupant[p] # 0 PROVE Key(p) \in ProcessKey
  <2>1. occupant[p] = 1
    BY <1>2, <1>3
  <2> QED BY <2>1, TelemetryAssumption DEF Key
<1> QED BY <1>1, <1>2, <1>3 DEF WorldInv

\* Seen from Layer 2, the telemetry path is the lifecycle stage under calls
\* whose time does not go back.
THEOREM TelemetryImplementsLifecycle == Spec => LifecycleSpec
<1>1. WorldInv /\ ClockInv /\ [Next]_vars =>
        WorldInv' /\ ClockInv' /\ [LifecycleNext]_lifecycleVars
  BY WorldNextInv, StepIsStageStep
<1> QED BY <1>1, TelemetryInit, PTL DEF Spec, LifecycleSpec

-----------------------------------------------------------------------------
\* End to end: the events told downstream add up to the stage's last tick.
THEOREM TelemetryLedgerIsPrior == Spec => []LedgerIsPrior
BY TelemetryImplementsLifecycle, LedgerAlwaysIsPrior, PTL

\* End to end: births and deaths of a process alternate.
THEOREM TelemetryEventsAlternate == Spec => EventsAlternate
BY TelemetryImplementsLifecycle, EventsAlwaysAlternate, PTL

\* End to end: reconstructed time runs behind observed time.
THEOREM TelemetryEventsLag == Spec => EventsLag
BY TelemetryImplementsLifecycle, EventsAlwaysLag, PTL

\* End to end: the process source's polls do not overlap.
THEOREM TelemetryPollsNeverOverlap == Spec => []OnePollAtATime
BY TelemetryImplementsPollLoop, PollsNeverOverlap, PTL

-----------------------------------------------------------------------------
(* Types of the composition: a burst goes on exactly while its poll runs.   *)

BurstInv ==
  /\ occupant \in [Pid -> Nat] /\ used \in [Pid -> Nat]
  /\ burst \in {"idle", "listing", "querying", "emitting"}
  /\ toQuery \subseteq Pid
  /\ burst = "idle" <=> inFlight # "running"
  /\ dropped \in Nat /\ unread \in Nat /\ stalls \in Nat

\* A step keeps the types, given that polls do not overlap.
LEMMA BurstStep ==
  ASSUME BurstInv, OnePollAtATime, [Next]_vars
  PROVE  BurstInv'
<1> USE DEF BurstInv
<1>1. ASSUME NEW p \in Pid, Spawn(p) \/ Exit(p)  PROVE BurstInv'
  BY <1>1 DEF Spawn, Exit, pollVars, burstVars, boundVars
<1>2. CASE LoopTick
  BY <1>2 DEF LoopTick, StartPoll, SkipTick, worldVars, boundVars
<1>3. ASSUME FinishPoll  PROVE inFlight' = "finished"
  BY <1>3 DEF FinishPoll, OnePollAtATime
<1>4. CASE ListPids
  <2>1. UNCHANGED <<occupant, used, dropped, unread, stalls>>
    BY <1>4 DEF ListPids, worldVars, boundVars
  <2>2. CASE burst' = "querying" /\ UNCHANGED pollVars
    BY <1>4, <2>1, <2>2 DEF ListPids, pollVars
  <2>3. CASE burst' = "idle" /\ FinishPoll /\ UNCHANGED toQuery
    BY <1>3, <2>1, <2>3
  <2> QED BY <1>4, <2>2, <2>3 DEF ListPids
<1>5. ASSUME NEW p \in Pid, QueryPid(p)  PROVE BurstInv'
  <2>1. UNCHANGED <<occupant, used, stalls, inFlight>> /\ toQuery' \subseteq toQuery
    BY <1>5 DEF QueryPid, worldVars
  <2>2. /\ dropped' \in {dropped, dropped + 1} /\ unread' \in {unread, unread + 1}
        /\ burst' \in {burst, "emitting"}
    BY <1>5 DEF QueryPid, Gone, Unread, Delivered, Lost
  <2>3. burst \in {"querying", "emitting"}
    BY <1>5 DEF QueryPid, Querying
  <2> QED BY <2>1, <2>2, <2>3
<1>6. CASE EndBurst
  BY <1>3, <1>6 DEF EndBurst, worldVars, boundVars
<1>7. CASE Advance
  BY <1>7 DEF Advance, PassTime, worldVars, burstVars
<1>8. CASE UNCHANGED vars
  BY <1>8 DEF vars, pollVars, worldVars, burstVars, boundVars
<1>9. CASE OthersDrop
  BY <1>9 DEF OthersDrop, BusDrops, worldVars, burstVars, boundVars
<1> QED BY <1>1, <1>2, <1>4, <1>5, <1>6, <1>7, <1>8, <1>9 DEF Next

\* The invariant of bursts holds in every state.
LEMMA BurstInvariant == Spec => []BurstInv
<1>1. Init => BurstInv
  <2> SUFFICES ASSUME Init  PROVE BurstInv
    OBVIOUS
  <2>1. occupant \in [Pid -> {0, 1}] /\ used = occupant
    BY DEF Init
  <2> QED BY <2>1 DEF Init, PollInit, BurstInv
<1>2. BurstInv /\ OnePollAtATime /\ [Next]_vars => BurstInv'
  BY BurstStep
<1>3. Spec => []OnePollAtATime
  BY TelemetryPollsNeverOverlap
<1> QED BY <1>1, <1>2, <1>3, PTL DEF Spec

\* Type correctness of the telemetry path.
THEOREM TelemetryTypeCorrect == Spec => []TypeOK
<1>1. Spec => []PollTypeOK
  BY TelemetryImplementsPollLoop, PollTypeCorrect, PTL
<1>2. Spec => []LifecycleTypeOK
  BY TelemetryImplementsLifecycle, LifecycleTypeCorrect, PTL
<1>3. BurstInv /\ PollTypeOK /\ LifecycleTypeOK => TypeOK
  BY DEF BurstInv, TypeOK
<1> QED BY <1>1, <1>2, <1>3, BurstInvariant, PTL

-----------------------------------------------------------------------------
(* OnlyGapsInventDeaths.  As long as nothing is lost or left unread and no  *)
(* burst split, a tick's running processes are in the next tick or still to *)
(* be queried by the burst that goes on; before a burst's first observation *)
(* all of them are, in both ticks.  A process that has exited never runs    *)
(* again.                                                                   *)

\* No incarnation is known before it exists.
UsedInv ==
  /\ \A p \in Pid : occupant[p] <= used[p]
  /\ \A k \in ProcessKey :
       k \in DOMAIN current \cup DOMAIN prior \/ ledger[k] = "dead" => k[2] <= used[k[1]]

WalkInv ==
  /\ burst # "emitting" =>
       \A k \in DOMAIN prior : Alive(k) => k \in DOMAIN current
  /\ burst = "emitting" =>
       \A k \in DOMAIN prior : Alive(k) => k \in DOMAIN current \/ k[1] \in toQuery
  /\ burst = "querying" =>
       \A k \in DOMAIN current : Alive(k) => k[1] \in toQuery

NoStall == MidBurst => ~IsBoundary(now)

Undisturbed == dropped = 0 /\ unread = 0 /\ stalls = 0

DeathInv == UsedInv /\ (Undisturbed => WalkInv /\ NoStall /\ DeathsAreReal)

Context == BurstInv /\ LifecycleTypeOK /\ ClockInv /\ WorldInv

\* A process is a pid and an incarnation, counted from one.
LEMMA KeyParts ==
  ASSUME NEW k \in ProcessKey
  PROVE  k[1] \in Pid /\ k[2] \in Nat \ {0} /\ k = <<k[1], k[2]>>
BY TelemetryAssumption

\* The running process of a pid is the one that answers.
LEMMA AliveIsKey ==
  ASSUME NEW k \in ProcessKey, Alive(k)
  PROVE  k = Key(k[1]) /\ occupant[k[1]] # 0
BY KeyParts DEF Alive, Key

\* Keys of the two ticks are processes.
LEMMA TickKeys ==
  ASSUME LifecycleTypeOK
  PROVE  DOMAIN current \subseteq ProcessKey /\ DOMAIN prior \subseteq ProcessKey
BY DEF LifecycleTypeOK, IsTick

\* A process starts: it is new to everyone.
LEMMA DeathSpawn ==
  ASSUME DeathInv, Context, NEW p \in Pid, Spawn(p)
  PROVE  DeathInv'
<1> DEFINE new == <<p, used[p] + 1>>
<1>1. /\ new \in ProcessKey /\ occupant[p] = 0
      /\ used' = [used EXCEPT ![p] = @ + 1]
      /\ occupant' = [occupant EXCEPT ![p] = used[p] + 1]
      /\ UNCHANGED <<current, prior, lastObsTs, ledger, now, burst, toQuery,
                     dropped, unread, stalls>>
  BY DEF Spawn, lifecycleVars, burstVars, boundVars
<1>2. occupant \in [Pid -> Nat] /\ used \in [Pid -> Nat]
  BY DEF Context, BurstInv
<1>3. ASSUME NEW k \in ProcessKey, k[2] <= used[k[1]], Alive(k)'  PROVE Alive(k)
  <2>1. k[1] \in Pid /\ k[2] \in Nat
    BY KeyParts
  <2>2. occupant'[k[1]] = k[2]
    BY <1>3 DEF Alive
  <2>3. k[1] # p
    BY <1>1, <1>2, <1>3, <2>1, <2>2
  <2> QED BY <1>1, <1>2, <2>1, <2>2, <2>3 DEF Alive
<1>4. UsedInv'
  <2>1. ASSUME NEW q \in Pid  PROVE occupant'[q] <= used'[q] /\ used[q] <= used'[q]
    BY <1>1, <1>2 DEF DeathInv, UsedInv
  <2>2. ASSUME NEW k \in ProcessKey,
               k \in DOMAIN current' \cup DOMAIN prior' \/ ledger'[k] = "dead"
        PROVE  k[2] <= used'[k[1]]
    <3>1. k[2] <= used[k[1]]
      BY <1>1, <2>2 DEF DeathInv, UsedInv
    <3>2. k[1] \in Pid /\ k[2] \in Nat
      BY KeyParts
    <3>3. used[k[1]] \in Nat /\ used'[k[1]] \in Nat /\ used[k[1]] <= used'[k[1]]
      BY <1>1, <1>2, <2>1, <3>2
    <3> QED BY <3>1, <3>2, <3>3
  <2> QED BY <2>1, <2>2 DEF UsedInv
<1>5. ASSUME Undisturbed'  PROVE (WalkInv /\ NoStall /\ DeathsAreReal)'
  <2>1. WalkInv /\ NoStall /\ DeathsAreReal
    BY <1>1, <1>5 DEF DeathInv, Undisturbed
  <2>2. \A k \in DOMAIN current \cup DOMAIN prior : Alive(k)' => Alive(k)
    BY <1>3, TickKeys DEF Context, DeathInv, UsedInv
  <2>3. WalkInv'
    BY <1>1, <2>1, <2>2 DEF WalkInv
  <2>4. NoStall'
    BY <1>1, <2>1 DEF NoStall, MidBurst, IsBoundary
  <2>5. DeathsAreReal'
    BY <1>1, <1>3, <2>1 DEF DeathInv, UsedInv, DeathsAreReal
  <2> QED BY <2>3, <2>4, <2>5
<1> QED BY <1>4, <1>5 DEF DeathInv

\* A process exits.
LEMMA DeathExit ==
  ASSUME DeathInv, Context, NEW p \in Pid, Exit(p)
  PROVE  DeathInv'
<1>1. /\ occupant' = [occupant EXCEPT ![p] = 0]
      /\ UNCHANGED <<used, current, prior, lastObsTs, ledger, now, burst, toQuery,
                     dropped, unread, stalls>>
  BY DEF Exit, lifecycleVars, burstVars, boundVars
<1>2. occupant \in [Pid -> Nat] /\ used \in [Pid -> Nat]
  BY DEF Context, BurstInv
<1>3. ASSUME NEW k \in ProcessKey, Alive(k)'  PROVE Alive(k)
  <2>1. k[1] \in Pid /\ k[2] # 0
    BY KeyParts
  <2> QED BY <1>1, <1>2, <1>3, <2>1 DEF Alive
<1>4. UsedInv'
  BY <1>1, <1>2 DEF DeathInv, UsedInv
<1>5. ASSUME Undisturbed'  PROVE (WalkInv /\ NoStall /\ DeathsAreReal)'
  <2>1. WalkInv /\ NoStall /\ DeathsAreReal
    BY <1>1, <1>5 DEF DeathInv, Undisturbed
  <2>2. \A k \in DOMAIN current \cup DOMAIN prior : Alive(k)' => Alive(k)
    BY <1>3, TickKeys DEF Context
  <2>3. WalkInv'
    BY <1>1, <2>1, <2>2 DEF WalkInv
  <2>4. NoStall'
    BY <1>1, <2>1 DEF NoStall, MidBurst, IsBoundary
  <2>5. DeathsAreReal'
    BY <1>1, <1>3, <2>1 DEF DeathsAreReal
  <2> QED BY <2>3, <2>4, <2>5
<1> QED BY <1>4, <1>5 DEF DeathInv

\* The steps of the poll around its queries.
LEMMA DeathPoll ==
  ASSUME DeathInv, Context, LoopTick \/ OthersDrop \/ ListPids \/ EndBurst
  PROVE  DeathInv'
<1>1. UNCHANGED <<occupant, used, current, prior, lastObsTs, ledger, now, dropped, unread,
                  stalls>>
  BY DEF LoopTick, OthersDrop, ListPids, EndBurst, lifecycleVars, worldVars, boundVars
<1>2. UsedInv'
  BY <1>1 DEF DeathInv, UsedInv
<1>3. ASSUME Undisturbed'  PROVE (WalkInv /\ NoStall /\ DeathsAreReal)'
  <2>1. WalkInv /\ NoStall /\ DeathsAreReal
    BY <1>1, <1>3 DEF DeathInv, Undisturbed
  <2>2. DeathsAreReal'
    BY <1>1, <2>1 DEF DeathsAreReal, Alive
  <2>3. \A k \in ProcessKey : Alive(k)' <=> Alive(k)
    BY <1>1 DEF Alive
  <2>4. burst' # "emitting" \/ UNCHANGED <<burst, toQuery>>
    BY DEF LoopTick, OthersDrop, ListPids, EndBurst, burstVars
  <2>5. NoStall'
    BY <1>1, <2>1, <2>4 DEF NoStall, MidBurst, IsBoundary
  <2>6. CASE UNCHANGED <<burst, toQuery>>
    <3>1. WalkInv'
      BY <1>1, <2>1, <2>6 DEF WalkInv, Alive
    <3> QED BY <2>2, <2>5, <3>1
  <2>7. CASE /\ burst' # "emitting"
             /\ burst = "emitting" => toQuery = {}
             /\ burst' = "querying" => toQuery' = {p \in Pid : occupant[p] # 0}
    <3>1. \A k \in DOMAIN prior : Alive(k) => k \in DOMAIN current
      BY <2>1, <2>7 DEF WalkInv
    <3>2. ASSUME NEW k \in DOMAIN current, Alive(k), burst' = "querying"
          PROVE  k[1] \in toQuery'
      BY <2>7, <3>2, KeyParts, AliveIsKey, TickKeys DEF Context
    <3>3. WalkInv'
      BY <1>1, <2>7, <3>1, <3>2 DEF WalkInv, Alive
    <3> QED BY <2>2, <2>5, <3>3
  <2>8. CASE LoopTick
    BY <2>6, <2>7, <2>8 DEF LoopTick, StartPoll, SkipTick, Context, BurstInv
  <2>9. CASE ListPids \/ EndBurst
    BY <2>7, <2>9 DEF ListPids, EndBurst
  <2>10. CASE OthersDrop
    BY <2>6, <2>10 DEF OthersDrop, burstVars
  <2> QED BY <2>8, <2>9, <2>10
<1> QED BY <1>2, <1>3 DEF DeathInv

\* What a finished tick adds to the ledger's deaths.
LEMMA FinalizedDeaths ==
  ASSUME NEW ts, FinalizeTick(ts)
  PROVE  /\ prior' = current
         /\ \A k \in ProcessKey : ledger'[k] = "dead" =>
              ledger[k] = "dead" \/ k \in DOMAIN prior \ DOMAIN current
<1>1. ASSUME NEW k \in ProcessKey, ledger'[k] = "dead"
      PROVE  ledger[k] = "dead" \/ k \in DOMAIN prior \ DOMAIN current
  <2>1. CASE /\ events' = [births |-> Births, deaths |-> Deaths(ts)]
             /\ ledger' = Recorded(events', {})
    <3>1. events'.deaths = Deaths(ts)
      BY <2>1
    <3>2. k \in Keys(events'.deaths) \/ ledger[k] = "dead"
      BY <1>1, <2>1 DEF Recorded
    <3>3. k \in Keys(Deaths(ts)) => k \in DOMAIN prior \ DOMAIN current
      BY DEF Keys, Deaths
    <3> QED BY <3>1, <3>2, <3>3
  <2>2. CASE ledger' = Recorded(NoEvents, DOMAIN current)
    <3>1. k \notin Keys(NoEvents.deaths)
      BY DEF Keys, NoEvents
    <3> QED BY <1>1, <2>2, <3>1 DEF Recorded
  <2> QED BY <2>1, <2>2 DEF FinalizeTick
<1> QED BY <1>1 DEF FinalizeTick

\* An observation gets through.
LEMMA DeathDelivered ==
  ASSUME DeathInv, Context, NEW p \in Pid, QueryPid(p), Delivered(p)
  PROVE  DeathInv'
<1> DEFINE k0 == Key(p)
<1>1. /\ burst \in {"querying", "emitting"} /\ p \in toQuery
      /\ toQuery' = toQuery \ {p} /\ burst' = "emitting"
      /\ UNCHANGED <<now, occupant, used, stalls, dropped, unread>>
  BY DEF QueryPid, Querying, Delivered, worldVars
<1>2. k0 \in ProcessKey /\ Alive(k0) /\ k0[1] = p
  BY DEF Delivered, Context, WorldInv, Key, Alive
<1>3. \A k \in ProcessKey : Alive(k) /\ k[1] = p => k = k0
  BY AliveIsKey
<1>4. k0[2] <= used[k0[1]]
  BY <1>2, KeyParts DEF DeathInv, UsedInv, Alive
<1>5. now \in Int /\ TickGap \in Nat
  BY TelemetryAssumption, LifecycleAssumption DEF Context, ClockInv
<1>6. DOMAIN current \subseteq ProcessKey /\ DOMAIN prior \subseteq ProcessKey
  BY TickKeys DEF Context
<1> HIDE DEF k0
<1>7. CASE Accumulate(k0, now)
  <2>1. /\ DOMAIN current' = DOMAIN current \cup {k0} /\ lastObsTs' = now
        /\ UNCHANGED <<prior, ledger>>
    BY <1>7 DEF Accumulate, Insert
  <2>2. UsedInv'
    BY <1>1, <1>4, <2>1 DEF DeathInv, UsedInv
  <2>3. ASSUME Undisturbed'  PROVE (WalkInv /\ NoStall /\ DeathsAreReal)'
    <3>1. WalkInv /\ DeathsAreReal
      BY <1>1, <2>3 DEF DeathInv, Undisturbed
    <3>2. DeathsAreReal'
      BY <1>1, <2>1, <3>1 DEF DeathsAreReal, Alive
    <3>3. NoStall'
      BY <1>1, <1>5, <2>1 DEF NoStall, IsBoundary
    <3>4. ASSUME NEW k \in DOMAIN prior', Alive(k)'
          PROVE  k \in DOMAIN current' \/ k[1] \in toQuery'
      <4>1. k \in DOMAIN prior /\ Alive(k)
        BY <1>1, <2>1, <3>4 DEF Alive
      <4>2. k \in DOMAIN current \/ k[1] \in toQuery
        BY <1>1, <3>1, <4>1 DEF WalkInv
      <4> QED BY <1>1, <1>3, <1>6, <2>1, <4>1, <4>2
    <3> QED BY <1>1, <3>2, <3>3, <3>4 DEF WalkInv
  <2> QED BY <2>2, <2>3 DEF DeathInv
<1>8. CASE BeginTick(k0, now)
  <2>1. /\ IsBoundary(now) /\ FinalizeTick(lastObsTs)
        /\ DOMAIN current' = {k0} /\ lastObsTs' = now /\ prior' = current
    BY <1>8 DEF BeginTick, FinalizeTick, Insert, EmptyTick
  <2>2. \A k \in ProcessKey : ledger'[k] = "dead" =>
          ledger[k] = "dead" \/ k \in DOMAIN prior \ DOMAIN current
    BY <2>1, FinalizedDeaths
  <2>3. UsedInv'
    BY <1>1, <1>4, <2>1, <2>2 DEF DeathInv, UsedInv
  <2>4. ASSUME Undisturbed'  PROVE (WalkInv /\ NoStall /\ DeathsAreReal)'
    <3>1. WalkInv /\ NoStall /\ DeathsAreReal
      BY <1>1, <2>4 DEF DeathInv, Undisturbed
    <3>2. burst = "querying"
      BY <1>1, <2>1, <3>1 DEF NoStall, MidBurst
    <3>3. DeathsAreReal'
      <4>1. \A k \in DOMAIN prior \ DOMAIN current : ~Alive(k)
        BY <3>1, <3>2 DEF WalkInv
      <4> QED BY <1>1, <2>2, <3>1, <4>1 DEF DeathsAreReal, Alive
    <3>4. NoStall'
      BY <1>1, <1>5, <2>1 DEF NoStall, IsBoundary
    <3>5. ASSUME NEW k \in DOMAIN prior', Alive(k)'
          PROVE  k \in DOMAIN current' \/ k[1] \in toQuery'
      <4>1. k \in DOMAIN current /\ Alive(k)
        BY <1>1, <2>1, <3>5 DEF Alive
      <4>2. k[1] \in toQuery
        BY <3>1, <3>2, <4>1 DEF WalkInv
      <4> QED BY <1>1, <1>3, <1>6, <2>1, <4>1, <4>2
    <3> QED BY <1>1, <3>3, <3>4, <3>5 DEF WalkInv
  <2> QED BY <2>3, <2>4 DEF DeathInv
<1> QED BY <1>7, <1>8 DEF Delivered, k0

\* A query that gets no answer, or whose observation is lost.
LEMMA DeathUnanswered ==
  ASSUME DeathInv, Context, NEW p \in Pid, QueryPid(p), Gone(p) \/ Unread(p) \/ Lost(p)
  PROVE  DeathInv'
<1>1. /\ toQuery' = toQuery \ {p}
      /\ UNCHANGED <<burst, now, occupant, used, stalls, current, prior, lastObsTs, ledger>>
  BY DEF QueryPid, Gone, Unread, Lost, worldVars, lifecycleVars
<1>2. UsedInv'
  BY <1>1 DEF DeathInv, UsedInv
<1>3. ASSUME Undisturbed'  PROVE (WalkInv /\ NoStall /\ DeathsAreReal)'
  <2>1. Gone(p)
    <3> SUFFICES ASSUME Unread(p) \/ Lost(p)  PROVE FALSE
      OBVIOUS
    <3>1. dropped' = dropped + 1 \/ unread' = unread + 1
      BY DEF Unread, Lost
    <3>2. dropped \in Nat /\ dropped' = 0 /\ unread \in Nat /\ unread' = 0
      BY <1>3 DEF Undisturbed, Context, BurstInv
    <3> QED BY <3>1, <3>2
  <2>2. occupant[p] = 0 /\ dropped' = dropped /\ unread' = unread
    BY <2>1 DEF Gone
  <2>3. WalkInv /\ NoStall /\ DeathsAreReal
    BY <1>1, <1>3, <2>2 DEF DeathInv, Undisturbed
  <2>4. \A k \in ProcessKey : Alive(k) => k[1] # p
    BY <2>2, AliveIsKey
  <2>5. WalkInv'
    BY <1>1, <2>3, <2>4, TickKeys DEF WalkInv, Alive, Context
  <2>6. NoStall'
    BY <1>1, <2>3 DEF NoStall, MidBurst, IsBoundary
  <2>7. DeathsAreReal'
    BY <1>1, <2>3 DEF DeathsAreReal, Alive
  <2> QED BY <2>5, <2>6, <2>7
<1> QED BY <1>2, <1>3 DEF DeathInv

\* Time passes.
LEMMA DeathAdvance ==
  ASSUME DeathInv, Context, Advance
  PROVE  DeathInv'
<1>1. /\ UNCHANGED <<occupant, used, current, prior, lastObsTs, ledger, burst, toQuery,
                     dropped, unread>>
      /\ now' = now + 1
  BY DEF Advance, lifecycleVars, worldVars, burstVars
<1>2. UsedInv'
  BY <1>1 DEF DeathInv, UsedInv
<1>3. ASSUME Undisturbed'  PROVE (WalkInv /\ NoStall /\ DeathsAreReal)'
  <2>1. stalls' = stalls /\ ~(MidBurst /\ IsBoundary(now + 1))
    BY <1>3 DEF Advance, Undisturbed, Context, BurstInv
  <2>2. WalkInv /\ DeathsAreReal
    BY <1>1, <1>3, <2>1 DEF DeathInv, Undisturbed
  <2>3. WalkInv' /\ DeathsAreReal'
    BY <1>1, <2>2 DEF WalkInv, DeathsAreReal, Alive
  <2>4. NoStall'
    BY <1>1, <2>1 DEF NoStall, MidBurst, IsBoundary
  <2> QED BY <2>3, <2>4
<1> QED BY <1>2, <1>3 DEF DeathInv

\* A step invents no death.
LEMMA DeathStep ==
  ASSUME DeathInv, Context, [Next]_vars
  PROVE  DeathInv'
<1>1. ASSUME NEW p \in Pid, QueryPid(p)  PROVE DeathInv'
  BY <1>1, DeathDelivered, DeathUnanswered DEF QueryPid
<1>2. CASE UNCHANGED vars
  <2>1. UNCHANGED <<occupant, used, current, prior, lastObsTs, ledger, now, burst,
                    toQuery, dropped, unread, stalls>>
    BY <1>2 DEF vars, lifecycleVars, worldVars, burstVars, boundVars
  <2> QED BY <2>1 DEF DeathInv, UsedInv, WalkInv, NoStall, DeathsAreReal, Undisturbed,
                      Alive, MidBurst, IsBoundary
<1> QED BY <1>1, <1>2, DeathSpawn, DeathExit, DeathPoll, DeathAdvance DEF Next

\* What is true of every state, whatever is lost.
LEMMA ContextInvariant == Spec => []Context
<1>1. Spec => []LifecycleTypeOK
  BY TelemetryImplementsLifecycle, LifecycleTypeCorrect, PTL
<1>2. Spec => [](ClockInv /\ WorldInv)
  <2>1. WorldInv /\ ClockInv /\ [Next]_vars => WorldInv' /\ ClockInv'
    BY WorldNextInv, StepIsStageStep
  <2> QED BY <2>1, TelemetryInit, PTL DEF Spec
<1>3. BurstInv /\ LifecycleTypeOK /\ ClockInv /\ WorldInv => Context
  BY DEF Context
<1> QED BY <1>1, <1>2, <1>3, BurstInvariant, PTL

\* Layer 2 reports no death of a running process unless an observation was
\* lost, a process left unread or a burst split: for any number of processes and incarnations, with
\* processes that start, exit and are replaced during the walk, polls that fail,
\* and any delay between them.
THEOREM OnlyGapsEverInventDeaths == Spec => []OnlyGapsInventDeaths
<1>1. Init => DeathInv
  <2> SUFFICES ASSUME Init  PROVE DeathInv
    OBVIOUS
  <2>1. /\ DOMAIN current = {} /\ DOMAIN prior = {}
        /\ \A k \in ProcessKey : ledger[k] = "unknown"
        /\ burst = "idle" /\ used = occupant /\ occupant \in [Pid -> {0, 1}]
    BY DEF Init, LifecycleInit, EmptyTick
  <2> QED BY <2>1 DEF DeathInv, UsedInv, WalkInv, NoStall, MidBurst, DeathsAreReal
<1>2. DeathInv /\ Context /\ [Next]_vars => DeathInv'
  BY DeathStep
<1>3. DeathInv => OnlyGapsInventDeaths
  BY DEF DeathInv, Undisturbed, OnlyGapsInventDeaths
<1> QED BY <1>1, <1>2, <1>3, ContextInvariant, PTL DEF Spec

-----------------------------------------------------------------------------
(* LedgerCatchesUp.  The first tick begun since a process changed may have  *)
(* listed it before the change; the walk of the second has it right, and   *)
(* the third makes that tick the last one, given that there was no gap.    *)

CountsOK == settled \in [ProcessKey -> 0..3] /\ calm \in 0..3

RecentInv(k) ==
  /\ ~Alive(k) /\ settled[k] >= 1 => k \notin DOMAIN current
  /\ ~Alive(k) /\ settled[k] >= 2 => k \notin DOMAIN prior
  /\ Alive(k) /\ settled[k] >= 1 /\ calm >= 1 /\ burst = "querying" => k[1] \in toQuery
  /\ Alive(k) /\ settled[k] >= 2 /\ calm >= 2 =>
       k \in DOMAIN current \/ (burst = "emitting" /\ k[1] \in toQuery)
  /\ Alive(k) /\ settled[k] = 3 /\ calm = 3 => k \in DOMAIN prior

CatchUpInv == CountsOK /\ \A k \in ProcessKey : RecentInv(k)

\* A process starts or exits: of all others nothing changes.
LEMMA CatchUpWorld ==
  ASSUME CatchUpInv, Context, NEW p \in Pid, Spawn(p) \/ Exit(p)
  PROVE  CatchUpInv'
<1>1. UNCHANGED <<current, prior, burst, toQuery, calm>>
  BY DEF Spawn, Exit, lifecycleVars, burstVars
<1>2. occupant \in [Pid -> Nat] /\ settled \in [ProcessKey -> 0..3]
  BY DEF Context, BurstInv, CatchUpInv, CountsOK
<1>3. PICK new \in ProcessKey : /\ new[1] = p /\ settled' = [settled EXCEPT ![new] = 0]
                                /\ \A k \in ProcessKey \ {new} : Alive(k)' <=> Alive(k)
  <2>1. CASE Spawn(p)
    <3>1. /\ <<p, used[p] + 1>> \in ProcessKey /\ occupant[p] = 0
          /\ settled' = [settled EXCEPT ![<<p, used[p] + 1>>] = 0]
          /\ occupant' = [occupant EXCEPT ![p] = used[p] + 1]
      BY <2>1 DEF Spawn
    <3>2. ASSUME NEW k \in ProcessKey \ {<<p, used[p] + 1>>}
          PROVE  Alive(k)' <=> Alive(k)
      <4>1. k[1] \in Pid /\ k[2] # 0 /\ k = <<k[1], k[2]>>
        BY KeyParts
      <4> QED BY <1>2, <3>1, <4>1 DEF Alive
    <3> QED BY <3>1, <3>2
  <2>2. CASE Exit(p)
    <3>1. /\ Key(p) \in ProcessKey
          /\ settled' = [settled EXCEPT ![Key(p)] = 0]
          /\ occupant' = [occupant EXCEPT ![p] = 0]
      BY <2>2 DEF Exit, Context, WorldInv
    <3>2. ASSUME NEW k \in ProcessKey \ {Key(p)}
          PROVE  Alive(k)' <=> Alive(k)
      <4>1. k[1] \in Pid /\ k[2] # 0 /\ k = <<k[1], k[2]>>
        BY KeyParts
      <4> QED BY <1>2, <3>1, <4>1 DEF Alive, Key
    <3>3. Key(p)[1] = p
      BY DEF Key
    <3> QED BY <3>1, <3>2, <3>3
  <2> QED BY <2>1, <2>2
<1>4. CountsOK'
  BY <1>1, <1>2, <1>3 DEF CatchUpInv, CountsOK
<1>5. RecentInv(new)'
  BY <1>2, <1>3 DEF RecentInv
<1>6. ASSUME NEW k \in ProcessKey \ {new}  PROVE RecentInv(k)'
  BY <1>1, <1>2, <1>3 DEF CatchUpInv, RecentInv
<1> QED BY <1>4, <1>5, <1>6 DEF CatchUpInv

\* The steps of the poll around its queries.
LEMMA CatchUpPoll ==
  ASSUME CatchUpInv, Context, LoopTick \/ OthersDrop \/ ListPids \/ EndBurst \/ Advance
  PROVE  CatchUpInv'
<1>1. UNCHANGED <<occupant, current, prior, settled, calm>>
  BY DEF LoopTick, OthersDrop, ListPids, EndBurst, Advance, lifecycleVars, worldVars
<1>2. \/ UNCHANGED <<burst, toQuery>>
      \/ burst' = "listing" /\ burst # "emitting" /\ UNCHANGED toQuery
      \/ burst' = "querying" /\ burst = "listing" /\ toQuery' = {p \in Pid : occupant[p] # 0}
      \/ burst' = "idle" /\ (burst = "emitting" => toQuery = {})
  BY DEF LoopTick, StartPoll, OthersDrop, ListPids, EndBurst, Advance, burstVars,
         Context, BurstInv
<1>3. CountsOK'
  BY <1>1 DEF CatchUpInv, CountsOK
<1>4. ASSUME NEW k \in ProcessKey  PROVE RecentInv(k)'
  <2>1. RecentInv(k) /\ (Alive(k)' <=> Alive(k))
    BY <1>1 DEF CatchUpInv, Alive
  <2>2. Alive(k) => k[1] \in {p \in Pid : occupant[p] # 0}
    BY KeyParts, AliveIsKey
  <2> QED BY <1>1, <1>2, <2>1, <2>2 DEF RecentInv
<1> QED BY <1>3, <1>4 DEF CatchUpInv

\* A query that gets no answer, or whose observation is lost.
LEMMA CatchUpUnanswered ==
  ASSUME CatchUpInv, Context, NEW p \in Pid, QueryPid(p),
         Gone(p) \/ Unread(p) \/ Lost(p)
  PROVE  CatchUpInv'
<1>1. /\ toQuery' = toQuery \ {p}
      /\ UNCHANGED <<burst, occupant, current, prior, settled>>
      /\ calm' = 0 \/ (occupant[p] = 0 /\ calm' = calm)
  BY DEF QueryPid, Gone, Unread, Lost, worldVars, lifecycleVars
<1>2. CountsOK'
  BY <1>1 DEF CatchUpInv, CountsOK
<1>3. ASSUME NEW k \in ProcessKey  PROVE RecentInv(k)'
  <2>1. RecentInv(k) /\ (Alive(k)' <=> Alive(k))
    BY <1>1 DEF CatchUpInv, Alive
  <2>2. Alive(k) /\ occupant[p] = 0 => k[1] # p
    BY AliveIsKey
  <2> QED BY <1>1, <2>1, <2>2 DEF RecentInv
<1> QED BY <1>2, <1>3 DEF CatchUpInv

\* An observation gets through.
LEMMA CatchUpDelivered ==
  ASSUME CatchUpInv, Context, NEW p \in Pid, QueryPid(p), Delivered(p)
  PROVE  CatchUpInv'
<1> DEFINE k0 == Key(p)
<1>1. /\ burst \in {"querying", "emitting"} /\ p \in toQuery
      /\ toQuery' = toQuery \ {p} /\ burst' = "emitting"
      /\ UNCHANGED occupant
  BY DEF QueryPid, Querying, Delivered, worldVars
<1>2. k0 \in ProcessKey /\ Alive(k0) /\ k0[1] = p
  BY DEF Delivered, Context, WorldInv, Key, Alive
<1>3. \A k \in ProcessKey : Alive(k) /\ k[1] = p => k = k0
  BY AliveIsKey
<1>4. settled \in [ProcessKey -> 0..3] /\ calm \in 0..3
  BY DEF CatchUpInv, CountsOK
<1>5. \/ Accumulate(k0, now) /\ UNCHANGED <<settled, calm>>
      \/ /\ BeginTick(k0, now)
         /\ settled' = [k \in ProcessKey |-> Bumped(settled[k])]
         /\ calm' = IF burst = "emitting" THEN 0 ELSE Bumped(calm)
  BY DEF Delivered
<1> HIDE DEF k0
<1>6. CASE Accumulate(k0, now) /\ UNCHANGED <<settled, calm>>
  <2>1. DOMAIN current' = DOMAIN current \cup {k0} /\ UNCHANGED prior
    BY <1>6 DEF Accumulate, Insert
  <2>2. CountsOK'
    BY <1>4, <1>6 DEF CountsOK
  <2>3. ASSUME NEW k \in ProcessKey  PROVE RecentInv(k)'
    <3>1. RecentInv(k) /\ (Alive(k)' <=> Alive(k))
      BY <1>1 DEF CatchUpInv, Alive
    <3>2. settled[k] \in 0..3
      BY <1>4
    <3> QED BY <1>1, <1>2, <1>3, <1>4, <1>6, <2>1, <3>1, <3>2 DEF RecentInv
  <2> QED BY <2>2, <2>3 DEF CatchUpInv
<1>7. CASE /\ BeginTick(k0, now)
           /\ settled' = [k \in ProcessKey |-> Bumped(settled[k])]
           /\ calm' = IF burst = "emitting" THEN 0 ELSE Bumped(calm)
  <2>1. DOMAIN current' = {k0} /\ prior' = current
    BY <1>7 DEF BeginTick, FinalizeTick, Insert, EmptyTick
  <2>2. \A n \in 0..3 : /\ Bumped(n) \in 0..3
                        /\ Bumped(n) >= 2 => n >= 1
                        /\ Bumped(n) = 3 => n >= 2
    BY DEF Bumped
  <2>3. CountsOK'
    BY <1>4, <1>7, <2>2 DEF CountsOK
  <2>4. ASSUME NEW k \in ProcessKey  PROVE RecentInv(k)'
    <3>1. RecentInv(k) /\ (Alive(k)' <=> Alive(k))
      BY <1>1 DEF CatchUpInv, Alive
    <3>2. settled[k] \in 0..3 /\ settled'[k] = Bumped(settled[k])
      BY <1>4, <1>7
    <3>3. /\ settled'[k] >= 2 => settled[k] >= 1
          /\ settled'[k] = 3 => settled[k] >= 2
      BY <2>2, <3>2
    <3>4. /\ calm' >= 2 => burst = "querying" /\ calm >= 1
          /\ calm' = 3 => burst = "querying" /\ calm >= 2
      BY <1>1, <1>4, <1>7, <2>2
    <3> QED BY <1>1, <1>2, <1>3, <2>1, <3>1, <3>3, <3>4 DEF RecentInv
  <2> QED BY <2>3, <2>4 DEF CatchUpInv
<1> QED BY <1>5, <1>6, <1>7

\* No step breaks the invariant of catching up.
LEMMA CatchUpStep ==
  ASSUME CatchUpInv, Context, [Next]_vars
  PROVE  CatchUpInv'
<1>1. ASSUME NEW p \in Pid, QueryPid(p)  PROVE CatchUpInv'
  BY <1>1, CatchUpDelivered, CatchUpUnanswered DEF QueryPid
<1>2. CASE UNCHANGED vars
  BY <1>2 DEF vars, lifecycleVars, worldVars, burstVars, CatchUpInv, CountsOK,
              RecentInv, Alive
<1> QED BY <1>1, <1>2, CatchUpWorld, CatchUpPoll DEF Next

\* Births and deaths are reported in bounded time, and a wrong report is
\* withdrawn: three ticks after the last change and the last gap, what Layer 2
\* holds of a process is true, however many processes and polls there are.
THEOREM LedgerAlwaysCatchesUp == Spec => []LedgerCatchesUp
<1>1. Init => CatchUpInv
  <2> SUFFICES ASSUME Init  PROVE CatchUpInv
    OBVIOUS
  <2>1. calm = 0 /\ settled = [k \in ProcessKey |-> 0]
    BY DEF Init
  <2> QED BY <2>1 DEF CatchUpInv, CountsOK, RecentInv
<1>2. CatchUpInv /\ Context /\ [Next]_vars => CatchUpInv'
  BY CatchUpStep
<1>3. CatchUpInv /\ LedgerIsPrior => LedgerCatchesUp
  <2> SUFFICES ASSUME CatchUpInv, LedgerIsPrior, NEW k \in ProcessKey,
                      settled[k] = 3, calm = 3
               PROVE  Believed(k) <=> Alive(k)
    BY DEF LedgerCatchesUp
  <2>1. k \in DOMAIN prior <=> Alive(k)
    BY DEF CatchUpInv, RecentInv
  <2> QED BY <2>1 DEF LedgerIsPrior
<1> QED BY <1>1, <1>2, <1>3, ContextInvariant, TelemetryLedgerIsPrior, PTL DEF Spec
=============================================================================
