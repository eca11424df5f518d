-------------------------- MODULE ProcessLifecycle --------------------------
(***************************************************************************)
(* aw-events/src/process_lifecycle.rs: the Layer 2 stage that turns the    *)
(* process adapter's snapshot bursts into birth and death events.  A burst *)
(* is a tick; the stage finds its end by the gap before the next one, and  *)
(* reports the difference with the tick before.                            *)
(*                                                                         *)
(* A process is its key, <<pid, start_unix_secs>>; of the rest of a record *)
(* only last_seen matters here.  One call returns births in some order,    *)
(* then deaths in some order (both loops iterate over a HashMap), so a     *)
(* call's result is a pair of sets.                                        *)
(***************************************************************************)
EXTENDS Integers, FiniteSets

CONSTANTS
  ProcessKey,      \* (pid, start_unix_secs) pairs
  TickGap,         \* TICK_GAP_NS (250 ms), in the model's unit of time
  Time             \* the adapter's clock readings

ASSUME LifecycleAssumption ==
  /\ TickGap \in Nat
  /\ Time \subseteq Nat

VARIABLES
  current,         \* HashMap key -> last_seen: the tick being assembled
  prior,           \* HashMap key -> last_seen: the last completed tick
  primed,          \* the first tick has been completed
  lastObsTs,       \* timestamp of the latest process observation, or NoTs
  events,          \* what the latest call returned
  ledger           \* history: each process as the events tell it

stageVars == <<current, prior, primed, lastObsTs, events>>
lifecycleVars == <<current, prior, primed, lastObsTs, events, ledger>>

NoTs == -1
EmptyTick == [k \in {} |-> 0]
NoEvents == [births |-> {}, deaths |-> {}]

IsTick(tick) ==
  /\ DOMAIN tick \subseteq ProcessKey
  /\ tick \in [DOMAIN tick -> Time]

Event == [key : ProcessKey, ts : Time]

\* HashMap::insert.
Insert(tick, k, ts) ==
  [x \in DOMAIN tick \cup {k} |-> IF x = k THEN ts ELSE tick[x]]

-----------------------------------------------------------------------------
(* The ledger: what a consumer that believes every event holds of each     *)
(* process.  "seeded" is the first tick's silent entry.                    *)

Believed(k) == ledger[k] \in {"seeded", "born"}

Keys(evs) == {e.key : e \in evs}

Recorded(evs, seeds) ==
  [k \in ProcessKey |->
     IF k \in Keys(evs.deaths) THEN "dead"
     ELSE IF k \in Keys(evs.births) THEN "born"
     ELSE IF k \in seeds THEN "seeded"
     ELSE ledger[k]]

-----------------------------------------------------------------------------
Births ==
  {[key |-> k, ts |-> current[k]] : k \in DOMAIN current \ DOMAIN prior}

Deaths(now) ==
  {[key |-> k, ts |-> now] : k \in DOMAIN prior \ DOMAIN current}

\* Mutant: the rotation keeps what was there.
FinalizeTickMerge(now) ==
  /\ events' = IF primed THEN [births |-> Births, deaths |-> Deaths(now)]
               ELSE NoEvents
  /\ primed' = TRUE
  /\ prior' = [k \in DOMAIN prior \cup DOMAIN current |->
                 IF k \in DOMAIN current THEN current[k] ELSE prior[k]]
  /\ ledger' = Recorded(events', IF primed THEN {} ELSE DOMAIN current)

\* Mutant: no rotation after the first tick.
FinalizeTickStale(now) ==
  /\ events' = IF primed THEN [births |-> Births, deaths |-> Deaths(now)]
               ELSE NoEvents
  /\ primed' = TRUE
  /\ prior' = IF primed THEN prior ELSE current
  /\ ledger' = Recorded(events', IF primed THEN {} ELSE DOMAIN current)

\* finalize_tick: everything it does but reset `current`, which its callers
\* see empty.
FinalizeTick(now) ==
  /\ \/ /\ primed
        /\ events' = [births |-> Births, deaths |-> Deaths(now)]
        /\ ledger' = Recorded(events', {})
     \/ /\ ~primed
        /\ events' = NoEvents
        /\ ledger' = Recorded(NoEvents, DOMAIN current)
  /\ primed' = TRUE
  /\ prior' = current

\* More than the gap has passed since the previous process observation.
IsBoundary(ts) == lastObsTs # NoTs /\ ts - lastObsTs > TickGap

\* on_observation within a burst.
Accumulate(k, ts) ==
  /\ ~IsBoundary(ts)
  /\ current' = Insert(current, k, ts)
  /\ lastObsTs' = ts
  /\ events' = NoEvents
  /\ UNCHANGED <<prior, primed, ledger>>

\* Mutants: the tick is closed at its successor's time; the observation that
\* closes a tick is not counted in the next; the tick before is not taken away.
BeginTickNow(k, ts) ==
  /\ IsBoundary(ts)
  /\ FinalizeTick(ts)
  /\ current' = Insert(EmptyTick, k, ts)
  /\ lastObsTs' = ts

BeginTickForgets(k, ts) ==
  /\ IsBoundary(ts)
  /\ FinalizeTick(lastObsTs)
  /\ current' = EmptyTick
  /\ lastObsTs' = ts

BeginTickKeeps(k, ts) ==
  /\ IsBoundary(ts)
  /\ FinalizeTick(lastObsTs)
  /\ current' = Insert(current, k, ts)
  /\ lastObsTs' = ts

\* on_observation that opens the next burst: the previous tick is finalized
\* at the previous observation's time, then the new one starts with k.
BeginTick(k, ts) ==
  /\ IsBoundary(ts)
  /\ FinalizeTick(lastObsTs)
  /\ current' = Insert(EmptyTick, k, ts)
  /\ lastObsTs' = ts

OnObservation(k, ts) == Accumulate(k, ts) \/ BeginTick(k, ts)

\* on_tick_complete: the public flush.
OnTickComplete(now) ==
  /\ FinalizeTick(now)
  /\ current' = EmptyTick
  /\ UNCHANGED lastObsTs

LifecycleInit ==
  /\ current = EmptyTick
  /\ prior = EmptyTick
  /\ primed = FALSE
  /\ lastObsTs = NoTs
  /\ events = NoEvents
  /\ ledger = [k \in ProcessKey |-> "unknown"]

-----------------------------------------------------------------------------
(* The stage on its own, under every sequence of calls: observations lost, *)
(* bursts split or merged, flushes at any time.  The adapter's clock is    *)
(* monotonic and its observations arrive in order, so time does not go     *)
(* back from call to call.                                                 *)

LifecycleNext ==
  \E ts \in Time :
    /\ ts >= lastObsTs
    /\ \/ \E k \in ProcessKey : Accumulate(k, ts)
       \/ \E k \in ProcessKey : BeginTick(k, ts)
       \/ OnTickComplete(ts)

LifecycleSpec == LifecycleInit /\ [][LifecycleNext]_lifecycleVars

-----------------------------------------------------------------------------
(* Properties *)

LifecycleTypeOK ==
  /\ IsTick(current)
  /\ IsTick(prior)
  /\ primed \in BOOLEAN
  /\ lastObsTs \in Time \cup {NoTs}
  /\ events.births \subseteq Event
  /\ events.deaths \subseteq Event
  /\ ledger \in [ProcessKey -> {"unknown", "seeded", "born", "dead"}]

\* The stage's own view of the last tick is the net effect of everything it
\* told downstream: a consumer that starts from the silent first tick and
\* replays the events holds exactly `prior`, however observations were lost,
\* split or merged.
LedgerIsPrior == DOMAIN prior = {k \in ProcessKey : Believed(k)}

\* Events of one process alternate: no birth of a process already held alive,
\* no death of one that is not.
EventsAlternate ==
  [][/\ \A k \in Keys(events'.births) : ~Believed(k)
     /\ \A k \in Keys(events'.deaths) : Believed(k)]_lifecycleVars

\* An observation that closes a tick carries events that are older than itself
\* by more than the gap: reconstructed time runs behind observed time.
EventsLag ==
  [][lastObsTs' # lastObsTs =>
       \A e \in events'.births \cup events'.deaths :
         lastObsTs' - e.ts > TickGap]_lifecycleVars
=============================================================================
