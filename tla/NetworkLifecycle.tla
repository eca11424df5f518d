-------------------------- MODULE NetworkLifecycle --------------------------
(***************************************************************************)
(* aw-events/src/network_lifecycle.rs: the Layer 2 stage that turns the    *)
(* network adapter's snapshot bursts into opened, closed and completed     *)
(* events.  Ticks are found and compared as in ProcessLifecycle, but a     *)
(* record carries the time of its connection's first sighting from tick to *)
(* tick, and a completed event reports the whole span.                     *)
(*                                                                         *)
(* A connection is its key (proto, local, foreign): sockets that share a   *)
(* key share its record.  Of the rest of a record the two times are kept;  *)
(* state, pid, name and byte counts are copied and never tested.           *)
(***************************************************************************)
EXTENDS Integers

CONSTANTS
  ConnectionKey,
  TickGap,         \* TICK_GAP_NS (250 ms), in the model's unit of time
  Time             \* the adapter's clock readings

ASSUME NetworkAssumption ==
  /\ TickGap \in Nat
  /\ Time \subseteq Nat

VARIABLES
  current,         \* HashMap key -> [first, last]: the tick being assembled
  prior,           \* HashMap key -> [first, last]: the last completed tick
  primed,          \* the first tick has been completed
  lastObsTs,       \* timestamp of the latest socket observation, or NoTs
  events,          \* what the latest call returned
  streak           \* history: since when each connection is in every tick

networkVars == <<current, prior, primed, lastObsTs, events, streak>>

NoTs == -1
EmptyTick == [k \in {} |-> [first |-> 0, last |-> 0]]
NoEvents == [opened |-> {}, closed |-> {}, completed |-> {}]

ConnectionRecord == [first : Time, last : Time]

IsTick(tick) ==
  /\ DOMAIN tick \subseteq ConnectionKey
  /\ tick \in [DOMAIN tick -> ConnectionRecord]

-----------------------------------------------------------------------------
\* Mutant: only the tick being assembled is looked up.
FirstSeenCurrentOnly(k, ts, tick, before) ==
  IF k \in DOMAIN tick THEN tick[k].first ELSE ts

\* The first sighting is that of this tick's record, or of the last tick's.
FirstSeen(k, ts, tick, before) ==
  IF k \in DOMAIN tick THEN tick[k].first
  ELSE IF k \in DOMAIN before THEN before[k].first
  ELSE ts

\* HashMap::insert of the new record.
Insert(tick, before, k, ts) ==
  [x \in DOMAIN tick \cup {k} |->
     IF x = k THEN [first |-> FirstSeen(k, ts, tick, before), last |-> ts]
     ELSE tick[x]]

Opened ==
  {[key |-> k, ts |-> current[k].last] : k \in DOMAIN current \ DOMAIN prior}

Closed(now) ==
  {[key |-> k, ts |-> now] : k \in DOMAIN prior \ DOMAIN current}

Completed(now) ==
  {[key |-> k, ts |-> now, openedAt |-> prior[k].first, closedAt |-> prior[k].last] :
     k \in DOMAIN prior \ DOMAIN current}

\* What the finished tick missed has lost its streak.
Continued ==
  [k \in ConnectionKey |-> IF k \in DOMAIN current THEN streak[k] ELSE NoTs]

Sighted(streaks, k, ts) ==
  [streaks EXCEPT ![k] = IF @ = NoTs THEN ts ELSE @]

\* finalize_tick, but for `current`, which its callers see empty.
FinalizeTick(now) ==
  /\ events' = IF primed THEN [opened |-> Opened, closed |-> Closed(now),
                               completed |-> Completed(now)]
               ELSE NoEvents
  /\ primed' = TRUE
  /\ prior' = current

IsBoundary(ts) == lastObsTs # NoTs /\ ts - lastObsTs > TickGap

\* on_observation within a burst.
Accumulate(k, ts) ==
  /\ ~IsBoundary(ts)
  /\ current' = Insert(current, prior, k, ts)
  /\ lastObsTs' = ts
  /\ events' = NoEvents
  /\ streak' = Sighted(streak, k, ts)
  /\ UNCHANGED <<prior, primed>>

\* Mutant: the observation that closes a tick is not counted in the next.
BeginTickForgets(k, ts) ==
  /\ IsBoundary(ts)
  /\ FinalizeTick(lastObsTs)
  /\ current' = EmptyTick
  /\ lastObsTs' = ts
  /\ streak' = Sighted(Continued, k, ts)

\* on_observation that opens the next burst: the previous tick is finalized
\* first, so it is the finished tick that first_seen is looked up in.
BeginTick(k, ts) ==
  /\ IsBoundary(ts)
  /\ FinalizeTick(lastObsTs)
  /\ current' = Insert(EmptyTick, current, k, ts)
  /\ lastObsTs' = ts
  /\ streak' = Sighted(Continued, k, ts)

\* on_tick_complete: the public flush.
OnTickComplete(now) ==
  /\ FinalizeTick(now)
  /\ current' = EmptyTick
  /\ streak' = Continued
  /\ UNCHANGED lastObsTs

NetworkInit ==
  /\ current = EmptyTick
  /\ prior = EmptyTick
  /\ primed = FALSE
  /\ lastObsTs = NoTs
  /\ events = NoEvents
  /\ streak = [k \in ConnectionKey |-> NoTs]

-----------------------------------------------------------------------------
(* The stage on its own, under every sequence of calls in which time does  *)
(* not go back.                                                            *)

NetworkNext ==
  \E ts \in Time :
    /\ ts >= lastObsTs
    /\ \/ \E k \in ConnectionKey : Accumulate(k, ts) \/ BeginTick(k, ts)
       \/ OnTickComplete(ts)

NetworkSpec == NetworkInit /\ [][NetworkNext]_networkVars

-----------------------------------------------------------------------------
(* Properties *)

NetworkTypeOK ==
  /\ IsTick(current)
  /\ IsTick(prior)
  /\ primed \in BOOLEAN
  /\ lastObsTs \in Time \cup {NoTs}
  /\ streak \in [ConnectionKey -> Time \cup {NoTs}]

\* A completed event reports "the true open-to-close duration, not just the
\* most recent tick": from the first sighting of an unbroken row of ticks to
\* the last, which is not later than the event.
SpansAreUnbroken ==
  [][\A e \in events'.completed :
       /\ e.openedAt = streak[e.key]
       /\ e.openedAt <= e.closedAt /\ e.closedAt <= e.ts]_events
=============================================================================
