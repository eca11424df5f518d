-------------------------- MODULE ProcessTelemetry --------------------------
(***************************************************************************)
(* The process telemetry path end to end: the machine's processes, the     *)
(* poll loop that samples them (PollLoop), the snapshot adapter            *)
(* (aw-process/src/lib.rs), a transport that may drop an observation, and  *)
(* the lifecycle stage (ProcessLifecycle).                                 *)
(*                                                                         *)
(* An observation carries the time of its emission, the stage looks at     *)
(* nothing else, and the transport is a FIFO (ObservationPipeline), so     *)
(* when it is processed makes no difference to the result: the model hands *)
(* it to the stage as it is emitted.  Bounds: ProcessKey (incarnations of  *)
(* each pid), MaxTime, MaxDrops, MaxUnread, MaxStalls and PollLoop's        *)
(* MaxLate.                                                                *)
(***************************************************************************)
EXTENDS PollLoop, ProcessLifecycle

CONSTANTS
  Pid,
  MaxTime,         \* bound: quanta
  MaxDrops,        \* bound: observations the transport loses
  MaxUnread,       \* bound: running processes the adapter fails to read
  MaxStalls        \* bound: quanta spent in pauses beyond TickGap in a burst

ASSUME TelemetryAssumption ==
  /\ ProcessKey \subseteq Pid \X (Nat \ {0})
  /\ Pid \X {1} \subseteq ProcessKey
  /\ MaxTime \in Nat
  /\ Time = 0..MaxTime

VARIABLES
  now,             \* the monotonic clock
  occupant,        \* the running incarnation of each pid, 0 for none
  used,            \* incarnations of each pid so far
  burst,           \* where the poll task is: "idle", "listing", "querying",
                   \* or "emitting" once an observation has got through
  toQuery,         \* pids listed and not yet queried
  dropped,         \* observations lost, at most MaxDrops
  unread,          \* running processes not read, at most MaxUnread
  stalls,          \* quanta so spent, at most MaxStalls
  settled,         \* history: ticks begun since each process last changed
  calm             \* history: ticks begun since the last gap: an observation
                   \* lost, a process not read, a burst split

worldVars == <<occupant, used>>
burstVars == <<burst, toQuery>>
boundVars == <<dropped, unread, stalls>>
vars == <<pollVars, lifecycleVars, now, worldVars, burstVars, boundVars,
          settled, calm>>

Key(p) == <<p, occupant[p]>>
Alive(k) == occupant[k[1]] = k[2]

\* Ticks are counted to three and no further.
Bumped(n) == IF n < 3 THEN n + 1 ELSE n

Init ==
  /\ PollInit
  /\ LifecycleInit
  /\ now = 0
  /\ occupant \in [Pid -> {0, 1}]     \* processes older than the capture
  /\ used = occupant
  /\ burst = "idle"
  /\ toQuery = {}
  /\ dropped = 0
  /\ unread = 0
  /\ stalls = 0
  /\ settled = [k \in ProcessKey |-> 0]
  /\ calm = 0

-----------------------------------------------------------------------------
(* The machine *)

Spawn(p) ==
  /\ occupant[p] = 0
  /\ <<p, used[p] + 1>> \in ProcessKey
  /\ used' = [used EXCEPT ![p] = @ + 1]
  /\ occupant' = [occupant EXCEPT ![p] = used[p] + 1]
  /\ settled' = [settled EXCEPT ![<<p, used[p] + 1>>] = 0]
  /\ UNCHANGED <<pollVars, lifecycleVars, now, burstVars, boundVars, calm>>

Exit(p) ==
  /\ occupant[p] # 0
  /\ occupant' = [occupant EXCEPT ![p] = 0]
  /\ settled' = [settled EXCEPT ![Key(p)] = 0]
  /\ UNCHANGED <<pollVars, lifecycleVars, now, used, burstVars, boundVars, calm>>

-----------------------------------------------------------------------------
(* The poll loop and the snapshot adapter *)

LoopTick ==
  /\ \/ StartPoll /\ burst' = "listing"
     \/ SkipTick /\ UNCHANGED burst
  /\ UNCHANGED <<lifecycleVars, now, worldVars, toQuery, boundVars, settled, calm>>

\* pids_by_type: the pids of this instant, or an error that ends the poll.
ListPids ==
  /\ burst = "listing"
  /\ \/ /\ toQuery' = {p \in Pid : occupant[p] # 0}
        /\ burst' = "querying"
        /\ UNCHANGED pollVars
     \/ /\ burst' = "idle"
        /\ FinishPoll
        /\ UNCHANGED toQuery
  /\ UNCHANGED <<lifecycleVars, now, worldVars, boundVars, settled, calm>>

\* A source finds the bus full: the counter the poll loop looks at is that of
\* all sources.
OthersDrop ==
  /\ BusDrops
  /\ UNCHANGED <<lifecycleVars, now, worldVars, burstVars, boundVars, settled, calm>>

\* pidinfo and pidpath of one listed pid, in no particular order.  A pid is
\* skipped if pidinfo returns an error, for whatever reason; one that was
\* reused in between answers for its new process.
Querying == burst \in {"querying", "emitting"}

Gone(p) ==
  /\ occupant[p] = 0
  /\ UNCHANGED <<lifecycleVars, burst, settled, calm, drops, fresh, dropped, unread>>

Unread(p) ==
  /\ occupant[p] # 0
  /\ unread < MaxUnread
  /\ unread' = unread + 1
  /\ calm' = 0
  /\ UNCHANGED <<lifecycleVars, burst, settled, drops, fresh, dropped>>

Delivered(p) ==
  /\ occupant[p] # 0
  /\ burst' = "emitting"
  /\ \/ /\ Accumulate(Key(p), now)
        /\ UNCHANGED <<settled, calm>>
     \/ /\ BeginTick(Key(p), now)
        /\ settled' = [k \in ProcessKey |-> Bumped(settled[k])]
        /\ calm' = IF burst = "emitting" THEN 0 ELSE Bumped(calm)
  /\ UNCHANGED <<drops, fresh, dropped, unread>>

\* The bus finds its channel full, or the drain stage its queue: only the
\* first is what the poll loop looks at.
Lost(p) ==
  /\ occupant[p] # 0
  /\ dropped < MaxDrops
  /\ dropped' = dropped + 1
  /\ \/ drops' = TRUE /\ fresh' = TRUE
     \/ UNCHANGED <<drops, fresh>>
  /\ calm' = 0
  /\ UNCHANGED <<lifecycleVars, burst, settled, unread>>

QueryPid(p) ==
  /\ Querying
  /\ p \in toQuery
  /\ toQuery' = toQuery \ {p}
  /\ Gone(p) \/ Unread(p) \/ Delivered(p) \/ Lost(p)
  /\ UNCHANGED <<curInterval, timer, inFlight, polls, dirtyTicks, cleanTicks, streak,
                 now, worldVars, stalls>>

EndBurst ==
  /\ Querying
  /\ toQuery = {}
  /\ burst' = "idle"
  /\ FinishPoll
  /\ UNCHANGED <<lifecycleVars, now, worldVars, toQuery, boundVars, settled, calm>>

-----------------------------------------------------------------------------
(* Time.  A burst takes any time, but between two observations of one burst *)
(* no more than the gap passes, except in MaxStalls pauses.                 *)

MidBurst == burst = "emitting" /\ toQuery # {}

Advance ==
  /\ now < MaxTime
  /\ now' = now + 1
  /\ PassTime
  /\ \/ /\ ~(MidBurst /\ IsBoundary(now + 1))
        /\ UNCHANGED stalls
     \/ /\ MidBurst /\ IsBoundary(now + 1)
        /\ stalls < MaxStalls
        /\ stalls' = stalls + 1
  /\ UNCHANGED <<lifecycleVars, worldVars, burstVars, dropped, unread, settled, calm>>

Next ==
  \/ \E p \in Pid : Spawn(p) \/ Exit(p)
  \/ LoopTick
  \/ OthersDrop
  \/ ListPids
  \/ \E p \in Pid : QueryPid(p)
  \/ EndBurst
  \/ Advance

Spec == Init /\ [][Next]_vars
-----------------------------------------------------------------------------
(* Properties *)

TypeOK ==
  /\ PollTypeOK
  /\ LifecycleTypeOK
  /\ occupant \in [Pid -> Nat] /\ used \in [Pid -> Nat]
  /\ burst \in {"idle", "listing", "querying", "emitting"}
  /\ toQuery \subseteq Pid
  /\ burst = "idle" <=> inFlight # "running"

\* A process reported dead is dead.
DeathsAreReal == \A k \in ProcessKey : ledger[k] = "dead" => ~Alive(k)

\* As long as no observation is lost, no running process is left unread and no
\* burst is split, no death is invented: not by processes that come and go
\* while the adapter walks the pid list, not by pid reuse, polls that fail,
\* overrun or run into each other.
OnlyGapsInventDeaths ==
  dropped = 0 /\ unread = 0 /\ stalls = 0 => DeathsAreReal

\* Three ticks after a process last changed, and three after the last gap,
\* Layer 2 holds it alive exactly if it is: births and deaths are reported in
\* bounded time, and a wrong report is withdrawn.
LedgerCatchesUp ==
  \A k \in ProcessKey :
    settled[k] = 3 /\ calm = 3 => (Believed(k) <=> Alive(k))

\* The scheduler's floor on poll intervals "never dips under the 250ms gap
\* threshold": the first observation of a burst opens a new tick.
BurstsStayApart ==
  [][burst = "querying" /\ burst' = "emitting"
       => lastObsTs = NoTs \/ IsBoundary(now)]_vars
=============================================================================
