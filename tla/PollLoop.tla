------------------------------ MODULE PollLoop ------------------------------
(***************************************************************************)
(* aw-scheduler/src/lib.rs, poll_loop: one polled source.  Every tick of   *)
(* the ticker starts a poll in a task of its own unless the previous one   *)
(* is still running, and adapts the interval to the bus's drop counter.    *)
(*                                                                         *)
(* Time is counted in quanta and only relative to the present: `timer` is  *)
(* what is left until the ticker's next deadline, negative when the loop   *)
(* is late for it.                                                         *)
(***************************************************************************)
EXTENDS Integers

CONSTANTS
  BaseInterval,    \* PollConfig.interval, in quanta
  MaxInterval,     \* PollConfig.max_interval
  WidenAfter,      \* WIDEN_AFTER_DIRTY_TICKS (3)
  NarrowAfter,     \* NARROW_AFTER_CLEAN_TICKS (10)
  MaxLate          \* bound of the model: how late the runtime runs the loop

ASSUME PollLoopAssumption ==
  /\ BaseInterval \in Nat \ {0}
  /\ MaxInterval \in Nat /\ MaxInterval >= BaseInterval   \* PollConfig::with_max
  /\ WidenAfter \in Nat \ {0}
  /\ NarrowAfter \in Nat \ {0}
  /\ MaxLate \in Nat

VARIABLES
  curInterval,     \* cur_interval
  timer,           \* quanta until the ticker fires
  inFlight,        \* in_flight: the latest poll's JoinHandle
  polls,           \* history: poll tasks that are running
  drops,           \* the bus has dropped since last_dropped was read
  dirtyTicks, cleanTicks,
  fresh,           \* history: the bus has dropped since the latest poll began
  streak           \* history: how many of the latest polls in a row, since
                   \* the interval last changed, began after new drops, or
                   \* minus how many did not; counted from -NarrowAfter to
                   \* WidenAfter

adaptVars == <<curInterval, dirtyTicks, cleanTicks>>
evidenceVars == <<fresh, streak>>
pollVars == <<curInterval, timer, inFlight, polls, drops, dirtyTicks, cleanTicks,
              fresh, streak>>

Smaller(x, y) == IF x < y THEN x ELSE y
Larger(x, y) == IF x > y THEN x ELSE y

PollInit ==
  /\ curInterval = BaseInterval
  /\ timer = 0                        \* tokio's interval fires at once
  /\ inFlight = "none"
  /\ polls = 0
  /\ drops = FALSE
  /\ dirtyTicks = 0
  /\ cleanTicks = 0
  /\ fresh = FALSE
  /\ streak = 0

-----------------------------------------------------------------------------
\* MissedTickBehavior::Skip: the next deadline is the first one of the
\* ticker's grid that lies ahead.
NextDeadline == curInterval - ((-timer) % curInterval)

\* Mutant: one doubling at most.
WidenedOnce == Smaller(BaseInterval * 2, MaxInterval)

Widened == Smaller(curInterval * 2, MaxInterval)
Narrowed == Larger(curInterval \div 2, BaseInterval)

\* A changed interval makes a new ticker, whose immediate first tick is
\* consumed on the spot; an unchanged one keeps the old ticker's grid.
SetInterval(i) ==
  /\ curInterval' = i
  /\ timer' = IF i # curInterval THEN i ELSE NextDeadline

\* Mutant: the interval only ever widens.
AdaptWidenOnly ==
  LET dirty == IF drops THEN dirtyTicks + 1 ELSE 0
  IN /\ cleanTicks' = 0
     /\ \/ /\ dirty >= WidenAfter
           /\ dirtyTicks' = 0
           /\ SetInterval(Widened)
        \/ /\ dirty < WidenAfter
           /\ dirtyTicks' = dirty
           /\ SetInterval(curInterval)

\* The adaptation that follows every started poll.
Adapt ==
  LET dirty == IF drops THEN dirtyTicks + 1 ELSE 0
      clean == IF drops THEN 0 ELSE cleanTicks + 1
  IN \/ /\ dirty >= WidenAfter
        /\ dirtyTicks' = 0 /\ cleanTicks' = clean
        /\ SetInterval(Widened)
     \/ /\ dirty < WidenAfter /\ clean >= NarrowAfter
        /\ dirtyTicks' = dirty /\ cleanTicks' = 0
        /\ SetInterval(Narrowed)
     \/ /\ dirty < WidenAfter /\ clean < NarrowAfter
        /\ dirtyTicks' = dirty /\ cleanTicks' = clean
        /\ SetInterval(curInterval)

\* The history of the polls: what this one adds to it, unless it changes the
\* interval.
Streak ==
  IF fresh THEN Smaller(Larger(streak, 0) + 1, WidenAfter)
  ELSE Larger(Smaller(streak, 0) - 1, -NarrowAfter)

CountPoll ==
  /\ fresh' = FALSE
  /\ streak' = IF curInterval' = curInterval THEN Streak ELSE 0

\* Mutant: a tick starts a poll whatever became of the last one.
StartPollAnyway ==
  /\ timer <= 0
  /\ inFlight' = "running"
  /\ polls' = polls + 1
  /\ drops' = FALSE
  /\ Adapt
  /\ CountPoll

\* Mutant: a finished poll is taken for a running one.
StartPollOnce ==
  /\ timer <= 0
  /\ inFlight = "none"
  /\ inFlight' = "running"
  /\ polls' = polls + 1
  /\ drops' = FALSE
  /\ Adapt
  /\ CountPoll

\* Mutant: last_dropped stays behind where drops were found, which are found
\* again by the next poll.
StartPollRecounts ==
  /\ timer <= 0
  /\ inFlight # "running"
  /\ inFlight' = "running"
  /\ polls' = polls + 1
  /\ UNCHANGED drops
  /\ Adapt
  /\ CountPoll

\* A tick that finds no poll running: spawn one, then adapt.
StartPoll ==
  /\ timer <= 0
  /\ inFlight # "running"
  /\ inFlight' = "running"
  /\ polls' = polls + 1
  /\ drops' = FALSE                   \* last_dropped = dropped
  /\ Adapt
  /\ CountPoll

\* A tick that finds the previous poll still running: `continue`, before any
\* of the bookkeeping.
SkipTick ==
  /\ timer <= 0
  /\ inFlight = "running"
  /\ timer' = NextDeadline
  /\ UNCHANGED <<inFlight, polls, drops, adaptVars, evidenceVars>>

\* The spawned poll returns.
FinishPoll ==
  /\ polls > 0
  /\ polls' = polls - 1
  /\ inFlight' = IF polls = 1 THEN "finished" ELSE inFlight
  /\ UNCHANGED <<timer, drops, adaptVars, evidenceVars>>

\* Any source's emit finds the bus full: dropped_total grows.
BusDrops ==
  /\ drops' = TRUE
  /\ fresh' = TRUE
  /\ UNCHANGED <<timer, inFlight, polls, adaptVars, streak>>

\* A quantum passes.
PassTime ==
  /\ timer > -MaxLate
  /\ timer' = timer - 1
  /\ UNCHANGED <<inFlight, polls, drops, adaptVars, evidenceVars>>

PollNext ==
  StartPoll \/ SkipTick \/ FinishPoll \/ BusDrops \/ PassTime

PollSpec == PollInit /\ [][PollNext]_pollVars

\* The ticker runs, the loop's task is scheduled, and a poll returns (libproc
\* calls and netstat do; the trait asks it of an adapter).
PollFairness ==
  /\ WF_pollVars(PassTime)
  /\ WF_pollVars(StartPoll \/ SkipTick)
  /\ WF_pollVars(FinishPoll)

FairPollSpec == PollSpec /\ PollFairness

-----------------------------------------------------------------------------
(* Properties *)

\* Types and ranges: the interval stays within its configured band.
PollTypeOK ==
  /\ curInterval \in BaseInterval..MaxInterval
  /\ timer \in (-MaxLate)..MaxInterval
  /\ inFlight \in {"none", "running", "finished"}
  /\ polls \in Nat
  /\ drops \in BOOLEAN
  /\ dirtyTicks \in 0..(WidenAfter - 1)
  /\ cleanTicks \in 0..(NarrowAfter - 1)
  /\ fresh \in BOOLEAN
  /\ streak \in (-NarrowAfter)..WidenAfter

\* Two polls of a source never overlap, however slow a poll and however late
\* the loop: their bursts would interleave in Layer 2.
OnePollAtATime == polls = IF inFlight = "running" THEN 1 ELSE 0

\* The interval widens exactly when a poll begins that is at least the third
\* (WidenAfter) in a row, since the interval last changed, to begin after a
\* drop no poll before it has begun after; it narrows exactly at the tenth
\* (NarrowAfter) in a row to begin after none.  So each drop counts once, at
\* the first poll after it, however many ticks are skipped while a poll is
\* slow, and every change of the interval needs evidence of its own.
AdaptsOnEvidence ==
  [][/\ curInterval' > curInterval <=>
          /\ polls' > polls
          /\ curInterval < MaxInterval
          /\ Streak = WidenAfter
     /\ curInterval' < curInterval <=>
          /\ polls' > polls
          /\ curInterval > BaseInterval
          /\ Streak = -NarrowAfter]_pollVars

\* Sampling never stops.
PollsForever == []<><<StartPoll>>_pollVars

\* Once the bus is clean for good, polling returns to its base rate.
CalmRestoresBase == <>[](~drops) => <>[](curInterval = BaseInterval)

\* If from some point on every poll finds new drops, polling reaches its
\* slowest rate.
PressureReachesMax ==
  <>[][polls' > polls => drops]_pollVars => <>[](curInterval = MaxInterval)
=============================================================================
