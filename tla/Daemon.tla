------------------------------- MODULE Daemon -------------------------------
(***************************************************************************)
(* aw-mvp/src/main.rs, run_daemon and run_one_shot, and what they do to    *)
(* the store (aw-store/src/lib.rs): processes that are started and killed  *)
(* at any time, the instance lock, the select loop with its shutdown, tick *)
(* and receive arms, the transactions of a tick and of the shutdown, the   *)
(* heartbeat as aw-query reads it, and captures beside the daemon.         *)
(*                                                                         *)
(* An event is its number in the order of happening, and stands for the    *)
(* nodes it adds to the graph.  Adapters and Layer 2 report events late    *)
(* and out of that order, and may lose any of them.  A step ends where a   *)
(* transaction commits, since a crash may follow it.  Retention is left    *)
(* out: it deletes rows that have been quiet for a day at least, the model *)
(* looks at minutes.                                                       *)
(***************************************************************************)
EXTENDS Integers, Sequences, SequencesExt

CONSTANTS
  Daemon,          \* processes that may be started with --daemon
  NoDaemon,        \* not a daemon
  OneShot,         \* processes that may be started without it
  TickEvery,       \* --tick (60 s), in quanta of time
  DeadAfter,       \* aw-query's limit on the heartbeat's age (120 s)
  MaxNarration,    \* the HTTP client's timeout (300 s)
  Narrates,        \* FALSE with --no-narrate
  MaxEvents,       \* bound of the model: events that happen
  MaxCrashes,      \* bound of the model
  MaxFailures      \* bound of the model: store operations that fail

NeverRan == "never ran"
CleanStop == "clean stop"      \* daemon_pid = ""

ASSUME DaemonAssumption ==
  /\ NoDaemon \notin Daemon
  /\ {NeverRan, CleanStop} \cap Daemon = {}
  /\ NoDaemon \notin OneShot
  /\ TickEvery \in Nat \ {0}
  /\ DeadAfter \in Nat
  /\ MaxNarration \in Nat
  /\ Narrates \in BOOLEAN
  /\ {MaxEvents, MaxCrashes, MaxFailures} \subseteq Nat

VARIABLES
  happened,        \* events so far
  lock,            \* the holder of the instance lock
  proc,            \* the state of each daemon process
  shot,            \* the state of each one-shot process
  nodes,           \* store: events whose nodes were merged
  history,         \* store: the events table
  daemonPid,       \* store: meta daemon_pid
  beatAge,         \* quanta since meta daemon_heartbeat_unix_ns
  crashes, failures,
  captured         \* history: events consumed by a daemon that had the store

storeVars == <<nodes, history, daemonPid, beatAge>>
vars == <<happened, lock, proc, shot, storeVars, crashes, failures, captured>>

Event == 1..MaxEvents

NoBeat == -1

\* The values of narration besides the quanta a running one has taken.
NoNarration == -1
Finished == -2

Idle ==
  [pc        |-> "off",        \* where it is in run_daemon
   persists  |-> FALSE,        \* store_and_builder is Some
   since     |-> 0,            \* last event before its adapters started
   lost      |-> {},           \* events since then that will not arrive
   received  |-> {},           \* history: events consumed; empty iff `window` is
   builder   |-> {},           \* events whose nodes the GraphBuilder holds
   pending   |-> <<>>,         \* pending_events
   timer     |-> 0,            \* quanta until the next tick
   narration |-> NoNarration,  \* narrating
   skipped   |-> FALSE,        \* history: a tick was skipped since the last beat
   noted     |-> FALSE,        \* the shutdown future has heard a signal
   asked     |-> FALSE]        \* history: a signal was sent to the loop

NoCapture ==
  [pc       |-> "off",         \* where it is in run_one_shot
   since    |-> 0,             \* last event before its adapters started
   received |-> <<>>]          \* events

Location == {"off", "opening", "select", "merging", "appending", "finishing",
             "final merge", "final append", "clearing", "waiting"}

InTick == {"merging", "appending", "finishing"}
InLoop == {"select"} \cup InTick

\* Rows of the events table carry their writer, as a history: all daemons are
\* one, NoDaemon in its name, and each one-shot process is another.
Rows(w, events) == [i \in DOMAIN events |-> [writer |-> w, event |-> events[i]]]

SetProc(d, p) == proc' = [proc EXCEPT ![d] = p]
Goto(d, pc) == SetProc(d, [proc[d] EXCEPT !.pc = pc])

\* A store operation returns an error, and its transaction is rolled back.
\* Errors of two writes in a row count once.
Fails ==
  /\ failures < MaxFailures
  /\ failures' = failures + 1

Init ==
  /\ happened = 0
  /\ lock = NoDaemon
  /\ proc = [d \in Daemon |-> Idle]
  /\ shot = [o \in OneShot |-> NoCapture]
  /\ nodes = {}
  /\ history = <<>>
  /\ daemonPid = NeverRan
  /\ beatAge = NoBeat
  /\ crashes = 0 /\ failures = 0
  /\ captured = {}

-----------------------------------------------------------------------------
(* Start *)

\* Mutant: no instance lock.
StartUnlocked(d) ==
  /\ proc[d].pc = "off"
  /\ lock' = d
  /\ SetProc(d, [Idle EXCEPT !.pc = "opening", !.since = happened])
  /\ UNCHANGED <<happened, shot, storeVars, crashes, failures, captured>>

\* flock succeeds, and the adapters and the pipeline start.  A process that
\* finds the lock taken exits, which changes nothing.
Start(d) ==
  /\ proc[d].pc = "off"
  /\ lock = NoDaemon
  /\ lock' = d
  /\ SetProc(d, [Idle EXCEPT !.pc = "opening", !.since = happened])
  /\ UNCHANGED <<happened, shot, storeVars, crashes, failures, captured>>

EnterLoop(d, persists) ==
  SetProc(d, [proc[d] EXCEPT !.pc = "select", !.persists = persists,
                             !.timer = TickEvery])

\* The store opens and gets pid and heartbeat, each of which may fail to be
\* written; or it does not open, and the daemon goes on without.
OpenStore(d) ==
  /\ proc[d].pc = "opening"
  /\ \/ /\ EnterLoop(d, TRUE)
        /\ \/ daemonPid' = d /\ beatAge' = 0 /\ UNCHANGED failures
           \/ daemonPid' = d /\ Fails /\ UNCHANGED beatAge
           \/ beatAge' = 0 /\ Fails /\ UNCHANGED daemonPid
     \/ /\ EnterLoop(d, FALSE)
        /\ Fails
        /\ UNCHANGED <<daemonPid, beatAge>>
  /\ UNCHANGED <<happened, lock, shot, nodes, history, crashes, captured>>

-----------------------------------------------------------------------------
(* The select loop.  It is biased: a signal that has arrived is taken       *)
(* before a tick that is due, and that before an event.                     *)

Selects(d) == proc[d].pc = "select"
TickDue(d) == Selects(d) /\ ~proc[d].noted /\ proc[d].timer = 0
NarrationRuns(d) == proc[d].narration >= 0

Shutdown(d) ==
  Goto(d, IF proc[d].persists THEN "final merge" ELSE "waiting")

Stop(d) ==
  /\ Selects(d) /\ proc[d].noted
  /\ Shutdown(d)
  /\ UNCHANGED <<happened, lock, shot, storeVars, crashes, failures, captured>>

\* A task of the pipeline has panicked: its queue ends, and with it the loop.
PipelineEnds(d) ==
  /\ Selects(d) /\ ~proc[d].noted /\ proc[d].timer > 0
  /\ crashes < MaxCrashes
  /\ crashes' = crashes + 1
  /\ Shutdown(d)
  /\ UNCHANGED <<happened, lock, shot, storeVars, failures, captured>>

\* Events that its pipeline may still deliver.
Due(d) ==
  ((proc[d].since + 1)..happened) \ (proc[d].received \cup proc[d].lost)

\* One unit of the pipeline, with one event.
Receive(d) ==
  /\ Selects(d) /\ ~proc[d].noted /\ proc[d].timer > 0
  /\ \E e \in Due(d) :
       LET p == [proc[d] EXCEPT !.received = @ \cup {e}]
       IN \/ /\ p.persists
             /\ SetProc(d, [p EXCEPT !.builder = @ \cup {e},
                                     !.pending = Append(@, e)])
             /\ captured' = captured \cup {e}
          \/ /\ ~p.persists
             /\ SetProc(d, p)
             /\ UNCHANGED captured
  /\ UNCHANGED <<happened, lock, shot, storeVars, crashes, failures>>

\* An event does not come through: it was not seen by its adapter, or dropped
\* on the way.
Lose(d) ==
  /\ Selects(d)
  /\ \E e \in Due(d) : SetProc(d, [proc[d] EXCEPT !.lost = @ \cup {e}])
  /\ UNCHANGED <<happened, lock, shot, storeVars, crashes, failures, captured>>

\* A tick that finds the last narration still in flight does nothing else.
SkipTick(d) ==
  /\ TickDue(d) /\ NarrationRuns(d)
  /\ SetProc(d, [proc[d] EXCEPT !.timer = TickEvery, !.skipped = TRUE])
  /\ UNCHANGED <<happened, lock, shot, storeVars, crashes, failures, captured>>

BeginTick(d, first) ==
  SetProc(d, [proc[d] EXCEPT !.timer = TickEvery, !.narration = NoNarration,
                             !.pc = IF proc[d].persists THEN first
                                    ELSE "finishing"])

\* Mutants: a finished narration is taken for a running one; the history is
\* appended before the merge.
TickUnreaped(d) ==
  /\ TickDue(d) /\ proc[d].narration = NoNarration
  /\ BeginTick(d, "merging")
  /\ UNCHANGED <<happened, lock, shot, storeVars, crashes, failures, captured>>

TickAppendsFirst(d) ==
  /\ TickDue(d) /\ ~NarrationRuns(d)
  /\ BeginTick(d, "appending")
  /\ UNCHANGED <<happened, lock, shot, storeVars, crashes, failures, captured>>

Tick(d) ==
  /\ TickDue(d) /\ ~NarrationRuns(d)
  /\ BeginTick(d, "merging")
  /\ UNCHANGED <<happened, lock, shot, storeVars, crashes, failures, captured>>

\* Mutant: trimming whether or not the merge succeeded.
MergeTrimsAnyway(d) ==
  /\ proc[d].pc = "merging"
  /\ \/ nodes' = nodes \cup proc[d].builder /\ UNCHANGED failures
     \/ Fails /\ UNCHANGED nodes
  /\ \E kept \in SUBSET proc[d].builder :
       SetProc(d, [proc[d] EXCEPT !.pc = "appending", !.builder = kept])
  /\ UNCHANGED <<happened, lock, shot, history, daemonPid, beatAge, crashes, captured>>

\* merge_graph of the builder's snapshot; if it succeeds, trim_before, which
\* may leave any part of what was merged.
Merge(d) ==
  /\ proc[d].pc = "merging"
  /\ \/ /\ nodes' = nodes \cup proc[d].builder
        /\ \E kept \in SUBSET proc[d].builder :
             SetProc(d, [proc[d] EXCEPT !.pc = "appending", !.builder = kept])
        /\ UNCHANGED failures
     \/ /\ Fails
        /\ Goto(d, "appending")
        /\ UNCHANGED nodes
  /\ UNCHANGED <<happened, lock, shot, history, daemonPid, beatAge, crashes, captured>>

\* Mutant: the batch is kept after it was written.
AppendKeepsBatch(d) ==
  /\ proc[d].pc = "appending"
  /\ history' = history \o Rows(NoDaemon, proc[d].pending)
  /\ Goto(d, "finishing")
  /\ UNCHANGED <<happened, lock, shot, nodes, daemonPid, beatAge, crashes, failures,
                 captured>>

\* append_events; the batch is cleared even when it fails.
AppendEvents(d) ==
  /\ proc[d].pc = "appending"
  /\ \/ history' = history \o Rows(NoDaemon, proc[d].pending) /\ UNCHANGED failures
     \/ proc[d].pending # <<>> /\ Fails /\ UNCHANGED history
  /\ SetProc(d, [proc[d] EXCEPT !.pc = "finishing", !.pending = <<>>])
  /\ UNCHANGED <<happened, lock, shot, nodes, daemonPid, beatAge, crashes, captured>>

\* Mutant: the heartbeat is written by OpenStore only.
FinishTickNoBeat(d) ==
  /\ proc[d].pc = "finishing"
  /\ SetProc(d, [proc[d] EXCEPT !.pc = "select", !.skipped = FALSE])
  /\ UNCHANGED <<happened, lock, shot, storeVars, crashes, failures, captured>>

\* The heartbeat, and the narration of a window that is not empty.
FinishTick(d) ==
  LET starts == Narrates /\ proc[d].received # {}
      p == [proc[d] EXCEPT !.pc = "select",
                           !.narration = IF starts THEN 0 ELSE NoNarration]
  IN /\ proc[d].pc = "finishing"
     /\ \/ /\ proc[d].persists
           /\ SetProc(d, [p EXCEPT !.skipped = FALSE])
           /\ beatAge' = 0
           /\ UNCHANGED failures
        \/ /\ proc[d].persists
           /\ SetProc(d, p)
           /\ Fails
           /\ UNCHANGED beatAge
        \/ /\ ~proc[d].persists
           /\ SetProc(d, p)
           /\ UNCHANGED <<beatAge, failures>>
     /\ UNCHANGED <<happened, lock, shot, nodes, history, daemonPid, crashes, captured>>

-----------------------------------------------------------------------------
(* Shutdown *)

FinalMerge(d) ==
  /\ proc[d].pc = "final merge"
  /\ Goto(d, "final append")
  /\ \/ nodes' = nodes \cup proc[d].builder /\ UNCHANGED failures
     \/ Fails /\ UNCHANGED nodes
  /\ UNCHANGED <<happened, lock, shot, history, daemonPid, beatAge, crashes, captured>>

\* Mutant: what came since the last tick is not written.
FinalAppendSkipped(d) ==
  /\ proc[d].pc = "final append"
  /\ Goto(d, "clearing")
  /\ UNCHANGED <<happened, lock, shot, storeVars, crashes, failures, captured>>

FinalAppend(d) ==
  /\ proc[d].pc = "final append"
  /\ Goto(d, "clearing")
  /\ \/ history' = history \o Rows(NoDaemon, proc[d].pending) /\ UNCHANGED failures
     \/ proc[d].pending # <<>> /\ Fails /\ UNCHANGED history
  /\ UNCHANGED <<happened, lock, shot, nodes, daemonPid, beatAge, crashes, captured>>

ClearPid(d) ==
  /\ proc[d].pc = "clearing"
  /\ Goto(d, "waiting")
  /\ \/ daemonPid' = CleanStop /\ UNCHANGED failures
     \/ Fails /\ UNCHANGED daemonPid
  /\ UNCHANGED <<happened, lock, shot, nodes, history, beatAge, crashes, captured>>

\* At most 5 s for a narration in flight; then the process ends, and with it
\* its lock.
Exit(d) ==
  /\ proc[d].pc = "waiting"
  /\ SetProc(d, Idle)
  /\ lock' = NoDaemon
  /\ UNCHANGED <<happened, shot, storeVars, crashes, failures, captured>>

-----------------------------------------------------------------------------
(* A one-shot run: a capture of some time, written at its end, with no look *)
(* at the lock.  With --no-store it writes nothing and is not modelled.     *)

daemonVars == <<happened, lock, proc, daemonPid, beatAge, captured>>

Capture(o) ==
  /\ shot[o].pc = "off"
  /\ shot' = [shot EXCEPT ![o] = [NoCapture EXCEPT !.pc = "capturing",
                                                  !.since = happened]]
  /\ UNCHANGED <<daemonVars, nodes, history, crashes, failures>>

\* The consumer reads the bus itself; what does not get through is lost.
CaptureEvent(o) ==
  /\ shot[o].pc = "capturing"
  /\ \E e \in ((shot[o].since + 1)..happened) \ ToSet(shot[o].received) :
       shot' = [shot EXCEPT ![o].received = Append(@, e)]
  /\ UNCHANGED <<daemonVars, nodes, history, crashes, failures>>

\* The time is up, or a signal came; the store opens or does not.
EndCapture(o) ==
  /\ shot[o].pc = "capturing"
  /\ \/ shot' = [shot EXCEPT ![o].pc = "merging"] /\ UNCHANGED failures
     \/ shot' = [shot EXCEPT ![o] = NoCapture] /\ Fails
  /\ UNCHANGED <<daemonVars, nodes, history, crashes>>

MergeCapture(o) ==
  /\ shot[o].pc = "merging"
  /\ shot' = [shot EXCEPT ![o].pc = "appending"]
  /\ \/ nodes' = nodes \cup ToSet(shot[o].received) /\ UNCHANGED failures
     \/ Fails /\ UNCHANGED nodes
  /\ UNCHANGED <<daemonVars, history, crashes>>

AppendCapture(o) ==
  /\ shot[o].pc = "appending"
  /\ shot' = [shot EXCEPT ![o] = NoCapture]
  /\ \/ history' = history \o Rows(o, shot[o].received) /\ UNCHANGED failures
     \/ shot[o].received # <<>> /\ Fails /\ UNCHANGED history
  /\ UNCHANGED <<daemonVars, nodes, crashes>>

CrashCapture(o) ==
  /\ shot[o].pc # "off"
  /\ crashes < MaxCrashes
  /\ crashes' = crashes + 1
  /\ shot' = [shot EXCEPT ![o] = NoCapture]
  /\ UNCHANGED <<daemonVars, nodes, history, failures>>

-----------------------------------------------------------------------------
(* The world *)

Happen ==
  /\ happened < MaxEvents
  /\ happened' = happened + 1
  /\ UNCHANGED <<lock, proc, shot, storeVars, crashes, failures, captured>>

\* SIGINT or SIGTERM.  Each select makes a new shutdown_signal(), which hears
\* what the runtime's signal driver publishes while it waits.  A signal during
\* the body of an arm is heard only if the driver gets to it after the next
\* select has begun.  After the loop nobody listens.
Busy(d) ==
  \/ proc[d].pc \in InTick
  \/ proc[d].timer = 0 \/ Due(d) # {}

Signal(d) ==
  /\ proc[d].pc \in InLoop
  /\ \E heard \in {TRUE, ~Busy(d)} :
       SetProc(d, [proc[d] EXCEPT !.noted = @ \/ heard, !.asked = TRUE])
  /\ UNCHANGED <<happened, lock, shot, storeVars, crashes, failures, captured>>

\* SIGKILL, a panic, a signal before the handlers are installed.  The kernel
\* releases the lock.
Crash(d) ==
  /\ proc[d].pc # "off"
  /\ crashes < MaxCrashes
  /\ crashes' = crashes + 1
  /\ SetProc(d, Idle)
  /\ lock' = NoDaemon
  /\ UNCHANGED <<happened, shot, storeVars, failures, captured>>

NarrationDone(d) ==
  /\ NarrationRuns(d)
  /\ SetProc(d, [proc[d] EXCEPT !.narration = Finished])
  /\ UNCHANGED <<happened, lock, shot, storeVars, crashes, failures, captured>>

\* A quantum is long against everything but waiting in the select: a tick that
\* is due is taken, a signal is answered, and a narration ends by its timeout.
CanWait(p) ==
  \/ p.pc = "off"
  \/ p.pc = "select" /\ ~p.noted /\ p.timer > 0 /\ p.narration < MaxNarration

Waited(p) ==
  IF p.pc = "off" THEN p
  ELSE [p EXCEPT !.timer = @ - 1, !.narration = IF @ >= 0 THEN @ + 1 ELSE @]

PassTime ==
  /\ \A d \in Daemon : CanWait(proc[d])
  /\ proc' = [d \in Daemon |-> Waited(proc[d])]
  /\ beatAge' = IF beatAge \in 0..DeadAfter THEN beatAge + 1 ELSE beatAge
  /\ UNCHANGED <<happened, lock, shot, nodes, history, daemonPid, crashes, failures,
                 captured>>

-----------------------------------------------------------------------------
\* What the process does by itself.
Run(d) ==
  \/ OpenStore(d)
  \/ Stop(d) \/ SkipTick(d) \/ Tick(d)
  \/ Merge(d) \/ AppendEvents(d) \/ FinishTick(d)
  \/ FinalMerge(d) \/ FinalAppend(d) \/ ClearPid(d) \/ Exit(d)

Next ==
  \/ \E d \in Daemon :
       \/ Start(d) \/ Run(d) \/ Receive(d) \/ Lose(d) \/ PipelineEnds(d)
       \/ Signal(d) \/ Crash(d) \/ NarrationDone(d)
  \/ \E o \in OneShot :
       \/ Capture(o) \/ CaptureEvent(o) \/ EndCapture(o)
       \/ MergeCapture(o) \/ AppendCapture(o) \/ CrashCapture(o)
  \/ Happen
  \/ PassTime

Spec == Init /\ [][Next]_vars

\* The runtime runs the loop, clocks advance, and the HTTP client's timeout
\* ends a narration.  Nothing is assumed of events, signals or starts.
FairSpec ==
  /\ Spec
  /\ WF_vars(PassTime)
  /\ \A d \in Daemon : WF_vars(Run(d)) /\ WF_vars(NarrationDone(d))

-----------------------------------------------------------------------------
(* Properties *)

Process ==
  [pc : Location, persists : BOOLEAN, since : Nat, lost : SUBSET Nat, received : SUBSET Nat,
   builder : SUBSET Nat, pending : Seq(Nat), timer : 0..TickEvery,
   narration : {NoNarration, Finished} \cup 0..MaxNarration,
   skipped : BOOLEAN, noted : BOOLEAN, asked : BOOLEAN]

CaptureProcess ==
  [pc : {"off", "capturing", "merging", "appending"}, since : Nat, received : Seq(Event)]

Writer == OneShot \cup {NoDaemon}

\* Types, and a process holds the lock from its start to its end.
TypeOK ==
  /\ happened \in 0..MaxEvents
  /\ proc \in [Daemon -> Process]
  /\ lock \in Daemon \cup {NoDaemon}
  /\ \A d \in Daemon : proc[d].pc # "off" <=> lock = d
  /\ nodes \subseteq Event /\ captured \subseteq Event
  /\ history \in Seq([writer : Writer, event : Event])
  /\ shot \in [OneShot -> CaptureProcess]
  /\ daemonPid \in Daemon \cup {NeverRan, CleanStop}
  /\ beatAge \in {NoBeat} \cup 0..(DeadAfter + 1)
  /\ crashes \in 0..MaxCrashes /\ failures \in 0..MaxFailures

WrittenBy(w) == {r.event : r \in {x \in ToSet(history) : x.writer = w}}
Written == WrittenBy(NoDaemon)

\* What each writer has consumed and the events table are an EventHistory:
\* events enter at most once from the daemons together, and from a one-shot
\* run, in whole batches, in the order they were consumed in, however daemons
\* are started, stopped and killed and whatever runs beside them.  A daemon and
\* a one-shot run, which no lock keeps apart, may both enter an event.  Once the
\* final append has run, nothing reads pending_events again.
Batch ==
  [w \in Writer |->
     IF w \in OneShot THEN shot[w].received
     ELSE IF lock = NoDaemon \/ proc[lock].pc \in {"clearing", "waiting"} THEN <<>>
     ELSE proc[lock].pending]

Abstract == INSTANCE EventHistory WITH batch <- Batch, history <- history

ImplementsEventHistory == Abstract!Spec

\* Trimming forgets only what the store has: whatever a daemon consumed is in
\* its builder or in the store, however merges fail ("the store retains them;
\* this only caps daemon RAM growth").
TrimmedIsMerged ==
  \A d \in Daemon :
    proc[d].persists => proc[d].received \subseteq proc[d].builder \cup nodes

\* Without failed transactions, crashes or not, no event is in the history
\* before its nodes are in the graph: merge first, then append.
GraphLeadsHistory ==
  failures = 0 => \A w \in Writer : WrittenBy(w) \subseteq nodes

\* A store whose last daemon reports a clean stop holds all that any daemon
\* consumed, unless a transaction failed or a daemon crashed ("everything
\* already consumed is merged").
CleanStopIsSaved ==
  daemonPid = CleanStop /\ failures = 0 /\ crashes = 0
    => captured \subseteq Written \cap nodes

\* aw-query's daemon_status.
Status ==
  CASE daemonPid = NeverRan \/ beatAge = NoBeat -> NeverRan
    [] daemonPid = CleanStop /\ beatAge # NoBeat -> CleanStop
    [] OTHER -> IF beatAge > DeadAfter THEN "likely not running" ELSE "running"

\* A running daemon with a store is reported as running, ticks skipped for a
\* narration and failed writes apart.
LooksAliveUnlessSkipped ==
  \A d \in Daemon :
    proc[d].pc \in InLoop /\ proc[d].persists /\ failures = 0
      => Status = "running" \/ proc[d].skipped

\* An event a daemon has consumed gets into the history, however long
\* narrations take, unless an operation fails or a daemon crashes.
EventuallySaved ==
  \A e \in Event :
    e \in captured ~> e \in Written \/ failures > 0 \/ crashes > 0

\* "Ctrl-C or SIGTERM stops cleanly": a signal to a daemon that is in its loop
\* ends it.
SignalStops ==
  \A d \in Daemon : proc[d].asked ~> proc[d].pc = "off"
=============================================================================
