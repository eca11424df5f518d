---------------------------- MODULE Daemon_proofs ----------------------------
(***************************************************************************)
(* Theorems about the daemon and its store (Daemon), for every number of   *)
(* processes, every tick, timeout and bound, and any crashes and failures. *)
(***************************************************************************)
EXTENDS Daemon, SequenceTheorems, TLAPS

Storing == {"merging", "appending", "final merge", "final append", "clearing"}

\* What holds of the locals of one process.
LocalInv(p) ==
  /\ p.since <= happened
  /\ p.received \subseteq (p.since + 1)..happened
  /\ p.builder \subseteq p.received
  /\ ToSet(p.pending) \subseteq p.received
  /\ p.pc \in {"off", "opening"} =>
       p.received = {} /\ p.narration = NoNarration /\ ~p.persists
  /\ ~p.persists => p.pending = <<>>
  /\ p.pc \in Storing => p.persists

DaemonInv == TypeOK /\ \A d \in Daemon : LocalInv(proc[d])

-----------------------------------------------------------------------------
(* Sequences of events *)

\* What a batch has after an event, and the table after a batch.
LEMMA BatchItems ==
  ASSUME NEW S, NEW s \in Seq(S)
  PROVE  /\ ToSet(s) \subseteq S
         /\ \A e \in S : Append(s, e) \in Seq(S) /\ ToSet(Append(s, e)) = ToSet(s) \cup {e}
         /\ \A t \in Seq(S) : s \o t \in Seq(S) /\ ToSet(s \o t) = ToSet(s) \cup ToSet(t)
<1>1. ToSet(s) \subseteq S
  BY LenProperties, ElementOfSeq DEF ToSet
<1>2. ASSUME NEW e \in S
      PROVE  Append(s, e) \in Seq(S) /\ ToSet(Append(s, e)) = ToSet(s) \cup {e}
  <2>1. /\ Append(s, e) \in Seq(S) /\ Len(Append(s, e)) = Len(s) + 1
        /\ \A i \in 1..Len(s) : Append(s, e)[i] = s[i]
        /\ Append(s, e)[Len(s) + 1] = e
    BY AppendProperties
  <2>2. Len(s) \in Nat /\ DOMAIN s = 1..Len(s) /\ DOMAIN Append(s, e) = 1..(Len(s) + 1)
    BY <2>1, LenProperties
  <2> QED BY <2>1, <2>2 DEF ToSet
<1>3. ASSUME NEW t \in Seq(S)
      PROVE  s \o t \in Seq(S) /\ ToSet(s \o t) = ToSet(s) \cup ToSet(t)
  <2>1. /\ s \o t \in Seq(S) /\ Len(s \o t) = Len(s) + Len(t)
        /\ \A i \in 1..(Len(s) + Len(t)) :
             (s \o t)[i] = IF i <= Len(s) THEN s[i] ELSE t[i - Len(s)]
    BY ConcatProperties
  <2>2. /\ Len(s) \in Nat /\ DOMAIN s = 1..Len(s)
        /\ Len(t) \in Nat /\ DOMAIN t = 1..Len(t)
        /\ DOMAIN (s \o t) = 1..(Len(s) + Len(t))
    BY <2>1, LenProperties
  <2>3. ToSet(s \o t) \subseteq ToSet(s) \cup ToSet(t)
    <3> SUFFICES ASSUME NEW i \in 1..(Len(s) + Len(t))
                 PROVE  (s \o t)[i] \in ToSet(s) \cup ToSet(t)
      BY <2>2 DEF ToSet
    <3>1. CASE i <= Len(s)
      BY <2>1, <2>2, <3>1 DEF ToSet
    <3>2. CASE ~(i <= Len(s))
      <4>1. i - Len(s) \in 1..Len(t) /\ (s \o t)[i] = t[i - Len(s)]
        BY <2>1, <2>2, <3>2
      <4> QED BY <2>2, <4>1 DEF ToSet
    <3> QED BY <3>1, <3>2
  <2>4. ToSet(s) \subseteq ToSet(s \o t)
    <3> SUFFICES ASSUME NEW i \in 1..Len(s)
                 PROVE  s[i] \in ToSet(s \o t)
      BY <2>2 DEF ToSet
    <3>1. i \in 1..(Len(s) + Len(t)) /\ (s \o t)[i] = s[i]
      BY <2>1, <2>2
    <3> QED BY <2>2, <3>1 DEF ToSet
  <2>5. ToSet(t) \subseteq ToSet(s \o t)
    <3> SUFFICES ASSUME NEW i \in 1..Len(t)
                 PROVE  t[i] \in ToSet(s \o t)
      BY <2>2 DEF ToSet
    <3> DEFINE j == i + Len(s)
    <3>1. j \in 1..(Len(s) + Len(t)) /\ ~(j <= Len(s)) /\ j - Len(s) = i
      BY <2>2
    <3>2. (s \o t)[j] = t[i]
      BY <2>1, <3>1
    <3> QED BY <2>2, <3>1, <3>2 DEF ToSet
  <2> QED BY <2>1, <2>3, <2>4, <2>5
<1> QED BY <1>1, <1>2, <1>3

\* The empty batch.
LEMMA NoItems == ToSet(<<>>) = {}
BY DEF ToSet

EventRow == [writer : Writer, event : Event]
RowOf(w, e) == [writer |-> w, event |-> e]

\* What a batch becomes in the table.
LEMMA RowsOfBatch ==
  ASSUME NEW w \in Writer, NEW s \in Seq(Event)
  PROVE  /\ Rows(w, s) \in Seq(EventRow)
         /\ \A r : r \in ToSet(Rows(w, s)) <=> \E e \in ToSet(s) : r = RowOf(w, e)
<1>1. /\ Len(s) \in Nat /\ DOMAIN s = 1..Len(s) /\ s \in [1..Len(s) -> Event]
  BY LenProperties
<1>2. Rows(w, s) = [i \in 1..Len(s) |-> RowOf(w, s[i])]
  BY <1>1 DEF Rows, RowOf
<1>3. Rows(w, s) \in [1..Len(s) -> EventRow]
  BY <1>1, <1>2 DEF EventRow, RowOf
<1>4. Rows(w, s) \in Seq(EventRow)
  BY <1>1, <1>3, SeqDef
<1> QED BY <1>1, <1>2, <1>4 DEF ToSet

-----------------------------------------------------------------------------
(* Steps of one process *)

\* What one process does leaves the others alone.
LEMMA OneMoves ==
  ASSUME TypeOK, NEW d \in Daemon, NEW p \in Process, SetProc(d, p)
  PROVE  /\ proc' \in [Daemon -> Process]
         /\ proc'[d] = p
         /\ \A e \in Daemon \ {d} : proc'[e] = proc[e]
BY DEF TypeOK, SetProc

\* The lock goes from no one to a process that starts and back.
LockStep(d, p) ==
  \/ lock = d /\ lock' = d /\ p.pc # "off"
  \/ lock = NoDaemon /\ lock' = d /\ p.pc # "off"
  \/ lock = d /\ lock' = NoDaemon /\ p.pc = "off"

StoreTypes ==
  /\ nodes \subseteq Event /\ captured \subseteq Event
  /\ history \in Seq(EventRow)
  /\ daemonPid \in Daemon \cup {NeverRan, CleanStop}
  /\ beatAge \in {NoBeat} \cup 0..(DeadAfter + 1)
  /\ crashes \in 0..MaxCrashes /\ failures \in 0..MaxFailures

\* A step of one process keeps the invariant if it does so for that process.
LEMMA OneStep ==
  ASSUME DaemonInv, NEW d \in Daemon, NEW p \in Process, SetProc(d, p),
         LocalInv(p), LockStep(d, p), UNCHANGED <<happened, shot>>, StoreTypes'
  PROVE  DaemonInv'
<1>1. /\ proc' \in [Daemon -> Process]
      /\ proc'[d] = p
      /\ \A e \in Daemon \ {d} : proc'[e] = proc[e]
  BY OneMoves DEF DaemonInv
<1>2. \A e \in Daemon : LocalInv(proc[e])' <=> LocalInv(proc'[e])
  BY DEF LocalInv
<1>3. \A e \in Daemon : LocalInv(proc[e])'
  BY <1>1, <1>2 DEF DaemonInv
<1>4. lock' \in Daemon \cup {NoDaemon} /\ \A e \in Daemon : proc'[e].pc # "off" <=> lock' = e
  BY <1>1, DaemonAssumption DEF DaemonInv, TypeOK, LockStep
<1>5. TypeOK'
  BY <1>1, <1>4 DEF DaemonInv, TypeOK, StoreTypes, EventRow, Event, Writer, CaptureProcess
<1> QED BY <1>3, <1>5 DEF DaemonInv

\* A process that does not run.
LEMMA IdleProcess ==
  /\ Idle \in Process
  /\ Idle.pc = "off" /\ Idle.since = 0 /\ ~Idle.persists /\ Idle.received = {}
  /\ Idle.builder = {} /\ Idle.pending = <<>> /\ Idle.narration = NoNarration
<1>1. TickEvery \in Nat /\ <<>> \in Seq(Nat) /\ 0 \in 0..TickEvery
  BY DaemonAssumption
<1> QED BY <1>1 DEF Idle, Process, Location

\* Which changes of the store keep the types.
LEMMA StoreMoves ==
  ASSUME DaemonInv,
         nodes' = nodes \/ nodes' \subseteq Event,
         captured' = captured \/ captured' \subseteq Event,
         history' = history \/ history' \in Seq(EventRow),
         daemonPid' = daemonPid \/ daemonPid' \in Daemon \cup {NeverRan, CleanStop},
         beatAge' = beatAge \/ beatAge' = 0,
         crashes' = crashes \/ (crashes < MaxCrashes /\ crashes' = crashes + 1),
         failures' = failures \/ Fails
  PROVE  StoreTypes'
<1>1. nodes' \subseteq Event /\ captured' \subseteq Event /\ history' \in Seq(EventRow)
  BY DEF DaemonInv, TypeOK, Event, EventRow
<1>2. daemonPid' \in Daemon \cup {NeverRan, CleanStop}
  BY DEF DaemonInv, TypeOK
<1>3. beatAge' \in {NoBeat} \cup 0..(DeadAfter + 1)
  BY DaemonAssumption DEF DaemonInv, TypeOK
<1>4. crashes' \in 0..MaxCrashes /\ failures' \in 0..MaxFailures
  BY DaemonAssumption DEF DaemonInv, TypeOK, Fails
<1> QED BY <1>1, <1>2, <1>3, <1>4 DEF StoreTypes, Event, EventRow, Writer

\* Who is somewhere in run_daemon has the lock, and no one else is.
LEMMA Alone ==
  ASSUME TypeOK, NEW d \in Daemon, proc[d].pc # "off"
  PROVE  lock = d /\ \A e \in Daemon \ {d} : proc[e].pc = "off"
BY DEF TypeOK

\* What may be written to the store is of the right type.
LEMMA WritesAreEvents ==
  ASSUME DaemonInv, NEW d \in Daemon
  PROVE  /\ proc[d] \in Process
         /\ LocalInv(proc[d])
         /\ proc[d].received \subseteq Event
         /\ proc[d].builder \subseteq Event
         /\ proc[d].pending \in Seq(Event)
         /\ history \o Rows(NoDaemon, proc[d].pending) \in Seq(EventRow)
<1>1. proc[d] \in Process /\ LocalInv(proc[d])
  BY DEF DaemonInv, TypeOK
<1>2. proc[d].received \subseteq Event /\ proc[d].builder \subseteq Event
  <2>1. happened \in 0..MaxEvents /\ MaxEvents \in Nat
    BY DaemonAssumption DEF DaemonInv, TypeOK
  <2>2. /\ proc[d].since \in Nat /\ proc[d].since <= happened
        /\ proc[d].received \subseteq (proc[d].since + 1)..happened
        /\ proc[d].builder \subseteq proc[d].received
    BY <1>1 DEF LocalInv, Process
  <2>3. (proc[d].since + 1)..happened \subseteq Event
    BY <2>1, <2>2 DEF Event
  <2> QED BY <2>2, <2>3
<1>3. proc[d].pending \in Seq(Event)
  <2>1. /\ proc[d].pending \in Seq(Nat)
        /\ ToSet(proc[d].pending) \subseteq Event
    BY <1>1, <1>2 DEF LocalInv, Process
  <2>2. /\ Len(proc[d].pending) \in Nat
        /\ proc[d].pending \in [1..Len(proc[d].pending) -> Nat]
    BY <2>1, LenProperties
  <2>3. proc[d].pending \in [1..Len(proc[d].pending) -> Event]
    BY <2>1, <2>2 DEF ToSet
  <2> QED BY <2>2, <2>3, SeqDef
<1>4. history \o Rows(NoDaemon, proc[d].pending) \in Seq(EventRow)
  <2>1. NoDaemon \in Writer /\ history \in Seq(EventRow)
    BY DEF DaemonInv, TypeOK, EventRow, Writer
  <2> QED BY <1>3, <2>1, RowsOfBatch, ConcatProperties
<1> QED BY <1>1, <1>2, <1>3, <1>4

\* A process that starts.
LEMMA InvStart ==
  ASSUME DaemonInv, NEW d \in Daemon, Start(d)
  PROVE  DaemonInv'
<1> DEFINE p == [Idle EXCEPT !.pc = "opening", !.since = happened]
<1>1. /\ lock = NoDaemon /\ lock' = d /\ SetProc(d, p)
      /\ UNCHANGED <<happened, shot, storeVars, crashes, failures, captured>>
  BY DEF Start
<1>2. happened \in Nat
  BY DaemonAssumption DEF DaemonInv, TypeOK
<1>3. p \in Process /\ p.pc # "off" /\ LocalInv(p)
  <2>1. p \in Process
    BY <1>2, IdleProcess DEF Process, Location
  <2>2. /\ p.pc = "opening" /\ p.since = happened /\ ~p.persists
        /\ p.received = {} /\ p.builder = {} /\ p.pending = <<>>
        /\ p.narration = NoNarration
    BY IdleProcess DEF Process
  <2> HIDE DEF p
  <2> QED BY <1>2, <2>1, <2>2, NoItems DEF LocalInv, Storing
<1>4. StoreTypes'
  BY <1>1 DEF DaemonInv, TypeOK, StoreTypes, storeVars, EventRow, Event, Writer
<1> HIDE DEF p
<1> QED BY <1>1, <1>3, <1>4, OneStep DEF LockStep

\* It opens its store, or goes on without.
LEMMA InvOpenStore ==
  ASSUME DaemonInv, NEW d \in Daemon, OpenStore(d)
  PROVE  DaemonInv'
<1>1. PICK b \in BOOLEAN : EnterLoop(d, b)
  BY DEF OpenStore
<1> DEFINE p == [proc[d] EXCEPT !.pc = "select", !.persists = b, !.timer = TickEvery]
<1>2. proc[d].pc = "opening" /\ SetProc(d, p) /\ UNCHANGED <<happened, shot, lock>>
  BY <1>1 DEF OpenStore, EnterLoop
<1>3. p \in Process /\ p.pc # "off"
  <2>1. proc[d] \in Process
    BY WritesAreEvents
  <2>2. TickEvery \in 0..TickEvery
    BY DaemonAssumption
  <2> QED BY <2>1, <2>2 DEF Process, Location
<1>4. LocalInv(p)
  <2>1. LocalInv(proc[d])
    BY WritesAreEvents
  <2>2. p.pc = "select" /\ p.received = proc[d].received /\ p.since = proc[d].since
        /\ p.builder = proc[d].builder /\ p.pending = proc[d].pending
    BY <1>3, WritesAreEvents DEF Process
  <2>3. proc[d].pending = <<>>
    BY <1>2, <2>1 DEF LocalInv
  <2> QED BY <2>1, <2>2, <2>3 DEF LocalInv, Storing
<1>5. StoreTypes'
  <2>1. daemonPid' \in Daemon \cup {NeverRan, CleanStop}
    BY DEF OpenStore, DaemonInv, TypeOK
  <2>2. beatAge' = beatAge \/ beatAge' = 0
    BY DEF OpenStore
  <2>3. failures' = failures \/ Fails
    BY DEF OpenStore
  <2>4. UNCHANGED <<nodes, history, crashes, captured>>
    BY DEF OpenStore
  <2> QED BY <2>1, <2>2, <2>3, <2>4, StoreMoves
<1>6. lock = d
  BY <1>2, Alone DEF DaemonInv
<1> HIDE DEF p
<1> QED BY <1>2, <1>3, <1>4, <1>5, <1>6, OneStep DEF LockStep

-----------------------------------------------------------------------------
(* A process that runs on *)

\* A step of a running process that consumes nothing.
LEMMA Advance ==
  ASSUME DaemonInv, NEW d \in Daemon, NEW p \in Process, SetProc(d, p),
         proc[d].pc # "off", p.pc \notin {"off", "opening"},
         p.since = proc[d].since, p.received = proc[d].received,
         p.persists = proc[d].persists, p.builder \subseteq proc[d].builder,
         p.pending \in {proc[d].pending, <<>>},
         p.pc \in Storing => p.persists,
         UNCHANGED <<happened, shot, lock>>, StoreTypes'
  PROVE  DaemonInv'
<1>1. LocalInv(proc[d])
  BY WritesAreEvents
<1>2. LocalInv(p)
  BY <1>1, NoItems DEF LocalInv
<1>3. lock = d
  BY Alone DEF DaemonInv
<1> QED BY <1>2, <1>3, OneStep DEF LockStep

\* The same, for a step that only changes the location.
LEMMA GotoStep ==
  ASSUME DaemonInv, NEW d \in Daemon, NEW pc \in Location \ {"off", "opening"},
         Goto(d, pc), proc[d].pc # "off", pc \in Storing => proc[d].persists,
         UNCHANGED <<happened, shot, lock>>, StoreTypes'
  PROVE  DaemonInv'
<1> DEFINE p == [proc[d] EXCEPT !.pc = pc]
<1>1. SetProc(d, p)
  BY DEF Goto
<1>2. proc[d] \in Process
  BY WritesAreEvents
<1>3. /\ p \in Process /\ p.pc = pc /\ p.since = proc[d].since
      /\ p.received = proc[d].received /\ p.persists = proc[d].persists
      /\ p.builder = proc[d].builder /\ p.pending = proc[d].pending
  BY <1>2 DEF Process
<1> HIDE DEF p
<1> QED BY <1>1, <1>3, Advance

\* A process that ends.
LEMMA EndStep ==
  ASSUME DaemonInv, NEW d \in Daemon, SetProc(d, Idle), proc[d].pc # "off",
         lock' = NoDaemon, UNCHANGED <<happened, shot>>, StoreTypes'
  PROVE  DaemonInv'
<1>1. LocalInv(Idle)
  <2>1. happened \in 0..MaxEvents /\ MaxEvents \in Nat
    BY DaemonAssumption DEF DaemonInv, TypeOK
  <2>2. 0 <= happened /\ {} \subseteq 1..happened
    BY <2>1
  <2> QED BY <2>2, IdleProcess, NoItems DEF LocalInv, Storing
<1>2. lock = d
  BY Alone DEF DaemonInv
<1> QED BY <1>1, <1>2, IdleProcess, OneStep DEF LockStep

\* The loop ends.
LEMMA InvShutdown ==
  ASSUME DaemonInv, NEW d \in Daemon, Stop(d) \/ PipelineEnds(d)
  PROVE  DaemonInv'
<1>1. PICK pc \in {"final merge", "waiting"} :
        Goto(d, pc) /\ (pc = "final merge" => proc[d].persists)
  BY DEF Stop, PipelineEnds, Shutdown
<1>2. proc[d].pc = "select" /\ UNCHANGED <<happened, shot, lock, storeVars, failures, captured>>
  BY DEF Stop, PipelineEnds, Selects
<1>3. crashes' = crashes \/ (crashes < MaxCrashes /\ crashes' = crashes + 1)
  BY DEF Stop, PipelineEnds
<1>4. StoreTypes'
  BY <1>2, <1>3, StoreMoves DEF storeVars
<1> QED BY <1>1, <1>2, <1>4, GotoStep DEF Location, Storing

\* An event is consumed.
LEMMA InvReceive ==
  ASSUME DaemonInv, NEW d \in Daemon, Receive(d)
  PROVE  DaemonInv'
<1>1. /\ proc[d] \in Process /\ LocalInv(proc[d])
      /\ proc[d].pc = "select" /\ UNCHANGED <<happened, shot, lock, storeVars, crashes, failures>>
  BY WritesAreEvents, SMTT(30) DEF Receive, Selects
<1>2. PICK e \in Due(d) :
        LET p == [proc[d] EXCEPT !.received = @ \cup {e}]
        IN \/ /\ p.persists
              /\ SetProc(d, [p EXCEPT !.builder = @ \cup {e}, !.pending = Append(@, e)])
              /\ captured' = captured \cup {e}
           \/ /\ ~p.persists
              /\ SetProc(d, p)
              /\ UNCHANGED captured
  BY DEF Receive
<1>3. /\ e \in Nat /\ e \in Event
      /\ e \in (proc[d].since + 1)..happened /\ e \notin proc[d].received
  <2>1. e \in (proc[d].since + 1)..happened /\ e \notin proc[d].received
    BY DEF Due
  <2>2. proc[d].since \in Nat
    BY <1>1 DEF Process
  <2>3. happened \in 0..MaxEvents /\ MaxEvents \in Nat
    BY DaemonAssumption DEF DaemonInv, TypeOK
  <2> QED BY <2>1, <2>2, <2>3 DEF Event
<1> DEFINE p == [proc[d] EXCEPT !.received = @ \cup {e}]
           q == [p EXCEPT !.builder = @ \cup {e}, !.pending = Append(@, e)]
<1>4. /\ p \in Process /\ p.pc = proc[d].pc /\ p.since = proc[d].since
      /\ p.received = proc[d].received \cup {e} /\ p.persists = proc[d].persists
      /\ p.builder = proc[d].builder /\ p.pending = proc[d].pending
  BY <1>1, <1>3 DEF Process
<1>5. StoreTypes'
  BY <1>1, <1>2, <1>3, StoreMoves DEF storeVars, DaemonInv, TypeOK
<1>6. lock = d
  BY <1>1, Alone DEF DaemonInv
<1>7. proc[d].received \cup {e} \subseteq (proc[d].since + 1)..happened
  BY <1>1, <1>3 DEF LocalInv, Process
<1>8. CASE proc[d].persists
  <2>1. SetProc(d, q)
    BY <1>2, <1>4, <1>8
  <2>2. /\ proc[d].pending \in Seq(Nat) /\ Append(proc[d].pending, e) \in Seq(Nat)
        /\ ToSet(Append(proc[d].pending, e)) = ToSet(proc[d].pending) \cup {e}
    <3>1. proc[d].pending \in Seq(Nat)
      BY <1>1 DEF Process
    <3> QED BY <1>3, <3>1, BatchItems
  <2> HIDE DEF p
  <2>3. /\ q \in Process /\ q.pc = proc[d].pc /\ q.since = proc[d].since
        /\ q.received = proc[d].received \cup {e} /\ q.persists = proc[d].persists
        /\ q.builder = proc[d].builder \cup {e}
        /\ q.pending = Append(proc[d].pending, e)
    BY <1>3, <1>4, <2>2 DEF Process
  <2> HIDE DEF q
  <2>4. LocalInv(q)
    BY <1>1, <1>3, <1>7, <1>8, <2>2, <2>3 DEF LocalInv, Storing
  <2> QED BY <1>1, <1>5, <1>6, <2>1, <2>3, <2>4, OneStep DEF LockStep
<1>9. CASE ~proc[d].persists
  <2>1. SetProc(d, p)
    BY <1>2, <1>4, <1>9
  <2> HIDE DEF p
  <2>2. LocalInv(p)
    BY <1>1, <1>3, <1>4, <1>7, <1>9 DEF LocalInv, Storing
  <2> QED BY <1>1, <1>4, <1>5, <1>6, <2>1, <2>2, OneStep DEF LockStep
<1> QED BY <1>8, <1>9

\* A tick begins, or is skipped.
LEMMA InvTick ==
  ASSUME DaemonInv, NEW d \in Daemon, SkipTick(d) \/ Tick(d)
  PROVE  DaemonInv'
<1>1. /\ proc[d] \in Process /\ proc[d].pc = "select"
      /\ UNCHANGED <<happened, shot, lock, storeVars, crashes, failures, captured>>
  BY WritesAreEvents DEF SkipTick, Tick, TickDue, Selects
<1>2. StoreTypes'
  BY <1>1, StoreMoves DEF storeVars
<1>3. TickEvery \in 0..TickEvery
  BY DaemonAssumption
<1>4. CASE SkipTick(d)
  <2> DEFINE p == [proc[d] EXCEPT !.timer = TickEvery, !.skipped = TRUE]
  <2>1. SetProc(d, p)
    BY <1>4 DEF SkipTick
  <2>2. /\ p \in Process /\ p.pc = "select" /\ p.since = proc[d].since
        /\ p.received = proc[d].received /\ p.persists = proc[d].persists
        /\ p.builder = proc[d].builder /\ p.pending = proc[d].pending
    BY <1>1, <1>3 DEF Process
  <2> HIDE DEF p
  <2> QED BY <1>1, <1>2, <2>1, <2>2, Advance DEF Storing
<1>5. CASE Tick(d)
  <2> DEFINE pc == IF proc[d].persists THEN "merging" ELSE "finishing"
             p == [proc[d] EXCEPT !.timer = TickEvery, !.narration = NoNarration,
                                  !.pc = pc]
  <2>1. SetProc(d, p)
    BY <1>5 DEF Tick, BeginTick
  <2>2. pc \in {"merging", "finishing"} /\ (pc = "merging" => proc[d].persists)
    OBVIOUS
  <2> HIDE DEF pc
  <2>3. /\ p \in Process /\ p.pc = pc /\ p.since = proc[d].since
        /\ p.received = proc[d].received /\ p.persists = proc[d].persists
        /\ p.builder = proc[d].builder /\ p.pending = proc[d].pending
    BY <1>1, <1>3, <2>2 DEF Process, Location
  <2> HIDE DEF p
  <2> QED BY <1>1, <1>2, <2>1, <2>2, <2>3, Advance DEF Storing
<1> QED BY <1>4, <1>5

\* The graph is merged, and the builder trimmed.
LEMMA InvMerge ==
  ASSUME DaemonInv, NEW d \in Daemon, Merge(d)
  PROVE  DaemonInv'
<1>1. /\ proc[d] \in Process /\ LocalInv(proc[d]) /\ proc[d].builder \subseteq Event
      /\ proc[d].pc = "merging" /\ UNCHANGED <<happened, shot, lock, history, daemonPid,
                                               beatAge, crashes, captured>>
  BY WritesAreEvents DEF Merge
<1>2. /\ nodes' = nodes \/ nodes' \subseteq Event
      /\ failures' = failures \/ Fails
  BY <1>1 DEF Merge, DaemonInv, TypeOK
<1>3. StoreTypes'
  BY <1>1, <1>2, StoreMoves
<1>4. proc[d].persists
  BY <1>1 DEF LocalInv, Storing
<1>5. ASSUME NEW kept \in SUBSET proc[d].builder,
             SetProc(d, [proc[d] EXCEPT !.pc = "appending", !.builder = kept])
      PROVE  DaemonInv'
  <2> DEFINE p == [proc[d] EXCEPT !.pc = "appending", !.builder = kept]
  <2>1. SetProc(d, p)
    BY <1>5
  <2>2. /\ p \in Process /\ p.pc = "appending" /\ p.since = proc[d].since
        /\ p.received = proc[d].received /\ p.persists = proc[d].persists
        /\ p.builder = kept /\ p.pending = proc[d].pending
    BY <1>1 DEF Process, Location
  <2> HIDE DEF p
  <2> QED BY <1>1, <1>3, <1>4, <2>1, <2>2, Advance
<1>6. ASSUME Goto(d, "appending")
      PROVE  DaemonInv'
  BY <1>1, <1>3, <1>4, <1>6, GotoStep DEF Location
<1> QED BY <1>5, <1>6 DEF Merge

\* The batch is written or lost.
LEMMA InvAppendEvents ==
  ASSUME DaemonInv, NEW d \in Daemon, AppendEvents(d)
  PROVE  DaemonInv'
<1> DEFINE p == [proc[d] EXCEPT !.pc = "finishing", !.pending = <<>>]
<1>1. /\ proc[d] \in Process /\ history \o Rows(NoDaemon, proc[d].pending) \in Seq(EventRow)
      /\ proc[d].pc = "appending" /\ SetProc(d, p)
      /\ UNCHANGED <<happened, shot, lock, nodes, daemonPid, beatAge, crashes, captured>>
  BY WritesAreEvents DEF AppendEvents
<1>2. /\ history' = history \/ history' \in Seq(EventRow)
      /\ failures' = failures \/ Fails
  BY <1>1 DEF AppendEvents
<1>3. StoreTypes'
  BY <1>1, <1>2, StoreMoves
<1>4. <<>> \in Seq(Nat)
  OBVIOUS
<1>5. /\ p \in Process /\ p.pc = "finishing" /\ p.since = proc[d].since
      /\ p.received = proc[d].received /\ p.persists = proc[d].persists
      /\ p.builder = proc[d].builder /\ p.pending = <<>>
  BY <1>1, <1>4 DEF Process, Location
<1> HIDE DEF p
<1> QED BY <1>1, <1>3, <1>5, Advance DEF Storing

\* The tick ends with the heartbeat and the start of a narration.
LEMMA InvFinishTick ==
  ASSUME DaemonInv, NEW d \in Daemon, FinishTick(d)
  PROVE  DaemonInv'
<1>1. /\ proc[d] \in Process /\ proc[d].pc = "finishing"
      /\ UNCHANGED <<happened, shot, lock, nodes, history, daemonPid, crashes, captured>>
  BY WritesAreEvents DEF FinishTick
<1>2. /\ beatAge' = beatAge \/ beatAge' = 0
      /\ failures' = failures \/ Fails
  BY DEF FinishTick
<1>3. StoreTypes'
  BY <1>1, <1>2, StoreMoves
<1> DEFINE n == IF Narrates /\ proc[d].received # {} THEN 0 ELSE NoNarration
           p == [proc[d] EXCEPT !.pc = "select", !.narration = n]
           q == [p EXCEPT !.skipped = FALSE]
<1>4. SetProc(d, p) \/ SetProc(d, q)
  BY DEF FinishTick
<1>5. n \in {NoNarration, Finished} \cup 0..MaxNarration
  BY DaemonAssumption
<1> HIDE DEF n
<1>6. /\ p \in Process /\ p.pc = "select" /\ p.since = proc[d].since
      /\ p.received = proc[d].received /\ p.persists = proc[d].persists
      /\ p.builder = proc[d].builder /\ p.pending = proc[d].pending
  BY <1>1, <1>5 DEF Process, Location
<1> HIDE DEF p
<1>7. /\ q \in Process /\ q.pc = "select" /\ q.since = proc[d].since
      /\ q.received = proc[d].received /\ q.persists = proc[d].persists
      /\ q.builder = proc[d].builder /\ q.pending = proc[d].pending
  BY <1>6 DEF Process
<1> HIDE DEF q
<1> QED BY <1>1, <1>3, <1>4, <1>6, <1>7, Advance DEF Storing

\* The writes of the shutdown.
LEMMA InvFinalWrites ==
  ASSUME DaemonInv, NEW d \in Daemon,
         FinalMerge(d) \/ FinalAppend(d) \/ ClearPid(d)
  PROVE  DaemonInv'
<1>1. /\ LocalInv(proc[d]) /\ proc[d].builder \subseteq Event
      /\ history \o Rows(NoDaemon, proc[d].pending) \in Seq(EventRow)
  BY WritesAreEvents
<1>2. PICK pc \in {"final append", "clearing", "waiting"} : Goto(d, pc)
  BY DEF FinalMerge, FinalAppend, ClearPid
<1>3. /\ proc[d].pc \in {"final merge", "final append", "clearing"}
      /\ UNCHANGED <<happened, shot, lock, beatAge, crashes, captured>>
      /\ failures' = failures \/ Fails
  BY DEF FinalMerge, FinalAppend, ClearPid
<1>4. /\ nodes' = nodes \/ nodes' \subseteq Event
      /\ history' = history \/ history' \in Seq(EventRow)
      /\ daemonPid' = daemonPid \/ daemonPid' \in Daemon \cup {NeverRan, CleanStop}
  BY <1>1 DEF FinalMerge, FinalAppend, ClearPid, DaemonInv, TypeOK
<1>5. StoreTypes'
  BY <1>3, <1>4, StoreMoves
<1>6. proc[d].persists
  BY <1>1, <1>3 DEF LocalInv, Storing
<1> QED BY <1>2, <1>3, <1>5, <1>6, GotoStep DEF Location

\* The process exits or is killed.
LEMMA InvEnd ==
  ASSUME DaemonInv, NEW d \in Daemon, Exit(d) \/ Crash(d)
  PROVE  DaemonInv'
<1>1. /\ SetProc(d, Idle) /\ proc[d].pc # "off" /\ lock' = NoDaemon
      /\ UNCHANGED <<happened, shot, storeVars, failures, captured>>
      /\ crashes' = crashes \/ (crashes < MaxCrashes /\ crashes' = crashes + 1)
  BY DEF Exit, Crash
<1>2. StoreTypes'
  BY <1>1, StoreMoves DEF storeVars
<1> QED BY <1>1, <1>2, EndStep

\* A signal arrives, a narration ends, or an event is lost on its way.
LEMMA InvOutside ==
  ASSUME DaemonInv, NEW d \in Daemon, Signal(d) \/ NarrationDone(d) \/ Lose(d)
  PROVE  DaemonInv'
<1>1. /\ proc[d] \in Process /\ LocalInv(proc[d])
      /\ UNCHANGED <<happened, shot, lock, storeVars, crashes, failures, captured>>
  BY WritesAreEvents DEF Signal, NarrationDone, Lose
<1>2. StoreTypes'
  BY <1>1, StoreMoves DEF storeVars
<1>3. CASE Signal(d)
  <2>1. PICK heard \in BOOLEAN :
          SetProc(d, [proc[d] EXCEPT !.noted = @ \/ heard, !.asked = TRUE])
    BY <1>3, Zenon DEF Signal
  <2> DEFINE p == [proc[d] EXCEPT !.noted = @ \/ heard, !.asked = TRUE]
  <2>2. SetProc(d, p)
    BY <2>1
  <2>3. proc[d].pc \notin {"off", "opening"}
    BY <1>3 DEF Signal, InLoop, InTick
  <2>4. /\ p \in Process /\ p.pc = proc[d].pc /\ p.since = proc[d].since
        /\ p.received = proc[d].received /\ p.persists = proc[d].persists
        /\ p.builder = proc[d].builder /\ p.pending = proc[d].pending
    BY <1>1 DEF Process
  <2> HIDE DEF p
  <2> QED BY <1>1, <1>2, <2>2, <2>3, <2>4, Advance DEF LocalInv
<1>4. CASE NarrationDone(d)
  <2> DEFINE p == [proc[d] EXCEPT !.narration = Finished]
  <2>1. SetProc(d, p) /\ proc[d].narration >= 0
    BY <1>4 DEF NarrationDone, NarrationRuns
  <2>2. proc[d].pc \notin {"off", "opening"}
    BY <1>1, <2>1 DEF LocalInv, NoNarration
  <2>3. /\ p \in Process /\ p.pc = proc[d].pc /\ p.since = proc[d].since
        /\ p.received = proc[d].received /\ p.persists = proc[d].persists
        /\ p.builder = proc[d].builder /\ p.pending = proc[d].pending
    BY <1>1 DEF Process
  <2> HIDE DEF p
  <2> QED BY <1>1, <1>2, <2>1, <2>2, <2>3, Advance DEF LocalInv
<1>5. CASE Lose(d)
  <2>1. PICK e \in Due(d) : SetProc(d, [proc[d] EXCEPT !.lost = @ \cup {e}])
    BY <1>5 DEF Lose
  <2>2. e \in Nat /\ proc[d].pc = "select"
    <3>1. proc[d].since \in Nat /\ happened \in Nat
      BY <1>1, DaemonAssumption DEF Process, DaemonInv, TypeOK
    <3> QED BY <1>5, <3>1 DEF Due, Lose, Selects
  <2> DEFINE p == [proc[d] EXCEPT !.lost = @ \cup {e}]
  <2>3. SetProc(d, p)
    BY <2>1
  <2>4. /\ p \in Process /\ p.pc = proc[d].pc /\ p.since = proc[d].since
        /\ p.received = proc[d].received /\ p.persists = proc[d].persists
        /\ p.builder = proc[d].builder /\ p.pending = proc[d].pending
    BY <1>1, <2>2 DEF Process
  <2> HIDE DEF p
  <2> QED BY <1>1, <1>2, <2>2, <2>3, <2>4, Advance DEF Storing
<1> QED BY <1>3, <1>4, <1>5

-----------------------------------------------------------------------------
(* One-shot runs *)

CaptureStep(o) ==
  \/ Capture(o) \/ CaptureEvent(o) \/ EndCapture(o)
  \/ MergeCapture(o) \/ AppendCapture(o) \/ CrashCapture(o)

\* A one-shot run touches nothing of the daemons; a process that does not run
\* has no events.
LEMMA InvCapture ==
  ASSUME DaemonInv, NEW o \in OneShot, CaptureStep(o)
  PROVE  DaemonInv'
<1>1. /\ happened \in 0..MaxEvents /\ MaxEvents \in Nat /\ happened \in Nat
      /\ shot \in [OneShot -> CaptureProcess] /\ shot[o] \in CaptureProcess
      /\ history \in Seq(EventRow) /\ nodes \subseteq Event
      /\ {crashes, failures, MaxCrashes, MaxFailures} \subseteq Nat
      /\ crashes <= MaxCrashes /\ failures <= MaxFailures
  BY DaemonAssumption DEF DaemonInv, TypeOK, EventRow
<1>2. /\ shot[o].received \in Seq(Event) /\ ToSet(shot[o].received) \subseteq Event
      /\ shot[o].since \in Nat /\ <<>> \in Seq(Event) /\ o \in Writer
  BY <1>1, BatchItems DEF CaptureProcess, Writer
<1>3. NoCapture \in CaptureProcess
  BY <1>2 DEF NoCapture, CaptureProcess
<1>4. shot' \in [OneShot -> CaptureProcess]
  <2>1. CASE Capture(o)
    BY <1>1, <1>2, <2>1 DEF Capture, NoCapture, CaptureProcess
  <2>2. CASE CaptureEvent(o)
    <3>1. PICK e \in (shot[o].since + 1)..happened :
            shot' = [shot EXCEPT ![o].received = Append(@, e)]
      BY <2>2 DEF CaptureEvent
    <3>2. Append(shot[o].received, e) \in Seq(Event)
      BY <1>1, <1>2, BatchItems DEF Event
    <3> QED BY <1>1, <3>1, <3>2 DEF CaptureProcess
  <2>3. CASE EndCapture(o) \/ MergeCapture(o)
    <3>1. PICK pc \in {"merging", "appending"} :
            \/ shot' = [shot EXCEPT ![o].pc = pc]
            \/ shot' = [shot EXCEPT ![o] = NoCapture]
      BY <2>3 DEF EndCapture, MergeCapture
    <3>2. [shot[o] EXCEPT !.pc = pc] \in CaptureProcess
      BY <1>1 DEF CaptureProcess
    <3> QED BY <1>1, <1>3, <3>1, <3>2
  <2>4. CASE AppendCapture(o) \/ CrashCapture(o)
    BY <1>1, <1>3, <2>4 DEF AppendCapture, CrashCapture
  <2> QED BY <2>1, <2>2, <2>3, <2>4 DEF CaptureStep
<1>5. UNCHANGED <<happened, lock, proc, daemonPid, beatAge, captured>>
  BY DEF CaptureStep, Capture, CaptureEvent, EndCapture, MergeCapture, AppendCapture,
         CrashCapture, daemonVars
<1>6. nodes' \subseteq Event
  BY <1>1, <1>2 DEF CaptureStep, Capture, CaptureEvent, EndCapture, MergeCapture,
                    AppendCapture, CrashCapture
<1>7. history' \in Seq(EventRow)
  <2>1. history \o Rows(o, shot[o].received) \in Seq(EventRow)
    BY <1>1, <1>2, RowsOfBatch, ConcatProperties
  <2> QED BY <1>1, <2>1 DEF CaptureStep, Capture, CaptureEvent, EndCapture, MergeCapture,
                            AppendCapture, CrashCapture
<1>8. crashes' \in 0..MaxCrashes /\ failures' \in 0..MaxFailures
  BY <1>1 DEF CaptureStep, Capture, CaptureEvent, EndCapture, MergeCapture,
              AppendCapture, CrashCapture, Fails
<1>9. TypeOK'
  BY <1>4, <1>5, <1>6, <1>7, <1>8
     DEF DaemonInv, TypeOK, EventRow, Event, Writer, CaptureProcess
<1>10. \A d \in Daemon : LocalInv(proc[d])' <=> LocalInv(proc[d])
  BY <1>5 DEF LocalInv
<1> QED BY <1>9, <1>10 DEF DaemonInv

-----------------------------------------------------------------------------
(* The world, and the invariant *)

\* An event happens.
LEMMA InvHappen ==
  ASSUME DaemonInv, Happen
  PROVE  DaemonInv'
<1>1. /\ happened \in 0..MaxEvents /\ MaxEvents \in Nat
      /\ happened < MaxEvents /\ happened' = happened + 1
      /\ UNCHANGED <<lock, proc, shot, storeVars, crashes, failures, captured>>
  BY DaemonAssumption DEF Happen, DaemonInv, TypeOK
<1>2. TypeOK'
  BY <1>1 DEF storeVars, DaemonInv, TypeOK, Event, Writer, CaptureProcess
<1>3. ASSUME NEW d \in Daemon
      PROVE  LocalInv(proc[d])'
  <2>1. LocalInv(proc[d]) /\ proc[d].since \in Nat /\ proc'[d] = proc[d]
    BY <1>1, WritesAreEvents DEF Process
  <2> QED BY <1>1, <2>1 DEF LocalInv
<1> QED BY <1>2, <1>3 DEF DaemonInv

\* A process that waits changes only its timer and its narration.
LEMMA WaitedProcess ==
  ASSUME NEW p \in Process, CanWait(p)
  PROVE  /\ Waited(p) \in Process
         /\ Waited(p).pc = p.pc /\ Waited(p).since = p.since
         /\ Waited(p).received = p.received /\ Waited(p).persists = p.persists
         /\ Waited(p).builder = p.builder /\ Waited(p).pending = p.pending
         /\ Waited(p).skipped = p.skipped /\ Waited(p).noted = p.noted
         /\ p.pc \in {"off", "select"}
         /\ p.pc = "off" => Waited(p) = p
         /\ p.pc # "off" => p.timer > 0 /\ Waited(p).timer = p.timer - 1
<1>1. CASE p.pc = "off"
  BY <1>1 DEF Waited
<1>2. CASE p.pc = "select" /\ p.timer > 0 /\ p.narration < MaxNarration
  <2> DEFINE n == IF p.narration >= 0 THEN p.narration + 1 ELSE p.narration
             q == [p EXCEPT !.timer = p.timer - 1, !.narration = n]
  <2>1. n \in {NoNarration, Finished} \cup 0..MaxNarration
    <3>1. /\ p.narration \in {NoNarration, Finished} \cup 0..MaxNarration
          /\ MaxNarration \in Nat
      BY DaemonAssumption DEF Process
    <3> QED BY <1>2, <3>1 DEF NoNarration, Finished
  <2>2. p.timer - 1 \in 0..TickEvery
    BY <1>2, DaemonAssumption DEF Process
  <2>3. Waited(p) = q
    BY <1>2 DEF Waited
  <2> HIDE DEF n
  <2> QED BY <1>2, <2>1, <2>2, <2>3 DEF Process
<1> QED BY <1>1, <1>2 DEF CanWait

\* Time passes.
LEMMA InvPassTime ==
  ASSUME DaemonInv, PassTime
  PROVE  DaemonInv'
<1>1. /\ proc' = [d \in Daemon |-> Waited(proc[d])]
      /\ UNCHANGED <<happened, shot, lock, nodes, history, daemonPid, crashes, failures,
                     captured>>
      /\ \A d \in Daemon : CanWait(proc[d])
  BY DEF PassTime
<1>2. ASSUME NEW d \in Daemon
      PROVE  proc'[d] \in Process /\ proc'[d].pc = proc[d].pc /\ LocalInv(proc[d])'
  <2>1. /\ proc[d] \in Process /\ LocalInv(proc[d]) /\ CanWait(proc[d])
        /\ proc'[d] = Waited(proc[d]) /\ happened' = happened
    BY <1>1, WritesAreEvents
  <2>2. /\ proc'[d] \in Process /\ proc'[d].pc = proc[d].pc /\ proc'[d].since = proc[d].since
        /\ proc'[d].received = proc[d].received /\ proc'[d].persists = proc[d].persists
        /\ proc'[d].builder = proc[d].builder /\ proc'[d].pending = proc[d].pending
        /\ proc[d].pc = "off" => proc'[d] = proc[d]
        /\ proc[d].pc # "opening"
    BY <2>1, WaitedProcess
  <2> QED BY <2>1, <2>2 DEF LocalInv
<1>3. beatAge' \in {NoBeat} \cup 0..(DeadAfter + 1)
  <2>1. DeadAfter \in Nat /\ beatAge \in {NoBeat} \cup 0..(DeadAfter + 1)
    BY DaemonAssumption DEF DaemonInv, TypeOK
  <2> QED BY <2>1 DEF PassTime
<1>4. proc' \in [Daemon -> Process]
  BY <1>1, <1>2
<1>5. TypeOK'
  BY <1>1, <1>2, <1>3, <1>4 DEF DaemonInv, TypeOK, Event, Writer, CaptureProcess
<1> QED BY <1>2, <1>5 DEF DaemonInv

\* The daemon starts in a state of the invariant.
LEMMA InvInit == Init => DaemonInv
<1> SUFFICES ASSUME Init
             PROVE  DaemonInv
  OBVIOUS
<1>1. /\ {MaxEvents, MaxCrashes, MaxFailures, DeadAfter} \subseteq Nat
      /\ <<>> \in Seq([writer : Writer, event : Event]) /\ NoCapture \in CaptureProcess
  BY DaemonAssumption DEF NoCapture, CaptureProcess
<1>2. ASSUME NEW d \in Daemon
      PROVE  proc[d] = Idle /\ LocalInv(proc[d])
  <2>1. happened = 0 /\ proc[d] = Idle /\ {} \subseteq 1..happened
    BY DEF Init
  <2> QED BY <2>1, IdleProcess, NoItems DEF LocalInv, Storing
<1>3. proc \in [Daemon -> Process] /\ \A d \in Daemon : proc[d].pc # "off" <=> lock = d
  BY <1>2, IdleProcess, DaemonAssumption DEF Init
<1>4. TypeOK
  BY <1>1, <1>3 DEF Init, TypeOK
<1> QED BY <1>2, <1>4 DEF DaemonInv

\* Each step of a daemon, of those who signal it and of time keeps the
\* invariant.
LEMMA InvNext == DaemonInv /\ [Next]_vars => DaemonInv'
<1> SUFFICES ASSUME DaemonInv, [Next]_vars
             PROVE  DaemonInv'
  OBVIOUS
<1>1. CASE UNCHANGED vars
  <2>1. TypeOK' <=> TypeOK
    BY <1>1 DEF vars, storeVars, TypeOK, Event, Writer, CaptureProcess
  <2>2. \A d \in Daemon : LocalInv(proc[d])' <=> LocalInv(proc[d])
    BY <1>1 DEF vars, LocalInv
  <2> QED BY <2>1, <2>2 DEF DaemonInv
<1>2. ASSUME NEW d \in Daemon, Start(d) \/ Run(d) \/ Receive(d) \/ PipelineEnds(d)
                               \/ Signal(d) \/ Crash(d) \/ NarrationDone(d) \/ Lose(d)
      PROVE  DaemonInv'
  BY <1>2, InvStart, InvOpenStore, InvShutdown, InvReceive, InvTick, InvMerge,
     InvAppendEvents, InvFinishTick, InvFinalWrites, InvEnd, InvOutside DEF Run
<1> QED BY <1>1, <1>2, InvCapture, InvHappen, InvPassTime DEF Next, CaptureStep

\* What a process keeps of its own, whatever the others do (aw-mvp/src/main.rs,
\* the locals of run_daemon): it consumes only what happened since its start,
\* its graph and its batch hold only what it consumed, and it writes only if it
\* has the store.
THEOREM DaemonInvariant == Spec => []DaemonInv
<1> QED BY InvInit, InvNext, PTL DEF Spec

\* Types, and the instance lock (aw-mvp/src/main.rs, acquire_instance_lock): a
\* daemon that runs has the lock, however many are started and however they
\* end, so at most one has the store open for writing.
THEOREM DaemonTypeCorrect == Spec => []TypeOK
<1>1. DaemonInv => TypeOK
  BY DEF DaemonInv
<1> QED BY <1>1, DaemonInvariant, PTL

-----------------------------------------------------------------------------
(* What has been written *)

\* An event was written by somebody if the table has such a row.
LEMMA WrittenRows ==
  ASSUME history \in Seq(EventRow)
  PROVE  \A w, e : e \in WrittenBy(w) <=> RowOf(w, e) \in ToSet(history)
<1>1. ToSet(history) \subseteq EventRow
  BY BatchItems
<1>2. ASSUME NEW w, NEW r \in EventRow, r.writer = w
      PROVE  r = RowOf(w, r.event)
  BY <1>2 DEF EventRow, RowOf
<1> QED BY <1>1, <1>2 DEF WrittenBy, RowOf

\* What a batch adds to the table, and to what each writer wrote.
LEMMA WrittenGrows ==
  ASSUME DaemonInv, NEW w \in Writer, NEW s \in Seq(Event)
  PROVE  /\ \A v : WrittenBy(v) \subseteq Event
         /\ history' = history => \A v : WrittenBy(v)' = WrittenBy(v)
         /\ history' = history \o Rows(w, s)
              => /\ WrittenBy(w)' = WrittenBy(w) \cup ToSet(s)
                 /\ \A v : v # w => WrittenBy(v)' = WrittenBy(v)
<1>1. history \in Seq(EventRow) /\ ToSet(history) \subseteq EventRow
  BY BatchItems DEF DaemonInv, TypeOK, EventRow
<1>2. \A v, e : e \in WrittenBy(v) <=> RowOf(v, e) \in ToSet(history)
  BY <1>1, WrittenRows
<1>3. \A v : WrittenBy(v) \subseteq Event
  <2> SUFFICES ASSUME NEW v, NEW e \in WrittenBy(v)
               PROVE  e \in Event
    OBVIOUS
  <2>1. RowOf(v, e) \in EventRow
    BY <1>1, <1>2
  <2> QED BY <2>1 DEF EventRow, RowOf
<1>4. history' = history => \A v : WrittenBy(v)' = WrittenBy(v)
  BY DEF WrittenBy
<1>5. ASSUME history' = history \o Rows(w, s)
      PROVE  /\ WrittenBy(w)' = WrittenBy(w) \cup ToSet(s)
             /\ \A v : v # w => WrittenBy(v)' = WrittenBy(v)
  <2>1. /\ Rows(w, s) \in Seq(EventRow)
        /\ \A r : r \in ToSet(Rows(w, s)) <=> \E e \in ToSet(s) : r = RowOf(w, e)
    BY RowsOfBatch
  <2>2. /\ history' \in Seq(EventRow)
        /\ ToSet(history') = ToSet(history) \cup ToSet(Rows(w, s))
    BY <1>1, <1>5, <2>1, BatchItems
  <2>3. \A v, e : e \in WrittenBy(v)' <=> RowOf(v, e) \in ToSet(history')
    <3>1. ToSet(history') \subseteq EventRow
      BY <2>2, BatchItems
    <3>2. ASSUME NEW v, NEW r \in EventRow, r.writer = v
          PROVE  r = RowOf(v, r.event)
      BY <3>2 DEF EventRow, RowOf
    <3> QED BY <3>1, <3>2 DEF WrittenBy, RowOf
  <2>4. \A v, e, x : RowOf(v, e) = RowOf(w, x) <=> v = w /\ e = x
    BY DEF RowOf
  <2>5. \A v, e : e \in WrittenBy(v)' <=> e \in WrittenBy(v) \/ (v = w /\ e \in ToSet(s))
    BY <1>2, <2>1, <2>2, <2>3, <2>4
  <2> QED BY <2>5
<1> QED BY <1>3, <1>4, <1>5

\* The same of a daemon.
LEMMA DaemonWrites ==
  ASSUME DaemonInv, NEW d \in Daemon
  PROVE  /\ \A w : WrittenBy(w) \subseteq Event
         /\ UNCHANGED history => UNCHANGED Written /\ \A w : WrittenBy(w)' = WrittenBy(w)
         /\ history' = history \o Rows(NoDaemon, proc[d].pending)
              => /\ Written' = Written \cup ToSet(proc[d].pending)
                 /\ \A w : w # NoDaemon => WrittenBy(w)' = WrittenBy(w)
<1>1. NoDaemon \in Writer /\ proc[d].pending \in Seq(Event)
  BY WritesAreEvents DEF Writer
<1> QED BY <1>1, WrittenGrows DEF Written

-----------------------------------------------------------------------------
(* What the steps do, field by field *)

Others(d) == \A e \in Daemon \ {d} : proc'[e] = proc[e]

Keeps(d) ==
  /\ proc'[d].since = proc[d].since
  /\ proc'[d].received = proc[d].received
  /\ proc'[d].pending = proc[d].pending

KeepsAll(d) ==
  /\ Keeps(d)
  /\ proc'[d].persists = proc[d].persists
  /\ proc'[d].builder = proc[d].builder

\* A daemon that starts takes the lock and knows nothing yet.
LEMMA StartEffect ==
  ASSUME DaemonInv, NEW d \in Daemon, Start(d)
  PROVE  /\ Others(d) /\ proc[d].pc = "off" /\ lock = NoDaemon /\ lock' = d
         /\ proc'[d].pc = "opening" /\ ~proc'[d].persists
         /\ proc'[d].since = happened /\ proc'[d].received = {}
         /\ proc'[d].pending = <<>>
         /\ UNCHANGED <<happened, shot, nodes, history, daemonPid, beatAge, crashes,
                        failures, captured>>
BY IdleProcess DEF DaemonInv, TypeOK, Process, Others, Start, SetProc, storeVars

\* A daemon that opens its store without failing persists, and its heartbeat is
\* fresh; its timer is set either way.
LEMMA OpenStoreEffect ==
  ASSUME DaemonInv, NEW d \in Daemon, OpenStore(d)
  PROVE  /\ Others(d) /\ Keeps(d)
         /\ proc[d].pc = "opening" /\ proc'[d].pc = "select"
         /\ proc'[d].builder = proc[d].builder
         /\ proc'[d].timer = TickEvery
         /\ \/ failures' > failures
            \/ /\ UNCHANGED failures
               /\ proc'[d].persists /\ daemonPid' = d /\ beatAge' = 0
         /\ UNCHANGED <<happened, shot, lock, nodes, history, crashes, captured>>
<1>1. proc[d] \in Process /\ proc \in [Daemon -> Process] /\ failures \in Nat
  BY DaemonAssumption DEF DaemonInv, TypeOK
<1>2. /\ proc[d].pc = "opening"
      /\ UNCHANGED <<happened, shot, lock, nodes, history, crashes, captured>>
  BY DEF OpenStore
<1>3. PICK b \in BOOLEAN :
        /\ EnterLoop(d, b)
        /\ \/ b /\ daemonPid' = d /\ beatAge' = 0 /\ UNCHANGED failures
           \/ Fails
  BY DEF OpenStore
<1>4. failures' = failures \/ failures' > failures
  BY <1>1, <1>3 DEF Fails
<1>5. Fails => failures' > failures
  BY <1>1 DEF Fails
<1>6. /\ Others(d) /\ Keeps(d) /\ proc'[d].pc = "select" /\ proc'[d].timer = TickEvery
      /\ proc'[d].builder = proc[d].builder /\ proc'[d].persists = b
  BY <1>1, <1>3 DEF EnterLoop, SetProc, Process, Others, Keeps
<1> QED BY <1>2, <1>3, <1>5, <1>6

\* Going to another place of the code changes nothing else of the process.
LEMMA GotoEffect ==
  ASSUME DaemonInv, NEW d \in Daemon, NEW pc \in Location, Goto(d, pc)
  PROVE  /\ Others(d) /\ KeepsAll(d) /\ proc'[d].pc = pc
         /\ proc'[d].timer = proc[d].timer /\ proc'[d].skipped = proc[d].skipped
<1>1. proc \in [Daemon -> Process] /\ proc[d] \in Process
  BY DEF DaemonInv, TypeOK
<1> QED BY <1>1 DEF Goto, SetProc, Process, Others, Keeps, KeepsAll

\* A daemon that is told to stop leaves the loop, over the final writes if it
\* persists.
LEMMA ShutdownEffect ==
  ASSUME DaemonInv, NEW d \in Daemon, Stop(d) \/ PipelineEnds(d)
  PROVE  /\ Others(d) /\ KeepsAll(d) /\ proc[d].pc = "select"
         /\ proc'[d].pc = IF proc[d].persists THEN "final merge" ELSE "waiting"
         /\ UNCHANGED <<happened, shot, lock, nodes, history, daemonPid, beatAge,
                        failures, captured>>
<1> DEFINE pc == IF proc[d].persists THEN "final merge" ELSE "waiting"
<1>1. /\ Goto(d, pc) /\ proc[d].pc = "select"
      /\ UNCHANGED <<happened, shot, lock, nodes, history, daemonPid, beatAge, failures, captured>>
  BY DEF Stop, PipelineEnds, Shutdown, Selects, storeVars
<1>2. pc \in Location
  BY DEF Location
<1> HIDE DEF pc
<1>3. Others(d) /\ KeepsAll(d) /\ proc'[d].pc = pc
  BY <1>1, <1>2, GotoEffect
<1> QED BY <1>1, <1>3 DEF pc

\* What is received has happened since the start, was not received before, and
\* is at most pending and in the builder.
LEMMA ReceiveEffect ==
  ASSUME DaemonInv, NEW d \in Daemon, Receive(d)
  PROVE  \E e \in Event :
           /\ e \in (proc[d].since + 1)..happened /\ e \notin proc[d].received
           /\ Others(d) /\ proc[d].pc = "select" /\ proc'[d].pc = "select"
           /\ proc'[d].since = proc[d].since /\ proc'[d].received = proc[d].received \cup {e}
           /\ proc'[d].persists = proc[d].persists
           /\ proc'[d].timer = proc[d].timer /\ proc'[d].skipped = proc[d].skipped
           /\ \/ /\ proc[d].persists
                 /\ proc'[d].builder = proc[d].builder \cup {e}
                 /\ proc'[d].pending = Append(proc[d].pending, e)
                 /\ ToSet(proc'[d].pending) = ToSet(proc[d].pending) \cup {e}
                 /\ captured' = captured \cup {e}
              \/ /\ ~proc[d].persists
                 /\ UNCHANGED captured
                 /\ proc'[d].pending = proc[d].pending
           /\ UNCHANGED <<happened, shot, lock, nodes, history, daemonPid, beatAge,
                          crashes, failures>>
<1>1. /\ proc[d] \in Process /\ proc \in [Daemon -> Process] /\ proc[d].pc = "select"
      /\ UNCHANGED <<happened, shot, lock, nodes, history, daemonPid, beatAge, crashes, failures>>
  BY DEF DaemonInv, TypeOK, Receive, Selects, storeVars
<1>2. PICK e \in Due(d) :
        LET p == [proc[d] EXCEPT !.received = @ \cup {e}]
        IN \/ /\ p.persists
              /\ SetProc(d, [p EXCEPT !.builder = @ \cup {e}, !.pending = Append(@, e)])
              /\ captured' = captured \cup {e}
           \/ /\ ~p.persists
              /\ SetProc(d, p)
              /\ UNCHANGED captured
  BY DEF Receive
<1>3. /\ e \in Nat /\ e \in Event
      /\ e \in (proc[d].since + 1)..happened /\ e \notin proc[d].received
  <2>1. e \in (proc[d].since + 1)..happened /\ e \notin proc[d].received
    BY DEF Due
  <2>2. proc[d].since \in Nat
    BY <1>1 DEF Process
  <2>3. happened \in 0..MaxEvents /\ MaxEvents \in Nat
    BY DaemonAssumption DEF DaemonInv, TypeOK
  <2> QED BY <2>1, <2>2, <2>3 DEF Event
<1> DEFINE p == [proc[d] EXCEPT !.received = @ \cup {e}]
           q == [p EXCEPT !.builder = @ \cup {e}, !.pending = Append(@, e)]
<1>4. /\ p \in Process /\ p.pc = "select" /\ p.since = proc[d].since
      /\ p.received = proc[d].received \cup {e} /\ p.persists = proc[d].persists
      /\ p.builder = proc[d].builder /\ p.pending = proc[d].pending
      /\ p.timer = proc[d].timer /\ p.skipped = proc[d].skipped
  BY <1>1, <1>3 DEF Process
<1>5. CASE proc[d].persists
  <2>1. SetProc(d, q) /\ captured' = captured \cup {e}
    BY <1>2, <1>4, <1>5
  <2>2. ToSet(Append(proc[d].pending, e)) = ToSet(proc[d].pending) \cup {e}
    BY <1>1, <1>3, BatchItems DEF Process
  <2> HIDE DEF p
  <2>3. /\ q.pc = "select" /\ q.since = proc[d].since
        /\ q.received = proc[d].received \cup {e} /\ q.persists = proc[d].persists
        /\ q.timer = proc[d].timer /\ q.skipped = proc[d].skipped
        /\ q.builder = proc[d].builder \cup {e}
        /\ q.pending = Append(proc[d].pending, e)
    BY <1>4 DEF Process
  <2> HIDE DEF q
  <2>4. proc'[d] = q /\ Others(d)
    BY <1>1, <2>1 DEF SetProc, Others
  <2> QED BY <1>1, <1>3, <1>5, <2>1, <2>2, <2>3, <2>4
<1>6. CASE ~proc[d].persists
  <2>1. SetProc(d, p) /\ UNCHANGED captured
    BY <1>2, <1>4, <1>6
  <2> HIDE DEF p
  <2>2. proc'[d] = p /\ Others(d)
    BY <1>1, <2>1 DEF SetProc, Others
  <2> QED BY <1>1, <1>3, <1>4, <1>6, <2>1, <2>2
<1> QED BY <1>5, <1>6

\* A tick is skipped, or starts the writes of a daemon that persists, and sets
\* the timer.
LEMMA TickEffect ==
  ASSUME DaemonInv, NEW d \in Daemon, SkipTick(d) \/ Tick(d)
  PROVE  /\ Others(d) /\ KeepsAll(d)
         /\ proc[d].pc = "select" /\ proc[d].timer = 0
         /\ \/ proc'[d].pc = "select" /\ proc'[d].skipped
            \/ /\ proc'[d].skipped = proc[d].skipped /\ proc'[d].timer = TickEvery
               /\ proc'[d].pc = IF proc[d].persists THEN "merging" ELSE "finishing"
         /\ UNCHANGED <<happened, shot, lock, nodes, history, daemonPid, beatAge,
                        crashes, failures, captured>>
<1>1. proc \in [Daemon -> Process] /\ proc[d] \in Process
  BY DEF DaemonInv, TypeOK
<1>2. /\ proc[d].pc = "select" /\ proc[d].timer = 0
      /\ UNCHANGED <<happened, shot, lock, nodes, history, daemonPid, beatAge,
                     crashes, failures, captured>>
  BY DEF SkipTick, Tick, TickDue, Selects, storeVars
<1>3. CASE SkipTick(d)
  <2>1. SetProc(d, [proc[d] EXCEPT !.timer = TickEvery, !.skipped = TRUE])
    BY <1>3 DEF SkipTick
  <2>2. Others(d) /\ KeepsAll(d) /\ proc'[d].pc = "select" /\ proc'[d].skipped
    BY <1>1, <1>2, <2>1 DEF SetProc, Process, Others, Keeps, KeepsAll
  <2> QED BY <1>2, <2>2
<1>4. CASE Tick(d)
  <2> DEFINE pc == IF proc[d].persists THEN "merging" ELSE "finishing"
  <2>1. SetProc(d, [proc[d] EXCEPT !.timer = TickEvery, !.narration = NoNarration,
                                   !.pc = pc])
    BY <1>4 DEF Tick, BeginTick
  <2> HIDE DEF pc
  <2>2. /\ Others(d) /\ KeepsAll(d) /\ proc'[d].pc = pc
        /\ proc'[d].skipped = proc[d].skipped /\ proc'[d].timer = TickEvery
    BY <1>1, <1>2, <2>1 DEF SetProc, Process, Others, Keeps, KeepsAll
  <2> QED BY <1>2, <2>2 DEF pc
<1> QED BY <1>3, <1>4

\* A merge puts the builder into the store or fails; the tick goes on.
LEMMA MergeEffect ==
  ASSUME DaemonInv, NEW d \in Daemon, Merge(d)
  PROVE  /\ Others(d) /\ Keeps(d) /\ proc'[d].persists = proc[d].persists
         /\ proc[d].pc = "merging" /\ proc'[d].pc = "appending"
         /\ proc'[d].timer = proc[d].timer /\ proc'[d].skipped = proc[d].skipped
         /\ \/ /\ nodes' = nodes \cup proc[d].builder
               /\ proc'[d].builder \subseteq proc[d].builder /\ UNCHANGED failures
            \/ UNCHANGED nodes /\ proc'[d].builder = proc[d].builder /\ failures' > failures
         /\ UNCHANGED <<happened, shot, lock, history, daemonPid, beatAge, crashes, captured>>
<1>1. failures \in Nat /\ proc \in [Daemon -> Process] /\ proc[d] \in Process
  BY DaemonAssumption DEF DaemonInv, TypeOK
<1>2. Fails => failures' > failures
  BY <1>1 DEF Fails
<1>3. /\ proc[d].pc = "merging"
      /\ UNCHANGED <<happened, shot, lock, history, daemonPid, beatAge, crashes, captured>>
  BY DEF Merge
<1>4. CASE Goto(d, "appending") /\ Fails /\ UNCHANGED nodes
  BY <1>2, <1>3, <1>4, GotoEffect DEF Location, KeepsAll
<1>5. ASSUME NEW kept \in SUBSET proc[d].builder,
             SetProc(d, [proc[d] EXCEPT !.pc = "appending", !.builder = kept])
      PROVE  /\ Others(d) /\ Keeps(d) /\ proc'[d].persists = proc[d].persists
             /\ proc'[d].pc = "appending" /\ proc'[d].skipped = proc[d].skipped
             /\ proc'[d].timer = proc[d].timer
             /\ proc'[d].builder \subseteq proc[d].builder
  BY <1>1, <1>5 DEF SetProc, Process, Others, Keeps
<1> QED BY <1>3, <1>4, <1>5 DEF Merge

\* An append puts the batch into the store or fails, and the batch is gone.
LEMMA AppendEffect ==
  ASSUME DaemonInv, NEW d \in Daemon, AppendEvents(d)
  PROVE  /\ Others(d) /\ proc[d].pc = "appending" /\ proc'[d].pc = "finishing"
         /\ proc'[d].since = proc[d].since /\ proc'[d].received = proc[d].received
         /\ proc'[d].persists = proc[d].persists /\ proc'[d].builder = proc[d].builder
         /\ proc'[d].pending = <<>>
         /\ proc'[d].timer = proc[d].timer /\ proc'[d].skipped = proc[d].skipped
         /\ \/ history' = history \o Rows(NoDaemon, proc[d].pending) /\ UNCHANGED failures
            \/ UNCHANGED history /\ failures' > failures
         /\ UNCHANGED <<happened, shot, lock, nodes, daemonPid, beatAge, crashes, captured>>
<1>1. failures \in Nat /\ proc \in [Daemon -> Process] /\ proc[d] \in Process
  BY DaemonAssumption DEF DaemonInv, TypeOK
<1>2. Fails => failures' > failures
  BY <1>1 DEF Fails
<1> QED BY <1>1, <1>2 DEF AppendEvents, SetProc, Process, Others

\* The end of a tick refreshes the heartbeat, if the daemon persists and
\* nothing fails.
LEMMA FinishEffect ==
  ASSUME DaemonInv, NEW d \in Daemon, FinishTick(d)
  PROVE  /\ Others(d) /\ KeepsAll(d) /\ proc'[d].timer = proc[d].timer
         /\ proc[d].pc = "finishing" /\ proc'[d].pc = "select"
         /\ \/ ~proc[d].persists /\ UNCHANGED <<beatAge, failures>>
            \/ beatAge' = 0 /\ UNCHANGED failures
            \/ UNCHANGED beatAge /\ failures' > failures
         /\ UNCHANGED <<happened, shot, lock, nodes, history, daemonPid, crashes, captured>>
<1>1. failures \in Nat /\ proc \in [Daemon -> Process] /\ proc[d] \in Process
  BY DaemonAssumption DEF DaemonInv, TypeOK
<1>2. Fails => failures' > failures
  BY <1>1 DEF Fails
<1> DEFINE n == IF Narrates /\ proc[d].received # {} THEN 0 ELSE NoNarration
           p == [proc[d] EXCEPT !.pc = "select", !.narration = n]
           q == [p EXCEPT !.skipped = FALSE]
<1>3. SetProc(d, p) \/ SetProc(d, q)
  BY DEF FinishTick
<1>4. /\ proc[d].pc = "finishing"
      /\ \/ ~proc[d].persists /\ UNCHANGED <<beatAge, failures>>
         \/ beatAge' = 0 /\ UNCHANGED failures
         \/ UNCHANGED beatAge /\ Fails
      /\ UNCHANGED <<happened, shot, lock, nodes, history, daemonPid, crashes, captured>>
  BY DEF FinishTick
<1> HIDE DEF n
<1>5. Others(d) /\ KeepsAll(d) /\ proc'[d].timer = proc[d].timer /\ proc'[d].pc = "select"
  <2>1. CASE SetProc(d, p)
    BY <1>1, <2>1 DEF SetProc, Process, Others, Keeps, KeepsAll
  <2>2. CASE SetProc(d, q)
    BY <1>1, <2>2 DEF SetProc, Process, Others, Keeps, KeepsAll
  <2> QED BY <1>3, <2>1, <2>2
<1> QED BY <1>2, <1>4, <1>5

\* The last merge puts the builder into the store or fails.
LEMMA FinalMergeEffect ==
  ASSUME DaemonInv, NEW d \in Daemon, FinalMerge(d)
  PROVE  /\ Others(d) /\ KeepsAll(d)
         /\ proc[d].pc = "final merge" /\ proc'[d].pc = "final append"
         /\ \/ nodes' = nodes \cup proc[d].builder /\ UNCHANGED failures
            \/ UNCHANGED nodes /\ failures' > failures
         /\ UNCHANGED <<happened, shot, lock, history, daemonPid, beatAge, crashes, captured>>
<1>1. failures \in Nat
  BY DaemonAssumption DEF DaemonInv, TypeOK
<1>2. Fails => failures' > failures
  BY <1>1 DEF Fails
<1>3. Others(d) /\ KeepsAll(d) /\ proc'[d].pc = "final append"
  BY GotoEffect DEF FinalMerge, Location
<1> QED BY <1>2, <1>3 DEF FinalMerge

\* The last append puts the batch into the store or fails.
LEMMA FinalAppendEffect ==
  ASSUME DaemonInv, NEW d \in Daemon, FinalAppend(d)
  PROVE  /\ Others(d) /\ KeepsAll(d)
         /\ proc[d].pc = "final append" /\ proc'[d].pc = "clearing"
         /\ \/ history' = history \o Rows(NoDaemon, proc[d].pending) /\ UNCHANGED failures
            \/ UNCHANGED history /\ failures' > failures
         /\ UNCHANGED <<happened, shot, lock, nodes, daemonPid, beatAge, crashes, captured>>
<1>1. failures \in Nat
  BY DaemonAssumption DEF DaemonInv, TypeOK
<1>2. Fails => failures' > failures
  BY <1>1 DEF Fails
<1>3. Others(d) /\ KeepsAll(d) /\ proc'[d].pc = "clearing"
  BY GotoEffect DEF FinalAppend, Location
<1> QED BY <1>2, <1>3 DEF FinalAppend

\* The last write says that the stop was clean, or fails.
LEMMA ClearPidEffect ==
  ASSUME DaemonInv, NEW d \in Daemon, ClearPid(d)
  PROVE  /\ Others(d) /\ KeepsAll(d)
         /\ proc[d].pc = "clearing" /\ proc'[d].pc = "waiting"
         /\ \/ daemonPid' = CleanStop /\ UNCHANGED failures
            \/ UNCHANGED daemonPid /\ failures' > failures
         /\ UNCHANGED <<happened, shot, lock, nodes, history, beatAge, crashes, captured>>
<1>1. failures \in Nat
  BY DaemonAssumption DEF DaemonInv, TypeOK
<1>2. Fails => failures' > failures
  BY <1>1 DEF Fails
<1>3. Others(d) /\ KeepsAll(d) /\ proc'[d].pc = "waiting"
  BY GotoEffect DEF ClearPid, Location
<1> QED BY <1>2, <1>3 DEF ClearPid

\* A daemon that ends, by itself or killed, leaves the lock and no state.
LEMMA EndEffect ==
  ASSUME DaemonInv, NEW d \in Daemon, Exit(d) \/ Crash(d)
  PROVE  /\ Others(d) /\ proc[d].pc # "off" /\ proc'[d] = Idle /\ lock' = NoDaemon
         /\ Exit(d) => proc[d].pc = "waiting" /\ UNCHANGED crashes
         /\ Crash(d) => crashes' > crashes
         /\ UNCHANGED <<happened, shot, nodes, history, daemonPid, beatAge, failures, captured>>
<1>1. crashes \in Nat
  BY DaemonAssumption DEF DaemonInv, TypeOK
<1> QED BY <1>1 DEF DaemonInv, TypeOK, Exit, Crash, SetProc, Others, storeVars

\* A signal, the end of a narration and the loss of an event change nothing of
\* the loop.
LEMMA OutsideEffect ==
  ASSUME DaemonInv, NEW d \in Daemon, Signal(d) \/ NarrationDone(d) \/ Lose(d)
  PROVE  /\ Others(d) /\ KeepsAll(d) /\ proc'[d].pc = proc[d].pc
         /\ proc'[d].timer = proc[d].timer /\ proc'[d].skipped = proc[d].skipped
         /\ proc[d].pc # "off"
         /\ UNCHANGED <<happened, shot, lock, nodes, history, daemonPid, beatAge, crashes,
                        failures, captured>>
<1>1. proc \in [Daemon -> Process] /\ proc[d] \in Process /\ LocalInv(proc[d])
  BY DEF DaemonInv, TypeOK
<1>2. CASE Signal(d)
  BY <1>1, <1>2 DEF Signal, InLoop, InTick, SetProc, Process, Others, Keeps, KeepsAll,
                    storeVars
<1>3. CASE NarrationDone(d)
  BY <1>1, <1>3 DEF NarrationDone, NarrationRuns, LocalInv, NoNarration, SetProc,
                    Process, Others, Keeps, KeepsAll, storeVars
<1>4. CASE Lose(d)
  <2>1. PICK e \in Due(d) : SetProc(d, [proc[d] EXCEPT !.lost = @ \cup {e}])
    BY <1>4 DEF Lose
  <2> QED BY <1>1, <1>4, <2>1 DEF Lose, Selects, SetProc, Process, Others, Keeps,
                                  KeepsAll, storeVars
<1> QED BY <1>2, <1>3, <1>4

\* A one-shot run leaves the daemons and what they have written alone.
LEMMA CaptureEffect ==
  ASSUME DaemonInv, NEW o \in OneShot, CaptureStep(o)
  PROVE  /\ UNCHANGED <<happened, lock, proc, daemonPid, beatAge, captured>>
         /\ \A x \in OneShot \ {o} : shot'[x] = shot[x]
         /\ nodes \subseteq nodes' /\ UNCHANGED Written
         /\ failures' = failures \/ failures' > failures
         /\ crashes' = crashes \/ crashes' > crashes
<1>1. shot \in [OneShot -> CaptureProcess] /\ {crashes, failures} \subseteq Nat
  BY DaemonAssumption DEF DaemonInv, TypeOK
<1>2. UNCHANGED <<happened, lock, proc, daemonPid, beatAge, captured>>
  BY DEF CaptureStep, Capture, CaptureEvent, EndCapture, MergeCapture, AppendCapture,
         CrashCapture, daemonVars
<1>3. \A x \in OneShot \ {o} : shot'[x] = shot[x]
  BY <1>1 DEF CaptureStep, Capture, CaptureEvent, EndCapture, MergeCapture,
              AppendCapture, CrashCapture
<1>4. nodes \subseteq nodes'
  BY DEF CaptureStep, Capture, CaptureEvent, EndCapture, MergeCapture, AppendCapture,
         CrashCapture
<1>5. /\ failures' = failures \/ failures' > failures
      /\ crashes' = crashes \/ crashes' > crashes
  BY <1>1 DEF CaptureStep, Capture, CaptureEvent, EndCapture, MergeCapture,
              AppendCapture, CrashCapture, Fails
<1>6. UNCHANGED Written
  <2>1. history' = history \/ history' = history \o Rows(o, shot[o].received)
    BY DEF CaptureStep, Capture, CaptureEvent, EndCapture, MergeCapture, AppendCapture,
           CrashCapture
  <2>2. shot[o].received \in Seq(Event) /\ o \in Writer /\ NoDaemon # o
    BY <1>1, DaemonAssumption DEF CaptureProcess, Writer
  <2> QED BY <2>1, <2>2, WrittenGrows DEF Written
<1> QED BY <1>2, <1>3, <1>4, <1>5, <1>6

-----------------------------------------------------------------------------
(* Trimming and the store *)

Trimmed(d) == proc[d].persists => proc[d].received \subseteq proc[d].builder \cup nodes

\* What a daemon has trimmed from its builder stays in the store, whatever it
\* does.
LEMMA TrimmedStep ==
  ASSUME DaemonInv, TrimmedIsMerged, NEW d \in Daemon,
         Start(d) \/ Run(d) \/ Receive(d) \/ PipelineEnds(d)
           \/ Signal(d) \/ Crash(d) \/ NarrationDone(d) \/ Lose(d)
  PROVE  Others(d) /\ nodes \subseteq nodes' /\ Trimmed(d)'
<1>1. LocalInv(proc[d]) /\ Trimmed(d)
  BY WritesAreEvents DEF TrimmedIsMerged, Trimmed
<1>2. CASE Start(d)
  BY <1>2, StartEffect DEF Trimmed
<1>3. CASE OpenStore(d)
  BY <1>1, <1>3, OpenStoreEffect DEF LocalInv, Keeps, Trimmed
<1>4. CASE Receive(d)
  <2>1. PICK e \in Event :
          /\ Others(d) /\ UNCHANGED nodes
          /\ proc'[d].received = proc[d].received \cup {e}
          /\ proc'[d].persists = proc[d].persists
          /\ proc[d].persists => proc'[d].builder = proc[d].builder \cup {e}
    BY <1>4, ReceiveEffect
  <2> QED BY <1>1, <2>1 DEF Trimmed
<1>5. CASE Stop(d) \/ PipelineEnds(d) \/ SkipTick(d) \/ Tick(d) \/ FinishTick(d)
             \/ FinalAppend(d) \/ ClearPid(d) \/ Signal(d) \/ NarrationDone(d) \/ Lose(d)
  <2>1. CASE Stop(d) \/ PipelineEnds(d) \/ SkipTick(d) \/ Tick(d)
    BY <1>1, <2>1, ShutdownEffect, TickEffect DEF Keeps, KeepsAll, Trimmed
  <2>2. CASE FinishTick(d) \/ FinalAppend(d)
    BY <1>1, <2>2, FinishEffect, FinalAppendEffect DEF Keeps, KeepsAll, Trimmed
  <2>3. CASE ClearPid(d) \/ Signal(d) \/ NarrationDone(d) \/ Lose(d)
    BY <1>1, <2>3, ClearPidEffect, OutsideEffect DEF Keeps, KeepsAll, Trimmed
  <2> QED BY <1>5, <2>1, <2>2, <2>3
<1>6. CASE Merge(d) \/ FinalMerge(d)
  BY <1>1, <1>6, MergeEffect, FinalMergeEffect DEF Keeps, KeepsAll, Trimmed
<1>7. CASE AppendEvents(d)
  BY <1>1, <1>7, AppendEffect DEF Trimmed
<1>8. CASE Exit(d) \/ Crash(d)
  BY <1>8, EndEffect, IdleProcess DEF Trimmed
<1> QED BY <1>2, <1>3, <1>4, <1>5, <1>6, <1>7, <1>8 DEF Run

\* No step of any daemon loses what was trimmed.
LEMMA TrimmedNext == DaemonInv /\ TrimmedIsMerged /\ [Next]_vars => TrimmedIsMerged'
<1> SUFFICES ASSUME DaemonInv, TrimmedIsMerged, [Next]_vars, NEW d \in Daemon
             PROVE  Trimmed(d)'
  BY DEF TrimmedIsMerged, Trimmed
<1>1. Trimmed(d)
  BY DEF TrimmedIsMerged, Trimmed
<1>2. ASSUME NEW e \in Daemon, Start(e) \/ Run(e) \/ Receive(e) \/ PipelineEnds(e)
                               \/ Signal(e) \/ Crash(e) \/ NarrationDone(e) \/ Lose(e)
      PROVE  Trimmed(d)'
  <2>1. Others(e) /\ nodes \subseteq nodes' /\ Trimmed(e)'
    BY <1>2, TrimmedStep
  <2> QED BY <1>1, <2>1 DEF Others, Trimmed
<1>3. CASE UNCHANGED vars \/ Happen
  BY <1>1, <1>3 DEF Trimmed, vars, storeVars, Happen
<1>4. CASE PassTime
  <2>1. proc[d] \in Process /\ CanWait(proc[d]) /\ proc'[d] = Waited(proc[d]) /\ nodes' = nodes
    BY <1>4 DEF PassTime, DaemonInv, TypeOK
  <2> QED BY <1>1, <2>1, WaitedProcess DEF Trimmed
<1>5. ASSUME NEW o \in OneShot, CaptureStep(o)
      PROVE  Trimmed(d)'
  BY <1>1, <1>5, CaptureEffect DEF Trimmed
<1> QED BY <1>2, <1>3, <1>4, <1>5 DEF Next, CaptureStep

\* Trimming the builder loses nothing (aw-mvp/src/main.rs, the tick arm): what a
\* daemon with a store has consumed is in its builder or in the store, whatever
\* merges fail and in whatever order daemons come and go.
THEOREM TrimmingLosesNothing == Spec => []TrimmedIsMerged
<1>1. Init => TrimmedIsMerged
  BY IdleProcess DEF Init, TrimmedIsMerged
<1> QED BY <1>1, TrimmedNext, DaemonInvariant, PTL DEF Spec

-----------------------------------------------------------------------------
(* The history *)

CaptureInv(o) ==
  /\ shot[o].since <= happened
  /\ ToSet(shot[o].received) \subseteq 1..happened
  /\ shot[o].pc = "off" => shot[o].received = <<>>
  /\ shot[o].pc # "off" => WrittenBy(o) \subseteq 1..shot[o].since

\* The table holds only what has happened; what it has from a daemon is older
\* than the one that runs, or was consumed by it; what it has from a one-shot
\* run is older than its capture.
HistoryInv ==
  /\ \A w \in Writer : WrittenBy(w) \subseteq 1..happened
  /\ \A d \in Daemon :
       proc[d].pc # "off" => Written \subseteq (1..proc[d].since) \cup proc[d].received
  /\ \A o \in OneShot : CaptureInv(o)

\* A step of one daemon writes only what it has consumed.
LEMMA HistoryStep ==
  ASSUME DaemonInv, HistoryInv, NEW d \in Daemon,
         Start(d) \/ Run(d) \/ Receive(d) \/ PipelineEnds(d)
           \/ Signal(d) \/ Crash(d) \/ NarrationDone(d) \/ Lose(d)
  PROVE  HistoryInv'
<1>1. /\ proc[d] \in Process /\ LocalInv(proc[d]) /\ happened \in Nat /\ proc[d].since \in Nat
      /\ proc[d].pc # "off" => Written \subseteq (1..proc[d].since) \cup proc[d].received
      /\ Written \subseteq 1..happened
  <2>1. proc[d] \in Process /\ LocalInv(proc[d])
    BY WritesAreEvents
  <2>2. happened \in Nat
    BY DaemonAssumption DEF DaemonInv, TypeOK
  <2>3. proc[d].since \in Nat
    BY <2>1 DEF Process
  <2> QED BY <2>1, <2>2, <2>3 DEF HistoryInv, Written, Writer
<1>2. /\ ToSet(proc[d].pending) \subseteq proc[d].received
      /\ proc[d].received \subseteq (proc[d].since + 1)..happened
  BY <1>1 DEF LocalInv
<1>3. ToSet(proc[d].pending) \subseteq 1..happened
  BY <1>1, <1>2
<1>4. SUFFICES /\ Others(d) /\ UNCHANGED <<happened, shot>>
               /\ \A w : w # NoDaemon => WrittenBy(w)' = WrittenBy(w)
               /\ Written' \subseteq 1..happened
               /\ \A e \in Daemon \ {d} : proc[e].pc # "off" => Written' = Written
               /\ proc'[d].pc # "off"
                    => Written' \subseteq (1..proc'[d].since) \cup proc'[d].received
  <2>1. \A w \in Writer : WrittenBy(w)' \subseteq 1..happened'
    BY <1>4 DEF Written, HistoryInv
  <2>2. ASSUME NEW e \in Daemon, proc'[e].pc # "off"
        PROVE  Written' \subseteq (1..proc'[e].since) \cup proc'[e].received
    BY <1>4, <2>2 DEF Others, HistoryInv
  <2>3. ASSUME NEW o \in OneShot
        PROVE  CaptureInv(o)'
    <3>1. CaptureInv(o) /\ WrittenBy(o)' = WrittenBy(o)
      BY <1>4, DaemonAssumption DEF HistoryInv
    <3> QED BY <1>4, <3>1 DEF CaptureInv
  <2> QED BY <2>1, <2>2, <2>3 DEF HistoryInv
<1>5. CASE Start(d)
  <2>1. Others(d) /\ proc'[d].since = happened /\ UNCHANGED <<happened, shot, history>>
    BY <1>5, StartEffect
  <2>2. UNCHANGED Written /\ \A w : WrittenBy(w)' = WrittenBy(w)
    BY <2>1, DaemonWrites
  <2> QED BY <1>1, <2>1, <2>2
<1>6. CASE AppendEvents(d) \/ FinalAppend(d)
  <2>1. /\ Others(d) /\ proc'[d].since = proc[d].since /\ UNCHANGED <<happened, shot>>
        /\ proc'[d].received = proc[d].received
        /\ proc[d].pc # "off"
        /\ history' = history \o Rows(NoDaemon, proc[d].pending) \/ UNCHANGED history
    BY <1>6, AppendEffect, FinalAppendEffect DEF KeepsAll, Keeps
  <2>2. /\ Written' = Written \/ Written' = Written \cup ToSet(proc[d].pending)
        /\ \A w : w # NoDaemon => WrittenBy(w)' = WrittenBy(w)
    BY <2>1, DaemonWrites
  <2>3. \A e \in Daemon \ {d} : proc[e].pc = "off"
    BY <2>1, Alone DEF DaemonInv
  <2> QED BY <1>1, <1>2, <1>3, <2>1, <2>2, <2>3
<1>7. CASE OpenStore(d) \/ Stop(d) \/ PipelineEnds(d) \/ SkipTick(d) \/ Tick(d)
             \/ Merge(d) \/ FinishTick(d) \/ FinalMerge(d) \/ ClearPid(d)
             \/ Signal(d) \/ NarrationDone(d) \/ Lose(d) \/ Receive(d)
  <2>1. /\ Others(d) /\ proc'[d].since = proc[d].since
        /\ proc[d].received \subseteq proc'[d].received
        /\ UNCHANGED <<happened, shot, history>>
        /\ proc[d].pc # "off"
    <3>1. CASE OpenStore(d) \/ Merge(d) \/ FinishTick(d)
      BY <3>1, OpenStoreEffect, MergeEffect, FinishEffect DEF KeepsAll, Keeps
    <3>2. CASE Stop(d) \/ PipelineEnds(d) \/ SkipTick(d) \/ Tick(d)
      BY <3>2, ShutdownEffect, TickEffect DEF KeepsAll, Keeps
    <3>3. CASE FinalMerge(d) \/ ClearPid(d) \/ Signal(d) \/ NarrationDone(d) \/ Lose(d)
      BY <3>3, FinalMergeEffect, ClearPidEffect, OutsideEffect DEF KeepsAll, Keeps
    <3>4. CASE Receive(d)
      BY <3>4, ReceiveEffect
    <3> QED BY <1>7, <3>1, <3>2, <3>3, <3>4
  <2>2. UNCHANGED Written /\ \A w : WrittenBy(w)' = WrittenBy(w)
    BY <2>1, DaemonWrites
  <2> QED BY <1>1, <2>1, <2>2
<1>8. CASE Exit(d) \/ Crash(d)
  <2>1. Others(d) /\ proc'[d].pc = "off" /\ UNCHANGED <<happened, shot, history>>
    BY <1>8, EndEffect, IdleProcess
  <2>2. UNCHANGED Written /\ \A w : WrittenBy(w)' = WrittenBy(w)
    BY <2>1, DaemonWrites
  <2> QED BY <1>1, <2>1, <2>2
<1> QED BY <1>5, <1>6, <1>7, <1>8 DEF Run

\* What a one-shot run does to its own state and to the table.
LEMMA CaptureMoves ==
  ASSUME DaemonInv, HistoryInv, NEW o \in OneShot, CaptureStep(o)
  PROVE  /\ CaptureInv(o)' /\ WrittenBy(o)' \subseteq 1..happened
         /\ \A w : w # o => WrittenBy(w)' = WrittenBy(w)
         /\ \/ /\ shot[o].received = <<>> /\ shot'[o].received = <<>>
               /\ UNCHANGED history
            \/ /\ shot'[o].received = shot[o].received /\ UNCHANGED history
            \/ /\ \E e \in Event : /\ e \notin ToSet(shot[o].received)
                                   /\ e \notin WrittenBy(o)
                                   /\ shot'[o].received = Append(shot[o].received, e)
               /\ UNCHANGED history
            \/ /\ history' = history \o Rows(o, shot[o].received) \/ UNCHANGED history
               /\ shot'[o].received = <<>>
<1>1. /\ happened \in 0..MaxEvents /\ MaxEvents \in Nat /\ happened \in Nat
      /\ shot \in [OneShot -> CaptureProcess] /\ shot[o] \in CaptureProcess
      /\ UNCHANGED happened
  BY CaptureEffect, DaemonAssumption DEF DaemonInv, TypeOK
<1>2. /\ shot[o].received \in Seq(Event) /\ shot[o].since \in Nat /\ o \in Writer
  BY <1>1 DEF CaptureProcess, Writer
<1>3. CaptureInv(o) /\ WrittenBy(o) \subseteq 1..happened
  BY <1>2 DEF HistoryInv
<1>4. /\ UNCHANGED history => \A w : WrittenBy(w)' = WrittenBy(w)
      /\ history' = history \o Rows(o, shot[o].received)
           => /\ WrittenBy(o)' = WrittenBy(o) \cup ToSet(shot[o].received)
              /\ \A w : w # o => WrittenBy(w)' = WrittenBy(w)
  BY <1>2, WrittenGrows
<1>5. CASE Capture(o)
  <2>1. /\ shot'[o].pc = "capturing" /\ shot'[o].since = happened
        /\ shot'[o].received = <<>> /\ shot[o].pc = "off" /\ UNCHANGED history
    BY <1>1, <1>5 DEF Capture, NoCapture
  <2>2. CaptureInv(o)'
    BY <1>1, <1>3, <1>4, <2>1, NoItems DEF CaptureInv
  <2> QED BY <1>3, <1>4, <2>1, <2>2 DEF CaptureInv
<1>6. CASE CaptureEvent(o)
  <2>1. PICK e \in ((shot[o].since + 1)..happened) \ ToSet(shot[o].received) :
          shot' = [shot EXCEPT ![o].received = Append(@, e)]
    BY <1>6 DEF CaptureEvent
  <2>2. /\ shot'[o].pc = shot[o].pc /\ shot[o].pc = "capturing"
        /\ shot'[o].since = shot[o].since
        /\ shot'[o].received = Append(shot[o].received, e) /\ UNCHANGED history
    BY <1>1, <1>6, <2>1 DEF CaptureEvent, CaptureProcess
  <2>3. /\ e \in Event /\ e \in 1..happened
        /\ ToSet(Append(shot[o].received, e)) = ToSet(shot[o].received) \cup {e}
    <3>1. e \in Event /\ e \in 1..happened
      BY <1>1, <1>2, <2>1 DEF Event
    <3> QED BY <1>2, <3>1, BatchItems
  <2>4. WrittenBy(o)' = WrittenBy(o) /\ \A w : w # o => WrittenBy(w)' = WrittenBy(w)
    BY <1>4, <2>2
  <2>5. CaptureInv(o)'
    BY <1>1, <1>3, <2>2, <2>3, <2>4 DEF CaptureInv
  <2>6. e \notin WrittenBy(o) /\ e \notin ToSet(shot[o].received)
    BY <1>2, <1>3, <2>1, <2>2 DEF CaptureInv
  <2> QED BY <1>3, <2>2, <2>3, <2>4, <2>5, <2>6
<1>7. CASE EndCapture(o) \/ MergeCapture(o)
  <2>1. /\ UNCHANGED history /\ shot[o].pc # "off"
        /\ \/ /\ shot'[o].received = shot[o].received /\ shot'[o].since = shot[o].since
              /\ shot'[o].pc # "off"
           \/ shot'[o] = NoCapture
    BY <1>1, <1>7 DEF EndCapture, MergeCapture, CaptureProcess
  <2>2. WrittenBy(o)' = WrittenBy(o) /\ \A w : w # o => WrittenBy(w)' = WrittenBy(w)
    BY <1>4, <2>1
  <2>3. CaptureInv(o)'
    BY <1>1, <1>3, <2>1, <2>2, NoItems DEF CaptureInv, NoCapture
  <2> QED BY <1>3, <2>1, <2>2, <2>3 DEF NoCapture
<1>8. CASE AppendCapture(o) \/ CrashCapture(o)
  <2>1. /\ shot'[o] = NoCapture
        /\ history' = history \o Rows(o, shot[o].received) \/ UNCHANGED history
    BY <1>1, <1>8 DEF AppendCapture, CrashCapture
  <2>2. /\ WrittenBy(o)' \subseteq 1..happened
        /\ \A w : w # o => WrittenBy(w)' = WrittenBy(w)
    BY <1>3, <1>4, <2>1 DEF CaptureInv
  <2>3. CaptureInv(o)'
    BY <1>1, <2>1, NoItems DEF CaptureInv, NoCapture
  <2> QED BY <2>1, <2>2, <2>3 DEF NoCapture
<1> QED BY <1>5, <1>6, <1>7, <1>8 DEF CaptureStep

\* No step of any process writes what did not happen, or what was written
\* before.
LEMMA HistoryNext == DaemonInv /\ HistoryInv /\ [Next]_vars => HistoryInv'
<1> SUFFICES ASSUME DaemonInv, HistoryInv, [Next]_vars
             PROVE  HistoryInv'
  OBVIOUS
<1>1. UNCHANGED history => UNCHANGED Written /\ \A w : WrittenBy(w)' = WrittenBy(w)
  BY DEF Written, WrittenBy
<1>2. CASE UNCHANGED vars
  BY <1>1, <1>2 DEF HistoryInv, CaptureInv, vars, storeVars
<1>3. CASE Happen
  <2>1. happened \in Nat /\ happened' = happened + 1 /\ UNCHANGED <<proc, shot, history>>
    BY <1>3, DaemonAssumption DEF Happen, storeVars, DaemonInv, TypeOK
  <2>2. 1..happened \subseteq 1..happened'
    BY <2>1
  <2>3. ASSUME NEW o \in OneShot
        PROVE  CaptureInv(o)'
    <3>1. CaptureInv(o) /\ shot[o].since \in Nat
      BY DEF HistoryInv, DaemonInv, TypeOK, CaptureProcess
    <3> QED BY <1>1, <2>1, <2>2, <3>1 DEF CaptureInv
  <2> QED BY <1>1, <2>1, <2>2, <2>3 DEF HistoryInv
<1>4. CASE PassTime
  <2>1. /\ UNCHANGED <<happened, shot, history>>
        /\ \A d \in Daemon : /\ proc[d] \in Process /\ CanWait(proc[d])
                             /\ proc'[d] = Waited(proc[d])
    BY <1>4 DEF PassTime, DaemonInv, TypeOK
  <2>2. \A d \in Daemon : /\ proc'[d].pc = proc[d].pc /\ proc'[d].since = proc[d].since
                          /\ proc'[d].received = proc[d].received
    BY <2>1, WaitedProcess
  <2> QED BY <1>1, <2>1, <2>2 DEF HistoryInv, CaptureInv
<1>5. ASSUME NEW o \in OneShot, CaptureStep(o)
      PROVE  HistoryInv'
  <2>1. /\ UNCHANGED <<happened, proc>> /\ UNCHANGED Written
        /\ \A x \in OneShot \ {o} : shot'[x] = shot[x]
    BY <1>5, CaptureEffect
  <2>2. /\ CaptureInv(o)' /\ WrittenBy(o)' \subseteq 1..happened
        /\ \A w : w # o => WrittenBy(w)' = WrittenBy(w)
    BY <1>5, CaptureMoves
  <2>3. \A x \in OneShot : CaptureInv(x)'
    BY <2>1, <2>2 DEF HistoryInv, CaptureInv
  <2>4. \A w \in Writer : WrittenBy(w)' \subseteq 1..happened'
    BY <2>1, <2>2 DEF HistoryInv
  <2> QED BY <2>1, <2>3, <2>4 DEF HistoryInv
<1> QED BY <1>2, <1>3, <1>4, <1>5, HistoryStep DEF Next, CaptureStep

DaemonBatch ==
  IF lock = NoDaemon \/ proc[lock].pc \in {"clearing", "waiting"} THEN <<>>
  ELSE proc[lock].pending

\* The batches of the writers, and what they are if only one of them changes.
LEMMA BatchValues ==
  /\ Batch = [w \in Writer |-> IF w \in OneShot THEN shot[w].received ELSE DaemonBatch]
  /\ Batch[NoDaemon] = DaemonBatch
  /\ \A o \in OneShot : Batch[o] = shot[o].received
  /\ NoDaemon \in Writer /\ OneShot \subseteq Writer
<1>1. NoDaemon \notin OneShot
  BY DaemonAssumption
<1> QED BY <1>1 DEF Batch, DaemonBatch, Writer

\* The daemons' batch is that of the process that has the lock.
LEMMA BatchOf ==
  ASSUME NEW d \in Daemon
  PROVE  /\ lock = d => DaemonBatch = IF proc[d].pc \in {"clearing", "waiting"} THEN <<>>
                                      ELSE proc[d].pending
         /\ lock' = d => DaemonBatch' = IF proc'[d].pc \in {"clearing", "waiting"} THEN <<>>
                                        ELSE proc'[d].pending
         /\ lock = NoDaemon => DaemonBatch = <<>>
         /\ lock' = NoDaemon => DaemonBatch' = <<>>
BY DaemonAssumption DEF DaemonBatch

\* A step of a daemon changes no other batch.
LEMMA DaemonBatchMoves ==
  ASSUME UNCHANGED shot
  PROVE  /\ Batch' = [Batch EXCEPT ![NoDaemon] = DaemonBatch']
         /\ UNCHANGED DaemonBatch => UNCHANGED Batch
<1>1. Batch = [w \in Writer |-> IF w \in OneShot THEN shot[w].received ELSE DaemonBatch]
  BY BatchValues
<1>2. Batch' = [w \in Writer |-> IF w \in OneShot THEN shot[w].received ELSE DaemonBatch']
  BY DaemonAssumption DEF Batch, DaemonBatch, Writer
<1>3. NoDaemon \notin OneShot
  BY DaemonAssumption
<1> QED BY <1>1, <1>2, <1>3 DEF Writer

\* Nor does a step of a one-shot run.
LEMMA CaptureBatchMoves ==
  ASSUME NEW o \in OneShot, UNCHANGED <<lock, proc>>,
         \A x \in OneShot \ {o} : shot'[x] = shot[x]
  PROVE  /\ Batch' = [Batch EXCEPT ![o] = shot'[o].received]
         /\ shot'[o].received = shot[o].received => UNCHANGED Batch
<1>1. Batch = [w \in Writer |-> IF w \in OneShot THEN shot[w].received ELSE DaemonBatch]
  BY BatchValues
<1>2. Batch' = [w \in Writer |-> IF w \in OneShot THEN shot'[w].received ELSE DaemonBatch]
  BY DaemonAssumption DEF Batch, DaemonBatch, Writer
<1> QED BY <1>1, <1>2 DEF Writer

\* What is neither in a batch nor in the table is not taken.
LEMMA NotTaken ==
  ASSUME DaemonInv, NEW w \in Writer, NEW e \in Event,
         e \notin ToSet(Batch[w]), e \notin WrittenBy(w)
  PROVE  ~Abstract!Taken(w, e)
<1>1. history \in Seq(EventRow)
  BY DEF DaemonInv, TypeOK, EventRow
<1>2. RowOf(w, e) \notin ToSet(history)
  BY <1>1, WrittenRows
<1> QED BY <1>2 DEF Abstract!Taken, Abstract!Row, RowOf, ToSet

\* What is received enters the batch of the abstract history, if at all.
LEMMA EventIsTaken ==
  ASSUME DaemonInv, HistoryInv, NEW d \in Daemon, Receive(d)
  PROVE  Abstract!Take(NoDaemon) \/ UNCHANGED <<Batch, history>>
<1>1. PICK e \in Event :
        /\ e \in (proc[d].since + 1)..happened /\ e \notin proc[d].received
        /\ proc[d].pc = "select" /\ proc'[d].pc = "select"
        /\ \/ proc'[d].pending = Append(proc[d].pending, e)
           \/ proc'[d].pending = proc[d].pending
        /\ UNCHANGED <<shot, history, lock>>
  BY ReceiveEffect
<1>2. lock = d /\ lock' = d
  BY <1>1, Alone DEF DaemonInv
<1>3. DaemonBatch = proc[d].pending /\ DaemonBatch' = proc'[d].pending
  BY <1>1, <1>2, BatchOf
<1>4. LocalInv(proc[d]) /\ proc[d].since \in Nat
  BY WritesAreEvents DEF Process
<1>5. e \notin ToSet(DaemonBatch) /\ e \notin Written
  BY <1>1, <1>3, <1>4 DEF LocalInv, HistoryInv
<1>6. ~Abstract!Taken(NoDaemon, e)
  BY <1>5, NotTaken, BatchValues DEF Written
<1>7. /\ Batch[NoDaemon] = DaemonBatch
      /\ Batch' = [Batch EXCEPT ![NoDaemon] = DaemonBatch']
      /\ UNCHANGED DaemonBatch => UNCHANGED Batch
  BY <1>1, BatchValues, DaemonBatchMoves
<1> QED BY <1>1, <1>3, <1>6, <1>7 DEF Abstract!Take

\* An append writes the batch, or forgets it.
LEMMA BatchIsWritten ==
  ASSUME DaemonInv, NEW d \in Daemon, AppendEvents(d) \/ FinalAppend(d)
  PROVE  Abstract!Write(NoDaemon) \/ Abstract!Forget(NoDaemon)
<1>1. /\ proc[d].pc \in {"appending", "final append"} /\ UNCHANGED <<shot, lock>>
      /\ \/ proc'[d].pc = "clearing"
         \/ proc'[d].pc = "finishing" /\ proc'[d].pending = <<>>
      /\ history' = history \o Rows(NoDaemon, proc[d].pending) \/ UNCHANGED history
  BY AppendEffect, FinalAppendEffect
<1>2. lock = d /\ lock' = d
  BY <1>1, Alone DEF DaemonInv
<1>3. DaemonBatch = proc[d].pending /\ DaemonBatch' = <<>>
  BY <1>1, <1>2, BatchOf
<1>4. /\ Batch[NoDaemon] = DaemonBatch
      /\ Batch' = [Batch EXCEPT ![NoDaemon] = DaemonBatch']
  BY <1>1, BatchValues, DaemonBatchMoves
<1>5. Rows(NoDaemon, proc[d].pending) = Abstract!Rows(NoDaemon, Batch[NoDaemon])
  BY <1>3, <1>4 DEF Rows, Abstract!Rows, Abstract!Row
<1> QED BY <1>1, <1>3, <1>4, <1>5 DEF Abstract!Write, Abstract!Forget

\* What is neither receiving, writing nor ending is a stutter of the abstract
\* history.
LEMMA BatchIsKept ==
  ASSUME DaemonInv, NEW d \in Daemon,
         OpenStore(d) \/ Stop(d) \/ PipelineEnds(d) \/ SkipTick(d) \/ Tick(d)
           \/ Merge(d) \/ FinishTick(d) \/ FinalMerge(d) \/ ClearPid(d)
           \/ Signal(d) \/ NarrationDone(d) \/ Lose(d)
  PROVE  UNCHANGED <<shot, DaemonBatch, history>>
<1>1. CASE OpenStore(d) \/ SkipTick(d) \/ Tick(d) \/ Merge(d) \/ FinishTick(d)
             \/ FinalMerge(d)
  <2>1. /\ proc[d].pc \notin {"off", "clearing", "waiting"}
        /\ proc'[d].pc \notin {"off", "clearing", "waiting"}
        /\ proc'[d].pending = proc[d].pending /\ UNCHANGED <<shot, lock, history>>
    <3>1. CASE OpenStore(d) \/ Merge(d) \/ FinishTick(d)
      BY <3>1, OpenStoreEffect, MergeEffect, FinishEffect DEF Keeps, KeepsAll
    <3>2. CASE SkipTick(d) \/ Tick(d) \/ FinalMerge(d)
      BY <3>2, TickEffect, FinalMergeEffect DEF Keeps, KeepsAll
    <3> QED BY <1>1, <3>1, <3>2
  <2>2. lock = d
    BY <2>1, Alone DEF DaemonInv
  <2> QED BY <2>1, <2>2, BatchOf
<1>2. CASE Signal(d) \/ NarrationDone(d) \/ Lose(d)
  <2>1. /\ proc[d].pc # "off" /\ proc'[d].pc = proc[d].pc
        /\ proc'[d].pending = proc[d].pending /\ UNCHANGED <<shot, lock, history>>
    BY <1>2, OutsideEffect DEF Keeps, KeepsAll
  <2>2. lock = d
    BY <2>1, Alone DEF DaemonInv
  <2> QED BY <2>1, <2>2, BatchOf
<1>3. CASE ClearPid(d)
  <2>1. /\ proc[d].pc = "clearing" /\ proc'[d].pc = "waiting" /\ UNCHANGED <<shot, lock, history>>
    BY <1>3, ClearPidEffect
  <2>2. lock = d
    BY <2>1, Alone DEF DaemonInv
  <2> QED BY <2>1, <2>2, BatchOf
<1>4. CASE Stop(d) \/ PipelineEnds(d)
  <2>1. /\ proc[d].pc = "select" /\ UNCHANGED <<shot, lock, history>>
        /\ proc'[d].pc = IF proc[d].persists THEN "final merge" ELSE "waiting"
        /\ proc'[d].pending = proc[d].pending
    BY <1>4, ShutdownEffect DEF Keeps, KeepsAll
  <2>2. lock = d
    BY <2>1, Alone DEF DaemonInv
  <2>3. ~proc[d].persists => proc[d].pending = <<>>
    BY WritesAreEvents DEF LocalInv
  <2>4. CASE proc[d].persists
    <3>1. proc'[d].pc = "final merge"
      BY <2>1, <2>4
    <3>2. DaemonBatch = proc[d].pending /\ DaemonBatch' = proc'[d].pending
      BY <2>1, <2>2, <3>1, BatchOf
    <3> QED BY <2>1, <3>2
  <2>5. CASE ~proc[d].persists
    <3>1. proc'[d].pc = "waiting"
      BY <2>1, <2>5
    <3> QED BY <2>1, <2>2, <2>3, <2>5, <3>1, BatchOf
  <2> QED BY <2>4, <2>5
<1> QED BY <1>1, <1>2, <1>3, <1>4

\* A daemon that starts has no batch.
LEMMA BatchStartsEmpty ==
  ASSUME DaemonInv, NEW d \in Daemon, Start(d)
  PROVE  UNCHANGED <<shot, DaemonBatch, history>>
<1>1. /\ lock = NoDaemon /\ lock' = d /\ proc'[d].pc = "opening"
      /\ proc'[d].pending = <<>> /\ UNCHANGED <<shot, history>>
  BY StartEffect
<1> QED BY <1>1, BatchOf

\* A daemon that ends forgets its batch.
LEMMA BatchIsForgotten ==
  ASSUME DaemonInv, NEW d \in Daemon, Exit(d) \/ Crash(d)
  PROVE  Abstract!Forget(NoDaemon)
<1>1. lock' = NoDaemon /\ UNCHANGED <<shot, history>>
  BY EndEffect
<1> QED BY <1>1, BatchOf, DaemonBatchMoves DEF Abstract!Forget

\* A one-shot run takes an event, writes or forgets its batch, or stutters.
LEMMA CaptureRefines ==
  ASSUME DaemonInv, HistoryInv, NEW o \in OneShot, CaptureStep(o)
  PROVE  \/ Abstract!Take(o) \/ Abstract!Write(o) \/ Abstract!Forget(o)
         \/ UNCHANGED <<Batch, history>>
<1>1. /\ Batch[o] = shot[o].received /\ o \in Writer
      /\ Batch' = [Batch EXCEPT ![o] = shot'[o].received]
      /\ shot'[o].received = shot[o].received => UNCHANGED Batch
  BY CaptureEffect, CaptureBatchMoves, BatchValues
<1>2. Rows(o, shot[o].received) = Abstract!Rows(o, Batch[o])
  BY <1>1 DEF Rows, Abstract!Rows, Abstract!Row
<1>3. ASSUME NEW e \in Event, e \notin ToSet(shot[o].received), e \notin WrittenBy(o),
             shot'[o].received = Append(shot[o].received, e), UNCHANGED history
      PROVE  Abstract!Take(o)
  <2>1. ~Abstract!Taken(o, e)
    BY <1>1, <1>3, NotTaken
  <2> QED BY <1>1, <1>3, <2>1 DEF Abstract!Take
<1>4. ASSUME history' = history \o Rows(o, shot[o].received), shot'[o].received = <<>>
      PROVE  Abstract!Write(o)
  BY <1>1, <1>2, <1>4 DEF Abstract!Write
<1>5. ASSUME UNCHANGED history, shot'[o].received = <<>>
      PROVE  Abstract!Forget(o)
  BY <1>1, <1>5 DEF Abstract!Forget
<1> QED BY <1>1, <1>3, <1>4, <1>5, CaptureMoves

\* Each step is one of the abstract history, or a stutter.
LEMMA StepRefines ==
  DaemonInv /\ HistoryInv /\ [Next]_vars => [Abstract!Next]_(Abstract!vars)
<1> SUFFICES ASSUME DaemonInv, HistoryInv, [Next]_vars
             PROVE  Abstract!Next \/ UNCHANGED <<Batch, history>>
  BY DEF Abstract!vars
<1>1. CASE UNCHANGED vars \/ Happen
  BY <1>1 DEF Happen, vars, storeVars, Batch
<1>2. CASE PassTime
  <2>1. /\ UNCHANGED <<shot, lock, history>> /\ lock \in Daemon \cup {NoDaemon}
        /\ \A d \in Daemon : /\ proc[d] \in Process /\ CanWait(proc[d])
                             /\ proc'[d] = Waited(proc[d])
    BY <1>2 DEF PassTime, DaemonInv, TypeOK
  <2>2. \A d \in Daemon : proc'[d].pc = proc[d].pc /\ proc'[d].pending = proc[d].pending
    BY <2>1, WaitedProcess
  <2>3. UNCHANGED DaemonBatch
    BY <2>1, <2>2 DEF DaemonBatch
  <2> QED BY <2>1, <2>3, DaemonBatchMoves
<1>3. ASSUME NEW d \in Daemon, Start(d) \/ Run(d) \/ Receive(d) \/ PipelineEnds(d)
                               \/ Signal(d) \/ Crash(d) \/ NarrationDone(d) \/ Lose(d)
      PROVE  Abstract!Next \/ UNCHANGED <<Batch, history>>
  <2>1. NoDaemon \in Writer
    BY BatchValues
  <2>2. \/ Abstract!Take(NoDaemon) \/ Abstract!Write(NoDaemon) \/ Abstract!Forget(NoDaemon)
        \/ UNCHANGED <<Batch, history>> \/ UNCHANGED <<shot, DaemonBatch, history>>
    BY <1>3, EventIsTaken, BatchIsWritten, BatchIsKept, BatchStartsEmpty,
       BatchIsForgotten DEF Run
  <2> QED BY <2>1, <2>2, DaemonBatchMoves DEF Abstract!Next
<1>4. ASSUME NEW o \in OneShot, CaptureStep(o)
      PROVE  Abstract!Next \/ UNCHANGED <<Batch, history>>
  <2>1. o \in Writer
    BY BatchValues
  <2> QED BY <1>4, <2>1, CaptureRefines DEF Abstract!Next
<1> QED BY <1>1, <1>2, <1>3, <1>4 DEF Next, CaptureStep

\* The events table is a history (aw-mvp/src/main.rs, run_daemon and
\* run_one_shot; aw-store/src/lib.rs, append_events): from the daemons together,
\* and from each one-shot run, an event enters it at most once, in whole batches
\* and in the order of consumption, in whatever order events come through, for
\* any number of daemons started, stopped and killed at any point, any runs
\* beside them and any writes that fail.
THEOREM DaemonImplementsEventHistory == Spec => ImplementsEventHistory
<1>1. Init => Abstract!Init
  BY DEF Init, Abstract!Init, Batch, NoCapture, Writer
<1>2. Init => HistoryInv
  <2> SUFFICES ASSUME Init
               PROVE  HistoryInv
    OBVIOUS
  <2>1. Written = {} /\ \A d \in Daemon : proc[d].pc = "off"
    BY IdleProcess DEF Init, Written, WrittenBy, ToSet
  <2>2. \A w : WrittenBy(w) = {}
    BY DEF Init, WrittenBy, ToSet
  <2>3. \A o \in OneShot : CaptureInv(o)
    BY <2>2, NoItems DEF Init, CaptureInv, NoCapture
  <2> QED BY <2>1, <2>2, <2>3 DEF HistoryInv
<1> QED BY <1>1, <1>2, HistoryNext, StepRefines, DaemonInvariant, PTL
           DEF Spec, ImplementsEventHistory, Abstract!Spec

-----------------------------------------------------------------------------
(* The graph is ahead of the history *)

\* The merge of a tick, and of the shutdown, covers the batch that follows it.
Covered(d) == proc[d].pc \in {"appending", "final append"} => ToSet(proc[d].pending) \subseteq nodes

\* So does that of a one-shot run.
CaptureCovered(o) == shot[o].pc = "appending" => ToSet(shot[o].received) \subseteq nodes

AllMerged == \A w \in Writer : WrittenBy(w) \subseteq nodes

GraphInv ==
  failures = 0 => /\ AllMerged
                  /\ \A d \in Daemon : Covered(d)
                  /\ \A o \in OneShot : CaptureCovered(o)

\* A merge that succeeds puts all that the batch holds into the graph.
LEMMA MergeCovers ==
  ASSUME DaemonInv, TrimmedIsMerged, NEW d \in Daemon,
         proc[d].pc \in {"merging", "final merge"}
  PROVE  ToSet(proc[d].pending) \subseteq nodes \cup proc[d].builder
<1>1. LocalInv(proc[d])
  BY WritesAreEvents
<1>2. proc[d].received \subseteq proc[d].builder \cup nodes
  BY <1>1 DEF TrimmedIsMerged, LocalInv, Storing
<1> QED BY <1>1, <1>2 DEF LocalInv

\* A daemon leaves the other writers, and what they have written, alone.
LEMMA DaemonTouches ==
  ASSUME DaemonInv, NEW d \in Daemon,
         Start(d) \/ Run(d) \/ Receive(d) \/ PipelineEnds(d)
           \/ Signal(d) \/ Crash(d) \/ NarrationDone(d) \/ Lose(d)
  PROVE  UNCHANGED shot /\ \A w : w # NoDaemon => WrittenBy(w)' = WrittenBy(w)
<1>1. /\ UNCHANGED shot
      /\ history' = history \/ history' = history \o Rows(NoDaemon, proc[d].pending)
  <2>1. CASE Start(d) \/ Receive(d)
    BY <2>1, StartEffect, ReceiveEffect
  <2>2. CASE OpenStore(d) \/ Stop(d) \/ PipelineEnds(d) \/ SkipTick(d) \/ Tick(d)
    BY <2>2, OpenStoreEffect, ShutdownEffect, TickEffect
  <2>3. CASE Merge(d) \/ AppendEvents(d) \/ FinishTick(d) \/ FinalMerge(d)
    BY <2>3, MergeEffect, AppendEffect, FinishEffect, FinalMergeEffect
  <2>4. CASE FinalAppend(d) \/ ClearPid(d) \/ Exit(d) \/ Crash(d)
    BY <2>4, FinalAppendEffect, ClearPidEffect, EndEffect
  <2>5. CASE Signal(d) \/ NarrationDone(d) \/ Lose(d)
    BY <2>5, OutsideEffect
  <2> QED BY <2>1, <2>2, <2>3, <2>4, <2>5 DEF Run
<1> QED BY <1>1, DaemonWrites

\* As long as no write failed, what a daemon wrote to the history is in the
\* graph of the store or about to be.
LEMMA GraphStep ==
  ASSUME DaemonInv, TrimmedIsMerged, GraphInv, NEW d \in Daemon,
         Start(d) \/ Run(d) \/ Receive(d) \/ PipelineEnds(d)
           \/ Signal(d) \/ Crash(d) \/ NarrationDone(d) \/ Lose(d),
         failures' = 0
  PROVE  /\ failures = 0 /\ Others(d) /\ nodes \subseteq nodes'
         /\ Written' \subseteq nodes' /\ Covered(d)'
<1>1. ~(failures' > failures) /\ (failures' = failures => failures = 0)
  <2>1. failures \in Nat
    BY DaemonAssumption DEF DaemonInv, TypeOK
  <2> QED BY <2>1
<1>0. failures = 0 => Written \subseteq nodes /\ Covered(d)
  BY BatchValues DEF GraphInv, AllMerged, Written
<1>2. CASE Start(d)
  <2>1. Others(d) /\ proc'[d].pc = "opening" /\ UNCHANGED <<nodes, failures, history>>
    BY <1>2, StartEffect
  <2>2. UNCHANGED Written
    BY <2>1, DaemonWrites
  <2> QED BY <1>0, <2>1, <2>2 DEF Covered
<1>3. CASE Receive(d)
  <2>1. Others(d) /\ proc'[d].pc = "select" /\ UNCHANGED <<nodes, failures, history>>
    BY <1>3, ReceiveEffect
  <2>2. UNCHANGED Written
    BY <2>1, DaemonWrites
  <2> QED BY <1>0, <2>1, <2>2 DEF Covered
<1>4. CASE Merge(d) \/ FinalMerge(d)
  <2>1. /\ Others(d) /\ proc[d].pc \in {"merging", "final merge"}
        /\ nodes' = nodes \cup proc[d].builder \/ failures' > failures
        /\ failures' = failures \/ failures' > failures
        /\ proc'[d].pending = proc[d].pending /\ UNCHANGED history
    BY <1>4, MergeEffect, FinalMergeEffect DEF Keeps, KeepsAll
  <2>2. failures = 0 /\ nodes' = nodes \cup proc[d].builder
    BY <1>1, <2>1
  <2>3. UNCHANGED Written
    BY <2>1, DaemonWrites
  <2> QED BY <1>0, <2>1, <2>2, <2>3, MergeCovers DEF Covered
<1>5. CASE AppendEvents(d) \/ FinalAppend(d)
  <2>1. /\ Others(d) /\ proc[d].pc \in {"appending", "final append"}
        /\ proc'[d].pc \in {"finishing", "clearing"}
        /\ history' = history \o Rows(NoDaemon, proc[d].pending) \/ failures' > failures
        /\ failures' = failures \/ failures' > failures
        /\ UNCHANGED nodes
    BY <1>5, AppendEffect, FinalAppendEffect
  <2>2. failures = 0 /\ history' = history \o Rows(NoDaemon, proc[d].pending)
    BY <1>1, <2>1
  <2>3. Written' = Written \cup ToSet(proc[d].pending)
    BY <2>2, DaemonWrites
  <2> QED BY <1>0, <2>1, <2>2, <2>3 DEF Covered
<1>6. CASE OpenStore(d) \/ Stop(d) \/ PipelineEnds(d) \/ SkipTick(d) \/ Tick(d)
             \/ FinishTick(d) \/ ClearPid(d) \/ Exit(d) \/ Crash(d)
  <2>1. /\ Others(d) /\ proc'[d].pc \notin {"appending", "final append"}
        /\ failures' = failures \/ failures' > failures
        /\ UNCHANGED <<nodes, history>>
    <3>1. CASE OpenStore(d) \/ FinishTick(d) \/ ClearPid(d)
      BY <3>1, OpenStoreEffect, FinishEffect, ClearPidEffect
    <3>2. CASE Stop(d) \/ PipelineEnds(d) \/ SkipTick(d) \/ Tick(d)
      BY <3>2, ShutdownEffect, TickEffect
    <3>3. CASE Exit(d) \/ Crash(d)
      BY <3>3, EndEffect, IdleProcess
    <3> QED BY <1>6, <3>1, <3>2, <3>3
  <2>2. failures = 0
    BY <1>1, <2>1
  <2>3. UNCHANGED Written
    BY <2>1, DaemonWrites
  <2> QED BY <1>0, <2>1, <2>2, <2>3 DEF Covered
<1>7. CASE Signal(d) \/ NarrationDone(d) \/ Lose(d)
  <2>1. /\ Others(d) /\ proc'[d].pc = proc[d].pc /\ proc'[d].pending = proc[d].pending
        /\ UNCHANGED <<nodes, history, failures>>
    BY <1>7, OutsideEffect DEF Keeps, KeepsAll
  <2>2. UNCHANGED Written
    BY <2>1, DaemonWrites
  <2> QED BY <1>0, <2>1, <2>2 DEF Covered
<1> QED BY <1>2, <1>3, <1>4, <1>5, <1>6, <1>7 DEF Run

\* As long as no write failed, no step of any daemon leaves an event of the
\* history out of the graph.
LEMMA GraphNext ==
  DaemonInv /\ TrimmedIsMerged /\ GraphInv /\ [Next]_vars => GraphInv'
<1> SUFFICES ASSUME DaemonInv, TrimmedIsMerged, GraphInv, [Next]_vars, failures' = 0
             PROVE  /\ AllMerged' /\ \A d \in Daemon : Covered(d)'
                    /\ \A o \in OneShot : CaptureCovered(o)'
  BY DEF GraphInv
<1>1. ASSUME NEW d \in Daemon, Start(d) \/ Run(d) \/ Receive(d) \/ PipelineEnds(d)
                               \/ Signal(d) \/ Crash(d) \/ NarrationDone(d) \/ Lose(d)
      PROVE  /\ AllMerged' /\ \A e \in Daemon : Covered(e)'
             /\ \A o \in OneShot : CaptureCovered(o)'
  <2>1. /\ failures = 0 /\ Others(d) /\ nodes \subseteq nodes'
        /\ Written' \subseteq nodes' /\ Covered(d)'
    BY <1>1, GraphStep
  <2>2. UNCHANGED shot /\ \A w : w # NoDaemon => WrittenBy(w)' = WrittenBy(w)
    BY <1>1, DaemonTouches
  <2>3. AllMerged'
    BY <2>1, <2>2 DEF GraphInv, AllMerged, Written, Writer
  <2>4. \A o \in OneShot : CaptureCovered(o)'
    BY <2>1, <2>2 DEF GraphInv, CaptureCovered
  <2> QED BY <2>1, <2>3, <2>4 DEF GraphInv, Others, Covered
<1>2. CASE UNCHANGED vars \/ Happen
  BY <1>2 DEF Happen, vars, storeVars, GraphInv, Covered, CaptureCovered, AllMerged,
              WrittenBy, Writer
<1>3. CASE PassTime
  <2>1. /\ UNCHANGED <<shot, nodes, history, failures>>
        /\ \A d \in Daemon : /\ proc[d] \in Process /\ CanWait(proc[d])
                             /\ proc'[d] = Waited(proc[d])
    BY <1>3 DEF PassTime, DaemonInv, TypeOK
  <2>2. \A d \in Daemon : proc'[d].pc = proc[d].pc /\ proc'[d].pending = proc[d].pending
    BY <2>1, WaitedProcess
  <2> QED BY <2>1, <2>2 DEF GraphInv, Covered, CaptureCovered, AllMerged, WrittenBy,
                           Writer
<1>4. ASSUME NEW o \in OneShot, CaptureStep(o)
      PROVE  /\ AllMerged' /\ \A d \in Daemon : Covered(d)'
             /\ \A x \in OneShot : CaptureCovered(x)'
  <2>1. /\ UNCHANGED <<proc, failures>> /\ failures = 0
        /\ \A x \in OneShot \ {o} : shot'[x] = shot[x]
        /\ nodes \subseteq nodes'
    <3>1. failures \in Nat
      BY DaemonAssumption DEF DaemonInv, TypeOK
    <3> QED BY <1>4, <3>1, CaptureEffect
  <2>2. /\ shot \in [OneShot -> CaptureProcess] /\ shot[o] \in CaptureProcess
        /\ shot[o].received \in Seq(Event) /\ o \in Writer
    BY DEF DaemonInv, TypeOK, CaptureProcess, Writer
  <2>3. /\ \A w : w # o => WrittenBy(w)' = WrittenBy(w)
        /\ UNCHANGED history => WrittenBy(o)' = WrittenBy(o)
        /\ history' = history \o Rows(o, shot[o].received)
             => WrittenBy(o)' = WrittenBy(o) \cup ToSet(shot[o].received)
    <3>1. history' = history \/ history' = history \o Rows(o, shot[o].received)
      BY <1>4 DEF CaptureStep, Capture, CaptureEvent, EndCapture, MergeCapture,
                  AppendCapture, CrashCapture
    <3> QED BY <2>2, <3>1, WrittenGrows
  <2>4. WrittenBy(o)' \subseteq nodes' /\ CaptureCovered(o)'
    <3>1. WrittenBy(o) \subseteq nodes /\ CaptureCovered(o)
      BY <2>1, <2>2 DEF GraphInv, AllMerged
    <3>2. CASE AppendCapture(o)
      <4>1. /\ shot[o].pc = "appending" /\ shot'[o].pc = "off"
            /\ history' = history \o Rows(o, shot[o].received) \/ UNCHANGED history
        BY <2>2, <3>2 DEF AppendCapture, NoCapture
      <4> QED BY <2>1, <2>3, <3>1, <4>1 DEF CaptureCovered
    <3>3. CASE MergeCapture(o)
      <4>1. /\ nodes' = nodes \cup ToSet(shot[o].received) \/ Fails
            /\ shot'[o].received = shot[o].received /\ UNCHANGED history
        BY <2>2, <3>3 DEF MergeCapture, CaptureProcess
      <4>2. ~Fails
        BY <2>1 DEF Fails
      <4> QED BY <2>1, <2>3, <3>1, <4>1, <4>2 DEF CaptureCovered
    <3>4. CASE Capture(o) \/ CaptureEvent(o) \/ EndCapture(o) \/ CrashCapture(o)
      <4>1. UNCHANGED history /\ shot'[o].pc # "appending"
        <5>1. CASE Capture(o)
          BY <2>2, <5>1 DEF Capture, NoCapture
        <5>4. CASE CrashCapture(o)
          BY <2>2, <5>4 DEF CrashCapture, NoCapture
        <5>2. CASE CaptureEvent(o)
          <6>1. PICK s : shot' = [shot EXCEPT ![o].received = s]
            BY <5>2, Zenon DEF CaptureEvent
          <6> QED BY <2>2, <5>2, <6>1 DEF CaptureEvent, CaptureProcess
        <5>3. CASE EndCapture(o)
          <6>1. \/ shot' = [shot EXCEPT ![o].pc = "merging"]
                \/ shot' = [shot EXCEPT ![o] = NoCapture]
            BY <5>3 DEF EndCapture
          <6>2. UNCHANGED history
            BY <5>3 DEF EndCapture
          <6> QED BY <2>2, <6>1, <6>2 DEF NoCapture, CaptureProcess
        <5> QED BY <3>4, <5>1, <5>2, <5>3, <5>4
      <4> QED BY <2>1, <2>3, <3>1, <4>1 DEF CaptureCovered
    <3> QED BY <1>4, <3>2, <3>3, <3>4 DEF CaptureStep
  <2>5. AllMerged'
    BY <2>1, <2>3, <2>4 DEF GraphInv, AllMerged, Writer
  <2>6. \A x \in OneShot : CaptureCovered(x)'
    BY <2>1, <2>4 DEF GraphInv, CaptureCovered
  <2> QED BY <2>1, <2>5, <2>6 DEF GraphInv, Covered
<1> QED BY <1>1, <1>2, <1>3, <1>4 DEF Next, CaptureStep

\* The order of the writes (aw-mvp/src/main.rs, the tick arm and the shutdown):
\* while no transaction fails, no event is in the table before its nodes are in
\* the graph, wherever a crash cuts a tick.
THEOREM HistoryNeverLeads == Spec => []GraphLeadsHistory
<1>1. Init => GraphInv
  <2> SUFFICES ASSUME Init
               PROVE  GraphInv
    OBVIOUS
  <2>1. \A d \in Daemon : proc[d].pc = "off"
    BY IdleProcess DEF Init
  <2>2. \A w : WrittenBy(w) = {}
    BY DEF Init, WrittenBy, ToSet
  <2> QED BY <2>1, <2>2 DEF Init, GraphInv, AllMerged, Covered, CaptureCovered, NoCapture
<1>2. GraphInv => GraphLeadsHistory
  BY DEF GraphInv, AllMerged, GraphLeadsHistory
<1> QED BY <1>1, <1>2, GraphNext, TrimmingLosesNothing, DaemonInvariant, PTL DEF Spec

-----------------------------------------------------------------------------
(* A clean stop *)

\* What a process has consumed and has yet to write.
Unwritten(d) == IF proc[d].pc \in {"clearing", "waiting"} THEN {} ELSE ToSet(proc[d].pending)
Unmerged(d) ==
  IF proc[d].pc \in {"final append", "clearing", "waiting"} THEN {} ELSE proc[d].builder

NoFault == failures = 0 /\ crashes = 0

Safe(e) ==
  /\ e \in Written \/ \E d \in Daemon : e \in Unwritten(d)
  /\ e \in nodes \/ \E d \in Daemon : e \in Unmerged(d)

\* Without a store, or with a clean stop in it, there is nothing to save.
AtRest(d) ==
  /\ daemonPid = CleanStop => proc[d].pc \in {"off", "opening", "waiting"}
  /\ proc[d].pc \notin {"off", "opening"} => proc[d].persists

SavedInv ==
  NoFault => (\A e \in captured : Safe(e)) /\ \A d \in Daemon : AtRest(d)

\* What a step does to what its process has yet to write.
SavedStep(d) ==
  /\ Others(d) /\ AtRest(d)'
  /\ daemonPid' = CleanStop => daemonPid = CleanStop \/ proc[d].pc # "off"
  /\ Written \subseteq Written' /\ nodes \subseteq nodes'
  /\ Unwritten(d) \subseteq Written' \cup Unwritten(d)'
  /\ Unmerged(d) \subseteq nodes' \cup Unmerged(d)'
  /\ \A e \in captured' \ captured : e \in Unwritten(d)' /\ e \in Unmerged(d)'

\* Without a fault each step keeps what was captured on its way to the store.
LEMMA SavedStepHolds ==
  ASSUME DaemonInv, SavedInv, NEW d \in Daemon,
         Start(d) \/ Run(d) \/ Receive(d) \/ PipelineEnds(d)
           \/ Signal(d) \/ Crash(d) \/ NarrationDone(d) \/ Lose(d),
         NoFault'
  PROVE  NoFault /\ SavedStep(d)
<1>1. /\ failures \in Nat /\ crashes \in Nat
      /\ proc[d] \in Process /\ LocalInv(proc[d])
  <2>1. failures \in Nat /\ crashes \in Nat
    BY DaemonAssumption DEF DaemonInv, TypeOK
  <2> QED BY <2>1, WritesAreEvents
<1>2. /\ ~(failures' > failures) /\ ~(crashes' > crashes)
      /\ failures' = failures => failures = 0
      /\ crashes' = crashes => crashes = 0
  BY <1>1 DEF NoFault
<1>3. NoFault => AtRest(d)
  BY DEF SavedInv
<1>4. CASE Start(d)
  <2>1. /\ Others(d) /\ proc[d].pc = "off" /\ proc'[d].pc = "opening"
        /\ UNCHANGED <<nodes, history, captured, daemonPid, crashes, failures>>
    BY <1>4, StartEffect
  <2>2. NoFault /\ UNCHANGED Written
    BY <1>2, <2>1, DaemonWrites DEF NoFault
  <2>3. Unwritten(d) = {} /\ Unmerged(d) = {}
    BY <1>1, <2>1 DEF LocalInv, Unwritten, Unmerged
  <2> QED BY <2>1, <2>2, <2>3 DEF SavedStep, AtRest
<1>5. CASE OpenStore(d)
  <2>1. /\ Others(d) /\ proc[d].pc = "opening" /\ proc'[d].pc = "select"
        /\ UNCHANGED <<nodes, history, captured, crashes, failures>>
        /\ proc'[d].persists /\ daemonPid' = d
    BY <1>2, <1>5, OpenStoreEffect
  <2>2. NoFault /\ UNCHANGED Written
    BY <1>2, <2>1, DaemonWrites DEF NoFault
  <2>3. Unwritten(d) = {} /\ Unmerged(d) = {}
    BY <1>1, <2>1 DEF LocalInv, Unwritten, Unmerged
  <2>4. daemonPid' # CleanStop
    BY <2>1, DaemonAssumption
  <2> QED BY <2>1, <2>2, <2>3, <2>4 DEF SavedStep, AtRest
<1>6. CASE Receive(d)
  <2>1. PICK e \in Event :
          /\ Others(d) /\ proc[d].pc = "select" /\ proc'[d].pc = "select"
          /\ proc'[d].persists = proc[d].persists
          /\ proc[d].persists
               => /\ proc'[d].builder = proc[d].builder \cup {e}
                  /\ ToSet(proc'[d].pending) = ToSet(proc[d].pending) \cup {e}
                  /\ captured' = captured \cup {e}
          /\ UNCHANGED <<nodes, history, daemonPid, crashes, failures>>
    BY <1>6, ReceiveEffect
  <2>2. NoFault /\ UNCHANGED Written
    BY <1>2, <2>1, DaemonWrites DEF NoFault
  <2>3. proc[d].persists /\ daemonPid # CleanStop
    BY <1>3, <2>1, <2>2 DEF AtRest
  <2> QED BY <2>1, <2>2, <2>3 DEF SavedStep, AtRest, Unwritten, Unmerged
<1>7. CASE Stop(d) \/ PipelineEnds(d)
  <2>1. /\ Others(d) /\ proc[d].pc = "select" /\ KeepsAll(d)
        /\ proc'[d].pc = IF proc[d].persists THEN "final merge" ELSE "waiting"
        /\ UNCHANGED <<nodes, history, captured, daemonPid, failures>>
    BY <1>7, ShutdownEffect
  <2>2. UNCHANGED crashes
    BY <1>1, <1>2, <1>7 DEF Stop, PipelineEnds
  <2>3. NoFault /\ UNCHANGED Written
    BY <1>2, <2>1, <2>2, DaemonWrites DEF NoFault
  <2>4. proc[d].persists /\ daemonPid # CleanStop
    BY <1>3, <2>1, <2>3 DEF AtRest
  <2> QED BY <2>1, <2>3, <2>4 DEF SavedStep, AtRest, Unwritten, Unmerged, KeepsAll, Keeps
<1>8. CASE SkipTick(d) \/ Tick(d) \/ FinishTick(d)
  <2>1. /\ Others(d) /\ KeepsAll(d) /\ proc[d].pc \in {"select", "finishing"}
        /\ proc'[d].pc \in {"select", "merging", "finishing"}
        /\ UNCHANGED <<nodes, history, captured, daemonPid, crashes, failures>>
    BY <1>2, <1>8, TickEffect, FinishEffect
  <2>2. NoFault /\ UNCHANGED Written
    BY <1>2, <2>1, DaemonWrites DEF NoFault
  <2>3. proc[d].persists /\ daemonPid # CleanStop
    BY <1>3, <2>1, <2>2 DEF AtRest
  <2> QED BY <2>1, <2>2, <2>3 DEF SavedStep, AtRest, Unwritten, Unmerged, KeepsAll, Keeps
<1>9. CASE Merge(d) \/ FinalMerge(d)
  <2>1. /\ Others(d) /\ proc[d].pc \in {"merging", "final merge"}
        /\ proc'[d].pc \in {"appending", "final append"}
        /\ proc'[d].pending = proc[d].pending /\ proc'[d].persists = proc[d].persists
        /\ nodes' = nodes \cup proc[d].builder
        /\ UNCHANGED <<history, captured, daemonPid, crashes, failures>>
    BY <1>2, <1>9, MergeEffect, FinalMergeEffect DEF KeepsAll, Keeps
  <2>2. NoFault /\ UNCHANGED Written
    BY <1>2, <2>1, DaemonWrites DEF NoFault
  <2>3. proc[d].persists /\ daemonPid # CleanStop
    BY <1>3, <2>1, <2>2 DEF AtRest
  <2> QED BY <2>1, <2>2, <2>3 DEF SavedStep, AtRest, Unwritten, Unmerged
<1>10. CASE AppendEvents(d) \/ FinalAppend(d)
  <2>1. /\ Others(d)
        /\ \/ proc[d].pc = "appending" /\ proc'[d].pc = "finishing"
           \/ proc[d].pc = "final append" /\ proc'[d].pc = "clearing"
        /\ proc'[d].builder = proc[d].builder /\ proc'[d].persists = proc[d].persists
        /\ history' = history \o Rows(NoDaemon, proc[d].pending)
        /\ UNCHANGED <<nodes, captured, daemonPid, crashes, failures>>
    BY <1>2, <1>10, AppendEffect, FinalAppendEffect DEF KeepsAll, Keeps
  <2>2. NoFault /\ Written' = Written \cup ToSet(proc[d].pending)
    BY <1>2, <2>1, DaemonWrites DEF NoFault
  <2>3. proc[d].persists /\ daemonPid # CleanStop
    BY <1>3, <2>1, <2>2 DEF AtRest
  <2> QED BY <2>1, <2>2, <2>3 DEF SavedStep, AtRest, Unwritten, Unmerged
<1>11. CASE ClearPid(d)
  <2>1. /\ Others(d) /\ proc[d].pc = "clearing" /\ proc'[d].pc = "waiting"
        /\ proc'[d].persists = proc[d].persists
        /\ UNCHANGED <<nodes, history, captured, crashes, failures>>
    BY <1>2, <1>11, ClearPidEffect DEF KeepsAll
  <2>2. NoFault /\ UNCHANGED Written
    BY <1>2, <2>1, DaemonWrites DEF NoFault
  <2>3. proc[d].persists
    BY <1>3, <2>1, <2>2 DEF AtRest
  <2> QED BY <2>1, <2>2, <2>3 DEF SavedStep, AtRest, Unwritten, Unmerged
<1>12. CASE Exit(d) \/ Crash(d)
  <2>1. /\ Others(d) /\ proc[d].pc = "waiting" /\ proc'[d].pc = "off"
        /\ UNCHANGED <<nodes, history, captured, daemonPid, crashes, failures>>
    BY <1>2, <1>12, EndEffect, IdleProcess
  <2>2. NoFault /\ UNCHANGED Written
    BY <1>2, <2>1, DaemonWrites DEF NoFault
  <2> QED BY <2>1, <2>2 DEF SavedStep, AtRest, Unwritten, Unmerged
<1>13. CASE Signal(d) \/ NarrationDone(d) \/ Lose(d)
  <2>1. /\ Others(d) /\ KeepsAll(d) /\ proc'[d].pc = proc[d].pc
        /\ UNCHANGED <<nodes, history, captured, daemonPid, crashes, failures>>
    BY <1>13, OutsideEffect
  <2>2. NoFault /\ UNCHANGED Written
    BY <1>2, <2>1, DaemonWrites DEF NoFault
  <2> QED BY <1>3, <2>1, <2>2 DEF SavedStep, AtRest, Unwritten, Unmerged, KeepsAll, Keeps
<1> QED BY <1>4, <1>5, <1>6, <1>7, <1>8, <1>9, <1>10, <1>11, <1>12, <1>13 DEF Run

\* Without a fault what was captured stays safe over every step.
LEMMA SavedNext == DaemonInv /\ SavedInv /\ [Next]_vars => SavedInv'
<1> SUFFICES ASSUME DaemonInv, SavedInv, [Next]_vars, NoFault'
             PROVE  (\A e \in captured' : Safe(e)') /\ \A d \in Daemon : AtRest(d)'
  BY DEF SavedInv
<1>1. ASSUME NEW d \in Daemon, Start(d) \/ Run(d) \/ Receive(d) \/ PipelineEnds(d)
                               \/ Signal(d) \/ Crash(d) \/ NarrationDone(d) \/ Lose(d)
      PROVE  (\A e \in captured' : Safe(e)') /\ \A e \in Daemon : AtRest(e)'
  <2>1. /\ SavedStep(d) /\ \A e \in captured : Safe(e)
        /\ \A e \in Daemon : AtRest(e)
    BY <1>1, SavedStepHolds DEF SavedInv
  <2>2. ASSUME NEW e \in Daemon \ {d}
        PROVE  /\ AtRest(e)'
               /\ Unwritten(e)' = Unwritten(e) /\ Unmerged(e)' = Unmerged(e)
    <3>1. /\ proc'[e] = proc[e]
          /\ daemonPid' = CleanStop => daemonPid = CleanStop \/ proc[d].pc # "off"
      BY <2>1 DEF SavedStep, Others
    <3>2. proc[d].pc # "off" => proc[e].pc = "off"
      BY Alone DEF DaemonInv
    <3>3. AtRest(e)'
      BY <2>1, <3>1, <3>2 DEF AtRest
    <3> QED BY <3>1, <3>3 DEF Unwritten, Unmerged
  <2>3. ASSUME NEW e \in captured'
        PROVE  Safe(e)'
    <3>1. CASE e \in captured
      <4>1. e \in Written' \/ \E x \in Daemon : e \in Unwritten(x)'
        BY <2>1, <2>2, <3>1 DEF SavedStep, Safe
      <4>2. e \in nodes' \/ \E x \in Daemon : e \in Unmerged(x)'
        BY <2>1, <2>2, <3>1 DEF SavedStep, Safe
      <4> QED BY <4>1, <4>2 DEF Safe
    <3>2. CASE e \notin captured
      BY <2>1, <3>2 DEF SavedStep, Safe
    <3> QED BY <3>1, <3>2
  <2>4. AtRest(d)'
    BY <2>1 DEF SavedStep
  <2>5. \A e \in Daemon : AtRest(e)'
    BY <2>2, <2>4
  <2> QED BY <2>3, <2>5
<1>2. CASE UNCHANGED vars \/ Happen
  BY <1>2 DEF Happen, vars, storeVars, SavedInv, NoFault, AtRest, Safe, Written,
              WrittenBy, Unwritten, Unmerged
<1>3. CASE PassTime
  <2>1. /\ UNCHANGED <<nodes, history, failures, crashes, daemonPid, captured>>
        /\ \A d \in Daemon : /\ proc[d] \in Process /\ CanWait(proc[d])
                             /\ proc'[d] = Waited(proc[d])
    BY <1>3 DEF PassTime, DaemonInv, TypeOK
  <2>2. \A d \in Daemon : /\ proc'[d].pc = proc[d].pc /\ proc'[d].pending = proc[d].pending
                          /\ proc'[d].builder = proc[d].builder
                          /\ proc'[d].persists = proc[d].persists
    BY <2>1, WaitedProcess
  <2>3. NoFault /\ UNCHANGED Written
    BY <2>1 DEF NoFault, Written, WrittenBy
  <2>4. \A d \in Daemon : Unwritten(d)' = Unwritten(d) /\ Unmerged(d)' = Unmerged(d)
    BY <2>2 DEF Unwritten, Unmerged
  <2>5. \A d \in Daemon : AtRest(d)'
    BY <2>1, <2>2, <2>3 DEF SavedInv, AtRest
  <2>6. ASSUME NEW e \in captured'
        PROVE  Safe(e)'
    <3>1. Safe(e)
      BY <2>1, <2>3 DEF SavedInv
    <3> QED BY <2>1, <2>3, <2>4, <3>1 DEF Safe
  <2> QED BY <2>5, <2>6
<1>4. ASSUME NEW o \in OneShot, CaptureStep(o)
      PROVE  (\A e \in captured' : Safe(e)') /\ \A d \in Daemon : AtRest(d)'
  <2>1. /\ UNCHANGED <<proc, daemonPid, captured>> /\ UNCHANGED Written
        /\ nodes \subseteq nodes' /\ NoFault
    <3>1. failures \in Nat /\ crashes \in Nat
      BY DaemonAssumption DEF DaemonInv, TypeOK
    <3> QED BY <1>4, <3>1, CaptureEffect DEF NoFault
  <2>2. (\A e \in captured : Safe(e)) /\ \A d \in Daemon : AtRest(d)
    BY <2>1 DEF SavedInv
  <2>3. \A d \in Daemon : /\ AtRest(d)' = AtRest(d) /\ Unwritten(d)' = Unwritten(d)
                          /\ Unmerged(d)' = Unmerged(d)
    BY <2>1 DEF AtRest, Unwritten, Unmerged
  <2> QED BY <2>1, <2>2, <2>3 DEF Safe
<1> QED BY <1>1, <1>2, <1>3, <1>4 DEF Next, CaptureStep

\* The shutdown (aw-mvp/src/main.rs, after the loop): when the store says that
\* the last daemon stopped cleanly, and nothing has failed, every event that any
\* daemon took off its queue is in the table and in the graph.
THEOREM CleanStopSavesAll == Spec => []CleanStopIsSaved
<1>1. Init => SavedInv
  BY IdleProcess, DaemonAssumption DEF Init, SavedInv, AtRest
<1>2. DaemonInv /\ SavedInv => CleanStopIsSaved
  <2> SUFFICES ASSUME DaemonInv, SavedInv, daemonPid = CleanStop, NoFault,
                      NEW e \in captured
               PROVE  e \in Written \cap nodes
    BY DEF CleanStopIsSaved, NoFault
  <2>1. ASSUME NEW d \in Daemon
        PROVE  Unwritten(d) = {} /\ Unmerged(d) = {}
    <3>1. proc[d].pc \in {"off", "opening", "waiting"} /\ LocalInv(proc[d])
      BY WritesAreEvents DEF SavedInv, AtRest
    <3> QED BY <3>1 DEF LocalInv, Unwritten, Unmerged
  <2> QED BY <2>1 DEF SavedInv, Safe
<1> QED BY <1>1, <1>2, SavedNext, DaemonInvariant, PTL DEF Spec

-----------------------------------------------------------------------------
(* The heartbeat *)

\* The age of the heartbeat and the time to the next tick add up to its period.
BeatIsFresh(d) ==
  proc[d].persists /\ proc[d].pc \in InLoop
    => /\ daemonPid = d
       /\ proc[d].pc \in InTick => proc[d].timer = TickEvery
       /\ ~proc[d].skipped
            => /\ beatAge \in Nat
               /\ beatAge + (IF proc[d].pc = "select" THEN proc[d].timer ELSE 0) = TickEvery

BeatInv == failures = 0 => \A d \in Daemon : BeatIsFresh(d)

\* As long as no write failed, a step of a daemon keeps the heartbeat as
\* fresh as its timer says.
LEMMA BeatStep ==
  ASSUME DaemonInv, BeatInv, NEW d \in Daemon,
         Start(d) \/ Run(d) \/ Receive(d) \/ PipelineEnds(d)
           \/ Signal(d) \/ Crash(d) \/ NarrationDone(d) \/ Lose(d),
         failures' = 0
  PROVE  /\ failures = 0 /\ Others(d) /\ BeatIsFresh(d)'
         /\ UNCHANGED <<daemonPid, beatAge>> \/ proc[d].pc # "off"
<1>1. /\ ~(failures' > failures) /\ (failures' = failures => failures = 0)
      /\ TickEvery \in Nat /\ proc[d] \in Process
  <2>1. failures \in Nat
    BY DaemonAssumption DEF DaemonInv, TypeOK
  <2> QED BY <2>1, WritesAreEvents, DaemonAssumption
<1>2. failures = 0 => BeatIsFresh(d)
  BY DEF BeatInv
<1>3. CASE Start(d) \/ Exit(d) \/ Crash(d)
  BY <1>1, <1>3, StartEffect, EndEffect, IdleProcess DEF BeatIsFresh, InLoop, InTick
<1>4. CASE OpenStore(d)
  <2>1. /\ Others(d) /\ proc[d].pc = "opening" /\ proc'[d].pc = "select"
        /\ UNCHANGED failures /\ daemonPid' = d /\ beatAge' = 0
        /\ proc'[d].timer = TickEvery
    BY <1>1, <1>4, OpenStoreEffect
  <2> QED BY <1>1, <2>1 DEF BeatIsFresh, InLoop, InTick
<1>5. CASE Stop(d) \/ PipelineEnds(d) \/ FinalMerge(d) \/ FinalAppend(d) \/ ClearPid(d)
  <2>1. /\ Others(d) /\ proc[d].pc # "off"
        /\ proc'[d].pc \in {"final merge", "final append", "clearing", "waiting"}
        /\ failures' = failures \/ failures' > failures
    BY <1>5, ShutdownEffect, FinalMergeEffect, FinalAppendEffect, ClearPidEffect
  <2> QED BY <1>1, <2>1 DEF BeatIsFresh, InLoop, InTick
<1>6. CASE Receive(d)
  <2>1. /\ Others(d) /\ proc[d].pc = "select" /\ proc'[d].pc = "select"
        /\ proc'[d].persists = proc[d].persists
        /\ proc'[d].timer = proc[d].timer /\ proc'[d].skipped = proc[d].skipped
        /\ UNCHANGED <<daemonPid, beatAge, failures>>
    BY <1>6, ReceiveEffect
  <2> QED BY <1>1, <1>2, <2>1 DEF BeatIsFresh, InLoop, InTick
<1>7. CASE SkipTick(d) \/ Tick(d)
  <2>1. /\ Others(d) /\ proc[d].pc = "select" /\ proc[d].timer = 0
        /\ proc'[d].persists = proc[d].persists
        /\ \/ proc'[d].pc = "select" /\ proc'[d].skipped
           \/ /\ proc'[d].skipped = proc[d].skipped /\ proc'[d].timer = TickEvery
              /\ proc'[d].pc \in {"merging", "finishing"}
        /\ UNCHANGED <<daemonPid, beatAge, failures>>
    BY <1>7, TickEffect DEF KeepsAll
  <2> QED BY <1>1, <1>2, <2>1 DEF BeatIsFresh, InLoop, InTick
<1>8. CASE Merge(d) \/ AppendEvents(d)
  <2>1. /\ Others(d) /\ proc[d].pc \in {"merging", "appending"}
        /\ proc'[d].pc \in {"appending", "finishing"}
        /\ proc'[d].persists = proc[d].persists
        /\ proc'[d].timer = proc[d].timer /\ proc'[d].skipped = proc[d].skipped
        /\ UNCHANGED <<daemonPid, beatAge, failures>>
    BY <1>1, <1>8, MergeEffect, AppendEffect
  <2> QED BY <1>1, <1>2, <2>1 DEF BeatIsFresh, InLoop, InTick
<1>9. CASE FinishTick(d)
  <2>1. /\ Others(d) /\ proc[d].pc = "finishing" /\ proc'[d].pc = "select"
        /\ proc'[d].persists = proc[d].persists
        /\ ~proc[d].persists \/ beatAge' = 0
        /\ proc'[d].timer = proc[d].timer
        /\ UNCHANGED <<daemonPid, failures>>
    BY <1>1, <1>9, FinishEffect DEF KeepsAll
  <2> QED BY <1>1, <1>2, <2>1 DEF BeatIsFresh, InLoop, InTick
<1>10. CASE Signal(d) \/ NarrationDone(d) \/ Lose(d)
  <2>1. /\ Others(d) /\ proc'[d].pc = proc[d].pc
        /\ proc'[d].persists = proc[d].persists
        /\ proc'[d].timer = proc[d].timer /\ proc'[d].skipped = proc[d].skipped
        /\ UNCHANGED <<daemonPid, beatAge, failures>>
    BY <1>10, OutsideEffect DEF KeepsAll
  <2> QED BY <1>1, <1>2, <2>1 DEF BeatIsFresh
<1> QED BY <1>3, <1>4, <1>5, <1>6, <1>7, <1>8, <1>9, <1>10 DEF Run

\* As long as no write failed, no step lets the heartbeat of a daemon grow
\* too old.
LEMMA BeatNext ==
  ASSUME TickEvery <= DeadAfter
  PROVE  DaemonInv /\ BeatInv /\ [Next]_vars => BeatInv'
<1> SUFFICES ASSUME DaemonInv, BeatInv, [Next]_vars, failures' = 0, NEW d \in Daemon
             PROVE  BeatIsFresh(d)'
  BY DEF BeatInv
<1>1. ASSUME NEW e \in Daemon, Start(e) \/ Run(e) \/ Receive(e) \/ PipelineEnds(e)
                               \/ Signal(e) \/ Crash(e) \/ NarrationDone(e) \/ Lose(e)
      PROVE  BeatIsFresh(d)'
  <2>1. /\ failures = 0 /\ Others(e) /\ BeatIsFresh(e)'
        /\ UNCHANGED <<daemonPid, beatAge>> \/ proc[e].pc # "off"
    BY <1>1, BeatStep
  <2>2. CASE d # e
    <3>1. proc'[d] = proc[d] /\ BeatIsFresh(d)
      BY <2>1, <2>2 DEF Others, BeatInv
    <3>2. proc[e].pc # "off" => proc[d].pc = "off"
      BY <2>2, Alone DEF DaemonInv
    <3> QED BY <2>1, <3>1, <3>2 DEF BeatIsFresh, InLoop, InTick
  <2> QED BY <2>1, <2>2
<1>2. CASE UNCHANGED vars \/ Happen
  BY <1>2 DEF Happen, vars, storeVars, BeatInv, BeatIsFresh
<1>3. CASE PassTime
  <2>1. /\ UNCHANGED <<daemonPid, failures>>
        /\ beatAge' = IF beatAge \in 0..DeadAfter THEN beatAge + 1 ELSE beatAge
        /\ proc[d] \in Process /\ CanWait(proc[d]) /\ proc'[d] = Waited(proc[d])
    BY <1>3 DEF PassTime, DaemonInv, TypeOK
  <2>2. /\ proc'[d].pc = proc[d].pc /\ proc'[d].persists = proc[d].persists
        /\ proc'[d].skipped = proc[d].skipped
        /\ proc[d].pc \in {"off", "select"}
        /\ proc[d].pc # "off" => proc[d].timer > 0 /\ proc'[d].timer = proc[d].timer - 1
    BY <2>1, WaitedProcess
  <2>3. TickEvery \in Nat /\ DeadAfter \in Nat /\ proc[d].timer \in 0..TickEvery
    BY <2>1, DaemonAssumption DEF Process
  <2>4. BeatIsFresh(d)
    BY <2>1 DEF BeatInv
  <2>5. ASSUME proc[d].persists, proc[d].pc = "select", ~proc[d].skipped
        PROVE  beatAge' \in Nat /\ beatAge' + proc'[d].timer = TickEvery
    <3>1. beatAge \in Nat /\ beatAge + proc[d].timer = TickEvery
      BY <2>4, <2>5 DEF BeatIsFresh, InLoop
    <3>2. proc[d].timer > 0 /\ proc'[d].timer = proc[d].timer - 1
      BY <2>2, <2>5
    <3>3. beatAge \in 0..DeadAfter
      BY <2>3, <3>1, <3>2
    <3> QED BY <2>1, <2>3, <3>1, <3>2, <3>3
  <2> QED BY <2>1, <2>2, <2>4, <2>5 DEF BeatIsFresh, InLoop, InTick
<1>4. ASSUME NEW o \in OneShot, CaptureStep(o)
      PROVE  BeatIsFresh(d)'
  <2>1. UNCHANGED <<proc, daemonPid, beatAge>> /\ failures = 0
    <3>1. failures \in Nat
      BY DaemonAssumption DEF DaemonInv, TypeOK
    <3> QED BY <1>4, <3>1, CaptureEffect
  <2> QED BY <2>1 DEF BeatInv, BeatIsFresh
<1> QED BY <1>1, <1>2, <1>3, <1>4 DEF Next, CaptureStep

\* The heartbeat as aw-query reads it (aw-query/src/main.rs, daemon_status): if
\* a tick is no longer than aw-query's limit, which the default of 60 s against
\* 120 s satisfies and a --tick above 120 does not, a daemon in its loop whose
\* writes succeed is shown as running, unless it has skipped a tick.
THEOREM HeartbeatShowsLife ==
  ASSUME TickEvery <= DeadAfter
  PROVE  Spec => []LooksAliveUnlessSkipped
<1>1. Init => BeatInv
  BY IdleProcess DEF Init, BeatInv, BeatIsFresh
<1>2. DaemonInv /\ BeatInv => LooksAliveUnlessSkipped
  <2> SUFFICES ASSUME DaemonInv, BeatInv, NEW d \in Daemon, proc[d].pc \in InLoop,
                      proc[d].persists, failures = 0, ~proc[d].skipped
               PROVE  Status = "running"
    BY DEF LooksAliveUnlessSkipped
  <2>1. proc[d].timer \in Nat /\ TickEvery \in Nat /\ DeadAfter \in Nat
    BY WritesAreEvents, DaemonAssumption DEF Process
  <2>2. /\ daemonPid = d /\ beatAge \in Nat
        /\ beatAge + (IF proc[d].pc = "select" THEN proc[d].timer ELSE 0) = TickEvery
    BY DEF BeatInv, BeatIsFresh
  <2>3. beatAge <= DeadAfter /\ beatAge # NoBeat
    BY <2>1, <2>2 DEF NoBeat
  <2>4. daemonPid # NeverRan /\ daemonPid # CleanStop
    BY <2>2, DaemonAssumption
  <2>5. ~(beatAge > DeadAfter)
    BY <2>1, <2>2, <2>3
  <2> QED BY <2>3, <2>4, <2>5 DEF Status
<1> QED BY <1>1, <1>2, BeatNext, DaemonInvariant, PTL DEF Spec
=============================================================================
