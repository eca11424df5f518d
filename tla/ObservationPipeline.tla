------------------------ MODULE ObservationPipeline ------------------------
(***************************************************************************)
(* The path of an observation from a Layer 1 adapter to the daemon:        *)
(*                                                                         *)
(*   adapters --Bus::emit--> bus --drain--> drainQueue --reconstructor-->  *)
(*   reconQueue --recv--> consumer                                         *)
(*                                                                         *)
(* aw-core/src/lib.rs (Bus) and aw-mvp/src/pipeline.rs (the two stages).   *)
(* Adapters, stages and consumer are tasks of a multi-threaded runtime, so *)
(* a step ends where the code touches shared state: a channel operation or *)
(* an atomic counter.  A payload is never looked at: an observation is its *)
(* source and its ordinal among the observations offered for that source.  *)
(***************************************************************************)
EXTENDS Naturals, Sequences, FiniteSets

CONSTANTS
  Adapter,         \* the tasks that emit; several may serve one source
  Source,          \* Layer 1's source categories
  SourceOf,        \* the category each adapter emits
  BusCapacity,     \* Bus::DEFAULT_CAPACITY (16384)
  DrainCapacity,   \* DRAIN_QUEUE_CAPACITY (4096)
  ReconCapacity,   \* RECON_QUEUE_CAPACITY (1024)
  MaxOffered       \* bound of the model: observations offered per source

ASSUME PipelineAssumption ==
  /\ IsFiniteSet(Adapter)
  /\ SourceOf \in [Adapter -> Source]
  /\ BusCapacity \in Nat \ {0}
  /\ DrainCapacity \in Nat \ {0}
  /\ ReconCapacity \in Nat \ {0}
  /\ MaxOffered \in Nat

Observation == [source : Source, n : 1..MaxOffered]

VARIABLES
  offered,         \* history: calls of emit so far, per source
  accepted,        \* history: calls whose try_send succeeded, over all sources
  emitPc,          \* each adapter inside emit: the counter it has yet to bump
  sent, dropped,   \* BusCounters, per source
  bus,             \* the bounded bus channel
  drainHand,       \* the observation the drain task has received, if any
  drainPc,         \* the DrainStats counter the drain task has yet to bump
  forwarded, drainDropped,   \* DrainStats
  drainQueue,      \* drain -> reconstructor channel
  reconHand,       \* the observation being reconstructed or waiting for send
  reconQueue,      \* reconstructor -> consumer channel
  consumed,        \* history: what the consumer received, in order
  running,         \* the parties that still hold their end of the channels
  discarded        \* history: observations lost with a receiver that went away

adapterVars == <<offered, accepted, emitPc, sent, dropped>>
drainVars == <<drainHand, drainPc, forwarded, drainDropped>>
vars == <<offered, accepted, emitPc, sent, dropped, bus, drainHand, drainPc,
          forwarded, drainDropped, drainQueue, reconHand, reconQueue, consumed,
          running, discarded>>

\* The adapters' clones of the Bus count as one party: the bus ends with the
\* last of them.
Party == {"adapters", "drain", "reconstructor", "consumer"}

\* Mutant: an unbounded channel.
AcceptsUnbounded(receiver, channel, capacity) == receiver \in running

\* Whether `try_send` succeeds: the receiver is alive and a slot is free.
Accepts(receiver, channel, capacity) ==
  receiver \in running /\ Len(channel) < capacity

Init ==
  /\ offered = [s \in Source |-> 0]
  /\ accepted = 0
  /\ emitPc = [a \in Adapter |-> "idle"]
  /\ sent = [s \in Source |-> 0]
  /\ dropped = [s \in Source |-> 0]
  /\ bus = <<>>
  /\ drainHand = <<>>
  /\ drainPc = "idle"
  /\ forwarded = 0
  /\ drainDropped = 0
  /\ drainQueue = <<>>
  /\ reconHand = <<>>
  /\ reconQueue = <<>>
  /\ consumed = <<>>
  /\ running = Party
  /\ discarded = 0

-----------------------------------------------------------------------------
(* Layer 1: Bus::emit, called by adapter a.  try_send and the counter are  *)
(* two steps of the same call: another task may run in between.            *)

EmitTrySend(a) ==
  LET s == SourceOf[a]
  IN /\ "adapters" \in running
     /\ emitPc[a] = "idle"
     /\ offered[s] < MaxOffered
     /\ offered' = [offered EXCEPT ![s] = @ + 1]
     /\ \/ /\ Accepts("drain", bus, BusCapacity)
           /\ bus' = Append(bus, [source |-> s, n |-> offered[s] + 1])
           /\ emitPc' = [emitPc EXCEPT ![a] = "sent"]
           /\ accepted' = accepted + 1
        \/ /\ ~Accepts("drain", bus, BusCapacity)
           /\ emitPc' = [emitPc EXCEPT ![a] = "dropped"]
           /\ UNCHANGED <<bus, accepted>>
     /\ UNCHANGED <<sent, dropped, drainVars, drainQueue, reconHand,
                    reconQueue, consumed, running, discarded>>

\* Mutant: only successes are counted.
EmitCountSentOnly(a) ==
  /\ emitPc[a] # "idle"
  /\ emitPc' = [emitPc EXCEPT ![a] = "idle"]
  /\ sent' = IF emitPc[a] = "sent" THEN [sent EXCEPT ![SourceOf[a]] = @ + 1] ELSE sent
  /\ UNCHANGED <<offered, accepted, dropped, bus, drainVars, drainQueue,
                 reconHand, reconQueue, consumed, running, discarded>>

EmitCount(a) ==
  /\ emitPc[a] # "idle"
  /\ emitPc' = [emitPc EXCEPT ![a] = "idle"]
  /\ \/ /\ emitPc[a] = "sent"
        /\ sent' = [sent EXCEPT ![SourceOf[a]] = @ + 1]
        /\ UNCHANGED dropped
     \/ /\ emitPc[a] = "dropped"
        /\ dropped' = [dropped EXCEPT ![SourceOf[a]] = @ + 1]
        /\ UNCHANGED sent
  /\ UNCHANGED <<offered, accepted, bus, drainVars, drainQueue, reconHand,
                 reconQueue, consumed, running, discarded>>

-----------------------------------------------------------------------------
(* Stage 1, spawn_drain: recv, try_send, count.  It never waits for space. *)

DrainRecv ==
  /\ "drain" \in running
  /\ drainHand = <<>> /\ drainPc = "idle"
  /\ bus # <<>>
  /\ drainHand' = <<Head(bus)>>
  /\ bus' = Tail(bus)
  /\ UNCHANGED <<adapterVars, drainPc, forwarded, drainDropped, drainQueue,
                 reconHand, reconQueue, consumed, running, discarded>>

\* Mutant: a full queue discards the observation without counting it.
DrainTrySendSilent ==
  /\ "drain" \in running
  /\ drainHand # <<>>
  /\ drainHand' = <<>>
  /\ \/ /\ Accepts("reconstructor", drainQueue, DrainCapacity)
        /\ drainQueue' = drainQueue \o drainHand
        /\ drainPc' = "forwarded"
     \/ /\ ~Accepts("reconstructor", drainQueue, DrainCapacity)
        /\ UNCHANGED <<drainPc, drainQueue>>
  /\ UNCHANGED <<adapterVars, bus, forwarded, drainDropped, reconHand,
                 reconQueue, consumed, running, discarded>>

\* Mutant: the drain awaits a free slot.
DrainSendAwait ==
  /\ "drain" \in running
  /\ drainHand # <<>>
  /\ Accepts("reconstructor", drainQueue, DrainCapacity)
  /\ drainHand' = <<>>
  /\ drainQueue' = drainQueue \o drainHand
  /\ drainPc' = "forwarded"
  /\ UNCHANGED <<adapterVars, bus, forwarded, drainDropped, reconHand,
                 reconQueue, consumed, running, discarded>>

DrainTrySend ==
  /\ "drain" \in running
  /\ drainHand # <<>>
  /\ drainHand' = <<>>
  /\ \/ /\ Accepts("reconstructor", drainQueue, DrainCapacity)
        /\ drainQueue' = drainQueue \o drainHand
        /\ drainPc' = "forwarded"
     \/ /\ ~Accepts("reconstructor", drainQueue, DrainCapacity)
        /\ drainPc' = "dropped"
        /\ UNCHANGED drainQueue
  /\ UNCHANGED <<adapterVars, bus, forwarded, drainDropped, reconHand,
                 reconQueue, consumed, running, discarded>>

DrainCount ==
  /\ "drain" \in running
  /\ drainPc # "idle"
  /\ drainPc' = "idle"
  /\ \/ /\ drainPc = "forwarded"
        /\ forwarded' = forwarded + 1
        /\ UNCHANGED drainDropped
     \/ /\ drainPc = "dropped"
        /\ drainDropped' = drainDropped + 1
        /\ UNCHANGED forwarded
  /\ UNCHANGED <<adapterVars, bus, drainHand, drainQueue, reconHand,
                 reconQueue, consumed, running, discarded>>

-----------------------------------------------------------------------------
(* Stage 2, spawn_reconstructor: recv and process, then send().await,      *)
(* which waits for a free slot and fails only when the consumer is gone.   *)

\* Mutant: the newest observation first.
ReconRecvNewest ==
  /\ "reconstructor" \in running
  /\ reconHand = <<>>
  /\ drainQueue # <<>>
  /\ reconHand' = <<drainQueue[Len(drainQueue)]>>
  /\ drainQueue' = SubSeq(drainQueue, 1, Len(drainQueue) - 1)
  /\ UNCHANGED <<adapterVars, bus, drainVars, reconQueue, consumed, running,
                 discarded>>

ReconRecv ==
  /\ "reconstructor" \in running
  /\ reconHand = <<>>
  /\ drainQueue # <<>>
  /\ reconHand' = <<Head(drainQueue)>>
  /\ drainQueue' = Tail(drainQueue)
  /\ UNCHANGED <<adapterVars, bus, drainVars, reconQueue, consumed, running,
                 discarded>>

\* Mutant: try_send in place of send().await.
ReconTrySend ==
  /\ "reconstructor" \in running
  /\ reconHand # <<>>
  /\ reconHand' = <<>>
  /\ reconQueue' = IF Accepts("consumer", reconQueue, ReconCapacity)
                   THEN reconQueue \o reconHand ELSE reconQueue
  /\ UNCHANGED <<adapterVars, bus, drainVars, drainQueue, consumed, running,
                 discarded>>

ReconSend ==
  /\ "reconstructor" \in running
  /\ reconHand # <<>>
  /\ Accepts("consumer", reconQueue, ReconCapacity)
  /\ reconQueue' = reconQueue \o reconHand
  /\ reconHand' = <<>>
  /\ UNCHANGED <<adapterVars, bus, drainVars, drainQueue, consumed, running,
                 discarded>>

\* send() returns an error and the loop breaks: the unit in hand is lost, and
\* so is what waits in the queue whose receiver the task owned.
ReconBreak ==
  /\ "reconstructor" \in running
  /\ reconHand # <<>>
  /\ "consumer" \notin running
  /\ running' = running \ {"reconstructor"}
  /\ discarded' = discarded + Len(reconHand) + Len(drainQueue)
  /\ reconHand' = <<>>
  /\ drainQueue' = <<>>
  /\ UNCHANGED <<adapterVars, bus, drainVars, reconQueue, consumed>>

-----------------------------------------------------------------------------
(* The daemon's select loop takes one unit per iteration.                  *)

Consume ==
  /\ "consumer" \in running
  /\ reconQueue # <<>>
  /\ consumed' = Append(consumed, Head(reconQueue))
  /\ reconQueue' = Tail(reconQueue)
  /\ UNCHANGED <<adapterVars, bus, drainVars, drainQueue, reconHand, running,
                 discarded>>

\* The consumer's receiver goes away; what it had not taken is gone with it.
ConsumerGone ==
  /\ "consumer" \in running
  /\ running' = running \ {"consumer"}
  /\ discarded' = discarded + Len(reconQueue)
  /\ reconQueue' = <<>>
  /\ UNCHANGED <<adapterVars, bus, drainVars, drainQueue, reconHand, consumed>>

\* Shutdown: `h.abort()` on each stage handle.  An aborted task ends where it
\* awaits: the drain in `recv`, the reconstructor in `recv` or `send`.  The
\* channel it received from is dropped with what it holds.
AbortDrain ==
  /\ "drain" \in running
  /\ drainHand = <<>> /\ drainPc = "idle"
  /\ running' = running \ {"drain"}
  /\ discarded' = discarded + Len(bus)
  /\ bus' = <<>>
  /\ UNCHANGED <<adapterVars, drainVars, drainQueue, reconHand, reconQueue,
                 consumed>>

AbortReconstructor ==
  /\ "reconstructor" \in running
  /\ running' = running \ {"reconstructor"}
  /\ discarded' = discarded + Len(reconHand) + Len(drainQueue)
  /\ reconHand' = <<>>
  /\ drainQueue' = <<>>
  /\ UNCHANGED <<adapterVars, bus, drainVars, reconQueue, consumed>>

-----------------------------------------------------------------------------
(* End of stream: a receiver whose senders are gone and whose channel is   *)
(* empty yields None, and the task that owns it finishes.                  *)

AdaptersGone ==
  /\ "adapters" \in running
  /\ \A a \in Adapter : emitPc[a] = "idle"
  /\ running' = running \ {"adapters"}
  /\ UNCHANGED <<adapterVars, bus, drainVars, drainQueue, reconHand,
                 reconQueue, consumed, discarded>>

DrainEnd ==
  /\ "drain" \in running /\ "adapters" \notin running
  /\ bus = <<>> /\ drainHand = <<>> /\ drainPc = "idle"
  /\ running' = running \ {"drain"}
  /\ UNCHANGED <<adapterVars, bus, drainVars, drainQueue, reconHand,
                 reconQueue, consumed, discarded>>

\* Mutant: the reconstructor leaves as soon as the drain has, queue or not.
ReconEndEarly ==
  /\ "reconstructor" \in running /\ "drain" \notin running
  /\ reconHand = <<>>
  /\ running' = running \ {"reconstructor"}
  /\ UNCHANGED <<adapterVars, bus, drainVars, drainQueue, reconHand,
                 reconQueue, consumed, discarded>>

ReconEnd ==
  /\ "reconstructor" \in running /\ "drain" \notin running
  /\ drainQueue = <<>> /\ reconHand = <<>>
  /\ running' = running \ {"reconstructor"}
  /\ UNCHANGED <<adapterVars, bus, drainVars, drainQueue, reconHand,
                 reconQueue, consumed, discarded>>

-----------------------------------------------------------------------------
DrainStep == DrainRecv \/ DrainTrySend \/ DrainCount \/ DrainEnd
ReconStep == ReconRecv \/ ReconSend \/ ReconBreak \/ ReconEnd

\* Every task is gone: nothing is left to happen.
AllGone == running = {} /\ UNCHANGED vars

Next ==
  \/ \E a \in Adapter : EmitTrySend(a) \/ EmitCount(a)
  \/ DrainRecv \/ DrainTrySend \/ DrainCount \/ DrainEnd
  \/ ReconRecv \/ ReconSend \/ ReconBreak \/ ReconEnd
  \/ Consume \/ ConsumerGone
  \/ AbortDrain \/ AbortReconstructor
  \/ AdaptersGone
  \/ AllGone

Spec == Init /\ [][Next]_vars

\* The runtime keeps scheduling the two stage tasks.  Nothing is assumed of
\* the adapters, and nothing of the consumer: a store write or a graph merge
\* may keep the daemon's loop away from its receiver for ever.
FairSpec == Spec /\ WF_vars(DrainStep) /\ WF_vars(ReconStep)

-----------------------------------------------------------------------------
(* Properties *)

\* Types, and every channel within its capacity.
TypeOK ==
  /\ offered \in [Source -> 0..MaxOffered]
  /\ accepted \in Nat
  /\ emitPc \in [Adapter -> {"idle", "sent", "dropped"}]
  /\ sent \in [Source -> Nat]
  /\ dropped \in [Source -> Nat]
  /\ bus \in Seq(Observation) /\ Len(bus) <= BusCapacity
  /\ drainHand \in Seq(Observation) /\ Len(drainHand) <= 1
  /\ drainPc \in {"idle", "forwarded", "dropped"}
  /\ forwarded \in Nat /\ drainDropped \in Nat
  /\ drainQueue \in Seq(Observation) /\ Len(drainQueue) <= DrainCapacity
  /\ reconHand \in Seq(Observation) /\ Len(reconHand) <= 1
  /\ reconQueue \in Seq(Observation) /\ Len(reconQueue) <= ReconCapacity
  /\ consumed \in Seq(Observation)
  /\ running \in SUBSET Party
  /\ discarded \in Nat

\* The per-source counters of `Bus::stats` account for every emit: sent and
\* dropped together lag the calls by exactly the adapters caught between their
\* try_send and their fetch_add, whatever the adapters that share the source.
InEmit(s) == {a \in Adapter : SourceOf[a] = s /\ emitPc[a] # "idle"}

BusAccounting ==
  \A s \in Source : offered[s] = sent[s] + dropped[s] + Cardinality(InEmit(s))

\* No observation the bus accepted is lost without being counted: it is in a
\* channel or a hand, was consumed, is counted by DrainStats.dropped, or went
\* down with a receiver at shutdown.  In particular reconstruction itself and
\* the wait for the consumer lose nothing (pipeline.rs, "Backpressure policy").
InChain ==
  Len(bus) + Len(drainHand) + Len(drainQueue) + Len(reconHand) + Len(reconQueue)

DrainUncounted(what) == IF drainPc = what THEN 1 ELSE 0

NoSilentLoss ==
  accepted = InChain + Len(consumed) + discarded
             + drainDropped + DrainUncounted("dropped")

\* While no receiver has been lost, what the drain stage has let through is
\* exactly what is downstream of it: back-pressure never turns into loss there.
ForwardedIsSafe ==
  running = Party =>
    forwarded + DrainUncounted("forwarded")
      = Len(drainQueue) + Len(reconHand) + Len(reconQueue) + Len(consumed)

\* The chain as one channel: consumer end first.
Line == reconQueue \o reconHand \o drainQueue \o drainHand \o bus

\* The chain implements the lossy FIFO: no stage reorders, duplicates or
\* invents an observation ("a single FIFO channel chain ... preserve
\* per-source observation order").
Fifo == INSTANCE LossyFifo WITH channel <- Line, delivered <- consumed

ImplementsLossyFifo == Fifo!Spec

\* The drain never blocks: whatever the consumer does or stops doing, the bus
\* is emptied of each observation it accepted.
BusAlwaysDrains ==
  \A o \in Observation :
    (\E i \in DOMAIN bus : bus[i] = o) ~> (\A i \in DOMAIN bus : bus[i] # o)

\* If the consumer keeps receiving, whatever reached the reconstructor's queue
\* gets to it, unless a task was stopped: the wait in send() always ends.
ConsumerKeepsReceiving == WF_vars(Consume)

ForwardedIsDelivered ==
  ConsumerKeepsReceiving =>
    \A o \in Observation :
      (\E i \in DOMAIN drainQueue : drainQueue[i] = o)
        ~> \/ \E i \in DOMAIN consumed : consumed[i] = o
           \/ discarded > 0
=============================================================================
