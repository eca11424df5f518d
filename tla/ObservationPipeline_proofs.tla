--------------------- MODULE ObservationPipeline_proofs ---------------------
(***************************************************************************)
(* Theorems about the observation pipeline (ObservationPipeline), for      *)
(* every set of adapters and sources and every capacity.                   *)
(***************************************************************************)
EXTENDS ObservationPipeline, FiniteSetTheorems, SequenceTheorems, TLAPS

\* The drain task is sequential: it has counted the last observation before
\* it takes the next.
DrainIsSequential == drainHand = <<>> \/ drainPc = "idle"

PipelineInv ==
  /\ TypeOK
  /\ DrainIsSequential
  /\ BusAccounting
  /\ NoSilentLoss
  /\ ForwardedIsSafe

-----------------------------------------------------------------------------
(* Sequences of observations *)

\* One observation, or none, in a task's hand.
LEMMA HandType ==
  /\ <<>> \in Seq(Observation) /\ Len(<<>>) = 0
  /\ \A o \in Observation : <<o>> \in Seq(Observation) /\ Len(<<o>>) = 1
OBVIOUS

\* Taking the head of a channel.
LEMMA TakeType ==
  ASSUME NEW s \in Seq(Observation), s # <<>>
  PROVE  /\ Head(s) \in Observation
         /\ Tail(s) \in Seq(Observation)
         /\ Len(Tail(s)) = Len(s) - 1
         /\ Len(s) \in Nat \ {0}
BY HeadTailProperties, EmptySeq

\* Putting what a hand holds into a channel.
LEMMA PutType ==
  ASSUME NEW s \in Seq(Observation), NEW t \in Seq(Observation)
  PROVE  s \o t \in Seq(Observation) /\ Len(s \o t) = Len(s) + Len(t)
BY ConcatProperties

\* A hand that is not empty holds one observation.
LEMMA HandIsFull ==
  ASSUME NEW h \in Seq(Observation), Len(h) <= 1, h # <<>>
  PROVE  Len(h) = 1
<1>1. Len(h) \in Nat \ {0}
  BY EmptySeq
<1> QED BY <1>1

\* Every channel and hand has a length, and the counters are numbers.
LEMMA Lengths ==
  ASSUME TypeOK
  PROVE  /\ Len(bus) \in Nat /\ Len(drainHand) \in Nat /\ Len(drainQueue) \in Nat
         /\ Len(reconHand) \in Nat /\ Len(reconQueue) \in Nat
         /\ Len(consumed) \in Nat
         /\ accepted \in Nat /\ discarded \in Nat
         /\ forwarded \in Nat /\ drainDropped \in Nat
BY LenProperties DEF TypeOK

-----------------------------------------------------------------------------
(* The adapters inside emit *)

\* The adapters inside emit are finitely many.
LEMMA InEmitFinite == \A s \in Source : IsFiniteSet(InEmit(s))
<1>1. ASSUME NEW s \in Source PROVE InEmit(s) \in SUBSET Adapter
  BY DEF InEmit
<1> QED BY <1>1, FS_Subset, PipelineAssumption

\* An adapter that enters emit is one more for its source, and for no other.
LEMMA EnterEmit ==
  ASSUME TypeOK, NEW a \in Adapter, emitPc[a] = "idle", NEW pc, pc # "idle",
         emitPc' = [emitPc EXCEPT ![a] = pc], NEW s \in Source
  PROVE  Cardinality(InEmit(s)') =
           IF SourceOf[a] = s THEN Cardinality(InEmit(s)) + 1
           ELSE Cardinality(InEmit(s))
<1>1. emitPc \in [Adapter -> {"idle", "sent", "dropped"}]
  BY DEF TypeOK
<1>2. CASE SourceOf[a] = s
  <2>1. InEmit(s)' = InEmit(s) \cup {a} /\ a \notin InEmit(s)
    BY <1>1, <1>2 DEF InEmit
  <2> QED BY <1>2, <2>1, InEmitFinite, FS_AddElement
<1>3. CASE SourceOf[a] # s
  <2>1. InEmit(s)' = InEmit(s)
    BY <1>1, <1>3 DEF InEmit
  <2> QED BY <1>3, <2>1
<1> QED BY <1>2, <1>3

\* An adapter that leaves emit is one less.
LEMMA LeaveEmit ==
  ASSUME TypeOK, NEW a \in Adapter, emitPc[a] # "idle",
         emitPc' = [emitPc EXCEPT ![a] = "idle"], NEW s \in Source
  PROVE  Cardinality(InEmit(s)') =
           IF SourceOf[a] = s THEN Cardinality(InEmit(s)) - 1
           ELSE Cardinality(InEmit(s))
<1>1. emitPc \in [Adapter -> {"idle", "sent", "dropped"}]
  BY DEF TypeOK
<1>2. CASE SourceOf[a] = s
  <2>1. InEmit(s)' = InEmit(s) \ {a} /\ a \in InEmit(s)
    BY <1>1, <1>2 DEF InEmit
  <2> QED BY <1>2, <2>1, InEmitFinite, FS_RemoveElement
<1>3. CASE SourceOf[a] # s
  <2>1. InEmit(s)' = InEmit(s)
    BY <1>1, <1>3 DEF InEmit
  <2> QED BY <1>3, <2>1
<1> QED BY <1>2, <1>3

-----------------------------------------------------------------------------
\* A pipeline that has just been assembled.
LEMMA PipelineInitInv == Init => PipelineInv
<1> SUFFICES ASSUME Init PROVE PipelineInv
  OBVIOUS
<1>1. TypeOK
  BY HandType, PipelineAssumption DEF Init, TypeOK, Party
<1>2. BusAccounting
  <2>1. ASSUME NEW s \in Source PROVE InEmit(s) = {}
    BY DEF Init, InEmit
  <2> QED BY <2>1, FS_EmptySet DEF Init, BusAccounting
<1>3. NoSilentLoss /\ ForwardedIsSafe
  BY HandType DEF Init, NoSilentLoss, ForwardedIsSafe, InChain, DrainUncounted
<1> QED BY <1>1, <1>2, <1>3 DEF Init, PipelineInv, DrainIsSequential

\* emit, first half.
LEMMA EmitTrySendInv ==
  ASSUME PipelineInv, NEW a \in Adapter, EmitTrySend(a)
  PROVE  PipelineInv'
<1> DEFINE s == SourceOf[a]
           o == [source |-> s, n |-> offered[s] + 1]
<1>1. /\ TypeOK
      /\ s \in Source /\ offered[s] \in 0..MaxOffered /\ MaxOffered \in Nat
      /\ offered[s] < MaxOffered
      /\ bus \in Seq(Observation) /\ Len(bus) \in Nat
  BY PipelineAssumption, LenProperties DEF PipelineInv, TypeOK, EmitTrySend
<1>2. o \in Observation
  BY <1>1 DEF Observation
<1>3. /\ offered' = [offered EXCEPT ![s] = @ + 1]
      /\ emitPc[a] = "idle"
      /\ UNCHANGED <<sent, dropped, drainVars, drainQueue, reconHand,
                     reconQueue, consumed, running, discarded>>
  BY DEF EmitTrySend
<1>4. \/ /\ bus' = Append(bus, o) /\ Len(bus) < BusCapacity
         /\ emitPc' = [emitPc EXCEPT ![a] = "sent"]
         /\ accepted' = accepted + 1
      \/ /\ bus' = bus /\ accepted' = accepted
         /\ emitPc' = [emitPc EXCEPT ![a] = "dropped"]
  BY DEF EmitTrySend, Accepts
<1>5. /\ bus' \in Seq(Observation) /\ Len(bus') <= BusCapacity
      /\ Len(bus') - Len(bus) = accepted' - accepted
      /\ accepted' \in Nat
  <2>1. CASE bus' = Append(bus, o) /\ Len(bus) < BusCapacity /\ accepted' = accepted + 1
    BY <1>1, <1>2, <2>1, AppendProperties, PipelineAssumption DEF TypeOK
  <2>2. CASE bus' = bus /\ accepted' = accepted
    BY <1>1, <2>2 DEF TypeOK
  <2> QED BY <1>4, <2>1, <2>2
<1>6. TypeOK'
  <2>1. offered' \in [Source -> 0..MaxOffered]
    BY <1>1, <1>3 DEF TypeOK
  <2>2. emitPc' \in [Adapter -> {"idle", "sent", "dropped"}]
    BY <1>1, <1>4 DEF TypeOK
  <2> QED BY <1>1, <1>3, <1>5, <2>1, <2>2 DEF TypeOK, drainVars
<1>7. BusAccounting'
  <2> SUFFICES ASSUME NEW x \in Source
               PROVE  offered'[x] = sent'[x] + dropped'[x] + Cardinality(InEmit(x)')
    BY DEF BusAccounting
  <2>1. Cardinality(InEmit(x)') =
          IF SourceOf[a] = x THEN Cardinality(InEmit(x)) + 1
          ELSE Cardinality(InEmit(x))
    BY <1>1, <1>3, <1>4, EnterEmit
  <2>2. offered[x] = sent[x] + dropped[x] + Cardinality(InEmit(x))
    BY DEF PipelineInv, BusAccounting
  <2>3. /\ sent[x] \in Nat /\ dropped[x] \in Nat /\ Cardinality(InEmit(x)) \in Nat
        /\ offered \in [Source -> 0..MaxOffered]
    BY <1>1, InEmitFinite, FS_CardinalityType DEF TypeOK
  <2> QED BY <1>1, <1>3, <2>1, <2>2, <2>3
<1>8. NoSilentLoss'
  <2>1. Len(bus') \in Nat
    BY <1>5, LenProperties
  <2>2. /\ drainHand' = drainHand /\ drainQueue' = drainQueue
        /\ reconHand' = reconHand /\ reconQueue' = reconQueue
        /\ consumed' = consumed /\ discarded' = discarded
        /\ drainDropped' = drainDropped
        /\ drainPc' = drainPc
    BY <1>3 DEF drainVars
  <2>4. /\ Len(bus) \in Nat /\ Len(drainHand) \in Nat /\ Len(drainQueue) \in Nat
        /\ Len(reconHand) \in Nat /\ Len(reconQueue) \in Nat
        /\ Len(consumed) \in Nat /\ discarded \in Nat /\ drainDropped \in Nat
        /\ accepted \in Nat
    BY <1>1, Lengths
  <2>5. Len(bus') - Len(bus) = accepted' - accepted /\ accepted' \in Nat
    BY <1>5
  <2>6. NoSilentLoss
    BY DEF PipelineInv
  <2> HIDE DEF s, o
  <2> QED BY <2>1, <2>2, <2>4, <2>5, <2>6
          DEF NoSilentLoss, InChain, DrainUncounted
<1>9. ForwardedIsSafe' /\ DrainIsSequential'
  BY <1>3 DEF PipelineInv, ForwardedIsSafe, DrainUncounted, DrainIsSequential,
              drainVars
<1> QED BY <1>6, <1>7, <1>8, <1>9 DEF PipelineInv

\* emit, second half.
LEMMA EmitCountInv ==
  ASSUME PipelineInv, NEW a \in Adapter, EmitCount(a)
  PROVE  PipelineInv'
<1> DEFINE s == SourceOf[a]
<1>1. TypeOK /\ s \in Source
  BY PipelineAssumption DEF PipelineInv
<1>2. /\ emitPc[a] # "idle" /\ emitPc' = [emitPc EXCEPT ![a] = "idle"]
      /\ UNCHANGED <<offered, accepted, bus, drainVars, drainQueue, reconHand,
                     reconQueue, consumed, running, discarded>>
      /\ \/ sent' = [sent EXCEPT ![s] = @ + 1] /\ dropped' = dropped
         \/ dropped' = [dropped EXCEPT ![s] = @ + 1] /\ sent' = sent
  BY DEF EmitCount
<1>3. TypeOK'
  <2>1. emitPc' \in [Adapter -> {"idle", "sent", "dropped"}]
    BY <1>1, <1>2 DEF TypeOK
  <2>2. sent \in [Source -> Nat] /\ dropped \in [Source -> Nat]
    BY <1>1 DEF TypeOK
  <2>3. sent' \in [Source -> Nat] /\ dropped' \in [Source -> Nat]
    <3> HIDE DEF s
    <3> QED BY <1>1, <1>2, <2>2
  <2> QED BY <1>1, <1>2, <2>1, <2>3 DEF TypeOK, drainVars
<1>4. BusAccounting'
  <2> SUFFICES ASSUME NEW x \in Source
               PROVE  offered'[x] = sent'[x] + dropped'[x] + Cardinality(InEmit(x)')
    BY DEF BusAccounting
  <2>1. Cardinality(InEmit(x)') =
          IF SourceOf[a] = x THEN Cardinality(InEmit(x)) - 1
          ELSE Cardinality(InEmit(x))
    BY <1>1, <1>2, LeaveEmit
  <2>2. offered[x] = sent[x] + dropped[x] + Cardinality(InEmit(x))
    BY DEF PipelineInv, BusAccounting
  <2>3. /\ sent \in [Source -> Nat] /\ dropped \in [Source -> Nat]
        /\ Cardinality(InEmit(x)) \in Nat
    BY <1>1, InEmitFinite, FS_CardinalityType DEF TypeOK
  <2>4. sent'[x] + dropped'[x] = sent[x] + dropped[x] + (IF s = x THEN 1 ELSE 0)
    BY <1>1, <1>2, <2>3
  <2>5. sent'[x] \in Nat /\ dropped'[x] \in Nat /\ sent[x] \in Nat /\ dropped[x] \in Nat
    BY <1>3, <2>3 DEF TypeOK
  <2> QED BY <1>2, <2>1, <2>2, <2>3, <2>4, <2>5
<1>5. NoSilentLoss' /\ ForwardedIsSafe' /\ DrainIsSequential'
  BY <1>2 DEF PipelineInv, NoSilentLoss, ForwardedIsSafe, InChain,
              DrainUncounted, DrainIsSequential, drainVars
<1> QED BY <1>3, <1>4, <1>5 DEF PipelineInv

-----------------------------------------------------------------------------
(* The stages.  Past emit, a step leaves the adapters' variables alone and  *)
(* only moves, counts or discards what is in the chain.                     *)

\* A step outside emit keeps the bus's accounts.
LEMMA OutsideEmit ==
  ASSUME BusAccounting, UNCHANGED adapterVars
  PROVE  BusAccounting' /\ accepted' = accepted
BY DEF BusAccounting, InEmit, adapterVars

\* DrainRecv, DrainTrySend, DrainCount.
LEMMA DrainInv ==
  ASSUME PipelineInv, DrainRecv \/ DrainTrySend \/ DrainCount
  PROVE  PipelineInv'
<1>1. TypeOK /\ UNCHANGED adapterVars /\ BusAccounting'
  BY OutsideEmit DEF PipelineInv, DrainRecv, DrainTrySend, DrainCount
<1>2. NoSilentLoss /\ ForwardedIsSafe /\ DrainIsSequential
  BY DEF PipelineInv
<1>3. CASE DrainRecv
  <2>1. /\ drainHand = <<>> /\ drainPc = "idle"
        /\ drainHand' = <<Head(bus)>> /\ bus' = Tail(bus)
        /\ UNCHANGED <<adapterVars, drainPc, forwarded, drainDropped, drainQueue,
                       reconHand, reconQueue, consumed, running, discarded>>
        /\ bus # <<>>
    BY <1>3 DEF DrainRecv
  <2>2. /\ bus' \in Seq(Observation) /\ Len(bus') = Len(bus) - 1
        /\ drainHand' \in Seq(Observation) /\ Len(drainHand') = 1
        /\ Len(drainHand) = 0
    BY <1>1, <2>1, TakeType, HandType DEF TypeOK
  <2>3. TypeOK'
    BY <1>1, <2>1, <2>2, Lengths, PipelineAssumption DEF TypeOK, adapterVars
  <2>4. NoSilentLoss'
    <3>1. Len(bus) \in Nat
      BY <1>1, Lengths
    <3>2. Len(bus') + Len(drainHand') = Len(bus) + Len(drainHand)
      BY <2>2, <3>1
    <3> QED BY <1>1, <1>2, <2>1, <2>2, <3>1, <3>2, Lengths
            DEF NoSilentLoss, InChain, DrainUncounted, adapterVars
  <2>5. ForwardedIsSafe' /\ DrainIsSequential'
    BY <1>2, <2>1 DEF ForwardedIsSafe, DrainUncounted, DrainIsSequential
  <2> QED BY <1>1, <2>3, <2>4, <2>5 DEF PipelineInv
<1>4. CASE DrainTrySend
  <2>1. /\ drainHand # <<>> /\ drainPc = "idle" /\ drainHand' = <<>>
        /\ UNCHANGED <<adapterVars, bus, forwarded, drainDropped, reconHand,
                       reconQueue, consumed, running, discarded>>
    BY <1>2, <1>4 DEF DrainTrySend, DrainIsSequential
  <2>2. /\ Len(drainHand) = 1 /\ drainHand \in Seq(Observation)
        /\ Len(drainHand') = 0 /\ drainHand' \in Seq(Observation)
    BY <1>1, <2>1, HandIsFull, HandType DEF TypeOK
  <2>3. CASE /\ Len(drainQueue) < DrainCapacity
             /\ drainQueue' = drainQueue \o drainHand
             /\ drainPc' = "forwarded"
    <3>1. /\ drainQueue' \in Seq(Observation)
          /\ Len(drainQueue') = Len(drainQueue) + 1
      <4>1. drainQueue \in Seq(Observation)
        BY <1>1 DEF TypeOK
      <4>2. /\ drainQueue \o drainHand \in Seq(Observation)
            /\ Len(drainQueue \o drainHand) = Len(drainQueue) + Len(drainHand)
        BY <2>2, <4>1, PutType
      <4> QED BY <2>2, <2>3, <4>2
    <3>2. Len(drainQueue') <= DrainCapacity
      BY <1>1, <2>3, <3>1, Lengths, PipelineAssumption
    <3>3. TypeOK'
      BY <1>1, <2>1, <2>2, <2>3, <3>1, <3>2 DEF TypeOK, adapterVars
    <3>4. NoSilentLoss'
      BY <1>1, <1>2, <2>1, <2>2, <2>3, <3>1, Lengths
         DEF NoSilentLoss, InChain, DrainUncounted, adapterVars
    <3>5. ForwardedIsSafe'
      BY <1>1, <1>2, <2>1, <2>3, <3>1, Lengths DEF ForwardedIsSafe, DrainUncounted
    <3> QED BY <1>1, <2>1, <3>3, <3>4, <3>5 DEF PipelineInv, DrainIsSequential
  <2>4. CASE drainQueue' = drainQueue /\ drainPc' = "dropped"
    <3>1. TypeOK'
      BY <1>1, <2>1, <2>2, <2>4 DEF TypeOK, adapterVars
    <3>2. NoSilentLoss'
      BY <1>1, <1>2, <2>1, <2>2, <2>4, Lengths
         DEF NoSilentLoss, InChain, DrainUncounted, adapterVars
    <3>3. ForwardedIsSafe'
      BY <1>2, <2>1, <2>4 DEF ForwardedIsSafe, DrainUncounted
    <3> QED BY <1>1, <2>1, <3>1, <3>2, <3>3 DEF PipelineInv, DrainIsSequential
  <2> QED BY <1>4, <2>3, <2>4 DEF DrainTrySend, Accepts
<1>5. CASE DrainCount
  <2>1. /\ drainPc # "idle" /\ drainPc' = "idle"
        /\ UNCHANGED <<adapterVars, bus, drainHand, drainQueue, reconHand,
                       reconQueue, consumed, running, discarded>>
        /\ \/ /\ drainPc = "forwarded" /\ forwarded' = forwarded + 1
              /\ drainDropped' = drainDropped
           \/ /\ drainPc = "dropped" /\ drainDropped' = drainDropped + 1
              /\ forwarded' = forwarded
    BY <1>5 DEF DrainCount
  <2>2. TypeOK'
    BY <1>1, <2>1 DEF TypeOK, adapterVars
  <2>3. NoSilentLoss'
    BY <1>1, <1>2, <2>1, Lengths
       DEF NoSilentLoss, InChain, DrainUncounted, adapterVars
  <2>4. ForwardedIsSafe'
    BY <1>1, <1>2, <2>1, Lengths DEF ForwardedIsSafe, DrainUncounted
  <2> QED BY <1>1, <2>1, <2>2, <2>3, <2>4 DEF PipelineInv, DrainIsSequential
<1> QED BY <1>3, <1>4, <1>5

\* ReconRecv, ReconSend, Consume.
LEMMA ForwardInv ==
  ASSUME PipelineInv, ReconRecv \/ ReconSend \/ Consume
  PROVE  PipelineInv'
<1>1. /\ TypeOK /\ UNCHANGED adapterVars /\ BusAccounting'
      /\ UNCHANGED <<bus, drainVars, running, discarded>>
  BY OutsideEmit DEF PipelineInv, ReconRecv, ReconSend, Consume
<1>2. NoSilentLoss /\ ForwardedIsSafe /\ DrainIsSequential
  BY DEF PipelineInv
<1>3. /\ TypeOK'
      /\ Len(drainQueue') + Len(reconHand') + Len(reconQueue') + Len(consumed')
           = Len(drainQueue) + Len(reconHand) + Len(reconQueue) + Len(consumed)
  <2>1. CASE ReconRecv
    <3>1. /\ reconHand = <<>> /\ drainQueue # <<>>
          /\ reconHand' = <<Head(drainQueue)>> /\ drainQueue' = Tail(drainQueue)
          /\ UNCHANGED <<adapterVars, bus, drainVars, reconQueue, consumed,
                         running, discarded>>
      BY <2>1 DEF ReconRecv
    <3>2. /\ drainQueue' \in Seq(Observation)
          /\ Len(drainQueue') = Len(drainQueue) - 1
          /\ reconHand' \in Seq(Observation) /\ Len(reconHand') = 1
          /\ Len(reconHand) = 0
      BY <1>1, <3>1, TakeType, HandType DEF TypeOK
    <3>3. TypeOK'
      BY <1>1, <3>1, <3>2, Lengths, PipelineAssumption
         DEF TypeOK, adapterVars, drainVars
    <3> QED BY <1>1, <3>1, <3>2, <3>3, Lengths
  <2>2. CASE ReconSend
    <3>1. /\ reconHand # <<>> /\ Len(reconQueue) < ReconCapacity
          /\ reconQueue' = reconQueue \o reconHand /\ reconHand' = <<>>
          /\ UNCHANGED <<adapterVars, bus, drainVars, drainQueue, consumed,
                         running, discarded>>
      BY <2>2 DEF ReconSend, Accepts
    <3>2. /\ Len(reconHand) = 1 /\ Len(reconHand') = 0
          /\ reconHand' \in Seq(Observation)
      BY <1>1, <3>1, HandIsFull, HandType DEF TypeOK
    <3>3. /\ reconQueue' \in Seq(Observation)
          /\ Len(reconQueue') = Len(reconQueue) + 1
      <4>1. reconQueue \in Seq(Observation) /\ reconHand \in Seq(Observation)
        BY <1>1 DEF TypeOK
      <4>2. /\ reconQueue \o reconHand \in Seq(Observation)
            /\ Len(reconQueue \o reconHand) = Len(reconQueue) + Len(reconHand)
        BY <4>1, PutType
      <4> QED BY <3>1, <3>2, <4>2
    <3>4. Len(reconQueue') <= ReconCapacity
      BY <1>1, <3>1, <3>3, Lengths, PipelineAssumption
    <3>5. TypeOK'
      BY <1>1, <3>1, <3>2, <3>3, <3>4 DEF TypeOK, adapterVars, drainVars
    <3> QED BY <1>1, <3>1, <3>2, <3>3, <3>5, Lengths
  <2>3. CASE Consume
    <3>1. /\ reconQueue # <<>>
          /\ consumed' = Append(consumed, Head(reconQueue))
          /\ reconQueue' = Tail(reconQueue)
          /\ UNCHANGED <<adapterVars, bus, drainVars, drainQueue, reconHand,
                         running, discarded>>
      BY <2>3 DEF Consume
    <3>2. /\ Head(reconQueue) \in Observation
          /\ reconQueue' \in Seq(Observation)
          /\ Len(reconQueue') = Len(reconQueue) - 1
      BY <1>1, <3>1, TakeType DEF TypeOK
    <3>3. consumed' \in Seq(Observation) /\ Len(consumed') = Len(consumed) + 1
      BY <1>1, <3>1, <3>2, AppendProperties DEF TypeOK
    <3>4. TypeOK'
      BY <1>1, <3>1, <3>2, <3>3, Lengths, PipelineAssumption, SMTT(30)
         DEF TypeOK, adapterVars, drainVars
    <3> QED BY <1>1, <3>1, <3>2, <3>3, <3>4, Lengths
  <2> QED BY <2>1, <2>2, <2>3
<1>4. TypeOK'
  BY <1>3
<1>5. /\ Len(drainQueue') \in Nat /\ Len(reconHand') \in Nat
      /\ Len(reconQueue') \in Nat /\ Len(consumed') \in Nat
  BY <1>4, LenProperties DEF TypeOK
<1>6. NoSilentLoss'
  <2>1. InChain + Len(consumed) = InChain' + Len(consumed')
    <3>1. bus' = bus /\ drainHand' = drainHand
      BY <1>1 DEF drainVars
    <3>2. /\ Len(bus) \in Nat /\ Len(drainHand) \in Nat
          /\ Len(drainQueue) \in Nat /\ Len(reconHand) \in Nat
          /\ Len(reconQueue) \in Nat /\ Len(consumed) \in Nat
      BY <1>1, Lengths
    <3>3. Len(drainQueue') + Len(reconHand') + Len(reconQueue') + Len(consumed')
            = Len(drainQueue) + Len(reconHand) + Len(reconQueue) + Len(consumed)
      BY <1>3
    <3> QED BY <1>5, <3>1, <3>2, <3>3 DEF InChain
  <2>2. InChain \in Nat /\ InChain' \in Nat
    BY <1>1, <1>5, Lengths DEF InChain, drainVars
  <2>3. /\ accepted' = accepted /\ discarded' = discarded
        /\ drainDropped' = drainDropped /\ drainPc' = drainPc
    BY <1>1 DEF adapterVars, drainVars
  <2> QED BY <1>1, <1>2, <1>5, <2>1, <2>2, <2>3, Lengths
          DEF NoSilentLoss, DrainUncounted
<1>7. ForwardedIsSafe' /\ DrainIsSequential'
  BY <1>1, <1>2, <1>3, <1>5, Lengths
     DEF ForwardedIsSafe, DrainUncounted, DrainIsSequential, drainVars
<1> QED BY <1>1, <1>4, <1>6, <1>7 DEF PipelineInv

\* ReconBreak, ConsumerGone, AbortDrain, AbortReconstructor: what goes down
\* with a receiver is accounted for.
LEMMA ReceiverGoneInv ==
  ASSUME PipelineInv,
         ReconBreak \/ ConsumerGone \/ AbortDrain \/ AbortReconstructor
  PROVE  PipelineInv'
<1>1. TypeOK /\ UNCHANGED adapterVars /\ BusAccounting' /\ UNCHANGED drainVars
  BY OutsideEmit
     DEF PipelineInv, ReconBreak, ConsumerGone, AbortDrain, AbortReconstructor
<1>2. NoSilentLoss /\ ForwardedIsSafe /\ DrainIsSequential
  BY DEF PipelineInv
<1>3. running' \in SUBSET Party /\ running' # Party
  BY <1>1
     DEF TypeOK, Party, ReconBreak, ConsumerGone, AbortDrain, AbortReconstructor
<1>4. CASE ReconBreak \/ AbortReconstructor
  <2>1. /\ discarded' = discarded + Len(reconHand) + Len(drainQueue)
        /\ reconHand' = <<>> /\ drainQueue' = <<>>
        /\ UNCHANGED <<bus, reconQueue, consumed>>
    BY <1>4 DEF ReconBreak, AbortReconstructor
  <2>2. /\ TypeOK'
        /\ discarded' - discarded = InChain - InChain'
    BY <1>1, <1>3, <2>1, HandType, Lengths, PipelineAssumption, SMTT(30)
       DEF TypeOK, adapterVars, drainVars, InChain
  <2>3. NoSilentLoss'
    BY <1>1, <1>2, <2>1, HandType, Lengths, SMTT(30)
       DEF NoSilentLoss, InChain, DrainUncounted, adapterVars, drainVars
  <2> QED BY <1>1, <1>2, <1>3, <2>2, <2>3
          DEF PipelineInv, ForwardedIsSafe, DrainIsSequential, drainVars
<1>5. CASE ConsumerGone
  <2>1. /\ discarded' = discarded + Len(reconQueue) /\ reconQueue' = <<>>
        /\ UNCHANGED <<bus, drainQueue, reconHand, consumed>>
    BY <1>5 DEF ConsumerGone
  <2>2. TypeOK'
    BY <1>1, <1>3, <2>1, HandType, Lengths, PipelineAssumption, SMTT(30)
       DEF TypeOK, adapterVars, drainVars
  <2>3. NoSilentLoss'
    BY <1>1, <1>2, <2>1, HandType, Lengths
       DEF NoSilentLoss, InChain, DrainUncounted, adapterVars, drainVars
  <2> QED BY <1>1, <1>2, <1>3, <2>2, <2>3
          DEF PipelineInv, ForwardedIsSafe, DrainIsSequential, drainVars
<1>6. CASE AbortDrain
  <2>1. /\ discarded' = discarded + Len(bus) /\ bus' = <<>>
        /\ UNCHANGED <<drainQueue, reconHand, reconQueue, consumed>>
    BY <1>6 DEF AbortDrain
  <2>2. TypeOK'
    BY <1>1, <1>3, <2>1, HandType, Lengths, PipelineAssumption, SMTT(30)
       DEF TypeOK, adapterVars, drainVars
  <2>3. NoSilentLoss'
    BY <1>1, <1>2, <2>1, HandType, Lengths
       DEF NoSilentLoss, InChain, DrainUncounted, adapterVars, drainVars
  <2> QED BY <1>1, <1>2, <1>3, <2>2, <2>3
          DEF PipelineInv, ForwardedIsSafe, DrainIsSequential, drainVars
<1> QED BY <1>4, <1>5, <1>6

\* AdaptersGone, DrainEnd, ReconEnd.
LEMMA EndOfStreamInv ==
  ASSUME PipelineInv, AdaptersGone \/ DrainEnd \/ ReconEnd
  PROVE  PipelineInv'
<1>1. /\ UNCHANGED <<adapterVars, bus, drainVars, drainQueue, reconHand,
                     reconQueue, consumed, discarded>>
      /\ running' \subseteq running /\ running' # Party
  BY DEF AdaptersGone, DrainEnd, ReconEnd, Party
<1>2. TypeOK' /\ BusAccounting'
  BY <1>1, OutsideEmit DEF PipelineInv, TypeOK, adapterVars, drainVars
<1>3. NoSilentLoss' /\ ForwardedIsSafe' /\ DrainIsSequential'
  BY <1>1 DEF PipelineInv, NoSilentLoss, InChain, DrainUncounted,
              ForwardedIsSafe, DrainIsSequential, adapterVars, drainVars
<1> QED BY <1>2, <1>3 DEF PipelineInv

\* Every step preserves the invariant.
LEMMA PipelineNextInv == PipelineInv /\ [Next]_vars => PipelineInv'
<1> SUFFICES ASSUME PipelineInv, [Next]_vars PROVE PipelineInv'
  OBVIOUS
<1>1. ASSUME NEW a \in Adapter, EmitTrySend(a) \/ EmitCount(a) PROVE PipelineInv'
  BY <1>1, EmitTrySendInv, EmitCountInv
<1>2. CASE DrainRecv \/ DrainTrySend \/ DrainCount
  BY <1>2, DrainInv
<1>3. CASE ReconRecv \/ ReconSend \/ Consume
  BY <1>3, ForwardInv
<1>4. CASE ReconBreak \/ ConsumerGone \/ AbortDrain \/ AbortReconstructor
  BY <1>4, ReceiverGoneInv
<1>5. CASE AdaptersGone \/ DrainEnd \/ ReconEnd
  BY <1>5, EndOfStreamInv
<1>6. CASE UNCHANGED vars
  BY <1>6 DEF vars, PipelineInv, TypeOK, DrainIsSequential, BusAccounting, InEmit,
              NoSilentLoss, InChain, DrainUncounted, ForwardedIsSafe
<1> QED BY <1>1, <1>2, <1>3, <1>4, <1>5, <1>6 DEF Next, AllGone

\* The pipeline's invariant.
THEOREM PipelineInvariant == Spec => []PipelineInv
BY PipelineInitInv, PipelineNextInv, PTL DEF Spec

\* Every channel stays within its capacity.
THEOREM PipelineTypeCorrect == Spec => []TypeOK
<1>1. PipelineInv => TypeOK
  BY DEF PipelineInv
<1> QED BY <1>1, PipelineInvariant, PTL

\* The bus's counters account for every emit.
THEOREM BusAccountsForEveryEmit == Spec => []BusAccounting
<1>1. PipelineInv => BusAccounting
  BY DEF PipelineInv
<1> QED BY <1>1, PipelineInvariant, PTL

\* Nothing the bus accepted is lost without being counted.
THEOREM NothingIsLostSilently == Spec => []NoSilentLoss
<1>1. PipelineInv => NoSilentLoss
  BY DEF PipelineInv
<1> QED BY <1>1, PipelineInvariant, PTL

\* Nothing is lost behind the drain stage while the tasks run.
THEOREM ForwardedIsAlwaysSafe == Spec => []ForwardedIsSafe
<1>1. PipelineInv => ForwardedIsSafe
  BY DEF PipelineInv
<1> QED BY <1>1, PipelineInvariant, PTL

-----------------------------------------------------------------------------
(* The refinement.  The pipeline implements the lossy FIFO channel, for     *)
(* every capacity: each of its steps accepts, delivers or loses             *)
(* observations, or goes unseen.                                            *)

Obs == Seq(Observation)

-----------------------------------------------------------------------------
(* Sequences of observations, continued *)

\* A channel is its head and the rest.
LEMMA HeadAndTail ==
  ASSUME NEW s \in Obs, s # <<>>
  PROVE  s = <<Head(s)>> \o Tail(s)
<1>1. /\ Head(s) \in Observation /\ Tail(s) \in Obs /\ Len(Tail(s)) = Len(s) - 1
      /\ \A i \in 1..Len(Tail(s)) : Tail(s)[i] = s[i + 1]
      /\ Len(s) \in Nat \ {0} /\ Head(s) = s[1]
  BY HeadTailProperties, EmptySeq DEF Obs
<1>2. <<Head(s)>> \in Obs /\ Len(<<Head(s)>>) = 1 /\ <<Head(s)>>[1] = Head(s)
  BY <1>1 DEF Obs
<1> DEFINE t == <<Head(s)>> \o Tail(s)
<1>3. /\ t \in Obs /\ Len(t) = Len(s)
      /\ \A i \in 1..Len(s) :
           t[i] = IF i <= 1 THEN <<Head(s)>>[i] ELSE Tail(s)[i - 1]
  <2>1. Len(<<Head(s)>>) + Len(Tail(s)) = Len(s)
    BY <1>1, <1>2
  <2> QED BY <1>1, <1>2, <2>1, ConcatProperties DEF Obs
<1>4. ASSUME NEW i \in 1..Len(s) PROVE t[i] = s[i]
  <2>1. CASE i = 1
    BY <1>1, <1>2, <1>3, <2>1
  <2>2. CASE i # 1
    <3>1. i - 1 \in 1..Len(Tail(s)) /\ ~(i <= 1) /\ (i - 1) + 1 = i
      BY <1>1, <2>2
    <3> QED BY <1>1, <1>3, <3>1
  <2> QED BY <2>1, <2>2
<1> QED BY <1>3, <1>4, SeqEqual DEF Obs

\* Taking the head of the first channel of a line takes the head of the line.
LEMMA TakeFirst ==
  ASSUME NEW s \in Obs, NEW t \in Obs, s # <<>>
  PROVE  /\ s \o t # <<>>
         /\ Head(s \o t) = Head(s)
         /\ Tail(s \o t) = Tail(s) \o t
<1>1. /\ Head(s) \in Observation /\ Tail(s) \in Obs
      /\ <<Head(s)>> \in Obs
  BY HeadTailProperties DEF Obs
<1>2. s \o t = <<Head(s)>> \o (Tail(s) \o t)
  BY <1>1, HeadAndTail, ConcatAssociative DEF Obs
<1>3. s \o t \in Obs /\ s \o t # <<>>
  BY ConcatProperties, ConcatEqualIffEmpty DEF Obs
<1>4. Head(s \o t) = Head(s)
  <2>1. Len(s) \in Nat \ {0} /\ Len(t) \in Nat /\ Head(s) = s[1]
    BY EmptySeq, LenProperties DEF Obs
  <2>2. (s \o t)[1] = s[1]
    BY <2>1, ConcatProperties DEF Obs
  <2>3. Head(s \o t) = (s \o t)[1]
    BY <1>3 DEF Obs
  <2> QED BY <2>1, <2>2, <2>3
<1>5. s \o t = <<Head(s)>> \o Tail(s \o t)
  BY <1>3, <1>4, HeadAndTail
<1>6. Tail(s \o t) \in Obs /\ Tail(s) \o t \in Obs
  BY <1>1, <1>3, HeadTailProperties, ConcatProperties DEF Obs
<1> QED BY <1>1, <1>2, <1>3, <1>4, <1>5, <1>6, ConcatSimplifications DEF Obs

\* Cutting the middle of three stretches leaves the outer two.
LEMMA CutMiddle ==
  ASSUME NEW a \in Obs, NEW b \in Obs, NEW c \in Obs
  PROVE  Fifo!Cut((a \o b) \o c, Len(a) + 1, Len(a) + Len(b) + 1) = a \o c
<1> DEFINE s == (a \o b) \o c
           m == Len(a)
           n == Len(b)
           k == Len(c)
<1>1. m \in Nat /\ n \in Nat /\ k \in Nat
  BY LenProperties DEF Obs
<1>2. /\ a \o b \in Obs /\ Len(a \o b) = m + n
      /\ \A i \in 1..(m + n) : (a \o b)[i] = IF i <= m THEN a[i] ELSE b[i - m]
  BY ConcatProperties DEF Obs
<1>3. /\ s \in Obs /\ Len(s) = m + n + k
      /\ \A i \in 1..(m + n + k) :
           s[i] = IF i <= m + n THEN (a \o b)[i] ELSE c[i - (m + n)]
  BY <1>2, ConcatProperties DEF Obs
<1> HIDE DEF s
<1>4. SubSeq(s, 1, m) = a
  <2>1. \A i \in 1..m : s[i] = a[i] /\ a[i] \in Observation
    BY <1>1, <1>2, <1>3, ElementOfSeq DEF Obs
  <2>2. /\ SubSeq(s, 1, m) \in Seq(Observation)
        /\ Len(SubSeq(s, 1, m)) = IF 1 <= m THEN m - 1 + 1 ELSE 0
        /\ \A i \in 1..(m - 1 + 1) : SubSeq(s, 1, m)[i] = s[1 + i - 1]
    BY <1>1, <2>1, SubSeqProperties
  <2>3. Len(SubSeq(s, 1, m)) = m
    BY <1>1, <2>2
  <2>4. \A i \in 1..m : SubSeq(s, 1, m)[i] = a[i]
    BY <1>1, <2>1, <2>2
  <2> HIDE DEF m
  <2> QED BY <2>2, <2>3, <2>4, SeqEqual DEF Obs, m
<1>5. SubSeq(s, m + n + 1, m + n + k) = c
  <2>1. \A i \in 1..k : s[m + n + i] = c[i] /\ c[i] \in Observation
    <3>1. ASSUME NEW i \in 1..k PROVE s[m + n + i] = c[i]
      <4>1. m + n + i \in 1..(m + n + k) /\ ~(m + n + i <= m + n)
            /\ (m + n + i) - (m + n) = i
        BY <1>1
      <4> QED BY <1>3, <4>1
    <3>2. \A i \in 1..k : c[i] \in Observation
      BY ElementOfSeq DEF Obs
    <3> QED BY <3>1, <3>2
  <2>2. \A i \in (m + n + 1)..(m + n + k) : s[i] \in Observation
    <3> TAKE i \in (m + n + 1)..(m + n + k)
    <3>1. i - (m + n) \in 1..k /\ m + n + (i - (m + n)) = i
      BY <1>1
    <3> QED BY <2>1, <3>1
  <2> DEFINE t == SubSeq(s, m + n + 1, m + n + k)
  <2>3. /\ t \in Seq(Observation)
        /\ Len(t) = IF m + n + 1 <= m + n + k THEN (m + n + k) - (m + n + 1) + 1
                    ELSE 0
        /\ \A i \in 1..((m + n + k) - (m + n + 1) + 1) :
             t[i] = s[(m + n + 1) + i - 1]
    BY <1>1, <2>2, SubSeqProperties
  <2> HIDE DEF t
  <2>4. Len(t) = k
    BY <1>1, <2>3
  <2>5. \A i \in 1..k : t[i] = c[i]
    <3> TAKE i \in 1..k
    <3>1. /\ i \in 1..((m + n + k) - (m + n + 1) + 1)
          /\ (m + n + 1) + i - 1 = m + n + i
      BY <1>1
    <3> QED BY <2>1, <2>3, <3>1
  <2>6. t = c
    BY <2>3, <2>4, <2>5, SeqEqual DEF Obs
  <2> QED BY <2>6 DEF t
<1>6. (m + 1) - 1 = m
  BY <1>1
<1> QED BY <1>3, <1>4, <1>5, <1>6 DEF Fifo!Cut, s

\* A stretch of the line that goes is a loss of the FIFO.
LEMMA LoseMiddle ==
  ASSUME NEW a \in Obs, NEW b \in Obs, NEW c \in Obs, b # <<>>,
         Line = (a \o b) \o c, Line' = a \o c, consumed' = consumed
  PROVE  Fifo!Lose
<1> DEFINE first == Len(a) + 1
           next == Len(a) + Len(b) + 1
<1>1. Len(a) \in Nat /\ Len(b) \in Nat \ {0} /\ Len(c) \in Nat
  BY EmptySeq, LenProperties DEF Obs
<1>2. a \o b \in Obs /\ Len(a \o b) = Len(a) + Len(b)
  BY ConcatProperties DEF Obs
<1>3. Len(Line) = Len(a) + Len(b) + Len(c)
  BY <1>2, ConcatProperties DEF Obs
<1>4. first \in 1..Len(Line) /\ next \in 1..(Len(Line) + 1) /\ first < next
  BY <1>1, <1>3
<1>5. Line' = Fifo!Cut(Line, first, next)
  BY CutMiddle
<1> QED BY <1>4, <1>5 DEF Fifo!Lose

-----------------------------------------------------------------------------
(* The line *)

\* Concatenation of observation sequences: closed, associative, with a unit.
LEMMA Concat ==
  /\ <<>> \in Obs
  /\ \A s, t \in Obs : s \o t \in Obs
  /\ \A s, t, u \in Obs : (s \o t) \o u = s \o (t \o u)
  /\ \A s \in Obs : s \o <<>> = s /\ <<>> \o s = s
BY ConcatProperties, ConcatAssociative, ConcatEmptySeq, EmptySeq DEF Obs

\* Five stretches joined from the left, and from the right.
FromLeft(a, b, c, d, e) == a \o b \o c \o d \o e
FromRight(a, b, c, d, e) == a \o (b \o (c \o (d \o e)))

\* It makes no difference.
LEMMA LineFromFront ==
  ASSUME NEW a \in Obs, NEW b \in Obs, NEW c \in Obs, NEW d \in Obs, NEW e \in Obs
  PROVE  FromLeft(a, b, c, d, e) = FromRight(a, b, c, d, e)
<1> DEFINE ab == a \o b
           abc == ab \o c
           de == d \o e
           cde == c \o de
<1>1. ab \in Obs /\ de \in Obs
  BY Concat
<1>2. abc \in Obs /\ cde \in Obs
  BY <1>1, Concat
<1>3. (abc \o d) \o e = abc \o de
  <2> HIDE DEF abc
  <2> QED BY <1>2, Concat, ZenonT(40)
<1>4. abc \o de = ab \o cde
  <2> HIDE DEF ab, de
  <2> QED BY <1>1, Concat, ZenonT(40)
<1>5. ab \o cde = a \o (b \o cde)
  <2> HIDE DEF cde
  <2> QED BY <1>2, Concat, ZenonT(40)
<1> QED BY <1>3, <1>4, <1>5 DEF FromLeft, FromRight

\* The parts of the line.
LEMMA PartsType ==
  ASSUME TypeOK
  PROVE  /\ reconQueue \in Obs /\ reconHand \in Obs /\ drainQueue \in Obs
         /\ drainHand \in Obs /\ bus \in Obs
BY DEF TypeOK, Obs

\* The line, from its delivered end.
LEMMA LineFront ==
  ASSUME TypeOK
  PROVE  Line = reconQueue \o (reconHand \o (drainQueue \o (drainHand \o bus)))
<1>1. FromLeft(reconQueue, reconHand, drainQueue, drainHand, bus)
        = FromRight(reconQueue, reconHand, drainQueue, drainHand, bus)
  BY PartsType, LineFromFront
<1> QED BY <1>1 DEF Line, FromLeft, FromRight

\* The line but for its first channel.
LEMMA LineTail ==
  ASSUME TypeOK
  PROVE  reconHand \o (drainQueue \o (drainHand \o bus)) \in Obs
<1>1. drainHand \o bus \in Obs
  BY PartsType, Concat
<1>2. drainQueue \o (drainHand \o bus) \in Obs
  BY <1>1, PartsType, Concat
<1> QED BY <1>2, PartsType, Concat

-----------------------------------------------------------------------------
(* The steps *)

\* Before anything is accepted both ends of the FIFO are empty.
LEMMA RefinesInit == Init => Fifo!Init
BY Concat DEF Init, Fifo!Init, Line

\* emit, when there is room, accepts an observation.
LEMMA EmitRefines ==
  ASSUME PipelineInv, NEW a \in Adapter, EmitTrySend(a)
  PROVE  Fifo!Next \/ UNCHANGED Fifo!vars
<1> DEFINE o == [source |-> SourceOf[a], n |-> offered[SourceOf[a]] + 1]
           front == reconQueue \o reconHand \o drainQueue \o drainHand
<1>1. /\ TypeOK /\ offered[SourceOf[a]] < MaxOffered
      /\ offered \in [Source -> 0..MaxOffered] /\ SourceOf[a] \in Source
      /\ UNCHANGED <<drainVars, drainQueue, reconHand, reconQueue, consumed>>
  BY PipelineAssumption DEF PipelineInv, TypeOK, EmitTrySend
<1>2. o \in Observation
  BY <1>1, PipelineAssumption DEF Observation
<1>3. Line = front \o bus /\ Line' = front \o bus'
  BY <1>1 DEF Line, drainVars
<1>4. front \in Obs /\ bus \in Obs
  BY <1>1, PartsType, Concat
<1>5. CASE bus' = Append(bus, o)
  <2> HIDE DEF o, front
  <2>1. bus' = bus \o <<o>> /\ <<o>> \in Obs
    BY <1>2, <1>4, <1>5, AppendIsConcat DEF Obs
  <2>2. Line' = Line \o <<o>> /\ Line \in Obs
    BY <1>3, <1>4, <2>1, Concat
  <2>3. Line' = Append(Line, o)
    BY <1>2, <2>2, AppendIsConcat DEF Obs
  <2> QED BY <1>1, <1>2, <2>3 DEF Fifo!Next, Fifo!Accept
<1>6. CASE bus' = bus
  BY <1>1, <1>3, <1>6 DEF Fifo!vars
<1> QED BY <1>5, <1>6 DEF EmitTrySend

\* Moving an observation between a channel and a hand goes unseen.
LEMMA MoveRefines ==
  ASSUME PipelineInv, DrainRecv \/ ReconRecv \/ ReconSend
  PROVE  UNCHANGED Fifo!vars
<1>1. TypeOK
  BY DEF PipelineInv
<1>2. CASE DrainRecv
  <2>1. /\ drainHand = <<>> /\ bus # <<>>
        /\ drainHand' = <<Head(bus)>> /\ bus' = Tail(bus)
        /\ UNCHANGED <<drainQueue, reconHand, reconQueue, consumed>>
    BY <1>2 DEF DrainRecv
  <2>2. drainHand \o bus = drainHand' \o bus'
    BY <1>1, <2>1, PartsType, HeadAndTail, Concat
  <2>3. drainHand' \in Obs /\ bus' \in Obs
    BY <1>1, <2>1, PartsType, HeadTailProperties DEF Obs
  <2> DEFINE front == reconQueue \o reconHand \o drainQueue
  <2>4. front \in Obs
    <3>1. reconQueue \o reconHand \in Obs
      BY <1>1, PartsType, Concat
    <3> QED BY <1>1, <3>1, PartsType, Concat
  <2>5. Line = (front \o drainHand) \o bus /\ Line' = (front \o drainHand') \o bus'
    BY <2>1 DEF Line
  <2> HIDE DEF front
  <2>6. /\ (front \o drainHand) \o bus = front \o (drainHand \o bus)
        /\ (front \o drainHand') \o bus' = front \o (drainHand' \o bus')
    <3>1. drainHand \in Obs /\ bus \in Obs
      BY <1>1, PartsType
    <3>2. (front \o drainHand) \o bus = front \o (drainHand \o bus)
      BY <2>4, <3>1, ConcatAssociative DEF Obs
    <3>3. (front \o drainHand') \o bus' = front \o (drainHand' \o bus')
      BY <2>3, <2>4, ConcatAssociative DEF Obs
    <3> QED BY <3>2, <3>3
  <2> QED BY <2>1, <2>2, <2>5, <2>6 DEF Fifo!vars
<1>3. CASE ReconRecv
  <2>1. /\ reconHand = <<>> /\ drainQueue # <<>>
        /\ reconHand' = <<Head(drainQueue)>> /\ drainQueue' = Tail(drainQueue)
        /\ UNCHANGED <<drainHand, bus, reconQueue, consumed>>
    BY <1>3 DEF ReconRecv, drainVars
  <2>2. reconHand \o drainQueue = reconHand' \o drainQueue'
    BY <1>1, <2>1, PartsType, HeadAndTail, Concat
  <2>3. reconHand' \in Obs /\ drainQueue' \in Obs
    BY <1>1, <2>1, PartsType, HeadTailProperties DEF Obs
  <2>4. /\ (reconQueue \o reconHand) \o drainQueue
               = reconQueue \o (reconHand \o drainQueue)
        /\ (reconQueue \o reconHand') \o drainQueue'
               = reconQueue \o (reconHand' \o drainQueue')
    <3>1. reconQueue \in Obs /\ reconHand \in Obs /\ drainQueue \in Obs
      BY <1>1, PartsType
    <3>2. (reconQueue \o reconHand) \o drainQueue
            = reconQueue \o (reconHand \o drainQueue)
      BY <3>1, ConcatAssociative DEF Obs
    <3>3. (reconQueue \o reconHand') \o drainQueue'
            = reconQueue \o (reconHand' \o drainQueue')
      BY <2>3, <3>1, ConcatAssociative, SMTT(30) DEF Obs
    <3> QED BY <3>2, <3>3
  <2> QED BY <2>1, <2>2, <2>4 DEF Fifo!vars, Line
<1>4. CASE ReconSend
  <2>1. /\ reconQueue' = reconQueue \o reconHand /\ reconHand' = <<>>
        /\ UNCHANGED <<drainHand, bus, drainQueue, consumed>>
    BY <1>4 DEF ReconSend, drainVars
  <2>2. reconQueue' \o reconHand' = reconQueue \o reconHand
    BY <1>1, <2>1, PartsType, Concat
  <2> QED BY <2>1, <2>2 DEF Fifo!vars, Line
<1> QED BY <1>2, <1>3, <1>4

\* The drain's try_send moves its observation on, or loses it.
LEMMA DrainTrySendRefines ==
  ASSUME PipelineInv, DrainTrySend
  PROVE  Fifo!Next \/ UNCHANGED Fifo!vars
<1> DEFINE front == reconQueue \o reconHand \o drainQueue
<1>1. /\ TypeOK /\ drainHand # <<>> /\ drainHand' = <<>>
      /\ UNCHANGED <<bus, reconHand, reconQueue, consumed>>
  BY DEF PipelineInv, DrainTrySend
<1>2. front \in Obs /\ reconQueue \o reconHand \in Obs
  BY <1>1, PartsType, Concat
<1>3. CASE drainQueue' = drainQueue \o drainHand
  <2>1. front' = front \o drainHand
    BY <1>1, <1>2, <1>3, PartsType, Concat, ZenonT(30)
  <2>2. front \o drainHand \in Obs
    BY <1>1, <1>2, PartsType, Concat
  <2>3. front' \o drainHand' = front \o drainHand
    BY <1>1, <2>1, <2>2, Concat
  <2> QED BY <1>1, <2>3 DEF Fifo!vars, Line
<1>4. CASE drainQueue' = drainQueue
  <2>1. front' \o drainHand' = front
    BY <1>1, <1>2, <1>4, Concat
  <2>2. Line = (front \o drainHand) \o bus /\ Line' = front \o bus
    BY <1>1, <2>1 DEF Line
  <2>3. Fifo!Lose
    BY <1>1, <1>2, <2>2, PartsType, LoseMiddle
  <2> QED BY <2>3 DEF Fifo!Next
<1> QED BY <1>3, <1>4 DEF DrainTrySend

\* The consumer takes the oldest observation.
LEMMA ConsumeRefines ==
  ASSUME PipelineInv, Consume
  PROVE  Fifo!Next
<1> DEFINE rest == reconHand \o (drainQueue \o (drainHand \o bus))
<1>1. /\ TypeOK /\ reconQueue # <<>>
      /\ consumed' = Append(consumed, Head(reconQueue))
      /\ reconQueue' = Tail(reconQueue)
      /\ UNCHANGED <<bus, drainHand, drainQueue, reconHand>>
  BY DEF PipelineInv, Consume, drainVars
<1>2. rest \in Obs
  BY <1>1, LineTail
<1>3. Line = reconQueue \o rest
  BY <1>1, LineFront
<1>4. Tail(reconQueue) \in Obs
  BY <1>1, PartsType, HeadTailProperties DEF Obs
<1>5. Line' = Tail(reconQueue) \o rest
  <2>1. FromLeft(Tail(reconQueue), reconHand, drainQueue, drainHand, bus)
          = FromRight(Tail(reconQueue), reconHand, drainQueue, drainHand, bus)
    BY <1>1, <1>4, PartsType, LineFromFront
  <2> QED BY <1>1, <2>1 DEF Line, FromLeft, FromRight
<1> HIDE DEF rest
<1>6. Line # <<>> /\ Head(Line) = Head(reconQueue) /\ Line' = Tail(Line)
  BY <1>1, <1>2, <1>3, <1>5, PartsType, TakeFirst
<1> QED BY <1>1, <1>6 DEF Fifo!Next, Fifo!Deliver

\* A receiver that goes away loses what its channel holds.
LEMMA ReceiverGoneRefines ==
  ASSUME PipelineInv,
         ReconBreak \/ ConsumerGone \/ AbortDrain \/ AbortReconstructor
  PROVE  Fifo!Next \/ UNCHANGED Fifo!vars
<1>1. TypeOK /\ consumed' = consumed /\ drainHand' = drainHand
  BY DEF PipelineInv, ReconBreak, ConsumerGone, AbortDrain, AbortReconstructor,
         drainVars
<1>2. CASE ReconBreak \/ AbortReconstructor
  <2> DEFINE b == reconHand \o drainQueue
             c == drainHand \o bus
  <2>1. /\ reconHand' = <<>> /\ drainQueue' = <<>>
        /\ UNCHANGED <<bus, reconQueue>>
    BY <1>2 DEF ReconBreak, AbortReconstructor, drainVars
  <2>2. b \in Obs /\ c \in Obs
    BY <1>1, PartsType, Concat
  <2>3. Line = (reconQueue \o b) \o c
    <3>1. (reconQueue \o b) \o c = reconQueue \o (b \o c)
      <4>1. reconQueue \in Obs
        BY <1>1, PartsType
      <4> HIDE DEF b, c
      <4> QED BY <2>2, <4>1, ConcatAssociative DEF Obs
    <3>2. b \o c = reconHand \o (drainQueue \o c)
      <4>1. reconHand \in Obs /\ drainQueue \in Obs
        BY <1>1, PartsType
      <4> HIDE DEF c
      <4> QED BY <2>2, <4>1, ConcatAssociative DEF Obs
    <3>3. Line = reconQueue \o (reconHand \o (drainQueue \o c))
      BY <1>1, LineFront
    <3> QED BY <3>1, <3>2, <3>3
  <2>4. Line' = reconQueue \o c
    <3>1. reconQueue' \o reconHand' \o drainQueue' = reconQueue
      BY <1>1, <2>1, PartsType, Concat
    <3>2. (reconQueue \o drainHand) \o bus = reconQueue \o c
      BY <1>1, PartsType, Concat, SMTT(30)
    <3> QED BY <1>1, <2>1, <3>1, <3>2 DEF Line
  <2> HIDE DEF b, c
  <2>5. CASE b = <<>>
    <3>1. Line' = Line
      BY <1>1, <2>3, <2>4, <2>5, PartsType, Concat
    <3> QED BY <1>1, <3>1 DEF Fifo!vars
  <2>6. CASE b # <<>>
    BY <1>1, <2>2, <2>3, <2>4, <2>6, PartsType, LoseMiddle DEF Fifo!Next
  <2> QED BY <2>5, <2>6
<1>3. CASE ConsumerGone
  <2> DEFINE c == reconHand \o (drainQueue \o (drainHand \o bus))
  <2>1. reconQueue' = <<>> /\ UNCHANGED <<bus, drainQueue, reconHand>>
    BY <1>3 DEF ConsumerGone, drainVars
  <2>2. c \in Obs
    BY <1>1, LineTail
  <2>3. Line = reconQueue \o c /\ Line' = <<>> \o c
    <3>1. Line = reconQueue \o c
      BY <1>1, LineFront
    <3>2. FromLeft(<<>>, reconHand, drainQueue, drainHand, bus)
            = FromRight(<<>>, reconHand, drainQueue, drainHand, bus)
      BY <1>1, PartsType, Concat, LineFromFront
    <3>3. Line' = FromLeft(<<>>, reconHand, drainQueue, drainHand, bus)
      BY <1>1, <2>1 DEF Line, FromLeft
    <3> QED BY <3>1, <3>2, <3>3 DEF FromRight
  <2> HIDE DEF c
  <2>4. CASE reconQueue = <<>>
    BY <1>1, <2>3, <2>4 DEF Fifo!vars
  <2>5. CASE reconQueue # <<>>
    <3>1. Line = (<<>> \o reconQueue) \o c
      BY <1>1, <2>3, PartsType, Concat
    <3> QED BY <1>1, <2>2, <2>3, <2>5, <3>1, PartsType, Concat, LoseMiddle
            DEF Fifo!Next
  <2> QED BY <2>4, <2>5
<1>4. CASE AbortDrain
  <2> DEFINE front == reconQueue \o reconHand \o drainQueue \o drainHand
  <2>1. bus' = <<>> /\ UNCHANGED <<drainQueue, reconHand, reconQueue>>
    BY <1>4 DEF AbortDrain
  <2>2. front \in Obs
    BY <1>1, PartsType, Concat
  <2>3. Line = front \o bus /\ Line' = front \o <<>>
    BY <1>1, <2>1 DEF Line
  <2> HIDE DEF front
  <2>4. CASE bus = <<>>
    BY <1>1, <2>3, <2>4 DEF Fifo!vars
  <2>5. CASE bus # <<>>
    <3>1. Line = (front \o bus) \o <<>>
      BY <1>1, <2>2, <2>3, PartsType, Concat
    <3> QED BY <1>1, <2>2, <2>3, <2>5, <3>1, PartsType, Concat, LoseMiddle
            DEF Fifo!Next
  <2> QED BY <2>4, <2>5
<1> QED BY <1>2, <1>3, <1>4

\* Every step of the pipeline is one of the FIFO, or goes unseen.
LEMMA StepRefines ==
  PipelineInv /\ [Next]_vars => [Fifo!Next]_(Fifo!vars)
<1> SUFFICES ASSUME PipelineInv, [Next]_vars
             PROVE  Fifo!Next \/ UNCHANGED Fifo!vars
  OBVIOUS
<1>1. ASSUME NEW a \in Adapter, EmitTrySend(a)
      PROVE  Fifo!Next \/ UNCHANGED Fifo!vars
  BY <1>1, EmitRefines
<1>2. CASE DrainRecv \/ ReconRecv \/ ReconSend
  BY <1>2, MoveRefines
<1>3. CASE DrainTrySend
  BY <1>3, DrainTrySendRefines
<1>4. CASE Consume
  BY <1>4, ConsumeRefines
<1>5. CASE ReconBreak \/ ConsumerGone \/ AbortDrain \/ AbortReconstructor
  BY <1>5, ReceiverGoneRefines
<1>6. ASSUME \/ \E a \in Adapter : EmitCount(a)
             \/ DrainCount \/ AdaptersGone \/ DrainEnd \/ ReconEnd
             \/ UNCHANGED vars
      PROVE  UNCHANGED Fifo!vars
  BY <1>6 DEF EmitCount, DrainCount, AdaptersGone, DrainEnd, ReconEnd, vars,
              drainVars, adapterVars, Fifo!vars, Line
<1> QED BY <1>1, <1>2, <1>3, <1>4, <1>5, <1>6 DEF Next, AllGone

\* The pipeline reorders, duplicates and invents nothing.
THEOREM PipelineIsLossyFifo == Spec => ImplementsLossyFifo
BY RefinesInit, StepRefines, PipelineInvariant, PTL
   DEF Spec, ImplementsLossyFifo, Fifo!Spec
=============================================================================
