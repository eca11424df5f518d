----------------------- MODULE NetworkLifecycle_proofs -----------------------
(***************************************************************************)
(* Theorems about the network lifecycle stage (NetworkLifecycle), for      *)
(* every set of connections, every gap and every clock.                    *)
(***************************************************************************)
EXTENDS NetworkLifecycle, TLAPS

\* A tick's records are about the time since the first sighting in an unbroken
\* row of ticks, up to the latest observation.
IsTrue(tick) ==
  \A k \in DOMAIN tick :
    /\ tick[k].first = streak[k]
    /\ tick[k].first <= tick[k].last
    /\ tick[k].last <= lastObsTs

\* Only what one of the two ticks has is in a row of ticks.
StreaksAreTicks ==
  \A k \in ConnectionKey : streak[k] # NoTs => k \in DOMAIN current \cup DOMAIN prior

NetworkInv ==
  NetworkTypeOK /\ IsTrue(current) /\ IsTrue(prior) /\ StreaksAreTicks

-----------------------------------------------------------------------------
\* A record of a well-formed tick.
LEMMA TickRecord ==
  ASSUME NEW tick, IsTick(tick), NEW k \in DOMAIN tick
  PROVE  k \in ConnectionKey /\ tick[k].first \in Time /\ tick[k].last \in Time
BY DEF IsTick, ConnectionRecord

\* HashMap::insert keeps a map of connections to records one.
LEMMA InsertType ==
  ASSUME NEW tick, IsTick(tick), NEW before, IsTick(before),
         NEW k \in ConnectionKey, NEW ts \in Time
  PROVE  IsTick(Insert(tick, before, k, ts))
<1>1. FirstSeen(k, ts, tick, before) \in Time
  BY TickRecord DEF FirstSeen
<1>2. \A x \in DOMAIN tick : tick[x] \in ConnectionRecord
  BY DEF IsTick
<1>3. DOMAIN tick \cup {k} \subseteq ConnectionKey
  BY DEF IsTick
<1> QED BY <1>1, <1>2, <1>3 DEF IsTick, Insert, ConnectionRecord

\* The empty map is one.
LEMMA EmptyTickType == IsTick(EmptyTick) /\ DOMAIN EmptyTick = {}
BY DEF IsTick, EmptyTick

\* No tick has been sighted before the first observation.
LEMMA NoTsIsBefore == NoTs \notin Time /\ \A ts \in Time : ts \in Nat
BY NetworkAssumption DEF NoTs

\* A sighting starts or continues a streak, and leaves the others.
LEMMA SightedType ==
  ASSUME NEW s \in [ConnectionKey -> Time \cup {NoTs}],
         NEW k \in ConnectionKey, NEW ts \in Time
  PROVE  /\ Sighted(s, k, ts) \in [ConnectionKey -> Time \cup {NoTs}]
         /\ Sighted(s, k, ts)[k] = IF s[k] = NoTs THEN ts ELSE s[k]
         /\ \A x \in ConnectionKey \ {k} : Sighted(s, k, ts)[x] = s[x]
BY DEF Sighted

\* An observation added to a tick whose records and predecessor's records are
\* true leaves it true of the new streaks.
LEMMA InsertIsTrue ==
  ASSUME NEW tick, IsTick(tick), NEW before, IsTick(before),
         NEW s \in [ConnectionKey -> Time \cup {NoTs}],
         NEW last \in Time \cup {NoTs}, NEW ts \in Time, ts >= last,
         NEW k \in ConnectionKey,
         \A x \in DOMAIN tick : tick[x].first = s[x] /\ tick[x].first <= tick[x].last
                                  /\ tick[x].last <= last,
         \A x \in DOMAIN before : before[x].first = s[x] /\ before[x].first <= before[x].last
                                    /\ before[x].last <= last,
         \A x \in ConnectionKey : s[x] # NoTs => x \in DOMAIN tick \cup DOMAIN before
  PROVE  \A x \in DOMAIN Insert(tick, before, k, ts) :
           LET r == Insert(tick, before, k, ts)[x]
           IN r.first = Sighted(s, k, ts)[x] /\ r.first <= r.last /\ r.last <= ts
<1> SUFFICES ASSUME NEW x \in DOMAIN Insert(tick, before, k, ts)
             PROVE  LET r == Insert(tick, before, k, ts)[x]
                    IN r.first = Sighted(s, k, ts)[x] /\ r.first <= r.last /\ r.last <= ts
  OBVIOUS
<1>a. /\ DOMAIN Insert(tick, before, k, ts) = DOMAIN tick \cup {k}
      /\ Insert(tick, before, k, ts)[k] = [first |-> FirstSeen(k, ts, tick, before), last |-> ts]
      /\ \A y \in DOMAIN tick \ {k} : Insert(tick, before, k, ts)[y] = tick[y]
  BY DEF Insert
<1>b. /\ Sighted(s, k, ts)[k] = IF s[k] = NoTs THEN ts ELSE s[k]
      /\ \A y \in ConnectionKey \ {k} : Sighted(s, k, ts)[y] = s[y]
  BY SightedType
<1>1. x \in DOMAIN tick \cup {k}
  BY <1>a
<1>2. last \in Int /\ ts \in Int
  BY NoTsIsBefore DEF NoTs
<1>3. CASE x # k
  <2>1. x \in DOMAIN tick /\ x \in ConnectionKey
    BY <1>1, <1>3, TickRecord
  <2>2. Insert(tick, before, k, ts)[x] = tick[x] /\ Sighted(s, k, ts)[x] = s[x]
    BY <1>3, <1>a, <1>b, <2>1
  <2>3. tick[x].last \in Int
    BY <2>1, TickRecord, NoTsIsBefore
  <2> QED BY <1>2, <2>1, <2>2, <2>3
<1>4. CASE x = k
  <2>1. Insert(tick, before, k, ts)[x] = [first |-> FirstSeen(k, ts, tick, before), last |-> ts]
    BY <1>4, <1>a
  <2>2. Sighted(s, k, ts)[x] = IF s[k] = NoTs THEN ts ELSE s[k]
    BY <1>4, <1>b
  <2>3. CASE k \in DOMAIN tick
    <3>1. tick[k].first = s[k] /\ tick[k].first \in Int /\ tick[k].last \in Int /\ s[k] # NoTs
      BY <2>3, TickRecord, NoTsIsBefore
    <3>2. FirstSeen(k, ts, tick, before) = s[k] /\ s[k] <= ts
      BY <1>2, <2>3, <3>1 DEF FirstSeen
    <3> QED BY <1>2, <2>1, <2>2, <3>1, <3>2
  <2>4. CASE k \notin DOMAIN tick /\ k \in DOMAIN before
    <3>1. before[k].first = s[k] /\ before[k].first \in Int /\ before[k].last \in Int
            /\ s[k] # NoTs
      BY <2>4, TickRecord, NoTsIsBefore
    <3>2. FirstSeen(k, ts, tick, before) = s[k] /\ s[k] <= ts
      BY <1>2, <2>4, <3>1 DEF FirstSeen
    <3> QED BY <1>2, <2>1, <2>2, <3>1, <3>2
  <2>5. CASE k \notin DOMAIN tick /\ k \notin DOMAIN before
    <3>1. s[k] = NoTs
      BY <2>5
    <3>2. FirstSeen(k, ts, tick, before) = ts
      BY <2>5 DEF FirstSeen
    <3> QED BY <1>2, <2>1, <2>2, <3>1, <3>2
  <2> QED BY <2>3, <2>4, <2>5
<1> QED BY <1>3, <1>4

\* What a finished tick has missed has no streak any more.
LEMMA ContinuedType ==
  ASSUME NetworkInv
  PROVE  /\ Continued \in [ConnectionKey -> Time \cup {NoTs}]
         /\ \A k \in DOMAIN current : Continued[k] = streak[k]
         /\ \A k \in ConnectionKey : Continued[k] # NoTs => k \in DOMAIN current
BY DEF NetworkInv, NetworkTypeOK, IsTick, Continued

\* What finalize_tick returns is true of the streaks that it ends.
LEMMA FinalizeTickSpans ==
  ASSUME NetworkInv, NEW now \in Time, now >= lastObsTs, FinalizeTick(now)
  PROVE  \A e \in events'.completed :
           /\ e.openedAt = streak[e.key]
           /\ e.openedAt <= e.closedAt /\ e.closedAt <= e.ts
<1> SUFFICES ASSUME NEW e \in events'.completed
             PROVE  /\ e.openedAt = streak[e.key]
                    /\ e.openedAt <= e.closedAt /\ e.closedAt <= e.ts
  OBVIOUS
<1>1. primed
  BY DEF FinalizeTick, NoEvents
<1>2. e \in Completed(now)
  BY <1>1 DEF FinalizeTick
<1> PICK k \in DOMAIN prior \ DOMAIN current :
      e = [key |-> k, ts |-> now, openedAt |-> prior[k].first, closedAt |-> prior[k].last]
  BY <1>2 DEF Completed
<1>3. prior[k].first = streak[k] /\ prior[k].first <= prior[k].last
        /\ prior[k].last <= lastObsTs
  BY DEF NetworkInv, IsTrue
<1>4. prior[k].last \in Int /\ lastObsTs \in Int /\ now \in Int
  BY TickRecord, NoTsIsBefore DEF NetworkInv, NetworkTypeOK, NoTs
<1> QED BY <1>3, <1>4

-----------------------------------------------------------------------------
\* A fresh stage satisfies the invariant.
LEMMA NetworkInitInv == NetworkInit => NetworkInv
<1> SUFFICES ASSUME NetworkInit PROVE NetworkInv
  OBVIOUS
<1>1. IsTick(current) /\ IsTick(prior) /\ DOMAIN current = {} /\ DOMAIN prior = {}
  BY EmptyTickType DEF NetworkInit
<1>2. NetworkTypeOK
  BY <1>1 DEF NetworkInit, NetworkTypeOK
<1>3. IsTrue(current) /\ IsTrue(prior)
  BY <1>1 DEF IsTrue
<1>4. StreaksAreTicks
  BY DEF NetworkInit, StreaksAreTicks
<1> QED BY <1>2, <1>3, <1>4 DEF NetworkInv

\* An observation within a burst.
LEMMA AccumulateInv ==
  ASSUME NetworkInv, NEW k \in ConnectionKey, NEW ts \in Time, ts >= lastObsTs,
         Accumulate(k, ts)
  PROVE  NetworkInv'
<1>1. /\ current' = Insert(current, prior, k, ts) /\ prior' = prior
      /\ streak' = Sighted(streak, k, ts) /\ lastObsTs' = ts /\ primed' = primed
  BY DEF Accumulate
<1>2. IsTick(current) /\ IsTick(prior)
        /\ streak \in [ConnectionKey -> Time \cup {NoTs}]
        /\ lastObsTs \in Time \cup {NoTs} /\ primed \in BOOLEAN
  BY DEF NetworkInv, NetworkTypeOK
<1>3. /\ IsTick(Insert(current, prior, k, ts))
      /\ DOMAIN Insert(current, prior, k, ts) = DOMAIN current \cup {k}
  <2>1. DOMAIN Insert(current, prior, k, ts) = DOMAIN current \cup {k}
    BY DEF Insert
  <2>2. IsTick(Insert(current, prior, k, ts))
    BY <1>2, InsertType, Zenon
  <2> QED BY <2>1, <2>2
<1>4. /\ Sighted(streak, k, ts) \in [ConnectionKey -> Time \cup {NoTs}]
      /\ Sighted(streak, k, ts)[k] = IF streak[k] = NoTs THEN ts ELSE streak[k]
      /\ \A x \in ConnectionKey \ {k} : Sighted(streak, k, ts)[x] = streak[x]
  BY <1>2, SightedType
<1>5. IsTick(current') /\ IsTick(prior')
  BY <1>1, <1>2, <1>3
<1>6. NetworkTypeOK'
  BY <1>1, <1>2, <1>4, <1>5 DEF NetworkTypeOK, IsTick
<1>7. IsTrue(current)'
  BY <1>1, <1>2, InsertIsTrue DEF NetworkInv, IsTrue, StreaksAreTicks
<1>8. IsTrue(prior)'
  <2> SUFFICES ASSUME NEW x \in DOMAIN prior
               PROVE  /\ prior[x].first = streak'[x] /\ prior[x].first <= prior[x].last
                      /\ prior[x].last <= ts
    BY <1>1 DEF IsTrue
  <2>1. prior[x].first = streak[x] /\ prior[x].first <= prior[x].last
          /\ prior[x].last <= lastObsTs
    BY DEF NetworkInv, IsTrue
  <2>2. x \in ConnectionKey /\ prior[x].first \in Time /\ prior[x].last \in Time
    BY <1>2, TickRecord
  <2>3. streak'[x] = streak[x]
    BY <1>1, <1>4, <2>1, <2>2, NoTsIsBefore
  <2>4. prior[x].last \in Int /\ lastObsTs \in Int /\ ts \in Int
    BY <1>2, <2>2, NoTsIsBefore DEF NoTs
  <2> QED BY <2>1, <2>3, <2>4
<1>9. StreaksAreTicks'
  BY <1>1, <1>3, <1>4 DEF NetworkInv, StreaksAreTicks
<1> QED BY <1>6, <1>7, <1>8, <1>9 DEF NetworkInv

\* An observation that opens the next burst.
LEMMA BeginTickInv ==
  ASSUME NetworkInv, NEW k \in ConnectionKey, NEW ts \in Time, ts >= lastObsTs,
         BeginTick(k, ts)
  PROVE  NetworkInv'
<1>1. /\ current' = Insert(EmptyTick, current, k, ts) /\ prior' = current
      /\ streak' = Sighted(Continued, k, ts) /\ lastObsTs' = ts /\ primed' = TRUE
  BY DEF BeginTick, FinalizeTick
<1>2. IsTick(current) /\ lastObsTs \in Time \cup {NoTs}
  BY DEF NetworkInv, NetworkTypeOK
<1>3. /\ IsTick(Insert(EmptyTick, current, k, ts))
      /\ DOMAIN Insert(EmptyTick, current, k, ts) = {k}
  <2>1. DOMAIN Insert(EmptyTick, current, k, ts) = {k}
    BY EmptyTickType DEF Insert
  <2>2. IsTick(Insert(EmptyTick, current, k, ts))
    BY <1>2, EmptyTickType, InsertType, Zenon
  <2> QED BY <2>1, <2>2
<1>4. /\ Continued \in [ConnectionKey -> Time \cup {NoTs}]
      /\ \A x \in DOMAIN current : Continued[x] = streak[x]
      /\ \A x \in ConnectionKey : Continued[x] # NoTs => x \in DOMAIN current
  BY ContinuedType
<1>5. /\ Sighted(Continued, k, ts) \in [ConnectionKey -> Time \cup {NoTs}]
      /\ Sighted(Continued, k, ts)[k] = IF Continued[k] = NoTs THEN ts ELSE Continued[k]
      /\ \A x \in ConnectionKey \ {k} : Sighted(Continued, k, ts)[x] = Continued[x]
  BY <1>4, SightedType
<1>6. IsTick(current') /\ IsTick(prior')
  BY <1>1, <1>2, <1>3
<1>7. NetworkTypeOK'
  BY <1>1, <1>5, <1>6 DEF NetworkTypeOK, IsTick
<1>8. IsTrue(current)'
  <2>1. \A x \in DOMAIN current : /\ current[x].first = Continued[x]
                                 /\ current[x].first <= current[x].last
                                 /\ current[x].last <= lastObsTs
    BY <1>4 DEF NetworkInv, IsTrue
  <2>2. \A x \in DOMAIN Insert(EmptyTick, current, k, ts) :
          LET r == Insert(EmptyTick, current, k, ts)[x]
          IN r.first = Sighted(Continued, k, ts)[x] /\ r.first <= r.last /\ r.last <= ts
    BY <1>2, <1>4, <2>1, EmptyTickType, InsertIsTrue
  <2> QED BY <1>1, <2>2 DEF IsTrue
<1>9. IsTrue(prior)'
  <2> SUFFICES ASSUME NEW x \in DOMAIN current
               PROVE  /\ current[x].first = streak'[x] /\ current[x].first <= current[x].last
                      /\ current[x].last <= ts
    BY <1>1 DEF IsTrue
  <2>1. current[x].first = streak[x] /\ current[x].first <= current[x].last
          /\ current[x].last <= lastObsTs
    BY DEF NetworkInv, IsTrue
  <2>2. x \in ConnectionKey /\ current[x].first \in Time /\ current[x].last \in Time
    BY <1>2, TickRecord
  <2>3. streak'[x] = streak[x]
    BY <1>1, <1>4, <1>5, <2>1, <2>2, NoTsIsBefore
  <2>4. current[x].last \in Int /\ lastObsTs \in Int /\ ts \in Int
    BY <1>2, <2>2, NoTsIsBefore DEF NoTs
  <2> QED BY <2>1, <2>3, <2>4
<1>10. StreaksAreTicks'
  BY <1>1, <1>3, <1>4, <1>5 DEF StreaksAreTicks
<1> QED BY <1>7, <1>8, <1>9, <1>10 DEF NetworkInv

\* The public flush.
LEMMA OnTickCompleteInv ==
  ASSUME NetworkInv, NEW now \in Time, OnTickComplete(now)
  PROVE  NetworkInv'
<1>1. current' = EmptyTick /\ prior' = current /\ streak' = Continued
        /\ lastObsTs' = lastObsTs /\ primed' = TRUE
  BY DEF OnTickComplete, FinalizeTick
<1>2. /\ Continued \in [ConnectionKey -> Time \cup {NoTs}]
      /\ \A x \in DOMAIN current : Continued[x] = streak[x]
      /\ \A x \in ConnectionKey : Continued[x] # NoTs => x \in DOMAIN current
  BY ContinuedType
<1>3. IsTick(current') /\ IsTick(prior') /\ DOMAIN current' = {}
  BY <1>1, EmptyTickType DEF NetworkInv, NetworkTypeOK
<1>4. NetworkTypeOK'
  BY <1>1, <1>2, <1>3 DEF NetworkInv, NetworkTypeOK, IsTick
<1>5. IsTrue(current)'
  BY <1>3 DEF IsTrue
<1>6. IsTrue(prior)'
  BY <1>1, <1>2 DEF NetworkInv, IsTrue
<1>7. StreaksAreTicks'
  BY <1>1, <1>2 DEF StreaksAreTicks
<1> QED BY <1>4, <1>5, <1>6, <1>7 DEF NetworkInv

\* A step that leaves the stage alone.
LEMMA NetworkStutterInv == NetworkInv /\ UNCHANGED networkVars => NetworkInv'
BY DEF NetworkInv, NetworkTypeOK, IsTick, IsTrue, StreaksAreTicks, networkVars

\* Every call preserves the invariant.
LEMMA NetworkNextInv ==
  ASSUME NetworkInv, [NetworkNext]_networkVars
  PROVE  NetworkInv'
<1>1. CASE UNCHANGED networkVars
  BY <1>1, NetworkStutterInv
<1>2. CASE NetworkNext
  <2> PICK ts \in Time : /\ ts >= lastObsTs
                         /\ \/ \E k \in ConnectionKey : Accumulate(k, ts) \/ BeginTick(k, ts)
                            \/ OnTickComplete(ts)
    BY <1>2 DEF NetworkNext
  <2>1. ASSUME NEW k \in ConnectionKey, Accumulate(k, ts) PROVE NetworkInv'
    BY <2>1, AccumulateInv
  <2>2. ASSUME NEW k \in ConnectionKey, BeginTick(k, ts) PROVE NetworkInv'
    BY <2>2, BeginTickInv
  <2>3. CASE OnTickComplete(ts)
    BY <2>3, OnTickCompleteInv
  <2> QED BY <2>1, <2>2, <2>3
<1> QED BY <1>1, <1>2

\* The stage's invariant, under every sequence of calls.
THEOREM NetworkInvariant == NetworkSpec => []NetworkInv
<1>1. NetworkInv /\ [NetworkNext]_networkVars => NetworkInv'
  BY NetworkNextInv
<1> QED BY <1>1, NetworkInitInv, PTL DEF NetworkSpec

\* The stage's state is always well-typed.
THEOREM NetworkTypeCorrect == NetworkSpec => []NetworkTypeOK
<1>1. NetworkInv => NetworkTypeOK
  BY DEF NetworkInv
<1> QED BY <1>1, NetworkInvariant, PTL

-----------------------------------------------------------------------------
\* What one call may say of the connections that are gone, given the invariant.
LEMMA SpansStep ==
  ASSUME NetworkInv, [NetworkNext]_networkVars
  PROVE  [\A e \in events'.completed :
            /\ e.openedAt = streak[e.key]
            /\ e.openedAt <= e.closedAt /\ e.closedAt <= e.ts]_events
<1>1. CASE UNCHANGED networkVars
  BY <1>1 DEF networkVars
<1>2. CASE NetworkNext
  <2> PICK ts \in Time : /\ ts >= lastObsTs
                         /\ \/ \E k \in ConnectionKey : Accumulate(k, ts) \/ BeginTick(k, ts)
                            \/ OnTickComplete(ts)
    BY <1>2 DEF NetworkNext
  <2>1. ASSUME NEW k \in ConnectionKey, Accumulate(k, ts) PROVE events'.completed = {}
    BY <2>1 DEF Accumulate, NoEvents
  <2>2. ASSUME NEW k \in ConnectionKey, BeginTick(k, ts)
        PROVE  \A e \in events'.completed :
                 /\ e.openedAt = streak[e.key]
                 /\ e.openedAt <= e.closedAt /\ e.closedAt <= e.ts
    <3>1. lastObsTs \in Time /\ FinalizeTick(lastObsTs)
      BY <2>2 DEF BeginTick, IsBoundary, NetworkInv, NetworkTypeOK
    <3>2. lastObsTs >= lastObsTs
      BY <3>1, NoTsIsBefore
    <3> QED BY <3>1, <3>2, FinalizeTickSpans
  <2>3. ASSUME OnTickComplete(ts)
        PROVE  \A e \in events'.completed :
                 /\ e.openedAt = streak[e.key]
                 /\ e.openedAt <= e.closedAt /\ e.closedAt <= e.ts
    BY <2>3, FinalizeTickSpans DEF OnTickComplete
  <2> QED BY <2>1, <2>2, <2>3
<1> QED BY <1>1, <1>2

\* Under every sequence of calls a completed event reports the whole of an
\* unbroken row of sightings.
THEOREM SpansAreAlwaysUnbroken == NetworkSpec => SpansAreUnbroken
<1>1. NetworkInv /\ [NetworkNext]_networkVars =>
        [\A e \in events'.completed :
           /\ e.openedAt = streak[e.key]
           /\ e.openedAt <= e.closedAt /\ e.closedAt <= e.ts]_events
  BY SpansStep
<1> QED BY <1>1, NetworkInvariant, PTL DEF NetworkSpec, SpansAreUnbroken
=============================================================================
