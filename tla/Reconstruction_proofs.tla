------------------------ MODULE Reconstruction_proofs ------------------------
(***************************************************************************)
(* Theorems about the Reconstructor and what feeds it (Reconstruction), for *)
(* every set of sockets, connections and apps, every gap and interval.     *)
(***************************************************************************)
EXTENDS Reconstruction, NetworkLifecycle_proofs, Counting_proofs, FiniteSetTheorems

-----------------------------------------------------------------------------
(* The stage of the network source is used as NetworkLifecycle says.       *)

ClockInv ==
  /\ now \in Time
  /\ lastObsTs \in Time \cup {NoTs}
  /\ lastObsTs <= now

\* A call of the network stage is one that NetworkLifecycle allows.
LEMMA NetworkCall ==
  ASSUME ClockInv,
         \/ \E k \in ConnectionKey : Accumulate(k, now) \/ BeginTick(k, now)
         \/ OnTickComplete(now)
  PROVE  NetworkNext /\ lastObsTs' \in {now, lastObsTs}
BY DEF ClockInv, NetworkNext, Accumulate, BeginTick, OnTickComplete, FinalizeTick

\* What each action of the system does to the network stage.
LEMMA StepOfStage ==
  ASSUME [Next]_vars
  PROVE  \/ UNCHANGED networkVars
         \/ \E k \in ConnectionKey : Accumulate(k, now) \/ BeginTick(k, now)
         \/ OnTickComplete(now)
<1>1. CASE SocketStep
  <2>1. CASE StartPoll
    BY <2>1 DEF StartPoll, PollNative, PollNativeFails, PollNetstat
  <2>2. CASE WalkStep
    <3>1. CASE FetchHalf \/ EndPoll
      BY <3>1 DEF FetchHalf, EndPoll
    <3>2. CASE \E s \in Socket : EmitRow(s, now)
      BY <3>2, AdapterAssumption DEF EmitRow
    <3> QED BY <2>2, <3>1, <3>2 DEF WalkStep
  <2>3. CASE LostRow
    BY <2>3 DEF LostRow, LoseRow
  <2>4. CASE Traffic
    BY <2>4 DEF Traffic, OpenSocket, CloseSocket
  <2> QED BY <1>1, <2>1, <2>2, <2>3, <2>4 DEF SocketStep
<1>2. CASE FileStep \/ FocusStep \/ TableStep \/ Advance
  BY <1>2 DEF FileStep, FocusStep, TableStep, Advance
<1>3. CASE EndOfInput
  BY <1>3 DEF EndOfInput
<1>4. CASE UNCHANGED vars
  BY <1>4 DEF vars
<1> QED BY <1>1, <1>2, <1>3, <1>4 DEF Next

\* Only Advance moves the clock.
LEMMA StepOfClock ==
  ASSUME [Next]_vars
  PROVE  \/ now' = now
         \/ now < MaxTime /\ now' = now + 1 /\ UNCHANGED networkVars
<1>1. CASE Advance
  BY <1>1 DEF Advance
<1>2. CASE SocketStep \/ FileStep \/ FocusStep \/ TableStep \/ EndOfInput
  BY <1>2 DEF SocketStep, FileStep, FocusStep, TableStep, EndOfInput
<1>3. CASE UNCHANGED vars
  BY <1>3 DEF vars
<1> QED BY <1>1, <1>2, <1>3 DEF Next

\* The clock is ahead of the stage.
LEMMA ClockStep ==
  ASSUME ClockInv, [Next]_vars
  PROVE  ClockInv'
<1>1. now' \in Time /\ now' >= now
  BY StepOfClock, ReconstructionAssumption DEF ClockInv
<1>2. lastObsTs' \in {now, lastObsTs}
  <2>1. CASE UNCHANGED networkVars
    BY <2>1 DEF networkVars
  <2> QED BY <2>1, StepOfStage, NetworkCall
<1> QED BY <1>1, <1>2, ReconstructionAssumption DEF ClockInv, NoTs

\* The system uses the stage of the network source as NetworkLifecycle says:
\* its own theorems are theorems of the system.
THEOREM SystemImplementsNetworkSpec == Spec => NetworkSpec
<1>1. Init => NetworkInit /\ ClockInv
  BY ReconstructionAssumption DEF Init, NetworkInit, ClockInv, NoTs
<1>2. ClockInv /\ [Next]_vars => ClockInv'
  BY ClockStep
<1>3. ClockInv /\ [Next]_vars => [NetworkNext]_networkVars
  BY StepOfStage, NetworkCall
<1> QED BY <1>1, <1>2, <1>3, PTL DEF Spec, NetworkSpec

\* Through polls of either kind, losses, shared keys and flushes: a completed
\* event reports the span of an unbroken row of ticks.
THEOREM SystemSpansAreUnbroken == Spec => SpansAreUnbroken
BY SystemImplementsNetworkSpec, SpansAreAlwaysUnbroken, PTL

-----------------------------------------------------------------------------
(* OnlyLossHidesFocus *)

FocusInv ==
  /\ sampled = reading
  /\ ~hidden => focus.bundle = reading.bundle

\* Only a poll of the front app touches what the invariant is about.
LEMMA FocusInvStep ==
  ASSUME FocusInv, [Next]_vars
  PROVE  FocusInv'
<1>1. CASE UNCHANGED <<reading, focus, sampled, hidden>>
  BY <1>1 DEF FocusInv
<1>2. ASSUME NEW lost \in BOOLEAN, PollDiff(lost)  PROVE FocusInv'
  <2>1. CASE front = reading /\ UNCHANGED <<reading, focus, hidden>>
    BY <1>2, <2>1 DEF PollDiff, FocusInv
  <2>2. CASE reading' = front /\ OnTransition(reading, front)
    BY <1>2, <2>2 DEF PollDiff, OnTransition, FocusInv
  <2>3. CASE reading' = front /\ hidden' = TRUE
    BY <1>2, <2>3 DEF PollDiff, FocusInv
  <2> QED BY <1>2, <2>1, <2>2, <2>3 DEF PollDiff
<1>3. CASE FocusStep
  BY <1>1, <1>2, <1>3 DEF FocusStep, Activate
<1>4. CASE SocketStep \/ FileStep \/ TableStep \/ EndOfInput \/ Advance
  BY <1>1, <1>4 DEF SocketStep, FileStep, TableStep, EndOfInput, Advance, focusVars
<1>5. CASE UNCHANGED vars
  BY <1>1, <1>5 DEF vars, focusVars
<1> QED BY <1>3, <1>4, <1>5 DEF Next

\* Layer 2 is right about the app in front unless a transition was lost.
THEOREM FocusIsTrue == Spec => []OnlyLossHidesFocus
<1>1. Init => FocusInv
  BY DEF Init, FocusInit, FocusInv
<1>2. FocusInv /\ [Next]_vars => FocusInv'
  BY FocusInvStep
<1>3. FocusInv => OnlyLossHidesFocus
  BY DEF FocusInv, OnlyLossHidesFocus
<1> QED BY <1>1, <1>2, <1>3, PTL DEF Spec

-----------------------------------------------------------------------------
(* OnlyGapsInventCloses.  Between polls the tick that is being assembled    *)
(* has all of the last walk.  Within a poll what was read is in it already  *)
(* or still to be emitted, once a first row has reached it; before that, it *)
(* has all of the walk before.                                             *)

\* The bookkeeping of a poll, whatever is lost.
WalkInv ==
  /\ KeysOf(rows) \subseteq walked
  /\ reached => walked # {}
  /\ ~polling => ~reached /\ walked = {} /\ rows = {} /\ toFetch = <<>>

TickHasWalk ==
  /\ ~reached => lastWalk \subseteq DOMAIN current
  /\ reached => walked \subseteq KeysOf(rows) \cup DOMAIN current
  /\ ~reached => walked \subseteq KeysOf(rows)

GapInv == WalkInv /\ (intact /\ ~done => TickHasWalk)

\* A row of this poll gets through.
LEMMA GapEmit ==
  ASSUME GapInv, ~done, ~done', NEW s \in Socket, NEW ts, EmitRow(s, ts)
  PROVE  GapInv'
<1>1. /\ s \in rows /\ rows' = rows \ {s} /\ reached' = TRUE
      /\ UNCHANGED <<polling, walked, lastWalk>>
  BY DEF EmitRow
<1>2. KeyOf(s) \in walked
  BY <1>1 DEF GapInv, WalkInv, KeysOf
<1>3. WalkInv'
  BY <1>1, <1>2 DEF GapInv, WalkInv, KeysOf
<1>4. ASSUME intact'  PROVE TickHasWalk'
  <2>1. KeysOf(rows) \subseteq KeysOf(rows') \cup {KeyOf(s)}
    BY <1>1 DEF KeysOf
  <2>2. CASE Accumulate(KeyOf(s), ts) /\ UNCHANGED intact
    <3>1. DOMAIN current' = DOMAIN current \cup {KeyOf(s)}
      BY <2>2 DEF Accumulate, Insert
    <3>2. walked \subseteq KeysOf(rows) \cup DOMAIN current
      BY <1>4, <2>2 DEF GapInv, TickHasWalk
    <3> QED BY <1>1, <2>1, <3>1, <3>2 DEF TickHasWalk
  <2>3. CASE BeginTick(KeyOf(s), ts) /\ intact' = (intact /\ ~reached)
    <3>1. DOMAIN current' = {KeyOf(s)}
      BY <2>3 DEF BeginTick, Insert, EmptyTick
    <3>2. walked \subseteq KeysOf(rows)
      BY <1>4, <2>3 DEF GapInv, TickHasWalk
    <3> QED BY <1>1, <2>1, <3>1, <3>2 DEF TickHasWalk
  <2> QED BY <2>2, <2>3 DEF EmitRow
<1> QED BY <1>3, <1>4 DEF GapInv

\* The other steps of a poll do not touch the stage.
LEMMA GapPoll ==
  ASSUME GapInv, ~done, ~done',
         \/ StartPoll \/ FetchHalf \/ EndPoll \/ Traffic
         \/ \E s \in Socket : LoseRow(s)
  PROVE  GapInv'
<1>1. CASE PollNative
  BY <1>1 DEF PollNative, Fetched, GapInv, WalkInv, TickHasWalk, networkVars, KeysOf
<1>2. CASE PollNativeFails \/ PollNetstat
  BY <1>2 DEF PollNativeFails, PollNetstat, GapInv, WalkInv, TickHasWalk,
              networkVars, walkVars, KeysOf
<1>3. CASE FetchHalf
  <2>1. CASE intact' = FALSE /\ UNCHANGED <<rows, walked>>
    BY <1>3, <2>1 DEF FetchHalf, GapInv, WalkInv
  <2>2. CASE Fetched({s \in openSockets : ProtoOf(s) = Head(toFetch)}) /\ UNCHANGED intact
    <3>1. /\ rows = {} /\ UNCHANGED <<current, polling, reached, lastWalk, intact>>
          /\ walked' = walked \cup KeysOf(rows')
      BY <1>3, <2>2 DEF FetchHalf, Fetched, networkVars
    <3>2. polling
      BY <1>3 DEF FetchHalf, GapInv, WalkInv
    <3> QED BY <3>1, <3>2 DEF GapInv, WalkInv, TickHasWalk, KeysOf
  <2> QED BY <1>3, <2>1, <2>2 DEF FetchHalf
<1>4. CASE EndPoll
  BY <1>4 DEF EndPoll, GapInv, WalkInv, TickHasWalk, networkVars, KeysOf
<1>5. CASE Traffic
  BY <1>5 DEF Traffic, OpenSocket, CloseSocket, GapInv, WalkInv, TickHasWalk,
              networkVars, pollVars, walkVars, KeysOf
<1>6. CASE \E s \in Socket : LoseRow(s)
  BY <1>6 DEF LoseRow, GapInv, WalkInv, KeysOf
<1> QED BY <1>1, <1>2, <1>3, <1>4, <1>5, <1>6 DEF StartPoll

\* A step of the system keeps the bookkeeping true until the input ends.
LEMMA GapStep ==
  ASSUME GapInv, [Next]_vars
  PROVE  GapInv'
<1>1. CASE UNCHANGED <<networkVars, adapterVars, done>>
  BY <1>1 DEF GapInv, WalkInv, TickHasWalk, networkVars, adapterVars, pollVars,
              walkVars, KeysOf
<1>2. CASE SocketStep
  <2>1. ~done /\ ~done'
    BY <1>2 DEF SocketStep, common
  <2>2. \/ StartPoll \/ FetchHalf \/ EndPoll \/ Traffic
        \/ \E s \in Socket : LoseRow(s)
        \/ \E s \in Socket : EmitRow(s, now)
    BY <1>2 DEF SocketStep, WalkStep, LostRow
  <2> QED BY <2>1, <2>2, GapEmit, GapPoll
<1>3. CASE FileStep \/ FocusStep \/ TableStep \/ Advance
  BY <1>1, <1>3 DEF FileStep, FocusStep, TableStep, Advance, common
<1>4. CASE EndOfInput
  <2>1. done' = TRUE /\ UNCHANGED <<rows, walked, reached, polling, toFetch>>
    BY <1>4 DEF EndOfInput, adapterVars, pollVars, walkVars
  <2> QED BY <2>1 DEF GapInv, WalkInv, KeysOf
<1>5. CASE UNCHANGED vars
  BY <1>1, <1>5 DEF vars
<1> QED BY <1>2, <1>3, <1>4, <1>5 DEF Next

\* What the stage closes, the finished tick does not have.
LEMMA ClosedIsMissing ==
  ASSUME NEW ts, FinalizeTick(ts), NEW e \in events'.closed
  PROVE  e.key \notin DOMAIN current
BY DEF FinalizeTick, Closed, NoEvents

\* A step reports closed only what the last poll did not see.
LEMMA GapCloses ==
  ASSUME GapInv, [Next]_vars, intact', events' # events, NEW e \in events'.closed
  PROVE  e.key \notin lastWalk
<1>1. CASE \E s \in Socket : EmitRow(s, now) /\ ~done
  <2> PICK s \in Socket : EmitRow(s, now)
    BY <1>1
  <2>1. BeginTick(KeyOf(s), now) /\ intact /\ ~reached
    <3>1. CASE Accumulate(KeyOf(s), now)
      <4>1. events' = NoEvents
        BY <3>1 DEF Accumulate
      <4> QED BY <4>1 DEF NoEvents
    <3>2. CASE BeginTick(KeyOf(s), now) /\ intact' = (intact /\ ~reached)
      BY <3>2, Zenon
    <3> QED BY <3>1, <3>2, Zenon DEF EmitRow
  <2>2. FinalizeTick(lastObsTs)
    BY <2>1 DEF BeginTick
  <2>3. lastWalk \subseteq DOMAIN current
    BY <1>1, <2>1 DEF GapInv, TickHasWalk
  <2> QED BY <2>2, <2>3, ClosedIsMissing
<1>2. CASE EndOfInput
  <2>1. FinalizeTick(now) /\ ~polling /\ ~done /\ intact
    BY <1>2 DEF EndOfInput, OnTickComplete, adapterVars, walkVars
  <2>2. lastWalk \subseteq DOMAIN current
    BY <2>1 DEF GapInv, WalkInv, TickHasWalk
  <2> QED BY <2>1, <2>2, ClosedIsMissing
<1>3. CASE UNCHANGED networkVars
  BY <1>3 DEF networkVars
<1>4. \/ UNCHANGED networkVars
      \/ \E s \in Socket : EmitRow(s, now) /\ ~done
      \/ EndOfInput
  <2>1. CASE SocketStep
    BY <2>1 DEF SocketStep, StartPoll, WalkStep, LostRow, Traffic, PollNative,
                PollNativeFails, PollNetstat, FetchHalf, EndPoll, LoseRow,
                OpenSocket, CloseSocket
  <2>2. CASE FileStep \/ FocusStep \/ TableStep \/ Advance
    BY <2>2 DEF FileStep, FocusStep, TableStep, Advance
  <2>3. CASE UNCHANGED vars
    BY <2>3 DEF vars
  <2> QED BY <2>1, <2>2, <2>3 DEF Next
<1> QED BY <1>1, <1>2, <1>3, <1>4

\* No close is reported of a connection that the last poll saw, unless a row
\* was lost, a half of a poll failed or a row came late.
THEOREM OnlyGapsEverInventCloses == Spec => OnlyGapsInventCloses
<1>1. Init => GapInv
  BY DEF Init, AdapterInit, GapInv, WalkInv, TickHasWalk, KeysOf
<1>2. GapInv /\ [Next]_vars => GapInv'
  BY GapStep
<1>3. GapInv /\ [Next]_vars =>
        [intact' => \A e \in events'.closed : e.key \notin lastWalk]_events
  BY GapCloses
<1> QED BY <1>1, <1>2, <1>3, PTL DEF Spec, OnlyGapsInventCloses

-----------------------------------------------------------------------------
(* EachChangeOnce.  A report, told or gathered, has the changes of its path *)
(* in its span.  What is gathered is of the window of the last event and of *)
(* a path's last change; what was told is of windows before, so that the    *)
(* next change is in no span that was told.                                 *)

Within(S, e) == {t \in S : t.path = e.path /\ e.first <= t.ts /\ t.ts <= e.last}

WithId(S, e) == {t \in Within(S, e) : t.id # NoId}

IsReportOf(S, e) ==
  /\ e.first \in Nat /\ e.last \in Nat /\ e.first <= e.last
  /\ WindowOf(e.first) = WindowOf(e.last)
  /\ e.ids \in Seq(Nat)
  /\ ToSet(e.ids) = {t.id : t \in WithId(S, e)}
  /\ IsFiniteSet(WithId(S, e)) /\ Cardinality(WithId(S, e)) = Len(e.ids)

\* What a change adds to the ids of its path.
Extended(ids, id) == IF id = NoId THEN ids ELSE Append(ids, id)

WithChange(r, ts, id) ==
  [r EXCEPT !.last = ts, !.ids = IF id = NoId THEN @ ELSE Append(@, id)]

Report(p, r) == [path |-> p, ids |-> r.ids, first |-> r.first, last |-> r.last]

EventClock ==
  /\ now \in Nat /\ lastTs \in Nat /\ lastTs <= now
  /\ IF currentWindow = NoWindow THEN taken = {} /\ DOMAIN buffer = {} /\ told = {}
     ELSE currentWindow = WindowOf(lastTs)

TakenInv ==
  /\ IsFiniteSet(taken)
  /\ \A t \in taken :
       /\ t.nth \in 1..Cardinality(taken) /\ t.id \in Nat
       /\ t.ts \in Nat /\ t.ts <= lastTs
       /\ ~done /\ WindowOf(t.ts) = currentWindow => t.path \in DOMAIN buffer

\* What is gathered of a path.
IsGathered(S, p, r) ==
  /\ r = [ids |-> r.ids, first |-> r.first, last |-> r.last]
  /\ IsReportOf(S, Report(p, r))
  /\ \A t \in S : t.path = p => t.ts <= r.last

BufferInv ==
  \A p \in DOMAIN buffer :
    /\ IsGathered(taken, p, buffer[p])
    /\ ~done /\ WindowOf(buffer[p].first) = currentWindow /\ buffer[p].last <= lastTs

Apart(d, e) == d # e /\ d.path = e.path => d.last < e.first \/ e.last < d.first

ToldInv ==
  /\ \A e \in told :
       /\ IsReportOf(taken, e)
       /\ e.ts \in Nat /\ e.last <= e.ts /\ WindowOf(e.ts) = WindowOf(e.first)
       /\ ~done => WindowOf(e.last) < currentWindow
  /\ \A d, e \in told : Apart(d, e)

IsReported(t) ==
  \/ \E e \in told : t \in Within(taken, e)
  \/ t.path \in DOMAIN buffer /\ t \in Within(taken, Report(t.path, buffer[t.path]))

ReportedInv == \A t \in taken : IsReported(t)

CoalesceInv == EventClock /\ TakenInv /\ BufferInv /\ ToldInv /\ ReportedInv

-----------------------------------------------------------------------------
\* Windows follow each other.
LEMMA WindowsGrow ==
  ASSUME NEW s \in Nat, NEW t \in Nat
  PROVE  /\ WindowOf(s) \in Nat
         /\ s <= t => WindowOf(s) <= WindowOf(t)
         /\ WindowOf(s) < WindowOf(t) => s < t
<1>1. \A x, y \in Nat : x <= y => WindowOf(x) <= WindowOf(y)
  BY CoalesceAssumption DEF WindowOf
<1>2. WindowOf(s) \in Nat /\ WindowOf(t) \in Nat
  BY CoalesceAssumption DEF WindowOf
<1> QED BY <1>1, <1>2

\* A change of another path, or after a report's span, is not in it.
LEMMA ReportKept ==
  ASSUME NEW S, NEW e, IsReportOf(S, e), NEW t, t.ts \in Nat,
         t.path # e.path \/ e.last < t.ts
  PROVE  IsReportOf(S \cup {t}, e) /\ Within(S \cup {t}, e) = Within(S, e)
<1>1. ~ (t.path = e.path /\ e.first <= t.ts /\ t.ts <= e.last)
  BY DEF IsReportOf
<1>2. Within(S \cup {t}, e) = Within(S, e)
  BY <1>1 DEF Within
<1>3. WithId(S \cup {t}, e) = WithId(S, e)
  BY <1>2 DEF WithId
<1> QED BY <1>2, <1>3 DEF IsReportOf

\* A change of the path in the same window is added to what is gathered.
LEMMA ReportGrown ==
  ASSUME NEW S, NEW p, NEW r, IsGathered(S, p, r), NEW t, t \notin S,
         \A x \in S : x.ts \in Nat,
         t.path = p, t.ts \in Nat, t.id \in Nat, r.last \in Nat, r.last <= t.ts,
         WindowOf(r.first) = WindowOf(t.ts),
         NEW g, g = [ids |-> g.ids, first |-> g.first, last |-> g.last],
         g.ids = Extended(r.ids, t.id),
         g.first = r.first, g.last = t.ts
  PROVE  /\ IsGathered(S \cup {t}, p, g)
         /\ Within(S \cup {t}, Report(p, g)) = Within(S, Report(p, r)) \cup {t}
<1> DEFINE e == Report(p, r)
<1> DEFINE f == Report(p, g)
<1>2. /\ e.path = p /\ e.first = r.first /\ e.last = r.last /\ e.ids = r.ids
      /\ f.path = p /\ f.first = r.first /\ f.last = t.ts /\ f.ids = g.ids
  BY DEF Report
<1>3. IsReportOf(S, e) /\ r.first \in Nat /\ r.last \in Nat
  BY <1>2 DEF IsGathered, IsReportOf
<1> HIDE DEF e, f
<1>4. r.first <= t.ts
  BY <1>2, <1>3 DEF IsReportOf
<1>5. Within(S \cup {t}, f) = Within(S, e) \cup {t}
  <2>1. ASSUME NEW x \in S, x.path = p  PROVE x.ts <= r.last /\ x.ts <= t.ts
    BY <1>3, <2>1 DEF IsGathered
  <2>2. t \in Within(S \cup {t}, f)
    BY <1>2, <1>4 DEF Within
  <2>3. ASSUME NEW x \in S  PROVE x \in Within(S \cup {t}, f) <=> x \in Within(S, e)
    BY <1>2, <2>1 DEF Within
  <2> QED BY <2>2, <2>3 DEF Within
<1>6. IsReportOf(S \cup {t}, f)
  <2>1. f.first <= f.last /\ WindowOf(f.first) = WindowOf(f.last)
    BY <1>2, <1>4
  <2>2. CASE t.id = NoId
    <3>1. WithId(S \cup {t}, f) = WithId(S, e) /\ f.ids = e.ids
      BY <1>2, <1>5, <2>2 DEF WithId, Extended
    <3> QED BY <1>2, <1>3, <2>1, <3>1 DEF IsReportOf
  <2>3. CASE t.id # NoId
    <3>1. WithId(S \cup {t}, f) = WithId(S, e) \cup {t} /\ f.ids = Append(e.ids, t.id)
      BY <1>2, <1>5, <2>3 DEF WithId, Extended
    <3>2. t \notin WithId(S, e)
      BY DEF WithId, Within
    <3>3. /\ IsFiniteSet(WithId(S, e)) /\ Cardinality(WithId(S, e)) = Len(e.ids)
          /\ e.ids \in Seq(Nat) /\ ToSet(e.ids) = {x.id : x \in WithId(S, e)}
      BY <1>3 DEF IsReportOf
    <3>4. /\ IsFiniteSet(WithId(S, e) \cup {t})
          /\ Cardinality(WithId(S, e) \cup {t}) = Len(e.ids) + 1
      BY <3>2, <3>3, FS_AddElement
    <3>5. f.ids \in Seq(Nat) /\ Len(f.ids) = Len(e.ids) + 1
      BY <3>1, <3>3
    <3>6. ToSet(f.ids) = ToSet(e.ids) \cup {t.id}
      <4>1. /\ \A i \in 1..Len(e.ids) : f.ids[i] = e.ids[i]
            /\ f.ids[Len(e.ids) + 1] = t.id
            /\ DOMAIN f.ids = 1..Len(e.ids) + 1 /\ DOMAIN e.ids = 1..Len(e.ids)
            /\ Len(e.ids) \in Nat
        BY <3>1, <3>3
      <4> DEFINE m == Len(e.ids)
      <4> HIDE DEF m
      <4>2. ToSet(e.ids) = {e.ids[i] : i \in 1..m}
        BY <4>1 DEF ToSet, m
      <4>3. ToSet(f.ids) = {f.ids[i] : i \in 1..m + 1}
        BY <4>1 DEF ToSet, m
      <4>4. /\ m \in Nat /\ f.ids[m + 1] = t.id
            /\ \A i \in 1..m : f.ids[i] = e.ids[i]
        BY <4>1 DEF m
      <4>5. ASSUME NEW x \in ToSet(f.ids)  PROVE x \in ToSet(e.ids) \cup {t.id}
        <5>1. PICK i \in 1..m + 1 : x = f.ids[i]
          BY <4>3
        <5>2. i = m + 1 \/ i \in 1..m
          BY <4>4
        <5> QED BY <4>2, <4>4, <5>1, <5>2
      <4>6. ASSUME NEW x \in ToSet(e.ids) \cup {t.id}  PROVE x \in ToSet(f.ids)
        <5>1. \/ x = t.id
              \/ \E i \in 1..m : x = e.ids[i]
          BY <4>2
        <5>2. m + 1 \in 1..m + 1 /\ \A i \in 1..m : i \in 1..m + 1
          BY <4>4
        <5> QED BY <4>3, <4>4, <5>1, <5>2
      <4> QED BY <4>5, <4>6
    <3>7. ToSet(f.ids) = {x.id : x \in WithId(S \cup {t}, f)}
      BY <3>1, <3>3, <3>6
    <3> QED BY <1>2, <1>3, <2>1, <3>1, <3>4, <3>5, <3>7 DEF IsReportOf
  <2> QED BY <2>2, <2>3
<1>7. \A x \in S \cup {t} : x.path = p => x.ts <= g.last
  BY <1>3 DEF IsGathered
<1> QED BY <1>5, <1>6, <1>7 DEF IsGathered, e, f

\* So is the first one, to nothing.
LEMMA ReportBegun ==
  ASSUME NEW S, NEW p, NEW ts \in Nat, \A x \in S : x.path = p => x.ts \in Nat /\ x.ts < ts,
         NEW r, r = [ids |-> <<>>, first |-> ts, last |-> ts]
  PROVE  IsGathered(S, p, r) /\ Within(S, Report(p, r)) = {}
<1> DEFINE f == Report(p, r)
<1>1. f.first = ts /\ f.last = ts /\ f.ids = <<>> /\ f.path = p
  BY DEF Report
<1> HIDE DEF f
<1>2. Within(S, f) = {}
  BY <1>1 DEF Within
<1>3. WithId(S, f) = {} /\ {t.id : t \in WithId(S, f)} = {}
  BY <1>2 DEF WithId
<1>4. ToSet(f.ids) = {} /\ f.ids \in Seq(Nat) /\ Len(f.ids) = 0
  BY <1>1 DEF ToSet
<1>5. IsFiniteSet({}) /\ Cardinality({}) = 0
  BY FS_EmptySet
<1>6. IsReportOf(S, f)
  BY <1>1, <1>3, <1>4, <1>5 DEF IsReportOf
<1> QED BY <1>2, <1>6 DEF IsGathered, f

\* A change that joins others moves the end of what is gathered, and adds its
\* id if there is room.
LEMMA Gathers ==
  ASSUME NEW r, r = [ids |-> r.ids, first |-> r.first, last |-> r.last],
         NEW ts, NEW id, NEW g, g = WithChange(r, ts, id)
  PROVE  /\ g.first = r.first /\ g.last = ts /\ g.ids = Extended(r.ids, id)
         /\ g = [ids |-> g.ids, first |-> g.first, last |-> g.last]
BY DEF Extended, WithChange

\* What is drained are reports, apart from those told before and complete.
LEMMA Drained ==
  ASSUME CoalesceInv, ~done
  PROVE  /\ \A d \in DrainBuffer :
              /\ IsReportOf(taken, d) /\ WindowOf(d.last) = currentWindow
              /\ d.ts \in Nat /\ d.last <= d.ts /\ WindowOf(d.ts) = WindowOf(d.first)
         /\ \A d, e \in told \cup DrainBuffer : Apart(d, e)
         /\ \A t \in taken : \E e \in told \cup DrainBuffer : t \in Within(taken, e)
<1> USE DEF CoalesceInv
<1>1. ASSUME NEW d \in DrainBuffer
      PROVE  \E p \in DOMAIN buffer :
               /\ d.path = p /\ d.ids = buffer[p].ids /\ d.first = buffer[p].first
               /\ d.last = buffer[p].last /\ d.ts = lastTs
               /\ d = [path |-> p, ids |-> buffer[p].ids, count |-> Len(buffer[p].ids),
                       first |-> buffer[p].first, last |-> buffer[p].last, ts |-> lastTs]
  BY DEF DrainBuffer
<1>2. ASSUME NEW d, NEW p \in DOMAIN buffer,
             d.path = p, d.ids = buffer[p].ids, d.first = buffer[p].first,
             d.last = buffer[p].last
      PROVE  /\ IsReportOf(taken, d)
             /\ Within(taken, d) = Within(taken, Report(p, buffer[p]))
             /\ WindowOf(d.last) = currentWindow /\ WindowOf(d.first) = currentWindow
             /\ d.last <= lastTs
  <2> DEFINE e == Report(p, buffer[p])
  <2>1. e.path = d.path /\ e.ids = d.ids /\ e.first = d.first /\ e.last = d.last
    BY <1>2 DEF Report
  <2>2. IsReportOf(taken, e)
    BY DEF BufferInv, IsGathered
  <2>3. WindowOf(d.first) = currentWindow /\ d.last <= lastTs
    BY <1>2 DEF BufferInv
  <2> HIDE DEF e
  <2>4. Within(taken, d) = Within(taken, e)
    BY <2>1 DEF Within
  <2>5. WithId(taken, d) = WithId(taken, e)
    BY <2>4 DEF WithId
  <2>6. IsReportOf(taken, d)
    BY <2>1, <2>2, <2>5 DEF IsReportOf
  <2>7. WindowOf(d.first) = WindowOf(d.last)
    BY <2>6 DEF IsReportOf
  <2> QED BY <2>3, <2>4, <2>6, <2>7 DEF e
<1>3. ASSUME NEW d \in DrainBuffer
      PROVE  /\ IsReportOf(taken, d) /\ WindowOf(d.last) = currentWindow
             /\ WindowOf(d.first) = currentWindow
             /\ d.ts \in Nat /\ d.last <= d.ts /\ WindowOf(d.ts) = WindowOf(d.first)
  <2>1. currentWindow = WindowOf(lastTs) /\ lastTs \in Nat
    BY <1>1 DEF EventClock
  <2> QED BY <1>1, <1>2, <2>1
<1>4. ASSUME NEW d \in told \cup DrainBuffer, NEW e \in told \cup DrainBuffer
      PROVE  Apart(d, e)
  <2>1. ASSUME NEW x \in told, NEW y \in DrainBuffer  PROVE x.last < y.first
    <3>1. WindowOf(x.last) < WindowOf(y.first) /\ x.last \in Nat /\ y.first \in Nat
      BY <1>3 DEF ToldInv, IsReportOf
    <3> QED BY <3>1, WindowsGrow
  <2>2. CASE d \in told /\ e \in told
    BY <2>2 DEF ToldInv
  <2>3. CASE d \in DrainBuffer /\ e \in DrainBuffer
    <3>1. d.path = e.path => d = e
      BY <1>1, <2>3
    <3> QED BY <3>1 DEF Apart
  <2> QED BY <2>1, <2>2, <2>3 DEF Apart
<1>5. ASSUME NEW t \in taken  PROVE \E e \in told \cup DrainBuffer : t \in Within(taken, e)
  <2>1. CASE \E e \in told : t \in Within(taken, e)
    BY <2>1
  <2>2. CASE t.path \in DOMAIN buffer /\ t \in Within(taken, Report(t.path, buffer[t.path]))
    <3> DEFINE p == t.path
    <3> DEFINE d == [path |-> p, ids |-> buffer[p].ids, count |-> Len(buffer[p].ids),
                     first |-> buffer[p].first, last |-> buffer[p].last, ts |-> lastTs]
    <3>1. d \in DrainBuffer
      BY <2>2 DEF DrainBuffer
    <3>2. Within(taken, d) = Within(taken, Report(p, buffer[p]))
      BY <1>2, <2>2
    <3> QED BY <2>2, <3>1, <3>2
  <2> QED BY <2>1, <2>2 DEF ReportedInv, IsReported
<1> QED BY <1>3, <1>4, <1>5

\* A change is a new one, and the last.
LEMMA TakenGrows ==
  ASSUME CoalesceInv, NEW t, t.nth = Cardinality(taken) + 1
  PROVE  /\ t \notin taken /\ IsFiniteSet(taken \cup {t})
         /\ Cardinality(taken \cup {t}) = Cardinality(taken) + 1
         /\ Cardinality(taken) \in Nat
<1>1. IsFiniteSet(taken) /\ Cardinality(taken) \in Nat
  BY FS_CardinalityType DEF CoalesceInv, TakenInv
<1>2. t \notin taken
  BY <1>1 DEF CoalesceInv, TakenInv
<1> QED BY <1>1, <1>2, FS_AddElement

\* What was told has nothing of a change in a later window.
LEMMA ToldKept ==
  ASSUME CoalesceInv, NEW T, NEW t, t.ts \in Nat,
         \A e \in T : IsReportOf(taken, e) /\ WindowOf(e.last) < WindowOf(t.ts)
  PROVE  \A e \in T : /\ IsReportOf(taken \cup {t}, e)
                      /\ Within(taken \cup {t}, e) = Within(taken, e)
<1> SUFFICES ASSUME NEW e \in T
             PROVE  /\ IsReportOf(taken \cup {t}, e)
                    /\ Within(taken \cup {t}, e) = Within(taken, e)
  OBVIOUS
<1>1. IsReportOf(taken, e) /\ WindowOf(e.last) < WindowOf(t.ts)
  OBVIOUS
<1>2. e.last < t.ts
  BY <1>1, WindowsGrow DEF IsReportOf
<1> QED BY <1>1, <1>2, ReportKept

\* The first event, or one of a later window: what was gathered is told, and
\* the change is the first of its path.
LEMMA CoalesceStarts ==
  ASSUME CoalesceInv, ~done, NEW p, NEW id \in Nat, OnFileEvent(p, id, now),
         StartsWindow(now), NEW t,
         t = [path |-> p, id |-> id, ts |-> now, nth |-> Cardinality(taken) + 1],
         taken' = taken \cup {t}, told' = told \cup changed', UNCHANGED <<done, now>>
  PROVE  CoalesceInv'
<1> DEFINE r == [ids |-> <<>>, first |-> now, last |-> now]
<1> DEFINE g == WithChange(r, now, id)
<1>0. /\ t.path = p /\ t.id = id /\ t.ts = now /\ t.nth = Cardinality(taken) + 1
      /\ now \in Nat /\ now <= now /\ lastTs \in Nat /\ lastTs <= now
  BY DEF CoalesceInv, EventClock
<1>1. /\ told' = told \cup DrainBuffer /\ currentWindow' = WindowOf(now) /\ lastTs' = now
      /\ currentWindow # NoWindow /\ currentWindow = WindowOf(lastTs)
      /\ currentWindow < WindowOf(now)
  BY DEF OnFileEvent, StartsWindow, CoalesceInv, EventClock
<1>2. DOMAIN buffer' = {p} /\ buffer'[p] = g
  <2>1. buffer' = Merged(p, id, now, <<>>)
    BY DEF OnFileEvent
  <2>2. Merged(p, id, now, <<>>) = Put(<<>>, p, g)
    BY DEF Merged, WithChange
  <2> HIDE DEF g
  <2> QED BY <2>1, <2>2 DEF Put
<1>3. /\ t \notin taken /\ IsFiniteSet(taken') /\ Cardinality(taken) \in Nat
      /\ Cardinality(taken') = Cardinality(taken) + 1
  BY <1>0, TakenGrows
<1>4. \A x \in taken : x.ts \in Nat /\ WindowOf(x.ts) <= currentWindow /\ x.ts < now
  <2> SUFFICES ASSUME NEW x \in taken
               PROVE  x.ts \in Nat /\ WindowOf(x.ts) <= currentWindow /\ x.ts < now
    OBVIOUS
  <2>1. x.ts \in Nat /\ x.ts <= lastTs
    BY DEF CoalesceInv, TakenInv
  <2>2. WindowOf(x.ts) <= currentWindow
    BY <1>0, <1>1, <2>1, WindowsGrow
  <2>3. WindowOf(x.ts) < WindowOf(now)
    BY <1>0, <1>1, <2>1, <2>2, WindowsGrow
  <2> QED BY <1>0, <2>1, <2>2, <2>3, WindowsGrow
<1>5. IsGathered(taken, p, r) /\ r.first = now /\ r.last = now
  BY <1>0, <1>4, ReportBegun
<1>6. /\ IsGathered(taken', p, g) /\ g.first = now /\ g.last = now
      /\ Within(taken', Report(p, g)) = Within(taken, Report(p, r)) \cup {t}
  <2> HIDE DEF r
  <2>1. \A x \in taken : x.ts \in Nat
    BY <1>4
  <2>2. r.last \in Nat /\ r.last <= t.ts /\ WindowOf(r.first) = WindowOf(t.ts)
    BY <1>0, <1>5
  <2>3. t \notin taken /\ t.path = p /\ t.ts \in Nat /\ t.id \in Nat
    BY <1>0, <1>3
  <2>4. r = [ids |-> r.ids, first |-> r.first, last |-> r.last]
    BY DEF r
  <2>6. /\ g.ids = Extended(r.ids, t.id) /\ g.first = r.first /\ g.last = t.ts
        /\ g = [ids |-> g.ids, first |-> g.first, last |-> g.last]
    BY <1>0, <2>4, Gathers
  <2> HIDE DEF g
  <2>5. /\ IsGathered(taken \cup {t}, p, g)
        /\ Within(taken \cup {t}, Report(p, g)) = Within(taken, Report(p, r)) \cup {t}
    BY <1>5, <2>1, <2>2, <2>3, <2>6, ReportGrown
  <2> QED BY <1>0, <1>5, <2>6, <2>5
<1> HIDE DEF r, g
<1>7. \A e \in told' : IsReportOf(taken, e) /\ WindowOf(e.last) < WindowOf(t.ts)
  <2>1. \A e \in told : IsReportOf(taken, e) /\ WindowOf(e.last) < currentWindow
    BY DEF CoalesceInv, ToldInv
  <2>2. \A e \in DrainBuffer : IsReportOf(taken, e) /\ WindowOf(e.last) = currentWindow
    BY Drained
  <2>3. WindowOf(lastTs) \in Nat /\ WindowOf(now) \in Nat
    BY <1>0, WindowsGrow
  <2>4. \A e \in told' : WindowOf(e.last) \in Nat
    BY <1>1, <2>1, <2>2, WindowsGrow DEF IsReportOf
  <2> QED BY <1>0, <1>1, <2>1, <2>2, <2>3, <2>4
<1>8. \A e \in told' : IsReportOf(taken', e) /\ Within(taken', e) = Within(taken, e)
  BY <1>0, <1>7, ToldKept
<1>9. EventClock'
  BY <1>0, <1>1, WindowsGrow DEF EventClock, NoWindow
<1>10. TakenInv'
  <2>1. ASSUME NEW x \in taken'
        PROVE  /\ x.nth \in 1..Cardinality(taken') /\ x.id \in Nat
               /\ x.ts \in Nat /\ x.ts <= lastTs'
               /\ WindowOf(x.ts) = currentWindow' => x.path \in DOMAIN buffer'
    <3>1. CASE x = t
      BY <1>0, <1>1, <1>2, <1>3, <3>1
    <3>2. CASE x \in taken
      <4>1. x.nth \in 1..Cardinality(taken) /\ x.id \in Nat
        BY <3>2 DEF CoalesceInv, TakenInv
      <4>2. WindowOf(x.ts) # WindowOf(now)
        <5>1. WindowOf(x.ts) \in Nat /\ WindowOf(now) \in Nat /\ currentWindow \in Nat
          BY <1>0, <1>1, <1>4, <3>2, WindowsGrow
        <5> QED BY <1>1, <1>4, <3>2, <5>1
      <4> QED BY <1>0, <1>1, <1>3, <1>4, <3>2, <4>1, <4>2
    <3> QED BY <3>1, <3>2
  <2> QED BY <1>3, <2>1 DEF TakenInv
<1>11. BufferInv'
  BY <1>0, <1>1, <1>2, <1>6 DEF BufferInv
<1>12. ToldInv'
  <2>1. ASSUME NEW e \in told'
        PROVE  /\ e.ts \in Nat /\ e.last <= e.ts /\ WindowOf(e.ts) = WindowOf(e.first)
               /\ WindowOf(e.last) < currentWindow'
    BY <1>0, <1>1, <1>7, Drained DEF CoalesceInv, ToldInv
  <2>2. \A d, e \in told' : Apart(d, e)
    BY <1>1, Drained
  <2> QED BY <1>8, <2>1, <2>2 DEF ToldInv
<1>13. ASSUME NEW x \in taken'
       PROVE  \/ \E e \in told' : x \in Within(taken', e)
              \/ x.path \in DOMAIN buffer' /\ x \in Within(taken', Report(x.path, buffer'[x.path]))
  <2>1. CASE x = t
    BY <1>0, <1>2, <1>6, <2>1
  <2>2. CASE x \in taken
    BY <1>1, <1>8, <2>2, Drained
  <2> QED BY <2>1, <2>2
<1> QED BY <1>9, <1>10, <1>11, <1>12, <1>13 DEF CoalesceInv, ReportedInv, IsReported

\* Within a window the change is added to what is gathered of its path.
LEMMA CoalesceContinues ==
  ASSUME CoalesceInv, ~done, NEW p, NEW id \in Nat, OnFileEvent(p, id, now),
         ~StartsWindow(now), NEW t,
         t = [path |-> p, id |-> id, ts |-> now, nth |-> Cardinality(taken) + 1],
         taken' = taken \cup {t}, told' = told \cup changed', UNCHANGED <<done, now>>
  PROVE  CoalesceInv'
<1> DEFINE r == IF p \in DOMAIN buffer THEN buffer[p]
                ELSE [ids |-> <<>>, first |-> now, last |-> now]
<1> DEFINE g == WithChange(r, now, id)
<1>0. /\ t.path = p /\ t.id = id /\ t.ts = now /\ t.nth = Cardinality(taken) + 1
      /\ now \in Nat /\ now <= now /\ lastTs \in Nat /\ lastTs <= now
  BY DEF CoalesceInv, EventClock
<1>1. /\ told' = told /\ currentWindow' = WindowOf(now) /\ lastTs' = now
  BY DEF OnFileEvent
<1>2. buffer' = Put(buffer, p, g)
  <2>1. buffer' = Merged(p, id, now, buffer)
    BY DEF OnFileEvent
  <2>2. Merged(p, id, now, buffer) = Put(buffer, p, g)
    BY DEF Merged, WithChange
  <2> HIDE DEF g
  <2> QED BY <2>1, <2>2
<1>3. /\ t \notin taken /\ IsFiniteSet(taken') /\ Cardinality(taken) \in Nat
      /\ Cardinality(taken') = Cardinality(taken) + 1
  BY <1>0, TakenGrows
<1>4. \A x \in taken : x.ts \in Nat /\ x.ts <= now
  BY <1>0 DEF CoalesceInv, TakenInv
<1>5. \/ /\ currentWindow = NoWindow /\ taken = {} /\ told = {} /\ DOMAIN buffer = {}
      \/ currentWindow # NoWindow /\ currentWindow = WindowOf(now)
  <2>1. CASE currentWindow = NoWindow
    BY <2>1 DEF CoalesceInv, EventClock
  <2>2. CASE currentWindow # NoWindow
    <3>1. currentWindow = WindowOf(lastTs) /\ ~ (WindowOf(now) > currentWindow)
      BY <2>2 DEF StartsWindow, CoalesceInv, EventClock
    <3>2. currentWindow <= WindowOf(now) /\ WindowOf(now) \in Nat /\ currentWindow \in Nat
      BY <1>0, <3>1, WindowsGrow
    <3> QED BY <2>2, <3>1, <3>2
  <2> QED BY <2>1, <2>2
<1>6. /\ IsGathered(taken, p, r) /\ r.last \in Nat /\ r.last <= now
      /\ WindowOf(r.first) = WindowOf(now)
      /\ p \in DOMAIN buffer => r = buffer[p]
  <2>1. CASE p \in DOMAIN buffer
    <3>1. r = buffer[p] /\ currentWindow = WindowOf(now)
      BY <1>5, <2>1
    <3> HIDE DEF r
    <3>2. IsGathered(taken, p, r) /\ WindowOf(r.first) = currentWindow /\ r.last <= lastTs
      BY <2>1, <3>1 DEF CoalesceInv, BufferInv
    <3>3. r.last \in Nat
      BY <3>2 DEF IsGathered, IsReportOf, Report
    <3> QED BY <1>0, <3>1, <3>2, <3>3
  <2>2. CASE p \notin DOMAIN buffer
    <3>1. r = [ids |-> <<>>, first |-> now, last |-> now]
      BY <2>2
    <3>2. r.first = now /\ r.last = now
      BY <3>1
    <3> HIDE DEF r
    <3>3. ASSUME NEW x \in taken, x.path = p  PROVE x.ts < now
      <4>1. currentWindow = WindowOf(now)
        BY <1>5
      <4>2. WindowOf(x.ts) # WindowOf(now)
        BY <2>2, <3>3, <4>1 DEF CoalesceInv, TakenInv
      <4>3. x.ts # now
        BY <4>2
      <4> QED BY <1>0, <1>4, <4>3
    <3>4. \A x \in taken : x.path = p => x.ts \in Nat /\ x.ts < now
      BY <1>4, <3>3
    <3>5. IsGathered(taken, p, r)
      BY <1>0, <3>1, <3>4, ReportBegun
    <3> QED BY <1>0, <2>2, <3>2, <3>5
  <2> QED BY <2>1, <2>2
<1> HIDE DEF r
<1>7. /\ IsGathered(taken', p, g) /\ g.first = r.first /\ g.last = now
      /\ Within(taken', Report(p, g)) = Within(taken, Report(p, r)) \cup {t}
  <2>1. \A x \in taken : x.ts \in Nat
    BY <1>4
  <2>2. r = [ids |-> r.ids, first |-> r.first, last |-> r.last]
    BY <1>6 DEF IsGathered
  <2>3. t \notin taken /\ t.path = p /\ t.ts \in Nat /\ t.id \in Nat
        /\ r.last \in Nat /\ r.last <= t.ts /\ WindowOf(r.first) = WindowOf(t.ts)
    BY <1>0, <1>3, <1>6
  <2>4. /\ g.ids = Extended(r.ids, t.id) /\ g.first = r.first /\ g.last = t.ts
        /\ g = [ids |-> g.ids, first |-> g.first, last |-> g.last]
    BY <1>0, <2>2, Gathers
  <2> HIDE DEF g
  <2>5. /\ IsGathered(taken \cup {t}, p, g)
        /\ Within(taken \cup {t}, Report(p, g)) = Within(taken, Report(p, r)) \cup {t}
    BY <1>6, <2>1, <2>3, <2>4, ReportGrown
  <2> QED BY <1>0, <2>4, <2>5
<1> HIDE DEF g
<1>8. /\ DOMAIN buffer' = DOMAIN buffer \cup {p} /\ buffer'[p] = g
      /\ \A q \in DOMAIN buffer : q # p => buffer'[q] = buffer[q]
  BY <1>2 DEF Put
<1>9. ASSUME NEW q \in DOMAIN buffer, q # p
      PROVE  /\ IsGathered(taken', q, buffer'[q])
             /\ Within(taken', Report(q, buffer'[q])) = Within(taken, Report(q, buffer[q]))
             /\ WindowOf(buffer'[q].first) = currentWindow' /\ buffer'[q].last <= lastTs'
  <2> DEFINE b == buffer[q]
  <2>1. IsGathered(taken, q, b) /\ WindowOf(b.first) = currentWindow /\ b.last <= lastTs
    BY DEF CoalesceInv, BufferInv
  <2>2. currentWindow = WindowOf(now)
    BY <1>5
  <2>3. buffer'[q] = b
    BY <1>8, <1>9
  <2> HIDE DEF b
  <2>4. IsReportOf(taken, Report(q, b)) /\ b.last \in Nat /\ Report(q, b).path = q
    BY <2>1 DEF IsGathered, IsReportOf, Report
  <2>5. /\ IsReportOf(taken \cup {t}, Report(q, b))
        /\ Within(taken \cup {t}, Report(q, b)) = Within(taken, Report(q, b))
    BY <1>0, <1>9, <2>4, ReportKept
  <2>6. IsGathered(taken \cup {t}, q, b)
    BY <1>0, <1>9, <2>1, <2>5 DEF IsGathered
  <2> QED BY <1>0, <1>1, <2>1, <2>2, <2>3, <2>4, <2>5, <2>6 DEF b
<1>10. \A e \in told : IsReportOf(taken, e) /\ WindowOf(e.last) < WindowOf(t.ts)
  BY <1>0, <1>5 DEF CoalesceInv, ToldInv
<1>11. \A e \in told : IsReportOf(taken', e) /\ Within(taken', e) = Within(taken, e)
  BY <1>0, <1>10, ToldKept
<1>12. EventClock'
  BY <1>0, <1>1, WindowsGrow DEF EventClock, NoWindow
<1>13. TakenInv'
  <2>1. ASSUME NEW x \in taken'
        PROVE  /\ x.nth \in 1..Cardinality(taken') /\ x.id \in Nat
               /\ x.ts \in Nat /\ x.ts <= lastTs'
               /\ WindowOf(x.ts) = currentWindow' => x.path \in DOMAIN buffer'
    <3>1. CASE x = t
      BY <1>0, <1>1, <1>3, <1>8, <3>1
    <3>2. CASE x \in taken
      <4>1. /\ x.nth \in 1..Cardinality(taken) /\ x.id \in Nat
            /\ WindowOf(x.ts) = currentWindow => x.path \in DOMAIN buffer
        BY <3>2 DEF CoalesceInv, TakenInv
      <4> QED BY <1>1, <1>3, <1>4, <1>5, <1>8, <3>2, <4>1
    <3> QED BY <3>1, <3>2
  <2> QED BY <1>3, <2>1 DEF TakenInv
<1>14. BufferInv'
  <2>1. ASSUME NEW q \in DOMAIN buffer'
        PROVE  /\ IsGathered(taken', q, buffer'[q])
               /\ WindowOf(buffer'[q].first) = currentWindow' /\ buffer'[q].last <= lastTs'
    <3>1. CASE q = p
      BY <1>0, <1>1, <1>6, <1>7, <1>8, <3>1
    <3>2. CASE q # p
      BY <1>8, <1>9, <3>2
    <3> QED BY <3>1, <3>2
  <2> QED BY <2>1 DEF BufferInv
<1>15. ToldInv'
  BY <1>0, <1>1, <1>10, <1>11 DEF CoalesceInv, ToldInv
<1>16. ASSUME NEW x \in taken'
       PROVE  \/ \E e \in told' : x \in Within(taken', e)
              \/ x.path \in DOMAIN buffer' /\ x \in Within(taken', Report(x.path, buffer'[x.path]))
  <2>1. CASE x = t
    BY <1>0, <1>7, <1>8, <2>1
  <2>2. CASE x \in taken
    <3>1. CASE \E e \in told : x \in Within(taken, e)
      BY <1>1, <1>11, <3>1
    <3>2. CASE x.path \in DOMAIN buffer /\ x \in Within(taken, Report(x.path, buffer[x.path]))
      <4>1. CASE x.path = p
        BY <1>6, <1>7, <1>8, <3>2, <4>1
      <4>2. CASE x.path # p
        BY <1>8, <1>9, <3>2, <4>2
      <4> QED BY <4>1, <4>2
    <3> QED BY <2>2, <3>1, <3>2 DEF CoalesceInv, ReportedInv, IsReported
  <2> QED BY <2>1, <2>2
<1> QED BY <1>12, <1>13, <1>14, <1>15, <1>16 DEF CoalesceInv, ReportedInv, IsReported

\* At the end of the input everything that is gathered is told.
LEMMA CoalesceEnds ==
  ASSUME CoalesceInv, ~done, FlushAll, told' = told \cup changed', done' = TRUE,
         UNCHANGED <<taken, now>>
  PROVE  CoalesceInv'
<1>1. /\ told' = told \cup DrainBuffer /\ buffer' = <<>> /\ DOMAIN buffer' = {}
      /\ currentWindow' = currentWindow /\ lastTs' = lastTs
  BY DEF FlushAll
<1>2. EventClock'
  <2>1. DOMAIN buffer = {} => DrainBuffer = {}
    BY DEF DrainBuffer
  <2> QED BY <1>1, <2>1 DEF CoalesceInv, EventClock
<1>3. TakenInv' /\ BufferInv'
  BY <1>1 DEF CoalesceInv, TakenInv, BufferInv
<1>4. ToldInv'
  <2>1. ASSUME NEW e \in told'
        PROVE  /\ IsReportOf(taken, e)
               /\ e.ts \in Nat /\ e.last <= e.ts /\ WindowOf(e.ts) = WindowOf(e.first)
    BY <1>1, Drained DEF CoalesceInv, ToldInv
  <2>2. \A d, e \in told' : Apart(d, e)
    BY <1>1, Drained
  <2> QED BY <2>1, <2>2 DEF ToldInv
<1>5. \A t \in taken : \E e \in told' : t \in Within(taken, e)
  BY <1>1, Drained
<1> QED BY <1>2, <1>3, <1>4, <1>5 DEF CoalesceInv, ReportedInv, IsReported

\* No step of the coalescer, of the drain or of time breaks its invariant.
LEMMA CoalesceStep ==
  ASSUME CoalesceInv, [Next]_vars
  PROVE  CoalesceInv'
<1>1. ASSUME UNCHANGED <<coalesceVars, taken, told, done>>, now' \in Nat, now <= now'
      PROVE  CoalesceInv'
  <2>1. UNCHANGED <<buffer, currentWindow, lastTs, taken, told, done>>
    BY <1>1 DEF coalesceVars
  <2>2. EventClock'
    BY <1>1, <2>1 DEF CoalesceInv, EventClock
  <2>3. TakenInv'
    BY <2>1 DEF CoalesceInv, TakenInv
  <2>4. BufferInv'
    BY <2>1 DEF CoalesceInv, BufferInv
  <2>5. ToldInv'
    BY <2>1 DEF CoalesceInv, ToldInv
  <2>6. ReportedInv'
    BY <2>1 DEF CoalesceInv, ReportedInv, IsReported
  <2> QED BY <2>2, <2>3, <2>4, <2>5, <2>6 DEF CoalesceInv
<1>2. CASE SocketStep \/ FocusStep \/ TableStep
  <2>1. UNCHANGED <<coalesceVars, common, now, fileHistory>>
    BY <1>2 DEF SocketStep, FocusStep, TableStep
  <2> QED BY <1>1, <2>1 DEF common, fileHistory, CoalesceInv, EventClock
<1>3. CASE Advance
  BY <1>1, <1>3 DEF Advance, common, fileHistory, CoalesceInv, EventClock
<1>4. CASE UNCHANGED vars
  BY <1>1, <1>4 DEF vars, fileHistory, CoalesceInv, EventClock
<1>5. CASE FileStep
  <2>1. PICK p \in Path, id \in {NoId, Cardinality(taken) + 1} :
          /\ OnFileEvent(p, id, now)
          /\ taken' = taken \cup {[path |-> p, id |-> id, ts |-> now,
                                   nth |-> Cardinality(taken) + 1]}
    BY <1>5 DEF FileStep
  <2>2. ~done /\ told' = told \cup changed' /\ UNCHANGED <<done, now>>
    BY <1>5 DEF FileStep, common
  <2>3. id \in Nat
    <3>1. Cardinality(taken) \in Nat
      BY FS_CardinalityType DEF CoalesceInv, TakenInv
    <3> QED BY <3>1 DEF NoId
  <2> DEFINE t == [path |-> p, id |-> id, ts |-> now, nth |-> Cardinality(taken) + 1]
  <2>4. /\ t = [path |-> p, id |-> id, ts |-> now, nth |-> Cardinality(taken) + 1]
        /\ taken' = taken \cup {t}
    BY <2>1
  <2> HIDE DEF t
  <2> QED BY <2>1, <2>2, <2>3, <2>4, CoalesceStarts, CoalesceContinues
<1>6. CASE EndOfInput
  <2>1. /\ ~done /\ FlushAll /\ told' = told \cup changed' /\ done' = TRUE
        /\ UNCHANGED <<taken, now>>
    BY <1>6 DEF EndOfInput
  <2> QED BY <2>1, CoalesceEnds
<1> QED BY <1>2, <1>3, <1>4, <1>5, <1>6 DEF Next

\* What the coalescer and the reports hold is each change once.
LEMMA ReportsAreExact ==
  ASSUME CoalesceInv
  PROVE  EachChangeOnce
<1> DEFINE gathered == {[path |-> p, ids |-> buffer[p].ids, first |-> buffer[p].first,
                         last |-> buffer[p].last] : p \in DOMAIN buffer}
<1> USE DEF CoalesceInv
<1>1. ASSUME NEW e \in gathered
      PROVE  \E p \in DOMAIN buffer : e = Report(p, buffer[p]) /\ e.path = p
                                     /\ e.first = buffer[p].first /\ e.last = buffer[p].last
  BY DEF Report
<1>2. ASSUME NEW p \in DOMAIN buffer  PROVE Report(p, buffer[p]) \in gathered
  BY DEF Report
<1> HIDE DEF gathered
<1>3. ASSUME NEW e \in gathered
      PROVE  /\ IsReportOf(taken, e) /\ ~done
             /\ WindowOf(e.first) = currentWindow
  BY <1>1 DEF BufferInv, IsGathered
<1>4. \A e : With(e) = Within(taken, e)
  BY DEF With, Within
<1>5. ASSUME NEW t \in taken  PROVE \E e \in told \cup gathered : t \in With(e)
  BY <1>2, <1>4 DEF ReportedInv, IsReported
<1>6. ASSUME NEW e \in told \cup gathered
      PROVE  /\ WindowOf(e.first) = WindowOf(e.last)
             /\ ToSet(e.ids) = {t.id : t \in With(e)} \ {NoId}
             /\ Cardinality({t \in With(e) : t.id # NoId}) = Len(e.ids)
  <2>1. IsReportOf(taken, e)
    BY <1>3 DEF ToldInv
  <2>2. {t \in With(e) : t.id # NoId} = WithId(taken, e)
    BY <1>4 DEF WithId
  <2>3. {t.id : t \in WithId(taken, e)} = {t.id : t \in Within(taken, e)} \ {NoId}
    BY DEF WithId
  <2> QED BY <1>4, <2>1, <2>2, <2>3 DEF IsReportOf
<1>7. ASSUME NEW d \in told, NEW e \in told \cup gathered, d # e, d.path = e.path
      PROVE  d.last < e.first \/ e.last < d.first
  <2>1. CASE e \in told
    BY <1>7, <2>1 DEF ToldInv, Apart
  <2>2. CASE e \in gathered
    <3>1. WindowOf(d.last) < WindowOf(e.first) /\ d.last \in Nat /\ e.first \in Nat
      BY <1>3, <2>2 DEF ToldInv, IsReportOf
    <3> QED BY <3>1, WindowsGrow
  <2> QED BY <2>1, <2>2
<1>8. \A e \in told : e.last <= e.ts /\ WindowOf(e.ts) = WindowOf(e.first)
  BY DEF ToldInv
<1>9. (\A e \in gathered : WindowOf(e.first) = currentWindow) /\ (done => gathered = {})
  BY <1>3
<1> QED BY <1>5, <1>6, <1>7, <1>8, <1>9 DEF EachChangeOnce, gathered

\* A file event gets to a window, and its report: told when a later window
\* begins or the input ends, once, with the ids of exactly the changes of its
\* path that are in its span.
THEOREM ChangesAreReportedOnce == Spec => []EachChangeOnce
<1>1. Init => CoalesceInv
  <2> SUFFICES ASSUME Init  PROVE CoalesceInv
    OBVIOUS
  <2>1. /\ taken = {} /\ told = {} /\ DOMAIN buffer = {} /\ currentWindow = NoWindow
        /\ lastTs = 0 /\ now = 0
    BY DEF Init, CoalesceInit
  <2>2. IsFiniteSet(taken)
    BY <2>1, FS_EmptySet
  <2> QED BY <2>1, <2>2 DEF CoalesceInv, EventClock, TakenInv, BufferInv, ToldInv,
                            ReportedInv
<1>2. CoalesceInv /\ [Next]_vars => CoalesceInv'
  BY CoalesceStep
<1>3. CoalesceInv => EachChangeOnce
  BY ReportsAreExact
<1> QED BY <1>1, <1>2, <1>3, PTL DEF Spec

-----------------------------------------------------------------------------
(* NamesResolve.  A pid's latest process is its youngest that was reported   *)
(* and is never evicted, and the table is over its capacity only with those. *)

LatestInv ==
  /\ born \subseteq ProcessKey
  /\ \A k \in born : k[1] \in DOMAIN latestByPid
  /\ \A p \in DOMAIN latestByPid :
       /\ latestByPid[p] \in born /\ latestByPid[p][1] = p
       /\ \A k \in born : k[1] = p => k[2] <= latestByPid[p][2]

\* Of the entries of a table and the latest process of each pid.
IsTable(entries, latest) ==
  /\ IsFiniteSet(DOMAIN entries)
  /\ \A k \in DOMAIN entries : entries[k].seq \in Nat
  /\ Latest(latest) \subseteq DOMAIN entries

Trimmed(entries, latest) ==
  Cardinality(DOMAIN entries) > Cap => DOMAIN entries = Latest(latest)

TableInv ==
  /\ nextSeq \in Nat
  /\ LatestInv
  /\ IsTable(byKey, latestByPid)
  /\ Trimmed(byKey, latestByPid)

-----------------------------------------------------------------------------
\* The oldest entry that can go.
LEMMA VictimFound ==
  ASSUME NEW entries, NEW latest, \A k \in DOMAIN entries : entries[k].seq \in Nat,
         NEW k \in DOMAIN entries \ Latest(latest)
  PROVE  Victims(entries, latest) # {}
<1> DEFINE spare == DOMAIN entries \ Latest(latest)
<1> DEFINE T == {entries[j].seq : j \in spare}
<1>1. T \in SUBSET Nat /\ T # {}
  OBVIOUS
<1>2. PICK x \in T : \A y \in T : x <= y
  <2> HIDE DEF T
  <2> QED BY <1>1, NatLeast
<1>3. PICK j \in spare : x = entries[j].seq
  OBVIOUS
<1>4. \A i \in spare : entries[j].seq <= entries[i].seq
  BY <1>2, <1>3
<1>5. j \in Victims(entries, latest)
  BY <1>4 DEF Victims
<1> QED BY <1>5

\* Eviction keeps every latest entry, and gets a table of one too many, or of
\* at most one that can go, within bounds.
LEMMA EvictionTrims ==
  ASSUME NEW entries, NEW latest, IsTable(entries, latest),
         \/ Cardinality(DOMAIN entries) <= Cap + 1
         \/ \E k : DOMAIN entries \ Latest(latest) \subseteq {k}
  PROVE  /\ IsTable(Evicted(entries, latest), latest)
         /\ Trimmed(Evicted(entries, latest), latest)
<1> DEFINE D == DOMAIN entries
<1> DEFINE V == Victims(entries, latest)
<1> DEFINE after == Evicted(entries, latest)
<1>0. Cap \in Nat /\ IsFiniteSet(D) /\ Cardinality(D) \in Nat
  BY TableAssumption, FS_CardinalityType DEF IsTable
<1>1. CASE Cardinality(D) <= Cap
  <2>1. after = entries
    BY <1>1 DEF Evicted
  <2> QED BY <1>0, <1>1, <2>1 DEF Trimmed
<1>2. CASE ~ (Cardinality(D) <= Cap)
  <2>1. after = [k \in D \ V |-> entries[k]]
    BY <1>2 DEF Evicted, Restrict
  <2>2. DOMAIN after = D \ V /\ \A k \in D \ V : after[k] = entries[k]
    BY <2>1
  <2>3. V \subseteq D \ Latest(latest)
    BY DEF Victims
  <2> HIDE DEF V, after
  <2>4. IsTable(after, latest)
    <3>1. IsFiniteSet(D \ V)
      BY <1>0, FS_Subset
    <3> QED BY <2>2, <2>3, <3>1 DEF IsTable
  <2>5. Latest(latest) \subseteq D
    BY DEF IsTable
  <2>6. CASE D = Latest(latest)
    <3>1. DOMAIN after = Latest(latest)
      BY <2>2, <2>3, <2>6
    <3> QED BY <2>4, <3>1 DEF Trimmed, after
  <2>7. CASE D # Latest(latest)
    <3>1. PICK j \in D : j \notin Latest(latest)
      BY <2>5, <2>7
    <3>2. PICK v \in V : TRUE
      BY <3>1, VictimFound DEF IsTable, V
    <3>3. CASE Cardinality(D) <= Cap + 1
      <4>1. IsFiniteSet(D \ {v}) /\ Cardinality(D \ {v}) = Cardinality(D) - 1
        BY <1>0, <2>3, <3>2, FS_RemoveElement
      <4>2. D \ V \subseteq D \ {v}
        BY <3>2
      <4>3. Cardinality(D \ V) <= Cardinality(D \ {v}) /\ Cardinality(D \ V) \in Nat
        BY <4>1, <4>2, FS_Subset, FS_CardinalityType
      <4>4. ~ (Cardinality(DOMAIN after) > Cap)
        BY <1>0, <2>2, <3>3, <4>1, <4>3
      <4> QED BY <2>4, <4>4 DEF Trimmed, after
    <3>4. CASE \E k : D \ Latest(latest) \subseteq {k}
      <4>1. D \ V = Latest(latest)
        BY <2>3, <2>5, <3>2, <3>4
      <4> QED BY <2>2, <2>4, <4>1 DEF Trimmed, after
    <3> QED BY <3>3, <3>4
  <2> QED BY <2>4, <2>6, <2>7 DEF after
<1> QED BY <1>1, <1>2

\* A birth: its pid's latest process is still the youngest, and the entry that
\* was the latest is the only new one that can go.
LEMMA BirthStep ==
  ASSUME TableInv, NEW key \in ProcessKey, NEW ppid, InsertEntry(key, ppid),
         born' = born \cup {key}
  PROVE  TableInv'
<1> DEFINE pid == key[1]
<1> DEFINE old == IF pid \in DOMAIN latestByPid THEN {latestByPid[pid]} ELSE {}
<1> DEFINE stays == pid \in DOMAIN latestByPid /\ key[2] < latestByPid[pid][2]
<1> DEFINE entry == [ppid |-> ppid, alive |-> TRUE, seq |-> nextSeq]
<1> DEFINE entries == Put(byKey, key, entry)
<1>1. /\ latestByPid' = IF stays THEN latestByPid ELSE Put(latestByPid, pid, key)
      /\ byKey' = Evicted(entries, latestByPid') /\ nextSeq' = nextSeq + 1
  BY DEF InsertEntry
<1>2. /\ DOMAIN entries = DOMAIN byKey \cup {key}
      /\ \A k \in DOMAIN byKey : k # key => entries[k] = byKey[k]
      /\ entries[key].seq = nextSeq
  BY DEF Put
<1>3. born \subseteq ProcessKey /\ \A k \in ProcessKey : k[1] \in Nat /\ k[2] \in Nat
  BY ReconstructionAssumption DEF TableInv, LatestInv
<1>4. ~stays => /\ DOMAIN latestByPid' = DOMAIN latestByPid \cup {pid}
                /\ latestByPid'[pid] = key
                /\ \A q \in DOMAIN latestByPid : q # pid => latestByPid'[q] = latestByPid[q]
  BY <1>1 DEF Put
<1> HIDE DEF stays, entries
<1>5. LatestInv'
  <2>1. CASE stays
    <3>1. latestByPid' = latestByPid /\ pid \in DOMAIN latestByPid
          /\ key[2] < latestByPid[pid][2]
      BY <1>1, <2>1 DEF stays
    <3>2. latestByPid[pid][2] \in Nat /\ key[2] \in Nat
      BY <1>3, <3>1 DEF TableInv, LatestInv
    <3>3. key[2] <= latestByPid[pid][2]
      BY <3>1, <3>2
    <3> QED BY <3>1, <3>3 DEF TableInv, LatestInv
  <2>2. CASE ~stays
    <3>1. \A k \in born : k[1] = pid => k[2] <= key[2]
      <4> SUFFICES ASSUME NEW k \in born, k[1] = pid  PROVE k[2] <= key[2]
        OBVIOUS
      <4>1. /\ pid \in DOMAIN latestByPid /\ latestByPid[pid] \in born
            /\ k[2] <= latestByPid[pid][2]
        BY DEF TableInv, LatestInv
      <4>2. ~ (key[2] < latestByPid[pid][2])
        BY <2>2, <4>1 DEF stays
      <4>3. k[2] \in Nat /\ key[2] \in Nat /\ latestByPid[pid][2] \in Nat
        BY <1>3, <4>1
      <4> QED BY <4>1, <4>2, <4>3
    <3>2. key[2] <= key[2]
      BY <1>3
    <3>3. ASSUME NEW q \in DOMAIN latestByPid'
          PROVE  /\ latestByPid'[q] \in born' /\ latestByPid'[q][1] = q
                 /\ \A k \in born' : k[1] = q => k[2] <= latestByPid'[q][2]
      <4>1. CASE q = pid
        BY <1>4, <2>2, <3>1, <3>2, <4>1
      <4>2. CASE q # pid
        <5>1. q \in DOMAIN latestByPid /\ latestByPid'[q] = latestByPid[q]
          BY <1>4, <2>2, <4>2
        <5> QED BY <4>2, <5>1 DEF TableInv, LatestInv
      <4> QED BY <4>1, <4>2
    <3> QED BY <1>3, <1>4, <2>2, <3>3 DEF TableInv, LatestInv
  <2> QED BY <2>1, <2>2
<1>6. /\ Latest(latestByPid') \subseteq DOMAIN entries
      /\ Latest(latestByPid) \subseteq Latest(latestByPid') \cup old
      /\ stays => latestByPid' = latestByPid
      /\ ~stays => key \in Latest(latestByPid')
  <2>1. Latest(latestByPid) \subseteq DOMAIN byKey
    BY DEF TableInv, IsTable
  <2>2. CASE stays
    BY <1>1, <1>2, <2>1, <2>2
  <2>3. CASE ~stays
    BY <1>2, <1>4, <2>1, <2>3 DEF Latest
  <2> QED BY <2>2, <2>3
<1>7. IsTable(entries, latestByPid')
  <2>1. IsFiniteSet(DOMAIN entries)
    BY <1>2, FS_AddElement DEF TableInv, IsTable
  <2>2. \A k \in DOMAIN entries : entries[k].seq \in Nat
    BY <1>2 DEF TableInv, IsTable
  <2> QED BY <1>6, <2>1, <2>2 DEF IsTable
<1>8. \/ Cardinality(DOMAIN entries) <= Cap + 1
      \/ \E k : DOMAIN entries \ Latest(latestByPid') \subseteq {k}
  <2>0. /\ IsFiniteSet(DOMAIN byKey) /\ Cardinality(DOMAIN byKey) \in Nat /\ Cap \in Nat
        /\ Cardinality(DOMAIN entries) \in Nat
    BY <1>7, TableAssumption, FS_CardinalityType DEF TableInv, IsTable
  <2>1. CASE Cardinality(DOMAIN byKey) <= Cap
    <3>1. Cardinality(DOMAIN entries) <= Cardinality(DOMAIN byKey) + 1
      BY <1>2, <2>0, FS_AddElement
    <3> QED BY <2>0, <2>1, <3>1
  <2>2. CASE ~ (Cardinality(DOMAIN byKey) <= Cap)
    <3>1. DOMAIN byKey = Latest(latestByPid)
      BY <2>0, <2>2 DEF TableInv, Trimmed
    <3>2. CASE stays
      BY <1>2, <1>6, <3>1, <3>2
    <3>3. CASE ~stays
      BY <1>2, <1>6, <3>1, <3>3
    <3> QED BY <3>2, <3>3
  <2> QED BY <2>1, <2>2
<1>9. IsTable(byKey', latestByPid') /\ Trimmed(byKey', latestByPid')
  BY <1>1, <1>7, <1>8, EvictionTrims
<1>10. nextSeq' \in Nat
  BY <1>1 DEF TableInv
<1> QED BY <1>5, <1>9, <1>10 DEF TableInv, IsTable, Trimmed

\* A death only marks its entry.
LEMMA DeathStep ==
  ASSUME TableInv, NEW key, MarkDead(key), UNCHANGED born
  PROVE  TableInv'
<1>1. UNCHANGED <<latestByPid, nextSeq>>
  BY DEF MarkDead
<1>2. DOMAIN byKey' = DOMAIN byKey /\ \A k \in DOMAIN byKey : byKey'[k].seq \in Nat
  <2>1. CASE key \in DOMAIN byKey
    <3>1. byKey' = [byKey EXCEPT ![key].alive = FALSE]
      BY <2>1 DEF MarkDead
    <3>2. ASSUME NEW k \in DOMAIN byKey  PROVE byKey'[k].seq = byKey[k].seq
      BY <3>1
    <3> QED BY <3>1, <3>2 DEF TableInv, IsTable
  <2>2. CASE key \notin DOMAIN byKey
    BY <2>2 DEF MarkDead, TableInv, IsTable
  <2> QED BY <2>1, <2>2
<1> QED BY <1>1, <1>2 DEF TableInv, LatestInv, IsTable, Trimmed

\* No step of the table breaks its invariant.
LEMMA TableInvStep ==
  ASSUME TableInv, [Next]_vars
  PROVE  TableInv'
<1>1. ASSUME UNCHANGED <<tableVars, born>>  PROVE TableInv'
  BY <1>1 DEF TableInv, LatestInv, IsTable, Trimmed, tableVars
<1>2. CASE TableStep
  <2>1. PICK k \in ProcessKey :
          \/ InsertEntry(k, Ppid(k)) /\ born' = born \cup {k}
          \/ MarkDead(k) /\ UNCHANGED born
    BY <1>2 DEF TableStep
  <2> QED BY <2>1, BirthStep, DeathStep
<1>3. CASE SocketStep \/ FileStep \/ FocusStep \/ EndOfInput \/ Advance
  <2>1. UNCHANGED <<tableVars, born>>
    BY <1>3 DEF SocketStep, FileStep, FocusStep, EndOfInput, Advance
  <2> QED BY <1>1, <2>1
<1>4. CASE UNCHANGED vars
  BY <1>1, <1>4 DEF vars
<1> QED BY <1>2, <1>3, <1>4 DEF Next

\* A raw pid resolves to its latest process.
LEMMA ByPidIsLatest ==
  ASSUME TableInv, NEW p
  PROVE  /\ ByPid(p) \subseteq DOMAIN byKey
         /\ \A k \in ByPid(p) : k[1] = p /\ latestByPid[p] = k
         /\ p \in DOMAIN latestByPid => ByPid(p) = {latestByPid[p]}
         /\ p \notin DOMAIN latestByPid => ByPid(p) = {}
BY DEF ByPid, TableInv, LatestInv, IsTable, Latest

PidsOf(above) == {k[1] : k \in ToSet(above)}

\* What a walk up from a pid has found.
Climbed(pid, above) ==
  /\ above \in Seq(DOMAIN byKey)
  /\ IsFiniteSet(PidsOf(above)) /\ IsAncestry(pid, above)

\* One step up from an ancestry is an ancestry.
LEMMA ClimbStep ==
  ASSUME TableInv, NEW pid, NEW above, Climbed(pid, above)
  PROVE  Climbed(pid, Climb(pid, above))
<1> DEFINE m == Len(above)
<1> DEFINE from == IF above = <<>> THEN pid ELSE Last(above)[1]
<1> DEFINE next == {p \in ParentPid(from) : \A i \in DOMAIN above : above[i][1] # p}
<1> DEFINE found == UNION {ByPid(p) : p \in next}
<1>1. CASE found = {}
  BY <1>1 DEF Climb
<1>2. CASE found # {}
  <2> DEFINE k == CHOOSE k \in found : TRUE
  <2> DEFINE on == Append(above, k)
  <2>1. Climb(pid, above) = on
    BY <1>2 DEF Climb
  <2>2. k \in found
    BY <1>2
  <2>3. PICK p \in next : k \in ByPid(p)
    <3> HIDE DEF k, next
    <3> QED BY <2>2
  <2>4. k[1] = p /\ k \in DOMAIN byKey
    <3> HIDE DEF k, next
    <3> QED BY <2>3, ByPidIsLatest
  <2>5. p \in ParentPid(from) /\ \A i \in DOMAIN above : above[i][1] # p
    OBVIOUS
  <2> HIDE DEF k, next, found
  <2>6. /\ m \in Nat /\ DOMAIN above = 1..m /\ Len(on) = m + 1 /\ DOMAIN on = 1..m + 1
        /\ on[m + 1] = k /\ \A i \in 1..m : on[i] = above[i]
        /\ on \in Seq(DOMAIN byKey)
    BY <2>4 DEF Climbed
  <2>7. /\ \A x : x \in PidsOf(above) <=> \E i \in 1..m : x = above[i][1]
        /\ \A x : x \in PidsOf(on) <=> \E i \in 1..m + 1 : x = on[i][1]
    <3> HIDE DEF m, on
    <3> QED BY <2>6 DEF PidsOf, ToSet
  <2>8. PidsOf(on) = PidsOf(above) \cup {p} /\ p \notin PidsOf(above)
    <3> HIDE DEF m, on
    <3>1. ASSUME NEW x  PROVE x \in PidsOf(on) <=> x \in PidsOf(above) \/ x = p
      <4>1. \A i \in 1..m + 1 : i = m + 1 \/ i \in 1..m
        BY <2>6
      <4>2. m + 1 \in 1..m + 1 /\ \A i \in 1..m : i \in 1..m + 1
        BY <2>6
      <4> QED BY <2>4, <2>6, <2>7, <4>1, <4>2
    <3>2. p \notin PidsOf(above)
      BY <2>5, <2>6, <2>7
    <3> QED BY <3>1, <3>2
  <2>9. /\ IsFiniteSet(PidsOf(above)) /\ Cardinality(PidsOf(above)) = m
        /\ \A i \in 1..m : above[i][1] \in ParentPid(IF i = 1 THEN pid ELSE above[i - 1][1])
    BY <2>6 DEF Climbed, IsAncestry, PidsOf
  <2>10. IsFiniteSet(PidsOf(on)) /\ Cardinality(PidsOf(on)) = m + 1
    BY <2>8, <2>9, FS_AddElement
  <2>11. ASSUME NEW i \in 1..m + 1
         PROVE  on[i][1] \in ParentPid(IF i = 1 THEN pid ELSE on[i - 1][1])
    <3> HIDE DEF m, on
    <3>1. CASE i # m + 1
      <4>1. i \in 1..m /\ (i # 1 => i - 1 \in 1..m)
        BY <2>6, <3>1
      <4> QED BY <2>6, <2>9, <4>1
    <3>2. CASE i = m + 1
      <4>1. CASE m = 0
        <5>1. from = pid
          BY <2>6, <4>1 DEF m, Climbed
        <5> QED BY <2>4, <2>5, <2>6, <3>2, <4>1, <5>1
      <4>2. CASE m # 0
        <5>1. m \in 1..m /\ i # 1 /\ i - 1 = m
          BY <2>6, <3>2, <4>2
        <5>2. from = above[m][1]
          BY <2>6, <4>2 DEF m, Last
        <5> QED BY <2>4, <2>5, <2>6, <3>2, <5>1, <5>2
      <4> QED BY <4>1, <4>2
    <3> QED BY <3>1, <3>2
  <2>12. IsAncestry(pid, on)
    <3> HIDE DEF m, on
    <3> QED BY <2>6, <2>10, <2>11 DEF IsAncestry, PidsOf
  <2> HIDE DEF on
  <2> QED BY <2>1, <2>6, <2>10, <2>12 DEF Climbed
<1> QED BY <1>1, <1>2

\* The recursive function of Ancestors exists.
LEMMA WalkUnfolds ==
  ASSUME NEW pid
  PROVE  \E walk : /\ walk = [n \in 0..MaxAncestors |->
                               IF n = 0 THEN <<>> ELSE Climb(pid, walk[n - 1])]
                   /\ Ancestors(pid) = walk[MaxAncestors]
<1> DEFINE Step(f, n) == IF n = 0 THEN <<>> ELSE Climb(pid, f[n - 1])
<1> DEFINE Is(f, m) == f = [n \in 0..m |-> Step(f, n)]
<1>1. ASSUME NEW n \in Nat, \A m \in Nat : m < n => \E f : Is(f, m)
      PROVE  \E f : Is(f, n)
  <2>1. CASE n = 0
    <3> DEFINE f == [i \in 0..n |-> <<>>]
    <3>1. Is(f, n)
      BY <2>1
    <3> QED BY <3>1
  <2>2. CASE n # 0
    <3>0. n - 1 \in Nat /\ n - 1 < n
      BY <2>2
    <3>1. PICK f : Is(f, n - 1)
      BY <1>1, <3>0
    <3> DEFINE g == [i \in 0..n |-> IF i = n THEN Step(f, n) ELSE f[i]]
    <3>2. \A i \in 0..n : i # 0 => g[i - 1] = f[i - 1]
      OBVIOUS
    <3>3. ASSUME NEW i \in 0..n  PROVE g[i] = Step(g, i)
      <4>1. CASE i = n
        BY <3>2, <4>1
      <4>2. CASE i # n
        <5>1. i \in 0..n - 1
          BY <4>2
        <5>2. f[i] = Step(f, i)
          BY <3>1, <5>1
        <5> QED BY <3>2, <4>2, <5>2
      <4> QED BY <4>1, <4>2
    <3>4. Is(g, n)
      <4>1. g = [i \in 0..n |-> g[i]]
        OBVIOUS
      <4> HIDE DEF g
      <4> QED BY <3>3, <4>1
    <3> QED BY <3>4
  <2> QED BY <2>1, <2>2
<1> HIDE DEF Is
<1>2. \A n \in Nat : \E f : Is(f, n)
  <2> DEFINE Bad == {n \in Nat : ~ (\E f : Is(f, n))}
  <2> SUFFICES ASSUME Bad # {}  PROVE FALSE
    OBVIOUS
  <2>1. PICK n \in Bad : \A m \in Bad : n <= m
    BY NatLeast
  <2>2. \A m \in Nat : m < n => \E f : Is(f, m)
    BY <2>1
  <2> QED BY <1>1, <2>2
<1>3. \E f : Is(f, MaxAncestors)
  <2>1. MaxAncestors \in Nat
    BY TableAssumption
  <2> QED BY <1>2, <2>1
<1> DEFINE up == CHOOSE f : Is(f, MaxAncestors)
<1>4. Is(up, MaxAncestors)
  BY <1>3
<1>5. Ancestors(pid) = up[MaxAncestors]
  BY DEF Ancestors, Is
<1> QED BY <1>4, <1>5 DEF Is

\* Ancestors are the parents one by one, and no pid twice.
LEMMA AncestorsAreAncestry ==
  ASSUME TableInv, NEW pid
  PROVE  IsAncestry(pid, Ancestors(pid))
<1>0. MaxAncestors \in Nat
  BY TableAssumption
<1>1. PICK walk : /\ walk = [n \in 0..MaxAncestors |->
                             IF n = 0 THEN <<>> ELSE Climb(pid, walk[n - 1])]
                  /\ Ancestors(pid) = walk[MaxAncestors]
  BY WalkUnfolds
<1>2. Climbed(pid, <<>>)
  <2>1. PidsOf(<<>>) = {} /\ Len(<<>>) = 0
    BY DEF PidsOf, ToSet
  <2>2. IsFiniteSet({}) /\ Cardinality({}) = 0
    BY FS_EmptySet
  <2>3. IsAncestry(pid, <<>>)
    <3> DEFINE e == <<>>
    <3>1. DOMAIN e = {}
      OBVIOUS
    <3>2. Cardinality({k[1] : k \in ToSet(e)}) = Len(e)
      BY <2>1, <2>2 DEF PidsOf
    <3> HIDE DEF e
    <3>3. IsAncestry(pid, e)
      BY <3>1, <3>2 DEF IsAncestry
    <3> QED BY <3>3 DEF e
  <2> QED BY <2>1, <2>2, <2>3 DEF Climbed
<1> DEFINE Bad == {n \in Nat : n <= MaxAncestors /\ ~ Climbed(pid, walk[n])}
<1>3. Bad = {}
  <2> SUFFICES ASSUME Bad # {}  PROVE FALSE
    OBVIOUS
  <2>1. PICK n \in Bad : \A m \in Bad : n <= m
    BY NatLeast
  <2>2. n \in 0..MaxAncestors
    BY <1>0
  <2>3. CASE n = 0
    <3>1. walk[n] = <<>>
      BY <1>1, <2>2, <2>3
    <3> QED BY <1>2, <3>1
  <2>4. CASE n # 0
    <3>1. n - 1 \in Nat /\ n - 1 <= MaxAncestors /\ ~ (n <= n - 1)
      BY <1>0, <2>2, <2>4
    <3>2. Climbed(pid, walk[n - 1])
      BY <2>1, <3>1
    <3>3. walk[n] = Climb(pid, walk[n - 1])
      BY <1>1, <2>2, <2>4
    <3> QED BY <3>2, <3>3, ClimbStep
  <2> QED BY <2>3, <2>4
<1>4. Climbed(pid, walk[MaxAncestors])
  BY <1>0, <1>3
<1> QED BY <1>1, <1>4 DEF Climbed

\* A name that is resolved is that of the process the table has.
LEMMA TableResolves ==
  ASSUME TableInv
  PROVE  NamesResolve
<1>1. ASSUME NEW p, p \in DOMAIN latestByPid
      PROVE  \E a \in Annotation(p) :
               /\ a.process = latestByPid[p] /\ a.ancestors = Ancestors(p)
  <2> DEFINE k == latestByPid[p]
  <2> DEFINE a == [process |-> k, alive |-> byKey[k].alive, ancestors |-> Ancestors(p)]
  <2>1. k \in ByPid(p)
    BY <1>1, ByPidIsLatest
  <2>2. a \in Annotation(p)
    BY <2>1 DEF Annotation
  <2>3. a.process = k /\ a.ancestors = Ancestors(p)
    OBVIOUS
  <2> QED BY <2>2, <2>3
<1>2. ASSUME NEW p, p \notin DOMAIN latestByPid  PROVE Annotation(p) = {}
  BY <1>2, ByPidIsLatest DEF Annotation
<1>3. ASSUME NEW p \in {k[1] : k \in born}
      PROVE  \E a \in Annotation(p) :
               /\ a.process[1] = p
               /\ \A k \in born : k[1] = p => k[2] <= a.process[2]
               /\ IsAncestry(p, a.ancestors)
  <2>1. p \in DOMAIN latestByPid
    BY DEF TableInv, LatestInv
  <2>2. PICK a \in Annotation(p) :
          a.process = latestByPid[p] /\ a.ancestors = Ancestors(p)
    BY <1>1, <2>1
  <2>3. IsAncestry(p, a.ancestors)
    BY <2>2, AncestorsAreAncestry
  <2>4. a.process[1] = p /\ \A k \in born : k[1] = p => k[2] <= a.process[2]
    BY <2>1, <2>2 DEF TableInv, LatestInv
  <2> QED BY <2>3, <2>4
<1>4. ASSUME NEW p  PROVE Annotation(p) = {} <=> \A k \in born : k[1] # p
  <2>1. p \in DOMAIN latestByPid <=> \E k \in born : k[1] = p
    BY DEF TableInv, LatestInv
  <2> QED BY <1>1, <1>2, <2>1
<1> QED BY <1>3, <1>4 DEF NamesResolve, TableInv, Trimmed

\* Whatever the order of births and whatever was evicted, a raw pid is named
\* after the youngest process of that pid, its ancestors after theirs, and the
\* table is over its capacity only with entries it cannot do without.
THEOREM NamesAlwaysResolve == Spec => []NamesResolve
<1>1. Init => TableInv
  <2> SUFFICES ASSUME Init  PROVE TableInv
    OBVIOUS
  <2>1. /\ DOMAIN byKey = {} /\ DOMAIN latestByPid = {} /\ nextSeq = 0 /\ born = {}
    BY DEF Init, TableInit
  <2>2. Latest(latestByPid) = {}
    BY <2>1 DEF Latest
  <2>3. IsFiniteSet(DOMAIN byKey)
    BY <2>1, FS_EmptySet
  <2> QED BY <2>1, <2>2, <2>3 DEF TableInv, LatestInv, IsTable, Trimmed
<1>2. TableInv /\ [Next]_vars => TableInv'
  BY TableInvStep
<1>3. TableInv => NamesResolve
  BY TableResolves
<1> QED BY <1>1, <1>2, <1>3, PTL DEF Spec
=============================================================================
