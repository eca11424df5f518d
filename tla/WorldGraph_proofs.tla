-------------------------- MODULE WorldGraph_proofs --------------------------
(***************************************************************************)
(* Theorems about the builder, the store and the daemon's use of them      *)
(* (WorldGraph), for every set of entities, ttl, retention and mix.        *)
(***************************************************************************)
EXTENDS WorldGraph, Counting_proofs, FiniteSetTheorems, TLAPS

-----------------------------------------------------------------------------
(* A loop over intervals *)

\* What SegmentsOverlap does at one interval.
LEMMA OverlapsUnfold ==
  ASSUME NEW intervals, NEW p, Len(intervals) \in Nat
  PROVE  \E f : /\ f = [i \in 0..Len(intervals) |->
                         IF i = 0 THEN <<>>
                         ELSE IF \/ Overlap(intervals[i], p).to = None
                                 \/ Overlap(intervals[i], p).from < Overlap(intervals[i], p).to
                              THEN Append(f[i - 1], Overlap(intervals[i], p))
                              ELSE f[i - 1]]
                /\ Overlaps(intervals, p) = f[Len(intervals)]
<1> DEFINE Lasts(i) == \/ Overlap(intervals[i], p).to = None
                       \/ Overlap(intervals[i], p).from < Overlap(intervals[i], p).to
<1> DEFINE Step(f, i) == IF i = 0 THEN <<>>
                         ELSE IF Lasts(i) THEN Append(f[i - 1], Overlap(intervals[i], p))
                              ELSE f[i - 1]
<1> DEFINE Is(f, n) == f = [i \in 0..n |-> Step(f, i)]
<1>1. ASSUME NEW n \in Nat, \A m \in Nat : m < n => \E f : Is(f, m)
      PROVE  \E f : Is(f, n)
  <2>1. CASE n = 0
    <3> DEFINE f == [i \in 0..n |-> <<>>]
    <3>1. Is(f, n)
      BY <2>1
    <3> QED BY <3>1
  <2>2. CASE n # 0
    <3>0. n - 1 \in Nat /\ n - 1 < n
      BY <2>2
    <3>1. PICK f : Is(f, n - 1)
      BY <1>1, <3>0
    <3> DEFINE g == [i \in 0..n |-> IF i = n THEN Step(f, n) ELSE f[i]]
    <3>2. \A i \in 0..n : i # 0 => g[i - 1] = f[i - 1]
      OBVIOUS
    <3>3. ASSUME NEW i \in 0..n  PROVE g[i] = Step(g, i)
      <4>1. CASE i = n
        BY <3>2, <4>1
      <4>2. CASE i # n
        <5>1. i \in 0..n - 1
          BY <4>2
        <5>2. f[i] = Step(f, i)
          BY <3>1, <5>1
        <5> QED BY <3>2, <4>2, <5>2
      <4> QED BY <4>1, <4>2
    <3>4. Is(g, n)
      <4>1. g = [i \in 0..n |-> g[i]]
        OBVIOUS
      <4> HIDE DEF g
      <4> QED BY <3>3, <4>1
    <3> QED BY <3>4
  <2> QED BY <2>1, <2>2
<1> HIDE DEF Is
<1>2. \A n \in Nat : \E f : Is(f, n)
  <2> DEFINE Bad == {n \in Nat : ~ (\E f : Is(f, n))}
  <2> SUFFICES ASSUME Bad # {}  PROVE FALSE
    OBVIOUS
  <2>1. PICK n \in Bad : \A m \in Bad : n <= m
    BY NatLeast
  <2>2. \A m \in Nat : m < n => \E f : Is(f, m)
    BY <2>1
  <2> QED BY <1>1, <2>2
<1>3. \E f : Is(f, Len(intervals))
  BY <1>2
<1> DEFINE up == CHOOSE f : Is(f, Len(intervals))
<1>4. Is(up, Len(intervals))
  BY <1>3
<1>5. Overlaps(intervals, p) = up[Len(intervals)]
  BY DEF Overlaps, Is
<1> QED BY <1>4, <1>5 DEF Is

\* What is left of the intervals are overlaps of theirs.
LEMMA OverlapsAreOverlaps ==
  ASSUME NEW S, NEW intervals \in Seq(S), NEW p
  PROVE  Overlaps(intervals, p) \in Seq({Overlap(x, p) : x \in S})
<1> DEFINE O == {Overlap(x, p) : x \in S}
<1> DEFINE n == Len(intervals)
<1> n \in Nat
  OBVIOUS
<1>1. PICK f : /\ f = [i \in 0..n |->
                        IF i = 0 THEN <<>>
                        ELSE IF \/ Overlap(intervals[i], p).to = None
                                \/ Overlap(intervals[i], p).from < Overlap(intervals[i], p).to
                             THEN Append(f[i - 1], Overlap(intervals[i], p))
                             ELSE f[i - 1]]
               /\ Overlaps(intervals, p) = f[n]
  BY OverlapsUnfold
<1>2. ASSUME NEW i \in 0..n, i > 0 => f[i - 1] \in Seq(O)
      PROVE  f[i] \in Seq(O)
  <2>1. CASE i = 0
    BY <1>1, <2>1
  <2>2. CASE i # 0
    <3>1. Overlap(intervals[i], p) \in O
      BY <2>2
    <3>2. f[i] = f[i - 1] \/ f[i] = Append(f[i - 1], Overlap(intervals[i], p))
      BY <1>1, <2>2
    <3> HIDE DEF O
    <3> QED BY <1>2, <2>2, <3>1, <3>2, SMTT(30)
  <2> QED BY <2>1, <2>2
<1> HIDE DEF O, n
<1>3. \A i \in 0..n : f[i] \in Seq(O)
  <2> DEFINE Bad == {i \in Nat : i <= n /\ f[i] \notin Seq(O)}
  <2> SUFFICES ASSUME Bad # {}  PROVE FALSE
    OBVIOUS
  <2>1. PICK i \in Bad : \A j \in Bad : i <= j
    BY NatLeast
  <2>2. i \in 0..n /\ f[i] \notin Seq(O)
    OBVIOUS
  <2>3. i > 0 => i - 1 \in Nat /\ i - 1 <= n /\ ~ (i <= i - 1)
    BY <2>2
  <2>4. i > 0 => f[i - 1] \in Seq(O)
    BY <2>1, <2>3
  <2> QED BY <1>2, <2>2, <2>4
<1> QED BY <1>1, <1>3, SMTT(30) DEF O

-----------------------------------------------------------------------------
(* Snapshots and their rows *)

\* A snapshot has the builder's nodes.
LEMMA SnapshotNodes ==
  ASSUME NEW order
  PROVE  /\ Snapshot(order).processes = processes
         /\ DOMAIN Snapshot(order).apps = DOMAIN apps
         /\ Snapshot(order).sockets = sockets
         /\ Snapshot(order).files = files
         /\ Snapshot(order).domains = domains
         /\ Snapshot(order).edges =
              Both(Both(ParentEdges(order), FrontmostEdges(FrontClosed(lastTs))),
                   Both(SocketEdges(order), DomainEdges(order)))
         /\ Snapshot(order).apps = FrontClosed(lastTs)
BY SMTT(30) DEF Snapshot, FrontClosed

\* Each node of a graph has a row.
LEMMA RowsDomain ==
  ASSUME NEW g, NEW a
  PROVE  /\ \A k \in DOMAIN g.processes : <<"process", k>> \in DOMAIN Rows(g, a)
         /\ \A k \in DOMAIN g.apps : <<"app", k>> \in DOMAIN Rows(g, a)
         /\ \A k \in DOMAIN g.sockets : <<"socket", k>> \in DOMAIN Rows(g, a)
         /\ \A k \in DOMAIN g.files : <<"file", k>> \in DOMAIN Rows(g, a)
         /\ \A k \in DOMAIN g.domains : <<"domain", k>> \in DOMAIN Rows(g, a)
BY DEF Rows, Keyed, Both

\* Each row is of one node.
LEMMA RowCases ==
  ASSUME NEW g, NEW a, NEW n \in DOMAIN Rows(g, a)
  PROVE  LET row == Rows(g, a)[n]
         IN \/ \E k \in DOMAIN g.processes :
                 n = <<"process", k>> /\ row = ProcessRow(g.processes[k], a)
            \/ \E k \in DOMAIN g.apps : n = <<"app", k>> /\ row = AppRow(g.apps[k], a)
            \/ \E k \in DOMAIN g.sockets : n = <<"socket", k>> /\ row = SocketRow(g.sockets[k], a)
            \/ \E k \in DOMAIN g.files : n = <<"file", k>> /\ row = FileRow(g.files[k], a)
            \/ \E k \in DOMAIN g.domains : n = <<"domain", k>> /\ row = DomainRow(g.domains[k], a)
<1> DEFINE row == Rows(g, a)[n]
<1> DEFINE P == Keyed("process", g.processes, LAMBDA p : ProcessRow(p, a))
<1> DEFINE A == Keyed("app", g.apps, LAMBDA x : AppRow(x, a))
<1> DEFINE S == Keyed("socket", g.sockets, LAMBDA x : SocketRow(x, a))
<1> DEFINE F == Keyed("file", g.files, LAMBDA f : FileRow(f, a))
<1> DEFINE D == Keyed("domain", g.domains, LAMBDA d : DomainRow(d, a))
<1>1. Rows(g, a) = Both(P, Both(A, Both(S, Both(F, D))))
  BY DEF Rows
<1>2. n \in DOMAIN P =>
        \E k \in DOMAIN g.processes : n = <<"process", k>> /\ P[n] = ProcessRow(g.processes[k], a)
  BY DEF Keyed
<1>3. n \in DOMAIN A => \E k \in DOMAIN g.apps : n = <<"app", k>> /\ A[n] = AppRow(g.apps[k], a)
  BY DEF Keyed
<1>4. n \in DOMAIN S =>
        \E k \in DOMAIN g.sockets : n = <<"socket", k>> /\ S[n] = SocketRow(g.sockets[k], a)
  BY DEF Keyed
<1>5. n \in DOMAIN F => \E k \in DOMAIN g.files : n = <<"file", k>> /\ F[n] = FileRow(g.files[k], a)
  BY DEF Keyed
<1>6. n \in DOMAIN D =>
        \E k \in DOMAIN g.domains : n = <<"domain", k>> /\ D[n] = DomainRow(g.domains[k], a)
  BY DEF Keyed
<1> HIDE DEF P, A, S, F, D
<1>7. \/ n \in DOMAIN P /\ row = P[n]
      \/ n \in DOMAIN A /\ row = A[n]
      \/ n \in DOMAIN S /\ row = S[n]
      \/ n \in DOMAIN F /\ row = F[n]
      \/ n \in DOMAIN D /\ row = D[n]
  BY <1>1 DEF Both
<1> QED BY <1>2, <1>3, <1>4, <1>5, <1>6, <1>7

\* Each edge of a snapshot is of one kind, between two of its nodes.
LEMMA SnapshotEdgeCases ==
  ASSUME NEW order, NEW e \in DOMAIN Snapshot(order).edges
  PROVE  \/ \E c \in DOMAIN processes, p \in DOMAIN processes :
              PidOf(p) = processes[c].ppid /\ e = Edge("parent_of", "process", p, "process", c)
         \/ \E x \in DOMAIN apps, k \in DOMAIN processes :
              e = Edge("frontmost_during", "app", x, "process", k)
         \/ \E s \in DOMAIN sockets, k \in DOMAIN processes :
              e = Edge("opened_socket", "process", k, "socket", s)
         \/ \E d \in DOMAIN domains, k \in DOMAIN processes :
              e = Edge("queried_domain", "process", k, "domain", d)
<1> DEFINE shown == FrontClosed(lastTs)
<1>1. \/ e \in DOMAIN ParentEdges(order)
      \/ e \in DOMAIN FrontmostEdges(shown)
      \/ e \in DOMAIN SocketEdges(order)
      \/ e \in DOMAIN DomainEdges(order)
  <2>1. Snapshot(order).edges =
          Both(Both(ParentEdges(order), FrontmostEdges(shown)),
               Both(SocketEdges(order), DomainEdges(order)))
    BY DEF Snapshot
  <2> QED BY <2>1 DEF Both
<1>2. CASE e \in DOMAIN ParentEdges(order)
  <2>1. PICK c \in DOMAIN processes : \E p \in LastIn(order, WithPid(processes[c].ppid)) :
          e = Edge("parent_of", "process", p, "process", c)
    BY <1>2 DEF ParentEdges
  <2> PICK p \in LastIn(order, WithPid(processes[c].ppid)) :
        e = Edge("parent_of", "process", p, "process", c)
    BY <2>1
  <2>2. p \in DOMAIN processes /\ PidOf(p) = processes[c].ppid
    BY DEF LastIn, WithPid
  <2> QED BY <2>2
<1>3. CASE e \in DOMAIN FrontmostEdges(shown)
  <2>1. DOMAIN shown = DOMAIN apps
    BY DEF FrontClosed
  <2>2. PICK x \in DOMAIN apps, k \in DOMAIN processes :
          e = Edge("frontmost_during", "app", x, "process", k)
    BY <1>3, <2>1 DEF FrontmostEdges
  <2> QED BY <2>2
<1>4. CASE e \in DOMAIN SocketEdges(order)
  <2>1. PICK s \in DOMAIN sockets, k \in DOMAIN processes :
          e = Edge("opened_socket", "process", k, "socket", s)
    BY <1>4 DEF SocketEdges, Owner, LastIn, Youngest, Candidates, WithPid
  <2> QED BY <2>1
<1>5. CASE e \in DOMAIN DomainEdges(order)
  <2>1. PICK q \in DOMAIN domainQueries, k \in DOMAIN processes :
          q[2] \in DOMAIN domains /\ e = Edge("queried_domain", "process", k, "domain", q[2])
    BY <1>5 DEF DomainEdges, Owner, LastIn, Youngest, Candidates, WithPid
  <2> QED BY <2>1
<1> HIDE DEF shown
<1> QED BY <1>1, <1>2, <1>3, <1>4, <1>5

\* An edge of a snapshot runs between nodes of the snapshot.
LEMMA SnapshotEdges ==
  ASSUME NEW order, NEW a, NEW e \in DOMAIN Snapshot(order).edges
  PROVE  Ends(e) \subseteq DOMAIN Rows(Snapshot(order), a)
<1> DEFINE N == DOMAIN Rows(Snapshot(order), a)
<1>1. /\ \A k \in DOMAIN processes : <<"process", k>> \in N
      /\ \A k \in DOMAIN apps : <<"app", k>> \in N
      /\ \A k \in DOMAIN sockets : <<"socket", k>> \in N
      /\ \A k \in DOMAIN domains : <<"domain", k>> \in N
  BY RowsDomain, SnapshotNodes
<1> HIDE DEF N
<1>2. e.from \in N /\ e.to \in N
  BY <1>1, SnapshotEdgeCases DEF Edge
<1> QED BY <1>2 DEF Ends, N

\* A merge forgets no node and no edge, and what it adds is the graph's.
LEMMA MergeDomains ==
  ASSUME NEW g, NEW a, MergeGraph(g, a)
  PROVE  /\ DOMAIN nodes' = DOMAIN nodes \cup DOMAIN Rows(g, a)
         /\ DOMAIN edges' = DOMAIN edges \cup DOMAIN g.edges
BY DEF MergeGraph, MergedNodes

-----------------------------------------------------------------------------
\* A tick, retention, a restart: no edge loses an end.
LEMMA DanglingStep ==
  ASSUME NoDanglingEdge, [Next]_vars
  PROVE  NoDanglingEdge'
<1>1. CASE UNCHANGED storeVars
  BY <1>1 DEF NoDanglingEdge, storeVars
<1>2. CASE Tick
  <2> PICK order \in Orders : MergeGraph(Snapshot(order), anchor)
    BY <1>2 DEF Tick
  <2>1. /\ DOMAIN nodes' = DOMAIN nodes \cup DOMAIN Rows(Snapshot(order), anchor)
        /\ DOMAIN edges' = DOMAIN edges \cup DOMAIN Snapshot(order).edges
    BY MergeDomains
  <2>2. ASSUME NEW e \in DOMAIN Snapshot(order).edges
        PROVE  Ends(e) \subseteq DOMAIN Rows(Snapshot(order), anchor)
    BY SnapshotEdges
  <2> QED BY <2>1, <2>2 DEF NoDanglingEdge
<1>3. CASE Prune
  BY <1>3 DEF Prune, PruneBefore, NoDanglingEdge, Restrict
<1>4. CASE Receive \/ Observe \/ Restart \/ Advance
  BY <1>1, <1>4 DEF Receive, Observe, Restart, Advance, storeVars
<1>5. CASE UNCHANGED vars
  BY <1>1, <1>5 DEF vars, storeVars
<1> QED BY <1>2, <1>3, <1>4, <1>5 DEF Next

\* "load_graph never materializes an edge with a missing endpoint."
THEOREM NoEdgeEverDangles == Spec => []NoDanglingEdge
<1>1. Init => NoDanglingEdge
  BY DEF Init, OpenStore, NoDanglingEdge
<1>2. NoDanglingEdge /\ [Next]_vars => NoDanglingEdge'
  BY DanglingStep, Zenon
<1> QED BY <1>1, <1>2, PTL DEF Spec

-----------------------------------------------------------------------------
(* StoreIsCurrent.  What was said of a process is in the builder until it is *)
(* trimmed, and from then on in the store, unless retention has taken it.  *)

Node(k) == <<"process", k>>

\* What the store has of a process that died and was trimmed.
Archived(k) ==
  told[k].at + anchor >= horizon =>
    /\ Node(k) \in DOMAIN nodes
    /\ nodes[Node(k)].attrs.death = told[k].at
    /\ nodes[Node(k)].last >= told[k].at + anchor

IsRemembered(k) ==
  /\ told[k].state = "alive" => k \in DOMAIN processes /\ processes[k].death = None
  /\ told[k].state = "dead" =>
       /\ told[k].at \in Nat
       /\ \/ k \in DOMAIN processes /\ processes[k].death = told[k].at
          \/ k \notin DOMAIN processes /\ Archived(k)

Remembered == \A k \in ProcessId : IsRemembered(k)

IsProcess(p) ==
  /\ p = [ppid |-> p.ppid, birth |-> p.birth, death |-> p.death]
  /\ p.birth \in Nat /\ p.death \in Nat \cup {None}

WorldTypes ==
  /\ now \in Nat \ {0} /\ anchor \in Nat \ {0} /\ horizon \in Int
  /\ told \in [ProcessId -> [state : {"unknown", "alive", "dead"}, at : Int]]
  /\ \A k \in DOMAIN processes :
       IsProcess(processes[k])
  /\ \A k \in ProcessId : Node(k) \in DOMAIN nodes => nodes[Node(k)].last \in Int

CurrentInv == WorldTypes /\ Remembered /\ StoreIsCurrent

\* The row of a process in a graph.
LEMMA ProcessRows ==
  ASSUME NEW g, NEW a, NEW k
  PROVE  /\ Node(k) \in DOMAIN Rows(g, a) <=> k \in DOMAIN g.processes
         /\ k \in DOMAIN g.processes =>
              Rows(g, a)[Node(k)] = ProcessRow(g.processes[k], a)
BY DEF Rows, Keyed, Both, Node

\* A merge stores the process's death, or that there is none, and that it was
\* seen by then.
LEMMA MergedProcess ==
  ASSUME NEW g, NEW a \in Nat \ {0}, MergeGraph(g, a), NEW k \in DOMAIN g.processes,
         g.processes[k].birth \in Nat, g.processes[k].death \in Nat \cup {None},
         Node(k) \in DOMAIN nodes => nodes[Node(k)].last \in Int
  PROVE  /\ Node(k) \in DOMAIN nodes'
         /\ nodes'[Node(k)].attrs.death = g.processes[k].death
         /\ nodes'[Node(k)].last \in Int
         /\ g.processes[k].death # None =>
              nodes'[Node(k)].last >= g.processes[k].death + a
<1> DEFINE p == g.processes[k]
<1> DEFINE row == ProcessRow(p, a)
<1>1. Node(k) \in DOMAIN Rows(g, a) /\ Rows(g, a)[Node(k)] = row
  BY ProcessRows
<1>2. /\ row.attrs.death = p.death /\ row.last \in Int
      /\ p.death # None => row.last = p.death + a
  BY DEF ProcessRow, Row, Unix, EndOr, NoTime, None
<1>3. /\ Node(k) \in DOMAIN nodes'
      /\ nodes'[Node(k)] = IF Node(k) \notin DOMAIN nodes THEN row
                           ELSE UpsertNode(nodes[Node(k)], row)
  BY <1>1 DEF MergeGraph, MergedNodes
<1> HIDE DEF row
<1>4. CASE Node(k) \notin DOMAIN nodes
  <2>1. p.death # None => p.death \in Int /\ p.death + a >= p.death + a
    BY DEF None
  <2> QED BY <1>2, <1>3, <1>4, <2>1
<1>5. CASE Node(k) \in DOMAIN nodes
  <2>1. /\ UpsertNode(nodes[Node(k)], row).attrs = row.attrs
        /\ UpsertNode(nodes[Node(k)], row).last = Larger(row.last, nodes[Node(k)].last)
    BY DEF UpsertNode
  <2>2. /\ Larger(row.last, nodes[Node(k)].last) \in Int
        /\ Larger(row.last, nodes[Node(k)].last) >= row.last
    BY <1>2, <1>5 DEF Larger
  <2> QED BY <1>2, <1>3, <1>5, <2>1, <2>2
<1> QED BY <1>4, <1>5

\* A merge leaves what the graph does not have.
LEMMA UnmergedProcess ==
  ASSUME NEW g, NEW a, MergeGraph(g, a), NEW k, k \notin DOMAIN g.processes
  PROVE  /\ Node(k) \in DOMAIN nodes' <=> Node(k) \in DOMAIN nodes
         /\ Node(k) \in DOMAIN nodes => nodes'[Node(k)] = nodes[Node(k)]
<1>1. Node(k) \notin DOMAIN Rows(g, a)
  BY ProcessRows
<1> QED BY <1>1 DEF MergeGraph, MergedNodes

\* A step that changes nothing that the invariant is about.
LEMMA CurrentUnchanged ==
  ASSUME CurrentInv, UNCHANGED <<processes, nodes, told, anchor, horizon>>,
         now' \in Nat \ {0}, merged' \in {merged, FALSE}
  PROVE  CurrentInv'
<1>1. WorldTypes'
  BY DEF CurrentInv, WorldTypes
<1>2. Remembered'
  BY DEF CurrentInv, Remembered, IsRemembered, Archived
<1>3. StoreIsCurrent'
  <2>1. CASE merged' = FALSE
    BY <2>1 DEF StoreIsCurrent
  <2>2. CASE merged' = merged
    BY <2>2 DEF CurrentInv, StoreIsCurrent
  <2> QED BY <2>1, <2>2
<1> QED BY <1>1, <1>2, <1>3 DEF CurrentInv

\* The event of a process: it is told what the builder holds from now on.
LEMMA CurrentProcessEvent ==
  ASSUME CurrentInv, NEW ts \in Nat, ProcessEvent(ts), merged' = FALSE,
         UNCHANGED <<nodes, now, anchor, horizon>>
  PROVE  CurrentInv'
<1> PICK k \in ProcessId : Birth(k, ts) \/ Death(k, ts)
  BY DEF ProcessEvent
<1>1. /\ DOMAIN processes' = DOMAIN processes \cup {k}
      /\ \A j \in DOMAIN processes \ {k} : processes'[j] = processes[j]
      /\ IsProcess(processes'[k])
      /\ \/ Tell(k, "alive", ts) /\ processes'[k].death = None
         \/ Tell(k, "dead", ts) /\ processes'[k].death = ts
  <2>1. CASE Birth(k, ts)
    BY <2>1 DEF Birth, OnProcessBirth, Put, IsProcess
  <2>2. CASE Death(k, ts) /\ k \notin DOMAIN processes
    BY <2>2 DEF Death, OnProcessDeath, Put, IsProcess
  <2>3. CASE Death(k, ts) /\ k \in DOMAIN processes
    <3>1. processes' = [processes EXCEPT ![k].death = ts]
      BY <2>3 DEF Death, OnProcessDeath
    <3>2. IsProcess(processes[k])
      BY <2>3 DEF CurrentInv, WorldTypes
    <3>3. /\ processes'[k] = [processes[k] EXCEPT !.death = ts]
          /\ DOMAIN processes' = DOMAIN processes \cup {k}
          /\ \A j \in DOMAIN processes \ {k} : processes'[j] = processes[j]
      BY <2>3, <3>1
    <3>4. /\ processes'[k].death = ts
          /\ IsProcess(processes'[k])
      BY <3>2, <3>3 DEF IsProcess
    <3> QED BY <2>3, <3>3, <3>4 DEF Death
  <2> QED BY <2>1, <2>2, <2>3
<1>2. /\ told' \in [ProcessId -> [state : {"unknown", "alive", "dead"}, at : Int]]
      /\ told'[k].at = ts
      /\ told'[k].state = "alive" => processes'[k].death = None
      /\ told'[k].state = "dead" => processes'[k].death = ts
      /\ \A j \in ProcessId \ {k} : told'[j] = told[j]
  BY <1>1 DEF Tell, CurrentInv, WorldTypes
<1>3. WorldTypes'
  BY <1>1, <1>2 DEF CurrentInv, WorldTypes
<1>4. ASSUME NEW j \in ProcessId  PROVE IsRemembered(j)'
  BY <1>1, <1>2 DEF CurrentInv, Remembered, IsRemembered, Archived, Node
<1> QED BY <1>3, <1>4 DEF CurrentInv, Remembered, StoreIsCurrent

\* A tick: what leaves the builder has just been merged.
LEMMA CurrentTick ==
  ASSUME CurrentInv, Tick
  PROVE  CurrentInv'
<1> PICK order \in Orders : MergeGraph(Snapshot(order), anchor)
  BY DEF Tick
<1> DEFINE g == Snapshot(order)
<1>1. g.processes = processes
  BY DEF Snapshot
<1>2. MergeGraph(g, anchor)
  OBVIOUS
<1> HIDE DEF g
<1>3. /\ UNCHANGED <<told, anchor, horizon, now>>
      /\ now \in Nat \ {0} /\ anchor \in Nat \ {0} /\ horizon \in Int
      /\ told \in [ProcessId -> [state : {"unknown", "alive", "dead"}, at : Int]]
  BY DEF Tick, CurrentInv, WorldTypes
<1>4. /\ DOMAIN processes' \subseteq DOMAIN processes
      /\ \A k \in DOMAIN processes' : processes'[k] = processes[k]
      /\ \A k \in DOMAIN processes : processes[k].death = None => k \in DOMAIN processes'
  <2>1. CASE UNCHANGED builderVars
    BY <2>1 DEF builderVars
  <2>2. CASE TrimBefore(Later(newest - Ttl, 0))
    BY <2>2 DEF TrimBefore, Kept, Restrict
  <2> QED BY <2>1, <2>2 DEF Tick
<1>5. ASSUME NEW k \in ProcessId, k \in DOMAIN processes
      PROVE  /\ Node(k) \in DOMAIN nodes'
             /\ nodes'[Node(k)].attrs.death = processes[k].death
             /\ nodes'[Node(k)].last \in Int
             /\ processes[k].death # None =>
                  nodes'[Node(k)].last >= processes[k].death + anchor
  <2>1. /\ k \in DOMAIN g.processes
        /\ g.processes[k].birth \in Nat /\ g.processes[k].death \in Nat \cup {None}
        /\ Node(k) \in DOMAIN nodes => nodes[Node(k)].last \in Int
    BY <1>1, <1>5 DEF CurrentInv, WorldTypes, IsProcess
  <2>2. /\ Node(k) \in DOMAIN nodes'
        /\ nodes'[Node(k)].attrs.death = g.processes[k].death
        /\ nodes'[Node(k)].last \in Int
        /\ g.processes[k].death # None =>
             nodes'[Node(k)].last >= g.processes[k].death + anchor
    BY <1>2, <1>3, <2>1, MergedProcess
  <2> QED BY <1>1, <2>2
<1>6. ASSUME NEW k \in ProcessId, k \notin DOMAIN processes
      PROVE  /\ Node(k) \in DOMAIN nodes' <=> Node(k) \in DOMAIN nodes
             /\ Node(k) \in DOMAIN nodes => nodes'[Node(k)] = nodes[Node(k)]
  BY <1>1, <1>2, <1>6, UnmergedProcess
<1>7. WorldTypes'
  <2>1. \A k \in DOMAIN processes' : IsProcess(processes'[k])
    BY <1>4 DEF CurrentInv, WorldTypes
  <2>2. ASSUME NEW k \in ProcessId, Node(k) \in DOMAIN nodes'
        PROVE  nodes'[Node(k)].last \in Int
    BY <1>5, <1>6, <2>2 DEF CurrentInv, WorldTypes
  <2> QED BY <1>3, <2>1, <2>2 DEF WorldTypes, Node
<1>8. ASSUME NEW k \in ProcessId  PROVE IsRemembered(k)'
  <2>1. IsRemembered(k)
    BY DEF CurrentInv, Remembered
  <2>2. CASE k \in DOMAIN processes
    BY <1>3, <1>4, <1>5, <2>1, <2>2 DEF IsRemembered, Archived, None, Node
  <2>3. CASE k \notin DOMAIN processes
    BY <1>3, <1>4, <1>6, <2>1, <2>3 DEF IsRemembered, Archived, Node
  <2> QED BY <2>2, <2>3
<1>9. ASSUME NEW k \in ProcessId
      PROVE  /\ told[k].state = "alive" =>
                  Node(k) \in DOMAIN nodes' /\ nodes'[Node(k)].attrs.death = None
             /\ told[k].state = "dead" /\ told[k].at + anchor >= horizon =>
                  Node(k) \in DOMAIN nodes' /\ nodes'[Node(k)].attrs.death = told[k].at
  <2>1. IsRemembered(k)
    BY DEF CurrentInv, Remembered
  <2> QED BY <1>3, <1>5, <1>6, <2>1 DEF IsRemembered, Archived
<1>10. StoreIsCurrent'
  BY <1>3, <1>9 DEF StoreIsCurrent, Node
<1> QED BY <1>7, <1>8, <1>10 DEF CurrentInv, Remembered

\* Retention takes the rows that were last seen before its cutoff.
LEMMA CurrentPrune ==
  ASSUME CurrentInv, Prune
  PROVE  CurrentInv'
<1> DEFINE cutoff == now - Retention
<1>1. /\ UNCHANGED <<processes, told, anchor, now>> /\ merged' = FALSE
      /\ horizon' = Later(horizon, cutoff) /\ PruneBefore(cutoff)
  BY DEF Prune, builderVars
<1>2. /\ now \in Nat \ {0} /\ anchor \in Nat \ {0} /\ horizon \in Int
      /\ told \in [ProcessId -> [state : {"unknown", "alive", "dead"}, at : Int]]
      /\ cutoff \in Int
  BY WorldAssumption DEF CurrentInv, WorldTypes
<1> HIDE DEF cutoff
<1>3. horizon' \in Int /\ horizon' >= horizon /\ horizon' >= cutoff
  BY <1>1, <1>2 DEF Later
<1>4. /\ \A n : n \in DOMAIN nodes' <=> n \in DOMAIN nodes /\ nodes[n].last >= cutoff
      /\ \A n \in DOMAIN nodes' : nodes'[n] = nodes[n]
  BY <1>1 DEF PruneBefore, Restrict
<1>5. WorldTypes'
  BY <1>1, <1>2, <1>3, <1>4 DEF CurrentInv, WorldTypes
<1>6. ASSUME NEW k \in ProcessId  PROVE IsRemembered(k)'
  <2>1. IsRemembered(k)
    BY DEF CurrentInv, Remembered
  <2>2. told[k].at \in Int /\ told[k].at + anchor \in Int
    BY <1>2
  <2>3. Node(k) \in DOMAIN nodes => nodes[Node(k)].last \in Int
    BY DEF CurrentInv, WorldTypes
  <2>4. Archived(k) => Archived(k)'
    <3> SUFFICES ASSUME Archived(k), told[k].at + anchor >= horizon'
                 PROVE  /\ Node(k) \in DOMAIN nodes'
                        /\ nodes'[Node(k)].attrs.death = told[k].at
                        /\ nodes'[Node(k)].last >= told[k].at + anchor
      BY <1>1 DEF Archived, Node
    <3>1. /\ Node(k) \in DOMAIN nodes
          /\ nodes[Node(k)].attrs.death = told[k].at
          /\ nodes[Node(k)].last >= told[k].at + anchor
      BY <1>2, <1>3, <2>2 DEF Archived
    <3>2. nodes[Node(k)].last >= cutoff
      BY <1>2, <1>3, <2>2, <2>3, <3>1
    <3> QED BY <1>4, <3>1, <3>2
  <2> QED BY <1>1, <2>1, <2>4 DEF IsRemembered
<1> QED BY <1>1, <1>5, <1>6 DEF CurrentInv, Remembered, StoreIsCurrent

\* What is remembered and current stays so.
LEMMA CurrentInvariant == Spec => []CurrentInv
<1>1. Init => CurrentInv
  BY DEF Init, NewBuilder, OpenStore, Untold, Empty, None, CurrentInv, WorldTypes,
         Remembered, IsRemembered, StoreIsCurrent
<1>2. CurrentInv /\ [Next]_vars => CurrentInv'
  <2> SUFFICES ASSUME CurrentInv, [Next]_vars  PROVE CurrentInv'
    OBVIOUS
  <2>1. now \in Nat \ {0} /\ anchor \in Nat \ {0}
    BY DEF CurrentInv, WorldTypes
  <2>2. CASE Receive
    <3>1. UNCHANGED <<nodes, now, anchor, horizon>> /\ merged' = FALSE
      BY <2>2 DEF Receive, storeVars
    <3>2. ASSUME NEW ts \in Nat, ProcessEvent(ts)  PROVE CurrentInv'
      BY <3>1, <3>2, CurrentProcessEvent
    <3>3. ASSUME NEW ts, SocketEvent(ts) \/ FileEvent(ts) \/ FocusEvent \/ DnsEvent
          PROVE  UNCHANGED <<processes, told>>
      BY <3>3 DEF SocketEvent, FileEvent, FocusEvent, DnsEvent, OnFocusOnNothing, OnObservation, OnConnectionOpened,
                  OnConnectionClosed, OnFileChanged, OnAppFocus, OnDnsQuery
    <3>4. \/ \E ts \in Nat : ProcessEvent(ts)
          \/ \E ts : SocketEvent(ts) \/ FileEvent(ts) \/ FocusEvent \/ DnsEvent
      BY <2>2 DEF Receive
    <3> QED BY <2>1, <3>1, <3>2, <3>3, <3>4, CurrentUnchanged
  <2>3. CASE Observe
    <3>1. /\ UNCHANGED <<processes, nodes, told, anchor, horizon, now>>
          /\ merged' = FALSE
      BY <2>3 DEF Observe, OnObservation, storeVars, historyVars
    <3> QED BY <2>1, <3>1, CurrentUnchanged
  <2>4. CASE Tick
    BY <2>4, CurrentTick
  <2>5. CASE Prune
    BY <2>5, CurrentPrune
  <2>6. CASE Restart
    <3>1. /\ processes' = <<>> /\ anchor' = now /\ merged' = FALSE
          /\ told' = [k \in ProcessId |-> Untold]
          /\ UNCHANGED <<nodes, now, horizon>>
      BY <2>6 DEF Restart, ResetBuilder, Empty, storeVars
    <3> QED BY <2>1, <3>1 DEF CurrentInv, WorldTypes, Remembered, IsRemembered,
                              StoreIsCurrent, Untold, None
  <2>7. CASE Advance
    <3>1. /\ UNCHANGED <<processes, nodes, told, anchor, horizon>>
          /\ now' \in Nat \ {0} /\ merged' = FALSE
      BY <2>1, <2>7 DEF Advance, builderVars, storeVars
    <3> QED BY <3>1, CurrentUnchanged
  <2>8. CASE UNCHANGED vars
    <3>1. /\ UNCHANGED <<processes, nodes, told, anchor, horizon, now>>
          /\ merged' = merged
      BY <2>8 DEF vars, builderVars, storeVars, historyVars
    <3> QED BY <2>1, <3>1, CurrentUnchanged
  <2> QED BY <2>2, <2>3, <2>4, <2>5, <2>6, <2>7, <2>8 DEF Next
<1> QED BY <1>1, <1>2, PTL DEF Spec

\* After each merge the store has what the builder was told of every process,
\* also of those it has trimmed since, for as long as retention lets it.
THEOREM StoreKeepsUp == Spec => []StoreIsCurrent
<1>1. CurrentInv => StoreIsCurrent
  BY Zenon DEF CurrentInv
<1> QED BY <1>1, CurrentInvariant, PTL

-----------------------------------------------------------------------------
(* OnlyForgettingShrinksTallies.  A stored file that was not forgotten is in *)
(* the builder with at least as many touches, and so is a stored domain.    *)

FileNode(f) == <<"file", f>>
DomainNode(d) == <<"domain", d>>

IsFile(r) == "touches" \in DOMAIN r /\ r.touches \in Nat

IsDomain(r) == "queries" \in DOMAIN r /\ r.queries \in Nat

FilesInv ==
  /\ \A f \in DOMAIN files : f \in File /\ IsFile(files[f])
  /\ \A f \in File : FileNode(f) \in DOMAIN nodes \ forgotten =>
       /\ f \in DOMAIN files
       /\ nodes[FileNode(f)].attrs.touches \in Nat
       /\ nodes[FileNode(f)].attrs.touches <= files[f].touches

DomainsInv ==
  /\ \A d \in DOMAIN domains : d \in Domain /\ IsDomain(domains[d])
  /\ \A d \in Domain : DomainNode(d) \in DOMAIN nodes \ forgotten =>
       /\ d \in DOMAIN domains
       /\ nodes[DomainNode(d)].attrs.queries \in Nat
       /\ nodes[DomainNode(d)].attrs.queries <= domains[d].queries

\* The rows of files and domains.
LEMMA TallyRows ==
  ASSUME NEW g, NEW a
  PROVE  /\ \A f : FileNode(f) \in DOMAIN Rows(g, a) <=> f \in DOMAIN g.files
         /\ \A f \in DOMAIN g.files : Rows(g, a)[FileNode(f)] = FileRow(g.files[f], a)
         /\ \A d : DomainNode(d) \in DOMAIN Rows(g, a) <=> d \in DOMAIN g.domains
         /\ \A d \in DOMAIN g.domains :
              Rows(g, a)[DomainNode(d)] = DomainRow(g.domains[d], a)
BY DEF Rows, Keyed, Both, FileNode, DomainNode

\* A row of kind "file" is a file's, one of kind "domain" a domain's.
LEMMA RowKinds ==
  ASSUME NEW g, NEW a, NEW n \in DOMAIN Rows(g, a)
  PROVE  /\ n[1] = "file" => \E f \in DOMAIN g.files : n = FileNode(f)
         /\ n[1] = "domain" => \E d \in DOMAIN g.domains : n = DomainNode(d)
BY DEF Rows, Keyed, Both, FileNode, DomainNode

\* A merge takes the attributes of each row and leaves the other nodes.
LEMMA MergedAttrs ==
  ASSUME NEW g, NEW a, MergeGraph(g, a)
  PROVE  /\ DOMAIN nodes' = DOMAIN nodes \cup DOMAIN Rows(g, a)
         /\ \A n \in DOMAIN Rows(g, a) : nodes'[n].attrs = Rows(g, a)[n].attrs
         /\ \A n \in DOMAIN nodes \ DOMAIN Rows(g, a) : nodes'[n] = nodes[n]
BY DEF MergeGraph, MergedNodes, UpsertNode

\* What a tick leaves in the builder, and what of the rest it forgets.
LEMMA TickTrims ==
  ASSUME Tick
  PROVE  /\ DOMAIN files' \subseteq DOMAIN files
         /\ \A f \in DOMAIN files' : files'[f] = files[f]
         /\ \A f \in DOMAIN files \ DOMAIN files' : FileNode(f) \in forgotten'
         /\ DOMAIN domains' \subseteq DOMAIN domains
         /\ \A d \in DOMAIN domains' : domains'[d] = domains[d]
         /\ \A d \in DOMAIN domains \ DOMAIN domains' : DomainNode(d) \in forgotten'
         /\ forgotten \subseteq forgotten'
<1>1. CASE UNCHANGED <<builderVars, forgotten>>
  BY <1>1 DEF builderVars
<1>2. CASE /\ TrimBefore(Later(newest - Ttl, 0))
           /\ forgotten' = forgotten \cup
                ({FileNode(f) : f \in DOMAIN files \ DOMAIN files'}
                  \cup {DomainNode(d) : d \in DOMAIN domains \ DOMAIN domains'})
  BY <1>2 DEF TrimBefore, Kept, Restrict
<1> QED BY <1>1, <1>2 DEF Tick, FileNode, DomainNode

\* What a tick stores of a file or a domain is what the builder had.
LEMMA TickMerges ==
  ASSUME FilesInv, DomainsInv, Tick
  PROVE  /\ \A f \in DOMAIN files :
              nodes'[FileNode(f)].attrs.touches = files[f].touches
         /\ \A d \in DOMAIN domains :
              nodes'[DomainNode(d)].attrs.queries = domains[d].queries
         /\ \A n \in DOMAIN nodes' :
              \/ n \in DOMAIN nodes /\ nodes'[n] = nodes[n]
                   /\ ~(\E f \in DOMAIN files : n = FileNode(f))
                   /\ ~(\E d \in DOMAIN domains : n = DomainNode(d))
              \/ \E f \in DOMAIN files : n = FileNode(f)
              \/ \E d \in DOMAIN domains : n = DomainNode(d)
              \/ n[1] \notin {"file", "domain"}
<1> PICK order \in Orders : MergeGraph(Snapshot(order), anchor)
  BY DEF Tick
<1> DEFINE g == Snapshot(order)
<1>1. g.files = files /\ g.domains = domains
  BY DEF Snapshot
<1>2. MergeGraph(g, anchor)
  OBVIOUS
<1> HIDE DEF g
<1>3. /\ DOMAIN nodes' = DOMAIN nodes \cup DOMAIN Rows(g, anchor)
      /\ \A n \in DOMAIN Rows(g, anchor) : nodes'[n].attrs = Rows(g, anchor)[n].attrs
      /\ \A n \in DOMAIN nodes \ DOMAIN Rows(g, anchor) : nodes'[n] = nodes[n]
  BY <1>2, MergedAttrs
<1>4. /\ \A f : FileNode(f) \in DOMAIN Rows(g, anchor) <=> f \in DOMAIN files
      /\ \A f \in DOMAIN files :
           Rows(g, anchor)[FileNode(f)] = FileRow(files[f], anchor)
      /\ \A d : DomainNode(d) \in DOMAIN Rows(g, anchor) <=> d \in DOMAIN domains
      /\ \A d \in DOMAIN domains :
           Rows(g, anchor)[DomainNode(d)] = DomainRow(domains[d], anchor)
  BY <1>1, TallyRows
<1>5. ASSUME NEW f \in DOMAIN files
      PROVE  nodes'[FileNode(f)].attrs.touches = files[f].touches
  <2>1. FileNode(f) \in DOMAIN Rows(g, anchor)
    BY <1>4
  <2>2. nodes'[FileNode(f)].attrs = Rows(g, anchor)[FileNode(f)].attrs
    BY <1>3, <2>1
  <2>3. Rows(g, anchor)[FileNode(f)] = FileRow(files[f], anchor)
    BY <1>4
  <2>4. FileRow(files[f], anchor).attrs.touches = files[f].touches
    BY DEF FileRow, Row
  <2> QED BY <2>2, <2>3, <2>4
<1>6. ASSUME NEW d \in DOMAIN domains
      PROVE  nodes'[DomainNode(d)].attrs.queries = domains[d].queries
  <2>1. DomainNode(d) \in DOMAIN Rows(g, anchor)
    BY <1>4
  <2>2. nodes'[DomainNode(d)].attrs = Rows(g, anchor)[DomainNode(d)].attrs
    BY <1>3, <2>1
  <2>3. Rows(g, anchor)[DomainNode(d)] = DomainRow(domains[d], anchor)
    BY <1>4
  <2>4. DomainRow(domains[d], anchor).attrs.queries = domains[d].queries
    BY DEF DomainRow, Row
  <2> QED BY <2>2, <2>3, <2>4
<1>7. ASSUME NEW n \in DOMAIN Rows(g, anchor)
      PROVE  \/ \E f \in DOMAIN files : n = FileNode(f)
             \/ \E d \in DOMAIN domains : n = DomainNode(d)
             \/ n[1] \notin {"file", "domain"}
  BY <1>1, RowKinds
<1> QED BY <1>3, <1>4, <1>5, <1>6, <1>7

\* A tick: what is not forgotten was stored as the builder has it.
LEMMA TallyTick ==
  ASSUME FilesInv, DomainsInv, Tick
  PROVE  FilesInv' /\ DomainsInv'
<1>1. ASSUME NEW f \in DOMAIN files'  PROVE f \in File /\ IsFile(files'[f])
  BY TickTrims DEF FilesInv
<1>2. ASSUME NEW f \in File, FileNode(f) \in DOMAIN nodes' \ forgotten'
      PROVE  /\ f \in DOMAIN files'
             /\ nodes'[FileNode(f)].attrs.touches \in Nat
             /\ nodes'[FileNode(f)].attrs.touches <= files'[f].touches
  <2>1. f \in DOMAIN files
    <3> SUFFICES ASSUME f \notin DOMAIN files  PROVE FALSE
      OBVIOUS
    <3>1. \A x : FileNode(f) = FileNode(x) => f = x
      BY DEF FileNode
    <3>2. \A d : FileNode(f) # DomainNode(d)
      BY DEF FileNode, DomainNode
    <3>3. FileNode(f)[1] = "file"
      BY DEF FileNode
    <3>4. FileNode(f) \in DOMAIN nodes
      BY <1>2, <3>1, <3>2, <3>3, TickMerges
    <3> QED BY <1>2, <3>4, TickTrims DEF FilesInv
  <2>2. f \in DOMAIN files' /\ files'[f] = files[f]
    BY <1>2, <2>1, TickTrims
  <2>3. nodes'[FileNode(f)].attrs.touches = files[f].touches
    BY <2>1, TickMerges
  <2> QED BY <2>1, <2>2, <2>3 DEF FilesInv, IsFile
<1>3. ASSUME NEW d \in DOMAIN domains'  PROVE d \in Domain /\ IsDomain(domains'[d])
  BY TickTrims DEF DomainsInv
<1>4. ASSUME NEW d \in Domain, DomainNode(d) \in DOMAIN nodes' \ forgotten'
      PROVE  /\ d \in DOMAIN domains'
             /\ nodes'[DomainNode(d)].attrs.queries \in Nat
             /\ nodes'[DomainNode(d)].attrs.queries <= domains'[d].queries
  <2>1. d \in DOMAIN domains
    <3> SUFFICES ASSUME d \notin DOMAIN domains  PROVE FALSE
      OBVIOUS
    <3>1. \A x : DomainNode(d) = DomainNode(x) => d = x
      BY DEF DomainNode
    <3>2. \A f : DomainNode(d) # FileNode(f)
      BY DEF FileNode, DomainNode
    <3>3. DomainNode(d)[1] = "domain"
      BY DEF DomainNode
    <3>4. DomainNode(d) \in DOMAIN nodes
      BY <1>4, <3>1, <3>2, <3>3, TickMerges
    <3> QED BY <1>4, <3>4, TickTrims DEF DomainsInv
  <2>2. d \in DOMAIN domains' /\ domains'[d] = domains[d]
    BY <1>4, <2>1, TickTrims
  <2>3. nodes'[DomainNode(d)].attrs.queries = domains[d].queries
    BY <2>1, TickMerges
  <2> QED BY <2>1, <2>2, <2>3 DEF DomainsInv, IsDomain
<1> QED BY <1>1, <1>2, <1>3, <1>4 DEF FilesInv, DomainsInv

\* What is stored of files and domains are numbers.
StoredTallies ==
  \A n \in DOMAIN nodes :
    /\ n[1] = "file" => nodes[n].attrs.touches \in Nat
    /\ n[1] = "domain" => nodes[n].attrs.queries \in Nat

TallyInv == FilesInv /\ DomainsInv /\ StoredTallies

\* No tally of this node goes down that the builder had not forgotten.
ShrinksIfForgotten(n) ==
  /\ n[1] = "file" /\ nodes'[n].attrs.touches < nodes[n].attrs.touches
       => n \in forgotten
  /\ n[1] = "domain" /\ nodes'[n].attrs.queries < nodes[n].attrs.queries
       => n \in forgotten

\* A step that leaves a node leaves its tallies.
LEMMA KeptDoesNotShrink ==
  ASSUME StoredTallies, NEW n \in DOMAIN nodes, nodes'[n] = nodes[n]
  PROVE  ShrinksIfForgotten(n)
<1>1. n[1] = "file" => ~(nodes[n].attrs.touches < nodes[n].attrs.touches)
  BY DEF StoredTallies
<1>2. n[1] = "domain" => ~(nodes[n].attrs.queries < nodes[n].attrs.queries)
  BY DEF StoredTallies
<1> QED BY <1>1, <1>2 DEF ShrinksIfForgotten

\* A tick stores no tally below one that was not forgotten.
LEMMA TickShrinks ==
  ASSUME TallyInv, Tick
  PROVE  StoredTallies' /\ \A n \in DOMAIN nodes \cap DOMAIN nodes' : ShrinksIfForgotten(n)
<1> USE DEF TallyInv
<1>1. ASSUME NEW f \in DOMAIN files
      PROVE  /\ f \in File /\ files[f].touches \in Nat
             /\ nodes'[FileNode(f)].attrs.touches = files[f].touches
             /\ FileNode(f)[1] = "file"
  BY TickMerges DEF FilesInv, IsFile, FileNode
<1>2. ASSUME NEW d \in DOMAIN domains
      PROVE  /\ d \in Domain /\ domains[d].queries \in Nat
             /\ nodes'[DomainNode(d)].attrs.queries = domains[d].queries
             /\ DomainNode(d)[1] = "domain"
  BY TickMerges DEF DomainsInv, IsDomain, DomainNode
<1>3. ASSUME NEW n \in DOMAIN nodes'
      PROVE  \/ n \in DOMAIN nodes /\ nodes'[n] = nodes[n]
             \/ \E f \in DOMAIN files : n = FileNode(f)
             \/ \E d \in DOMAIN domains : n = DomainNode(d)
             \/ n[1] \notin {"file", "domain"}
  BY TickMerges
<1>4. StoredTallies'
  BY <1>1, <1>2, <1>3 DEF StoredTallies
<1>5. ASSUME NEW n \in DOMAIN nodes \cap DOMAIN nodes'  PROVE ShrinksIfForgotten(n)
  <2>1. CASE nodes'[n] = nodes[n]
    BY <2>1, KeptDoesNotShrink
  <2>2. CASE \E f \in DOMAIN files : n = FileNode(f)
    <3> PICK f \in DOMAIN files : n = FileNode(f)
      BY <2>2
    <3>1. n \notin forgotten => /\ nodes[n].attrs.touches \in Nat
                                /\ nodes[n].attrs.touches <= nodes'[n].attrs.touches
      BY <1>1 DEF FilesInv
    <3>2. n[1] = "file" /\ nodes'[n].attrs.touches \in Nat
      BY <1>1
    <3> QED BY <3>1, <3>2 DEF ShrinksIfForgotten
  <2>3. CASE \E d \in DOMAIN domains : n = DomainNode(d)
    <3> PICK d \in DOMAIN domains : n = DomainNode(d)
      BY <2>3
    <3>1. n \notin forgotten => /\ nodes[n].attrs.queries \in Nat
                                /\ nodes[n].attrs.queries <= nodes'[n].attrs.queries
      BY <1>2 DEF DomainsInv
    <3>2. n[1] = "domain" /\ nodes'[n].attrs.queries \in Nat
      BY <1>2
    <3> QED BY <3>1, <3>2 DEF ShrinksIfForgotten
  <2>4. CASE n[1] \notin {"file", "domain"}
    BY <2>4 DEF ShrinksIfForgotten
  <2> QED BY <1>3, <2>1, <2>2, <2>3, <2>4
<1> QED BY <1>4, <1>5

\* A file event adds to the file's touches.
LEMMA TallyFileEvent ==
  ASSUME FilesInv, NEW ts, FileEvent(ts), UNCHANGED <<nodes, forgotten>>
  PROVE  FilesInv' /\ UNCHANGED domains
<1> PICK f \in File, flags \in SUBSET Flag, count \in 0..1 : OnFileChanged(f, flags, count, ts)
  BY DEF FileEvent
<1> DEFINE known == IF f \in DOMAIN files THEN files[f]
                    ELSE [first |-> ts, last |-> ts, touches |-> 0, flags |-> {}]
<1> DEFINE r == [known EXCEPT !.last = ts, !.touches = @ + count, !.flags = @ \cup flags]
<1>1. files' = Put(files, f, r) /\ UNCHANGED domains
  BY DEF OnFileChanged
<1>2. IsFile(known) /\ (f \in DOMAIN files => known = files[f])
  BY DEF FilesInv, IsFile
<1> HIDE DEF known
<1>3. r.touches = known.touches + count /\ IsFile(r)
  <2>1. DOMAIN r = DOMAIN known /\ r.touches = known.touches + count
    BY <1>2 DEF IsFile
  <2>2. known.touches + count \in Nat
    BY <1>2 DEF IsFile
  <2> QED BY <1>2, <2>1, <2>2 DEF IsFile
<1> HIDE DEF r
<1>4. /\ DOMAIN files' = DOMAIN files \cup {f} /\ files'[f] = r
      /\ \A x \in DOMAIN files \ {f} : files'[x] = files[x]
  BY <1>1 DEF Put
<1>5. ASSUME NEW x \in DOMAIN files'  PROVE x \in File /\ IsFile(files'[x])
  BY <1>3, <1>4 DEF FilesInv
<1>6. ASSUME NEW x \in DOMAIN files  PROVE files[x].touches <= files'[x].touches
  <2>1. CASE x = f
    BY <1>2, <1>3, <1>4, <2>1 DEF IsFile
  <2>2. CASE x # f
    BY <1>4, <2>2 DEF FilesInv, IsFile
  <2> QED BY <2>1, <2>2
<1>7. ASSUME NEW x \in File, FileNode(x) \in DOMAIN nodes' \ forgotten'
      PROVE  /\ x \in DOMAIN files'
             /\ nodes'[FileNode(x)].attrs.touches \in Nat
             /\ nodes'[FileNode(x)].attrs.touches <= files'[x].touches
  <2>1. /\ x \in DOMAIN files
        /\ nodes[FileNode(x)].attrs.touches \in Nat
        /\ nodes[FileNode(x)].attrs.touches <= files[x].touches
    BY <1>7 DEF FilesInv
  <2>2. x \in DOMAIN files' /\ files[x].touches \in Nat /\ files'[x].touches \in Nat
    BY <1>4, <1>5, <2>1 DEF FilesInv, IsFile
  <2> QED BY <1>6, <2>1, <2>2
<1> QED BY <1>1, <1>5, <1>7 DEF FilesInv

\* A dns query adds to the domain's.
LEMMA TallyDnsEvent ==
  ASSUME DomainsInv, DnsEvent, UNCHANGED <<nodes, forgotten>>
  PROVE  DomainsInv' /\ UNCHANGED files
<1> PICK d \in Domain, masked \in BOOLEAN, pid \in Asker : OnDnsQuery(d, masked, pid, Clock)
  BY DEF DnsEvent
<1> DEFINE ts == Clock
<1> DEFINE known == IF d \in DOMAIN domains THEN domains[d]
                    ELSE [first |-> ts, last |-> ts, queries |-> 0, masked |-> masked]
<1> DEFINE mask == known.masked /\ masked
<1> DEFINE r == [known EXCEPT !.last = ts, !.queries = @ + 1, !.masked = mask]
<1>1. domains' = Put(domains, d, r) /\ UNCHANGED files
  BY DEF OnDnsQuery
<1> HIDE DEF ts
<1>2. IsDomain(known) /\ (d \in DOMAIN domains => known = domains[d])
  BY DEF DomainsInv, IsDomain
<1> HIDE DEF known
<1> HIDE DEF mask
<1>3. r.queries = known.queries + 1 /\ IsDomain(r)
  <2>1. DOMAIN r = DOMAIN known /\ r.queries = known.queries + 1
    BY <1>2 DEF IsDomain
  <2>2. known.queries + 1 \in Nat
    BY <1>2 DEF IsDomain
  <2> QED BY <1>2, <2>1, <2>2 DEF IsDomain
<1> HIDE DEF r
<1>4. /\ DOMAIN domains' = DOMAIN domains \cup {d} /\ domains'[d] = r
      /\ \A x \in DOMAIN domains \ {d} : domains'[x] = domains[x]
  BY <1>1 DEF Put
<1>5. ASSUME NEW x \in DOMAIN domains'  PROVE x \in Domain /\ IsDomain(domains'[x])
  BY <1>3, <1>4 DEF DomainsInv
<1>6. ASSUME NEW x \in DOMAIN domains  PROVE domains[x].queries <= domains'[x].queries
  <2>1. CASE x = d
    BY <1>2, <1>3, <1>4, <2>1 DEF IsDomain
  <2>2. CASE x # d
    BY <1>4, <2>2 DEF DomainsInv, IsDomain
  <2> QED BY <2>1, <2>2
<1>7. ASSUME NEW x \in Domain, DomainNode(x) \in DOMAIN nodes' \ forgotten'
      PROVE  /\ x \in DOMAIN domains'
             /\ nodes'[DomainNode(x)].attrs.queries \in Nat
             /\ nodes'[DomainNode(x)].attrs.queries <= domains'[x].queries
  <2>1. /\ x \in DOMAIN domains
        /\ nodes[DomainNode(x)].attrs.queries \in Nat
        /\ nodes[DomainNode(x)].attrs.queries <= domains[x].queries
    BY <1>7 DEF DomainsInv
  <2>2. x \in DOMAIN domains' /\ domains[x].queries \in Nat /\ domains'[x].queries \in Nat
    BY <1>4, <1>5, <2>1 DEF DomainsInv, IsDomain
  <2> QED BY <1>6, <2>1, <2>2
<1> QED BY <1>1, <1>5, <1>7 DEF DomainsInv

\* A step that changes nothing that the invariant is about.
LEMMA TallyUnchanged ==
  ASSUME TallyInv, UNCHANGED <<files, domains, nodes, forgotten>>
  PROVE  TallyInv'
BY DEF TallyInv, FilesInv, DomainsInv, StoredTallies

\* A step keeps the tallies, and none that is not a tick stores another.
LEMMA TallyStep ==
  ASSUME TallyInv, [Next]_vars
  PROVE  /\ TallyInv'
         /\ \A n \in DOMAIN nodes \cap DOMAIN nodes' : ShrinksIfForgotten(n)
<1>1. CASE Tick
  BY <1>1, TallyTick, TickShrinks DEF TallyInv
<1>2. CASE ~Tick
  <2>1. \A n \in DOMAIN nodes' : n \in DOMAIN nodes /\ nodes'[n] = nodes[n]
    BY <1>2 DEF Next, Receive, Observe, Prune, Restart, Advance, vars, storeVars,
                PruneBefore, Restrict
  <2>2. \A n \in DOMAIN nodes \cap DOMAIN nodes' : ShrinksIfForgotten(n)
    BY <2>1, KeptDoesNotShrink DEF TallyInv
  <2>3. CASE Receive
    <3>1. UNCHANGED <<nodes, forgotten>>
      BY <2>3 DEF Receive, storeVars
    <3>2. ASSUME NEW ts, ProcessEvent(ts) \/ SocketEvent(ts) \/ FocusEvent
          PROVE  UNCHANGED <<files, domains>>
      BY <3>2 DEF ProcessEvent, Birth, Death, SocketEvent, FocusEvent, OnFocusOnNothing, OnObservation, OnProcessBirth,
                  OnProcessDeath, OnConnectionOpened, OnConnectionClosed, OnAppFocus
    <3>3. \/ \E ts : ProcessEvent(ts) \/ SocketEvent(ts) \/ FocusEvent
          \/ \E ts : FileEvent(ts)
          \/ DnsEvent
      BY <2>3 DEF Receive
    <3>4. CASE \E ts : ProcessEvent(ts) \/ SocketEvent(ts) \/ FocusEvent
      BY <2>2, <3>1, <3>2, <3>4, TallyUnchanged
    <3>5. CASE \E ts : FileEvent(ts)
      <4>1. FilesInv' /\ UNCHANGED domains
        BY <3>1, <3>5, TallyFileEvent DEF TallyInv
      <4> QED BY <2>2, <3>1, <4>1 DEF TallyInv, DomainsInv, StoredTallies
    <3>6. CASE DnsEvent
      <4>1. DomainsInv' /\ UNCHANGED files
        BY <3>1, <3>6, TallyDnsEvent DEF TallyInv
      <4> QED BY <2>2, <3>1, <4>1 DEF TallyInv, FilesInv, StoredTallies
    <3> QED BY <2>2, <3>3, <3>4, <3>5, <3>6
  <2>4. CASE Prune
    <3>1. UNCHANGED <<files, domains, forgotten>>
      BY <2>4 DEF Prune, builderVars
    <3> QED BY <2>1, <2>2, <3>1 DEF TallyInv, FilesInv, DomainsInv, StoredTallies
  <2>5. CASE Restart
    <3>1. /\ DOMAIN files' = {} /\ DOMAIN domains' = {} /\ UNCHANGED nodes
          /\ \A f \in File : FileNode(f) \in forgotten'
          /\ \A d \in Domain : DomainNode(d) \in forgotten'
      BY <2>5 DEF Restart, ResetBuilder, Empty, storeVars, FileNode, DomainNode
    <3> QED BY <2>2, <3>1 DEF TallyInv, FilesInv, DomainsInv, StoredTallies
  <2>6. CASE Observe \/ Advance \/ UNCHANGED vars
    <3>1. UNCHANGED <<files, domains, nodes, forgotten>>
      BY <2>6 DEF Observe, Advance, OnObservation, vars, builderVars, storeVars, historyVars
    <3> QED BY <2>2, <3>1, TallyUnchanged
  <2> QED BY <1>2, <2>3, <2>4, <2>5, <2>6 DEF Next
<1> QED BY <1>1, <1>2

\* The stored number of touches or queries goes down only after the builder has
\* forgotten the file or domain: for every ttl, retention and order of events.
THEOREM TalliesShrinkOnlyIfForgotten == Spec => OnlyForgettingShrinksTallies
<1>1. Init => TallyInv
  BY DEF Init, NewBuilder, OpenStore, Empty, TallyInv, FilesInv, DomainsInv, StoredTallies
<1>2. TallyInv /\ [Next]_vars => TallyInv'
  BY TallyStep
<1>3. TallyInv /\ [Next]_vars =>
        [\A n \in DOMAIN nodes \cap DOMAIN nodes' : ShrinksIfForgotten(n)]_vars
  BY TallyStep
<1> QED BY <1>1, <1>2, <1>3, PTL DEF Spec, OnlyForgettingShrinksTallies, ShrinksIfForgotten

-----------------------------------------------------------------------------
(* SegmentsAreTrue.  What an interval says is true when it is closed, and   *)
(* the one that is open is the last of the app that was in front last, with *)
(* nothing since, and true up to now.                                       *)
(* The store's overlaps are parts of intervals that were closed.            *)

\* No other app was in front from one time to another.
WasInFront(a, from, to) ==
  \A t \in from..(to - 1) : <<a, t>> \in inFront \/ <<None, t>> \in inFront

Interval == [from : Nat, to : Nat \cup {None}]

\* No event is dated after the clock's time.
ClockInv ==
  /\ now \in Nat \ {0} /\ anchor \in Nat \ {0} /\ anchor <= now
  /\ lastTs \in Nat \cup {None} /\ lastTs <= Clock

IntervalsAreTrue(a) ==
  \A i \in 1..Len(apps[a]) :
    IF apps[a][i].to = None THEN a = frontmost.app /\ i = Len(apps[a])
    ELSE WasInFront(a, anchor + apps[a][i].from, anchor + apps[a][i].to)

AppsInv ==
  /\ DOMAIN apps \subseteq App
  /\ \A a \in DOMAIN apps :
       apps[a] \in Seq(Interval) /\ apps[a] # <<>> /\ IntervalsAreTrue(a)

FrontInv ==
  frontmost # Nobody =>
    /\ frontmost \in [app : DOMAIN apps, since : Nat]
    /\ apps[frontmost.app][Len(apps[frontmost.app])] =
         [from |-> frontmost.since, to |-> None]
    /\ lastTs # None /\ front \in {frontmost.app, None}
    /\ WasInFront(frontmost.app, anchor + frontmost.since, now)

OverlapsAreTrue ==
  \A e \in OfKind("frontmost_during") :
    LET o == edges[e].attrs
    IN /\ o.from \in Nat /\ o.to \in Nat /\ edges[e].anchor \in Nat \ {0}
       /\ WasInFront(e.from[2], edges[e].anchor + o.from, edges[e].anchor + o.to)

SegmentInv == ClockInv /\ AppsInv /\ FrontInv /\ OverlapsAreTrue


\* Closing the interval in front, at a time that is past: every interval is
\* closed and true.
LEMMA ClosedFront ==
  ASSUME ClockInv, AppsInv, FrontInv, NEW ts \in Nat, ts <= Clock
  PROVE  /\ DOMAIN FrontClosed(ts) = DOMAIN apps
         /\ \A a \in DOMAIN apps :
              /\ FrontClosed(ts)[a] \in Seq(Interval) /\ FrontClosed(ts)[a] # <<>>
              /\ \A i \in 1..Len(FrontClosed(ts)[a]) :
                   LET x == FrontClosed(ts)[a][i]
                   IN /\ x.from \in Nat /\ x.to \in Nat
                      /\ WasInFront(a, anchor + x.from, anchor + x.to)
<1> DEFINE shown == FrontClosed(ts)
<1> DEFINE True(a, x) == /\ x.from \in Nat /\ x.to \in Nat
                         /\ WasInFront(a, anchor + x.from, anchor + x.to)
<1> DEFINE Good(a) == /\ shown[a] \in Seq(Interval) /\ shown[a] # <<>>
                      /\ \A i \in 1..Len(shown[a]) : True(a, shown[a][i])
<1>0. None = -1 /\ now \in Nat /\ anchor \in Nat
  BY DEF None, ClockInv
<1>1. DOMAIN shown = DOMAIN apps
  BY DEF FrontClosed
<1>2. ASSUME NEW a \in DOMAIN apps, NEW i \in 1..Len(apps[a]), apps[a][i].to # None
      PROVE  True(a, apps[a][i])
  <2>1. apps[a][i] \in Interval
    BY DEF AppsInv
  <2>2. WasInFront(a, anchor + apps[a][i].from, anchor + apps[a][i].to)
    BY <1>2 DEF AppsInv, IntervalsAreTrue
  <2> QED BY <1>2, <2>1, <2>2 DEF Interval
<1>3. ASSUME NEW a \in DOMAIN apps, shown[a] = apps[a],
             \A i \in 1..Len(apps[a]) : apps[a][i].to # None
      PROVE  Good(a)
  <2> HIDE DEF shown, True
  <2> QED BY <1>2, <1>3 DEF AppsInv
<1>4. CASE frontmost = Nobody
  <2>1. ASSUME NEW a \in DOMAIN apps  PROVE Good(a)
    <3>1. shown[a] = apps[a]
      BY <1>4 DEF FrontClosed
    <3>2. frontmost.app \notin App
      BY <1>4, WorldAssumption DEF Nobody
    <3>3. \A i \in 1..Len(apps[a]) : apps[a][i].to # None
      BY <3>2 DEF AppsInv, IntervalsAreTrue
    <3> QED BY <1>3, <3>1, <3>3
  <2> QED BY <1>1, <2>1
<1>5. CASE frontmost # Nobody
  <2> DEFINE b == frontmost.app
  <2> DEFINE n == Len(apps[b])
  <2> DEFINE x == [from |-> frontmost.since, to |-> ts]
  <2>1. /\ b \in DOMAIN apps /\ frontmost.since \in Nat
        /\ apps[b][n] = [from |-> frontmost.since, to |-> None]
        /\ WasInFront(b, anchor + frontmost.since, now)
    BY <1>5 DEF FrontInv
  <2>2. apps[b] \in Seq(Interval) /\ apps[b] # <<>> /\ n \in Nat \ {0}
    BY <2>1 DEF AppsInv
  <2>3. shown[b] = [apps[b] EXCEPT ![n].to = ts]
    BY <1>5, <2>1, <2>2 DEF FrontClosed, CloseLast, Last
  <2>4. /\ Len(shown[b]) = n /\ shown[b][n] = x /\ shown[b] \in Seq(Interval)
        /\ shown[b] # <<>>
        /\ \A i \in 1..n : i # n => shown[b][i] = apps[b][i]
    <3>1. [apps[b][n] EXCEPT !.to = ts] = x /\ x \in Interval
      BY <2>1 DEF Interval
    <3> HIDE DEF shown, x
    <3> QED BY <2>2, <2>3, <3>1
  <2>5. True(b, x)
    <3>1. anchor + ts <= now
      BY <1>0 DEF Clock
    <3> QED BY <1>0, <2>1, <3>1 DEF WasInFront
  <2>6. Good(b)
    <3>1. \A i \in 1..n : i # n => True(b, shown[b][i])
      <4>1. ASSUME NEW i \in 1..n, i # n  PROVE apps[b][i].to # None
        BY <2>1, <4>1 DEF AppsInv, IntervalsAreTrue
      <4> HIDE DEF True, shown
      <4> QED BY <1>2, <2>1, <2>4, <4>1
    <3> HIDE DEF True, shown, x
    <3> QED BY <2>4, <2>5, <3>1
  <2>7. ASSUME NEW a \in DOMAIN apps, a # b  PROVE Good(a)
    <3>1. shown[a] = apps[a]
      BY <1>5, <2>7 DEF FrontClosed
    <3>2. \A i \in 1..Len(apps[a]) : apps[a][i].to # None
      BY <2>7 DEF AppsInv, IntervalsAreTrue
    <3> QED BY <1>3, <3>1, <3>2
  <2> HIDE DEF Good
  <2> QED BY <1>1, <2>6, <2>7 DEF Good
<1> HIDE DEF Good
<1> QED BY <1>1, <1>4, <1>5 DEF Good

\* A focus on an app closes the interval in front, and opens one that is true.
LEMMA FocusKeepsIntervals ==
  ASSUME ClockInv, AppsInv, FrontInv, UNCHANGED <<now, anchor, inFront>>,
         NEW a \in App, OnAppFocus(a, Clock), front' = a
  PROVE  AppsInv' /\ FrontInv'
<1> DEFINE closed == FrontClosed(Clock)
<1> DEFINE since == IF frontmost.app = a THEN frontmost.since ELSE Clock
<1> DEFINE known == IntervalsOf(a, closed)
<1> DEFINE x == [from |-> since, to |-> None]
<1> DEFINE True(b, y) == /\ y.from \in Nat /\ y.to \in Nat
                         /\ WasInFront(b, anchor + y.from, anchor + y.to)
<1>1. /\ apps' = Put(closed, a, Append(known, x))
      /\ frontmost' = [app |-> a, since |-> since]
      /\ lastTs' = Clock
  BY DEF OnAppFocus
<1>2. Clock \in Nat /\ now = anchor + Clock /\ None = -1
  BY DEF ClockInv, Clock, None
<1>3. /\ DOMAIN closed = DOMAIN apps
      /\ \A b \in DOMAIN apps :
           /\ closed[b] \in Seq(Interval) /\ closed[b] # <<>>
           /\ \A i \in 1..Len(closed[b]) : True(b, closed[b][i])
  <2>1. Clock <= Clock
    BY <1>2
  <2> QED BY <1>2, <2>1, ClosedFront
<1>4. since \in Nat /\ WasInFront(a, anchor + since, now)
  <2>1. CASE frontmost.app = a
    <3>1. frontmost # Nobody
      BY <2>1, WorldAssumption DEF Nobody
    <3> QED BY <2>1, <3>1 DEF FrontInv
  <2>2. CASE frontmost.app # a
    <3>1. since = Clock
      BY <2>2
    <3>2. anchor + since = now /\ now \in Nat
      BY <1>2, <3>1 DEF ClockInv
    <3>3. WasInFront(a, anchor + since, now)
      BY <3>2 DEF WasInFront
    <3> QED BY <1>2, <3>1, <3>3
  <2> QED BY <2>1, <2>2
<1>5. x \in Interval
  BY <1>4 DEF Interval
<1>6. known \in Seq(Interval) /\ \A i \in 1..Len(known) : True(a, known[i])
  <2>1. CASE a \in DOMAIN closed
    BY <1>3, <2>1 DEF IntervalsOf
  <2>2. CASE a \notin DOMAIN closed
    <3>1. known = <<>>
      BY <2>2 DEF IntervalsOf
    <3> QED BY <3>1
  <2> QED BY <2>1, <2>2
<1> HIDE DEF closed, since, known, x, True
<1>7. DOMAIN apps' = DOMAIN apps \cup {a} /\ DOMAIN apps' \subseteq App
  BY <1>1, <1>3 DEF Put, AppsInv
<1>8. apps'[a] = Append(known, x)
  BY <1>1 DEF Put
<1>9. /\ apps'[a] \in Seq(Interval) /\ apps'[a] # <<>>
      /\ Len(apps'[a]) = Len(known) + 1 /\ Len(known) \in Nat
      /\ apps'[a][Len(apps'[a])] = x
      /\ \A i \in 1..Len(known) : apps'[a][i] = known[i]
  BY <1>5, <1>6, <1>8
<1>10. IntervalsAreTrue(a)'
  <2>1. ASSUME NEW i \in 1..Len(apps'[a])
        PROVE  IF apps'[a][i].to = None THEN a = frontmost'.app /\ i = Len(apps'[a])
               ELSE WasInFront(a, anchor + apps'[a][i].from, anchor + apps'[a][i].to)
    <3>1. CASE i = Len(apps'[a])
      <4>1. apps'[a][i].to = None
        BY <1>9, <3>1 DEF x
      <4> QED BY <1>1, <3>1, <4>1
    <3>2. CASE i # Len(apps'[a])
      <4>1. i \in 1..Len(known)
        BY <1>9, <3>2
      <4>2. True(a, apps'[a][i])
        BY <1>6, <1>9, <4>1
      <4>3. apps'[a][i].to # None
        BY <1>2, <4>2 DEF True
      <4> QED BY <4>2, <4>3 DEF True
    <3> QED BY <3>1, <3>2
  <2> QED BY <2>1 DEF IntervalsAreTrue, WasInFront
<1>11. ASSUME NEW b \in DOMAIN apps', b # a
       PROVE  apps'[b] \in Seq(Interval) /\ apps'[b] # <<>> /\ IntervalsAreTrue(b)'
  <2>1. b \in DOMAIN apps /\ apps'[b] = closed[b]
    BY <1>1, <1>3, <1>11 DEF Put
  <2>2. /\ apps'[b] \in Seq(Interval) /\ apps'[b] # <<>>
        /\ \A i \in 1..Len(apps'[b]) : True(b, apps'[b][i])
    BY <1>3, <2>1
  <2>3. ASSUME NEW i \in 1..Len(apps'[b])
        PROVE  /\ apps'[b][i].to # None
               /\ WasInFront(b, anchor + apps'[b][i].from, anchor + apps'[b][i].to)
    BY <1>2, <2>2 DEF True
  <2> QED BY <2>2, <2>3 DEF IntervalsAreTrue, WasInFront
<1>12. FrontInv'
  <2>1. frontmost'.app = a /\ frontmost'.since = since
    BY <1>1
  <2>2. frontmost' \in [app : DOMAIN apps', since : Nat]
    BY <1>1, <1>4, <1>7
  <2>3. WasInFront(a, anchor + since, now)
    BY <1>4
  <2>4. apps'[a][Len(apps'[a])] = [from |-> frontmost'.since, to |-> None]
    BY <1>9, <2>1 DEF x
  <2>5. lastTs' # None
    BY <1>1, <1>2
  <2> QED BY <2>1, <2>2, <2>3, <2>4, <2>5 DEF FrontInv, WasInFront
<1> QED BY <1>7, <1>9, <1>10, <1>11, <1>12 DEF AppsInv

\* A part of a claim that is true is true.
LEMMA PartOfTrue ==
  ASSUME NEW a, NEW from \in Int, NEW to \in Int, NEW u \in Int, NEW v \in Int,
         WasInFront(a, from, to), from <= u, v <= to
  PROVE  WasInFront(a, u, v)
BY DEF WasInFront

\* The frontmost_during edges of a snapshot are those of its intervals.
LEMMA SnapshotOverlaps ==
  ASSUME NEW order, NEW e \in DOMAIN Snapshot(order).edges, e.kind = "frontmost_during"
  PROVE  \E a \in DOMAIN apps, k \in DOMAIN processes :
           /\ e.from = <<"app", a>>
           /\ Snapshot(order).edges[e] = Overlaps(FrontClosed(lastTs)[a], processes[k])
           /\ Snapshot(order).edges[e] # <<>>
<1> DEFINE shown == FrontClosed(lastTs)
<1>1. /\ Snapshot(order).edges =
           Both(Both(ParentEdges(order), FrontmostEdges(shown)),
                Both(SocketEdges(order), DomainEdges(order)))
      /\ DOMAIN shown = DOMAIN apps
  BY SnapshotNodes
<1>2. /\ e \notin DOMAIN ParentEdges(order)
      /\ e \notin DOMAIN SocketEdges(order)
      /\ e \notin DOMAIN DomainEdges(order)
  BY DEF ParentEdges, SocketEdges, DomainEdges, Edge
<1>3. e \in DOMAIN FrontmostEdges(shown)
      /\ Snapshot(order).edges[e] = FrontmostEdges(shown)[e]
  <2> HIDE DEF shown
  <2> QED BY <1>1, <1>2 DEF Both
<1>4. PICK a \in DOMAIN apps, k \in DOMAIN processes :
        e = Edge("frontmost_during", "app", a, "process", k)
  BY <1>1, <1>3 DEF FrontmostEdges
<1>5. /\ FrontmostEdges(shown)[e] = Overlaps(shown[a], processes[k])
      /\ FrontmostEdges(shown)[e] # <<>>
  <2>1. e.from[2] = a /\ e.to[2] = k
    BY <1>4 DEF Edge
  <2> HIDE DEF shown
  <2> QED BY <1>3, <2>1 DEF FrontmostEdges
<1> QED BY <1>3, <1>4, <1>5 DEF Edge

\* Each of them is closed and true.
LEMMA ListedOverlaps ==
  ASSUME ClockInv, AppsInv, FrontInv,
         \A k \in DOMAIN processes : IsProcess(processes[k]),
         NEW order, NEW e \in DOMAIN Snapshot(order).edges, e.kind = "frontmost_during",
         NEW listed, listed = Snapshot(order).edges[e]
  PROVE  /\ Len(listed) \in Nat \ {0} /\ DOMAIN listed = 1..Len(listed)
         /\ \A i \in 1..Len(listed) :
              /\ listed[i].from \in Nat /\ listed[i].to \in Nat
              /\ WasInFront(e.from[2], anchor + listed[i].from, anchor + listed[i].to)
<1> DEFINE shown == FrontClosed(lastTs)
<1>0. None = -1 /\ anchor \in Nat \ {0}
  BY DEF None, ClockInv
<1>1. ASSUME NEW a \in DOMAIN apps, NEW i \in 1..Len(shown[a])
      PROVE  /\ shown[a][i].from \in Nat /\ shown[a][i].to \in Nat
             /\ WasInFront(a, anchor + shown[a][i].from, anchor + shown[a][i].to)
  <2>1. CASE frontmost = Nobody
    <3>1. shown = FrontClosed(0) /\ 0 <= Clock
      BY <2>1 DEF FrontClosed, ClockInv, Clock
    <3> QED BY <3>1, ClosedFront
  <2>2. CASE frontmost # Nobody
    <3>1. lastTs \in Nat /\ lastTs <= Clock
      BY <1>0, <2>2 DEF FrontInv, ClockInv
    <3> QED BY <3>1, ClosedFront
  <2> QED BY <2>1, <2>2
<1>2. ASSUME NEW a \in DOMAIN apps  PROVE shown[a] \in Seq(Interval)
  <2>1. CASE frontmost = Nobody
    BY <2>1 DEF FrontClosed, AppsInv
  <2>2. CASE frontmost # Nobody
    <3>1. lastTs \in Nat /\ lastTs <= Clock
      BY <1>0, <2>2 DEF FrontInv, ClockInv
    <3> QED BY <3>1, ClosedFront
  <2> QED BY <2>1, <2>2
<1> HIDE DEF shown
<1>3. ASSUME NEW a \in DOMAIN apps, NEW k \in DOMAIN processes,
             NEW o, NEW i \in 1..Len(Overlaps(shown[a], processes[k])),
             o = Overlaps(shown[a], processes[k])[i]
      PROVE  /\ o.from \in Nat /\ o.to \in Nat
             /\ WasInFront(a, anchor + o.from, anchor + o.to)
  <2> DEFINE S == {shown[a][j] : j \in 1..Len(shown[a])}
  <2>1. shown[a] \in Seq(S)
    BY <1>2
  <2>2. o \in {Overlap(x, processes[k]) : x \in S}
    <3> DEFINE O == {Overlap(x, processes[k]) : x \in S}
    <3>1. Overlaps(shown[a], processes[k]) \in Seq(O)
      <4> HIDE DEF S
      <4> QED BY <2>1, OverlapsAreOverlaps
    <3> HIDE DEF O
    <3>2. o \in O
      BY <1>3, <3>1
    <3> QED BY <3>2 DEF O
  <2>3. PICK j \in 1..Len(shown[a]) : o = Overlap(shown[a][j], processes[k])
    BY <2>2
  <2> DEFINE x == shown[a][j]
  <2> DEFINE p == processes[k]
  <2>4. x.from \in Nat /\ x.to \in Nat
    BY <1>1
  <2>5. WasInFront(a, anchor + x.from, anchor + x.to)
    BY <1>1
  <2>6. p.birth \in Nat /\ p.death \in Nat \cup {None}
    BY DEF IsProcess
  <2> HIDE DEF x, p
  <2>7. o.from = Later(x.from, p.birth) /\ o.to = EarlierEnd(x.to, p.death)
    BY <2>3 DEF Overlap, x, p
  <2>8. o.from \in Nat /\ x.from <= o.from
    BY <2>4, <2>6, <2>7 DEF Later
  <2>9. o.to \in Nat /\ o.to <= x.to
    BY <1>0, <2>4, <2>6, <2>7 DEF EarlierEnd, Earlier
  <2>10. anchor \in Nat
    BY <1>0
  <2>11. anchor + x.from <= anchor + o.from /\ anchor + o.to <= anchor + x.to
    BY <2>4, <2>8, <2>9, <2>10
  <2>12. /\ anchor + x.from \in Int /\ anchor + o.from \in Int
         /\ anchor + x.to \in Int /\ anchor + o.to \in Int
    BY <2>4, <2>8, <2>9, <2>10, SMTT(30)
  <2>13. WasInFront(a, anchor + o.from, anchor + o.to)
    BY <2>5, <2>11, <2>12, PartOfTrue
  <2> QED BY <2>8, <2>9, <2>13
<1>4. PICK a \in DOMAIN apps, k \in DOMAIN processes :
        /\ e.from = <<"app", a>>
        /\ listed = Overlaps(shown[a], processes[k])
        /\ listed # <<>>
  BY SnapshotOverlaps DEF shown
<1> DEFINE S == {shown[a][j] : j \in 1..Len(shown[a])}
<1>5. shown[a] \in Seq(S)
  BY <1>2
<1>6. listed \in Seq({Overlap(x, processes[k]) : x \in S})
  <2> HIDE DEF S
  <2> QED BY <1>4, <1>5, OverlapsAreOverlaps
<1>7. Len(listed) \in Nat \ {0} /\ DOMAIN listed = 1..Len(listed)
  BY <1>4, <1>6
<1>8. ASSUME NEW i \in 1..Len(listed)
      PROVE  /\ listed[i].from \in Nat /\ listed[i].to \in Nat
             /\ WasInFront(a, anchor + listed[i].from, anchor + listed[i].to)
  BY <1>3, <1>4
<1> QED BY <1>4, <1>7, <1>8

\* What a merge stores of them is true.
LEMMA MergedOverlaps ==
  ASSUME ClockInv, AppsInv, FrontInv, OverlapsAreTrue, inFront' = inFront,
         \A k \in DOMAIN processes : IsProcess(processes[k]),
         NEW order, MergeGraph(Snapshot(order), anchor)
  PROVE  OverlapsAreTrue'
<1> DEFINE g == Snapshot(order)
<1>1. /\ DOMAIN edges' = DOMAIN edges \cup DOMAIN g.edges
      /\ \A e \in DOMAIN g.edges : /\ edges'[e].attrs = Last(g.edges[e])
                                   /\ edges'[e].anchor = anchor
      /\ \A e \in DOMAIN edges \ DOMAIN g.edges : edges'[e] = edges[e]
  BY DEF MergeGraph, MergedEdge
<1>2. ASSUME NEW e \in DOMAIN edges', e.kind = "frontmost_during"
      PROVE  LET o == edges'[e].attrs
             IN /\ o.from \in Nat /\ o.to \in Nat /\ edges'[e].anchor \in Nat \ {0}
                /\ WasInFront(e.from[2], edges'[e].anchor + o.from, edges'[e].anchor + o.to)
  <2>1. CASE e \in DOMAIN g.edges
    <3> DEFINE listed == g.edges[e]
    <3>1. /\ Len(listed) \in Nat \ {0}
          /\ \A i \in 1..Len(listed) :
               /\ listed[i].from \in Nat /\ listed[i].to \in Nat
               /\ WasInFront(e.from[2], anchor + listed[i].from, anchor + listed[i].to)
      BY <1>2, <2>1, ListedOverlaps
    <3>2. edges'[e].attrs = listed[Len(listed)] /\ edges'[e].anchor = anchor
      BY <1>1, <2>1 DEF Last
    <3>3. Len(listed) \in 1..Len(listed) /\ anchor \in Nat \ {0}
      BY <3>1 DEF ClockInv
    <3> HIDE DEF listed
    <3> QED BY <3>1, <3>2, <3>3
  <2>2. CASE e \notin DOMAIN g.edges
    BY <1>1, <1>2, <2>2 DEF OverlapsAreTrue, OfKind
  <2> QED BY <2>1, <2>2
<1> QED BY <1>2 DEF OverlapsAreTrue, OfKind, WasInFront

\* A step that dates its event leaves the intervals, or closes the one in front.
LEMMA SegmentReceive ==
  ASSUME ClockInv, AppsInv, FrontInv, Receive
  PROVE  ClockInv' /\ AppsInv' /\ FrontInv'
<1>0. UNCHANGED <<now, anchor, inFront>>
  BY DEF Receive
<1>1. Clock \in Nat /\ None = -1
  BY DEF ClockInv, Clock, None
<1>2. \/ \E ts \in Nat : ts <= Clock /\ (ProcessEvent(ts) \/ SocketEvent(ts) \/ FileEvent(ts))
      \/ FocusEvent
      \/ DnsEvent
  BY <1>1 DEF Receive
<1>3. ASSUME NEW ts \in Nat, ts <= Clock, lastTs' = ts, UNCHANGED <<apps, frontmost>>,
             front' \in {front, None}
      PROVE  ClockInv' /\ AppsInv' /\ FrontInv'
  <2>1. ClockInv'
    BY <1>0, <1>3 DEF ClockInv, Clock
  <2>2. AppsInv'
    BY <1>0, <1>3 DEF AppsInv, IntervalsAreTrue, WasInFront
  <2>3. FrontInv'
    BY <1>0, <1>1, <1>3 DEF FrontInv, WasInFront
  <2> QED BY <2>1, <2>2, <2>3
<1>4. ASSUME NEW ts \in Nat, ts <= Clock, ProcessEvent(ts) \/ SocketEvent(ts) \/ FileEvent(ts)
      PROVE  ClockInv' /\ AppsInv' /\ FrontInv'
  <2>1. lastTs' = ts /\ UNCHANGED <<apps, frontmost, front>>
    BY <1>4 DEF ProcessEvent, Birth, Death, OnProcessBirth, OnProcessDeath, SocketEvent,
                OnConnectionOpened, OnConnectionClosed, FileEvent, OnFileChanged
  <2> QED BY <1>3, <1>4, <2>1
<1>5. CASE FocusEvent
  <2>1. CASE OnFocusOnNothing(Clock) /\ front' = None
    <3>1. lastTs' = Clock /\ UNCHANGED <<apps, frontmost>>
      BY <2>1 DEF OnFocusOnNothing, OnObservation
    <3>2. Clock <= Clock
      BY <1>1
    <3> QED BY <1>1, <1>3, <2>1, <3>1, <3>2
  <2>2. ASSUME NEW a \in App, OnAppFocus(a, Clock), front' = a
        PROVE  ClockInv' /\ AppsInv' /\ FrontInv'
    <3>1. lastTs' = Clock
      BY <2>2 DEF OnAppFocus
    <3>2. ClockInv'
      BY <1>0, <1>1, <3>1 DEF ClockInv, Clock
    <3> QED BY <1>0, <2>2, <3>2, FocusKeepsIntervals
  <2> QED BY <1>5, <2>1, <2>2 DEF FocusEvent
<1>6. CASE DnsEvent
  <2>1. lastTs' = Clock /\ UNCHANGED <<apps, frontmost, front>>
    BY <1>6 DEF DnsEvent, OnDnsQuery
  <2>2. Clock <= Clock
    BY <1>1
  <2> QED BY <1>1, <1>3, <2>1, <2>2
<1> QED BY <1>2, <1>4, <1>5, <1>6

\* As time passes, what is in front is recorded.
LEMMA SegmentAdvance ==
  ASSUME SegmentInv, Advance
  PROVE  SegmentInv'
<1> USE DEF SegmentInv
<1>1. /\ UNCHANGED <<apps, frontmost, front, lastTs, edges, anchor>> /\ now' = now + 1
      /\ inFront \subseteq inFront'
      /\ frontmost # Nobody
           => <<frontmost.app, now>> \in inFront' \/ <<None, now>> \in inFront'
  <2>1. /\ UNCHANGED <<apps, frontmost, front, lastTs, edges, anchor>> /\ now' = now + 1
        /\ inFront' = IF front = Unknown THEN inFront ELSE inFront \cup {<<front, now>>}
    BY DEF Advance, builderVars, storeVars
  <2>2. frontmost # Nobody => front # Unknown /\ front \in {frontmost.app, None}
    <3>1. frontmost # Nobody => frontmost.app \in App /\ front \in {frontmost.app, None}
      BY DEF FrontInv, AppsInv
    <3> QED BY <3>1, WorldAssumption DEF None, Unknown
  <2> QED BY <2>1, <2>2
<1>2. now \in Nat /\ anchor \in Nat
  BY DEF ClockInv
<1>3. ClockInv'
  BY <1>1, <1>2 DEF ClockInv, Clock, None
<1>4. \A a, from, to : WasInFront(a, from, to) => WasInFront(a, from, to)'
  BY <1>1 DEF WasInFront
<1>5. ASSUME NEW a \in DOMAIN apps, IntervalsAreTrue(a)  PROVE IntervalsAreTrue(a)'
  BY <1>1, <1>5 DEF IntervalsAreTrue, WasInFront
<1>6. AppsInv'
  BY <1>1, <1>5 DEF AppsInv
<1>7. FrontInv'
  <2> SUFFICES ASSUME frontmost # Nobody  PROVE FrontInv'
    BY <1>1 DEF FrontInv
  <2>1. /\ frontmost.since \in Nat
        /\ WasInFront(frontmost.app, anchor + frontmost.since, now)
    BY DEF FrontInv
  <2>2. ASSUME NEW t \in (anchor + frontmost.since)..(now' - 1)
        PROVE  <<frontmost.app, t>> \in inFront' \/ <<None, t>> \in inFront'
    <3>1. t = now \/ t \in (anchor + frontmost.since)..(now - 1)
      BY <1>1, <1>2, <2>1
    <3> QED BY <1>1, <2>1, <3>1 DEF WasInFront
  <2>3. WasInFront(frontmost.app, anchor + frontmost.since, now)'
    BY <1>1, <2>2 DEF WasInFront
  <2> QED BY <1>1, <2>3 DEF FrontInv
<1>8. OverlapsAreTrue'
  BY <1>1 DEF OverlapsAreTrue, OfKind, WasInFront
<1> QED BY <1>3, <1>6, <1>7, <1>8

\* No step makes a claim of an interval, stored or not, that is not true.
LEMMA SegmentStep ==
  ASSUME SegmentInv, CurrentInv, [Next]_vars
  PROVE  SegmentInv'
<1> USE DEF SegmentInv
<1>1. ASSUME UNCHANGED <<now, anchor, front, inFront, apps, frontmost, lastTs>>
      PROVE  ClockInv' /\ AppsInv' /\ FrontInv'
  BY <1>1 DEF ClockInv, Clock, AppsInv, IntervalsAreTrue, FrontInv, WasInFront
<1>2. ASSUME UNCHANGED <<edges, inFront>>  PROVE OverlapsAreTrue'
  BY <1>2 DEF OverlapsAreTrue, OfKind, WasInFront
<1>3. CASE Receive
  <2>1. UNCHANGED <<edges, inFront>>
    BY <1>3 DEF Receive, storeVars
  <2> QED BY <1>2, <1>3, <2>1, SegmentReceive
<1>4. CASE Observe
  <2>1. /\ UNCHANGED <<now, anchor, front, inFront, apps, frontmost, edges>> /\ lastTs' = Clock
    BY <1>4 DEF Observe, OnObservation, storeVars, historyVars
  <2>2. Clock \in Nat
    BY DEF ClockInv, Clock
  <2>3. ClockInv'
    BY <2>1, <2>2 DEF ClockInv, Clock
  <2>4. AppsInv'
    BY <2>1 DEF AppsInv, IntervalsAreTrue, WasInFront
  <2>5. FrontInv'
    BY <2>1, <2>2 DEF FrontInv, WasInFront, None
  <2> QED BY <1>2, <2>1, <2>3, <2>4, <2>5
<1>5. CASE Tick
  <2>1. UNCHANGED <<now, anchor, front, inFront, apps, frontmost, lastTs>>
    BY <1>5 DEF Tick, TrimBefore, builderVars
  <2>2. PICK order \in Orders : MergeGraph(Snapshot(order), anchor)
    BY <1>5 DEF Tick
  <2>3. \A k \in DOMAIN processes : IsProcess(processes[k])
    BY DEF CurrentInv, WorldTypes
  <2>4. OverlapsAreTrue'
    BY <2>1, <2>2, <2>3, MergedOverlaps
  <2> QED BY <1>1, <2>1, <2>4
<1>6. CASE Prune
  <2>1. /\ UNCHANGED <<now, anchor, front, inFront, apps, frontmost, lastTs>>
        /\ DOMAIN edges' \subseteq DOMAIN edges
        /\ \A e \in DOMAIN edges' : edges'[e] = edges[e]
    BY <1>6 DEF Prune, PruneBefore, builderVars, Restrict
  <2>2. OverlapsAreTrue'
    BY <2>1 DEF OverlapsAreTrue, OfKind, WasInFront
  <2> QED BY <1>1, <2>1, <2>2
<1>7. CASE Restart
  <2>1. /\ UNCHANGED <<now, inFront, edges>> /\ anchor' = now /\ lastTs' = None
        /\ DOMAIN apps' = {} /\ frontmost' = Nobody
    BY <1>7 DEF Restart, ResetBuilder, Empty, storeVars
  <2>2. ClockInv'
    BY <2>1 DEF ClockInv, Clock, None
  <2> QED BY <1>2, <2>1, <2>2 DEF AppsInv, FrontInv
<1>8. CASE Advance
  BY <1>8, SegmentAdvance
<1>9. CASE UNCHANGED vars
  <2>1. UNCHANGED <<now, anchor, front, inFront, apps, frontmost, lastTs, edges>>
    BY <1>9 DEF vars, builderVars, storeVars, historyVars
  <2> QED BY <1>1, <1>2, <2>1
<1> QED BY <1>3, <1>4, <1>5, <1>6, <1>7, <1>8, <1>9 DEF Next

\* SegmentInv holds in every state.
LEMMA SegmentInvariant == Spec => []SegmentInv
<1>1. Init => SegmentInv
  BY DEF Init, NewBuilder, OpenStore, Empty, None, Clock, SegmentInv, ClockInv, AppsInv,
         FrontInv, OverlapsAreTrue, OfKind
<1>2. SegmentInv /\ CurrentInv /\ [Next]_vars => SegmentInv'
  BY SegmentStep
<1> QED BY <1>1, <1>2, CurrentInvariant, PTL DEF Spec

\* A focus segment (aw-graph/src/lib.rs, on_app_focus; aw-store/src/lib.rs,
\* focus_segments) covers no time at which another app was in front, and none of
\* which no focus event told, for every order of events, focus on nothing among
\* them, and of merges, trims, prunes and restarts.
THEOREM SegmentsAreAlwaysTrue == Spec => []SegmentsAreTrue
<1>1. SegmentInv => SegmentsAreTrue
  <2> SUFFICES ASSUME SegmentInv, NEW e \in OfKind("frontmost_during"),
                      NEW s, s = Segment(e, 0, now), NEW t \in s.from..(s.to - 1)
               PROVE  <<s.app, t>> \in inFront \/ <<None, t>> \in inFront
    BY DEF SegmentsAreTrue, FocusSegments
  <2> DEFINE o == edges[e].attrs
  <2> DEFINE a == edges[e].anchor
  <2>1. /\ o.from \in Nat /\ o.to \in Nat /\ a \in Nat \ {0}
        /\ WasInFront(e.from[2], a + o.from, a + o.to)
        /\ now \in Nat
    BY DEF SegmentInv, OverlapsAreTrue, ClockInv
  <2>2. /\ s.app = e.from[2]
        /\ s.from = Larger(a + o.from, 0) /\ s.to = Smaller(a + o.to, now)
    <3>1. o.to # NoTime /\ a # 0
      BY <2>1 DEF NoTime
    <3> QED BY <3>1 DEF Segment, Unix
  <2> HIDE DEF o, a
  <2>3. t \in (a + o.from)..(a + o.to - 1)
    <3>1. s.from = a + o.from
      BY <2>1, <2>2 DEF Larger
    <3>2. s.to \in Nat /\ s.to <= a + o.to
      BY <2>1, <2>2 DEF Smaller
    <3> QED BY <2>1, <3>1, <3>2
  <2> QED BY <2>1, <2>2, <2>3 DEF WasInFront
<1> QED BY <1>1, SegmentInvariant, PTL

-----------------------------------------------------------------------------
(* TypeOK.  Spans in the builder and in the store begin before they end.   *)

Span(first, last) == first \in Nat /\ last \in Nat /\ first <= last

\* What is still going on began before the burst that is being closed.
Life(begin, end) ==
  /\ begin \in Nat /\ begin < Clock
  /\ end # None => Span(begin, end)

ProcessesInv ==
  /\ DOMAIN processes \subseteq ProcessId
  /\ \A k \in DOMAIN processes : Life(processes[k].birth, processes[k].death)

IsSocket(s) == s = [pid |-> s.pid, opened |-> s.opened, closed |-> s.closed]

SocketsInv ==
  \A s \in DOMAIN sockets :
    IsSocket(sockets[s]) /\ Life(sockets[s].opened, sockets[s].closed)

FileSpan(r) == "last" \in DOMAIN r /\ Span(r.first, r.last)

DomainSpan(r) == "last" \in DOMAIN r /\ Span(r.first, r.last) /\ r.last <= Clock

SpansInv ==
  /\ \A f \in DOMAIN files : FileSpan(files[f])
  /\ \A d \in DOMAIN domains : DomainSpan(domains[d])
  /\ \A q \in DOMAIN domainQueries : q[2] \in DOMAIN domains

NodesInv ==
  \A n \in DOMAIN nodes :
    nodes[n].first \in Nat /\ (n[1] # "app" => Span(nodes[n].first, nodes[n].last))

EdgesInv ==
  \A e \in DOMAIN edges :
    Span(edges[e].first, edges[e].last) /\ edges[e].count \in Nat \ {0}

TypeInv == ProcessesInv /\ SocketsInv /\ SpansInv /\ NodesInv /\ EdgesInv

\* What a birth or a death leaves of a process.
LEMMA ProcessSpans ==
  ASSUME ClockInv, ProcessesInv, \A k \in DOMAIN processes : IsProcess(processes[k]),
         NEW ts \in Nat, ts = Clock - 1, ProcessEvent(ts), UNCHANGED <<now, anchor>>
  PROVE  ProcessesInv'
<1> PICK k \in ProcessId : Birth(k, ts) \/ Death(k, ts)
  BY DEF ProcessEvent
<1>1. Clock \in Nat /\ Clock' = Clock /\ None = -1
  BY DEF ClockInv, Clock, None
<1>2. \E p : /\ DOMAIN processes' = DOMAIN processes \cup {k}
             /\ processes'[k] = p
             /\ \A x \in DOMAIN processes \ {k} : processes'[x] = processes[x]
             /\ Life(p.birth, p.death)
  <2>1. CASE Birth(k, ts)
    <3>1. processes' = Put(processes, k, [ppid |-> Ppid(k), birth |-> ts, death |-> None])
      BY <2>1 DEF Birth, OnProcessBirth
    <3> QED BY <1>1, <3>1 DEF Put, Life, Clock
  <2>2. CASE Death(k, ts) /\ k \notin DOMAIN processes
    <3>1. processes' = Put(processes, k, [ppid |-> Ppid(k), birth |-> ts, death |-> ts])
      BY <2>2 DEF Death, OnProcessDeath
    <3> QED BY <1>1, <3>1 DEF Put, Life, Span, Clock
  <2>3. CASE Death(k, ts) /\ k \in DOMAIN processes
    <3>1. processes' = [processes EXCEPT ![k].death = ts]
      BY <2>3 DEF Death, OnProcessDeath
    <3>2. /\ processes[k].birth \in Nat /\ processes[k].birth <= ts
          /\ IsProcess(processes[k])
      BY <1>1, <2>3 DEF ProcessesInv, Life
    <3>3. /\ processes'[k].birth = processes[k].birth /\ processes'[k].death = ts
          /\ DOMAIN processes' = DOMAIN processes \cup {k}
          /\ \A x \in DOMAIN processes \ {k} : processes'[x] = processes[x]
      BY <2>3, <3>1, <3>2 DEF IsProcess
    <3>4. Life(processes'[k].birth, processes'[k].death)
      BY <1>1, <3>2, <3>3 DEF Life, Span
    <3> QED BY <3>3, <3>4
  <2> QED BY <2>1, <2>2, <2>3
<1> QED BY <1>1, <1>2 DEF ProcessesInv, Life

\* An event of a socket keeps the spans of the sockets' entries.
LEMMA SocketSpans ==
  ASSUME ClockInv, SocketsInv, NEW ts \in Nat, ts = Clock - 1, SocketEvent(ts),
         UNCHANGED <<now, anchor>>
  PROVE  SocketsInv'
<1> PICK s \in Socket, pid \in Pid : OnConnectionOpened(s, pid, ts) \/ OnConnectionClosed(s, pid, ts)
  BY DEF SocketEvent
<1>1. Clock \in Nat /\ Clock' = Clock /\ None = -1
  BY DEF ClockInv, Clock, None
<1>2. /\ DOMAIN sockets' = DOMAIN sockets \cup {s}
      /\ \A x \in DOMAIN sockets \ {s} : sockets'[x] = sockets[x]
      /\ IsSocket(sockets'[s]) /\ Life(sockets'[s].opened, sockets'[s].closed)
  <2>1. CASE OnConnectionOpened(s, pid, ts)
    <3>1. sockets' = Put(sockets, s, [pid |-> pid, opened |-> ts, closed |-> None])
      BY <2>1 DEF OnConnectionOpened
    <3> QED BY <1>1, <3>1 DEF Put, Life, IsSocket
  <2>2. CASE OnConnectionClosed(s, pid, ts) /\ s \notin DOMAIN sockets
    <3>1. sockets' = Put(sockets, s, [pid |-> pid, opened |-> ts, closed |-> ts])
      BY <2>2 DEF OnConnectionClosed
    <3> QED BY <1>1, <3>1 DEF Put, Life, Span, IsSocket
  <2>3. CASE OnConnectionClosed(s, pid, ts) /\ s \in DOMAIN sockets
    <3>1. sockets' = [sockets EXCEPT ![s].closed = ts]
      BY <2>3 DEF OnConnectionClosed
    <3>2. /\ sockets[s].opened \in Nat /\ sockets[s].opened <= ts /\ IsSocket(sockets[s])
      BY <1>1, <2>3 DEF SocketsInv, Life
    <3>3. /\ sockets'[s].opened = sockets[s].opened /\ sockets'[s].closed = ts
          /\ DOMAIN sockets' = DOMAIN sockets \cup {s} /\ IsSocket(sockets'[s])
          /\ \A x \in DOMAIN sockets \ {s} : sockets'[x] = sockets[x]
      BY <2>3, <3>1, <3>2 DEF IsSocket
    <3>4. Life(sockets'[s].opened, sockets'[s].closed)
      BY <1>1, <3>2, <3>3 DEF Life, Span
    <3> QED BY <3>3, <3>4
  <2> QED BY <2>1, <2>2, <2>3
<1> QED BY <1>1, <1>2 DEF SocketsInv, Life

\* A change of a file is dated no earlier than the last one.
LEMMA FileSpans ==
  ASSUME SpansInv, NEW ts \in Nat, FileEvent(ts), UNCHANGED <<now, anchor>>
  PROVE  SpansInv'
<1> PICK f \in File, flags \in SUBSET Flag, count \in 0..1 :
      /\ f \in DOMAIN files => files[f].last <= ts
      /\ OnFileChanged(f, flags, count, ts)
  BY DEF FileEvent
<1> DEFINE known == IF f \in DOMAIN files THEN files[f]
                    ELSE [first |-> ts, last |-> ts, touches |-> 0, flags |-> {}]
<1> DEFINE r == [known EXCEPT !.last = ts, !.touches = @ + count, !.flags = @ \cup flags]
<1>1. files' = Put(files, f, r) /\ UNCHANGED <<domains, domainQueries>>
  BY DEF OnFileChanged
<1>2. FileSpan(known) /\ known.last <= ts
  BY DEF SpansInv, FileSpan, Span
<1> HIDE DEF known
<1>3. FileSpan(r)
  <2>1. "last" \in DOMAIN r /\ r.first = known.first /\ r.last = ts
    BY <1>2 DEF FileSpan
  <2> HIDE DEF r
  <2> QED BY <1>2, <2>1 DEF FileSpan, Span
<1> HIDE DEF r
<1> QED BY <1>1, <1>3 DEF SpansInv, Put, DomainSpan, Clock

\* A query keeps the spans of the names' entries.
LEMMA DomainSpans ==
  ASSUME ClockInv, SpansInv, DnsEvent, UNCHANGED <<now, anchor>>
  PROVE  SpansInv'
<1> PICK d \in Domain, masked \in BOOLEAN, pid \in Asker : OnDnsQuery(d, masked, pid, Clock)
  BY DEF DnsEvent
<1> DEFINE ts == Clock
<1> DEFINE known == IF d \in DOMAIN domains THEN domains[d]
                    ELSE [first |-> ts, last |-> ts, queries |-> 0, masked |-> masked]
<1> DEFINE mask == known.masked /\ masked
<1> DEFINE r == [known EXCEPT !.last = ts, !.queries = @ + 1, !.masked = mask]
<1>1. domains' = Put(domains, d, r) /\ UNCHANGED files
  BY DEF OnDnsQuery
<1>2. DOMAIN domainQueries' \subseteq DOMAIN domainQueries \cup {<<pid, d>>}
  BY DEF OnDnsQuery, Tallied, Put
<1>3. ts \in Nat /\ ts = Clock /\ Clock' = Clock /\ ts <= ts
  BY DEF ClockInv, Clock
<1> HIDE DEF ts
<1>4. DomainSpan(known)
  BY <1>3 DEF SpansInv, DomainSpan, Span
<1> HIDE DEF known, mask
<1>5. "last" \in DOMAIN r /\ Span(r.first, r.last) /\ r.last = ts
  <2>1. "last" \in DOMAIN r /\ r.first = known.first /\ r.last = ts
    BY <1>4 DEF DomainSpan
  <2> HIDE DEF r
  <2> QED BY <1>3, <1>4, <2>1 DEF DomainSpan, Span
<1> HIDE DEF r
<1>6. /\ DOMAIN domains' = DOMAIN domains \cup {d} /\ domains'[d] = r
      /\ \A x \in DOMAIN domains \ {d} : domains'[x] = domains[x]
  BY <1>1 DEF Put
<1>7. \A x \in DOMAIN domains' : DomainSpan(domains'[x])
  BY <1>3, <1>5, <1>6 DEF SpansInv, DomainSpan
<1>8. \A q \in DOMAIN domainQueries' : q[2] \in DOMAIN domains'
  BY <1>2, <1>6 DEF SpansInv
<1> QED BY <1>1, <1>3, <1>7, <1>8 DEF SpansInv, DomainSpan

\* The rows of a snapshot: wall-clock times, and spans but for the apps.
LEMMA RowSpans ==
  ASSUME ClockInv, AppsInv, FrontInv, ProcessesInv, SocketsInv, SpansInv,
         NEW order, NEW n, n \in DOMAIN Rows(Snapshot(order), anchor)
  PROVE  LET row == Rows(Snapshot(order), anchor)[n]
         IN row.first \in Nat /\ (n[1] # "app" => Span(row.first, row.last))
<1> DEFINE g == Snapshot(order)
<1> DEFINE row == Rows(g, anchor)[n]
<1>0. /\ anchor \in Nat \ {0} /\ None = -1 /\ NoTime = -1
  BY DEF ClockInv, None, NoTime
<1>1. /\ g.processes = processes /\ g.apps = FrontClosed(lastTs)
      /\ g.sockets = sockets /\ g.files = files /\ g.domains = domains
  BY DEF Snapshot
<1> HIDE DEF g
<1>2. \/ \E k \in DOMAIN processes : n[1] = "process" /\ row = ProcessRow(processes[k], anchor)
      \/ \E a \in DOMAIN g.apps : n[1] = "app" /\ row = AppRow(g.apps[a], anchor)
      \/ \E k \in DOMAIN sockets : n[1] = "socket" /\ row = SocketRow(sockets[k], anchor)
      \/ \E k \in DOMAIN files : n[1] = "file" /\ row = FileRow(files[k], anchor)
      \/ \E k \in DOMAIN domains : n[1] = "domain" /\ row = DomainRow(domains[k], anchor)
  <2>1. n \in DOMAIN Rows(g, anchor)
    BY DEF g
  <2> QED BY <1>1, <2>1, RowCases
<1>3. \A s, t : Span(s, t) => Span(Unix(s, anchor), Unix(t, anchor))
  BY <1>0 DEF Span, Unix
<1>4. CASE \E k \in DOMAIN processes :
             n[1] = "process" /\ row = ProcessRow(processes[k], anchor)
  <2> PICK k \in DOMAIN processes : row = ProcessRow(processes[k], anchor)
    BY <1>4
  <2> DEFINE p == processes[k]
  <2>1. Life(p.birth, p.death)
    BY DEF ProcessesInv
  <2>2. Span(p.birth, EndOr(p.death, p.birth))
    BY <1>0, <2>1 DEF Life, Span, EndOr
  <2>3. row.first = Unix(p.birth, anchor) /\ row.last = Unix(EndOr(p.death, p.birth), anchor)
    BY DEF ProcessRow, Row
  <2> HIDE DEF p
  <2> QED BY <1>3, <2>2, <2>3 DEF Span, g
<1>5. CASE \E k \in DOMAIN sockets :
             n[1] = "socket" /\ row = SocketRow(sockets[k], anchor)
  <2> PICK k \in DOMAIN sockets : row = SocketRow(sockets[k], anchor)
    BY <1>5
  <2> DEFINE p == sockets[k]
  <2>1. Life(p.opened, p.closed)
    BY DEF SocketsInv
  <2>2. Span(p.opened, EndOr(p.closed, p.opened))
    BY <1>0, <2>1 DEF Life, Span, EndOr
  <2>3. row.first = Unix(p.opened, anchor) /\ row.last = Unix(EndOr(p.closed, p.opened), anchor)
    BY DEF SocketRow, Row
  <2> HIDE DEF p
  <2> QED BY <1>3, <2>2, <2>3 DEF Span, g
<1>6. CASE \E k \in DOMAIN files : n[1] = "file" /\ row = FileRow(files[k], anchor)
  <2> PICK k \in DOMAIN files : row = FileRow(files[k], anchor)
    BY <1>6
  <2>1. Span(files[k].first, files[k].last)
    BY DEF SpansInv, FileSpan
  <2>2. row.first = Unix(files[k].first, anchor) /\ row.last = Unix(files[k].last, anchor)
    BY DEF FileRow, Row
  <2> QED BY <1>3, <2>1, <2>2 DEF Span, g
<1>7. CASE \E k \in DOMAIN domains : n[1] = "domain" /\ row = DomainRow(domains[k], anchor)
  <2> PICK k \in DOMAIN domains : row = DomainRow(domains[k], anchor)
    BY <1>7
  <2>1. Span(domains[k].first, domains[k].last)
    BY DEF SpansInv, DomainSpan
  <2>2. row.first = Unix(domains[k].first, anchor) /\ row.last = Unix(domains[k].last, anchor)
    BY DEF DomainRow, Row
  <2> QED BY <1>3, <2>1, <2>2 DEF Span, g
<1>8. CASE \E a \in DOMAIN g.apps : n[1] = "app" /\ row = AppRow(g.apps[a], anchor)
  <2> PICK a \in DOMAIN g.apps : n[1] = "app" /\ row = AppRow(g.apps[a], anchor)
    BY <1>8
  <2> DEFINE intervals == g.apps[a]
  <2>1. intervals \in Seq(Interval) /\ intervals # <<>>
    <3>1. CASE frontmost = Nobody
      BY <1>1, <3>1 DEF FrontClosed, AppsInv
    <3>2. CASE frontmost # Nobody
      <4>1. lastTs \in Nat /\ lastTs <= Clock
        BY <1>0, <3>2 DEF FrontInv, ClockInv
      <4> QED BY <1>1, <4>1, ClosedFront
    <3> QED BY <3>1, <3>2
  <2> HIDE DEF intervals
  <2> DEFINE begins == {i.from : i \in ToSet(intervals)}
  <2>2. begins \in SUBSET Nat /\ begins # {}
    <3>1. \A i \in ToSet(intervals) : i \in Interval
      BY <2>1 DEF ToSet
    <3>2. intervals[1] \in ToSet(intervals)
      BY <2>1 DEF ToSet
    <3> QED BY <3>1, <3>2 DEF Interval
  <2>3. Min(begins) \in Nat
    <3> HIDE DEF begins
    <3> QED BY <2>2, MinOfNats
  <2>4. row.first = Unix(Min(begins), anchor)
    BY DEF AppRow, Row, intervals
  <2> HIDE DEF begins
  <2>5. row.first \in Nat
    BY <1>0, <2>3, <2>4 DEF Unix
  <2> QED BY <2>5 DEF g
<1> QED BY <1>2, <1>4, <1>5, <1>6, <1>7, <1>8

\* An upsert only widens a node's span.
LEMMA MergedSpans ==
  ASSUME NodesInv, NEW g, MergeGraph(g, anchor),
         \A n \in DOMAIN Rows(g, anchor) :
           LET row == Rows(g, anchor)[n]
           IN row.first \in Nat /\ (n[1] # "app" => Span(row.first, row.last))
  PROVE  /\ NodesInv'
         /\ \A n \in DOMAIN nodes : n \in DOMAIN nodes' /\ nodes'[n].first <= nodes[n].first
<1> DEFINE rows == Rows(g, anchor)
<1>1. nodes' = [n \in DOMAIN nodes \cup DOMAIN rows |->
                  IF n \notin DOMAIN nodes THEN rows[n]
                  ELSE IF n \notin DOMAIN rows THEN nodes[n]
                  ELSE UpsertNode(nodes[n], rows[n])]
  BY DEF MergeGraph, MergedNodes
<1>2. \A n \in DOMAIN rows :
        rows[n].first \in Nat /\ (n[1] # "app" => Span(rows[n].first, rows[n].last))
  OBVIOUS
<1> HIDE DEF rows
<1>3. ASSUME NEW n \in DOMAIN nodes'
      PROVE  /\ nodes'[n].first \in Nat
             /\ n[1] # "app" => Span(nodes'[n].first, nodes'[n].last)
             /\ n \in DOMAIN nodes => nodes'[n].first <= nodes[n].first
  <2>1. CASE n \notin DOMAIN nodes
    BY <1>1, <1>2, <2>1
  <2>2. CASE n \in DOMAIN nodes /\ n \notin DOMAIN rows
    BY <1>1, <2>2 DEF NodesInv
  <2>3. CASE n \in DOMAIN nodes /\ n \in DOMAIN rows
    <3>1. /\ nodes'[n].first = Smaller(rows[n].first, nodes[n].first)
          /\ nodes'[n].last = Larger(rows[n].last, nodes[n].last)
      BY <1>1, <2>3 DEF UpsertNode
    <3>2. rows[n].first \in Nat /\ nodes[n].first \in Nat
      BY <1>2, <2>3 DEF NodesInv
    <3>3. nodes'[n].first \in Nat /\ nodes'[n].first <= nodes[n].first
      BY <3>1, <3>2 DEF Smaller
    <3>4. n[1] # "app" => Span(nodes'[n].first, nodes'[n].last)
      <4> SUFFICES ASSUME n[1] # "app"  PROVE Span(nodes'[n].first, nodes'[n].last)
        OBVIOUS
      <4>1. Span(rows[n].first, rows[n].last) /\ Span(nodes[n].first, nodes[n].last)
        BY <1>2, <2>3 DEF NodesInv
      <4> QED BY <3>1, <4>1 DEF Span, Smaller, Larger
    <3> QED BY <3>3, <3>4
  <2> QED BY <2>1, <2>2, <2>3
<1>4. \A n \in DOMAIN nodes : n \in DOMAIN nodes'
  BY <1>1
<1> QED BY <1>3, <1>4 DEF NodesInv

\* An edge that is not an overlap is listed once, and does not lead to an app.
LEMMA ListedOnce ==
  ASSUME NEW order, NEW e \in DOMAIN Snapshot(order).edges, e.kind # "frontmost_during",
         NEW listed, listed = Snapshot(order).edges[e]
  PROVE  Len(listed) = 1 /\ DOMAIN listed = 1..1 /\ e.to[1] # "app"
<1> DEFINE shown == FrontClosed(lastTs)
<1> DEFINE P == ParentEdges(order)
<1> DEFINE F == FrontmostEdges(shown)
<1> DEFINE S == SocketEdges(order)
<1> DEFINE D == DomainEdges(order)
<1>1. Snapshot(order).edges = Both(Both(P, F), Both(S, D))
  BY DEF Snapshot
<1>2. e \notin DOMAIN F
  BY DEF FrontmostEdges, Edge
<1>3. e \in DOMAIN P => P[e] = Plain /\ e.to[1] = "process"
  BY DEF ParentEdges, Edge
<1>4. e \in DOMAIN S => S[e] = Plain /\ e.to[1] = "socket"
  BY DEF SocketEdges, Edge
<1>5. e \in DOMAIN D => (\E x : D[e] = <<x>>) /\ e.to[1] = "domain"
  <2>1. e \in DOMAIN D => e.to[1] = "domain"
    BY DEF DomainEdges, Edge
  <2>2. e \in DOMAIN D => D[e] = << domainQueries[<<PidOf(e.from[2]), e.to[2]>>].count >>
    BY DEF DomainEdges
  <2> QED BY <2>1, <2>2
<1> HIDE DEF P, F, S, D
<1>6. /\ listed = Plain \/ (\E x : listed = <<x>>)
      /\ e.to[1] \in {"process", "socket", "domain"}
  BY <1>1, <1>2, <1>3, <1>4, <1>5 DEF Both
<1>7. PICK x : listed = <<x>>
  BY <1>6 DEF Plain
<1>8. listed \in Seq({x}) /\ Len(listed) = 1
  BY <1>7
<1> QED BY <1>6, <1>8

\* What a merge stores of the edges.
LEMMA MergedEdgeSpans ==
  ASSUME ClockInv, AppsInv, FrontInv, EdgesInv, NodesInv',
         \A k \in DOMAIN processes : IsProcess(processes[k]),
         NEW order, MergeGraph(Snapshot(order), anchor)
  PROVE  EdgesInv'
<1> DEFINE g == Snapshot(order)
<1>1. /\ DOMAIN edges' = DOMAIN edges \cup DOMAIN g.edges
      /\ \A e \in DOMAIN g.edges : edges'[e] = MergedEdge(e, g.edges[e], nodes', anchor)
      /\ \A e \in DOMAIN edges \ DOMAIN g.edges : edges'[e] = edges[e]
  BY DEF MergeGraph
<1>2. ASSUME NEW e \in DOMAIN g.edges
      PROVE  Span(edges'[e].first, edges'[e].last) /\ edges'[e].count \in Nat \ {0}
  <2> DEFINE listed == g.edges[e]
  <2> DEFINE At(i) == SeenAt(e, listed[i], nodes', anchor)
  <2>0. anchor \in Nat \ {0} /\ NoTime = -1
    BY DEF ClockInv, NoTime
  <2>1. /\ Len(listed) \in Nat \ {0} /\ DOMAIN listed = 1..Len(listed)
        /\ \A i \in 1..Len(listed) : At(i) \in Nat
    <3>1. CASE e.kind = "frontmost_during"
      <4>1. /\ Len(listed) \in Nat \ {0} /\ DOMAIN listed = 1..Len(listed)
            /\ \A i \in 1..Len(listed) : listed[i].to \in Nat
        BY <3>1, ListedOverlaps
      <4> HIDE DEF listed
      <4>2. ASSUME NEW i \in 1..Len(listed)  PROVE At(i) \in Nat
        <5>1. listed[i].to \in Nat /\ listed[i].to # NoTime /\ anchor # 0
          BY <2>0, <4>1
        <5>2. At(i) = anchor + listed[i].to
          BY <3>1, <5>1 DEF SeenAt, Unix, EndOr
        <5> QED BY <2>0, <5>1, <5>2
      <4> QED BY <4>1, <4>2
    <3>2. CASE e.kind # "frontmost_during"
      <4>1. Len(listed) = 1 /\ DOMAIN listed = 1..1 /\ e.to[1] # "app"
        BY <3>2, ListedOnce
      <4>2. e.to \in DOMAIN nodes'
        <5>1. e.to \in DOMAIN Rows(g, anchor)
          BY SnapshotEdges DEF Ends
        <5> QED BY <5>1, MergeDomains
      <4>3. nodes'[e.to].last \in Nat
        BY <4>1, <4>2 DEF NodesInv, Span
      <4> HIDE DEF listed
      <4> QED BY <3>2, <4>1, <4>3 DEF SeenAt
    <3> QED BY <3>1, <3>2
  <2> HIDE DEF g
  <2> DEFINE seen == {At(i) : i \in DOMAIN listed}
  <2> DEFINE old == IF e \in DOMAIN edges THEN edges[e]
                    ELSE [count |-> 0, first |-> SeenAt(e, Head(listed), nodes', anchor),
                          last |-> SeenAt(e, Head(listed), nodes', anchor)]
  <2>2. /\ edges'[e].count = old.count + Len(listed)
        /\ edges'[e].first = old.first
        /\ edges'[e].last = Max(seen \cup {old.last})
    <3>1. edges'[e] = MergedEdge(e, listed, nodes', anchor)
      BY <1>1
    <3> HIDE DEF listed
    <3>2. MergedEdge(e, listed, nodes', anchor) =
            [count |-> old.count + Len(listed), first |-> old.first,
             last |-> Max(seen \cup {old.last}), attrs |-> Last(listed), anchor |-> anchor]
      BY Zenon DEF MergedEdge
    <3> HIDE DEF old, seen
    <3> QED BY <3>1, <3>2
  <2>3. Span(old.first, old.last) /\ old.count \in Nat
    <3>1. CASE e \in DOMAIN edges
      BY <3>1 DEF EdgesInv
    <3>2. CASE e \notin DOMAIN edges
      <4>1. Head(listed) = listed[1] /\ 1 \in 1..Len(listed)
        BY <2>1
      <4>2. At(1) \in Nat
        BY <2>1, <4>1
      <4> QED BY <3>2, <4>1, <4>2 DEF Span
    <3> QED BY <3>1, <3>2
  <2>4. PICK b \in Nat : \A i \in 1..Len(listed) : At(i) <= b
    <3> DEFINE f == [i \in 1..Len(listed) |-> At(i)]
    <3>1. \A i \in 1..Len(listed) : f[i] \in Nat
      BY <2>1
    <3> HIDE DEF f
    <3>2. \E b \in Nat : \A i \in 1..Len(listed) : f[i] <= b
      BY <2>1, <3>1, SequenceIsBounded
    <3> QED BY <3>2 DEF f
  <2> HIDE DEF old, At, listed
  <2> DEFINE S == seen \cup {old.last}
  <2>5. S \in SUBSET Nat /\ S # {} /\ old.last \in S
    BY <2>1, <2>3 DEF Span
  <2>6. PICK c \in Nat : b <= c /\ old.last <= c
    BY <2>3 DEF Span
  <2>7. \A x \in S : x <= c
    <3>1. ASSUME NEW i \in DOMAIN listed  PROVE At(i) <= c
      <4>1. At(i) \in Nat /\ At(i) <= b
        BY <2>1, <2>4
      <4> QED BY <2>6, <4>1
    <3> QED BY <2>6, <3>1
  <2> HIDE DEF S
  <2>8. Max(S) \in S /\ \A x \in S : x <= Max(S)
    BY <2>5, <2>7, MaxOfNats
  <2>9. Max(S) \in Nat /\ old.last <= Max(S)
    BY <2>5, <2>8
  <2>10. edges'[e].last = Max(S)
    BY <2>2 DEF S
  <2>11. Span(edges'[e].first, edges'[e].last)
    BY <2>2, <2>3, <2>9, <2>10 DEF Span
  <2> QED BY <2>1, <2>2, <2>3, <2>11
<1> HIDE DEF g
<1> QED BY <1>1, <1>2 DEF EdgesInv

\* Steps that leave the builder, or take from it, at a later time of its clock.
LEMMA LaterSpans ==
  ASSUME ProcessesInv, SocketsInv, SpansInv, Clock \in Int, Clock' \in Int, Clock <= Clock',
         /\ DOMAIN processes' \subseteq DOMAIN processes
         /\ \A k \in DOMAIN processes' : processes'[k] = processes[k],
         /\ DOMAIN sockets' \subseteq DOMAIN sockets
         /\ \A k \in DOMAIN sockets' : sockets'[k] = sockets[k],
         /\ DOMAIN files' \subseteq DOMAIN files
         /\ \A k \in DOMAIN files' : files'[k] = files[k],
         /\ DOMAIN domains' \subseteq DOMAIN domains
         /\ \A k \in DOMAIN domains' : domains'[k] = domains[k],
         \A q \in DOMAIN domainQueries' : q \in DOMAIN domainQueries /\ q[2] \in DOMAIN domains'
  PROVE  ProcessesInv' /\ SocketsInv' /\ SpansInv'
<1>1. \A k \in DOMAIN processes' :
        LET p == processes'[k]
        IN /\ k \in ProcessId /\ p.birth \in Nat /\ p.birth < Clock'
           /\ p.death # None => Span(p.birth, p.death)
  BY DEF ProcessesInv, Life
<1>2. \A k \in DOMAIN sockets' :
        LET s == sockets'[k]
        IN /\ IsSocket(s) /\ s.opened \in Nat /\ s.opened < Clock'
           /\ s.closed # None => Span(s.opened, s.closed)
  BY DEF SocketsInv, Life
<1>3. \A k \in DOMAIN domains' :
        LET d == domains'[k]
        IN "last" \in DOMAIN d /\ Span(d.first, d.last) /\ d.last <= Clock'
  BY DEF SpansInv, DomainSpan, Span
<1>4. \A k \in DOMAIN files' : FileSpan(files'[k])
  BY DEF SpansInv
<1>5. ProcessesInv'
  BY <1>1 DEF ProcessesInv, Life
<1>6. SocketsInv'
  BY <1>2 DEF SocketsInv, Life
<1>7. SpansInv'
  BY <1>3, <1>4 DEF SpansInv, DomainSpan
<1> QED BY <1>5, <1>6, <1>7

\* No step but a merge changes a row that it keeps.
LEMMA KeptRows ==
  ASSUME Receive \/ Observe \/ Prune \/ Restart \/ Advance \/ UNCHANGED vars
  PROVE  /\ DOMAIN nodes' \subseteq DOMAIN nodes /\ DOMAIN edges' \subseteq DOMAIN edges
         /\ \A n \in DOMAIN nodes' : nodes'[n] = nodes[n]
         /\ \A e \in DOMAIN edges' : edges'[e] = edges[e]
<1>1. CASE UNCHANGED storeVars
  BY <1>1 DEF storeVars
<1>2. CASE Prune
  BY <1>2 DEF Prune, PruneBefore, Restrict
<1>3. CASE Receive \/ Observe \/ Restart \/ Advance \/ UNCHANGED vars
  <2>1. UNCHANGED storeVars
    BY <1>3 DEF Receive, Observe, Restart, Advance, vars, storeVars
  <2> QED BY <1>1, <2>1
<1> QED BY <1>2, <1>3

\* Every step leaves spans.
LEMMA TypeStep ==
  ASSUME TypeInv, SegmentInv, CurrentInv, [Next]_vars
  PROVE  TypeInv'
<1> USE DEF TypeInv, SegmentInv
<1>0. /\ now \in Nat \ {0} /\ anchor \in Nat \ {0} /\ Clock \in Nat
      /\ \A k \in DOMAIN processes : IsProcess(processes[k])
  BY DEF ClockInv, Clock, CurrentInv, WorldTypes
<1>1. ASSUME Receive \/ Observe \/ Prune \/ Restart \/ Advance \/ UNCHANGED vars
      PROVE  NodesInv' /\ EdgesInv'
  BY <1>1, KeptRows DEF NodesInv, EdgesInv
<1>2. CASE Receive
  <2>0. /\ UNCHANGED <<now, anchor>> /\ UNCHANGED storeVars /\ Clock' = Clock
        /\ \/ \E ts \in Nat : ts = Clock - 1 /\ (ProcessEvent(ts) \/ SocketEvent(ts))
           \/ \E ts \in Nat : FileEvent(ts)
           \/ FocusEvent
           \/ DnsEvent
    BY <1>0, <1>2 DEF Receive, Clock
  <2>1. NodesInv' /\ EdgesInv'
    BY <2>0 DEF NodesInv, EdgesInv, storeVars
  <2>2. /\ UNCHANGED processes => ProcessesInv'
        /\ UNCHANGED sockets => SocketsInv'
        /\ UNCHANGED <<files, domains, domainQueries>> => SpansInv'
    BY <2>0 DEF ProcessesInv, SocketsInv, Life, SpansInv, DomainSpan
  <2>3. CASE \E ts \in Nat : ts = Clock - 1 /\ ProcessEvent(ts)
    <3>1. UNCHANGED <<sockets, files, domains, domainQueries>>
      BY <2>3 DEF ProcessEvent, Birth, Death, OnProcessBirth, OnProcessDeath
    <3>2. ProcessesInv'
      BY <1>0, <2>0, <2>3, ProcessSpans
    <3> QED BY <2>1, <2>2, <3>1, <3>2
  <2>4. CASE \E ts \in Nat : ts = Clock - 1 /\ SocketEvent(ts)
    <3>1. UNCHANGED <<processes, files, domains, domainQueries>>
      BY <2>4 DEF SocketEvent, OnConnectionOpened, OnConnectionClosed
    <3>2. SocketsInv'
      BY <2>0, <2>4, SocketSpans
    <3> QED BY <2>1, <2>2, <3>1, <3>2
  <2>5. CASE \E ts \in Nat : FileEvent(ts)
    <3>1. UNCHANGED <<processes, sockets>>
      BY <2>5 DEF FileEvent, OnFileChanged
    <3>2. SpansInv'
      BY <2>0, <2>5, FileSpans
    <3> QED BY <2>1, <2>2, <3>1, <3>2
  <2>6. CASE FocusEvent
    <3>1. UNCHANGED <<processes, sockets, files, domains, domainQueries>>
      BY <2>6 DEF FocusEvent, OnAppFocus, OnFocusOnNothing, OnObservation
    <3> QED BY <2>1, <2>2, <3>1
  <2>7. CASE DnsEvent
    <3>1. UNCHANGED <<processes, sockets>>
      BY <2>7 DEF DnsEvent, OnDnsQuery
    <3>2. SpansInv'
      BY <2>0, <2>7, DomainSpans
    <3> QED BY <2>1, <2>2, <3>1, <3>2
  <2> QED BY <2>0, <2>3, <2>4, <2>5, <2>6, <2>7
<1>3. ASSUME UNCHANGED <<processes, sockets, files, domains, domainQueries>>,
             Clock' \in Int, Clock <= Clock'
      PROVE  ProcessesInv' /\ SocketsInv' /\ SpansInv'
  <2>1. \A q \in DOMAIN domainQueries : q[2] \in DOMAIN domains
    BY DEF SpansInv
  <2> QED BY <1>0, <1>3, <2>1, LaterSpans
<1>4. CASE Observe \/ Prune \/ UNCHANGED vars
  <2>1. /\ UNCHANGED <<processes, sockets, files, domains, domainQueries>>
        /\ UNCHANGED <<now, anchor>>
    BY <1>4 DEF Observe, OnObservation, Prune, vars, builderVars
  <2>2. Clock' \in Int /\ Clock <= Clock'
    BY <1>0, <2>1 DEF Clock
  <2>3. ProcessesInv' /\ SocketsInv' /\ SpansInv'
    BY <1>3, <2>1, <2>2
  <2> QED BY <1>1, <1>4, <2>3
<1>5. CASE Advance
  <2>1. /\ UNCHANGED <<processes, sockets, files, domains, domainQueries>>
        /\ now' = now + 1 /\ anchor' = anchor
    BY <1>5 DEF Advance, builderVars
  <2>2. Clock' \in Int /\ Clock <= Clock'
    BY <1>0, <2>1 DEF Clock
  <2> QED BY <1>1, <1>3, <1>5, <2>1, <2>2
<1>6. CASE Restart
  <2>1. /\ DOMAIN processes' = {} /\ DOMAIN sockets' = {} /\ DOMAIN files' = {}
        /\ DOMAIN domains' = {} /\ DOMAIN domainQueries' = {}
    BY <1>6 DEF Restart, ResetBuilder, Empty
  <2>2. ProcessesInv' /\ SocketsInv' /\ SpansInv'
    BY <2>1 DEF ProcessesInv, SocketsInv, SpansInv
  <2> QED BY <1>1, <1>6, <2>2
<1>7. CASE Tick
  <2> PICK order \in Orders : MergeGraph(Snapshot(order), anchor)
    BY <1>7 DEF Tick
  <2>1. \A n \in DOMAIN Rows(Snapshot(order), anchor) :
          LET row == Rows(Snapshot(order), anchor)[n]
          IN row.first \in Nat /\ (n[1] # "app" => Span(row.first, row.last))
    BY RowSpans
  <2>2. NodesInv'
    BY <2>1, MergedSpans
  <2>3. EdgesInv'
    BY <1>0, <2>2, MergedEdgeSpans
  <2>4. UNCHANGED <<now, anchor>>
    BY <1>7 DEF Tick
  <2>5. CASE UNCHANGED builderVars
    <3>1. UNCHANGED <<processes, sockets, files, domains, domainQueries>>
      BY <2>5 DEF builderVars
    <3>2. Clock' \in Int /\ Clock <= Clock'
      BY <1>0, <2>4 DEF Clock
    <3> QED BY <1>3, <2>2, <2>3, <3>1, <3>2
  <2>6. CASE TrimBefore(Later(newest - Ttl, 0))
    <3>1. /\ DOMAIN processes' \subseteq DOMAIN processes
          /\ \A k \in DOMAIN processes' : processes'[k] = processes[k]
      BY <2>6 DEF TrimBefore, Kept, Restrict
    <3>2. /\ DOMAIN sockets' \subseteq DOMAIN sockets
          /\ \A k \in DOMAIN sockets' : sockets'[k] = sockets[k]
      BY <2>6 DEF TrimBefore, Kept, Restrict
    <3>3. /\ DOMAIN files' \subseteq DOMAIN files
          /\ \A k \in DOMAIN files' : files'[k] = files[k]
      BY <2>6 DEF TrimBefore, Kept, Restrict
    <3>4. /\ DOMAIN domains' \subseteq DOMAIN domains
          /\ \A k \in DOMAIN domains' : domains'[k] = domains[k]
      BY <2>6 DEF TrimBefore, Kept, Restrict
    <3>5. \A q \in DOMAIN domainQueries' : q \in DOMAIN domainQueries /\ q[2] \in DOMAIN domains'
      BY <2>6 DEF TrimBefore, Restrict
    <3>6. Clock \in Int /\ Clock' \in Int /\ Clock <= Clock'
      BY <1>0, <2>4 DEF Clock
    <3>7. ProcessesInv' /\ SocketsInv' /\ SpansInv'
      BY <3>1, <3>2, <3>3, <3>4, <3>5, <3>6, LaterSpans
    <3> QED BY <2>2, <2>3, <3>7
  <2> QED BY <1>7, <2>5, <2>6 DEF Tick
<1> QED BY <1>2, <1>4, <1>5, <1>6, <1>7 DEF Next

\* TypeInv holds in every state.
LEMMA TypeInvariant == Spec => []TypeInv
<1>1. Init => TypeInv
  BY DEF Init, NewBuilder, OpenStore, Empty, TypeInv, ProcessesInv, SocketsInv, SpansInv,
         NodesInv, EdgesInv
<1>2. TypeInv /\ SegmentInv /\ CurrentInv /\ [Next]_vars => TypeInv'
  BY TypeStep
<1> QED BY <1>1, <1>2, SegmentInvariant, CurrentInvariant, PTL DEF Spec

\* Type correctness: every stored span begins before it ends, every stored edge
\* was counted, and the builder's maps agree with one another.
THEOREM WorldTypeCorrect == Spec => []TypeOK
<1>1. TypeInv /\ SegmentInv /\ CurrentInv => TypeOK
  <2> SUFFICES ASSUME TypeInv, SegmentInv, CurrentInv  PROVE TypeOK
    OBVIOUS
  <2>1. DOMAIN processes \subseteq ProcessId
    BY DEF TypeInv, ProcessesInv
  <2>2. DOMAIN apps \subseteq App /\ \A a \in DOMAIN apps : apps[a] # <<>>
    BY DEF SegmentInv, AppsInv
  <2>3. frontmost # Nobody => frontmost.app \in DOMAIN apps
    BY DEF SegmentInv, FrontInv
  <2>4. \A q \in DOMAIN domainQueries : q[2] \in DOMAIN domains
    BY DEF TypeInv, SpansInv
  <2>5. \A n \in DOMAIN nodes : n[1] # "app" => nodes[n].first <= nodes[n].last
    BY DEF TypeInv, NodesInv, Span
  <2>6. \A e \in DOMAIN edges : edges[e].first <= edges[e].last /\ edges[e].count > 0
    BY DEF TypeInv, EdgesInv, Span
  <2>7. told \in [ProcessId -> [state : {"unknown", "alive", "dead"}, at : Int]]
    BY DEF CurrentInv, WorldTypes
  <2> QED BY <2>1, <2>2, <2>3, <2>4, <2>5, <2>6, <2>7 DEF TypeOK
<1> QED BY <1>1, TypeInvariant, SegmentInvariant, CurrentInvariant, PTL

-----------------------------------------------------------------------------
(* NoveltyNeverReturns.  What is stored was first seen when it was first    *)
(* seen, or earlier: a merge only adds rows and moves a first time back.    *)

BecomesNovel(i, since) == i \in NovelSince(since)' /\ i \notin NovelSince(since)

\* A step that keeps every sighting makes nothing new that was shown.
LEMMA NoveltyStep ==
  ASSUME NodesInv, NodesInv', [Next]_vars,
         TypeInv, SegmentInv, CurrentInv,
         NEW i \in Known \cap Known', NEW since \in 1..MaxTime, BecomesNovel(i, since)
  PROVE  \/ Sightings(i) \ DOMAIN nodes' # {}
         \/ i[1] = "domain" /\ nodes[i].attrs.masked
<1> SUFFICES ASSUME Sightings(i) \subseteq DOMAIN nodes',
                    ~ (i[1] = "domain" /\ nodes[i].attrs.masked)
             PROVE  FALSE
  OBVIOUS
<1>1. since \in Int
  OBVIOUS
<1> DEFINE F == {nodes[n].first : n \in Sightings(i)}
<1> DEFINE G == {nodes'[n].first : n \in Sightings(i)'}
<1>2. /\ Sightings(i) = {n \in DOMAIN nodes : Identity(n) = i}
      /\ Sightings(i)' = {n \in DOMAIN nodes' : Identity(n) = i}
  BY DEF Sightings
<1>3. Sightings(i) # {} /\ Sightings(i)' # {}
  BY <1>2 DEF Known
<1>4. F \in SUBSET Nat /\ F # {}
  BY <1>2, <1>3 DEF NodesInv
<1>5. G \in SUBSET Nat /\ G # {}
  BY <1>2, <1>3 DEF NodesInv
<1>6. i[1] # "file" /\ Min(G) >= since
  BY DEF BecomesNovel, NovelSince, FirstSeen
<1>7. ~ (Min(F) >= since)
  <2>1. i[1] = "domain" => i \in Known /\ ~ nodes[i].attrs.masked
    OBVIOUS
  <2> QED BY <1>6, <2>1 DEF BecomesNovel, NovelSince, FirstSeen
<1>8. \A n \in Sightings(i) : n \in DOMAIN nodes' /\ nodes'[n].first <= nodes[n].first
  <2>1. CASE Tick
    <3> PICK order \in Orders : MergeGraph(Snapshot(order), anchor)
      BY <2>1 DEF Tick
    <3>1. \A n \in DOMAIN Rows(Snapshot(order), anchor) :
            LET row == Rows(Snapshot(order), anchor)[n]
            IN row.first \in Nat /\ (n[1] # "app" => Span(row.first, row.last))
      BY RowSpans DEF TypeInv, SegmentInv
    <3> QED BY <1>2, <3>1, MergedSpans
  <2>2. CASE Receive \/ Observe \/ Prune \/ Restart \/ Advance \/ UNCHANGED vars
    <3>1. \A n \in DOMAIN nodes' : nodes'[n] = nodes[n]
      BY <2>2, KeptRows
    <3> QED BY <1>2, <3>1 DEF NodesInv
  <2> QED BY <2>1, <2>2 DEF Next
<1> HIDE DEF F, G
<1>9. /\ Min(F) \in F /\ Min(F) \in Nat
      /\ Min(G) \in Nat /\ \A x \in G : Min(G) <= x
  BY <1>4, <1>5, MinOfNats
<1>10. PICK n \in Sightings(i) : Min(F) = nodes[n].first
  BY <1>9 DEF F
<1>11. n \in Sightings(i)' /\ nodes'[n].first \in G
  BY <1>2, <1>8 DEF G
<1>12. Min(G) <= nodes'[n].first /\ nodes'[n].first <= Min(F) /\ nodes'[n].first \in Nat
  BY <1>5, <1>8, <1>9, <1>10, <1>11
<1> QED BY <1>1, <1>6, <1>7, <1>9, <1>12

\* A known program, endpoint, domain or app is new again only after a sighting
\* of it was pruned, or its domain was unmasked: for every window and retention.
THEOREM KnownIsNeverNewAgain == Spec => NoveltyNeverReturns
<1>1. TypeInv /\ SegmentInv /\ CurrentInv /\ TypeInv' /\ [Next]_vars =>
        [\A i \in Known \cap Known', since \in 1..MaxTime :
           BecomesNovel(i, since) =>
             \/ Sightings(i) \ DOMAIN nodes' # {}
             \/ i[1] = "domain" /\ nodes[i].attrs.masked]_vars
  BY NoveltyStep DEF TypeInv
<1> QED BY <1>1, TypeInvariant, SegmentInvariant, CurrentInvariant, PTL
        DEF Spec, NoveltyNeverReturns, BecomesNovel

-----------------------------------------------------------------------------
(* QueriesAgree.  What the queries rest on: an edge is between nodes of its  *)
(* kind, a process's row names the parent its edges lead to, nothing was     *)
(* seen later than now, and the tables are finite.                          *)

\* The builder's maps are finite.
BuilderIsFinite ==
  /\ IsFiniteSet(DOMAIN processes) /\ IsFiniteSet(DOMAIN apps)
  /\ IsFiniteSet(DOMAIN sockets) /\ IsFiniteSet(DOMAIN files)
  /\ IsFiniteSet(DOMAIN domains)

\* No entry was seen after the present.
NothingIsLater ==
  /\ \A f \in DOMAIN files : files[f].first <= Clock
  /\ \A a \in DOMAIN apps : \A i \in 1..Len(apps[a]) : apps[a][i].from <= Clock

\* An entry has the parent its process was forked by.
ParentsAreKnown == \A k \in DOMAIN processes : processes[k].ppid = Ppid(k)

\* A row of the nodes table.
IsNode(n, row) ==
  /\ n = <<n[1], n[2]>> /\ row.first <= now /\ row.last \in Nat
  /\ n[1] = "process" => row.attrs.ppid = Ppid(n[2])

\* A row of the edges table.
IsEdge(e) ==
  /\ e = Edge(e.kind, e.from[1], e.from[2], e.to[1], e.to[2])
  /\ e.kind \in {"parent_of", "frontmost_during", "opened_socket", "queried_domain"}
  /\ e.kind = "parent_of" =>
       e.from[1] = "process" /\ e.to[1] = "process" /\ PidOf(e.from[2]) = Ppid(e.to[2])
  /\ e.kind = "queried_domain" => e.from[1] = "process" /\ e.to[1] = "domain"

TablesInv ==
  /\ IsFiniteSet(DOMAIN nodes)
  /\ \A n \in DOMAIN nodes : IsNode(n, nodes[n])
  /\ \A e \in DOMAIN edges : IsEdge(e)

QueryInv == BuilderIsFinite /\ NothingIsLater /\ ParentsAreKnown /\ TablesInv

-----------------------------------------------------------------------------
(* The tables as the queries read them *)

\* The ids of one kind are those of the keys.
LEMMA IdsAreKeys ==
  ASSUME TablesInv, NEW N \in SUBSET DOMAIN nodes, NEW kind, NEW id
  PROVE  id \in Ids(kind, N) <=> <<kind, id>> \in N
<1>1. ASSUME <<kind, id>> \in N  PROVE id \in Ids(kind, N)
  <2>1. <<kind, id>>[1] = kind /\ <<kind, id>>[2] = id
    OBVIOUS
  <2> QED BY <1>1, <2>1 DEF Ids
<1>2. ASSUME id \in Ids(kind, N)  PROVE <<kind, id>> \in N
  <2>1. PICK n \in N : n[1] = kind /\ n[2] = id
    BY <1>2 DEF Ids
  <2>2. n = <<n[1], n[2]>>
    BY DEF TablesInv, IsNode
  <2> QED BY <2>1, <2>2
<1> QED BY <1>1, <1>2

\* Nothing was last seen before the beginning of time.
LEMMA AllAreSeen ==
  ASSUME TablesInv
  PROVE  SeenProcesses(0) = Ids("process", DOMAIN nodes)
<1>1. ASSUME NEW k \in Ids("process", DOMAIN nodes)  PROVE nodes[<<"process", k>>].last >= 0
  <2>1. <<"process", k>> \in DOMAIN nodes
    BY IdsAreKeys
  <2>2. nodes[<<"process", k>>].last \in Nat
    BY <2>1 DEF TablesInv, IsNode
  <2> QED BY <2>2
<1> QED BY <1>1 DEF SeenProcesses

\* The join with the nodes loses no edge, and their ids are in the table.
LEMMA JoinedIsAll ==
  ASSUME TablesInv, NoDanglingEdge
  PROVE  /\ \A kind : Joined(kind) = OfKind(kind)
         /\ \A e \in OfKind("parent_of") :
              /\ e.from = <<"process", e.from[2]>> /\ e.to = <<"process", e.to[2]>>
              /\ e.from \in DOMAIN nodes /\ e.to \in DOMAIN nodes
              /\ e.from[2] \in Ids("process", DOMAIN nodes)
              /\ e.to[2] \in SeenProcesses(0)
              /\ PidOf(e.from[2]) = Ppid(e.to[2])
<1>1. \A kind : Joined(kind) = OfKind(kind)
  BY DEF Joined, OfKind, NoDanglingEdge
<1>2. ASSUME NEW e \in OfKind("parent_of")
      PROVE  /\ e.from = <<"process", e.from[2]>> /\ e.to = <<"process", e.to[2]>>
             /\ e.from \in DOMAIN nodes /\ e.to \in DOMAIN nodes
             /\ e.from[2] \in Ids("process", DOMAIN nodes)
             /\ e.to[2] \in SeenProcesses(0)
             /\ PidOf(e.from[2]) = Ppid(e.to[2])
  <2>1. e \in DOMAIN edges /\ IsEdge(e) /\ e.kind = "parent_of"
    BY DEF OfKind, TablesInv
  <2>2. e.from \in DOMAIN nodes /\ e.to \in DOMAIN nodes
    BY <2>1 DEF NoDanglingEdge, Ends
  <2>3. IsNode(e.from, nodes[e.from]) /\ IsNode(e.to, nodes[e.to])
    BY <2>2 DEF TablesInv
  <2>4. e.from = <<"process", e.from[2]>> /\ e.to = <<"process", e.to[2]>>
    BY <2>1, <2>3 DEF IsEdge, IsNode
  <2>5. /\ e.from[2] \in Ids("process", DOMAIN nodes)
        /\ e.to[2] \in Ids("process", DOMAIN nodes)
    BY <2>2, <2>4, IdsAreKeys
  <2> QED BY <2>1, <2>2, <2>4, <2>5, AllAreSeen DEF IsEdge
<1> QED BY <1>1, <1>2

\* The edges are finitely many, as their ends are.
LEMMA EdgesAreFinite ==
  ASSUME TablesInv, NoDanglingEdge
  PROVE  IsFiniteSet(DOMAIN edges)
<1> DEFINE kinds == {"parent_of", "frontmost_during", "opened_socket", "queried_domain"}
           N == DOMAIN nodes
           T == kinds \X (N \X N)
           f == [e \in DOMAIN edges |-> <<e.kind, <<e.from, e.to>>>>]
<1>1. IsFiniteSet(T)
  <2>1. IsFiniteSet(kinds)
    <3>1. IsFiniteSet({"parent_of"})
      BY FS_Singleton
    <3>2. IsFiniteSet({"parent_of"} \cup {"frontmost_during"})
      BY <3>1, FS_AddElement
    <3>3. IsFiniteSet(({"parent_of"} \cup {"frontmost_during"}) \cup {"opened_socket"})
      BY <3>2, FS_AddElement
    <3>4. IsFiniteSet((({"parent_of"} \cup {"frontmost_during"}) \cup {"opened_socket"})
                        \cup {"queried_domain"})
      BY <3>3, FS_AddElement
    <3>5. kinds = (({"parent_of"} \cup {"frontmost_during"}) \cup {"opened_socket"})
                    \cup {"queried_domain"}
      OBVIOUS
    <3> QED BY <3>4, <3>5
  <2>2. IsFiniteSet(N)
    BY DEF TablesInv
  <2>3. IsFiniteSet(N \X N)
    BY <2>2, FS_Product
  <2> QED BY <2>1, <2>3, FS_Product
<1>2. f \in Injection(DOMAIN edges, T)
  <2>1. ASSUME NEW e \in DOMAIN edges  PROVE f[e] \in T
    <3>1. e.kind \in kinds
      BY DEF TablesInv, IsEdge
    <3>2. e.from \in N /\ e.to \in N
      BY DEF NoDanglingEdge, Ends
    <3> QED BY <3>1, <3>2
  <2>2. ASSUME NEW e \in DOMAIN edges, NEW x \in DOMAIN edges, f[e] = f[x]  PROVE e = x
    <3>1. e.kind = x.kind /\ e.from = x.from /\ e.to = x.to
      BY <2>2
    <3>2. /\ e = Edge(e.kind, e.from[1], e.from[2], e.to[1], e.to[2])
          /\ x = Edge(x.kind, x.from[1], x.from[2], x.to[1], x.to[2])
      BY DEF TablesInv, IsEdge
    <3> QED BY <3>1, <3>2
  <2> HIDE DEF T
  <2>3. f \in [DOMAIN edges -> T]
    BY <2>1
  <2> HIDE DEF f
  <2> QED BY <2>2, <2>3 DEF Injection, IsInjective
<1> HIDE DEF f, T
<1> QED BY <1>1, <1>2, FS_Injection

\* What is loaded of the processes.
LEMMA LoadedProcesses ==
  ASSUME TablesInv
  PROVE  /\ DOMAIN LoadGraph.processes = Ids("process", DOMAIN nodes)
         /\ DOMAIN LoadGraph.edges = DOMAIN edges
         /\ \A k \in DOMAIN LoadGraph.processes : LoadGraph.processes[k].ppid = Ppid(k)
<1>1. /\ LoadGraph.processes = [k \in Ids("process", DOMAIN nodes) |-> LoadedProcess(k)]
      /\ DOMAIN LoadGraph.edges = DOMAIN edges
  BY DEF LoadGraph, Loaded
<1>2. ASSUME NEW k \in Ids("process", DOMAIN nodes)  PROVE LoadedProcess(k).ppid = Ppid(k)
  <2>1. <<"process", k>> \in DOMAIN nodes
    BY IdsAreKeys
  <2>2. nodes[<<"process", k>>].attrs.ppid = Ppid(k)
    <3> DEFINE n == <<"process", k>>
    <3>1. n[1] = "process" /\ n[2] = k
      OBVIOUS
    <3> HIDE DEF n
    <3>2. n \in DOMAIN nodes
      BY <2>1 DEF n
    <3>3. nodes[n].attrs.ppid = Ppid(k)
      BY <3>1, <3>2 DEF TablesInv, IsNode
    <3> QED BY <3>3 DEF n
  <2> QED BY <2>2 DEF LoadedProcess
<1> QED BY <1>1, <1>2

\* All nodes are in the window of all time.
LEMMA WindowOfAllTime ==
  ASSUME TablesInv, NodesInv
  PROVE  InWindow(0, now) = DOMAIN nodes
<1>1. ASSUME NEW n \in DOMAIN nodes  PROVE nodes[n].first <= now /\ nodes[n].last >= 0
  <2>1. IsNode(n, nodes[n])
    BY DEF TablesInv
  <2> QED BY <2>1 DEF IsNode
<1> QED BY <1>1 DEF InWindow

\* The graph of all time is the whole graph, and one of a narrower window has
\* both ends of its edges.
LEMMA WindowsAlwaysAgree ==
  ASSUME TablesInv, NodesInv, NoDanglingEdge
  PROVE  WindowsAgree
<1>1. GraphInWindow(0, now) = LoadGraph
  <2>1. {e \in DOMAIN edges : Ends(e) \subseteq DOMAIN nodes} = DOMAIN edges
    BY DEF NoDanglingEdge
  <2> QED BY <2>1, WindowOfAllTime DEF GraphInWindow, LoadGraph
<1>2. ASSUME NEW from \in 0..now, NEW to \in 0..now,
             NEW e \in DOMAIN GraphInWindow(from, to).edges, e.to[1] = "process"
      PROVE  e.to[2] \in DOMAIN GraphInWindow(from, to).processes
  <2> DEFINE N == InWindow(from, to)
  <2>1. DOMAIN GraphInWindow(from, to).edges = {x \in DOMAIN edges : Ends(x) \subseteq N}
    BY DEF GraphInWindow, Loaded
  <2>2. DOMAIN GraphInWindow(from, to).processes = Ids("process", N)
    BY DEF GraphInWindow, Loaded
  <2>3. e.to \in N
    BY <2>1 DEF Ends
  <2> QED BY <1>2, <2>2, <2>3 DEF Ids
<1> QED BY <1>1, <1>2 DEF WindowsAgree

\* What is reported as new has a baseline, and was not in it.
LEMMA NoveltyIsAlwaysNew ==
  ASSUME TablesInv, NodesInv, now \in Nat
  PROVE  NoveltyIsNew
<1> SUFFICES ASSUME NEW since \in 1..now, Novelty(since) # {}
             PROVE  /\ InWindow(0, since - NoveltyBaseline) # {}
                    /\ \A i \in Novelty(since) : Sightings(i) \cap InWindow(0, since - 1) = {}
  BY DEF NoveltyIsNew
<1>1. ~ BaselineIsCold(since) /\ Novelty(since) = NovelSince(since)
  BY DEF Novelty
<1>2. ASSUME NEW N \in SUBSET DOMAIN nodes, N # {}
      PROVE  /\ \E n \in N : nodes[n].first = FirstSeen(N)
             /\ \A n \in N : FirstSeen(N) <= nodes[n].first
             /\ FirstSeen(N) \in Nat
  <2> DEFINE F == {nodes[n].first : n \in N}
  <2>1. F \in SUBSET Nat /\ F # {}
    BY <1>2 DEF NodesInv
  <2>2. Min(F) \in F /\ \A x \in F : Min(F) <= x
    <3> HIDE DEF F
    <3> QED BY <2>1, MinOfNats
  <2>3. FirstSeen(N) = Min(F)
    BY DEF FirstSeen
  <2> QED BY <2>1, <2>2, <2>3
<1>3. PICK i \in NovelSince(since) : TRUE
  BY <1>1
<1>4. DOMAIN nodes # {}
  BY <1>3 DEF NovelSince, Known
<1>5. InWindow(0, since - NoveltyBaseline) # {}
  <2>1. PICK n \in DOMAIN nodes : nodes[n].first = FirstSeen(DOMAIN nodes)
    BY <1>2, <1>4
  <2>2. ~ (FirstSeen(DOMAIN nodes) > since - NoveltyBaseline)
    BY <1>1 DEF BaselineIsCold
  <2>3. nodes[n].first <= since - NoveltyBaseline
    BY <1>2, <1>4, <2>1, <2>2, QueriesAssumption
  <2>4. nodes[n].last >= 0
    BY DEF TablesInv, IsNode
  <2> QED BY <2>3, <2>4 DEF InWindow
<1>6. ASSUME NEW j \in NovelSince(since)
      PROVE  Sightings(j) \cap InWindow(0, since - 1) = {}
  <2>1. Sightings(j) \in SUBSET DOMAIN nodes /\ Sightings(j) # {}
    BY DEF NovelSince, Known, Sightings
  <2>2. FirstSeen(Sightings(j)) >= since
    BY DEF NovelSince
  <2>3. ASSUME NEW n \in Sightings(j), nodes[n].first <= since - 1  PROVE FALSE
    <3>1. FirstSeen(Sightings(j)) <= nodes[n].first /\ FirstSeen(Sightings(j)) \in Nat
      BY <1>2, <2>1
    <3>2. nodes[n].first \in Nat
      BY <2>1 DEF NodesInv
    <3> QED BY <2>2, <2>3, <3>1, <3>2
  <2> QED BY <2>3 DEF InWindow
<1> QED BY <1>1, <1>5, <1>6

\* A walk of one edge upward from a process is an edge that leads to it.
LEMMA ParentWalks ==
  ASSUME TablesInv, NoDanglingEdge, NEW k
  PROVE  Ancestors(k, 1) =
           {Append(<< <<"process", k>> >>, e.from) :
              e \in {x \in OfKind("parent_of") : x.to = <<"process", k>>}}
<1> DEFINE start == << <<"process", k>> >>
           P == OfKind("parent_of")
           Step(walks, d) ==
             IF d = 0 THEN {start}
             ELSE {Append(x[1], x[2].from) :
                     x \in {y \in walks[d - 1] \X P : y[2].to = Last(y[1])}}
           walks == CHOOSE w : w = [d \in 0..1 |-> Step(w, d)]
           up == {Append(start, e.from) : e \in {x \in P : x.to = <<"process", k>>}}
<1>1. Last(start) = <<"process", k>>
  BY DEF Last
<1>2. {Append(x[1], x[2].from) : x \in {y \in {start} \X P : y[2].to = Last(y[1])}} = up
  <2>1. ASSUME NEW y \in {start} \X P
        PROVE  /\ y[1] = start /\ y[2] \in P
               /\ y[2].to = Last(y[1]) <=> y[2].to = <<"process", k>>
    BY <1>1
  <2>2. ASSUME NEW e \in P
        PROVE  \E y \in {start} \X P : y[1] = start /\ y[2] = e
    <3>1. <<start, e>> \in {start} \X P
      OBVIOUS
    <3> QED BY <3>1
  <2> HIDE DEF start, P
  <2> QED BY <2>1, <2>2
<1>3. \E w : w = [d \in 0..1 |-> Step(w, d)]
  <2> DEFINE w == [d \in 0..1 |-> IF d = 0 THEN {start} ELSE up]
  <2>1. ASSUME NEW d \in 0..1  PROVE w[d] = Step(w, d)
    <3>1. CASE d = 0
      BY <3>1
    <3>2. CASE d # 0
      <4>1. d - 1 = 0 /\ w[d - 1] = {start} /\ w[d] = up
        BY <3>2
      <4> HIDE DEF w, start, up
      <4> QED BY <1>2, <3>2, <4>1
    <3> QED BY <3>1, <3>2
  <2>2. w = [d \in 0..1 |-> w[d]]
    OBVIOUS
  <2> HIDE DEF w, Step
  <2>3. w = [d \in 0..1 |-> Step(w, d)]
    BY <2>1, <2>2
  <2> QED BY <2>3
<1>4. walks = [d \in 0..1 |-> Step(walks, d)]
  <2> HIDE DEF Step
  <2> QED BY <1>3
<1>5. Ancestors(k, 1) =
        {w \in UNION {walks[d] : d \in 1..1} : Last(w) \in DOMAIN nodes}
  BY DEF Ancestors
<1> HIDE DEF walks
<1>6. walks[0] = {start}
  <2>1. 0 \in 0..1
    OBVIOUS
  <2>2. walks[0] = Step(walks, 0)
    <3> HIDE DEF Step
    <3> QED BY <1>4, <2>1
  <2> QED BY <2>2
<1>7. walks[1] = up
  <2>1. 1 \in 0..1 /\ 1 - 1 = 0
    OBVIOUS
  <2>2. walks[1] = Step(walks, 1)
    <3> HIDE DEF Step
    <3> QED BY <1>4, <2>1
  <2>3. Step(walks, 1) =
          {Append(x[1], x[2].from) : x \in {y \in {start} \X P : y[2].to = Last(y[1])}}
    BY <1>6, <2>1
  <2> QED BY <1>2, <2>2, <2>3
<1>8. UNION {walks[d] : d \in 1..1} = up
  <2>1. \A d : d \in 1..1 <=> d = 1
    OBVIOUS
  <2> HIDE DEF up
  <2> QED BY <1>7, <2>1
<1>9. ASSUME NEW w \in up  PROVE Last(w) \in DOMAIN nodes
  <2>1. PICK e \in P : w = Append(start, e.from)
    OBVIOUS
  <2>2. Last(w) = e.from
    BY <2>1 DEF Last
  <2> QED BY <2>2, JoinedIsAll
<1> QED BY <1>5, <1>8, <1>9

\* The last process of such a walk is the parent.
LEMMA LastOfWalk ==
  ASSUME NEW k, NEW n
  PROVE  Last(Append(<< <<"process", k>> >>, n)) = n
BY DEF Last

\* The parent found by its edge is the one found by its pid.
LEMMA ParentsAlwaysAgree ==
  ASSUME TablesInv, NoDanglingEdge
  PROVE  ParentsAgree
<1> DEFINE P == OfKind("parent_of")
           K == Ids("process", DOMAIN nodes)
           Walk(k, e) == Append(<< <<"process", k>> >>, e.from)
<1>1. ASSUME NEW k
      PROVE  /\ \A w \in Ancestors(k, 1) :
                  \E e \in P : e.to = <<"process", k>> /\ Last(w) = e.from
             /\ \A e \in P : e.to = <<"process", k>> =>
                  \E w \in Ancestors(k, 1) : Last(w) = e.from
  <2>1. ASSUME NEW w \in Ancestors(k, 1)
        PROVE  \E e \in P : e.to = <<"process", k>> /\ Last(w) = e.from
    <3>1. PICK e \in P : e.to = <<"process", k>> /\ w = Walk(k, e)
      BY ParentWalks
    <3> QED BY <3>1, LastOfWalk
  <2>2. ASSUME NEW e \in P, e.to = <<"process", k>>
        PROVE  \E w \in Ancestors(k, 1) : Last(w) = e.from
    <3>1. Walk(k, e) \in Ancestors(k, 1)
      BY <2>2, ParentWalks
    <3> QED BY <3>1, LastOfWalk
  <2> QED BY <2>1, <2>2
<1>2. \A e \in P : e.to = <<"process", e.to[2]>> /\ e.to[2] \in K /\ e.from[2] \in K
  BY JoinedIsAll, AllAreSeen
<1>3. ASSUME NEW k, NEW e \in P, e.to = <<"process", k>>  PROVE e.to[2] = k
  BY <1>3
<1>4. ParentsWithManyChildren(1, 0) = {e.from[2] : e \in P}
  <2> DEFINE Of(p) == {e \in Joined("parent_of") :
                         e.from[2] = p /\ e.to[2] \in SeenProcesses(0)}
  <2>1. ASSUME NEW p
        PROVE  /\ IsFiniteSet(Of(p)) /\ Cardinality(Of(p)) \in Nat
               /\ Of(p) = {e \in P : e.from[2] = p}
    <3>1. Of(p) = {e \in P : e.from[2] = p}
      BY JoinedIsAll
    <3>2. Of(p) \in SUBSET DOMAIN edges
      BY <3>1 DEF OfKind
    <3> QED BY <3>1, <3>2, EdgesAreFinite, FS_Subset, FS_CardinalityType
  <2>2. \A p : 1 <= Cardinality(Of(p)) <=> \E e \in P : e.from[2] = p
    <3> SUFFICES ASSUME NEW p
                 PROVE  1 <= Cardinality(Of(p)) <=> \E e \in P : e.from[2] = p
      OBVIOUS
    <3>1. Cardinality(Of(p)) = 0 <=> Of(p) = {}
      BY <2>1, FS_EmptySet
    <3>2. Of(p) = {} <=> ~ \E e \in P : e.from[2] = p
      BY <2>1
    <3>3. Cardinality(Of(p)) \in Nat
      BY <2>1
    <3> HIDE DEF Of
    <3> QED BY <3>1, <3>2, <3>3
  <2>3. ParentsWithManyChildren(1, 0) = {p \in K : 1 <= Cardinality(Of(p))}
    BY DEF ParentsWithManyChildren
  <2> HIDE DEF Of, P, K
  <2> QED BY <1>2, <2>2, <2>3
<1>5. {Last(w)[2] : w \in UNION {Ancestors(k, 1) : k \in K}} = {e.from[2] : e \in P}
  <2>1. ASSUME NEW k \in K, NEW w \in Ancestors(k, 1)
        PROVE  \E e \in P : Last(w)[2] = e.from[2]
    BY <1>1
  <2>2. ASSUME NEW e \in P
        PROVE  \E k \in K : \E w \in Ancestors(k, 1) : Last(w)[2] = e.from[2]
    BY <1>1, <1>2
  <2> HIDE DEF P, K
  <2> QED BY <2>1, <2>2
<1>6. DOMAIN LoadGraph.processes = K
  BY LoadedProcesses
<1>7. RootUnderUserParent(0) = {k \in SeenProcesses(0) : \E w \in Ancestors(k, 1) :
                                  IsRoot(k) /\ ~IsRoot(Last(w)[2])}
  <2>1. RootUnderUserParent(0) =
          {e.to[2] : e \in {x \in P : IsRoot(x.to[2]) /\ ~IsRoot(x.from[2])}}
    <3>1. \A x \in P : x.to[2] \in SeenProcesses(0)
      BY JoinedIsAll
    <3>2. Joined("parent_of") = P
      BY JoinedIsAll
    <3> QED BY <3>1, <3>2 DEF RootUnderUserParent
  <2>2. ASSUME NEW k \in K, NEW w \in Ancestors(k, 1), IsRoot(k), ~IsRoot(Last(w)[2])
        PROVE  \E e \in P : k = e.to[2] /\ IsRoot(e.to[2]) /\ ~IsRoot(e.from[2])
    <3>1. PICK e \in P : e.to = <<"process", k>> /\ Last(w) = e.from
      BY <1>1
    <3>2. e.to[2] = k
      BY <1>3, <3>1
    <3> QED BY <2>2, <3>1, <3>2
  <2>3. ASSUME NEW e \in P, IsRoot(e.to[2]), ~IsRoot(e.from[2])
        PROVE  \E w \in Ancestors(e.to[2], 1) : ~IsRoot(Last(w)[2])
    <3>1. PICK w \in Ancestors(e.to[2], 1) : Last(w) = e.from
      BY <1>1, <1>2
    <3> QED BY <2>3, <3>1
  <2>4. SeenProcesses(0) = K
    BY AllAreSeen
  <2> HIDE DEF P, K
  <2> QED BY <1>2, <2>1, <2>2, <2>3, <2>4
<1> QED BY <1>4, <1>5, <1>6, <1>7 DEF ParentsAgree

\* The processes that asked for a domain, and the rows of its edges.
LEMMA DomainsAlwaysAgree ==
  ASSUME TablesInv, NoDanglingEdge
  PROVE  DomainsAgree
<1> DEFINE Q == OfKind("queried_domain")
<1> SUFFICES ASSUME NEW d
             PROVE  Cardinality({e.from : e \in {x \in Q : x.to[2] = d}}) =
                    Cardinality({r \in EdgeRates("queried_domain") : r.to = d})
  <2> DEFINE Asking(d) == Cardinality({e.from : e \in {x \in Q : x.to[2] = d}})
  <2>1. ASSUME NEW t \in TopDomains  PROVE t.processes = Asking(t.name)
    <3>1. PICK d \in Ids("domain", DOMAIN nodes) :
            t = [name |-> d, queries |-> nodes[<<"domain", d>>].attrs.queries,
                 processes |-> Asking(d)]
      BY DEF TopDomains
    <3> HIDE DEF Asking
    <3> QED BY <3>1
  <2> QED BY <2>1 DEF DomainsAgree
<1> DEFINE E == {x \in Q : x.to[2] = d}
           R(e) == [from |-> e.from[2], to |-> e.to[2], count |-> edges[e].count,
                    first |-> edges[e].first, last |-> edges[e].last]
           A == {e.from : e \in E}
           B == {r \in EdgeRates("queried_domain") : r.to = d}
           f == [e \in E |-> e.from]
           g == [e \in E |-> R(e)]
<1>1. IsFiniteSet(E)
  <2>1. E \in SUBSET DOMAIN edges
    BY DEF OfKind
  <2> QED BY <2>1, EdgesAreFinite, FS_Subset
<1>2. ASSUME NEW e \in E, NEW x \in E, e.from[2] = x.from[2]  PROVE e = x
  <2>1. /\ e.kind = "queried_domain" /\ x.kind = "queried_domain"
        /\ e.to[2] = x.to[2] /\ IsEdge(e) /\ IsEdge(x)
    BY DEF OfKind, TablesInv
  <2>2. e.from[1] = x.from[1] /\ e.to[1] = x.to[1]
    BY <2>1 DEF IsEdge
  <2>3. /\ e = Edge(e.kind, e.from[1], e.from[2], e.to[1], e.to[2])
        /\ x = Edge(x.kind, x.from[1], x.from[2], x.to[1], x.to[2])
    BY <2>1 DEF IsEdge
  <2> QED BY <1>2, <2>1, <2>2, <2>3
<1>3. B = {R(e) : e \in E}
  <2>1. EdgeRates("queried_domain") = {R(e) : e \in Q}
    BY DEF EdgeRates
  <2>2. \A e \in Q : R(e).to = e.to[2]
    OBVIOUS
  <2> HIDE DEF Q, R
  <2> QED BY <2>1, <2>2
<1>4. f \in Surjection(E, A) /\ f \in Injection(E, A)
  <2>1. \A e \in E : f[e] = e.from /\ f[e] \in A
    OBVIOUS
  <2>2. \A a \in A : \E e \in E : f[e] = a
    OBVIOUS
  <2>3. f \in [E -> A]
    BY <2>1
  <2>4. \A e, x \in E : f[e] = f[x] => e = x
    <3> SUFFICES ASSUME NEW e \in E, NEW x \in E, e.from = x.from  PROVE e = x
      BY <2>1
    <3> QED BY <1>2
  <2> HIDE DEF f, E, A
  <2> QED BY <2>2, <2>3, <2>4 DEF Surjection, Injection, IsInjective
<1>5. g \in Surjection(E, B) /\ g \in Injection(E, B)
  <2>1. \A e \in E : g[e] = R(e) /\ R(e) \in B
    <3> HIDE DEF R, B
    <3> QED BY <1>3
  <2>2. \A b \in B : \E e \in E : g[e] = b
    <3> HIDE DEF R, B
    <3> QED BY <1>3
  <2>3. g \in [E -> B]
    <3> HIDE DEF R, B
    <3> QED BY <2>1
  <2>4. \A e, x \in E : g[e] = g[x] => e = x
    <3> SUFFICES ASSUME NEW e \in E, NEW x \in E, R(e) = R(x)  PROVE e = x
      BY <2>1
    <3>1. R(e).from = e.from[2] /\ R(x).from = x.from[2]
      OBVIOUS
    <3> QED BY <1>2, <3>1
  <2> HIDE DEF g, E, B, R
  <2> QED BY <2>2, <2>3, <2>4 DEF Surjection, Injection, IsInjective
<1> HIDE DEF f, g, E, A, B
<1>6. Cardinality(A) = Cardinality(E) /\ Cardinality(B) = Cardinality(E)
  BY <1>1, <1>4, <1>5, FS_Surjection
<1> QED BY <1>6 DEF A, B, E

\* Each socket is a connection of one endpoint.
LEMMA EndpointsAlwaysAddUp ==
  ASSUME TablesInv
  PROVE  EndpointsAddUp
<1> DEFINE S == Ids("socket", DOMAIN nodes)
           N == {n \in DOMAIN nodes : n[1] = "socket"}
           At(a) == {s \in S : Remote(s) = a}
           A == {Remote(s) : s \in S}
           Asking(a) == {nodes[<<"socket", s>>].attrs.pid : s \in At(a)} \ {NoTime}
           Row0(a) == [address |-> a, processes |-> Cardinality(Asking(a)),
                       connections |-> Cardinality(At(a))]
           T == TopEndpoints
           counts == [r \in T |-> r.connections]
           parts == [r \in T |-> At(r.address)]
<1>1. IsFiniteSet(N) /\ IsFiniteSet(S) /\ Cardinality(S) = Cardinality(N)
  <2> DEFINE f == [n \in N |-> n[2]]
  <2>1. IsFiniteSet(N)
    <3>1. N \in SUBSET DOMAIN nodes
      OBVIOUS
    <3> QED BY <3>1, FS_Subset DEF TablesInv
  <2>2. S = {n[2] : n \in N}
    BY DEF Ids
  <2>3. f \in Surjection(N, S)
    <3>1. f \in [N -> S] /\ \A s \in S : \E n \in N : f[n] = s
      <4> HIDE DEF S, N
      <4> QED BY <2>2
    <3> HIDE DEF f, S, N
    <3> QED BY <3>1 DEF Surjection
  <2>4. \A m, n \in N : f[m] = f[n] => m = n
    <3> SUFFICES ASSUME NEW m \in N, NEW n \in N, m[2] = n[2]  PROVE m = n
      OBVIOUS
    <3>1. m = <<m[1], m[2]>> /\ n = <<n[1], n[2]>> /\ m[1] = n[1]
      BY DEF TablesInv, IsNode
    <3> QED BY <3>1
  <2> HIDE DEF f, S, N
  <2>5. f \in Injection(N, S)
    BY <2>3, <2>4 DEF Injection, IsInjective, Surjection
  <2> QED BY <2>1, <2>3, <2>5, FS_Surjection
<1>2. T = {Row0(a) : a \in A}
  BY DEF TopEndpoints
<1>3. ASSUME NEW r \in T
      PROVE  r.address \in A /\ r = Row0(r.address) /\ r.connections = Cardinality(At(r.address))
  <2>1. PICK a \in A : r = Row0(a)
    BY <1>2
  <2> HIDE DEF A, At, Asking
  <2>2. Row0(a).address = a /\ Row0(a).connections = Cardinality(At(a))
    OBVIOUS
  <2> QED BY <2>1, <2>2
<1>4. IsFiniteSet(T)
  <2> DEFINE f == [s \in S |-> Row0(Remote(s))]
  <2>1. f \in Surjection(S, T)
    <3>1. /\ \A s \in S : f[s] = Row0(Remote(s)) /\ f[s] \in T
          /\ \A r \in T : \E s \in S : f[s] = r
      <4> HIDE DEF Row0, S, T
      <4> QED BY <1>2
    <3>2. f \in [S -> T]
      <4> HIDE DEF Row0, S, T
      <4> QED BY <3>1
    <3> HIDE DEF f, S, T
    <3> QED BY <3>1, <3>2 DEF Surjection
  <2> HIDE DEF f, S, T
  <2> QED BY <1>1, <2>1, FS_Surjection
<1>5. \A r \in T : IsFiniteSet(parts[r])
  <2> SUFFICES ASSUME NEW r \in T  PROVE IsFiniteSet(parts[r])
    OBVIOUS
  <2>1. parts[r] = At(r.address) /\ At(r.address) \in SUBSET S
    OBVIOUS
  <2> HIDE DEF parts, At, S
  <2> QED BY <1>1, <2>1, FS_Subset
<1>6. \A r, q \in T : r = q \/ parts[r] \cap parts[q] = {}
  <2> SUFFICES ASSUME NEW r \in T, NEW q \in T, r # q  PROVE parts[r] \cap parts[q] = {}
    OBVIOUS
  <2>1. r.address # q.address
    <3> HIDE DEF Row0, T, A, At
    <3> QED BY <1>3
  <2>2. parts[r] = At(r.address) /\ parts[q] = At(q.address)
    OBVIOUS
  <2> HIDE DEF parts, T
  <2> QED BY <2>1, <2>2
<1>7. \A r \in T : counts[r] = Cardinality(parts[r])
  <2> HIDE DEF T, A, At, Row0
  <2> QED BY <1>3
<1>8. UNION {parts[r] : r \in T} = S
  <2>1. \A r \in T : parts[r] \subseteq S
    OBVIOUS
  <2>2. ASSUME NEW s \in S  PROVE \E r \in T : s \in parts[r]
    <3>1. Row0(Remote(s)) \in T /\ Row0(Remote(s)).address = Remote(s)
      <4>1. Row0(Remote(s)) \in T
        <5> HIDE DEF Row0, T
        <5> QED BY <1>2
      <4>2. Row0(Remote(s)).address = Remote(s)
        <5> HIDE DEF At, Asking
        <5> QED OBVIOUS
      <4> QED BY <4>1, <4>2
    <3>2. s \in At(Remote(s))
      OBVIOUS
    <3> HIDE DEF Row0, T, At, S
    <3> QED BY <3>1, <3>2
  <2> HIDE DEF parts, T, S
  <2> QED BY <2>1, <2>2
<1>9. Total(counts) = SumOver(counts, T)
  <2>1. DOMAIN counts = T
    OBVIOUS
  <2> HIDE DEF counts, T
  <2> QED BY <2>1 DEF Total
<1>10. SumOver(counts, T) = Cardinality(S)
  <2> HIDE DEF counts, parts, T, S
  <2>1. SumOver(counts, T) = Cardinality(UnionOver(parts, T))
    BY <1>4, <1>5, <1>6, <1>7, CountsAddUp
  <2> QED BY <1>8, <2>1 DEF UnionOver
<1>11. (IF "socket" \in DOMAIN Summary.nodes THEN Summary.nodes["socket"] ELSE 0) = Cardinality(N)
  <2>1. Summary.nodes = [k \in {n[1] : n \in DOMAIN nodes} |->
                           Cardinality({n \in DOMAIN nodes : n[1] = k})]
    BY DEF Summary
  <2>2. CASE N = {}
    <3>1. "socket" \notin DOMAIN Summary.nodes
      BY <2>1, <2>2
    <3> QED BY <2>2, <3>1, FS_EmptySet
  <2>3. CASE N # {}
    <3>1. "socket" \in DOMAIN Summary.nodes /\ Summary.nodes["socket"] = Cardinality(N)
      BY <2>1, <2>3
    <3> QED BY <3>1
  <2> QED BY <2>2, <2>3
<1> HIDE DEF counts, T, S, N
<1>12. Total([r \in TopEndpoints |-> r.connections]) = Total(counts)
  BY DEF counts, T
<1> QED BY <1>1, <1>9, <1>10, <1>11, <1>12 DEF EndpointsAddUp

\* Who was seen since a time was seen since an earlier one, and those with many
\* children since then had them already.
LEMMA LongerWindows ==
  ASSUME TablesInv, NoDanglingEdge, NEW since \in Int, NEW earlier \in Int, earlier <= since,
         NEW atLeast \in Nat
  PROVE  /\ SeenProcesses(since) \subseteq SeenProcesses(earlier)
         /\ OutsidePaths(since) \subseteq OutsidePaths(earlier)
         /\ RootUnderUserParent(since) \subseteq RootUnderUserParent(earlier)
         /\ ParentsWithManyChildren(atLeast, since) \subseteq
              ParentsWithManyChildren(atLeast, earlier)
<1>1. SeenProcesses(since) \subseteq SeenProcesses(earlier)
  <2> SUFFICES ASSUME NEW k \in SeenProcesses(since)  PROVE k \in SeenProcesses(earlier)
    OBVIOUS
  <2>1. k \in Ids("process", DOMAIN nodes) /\ nodes[<<"process", k>>].last >= since
    BY DEF SeenProcesses
  <2>2. <<"process", k>> \in DOMAIN nodes
    BY <2>1, IdsAreKeys
  <2>3. nodes[<<"process", k>>].last \in Nat
    BY <2>2 DEF TablesInv, IsNode
  <2>4. nodes[<<"process", k>>].last >= earlier
    BY <2>1, <2>3
  <2> QED BY <2>1, <2>4 DEF SeenProcesses
<1>2. OutsidePaths(since) \subseteq OutsidePaths(earlier)
  BY <1>1 DEF OutsidePaths
<1>3. RootUnderUserParent(since) \subseteq RootUnderUserParent(earlier)
  BY <1>1 DEF RootUnderUserParent
<1>4. ASSUME NEW p \in ParentsWithManyChildren(atLeast, since)
      PROVE  p \in ParentsWithManyChildren(atLeast, earlier)
  <2> DEFINE Of(from) == {e \in Joined("parent_of") :
                            e.from[2] = p /\ e.to[2] \in SeenProcesses(from)}
  <2>1. p \in Ids("process", DOMAIN nodes) /\ atLeast <= Cardinality(Of(since))
    BY DEF ParentsWithManyChildren
  <2>2. Of(earlier) \in SUBSET DOMAIN edges /\ Of(since) \in SUBSET Of(earlier)
    BY <1>1 DEF Joined, OfKind
  <2> HIDE DEF Of
  <2>3. IsFiniteSet(Of(earlier)) /\ IsFiniteSet(Of(since))
    BY <2>2, EdgesAreFinite, FS_Subset
  <2>4. /\ Cardinality(Of(since)) <= Cardinality(Of(earlier))
        /\ Cardinality(Of(since)) \in Nat /\ Cardinality(Of(earlier)) \in Nat
    BY <2>2, <2>3, FS_Subset, FS_CardinalityType
  <2>5. atLeast <= Cardinality(Of(earlier))
    BY <2>1, <2>4
  <2> QED BY <2>1, <2>5 DEF ParentsWithManyChildren, Of
<1> QED BY <1>1, <1>2, <1>3, <1>4

\* The earlier the anomaly queries begin, the more they flag.
LEMMA FlagsAlwaysGrow ==
  ASSUME TablesInv, NoDanglingEdge, now \in Nat
  PROVE  FlagsOnlyGrow
<1> DEFINE flags == [since \in 0..now |-> FlagsOf(since)]
<1>1. ASSUME NEW since \in 1..now
      PROVE  /\ flags[since].escalated \subseteq flags[since - 1].escalated
             /\ flags[since].untrusted \subseteq flags[since - 1].untrusted
             /\ flags[since].prolific \subseteq flags[since - 1].prolific
  <2>1. since \in 0..now /\ since - 1 \in 0..now /\ since \in Int /\ since - 1 \in Int
        /\ since - 1 <= since
    OBVIOUS
  <2>2. flags[since] = FlagsOf(since) /\ flags[since - 1] = FlagsOf(since - 1)
    BY <2>1
  <2> HIDE DEF flags
  <2>3. Prolific \in Nat
    BY AnomalyAssumption
  <2>4. /\ OutsidePaths(since) \subseteq OutsidePaths(since - 1)
        /\ RootUnderUserParent(since) \subseteq RootUnderUserParent(since - 1)
        /\ ParentsWithManyChildren(Prolific, since) \subseteq
             ParentsWithManyChildren(Prolific, since - 1)
    BY <2>1, <2>3, LongerWindows
  <2> QED BY <2>2, <2>4 DEF FlagsOf
<1>2. Pids(flags[0].escalated) \subseteq StoreCandidates.escalated
  <2>1. flags[0] = FlagsOf(0)
    OBVIOUS
  <2> HIDE DEF flags
  <2> QED BY <2>1 DEF FlagsOf, StoreCandidates, Pids
<1> HIDE DEF flags
<1>3. \A since \in 1..now, c \in {"escalated", "untrusted", "prolific"} :
        flags[since][c] \subseteq flags[since - 1][c]
  BY <1>1
<1> QED BY <1>2, <1>3 DEF FlagsOnlyGrow, flags

\* Whether two processes of a graph share a pid.
LEMMA PidsTellApart ==
  ASSUME NEW K, IsFiniteSet(K), ~ (Cardinality(Pids(K)) < Cardinality(K)),
         NEW j \in K, NEW k \in K, j[1] = k[1]
  PROVE  j = k
<1> DEFINE f == [x \in K |-> x[1]]
<1>1. f \in Surjection(K, Pids(K))
  <2>1. \A x \in K : f[x] = x[1] /\ f[x] \in Pids(K)
    BY DEF Pids
  <2>2. \A pid \in Pids(K) : \E x \in K : f[x] = pid
    BY DEF Pids
  <2>3. f \in [K -> Pids(K)]
    BY <2>1
  <2> HIDE DEF f
  <2> QED BY <2>2, <2>3 DEF Surjection
<1>2. f[j] = f[k]
  OBVIOUS
<1> HIDE DEF f
<1>3. IsFiniteSet(Pids(K)) /\ Cardinality(Pids(K)) <= Cardinality(K)
  BY <1>1, FS_Surjection
<1>4. Cardinality(Pids(K)) \in Nat /\ Cardinality(K) \in Nat
  BY <1>3, FS_CardinalityType
<1>5. Cardinality(K) = Cardinality(Pids(K))
  BY <1>3, <1>4
<1>6. f \in Injection(K, Pids(K))
  BY <1>1, <1>5, FS_SurjSameCardinalityImpliesInj
<1> QED BY <1>2, <1>6 DEF Injection, IsInjective

\* The criteria on the tables and on the graph.
LEMMA TablesAlwaysMatch ==
  ASSUME TablesInv, NoDanglingEdge
  PROVE  TablesMatchGraph
<1> DEFINE K == Ids("process", DOMAIN nodes)
           P == OfKind("parent_of")
           reused == Cardinality(Pids(K)) < Cardinality(K)
           Children(pid) == {e \in P : e.from[2][1] = pid}
           Of(p) == {e \in P : e.from[2] = p}
<1>1. /\ DOMAIN LoadGraph.processes = K /\ DOMAIN LoadGraph.edges = DOMAIN edges
      /\ \A k \in K : LoadGraph.processes[k].ppid = Ppid(k)
  BY LoadedProcesses
<1>2. \A e \in P : /\ e.from[2] \in K /\ e.to[2] \in K /\ e.to[2] \in SeenProcesses(0)
                   /\ e.from[2][1] = Ppid(e.to[2])
  BY JoinedIsAll, AllAreSeen DEF PidOf
<1>3. IsFiniteSet(K)
  <2> DEFINE N == {n \in DOMAIN nodes : n[1] = "process"}
             f == [n \in N |-> n[2]]
  <2>1. IsFiniteSet(N)
    <3>1. N \in SUBSET DOMAIN nodes
      OBVIOUS
    <3> QED BY <3>1, FS_Subset DEF TablesInv
  <2>2. K = {n[2] : n \in N}
    BY DEF Ids
  <2>3. f \in [N -> K] /\ \A k \in K : \E n \in N : f[n] = k
    <3> HIDE DEF K, N
    <3> QED BY <2>2
  <2> HIDE DEF f, K, N
  <2>4. f \in Surjection(N, K)
    BY <2>3 DEF Surjection
  <2> QED BY <2>1, <2>4, FS_Surjection
<1>4. ASSUME ~reused, NEW j \in K, NEW k \in K, j[1] = k[1]  PROVE j = k
  <2> HIDE DEF K
  <2> QED BY <1>3, <1>4, PidsTellApart
<1>5. ASSUME NEW pid, NEW p, p[1] = pid
      PROVE  Of(p) \subseteq Children(pid) /\ Cardinality(Of(p)) <= Cardinality(Children(pid))
             /\ Cardinality(Of(p)) \in Nat /\ Cardinality(Children(pid)) \in Nat
  <2>1. Children(pid) \in SUBSET DOMAIN edges
    BY DEF OfKind
  <2>2. Of(p) \in SUBSET Children(pid)
    BY <1>5
  <2> HIDE DEF Of, Children
  <2>3. IsFiniteSet(Children(pid))
    BY <2>1, EdgesAreFinite, FS_Subset
  <2> QED BY <2>2, <2>3, FS_Subset, FS_CardinalityType
<1>6. StoreCandidates.prolific = Pids({p \in K : Prolific <= Cardinality(Of(p))})
  <2>1. \A p : {e \in Joined("parent_of") : e.from[2] = p /\ e.to[2] \in SeenProcesses(0)} = Of(p)
    BY <1>2, JoinedIsAll
  <2> HIDE DEF Of
  <2>2. ParentsWithManyChildren(Prolific, 0) = {p \in K : Prolific <= Cardinality(Of(p))}
    BY <2>1 DEF ParentsWithManyChildren
  <2> QED BY <2>2 DEF StoreCandidates
<1>7. StoreCandidates.escalated =
        Pids({e.to[2] : e \in {x \in P : IsRoot(x.to[2]) /\ ~IsRoot(x.from[2])}})
  <2>1. RootUnderUserParent(0) =
          {e.to[2] : e \in {x \in P : IsRoot(x.to[2]) /\ ~IsRoot(x.from[2])}}
    <3>1. Joined("parent_of") = P
      BY JoinedIsAll
    <3> QED BY <1>2, <3>1 DEF RootUnderUserParent
  <2> QED BY <2>1 DEF StoreCandidates
<1>8. StoreCandidates.untrusted = Pids({k \in K : Program(k) \notin TrustedProgram})
  <2>1. OutsidePaths(0) = {k \in K : Program(k) \notin TrustedProgram}
    BY AllAreSeen DEF OutsidePaths
  <2> QED BY <2>1 DEF StoreCandidates
<1> SUFFICES ASSUME NEW parent \in ByPids(LoadGraph)
             PROVE  LET g == GraphCandidates(LoadGraph, parent)
                    IN /\ StoreCandidates.untrusted = g.untrusted
                       /\ StoreCandidates.prolific \subseteq g.prolific
                       /\ ~reused => StoreCandidates.prolific = g.prolific
                       /\ ~reused => StoreCandidates.escalated \subseteq g.escalated
  BY <1>1 DEF TablesMatchGraph
<1> DEFINE g == GraphCandidates(LoadGraph, parent)
<1>9. /\ g.untrusted = Pids({k \in K : Program(k) \notin TrustedProgram})
      /\ g.prolific = {pid \in Pids(K) : Cardinality(Children(pid)) >= Prolific}
      /\ g.escalated = Pids({k \in K : /\ IsRoot(k)
                                       /\ Ppid(k) \in DOMAIN parent
                                       /\ ~IsRoot(parent[Ppid(k)])})
  <2>1. \A pid : {e \in DOMAIN LoadGraph.edges : e.kind = "parent_of" /\ e.from[2][1] = pid}
                   = Children(pid)
    BY <1>1 DEF OfKind
  <2>2. {k \in K : /\ IsRoot(k)
                   /\ LoadGraph.processes[k].ppid \in DOMAIN parent
                   /\ ~IsRoot(parent[LoadGraph.processes[k].ppid])} =
        {k \in K : /\ IsRoot(k) /\ Ppid(k) \in DOMAIN parent /\ ~IsRoot(parent[Ppid(k)])}
    BY <1>1
  <2> HIDE DEF Children, K
  <2> QED BY <1>1, <2>1, <2>2 DEF GraphCandidates
<1>10. parent \in [Pids(K) -> K] /\ \A pid \in Pids(K) : parent[pid][1] = pid
  BY <1>1 DEF ByPids
<1>11. Prolific \in Nat
  BY AnomalyAssumption
<1> HIDE DEF g, K, P
<1>12. ASSUME NEW p \in K, Prolific <= Cardinality(Of(p))  PROVE p[1] \in g.prolific
  <2>1. p[1] \in Pids(K)
    BY DEF Pids
  <2>2. /\ Cardinality(Of(p)) <= Cardinality(Children(p[1]))
        /\ Cardinality(Of(p)) \in Nat /\ Cardinality(Children(p[1])) \in Nat
    BY <1>5
  <2> HIDE DEF Of, Children
  <2>3. Cardinality(Children(p[1])) >= Prolific
    BY <1>11, <1>12, <2>2
  <2> QED BY <1>9, <2>1, <2>3
<1>13. StoreCandidates.prolific \subseteq g.prolific
  <2> HIDE DEF Of, Children
  <2> QED BY <1>6, <1>12 DEF Pids
<1>14. ASSUME ~reused, NEW pid \in g.prolific  PROVE pid \in StoreCandidates.prolific
  <2>1. PICK p \in K : pid = p[1]
    BY <1>9 DEF Pids
  <2>2. Of(p) = Children(pid)
    <3>1. ASSUME NEW e \in P, e.from[2][1] = pid  PROVE e.from[2] = p
      BY <1>2, <1>4, <1>14, <2>1, <3>1
    <3> QED BY <2>1, <3>1
  <2>3. Cardinality(Of(p)) \in Nat /\ Cardinality(Of(p)) >= Prolific
    <3>1. Cardinality(Of(p)) <= Cardinality(Children(p[1])) /\ Cardinality(Of(p)) \in Nat
      BY <1>5
    <3> HIDE DEF Of, Children
    <3> QED BY <1>9, <2>2, <3>1
  <2> HIDE DEF Of
  <2> QED BY <1>6, <1>11, <2>1, <2>3 DEF Pids
<1>15. ASSUME ~reused, NEW pid \in StoreCandidates.escalated  PROVE pid \in g.escalated
  <2>1. PICK e \in P : pid = e.to[2][1] /\ IsRoot(e.to[2]) /\ ~IsRoot(e.from[2])
    BY <1>7 DEF Pids
  <2>2. /\ e.from[2] \in K /\ e.to[2] \in K /\ e.from[2][1] = Ppid(e.to[2])
    BY <1>2
  <2>3. Ppid(e.to[2]) \in Pids(K)
    BY <2>2 DEF Pids
  <2>4. parent[Ppid(e.to[2])] \in K /\ parent[Ppid(e.to[2])][1] = Ppid(e.to[2])
    BY <1>10, <2>3
  <2>5. parent[Ppid(e.to[2])] = e.from[2]
    BY <1>4, <1>15, <2>2, <2>4
  <2>6. Ppid(e.to[2]) \in DOMAIN parent
    BY <1>10, <2>3
  <2> QED BY <1>9, <2>1, <2>2, <2>5, <2>6 DEF Pids
<1>16. StoreCandidates.untrusted = g.untrusted
  BY <1>8, <1>9
<1> QED BY <1>13, <1>14, <1>15, <1>16 DEF g

\* In tables that QueryInv describes, the queries agree.
LEMMA QueriesAgreeInTables ==
  ASSUME TablesInv, NodesInv, NoDanglingEdge, now \in Nat
  PROVE  QueriesAgree
BY TablesAlwaysMatch, FlagsAlwaysGrow, NoveltyIsAlwaysNew, WindowsAlwaysAgree,
   ParentsAlwaysAgree, DomainsAlwaysAgree, EndpointsAlwaysAddUp DEF QueriesAgree

-----------------------------------------------------------------------------
(* Every step keeps what the queries rest on.                              *)

\* An event brings one node at most, and no other step brings any.
LEMMA FiniteStep ==
  ASSUME BuilderIsFinite, [Next]_vars
  PROVE  BuilderIsFinite'
<1>1. CASE Receive
  <2>1. \E k : /\ DOMAIN processes' \subseteq DOMAIN processes \cup {k}
               /\ DOMAIN apps' \subseteq DOMAIN apps \cup {k}
               /\ DOMAIN sockets' \subseteq DOMAIN sockets \cup {k}
               /\ DOMAIN files' \subseteq DOMAIN files \cup {k}
               /\ DOMAIN domains' \subseteq DOMAIN domains \cup {k}
    <3>1. CASE \E ts : ProcessEvent(ts)
      <4> PICK ts : ProcessEvent(ts)
        BY <3>1
      <4>1. PICK k \in ProcessId : Birth(k, ts) \/ Death(k, ts)
        BY DEF ProcessEvent
      <4> QED BY <4>1 DEF Birth, Death, OnProcessBirth, OnProcessDeath, Put
    <3>2. CASE \E ts : SocketEvent(ts)
      <4> PICK ts : SocketEvent(ts)
        BY <3>2
      <4>1. PICK k \in Socket, pid \in Pid :
              OnConnectionOpened(k, pid, ts) \/ OnConnectionClosed(k, pid, ts)
        BY DEF SocketEvent
      <4> QED BY <4>1 DEF OnConnectionOpened, OnConnectionClosed, Put
    <3>3. CASE \E ts : FileEvent(ts)
      <4> PICK ts : FileEvent(ts)
        BY <3>3
      <4>1. PICK k \in File, flags \in SUBSET Flag, count \in 0..1 :
              OnFileChanged(k, flags, count, ts)
        BY DEF FileEvent
      <4> QED BY <4>1 DEF OnFileChanged, Put
    <3>4. CASE FocusEvent
      <4>1. ASSUME NEW k \in App, OnAppFocus(k, Clock)
            PROVE  /\ DOMAIN apps' \subseteq DOMAIN apps \cup {k}
                   /\ UNCHANGED <<processes, sockets, files, domains>>
        BY <4>1 DEF OnAppFocus, Put, FrontClosed
      <4>2. OnFocusOnNothing(Clock) => UNCHANGED <<processes, apps, sockets, files, domains>>
        BY DEF OnFocusOnNothing, OnObservation
      <4> QED BY <3>4, <4>1, <4>2 DEF FocusEvent
    <3>5. CASE DnsEvent
      <4>1. PICK k \in Domain, masked \in BOOLEAN, pid \in Asker : OnDnsQuery(k, masked, pid, Clock)
        BY <3>5 DEF DnsEvent
      <4> QED BY <4>1 DEF OnDnsQuery, Put
    <3> QED BY <1>1, <3>1, <3>2, <3>3, <3>4, <3>5 DEF Receive
  <2>2. ASSUME NEW S, IsFiniteSet(S), NEW k, NEW T, T \subseteq S \cup {k}
        PROVE  IsFiniteSet(T)
    BY <2>2, FS_AddElement, FS_Subset
  <2> QED BY <2>1, <2>2 DEF BuilderIsFinite
<1>2. CASE Tick
  <2>1. /\ DOMAIN processes' \subseteq DOMAIN processes
        /\ DOMAIN apps' = DOMAIN apps
        /\ DOMAIN sockets' \subseteq DOMAIN sockets
        /\ DOMAIN files' \subseteq DOMAIN files
        /\ DOMAIN domains' \subseteq DOMAIN domains
    BY <1>2 DEF Tick, TrimBefore, Kept, Restrict, builderVars
  <2> QED BY <2>1, FS_Subset DEF BuilderIsFinite
<1>3. CASE Restart
  <2>1. /\ DOMAIN processes' = {} /\ DOMAIN apps' = {} /\ DOMAIN sockets' = {}
        /\ DOMAIN files' = {} /\ DOMAIN domains' = {}
    BY <1>3 DEF Restart, ResetBuilder, Empty
  <2> QED BY <2>1, FS_EmptySet DEF BuilderIsFinite
<1>4. CASE Observe \/ Prune \/ Advance \/ UNCHANGED vars
  <2>1. UNCHANGED <<processes, apps, sockets, files, domains>>
    BY <1>4 DEF Observe, OnObservation, Prune, Advance, vars, builderVars
  <2> QED BY <2>1 DEF BuilderIsFinite
<1> QED BY <1>1, <1>2, <1>3, <1>4 DEF Next

\* A process keeps the parent it was born to.
LEMMA ParentStep ==
  ASSUME ParentsAreKnown, CurrentInv, [Next]_vars
  PROVE  ParentsAreKnown'
<1>1. ASSUME DOMAIN processes' \subseteq DOMAIN processes,
             \A k \in DOMAIN processes' : processes'[k] = processes[k]
      PROVE  ParentsAreKnown'
  BY <1>1 DEF ParentsAreKnown
<1>2. CASE \E ts : ProcessEvent(ts)
  <2> PICK ts : ProcessEvent(ts)
    BY <1>2
  <2> PICK k \in ProcessId : Birth(k, ts) \/ Death(k, ts)
    BY DEF ProcessEvent
  <2>1. CASE Birth(k, ts)
    <3>1. processes' = Put(processes, k, [ppid |-> Ppid(k), birth |-> ts, death |-> None])
      BY <2>1 DEF Birth, OnProcessBirth
    <3> QED BY <3>1 DEF Put, ParentsAreKnown
  <2>2. CASE Death(k, ts) /\ k \notin DOMAIN processes
    <3>1. processes' = Put(processes, k, [ppid |-> Ppid(k), birth |-> ts, death |-> ts])
      BY <2>2 DEF Death, OnProcessDeath
    <3> QED BY <3>1 DEF Put, ParentsAreKnown
  <2>3. CASE Death(k, ts) /\ k \in DOMAIN processes
    <3>1. processes' = [processes EXCEPT ![k].death = ts]
      BY <2>3 DEF Death, OnProcessDeath
    <3>2. IsProcess(processes[k])
      BY <2>3 DEF CurrentInv, WorldTypes
    <3>3. /\ processes'[k].ppid = processes[k].ppid
          /\ DOMAIN processes' = DOMAIN processes
          /\ \A x \in DOMAIN processes \ {k} : processes'[x] = processes[x]
      BY <2>3, <3>1, <3>2 DEF IsProcess
    <3> QED BY <2>3, <3>3 DEF ParentsAreKnown
  <2> QED BY <2>1, <2>2, <2>3
<1>3. CASE Receive
  <2>1. CASE FocusEvent \/ DnsEvent \/ \E ts : SocketEvent(ts) \/ FileEvent(ts)
    <3>1. UNCHANGED processes
      BY <2>1 DEF FocusEvent, OnAppFocus, OnFocusOnNothing, OnObservation, DnsEvent, OnDnsQuery, SocketEvent,
                  OnConnectionOpened, OnConnectionClosed, FileEvent, OnFileChanged
    <3> QED BY <3>1 DEF ParentsAreKnown
  <2> QED BY <1>2, <1>3, <2>1 DEF Receive
<1>4. CASE Tick
  <2>1. /\ DOMAIN processes' \subseteq DOMAIN processes
        /\ \A k \in DOMAIN processes' : processes'[k] = processes[k]
    BY <1>4 DEF Tick, TrimBefore, Kept, Restrict, builderVars
  <2> QED BY <1>1, <2>1
<1>5. CASE Restart
  <2>1. DOMAIN processes' = {}
    BY <1>5 DEF Restart, ResetBuilder, Empty
  <2> QED BY <2>1 DEF ParentsAreKnown
<1>6. CASE Observe \/ Prune \/ Advance \/ UNCHANGED vars
  <2>1. UNCHANGED processes
    BY <1>6 DEF Observe, OnObservation, Prune, Advance, vars, builderVars
  <2> QED BY <2>1 DEF ParentsAreKnown
<1> QED BY <1>3, <1>4, <1>5, <1>6 DEF Next

\* Closing the interval in front leaves where intervals begin.
LEMMA ClosingKeepsBegins ==
  ASSUME AppsInv, FrontInv, NEW ts, NEW a \in DOMAIN apps
  PROVE  /\ FrontClosed(ts)[a] # <<>> /\ Len(FrontClosed(ts)[a]) = Len(apps[a])
         /\ Len(apps[a]) \in Nat \ {0}
         /\ \A i \in 1..Len(apps[a]) : FrontClosed(ts)[a][i].from = apps[a][i].from
<1>1. apps[a] \in Seq(Interval) /\ apps[a] # <<>> /\ Len(apps[a]) \in Nat \ {0}
  BY DEF AppsInv
<1>2. CASE frontmost = Nobody \/ frontmost.app # a
  <2>1. FrontClosed(ts)[a] = apps[a]
    BY <1>2 DEF FrontClosed
  <2> QED BY <1>1, <2>1
<1>3. CASE frontmost # Nobody /\ frontmost.app = a
  <2> DEFINE n == Len(apps[a])
  <2>1. apps[a][n] = [from |-> frontmost.since, to |-> None]
    BY <1>3 DEF FrontInv
  <2>2. FrontClosed(ts)[a] = [apps[a] EXCEPT ![n].to = ts]
    BY <1>1, <1>3, <2>1 DEF FrontClosed, CloseLast, Last
  <2>3. [apps[a][n] EXCEPT !.to = ts].from = apps[a][n].from
    BY <2>1
  <2> QED BY <1>1, <2>2, <2>3
<1> QED BY <1>2, <1>3

\* What the builder has seen, it has seen by now.
LEMMA LaterStep ==
  ASSUME NothingIsLater, TypeInv, SegmentInv, [Next]_vars
  PROVE  NothingIsLater'
<1> USE DEF SegmentInv
<1>0. /\ now \in Nat /\ anchor \in Nat /\ Clock \in Nat /\ None = -1
      /\ \A a \in DOMAIN apps : \A i \in 1..Len(apps[a]) : apps[a][i].from \in Nat
  <2>1. ASSUME NEW a \in DOMAIN apps, NEW i \in 1..Len(apps[a])  PROVE apps[a][i].from \in Nat
    <3>1. apps[a][i] \in Interval
      BY DEF AppsInv
    <3> QED BY <3>1 DEF Interval
  <2> QED BY <2>1 DEF ClockInv, Clock, None
<1>f. \A f \in DOMAIN files : FileSpan(files[f]) /\ files[f].first \in Nat
  BY DEF TypeInv, SpansInv, FileSpan, Span
<1>1. ASSUME Clock' \in Int, Clock <= Clock', UNCHANGED apps,
             DOMAIN files' \subseteq DOMAIN files,
             \A f \in DOMAIN files' : files'[f] = files[f]
      PROVE  NothingIsLater'
  <2>1. ASSUME NEW f \in DOMAIN files'  PROVE files'[f].first <= Clock'
    <3>1. files'[f] = files[f] /\ files[f].first <= Clock /\ files[f].first \in Nat
      BY <1>1, <1>f DEF NothingIsLater
    <3> QED BY <1>0, <1>1, <3>1
  <2>2. ASSUME NEW a \in DOMAIN apps, NEW i \in 1..Len(apps[a])
        PROVE  apps[a][i].from <= Clock'
    <3>1. apps[a][i].from <= Clock /\ apps[a][i].from \in Nat
      BY <1>0 DEF NothingIsLater
    <3> QED BY <1>0, <1>1, <3>1
  <2> QED BY <1>1, <2>1, <2>2 DEF NothingIsLater
<1>2. CASE Receive
  <2>0. Clock' = Clock
    BY <1>2 DEF Receive, Clock
  <2>1. CASE FileEvent(Clock) \/ \E ts \in 0..Clock : FileEvent(ts)
    <3> PICK ts \in 0..Clock : FileEvent(ts)
      BY <1>0, <2>1
    <3> PICK f \in File, flags \in SUBSET Flag, count \in 0..1 : OnFileChanged(f, flags, count, ts)
      BY DEF FileEvent
    <3> DEFINE known == IF f \in DOMAIN files THEN files[f]
                        ELSE [first |-> ts, last |-> ts, touches |-> 0, flags |-> {}]
    <3> DEFINE r == [known EXCEPT !.last = ts, !.touches = @ + count, !.flags = @ \cup flags]
    <3>1. files' = Put(files, f, r) /\ UNCHANGED apps
      BY DEF OnFileChanged
    <3>2. known.first <= Clock
      BY <1>0, <1>f DEF NothingIsLater
    <3>3. r.first = known.first
      OBVIOUS
    <3> HIDE DEF known, r
    <3>4. \A x \in DOMAIN files' : files'[x].first <= Clock
      BY <3>1, <3>2, <3>3 DEF Put, NothingIsLater
    <3> QED BY <2>0, <3>1, <3>4 DEF NothingIsLater
  <2>2. CASE OnFocusOnNothing(Clock)
    <3>1. UNCHANGED <<apps, files>>
      BY <2>2 DEF OnFocusOnNothing, OnObservation
    <3> QED BY <2>0, <3>1 DEF NothingIsLater
  <2>3. CASE \E a \in App : OnAppFocus(a, Clock)
    <3> PICK a \in App : OnAppFocus(a, Clock)
      BY <2>3
    <3> DEFINE closed == FrontClosed(Clock)
               since == IF frontmost.app = a THEN frontmost.since ELSE Clock
               known == IntervalsOf(a, closed)
               x == [from |-> since, to |-> None]
    <3>1. apps' = Put(closed, a, Append(known, x)) /\ UNCHANGED files
      BY DEF OnAppFocus
    <3>2. DOMAIN closed = DOMAIN apps
      BY DEF FrontClosed
    <3>3. since <= Clock
      <4>1. CASE frontmost.app # a
        BY <1>0, <4>1
      <4>2. CASE frontmost.app = a
        <5>1. frontmost # Nobody
          BY <4>2, WorldAssumption DEF Nobody
        <5>2. /\ a \in DOMAIN apps
              /\ apps[a][Len(apps[a])] = [from |-> frontmost.since, to |-> None]
          BY <4>2, <5>1 DEF FrontInv
        <5>3. Len(apps[a]) \in 1..Len(apps[a])
          BY <5>2, ClosingKeepsBegins
        <5>4. apps[a][Len(apps[a])].from <= Clock
          BY <5>2, <5>3 DEF NothingIsLater
        <5> QED BY <4>2, <5>2, <5>4
      <4> QED BY <4>1, <4>2
    <3>4. ASSUME NEW b \in DOMAIN apps, NEW i \in 1..Len(closed[b])
          PROVE  closed[b][i].from <= Clock
      <4>1. /\ Len(closed[b]) = Len(apps[b])
            /\ \A j \in 1..Len(apps[b]) : closed[b][j].from = apps[b][j].from
        BY ClosingKeepsBegins
      <4> HIDE DEF closed
      <4> QED BY <4>1 DEF NothingIsLater
    <3>5. known \in Seq(Interval) /\ \A i \in 1..Len(known) : known[i].from <= Clock
      <4>1. CASE a \in DOMAIN apps
        <5>1. closed[a] \in Seq(Interval)
          <6>1. Clock <= Clock
            BY <1>0
          <6> QED BY <1>0, <4>1, <6>1, ClosedFront
        <5>2. known = closed[a]
          BY <3>2, <4>1 DEF IntervalsOf
        <5> HIDE DEF known, closed
        <5> QED BY <3>4, <4>1, <5>1, <5>2
      <4>2. CASE a \notin DOMAIN apps
        <5>1. known = <<>>
          BY <3>2, <4>2 DEF IntervalsOf
        <5> HIDE DEF known
        <5> QED BY <5>1
      <4> QED BY <4>1, <4>2
    <3>6. x.from <= Clock
      BY <3>3
    <3> HIDE DEF closed, known, x, since
    <3>7. \A i \in 1..Len(Append(known, x)) : Append(known, x)[i].from <= Clock
      <4>1. ASSUME NEW i \in 1..Len(Append(known, x))
            PROVE  Append(known, x)[i].from <= Clock
        <5>1. CASE i = Len(known) + 1
          BY <3>5, <3>6, <5>1
        <5>2. CASE i # Len(known) + 1
          <6>1. i \in 1..Len(known) /\ Append(known, x)[i] = known[i]
            BY <3>5, <5>2
          <6> QED BY <3>5, <6>1
        <5> QED BY <5>1, <5>2
      <4> QED BY <4>1
    <3>8. ASSUME NEW b \in DOMAIN apps', NEW i \in 1..Len(apps'[b])
          PROVE  apps'[b][i].from <= Clock
      <4>1. CASE b = a
        <5>1. apps'[b] = Append(known, x)
          BY <3>1, <4>1 DEF Put
        <5> QED BY <3>7, <5>1
      <4>2. CASE b # a
        <5>1. b \in DOMAIN apps /\ apps'[b] = closed[b]
          BY <3>1, <3>2, <4>2 DEF Put
        <5> QED BY <3>4, <5>1
      <4> QED BY <4>1, <4>2
    <3> QED BY <2>0, <3>1, <3>8 DEF NothingIsLater
  <2>4. CASE DnsEvent \/ \E ts : ProcessEvent(ts) \/ SocketEvent(ts)
    <3>1. UNCHANGED <<apps, files>>
      BY <2>4 DEF DnsEvent, OnDnsQuery, ProcessEvent, Birth, Death, OnProcessBirth,
                  OnProcessDeath, SocketEvent, OnConnectionOpened, OnConnectionClosed
    <3> QED BY <2>0, <3>1 DEF NothingIsLater
  <2> QED BY <1>2, <2>1, <2>2, <2>3, <2>4 DEF Receive, FocusEvent
<1>3. CASE Tick
  <2>1. /\ UNCHANGED <<apps, now, anchor>> /\ DOMAIN files' \subseteq DOMAIN files
        /\ \A f \in DOMAIN files' : files'[f] = files[f]
    BY <1>3 DEF Tick, TrimBefore, Kept, Restrict, builderVars
  <2>2. Clock' = Clock
    BY <2>1 DEF Clock
  <2> QED BY <1>0, <1>1, <2>1, <2>2
<1>4. CASE Restart
  <2>1. DOMAIN apps' = {} /\ DOMAIN files' = {}
    BY <1>4 DEF Restart, ResetBuilder, Empty
  <2> QED BY <2>1 DEF NothingIsLater
<1>5. CASE Observe \/ Prune \/ Advance \/ UNCHANGED vars
  <2>1. UNCHANGED <<apps, files, anchor>> /\ (now' = now \/ now' = now + 1)
    BY <1>5 DEF Observe, OnObservation, Prune, Advance, vars, builderVars
  <2>2. Clock' \in Int /\ Clock <= Clock'
    <3>1. CASE now' = now
      BY <1>0, <2>1, <3>1 DEF Clock
    <3>2. CASE now' = now + 1
      BY <1>0, <2>1, <3>2 DEF Clock
    <3> QED BY <2>1, <3>1, <3>2
  <2> QED BY <1>1, <2>1, <2>2
<1> QED BY <1>2, <1>3, <1>4, <1>5 DEF Next

\* A row that a merge sends, and the row it leaves.
LEMMA RowsAreNodes ==
  ASSUME ClockInv, AppsInv, FrontInv, TypeInv, NothingIsLater, ParentsAreKnown,
         NEW order, NEW n \in DOMAIN Rows(Snapshot(order), anchor)
  PROVE  IsNode(n, Rows(Snapshot(order), anchor)[n])
<1> DEFINE g == Snapshot(order)
           row == Rows(g, anchor)[n]
<1>0. /\ anchor \in Nat \ {0} /\ now \in Nat /\ Clock \in Nat /\ now = anchor + Clock
      /\ None = -1 /\ NoTime = -1
  BY DEF ClockInv, Clock, None, NoTime
<1>1. /\ g.processes = processes /\ g.apps = FrontClosed(lastTs) /\ DOMAIN g.apps = DOMAIN apps
      /\ g.sockets = sockets /\ g.files = files /\ g.domains = domains
  BY DEF Snapshot, FrontClosed
<1> HIDE DEF g
<1>2. \A ts : ts \in Nat /\ ts <= Clock => Unix(ts, anchor) <= now /\ Unix(ts, anchor) \in Nat
  BY <1>0 DEF Unix
<1>3. n[1] # "app" => row.last \in Nat
  BY RowSpans DEF TypeInv, Span, g
<1>4. \/ \E k \in DOMAIN processes : n = <<"process", k>> /\ row = ProcessRow(processes[k], anchor)
      \/ \E a \in DOMAIN apps : n = <<"app", a>> /\ row = AppRow(g.apps[a], anchor)
      \/ \E k \in DOMAIN sockets : n = <<"socket", k>> /\ row = SocketRow(sockets[k], anchor)
      \/ \E k \in DOMAIN files : n = <<"file", k>> /\ row = FileRow(files[k], anchor)
      \/ \E k \in DOMAIN domains : n = <<"domain", k>> /\ row = DomainRow(domains[k], anchor)
  <2>1. n \in DOMAIN Rows(g, anchor)
    BY DEF g
  <2> QED BY <1>1, <2>1, RowCases
<1> SUFFICES IsNode(n, row)
  BY DEF g
<1>5. ASSUME NEW k \in DOMAIN processes, n = <<"process", k>>,
             row = ProcessRow(processes[k], anchor)
      PROVE  IsNode(n, row)
  <2>1. row.first = Unix(processes[k].birth, anchor) /\ row.attrs.ppid = processes[k].ppid
    BY <1>5 DEF ProcessRow, Row
  <2>2. processes[k].birth \in Nat /\ processes[k].birth <= Clock
    BY <1>0 DEF TypeInv, ProcessesInv, Life
  <2>3. row.first <= now
    BY <1>2, <2>1, <2>2
  <2>4. n[1] = "process" /\ n[2] = k
    BY <1>5
  <2>5. row.attrs.ppid = Ppid(k)
    BY <2>1 DEF ParentsAreKnown
  <2> HIDE DEF row
  <2> QED BY <1>3, <1>5, <2>3, <2>4, <2>5 DEF IsNode
<1>6. ASSUME NEW kind, NEW k, n = <<kind, k>>, kind \notin {"process", "app"},
             NEW ts \in Nat, ts <= Clock, row.first = Unix(ts, anchor)
      PROVE  IsNode(n, row)
  <2>1. row.first <= now
    BY <1>2, <1>6
  <2>2. n[1] = kind /\ n[2] = k
    BY <1>6
  <2> HIDE DEF row
  <2> QED BY <1>3, <1>6, <2>1, <2>2 DEF IsNode
<1>7. ASSUME NEW k \in DOMAIN sockets, n = <<"socket", k>>, row = SocketRow(sockets[k], anchor)
      PROVE  IsNode(n, row)
  <2>1. row.first = Unix(sockets[k].opened, anchor)
    BY <1>7 DEF SocketRow, Row
  <2>2. sockets[k].opened \in Nat /\ sockets[k].opened <= Clock
    BY <1>0 DEF TypeInv, SocketsInv, Life
  <2> HIDE DEF row
  <2> QED BY <1>6, <1>7, <2>1, <2>2
<1>8. ASSUME NEW k \in DOMAIN files, n = <<"file", k>>, row = FileRow(files[k], anchor)
      PROVE  IsNode(n, row)
  <2>1. row.first = Unix(files[k].first, anchor)
    BY <1>8 DEF FileRow, Row
  <2>2. files[k].first \in Nat /\ files[k].first <= Clock
    BY DEF TypeInv, SpansInv, FileSpan, Span, NothingIsLater
  <2> HIDE DEF row
  <2> QED BY <1>6, <1>8, <2>1, <2>2
<1>9. ASSUME NEW k \in DOMAIN domains, n = <<"domain", k>>, row = DomainRow(domains[k], anchor)
      PROVE  IsNode(n, row)
  <2>1. row.first = Unix(domains[k].first, anchor)
    BY <1>9 DEF DomainRow, Row
  <2>2. DomainSpan(domains[k])
    BY DEF TypeInv, SpansInv
  <2>3. domains[k].first \in Nat /\ domains[k].first <= Clock
    BY <1>0, <2>2 DEF DomainSpan, Span
  <2> HIDE DEF row
  <2> QED BY <1>6, <1>9, <2>1, <2>3
<1>10. ASSUME NEW a \in DOMAIN apps, n = <<"app", a>>, row = AppRow(g.apps[a], anchor)
       PROVE  IsNode(n, row)
  <2> DEFINE intervals == g.apps[a]
             begins == {i.from : i \in ToSet(intervals)}
             ends == {i.to : i \in ToSet(intervals)} \ {NoTime}
  <2>1. /\ intervals \in Seq(Interval) /\ intervals # <<>>
        /\ \A i \in 1..Len(intervals) : intervals[i].from <= Clock
    <3>1. intervals \in Seq(Interval)
      <4>1. CASE frontmost = Nobody
        BY <1>1, <4>1 DEF FrontClosed, AppsInv
      <4>2. CASE frontmost # Nobody
        <5>1. lastTs \in Nat /\ lastTs <= Clock
          BY <1>0, <4>2 DEF FrontInv, ClockInv
        <5> QED BY <1>1, <5>1, ClosedFront
      <4> QED BY <4>1, <4>2
    <3>2. /\ intervals # <<>> /\ Len(intervals) = Len(apps[a])
          /\ \A i \in 1..Len(apps[a]) : intervals[i].from = apps[a][i].from
      BY <1>1, ClosingKeepsBegins
    <3> HIDE DEF intervals
    <3> QED BY <3>1, <3>2 DEF NothingIsLater
  <2>2. /\ row.first = Unix(Min(begins), anchor)
        /\ row.last = Unix(IF ends = {} THEN Min(begins) ELSE Max(ends), anchor)
    BY <1>10 DEF AppRow, Row
  <2> HIDE DEF intervals
  <2>3. ToSet(intervals) = {intervals[i] : i \in 1..Len(intervals)}
    BY <2>1 DEF ToSet
  <2>4. begins \in SUBSET Nat /\ begins # {} /\ \A x \in begins : x <= Clock
    <3>1. intervals[1] \in ToSet(intervals)
      BY <2>1, <2>3
    <3>2. ASSUME NEW i \in 1..Len(intervals)
          PROVE  intervals[i].from \in Nat /\ intervals[i].from <= Clock
      <4>1. intervals[i] \in Interval
        BY <2>1
      <4> QED BY <2>1, <4>1 DEF Interval
    <3> QED BY <2>3, <3>1, <3>2
  <2>5. Min(begins) \in Nat /\ Min(begins) <= Clock
    <3> HIDE DEF begins
    <3>1. Min(begins) \in begins
      BY <2>4, MinOfNats
    <3> QED BY <2>4, <3>1
  <2>6. ends # {} => Max(ends) \in Nat
    <3> SUFFICES ASSUME ends # {}  PROVE Max(ends) \in Nat
      OBVIOUS
    <3> DEFINE to == [i \in 1..Len(intervals) |-> IF intervals[i].to = NoTime THEN 0
                                                   ELSE intervals[i].to]
    <3>1. ASSUME NEW i \in 1..Len(intervals)
          PROVE  to[i] \in Nat /\ intervals[i].to \in Nat \cup {NoTime}
      <4>1. intervals[i] \in Interval
        BY <2>1
      <4>2. intervals[i].to \in Nat \cup {NoTime}
        BY <1>0, <4>1 DEF Interval
      <4> QED BY <4>2
    <3>2. Len(intervals) \in Nat
      BY <2>1
    <3>3. PICK b \in Nat : \A i \in 1..Len(intervals) : to[i] <= b
      <4> HIDE DEF to
      <4> QED BY <3>1, <3>2, SequenceIsBounded
    <3>4. ends \in SUBSET Nat /\ \A x \in ends : x <= b
      <4> SUFFICES ASSUME NEW x \in ends  PROVE x \in Nat /\ x <= b
        OBVIOUS
      <4>1. PICK i \in 1..Len(intervals) : x = intervals[i].to /\ x # NoTime
        BY <2>3
      <4> QED BY <3>1, <3>3, <4>1
    <3> HIDE DEF ends
    <3>5. Max(ends) \in ends
      BY <3>4, MaxOfNats
    <3> QED BY <3>4, <3>5
  <2> HIDE DEF begins, ends
  <2>7. row.first <= now
    BY <1>2, <2>2, <2>5
  <2>8. row.last \in Nat
    <3>1. \A ts \in Nat : Unix(ts, anchor) \in Nat
      BY <1>0 DEF Unix
    <3> QED BY <2>2, <2>5, <2>6, <3>1
  <2>9. n[1] = "app" /\ n[2] = a
    BY <1>10
  <2> HIDE DEF row
  <2> QED BY <1>10, <2>7, <2>8, <2>9 DEF IsNode
<1> QED BY <1>4, <1>5, <1>7, <1>8, <1>9, <1>10

\* A node that the merge inserts or updates is one of the tables' nodes.
LEMMA MergedNode ==
  ASSUME TablesInv, NodesInv, now \in Nat, NEW g, MergeGraph(g, anchor),
         \A n \in DOMAIN Rows(g, anchor) :
           IsNode(n, Rows(g, anchor)[n]) /\ Rows(g, anchor)[n].first \in Nat,
         NEW n \in DOMAIN nodes'
  PROVE  IsNode(n, nodes'[n])
<1> DEFINE rows == Rows(g, anchor)
<1>1. nodes' = [m \in DOMAIN nodes \cup DOMAIN rows |->
                  IF m \notin DOMAIN nodes THEN rows[m]
                  ELSE IF m \notin DOMAIN rows THEN nodes[m]
                  ELSE UpsertNode(nodes[m], rows[m])]
  BY DEF MergeGraph, MergedNodes
<1>2. n \in DOMAIN rows => IsNode(n, rows[n]) /\ rows[n].first \in Nat
  OBVIOUS
<1>3. n \in DOMAIN nodes => IsNode(n, nodes[n]) /\ nodes[n].first \in Nat
  BY DEF TablesInv, NodesInv
<1> HIDE DEF rows
<1>4. CASE n \in DOMAIN nodes /\ n \in DOMAIN rows
  <2>1. /\ nodes'[n].first = Smaller(rows[n].first, nodes[n].first)
        /\ nodes'[n].last = Larger(rows[n].last, nodes[n].last)
        /\ nodes'[n].attrs = rows[n].attrs
    BY <1>1, <1>4 DEF UpsertNode
  <2>2. nodes'[n].first <= now
    BY <1>2, <1>3, <1>4, <2>1 DEF Smaller, IsNode
  <2>3. nodes'[n].last \in Nat
    BY <1>2, <1>3, <1>4, <2>1 DEF Larger, IsNode
  <2> QED BY <1>2, <1>4, <2>1, <2>2, <2>3 DEF IsNode
<1> QED BY <1>1, <1>2, <1>3, <1>4

\* Of an edge that is merged.
LEMMA SnapshotEdgeIsEdge ==
  ASSUME ParentsAreKnown, NEW order, NEW e \in DOMAIN Snapshot(order).edges
  PROVE  IsEdge(e)
<1>1. CASE \E c \in DOMAIN processes, p \in DOMAIN processes :
             PidOf(p) = processes[c].ppid /\ e = Edge("parent_of", "process", p, "process", c)
  <2> PICK c \in DOMAIN processes, p \in DOMAIN processes :
        PidOf(p) = processes[c].ppid /\ e = Edge("parent_of", "process", p, "process", c)
    BY <1>1
  <2>1. PidOf(p) = Ppid(c)
    BY DEF ParentsAreKnown
  <2>2. /\ e.kind = "parent_of" /\ e.from[1] = "process" /\ e.from[2] = p
        /\ e.to[1] = "process" /\ e.to[2] = c
    BY DEF Edge
  <2> QED BY <2>1, <2>2 DEF IsEdge
<1>2. ASSUME NEW kind, NEW k, NEW m, NEW x, NEW y, e = Edge(kind, k, x, m, y),
             \/ kind \in {"frontmost_during", "opened_socket"}
             \/ kind = "queried_domain" /\ k = "process" /\ m = "domain"
      PROVE  IsEdge(e)
  <2>1. e.kind = kind /\ e.from[1] = k /\ e.from[2] = x /\ e.to[1] = m /\ e.to[2] = y
    BY <1>2 DEF Edge
  <2> QED BY <1>2, <2>1 DEF IsEdge
<1> QED BY <1>1, <1>2, SnapshotEdgeCases

\* A graph sends finitely many rows.
LEMMA RowsAreFinite ==
  ASSUME BuilderIsFinite, NEW order
  PROVE  IsFiniteSet(DOMAIN Rows(Snapshot(order), anchor))
<1> DEFINE g == Snapshot(order)
           N == DOMAIN Rows(g, anchor)
           kinds == {"process", "app", "socket", "file", "domain"}
           ids == DOMAIN processes \cup DOMAIN apps \cup DOMAIN sockets \cup DOMAIN files
                    \cup DOMAIN domains
<1>1. IsFiniteSet(kinds)
  <2>1. IsFiniteSet({"process"})
    BY FS_Singleton
  <2>2. IsFiniteSet({"process"} \cup {"app"})
    BY <2>1, FS_AddElement
  <2>3. IsFiniteSet(({"process"} \cup {"app"}) \cup {"socket"})
    BY <2>2, FS_AddElement
  <2>4. IsFiniteSet((({"process"} \cup {"app"}) \cup {"socket"}) \cup {"file"})
    BY <2>3, FS_AddElement
  <2>5. IsFiniteSet(((({"process"} \cup {"app"}) \cup {"socket"}) \cup {"file"}) \cup {"domain"})
    BY <2>4, FS_AddElement
  <2>6. kinds = ((({"process"} \cup {"app"}) \cup {"socket"}) \cup {"file"}) \cup {"domain"}
    OBVIOUS
  <2> QED BY <2>5, <2>6
<1>2. IsFiniteSet(ids)
  <2>1. IsFiniteSet(DOMAIN processes \cup DOMAIN apps)
    BY FS_Union DEF BuilderIsFinite
  <2>2. IsFiniteSet(DOMAIN processes \cup DOMAIN apps \cup DOMAIN sockets)
    BY <2>1, FS_Union DEF BuilderIsFinite
  <2>3. IsFiniteSet(DOMAIN processes \cup DOMAIN apps \cup DOMAIN sockets \cup DOMAIN files)
    BY <2>2, FS_Union DEF BuilderIsFinite
  <2> QED BY <2>3, FS_Union DEF BuilderIsFinite
<1>3. N \in SUBSET (kinds \X ids)
  <2> SUFFICES ASSUME NEW n \in N  PROVE n \in kinds \X ids
    OBVIOUS
  <2>1. /\ g.processes = processes /\ DOMAIN g.apps = DOMAIN apps
        /\ g.sockets = sockets /\ g.files = files /\ g.domains = domains
    BY DEF Snapshot, FrontClosed
  <2> HIDE DEF g
  <2>2. \E kind \in kinds, k \in ids : n = <<kind, k>>
    BY <2>1, RowCases
  <2> QED BY <2>2
<1>4. IsFiniteSet(kinds \X ids)
  BY <1>1, <1>2, FS_Product
<1> HIDE DEF N, kinds, ids
<1>5. IsFiniteSet(N)
  BY <1>3, <1>4, FS_Subset
<1> QED BY <1>5 DEF N

\* The tables stay as the queries need them.
LEMMA TablesStep ==
  ASSUME QueryInv, TypeInv, SegmentInv, [Next]_vars
  PROVE  TablesInv'
<1> USE DEF QueryInv, SegmentInv
<1>0. now \in Nat /\ anchor \in Nat
  BY DEF ClockInv
<1>1. CASE Tick
  <2> PICK order \in Orders : MergeGraph(Snapshot(order), anchor)
    BY <1>1 DEF Tick
  <2> DEFINE g == Snapshot(order)
             rows == Rows(g, anchor)
  <2>1. UNCHANGED now
    BY <1>1 DEF Tick
  <2>2. ASSUME NEW n \in DOMAIN rows  PROVE IsNode(n, rows[n]) /\ rows[n].first \in Nat
    BY RowsAreNodes, RowSpans DEF TypeInv
  <2>3. ASSUME NEW n \in DOMAIN nodes'  PROVE IsNode(n, nodes'[n])
    <3> HIDE DEF g
    <3>1. MergeGraph(g, anchor) /\ NodesInv
      BY DEF g, TypeInv
    <3> QED BY <1>0, <2>2, <3>1, MergedNode
  <2>4. /\ DOMAIN nodes' = DOMAIN nodes \cup DOMAIN rows
        /\ DOMAIN edges' = DOMAIN edges \cup DOMAIN g.edges
    BY MergeDomains
  <2>5. ASSUME NEW e \in DOMAIN edges'  PROVE IsEdge(e)
    <3>1. CASE e \in DOMAIN edges
      BY <3>1 DEF TablesInv
    <3>2. CASE e \in DOMAIN g.edges
      BY <3>2, SnapshotEdgeIsEdge
    <3> QED BY <2>4, <3>1, <3>2
  <2>6. IsFiniteSet(DOMAIN rows)
    BY RowsAreFinite
  <2>7. IsFiniteSet(DOMAIN nodes')
    BY <2>4, <2>6, FS_Union DEF TablesInv
  <2> HIDE DEF g, rows
  <2> QED BY <2>1, <2>3, <2>5, <2>7 DEF TablesInv, IsNode
<1>2. CASE Receive \/ Observe \/ Prune \/ Restart \/ Advance \/ UNCHANGED vars
  <2>1. /\ DOMAIN nodes' \subseteq DOMAIN nodes /\ DOMAIN edges' \subseteq DOMAIN edges
        /\ \A n \in DOMAIN nodes' : nodes'[n] = nodes[n]
    BY <1>2, KeptRows
  <2>2. now' = now \/ now' = now + 1
    BY <1>2 DEF Receive, Observe, Prune, Restart, Advance, vars
  <2>3. ASSUME NEW n \in DOMAIN nodes'
        PROVE  /\ n = <<n[1], n[2]>> /\ nodes'[n].first <= now' /\ nodes'[n].last \in Nat
               /\ n[1] = "process" => nodes'[n].attrs.ppid = Ppid(n[2])
    <3>1. IsNode(n, nodes[n]) /\ nodes[n].first \in Nat /\ nodes'[n] = nodes[n]
      BY <2>1 DEF TablesInv, TypeInv, NodesInv
    <3>2. nodes[n].first <= now'
      <4>1. CASE now' = now
        BY <3>1, <4>1 DEF IsNode
      <4>2. CASE now' = now + 1
        BY <1>0, <3>1, <4>2 DEF IsNode
      <4> QED BY <2>2, <4>1, <4>2
    <3> QED BY <3>1, <3>2 DEF IsNode
  <2>4. \A e \in DOMAIN edges' : IsEdge(e)
    BY <2>1 DEF TablesInv
  <2>5. IsFiniteSet(DOMAIN nodes')
    BY <2>1, FS_Subset DEF TablesInv
  <2> QED BY <2>3, <2>4, <2>5 DEF TablesInv, IsNode
<1> QED BY <1>1, <1>2 DEF Next

\* QueryInv holds in every state.
LEMMA QueryInvariant == Spec => []QueryInv
<1>1. Init => QueryInv
  <2> SUFFICES ASSUME Init  PROVE QueryInv
    OBVIOUS
  <2>1. /\ DOMAIN processes = {} /\ DOMAIN apps = {} /\ DOMAIN sockets = {}
        /\ DOMAIN files = {} /\ DOMAIN domains = {}
        /\ DOMAIN nodes = {} /\ DOMAIN edges = {}
    BY DEF Init, NewBuilder, OpenStore, Empty
  <2> QED BY <2>1, FS_EmptySet DEF QueryInv, BuilderIsFinite, NothingIsLater, ParentsAreKnown,
                                   TablesInv
<1>2. QueryInv /\ TypeInv /\ SegmentInv /\ CurrentInv /\ [Next]_vars => QueryInv'
  BY FiniteStep, LaterStep, ParentStep, TablesStep DEF QueryInv
<1> QED BY <1>1, <1>2, TypeInvariant, SegmentInvariant, CurrentInvariant, PTL DEF Spec

\* Whatever was merged, trimmed, pruned or lost by a restart: the criteria give
\* the same on the tables and on the graph loaded from them, flags only grow with
\* the window, what is new was never seen before, a window has both ends of its
\* edges, parents and children agree, and the endpoints and domains of the top
\* lists add up to the tables.
THEOREM QueriesAlwaysAgree == Spec => []QueriesAgree
<1>1. QueryInv /\ TypeInv /\ SegmentInv /\ NoDanglingEdge => QueriesAgree
  BY QueriesAgreeInTables DEF QueryInv, TypeInv, SegmentInv, ClockInv
<1> QED BY <1>1, QueryInvariant, TypeInvariant, SegmentInvariant, NoEdgeEverDangles, PTL
=============================================================================
