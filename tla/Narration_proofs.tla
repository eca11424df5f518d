-------------------------- MODULE Narration_proofs --------------------------
(***************************************************************************)
(* Theorems about the graphs that narrated ticks compare (Narration,       *)
(* Topology), about the window they speak of and about the report a model  *)
(* is given to read (CaptureSummary, GraphSummary, Baseline), for every    *)
(* set of processes, apps, sockets, files and names.                       *)
(***************************************************************************)
EXTENDS Narration, Counting_proofs, FiniteSetTheorems, SequenceTheorems, TLAPS

-----------------------------------------------------------------------------
(* Components.  The search of a component takes as many levels as there are *)
(* nodes: each adds one at least, or there is nothing left to add.          *)

\* A graph that has the ends of its edges.
IsGraph(g) ==
  /\ IsFiniteSet(Nodes(g))
  /\ \A e \in DOMAIN g.edges : e.from \in Nodes(g) /\ e.to \in Nodes(g)

\* No edge leads out of these nodes.
Closed(g, S) == \A m \in S : Adjacent(g, m) \subseteq S

\* Of two nodes both are neighbours of each other, or none.
LEMMA AdjacentIsSymmetric ==
  ASSUME NEW g, NEW m, NEW n
  PROVE  m \in Adjacent(g, n) <=> n \in Adjacent(g, m)
BY DEF Adjacent

\* A set of nodes grows by what its edges lead to, and stays as it is when it
\* is closed.
LEMMA GrownIsClosed ==
  ASSUME NEW g, NEW S
  PROVE  /\ S \subseteq Grown(g, S)
         /\ Grown(g, S) = S <=> Closed(g, S)
         /\ \A D : Closed(g, D) /\ S \subseteq D => Grown(g, S) \subseteq D
         /\ IsGraph(g) /\ S \subseteq Nodes(g) => Grown(g, S) \subseteq Nodes(g)
<1>1. \A x : x \in Grown(g, S) <=> x \in S \/ \E m \in S : x \in Adjacent(g, m)
  BY DEF Grown
<1>2. IsGraph(g) => \A m : Adjacent(g, m) \subseteq Nodes(g)
  BY DEF Adjacent, IsGraph
<1> QED BY <1>1, <1>2 DEF Closed

\* The recursive function of Component exists.
LEMMA SearchUnfolds ==
  ASSUME NEW g, NEW n, Cardinality(Nodes(g)) \in Nat
  PROVE  \E seen : /\ seen = [level \in 0..Cardinality(Nodes(g)) |->
                               IF level = 0 THEN {n} ELSE Grown(g, seen[level - 1])]
                   /\ Component(g, n) = seen[Cardinality(Nodes(g))]
<1> DEFINE Step(f, i) == IF i = 0 THEN {n} ELSE Grown(g, f[i - 1])
<1> DEFINE Is(f, l) == f = [i \in 0..l |-> Step(f, i)]
<1>1. ASSUME NEW l \in Nat, \A j \in Nat : j < l => \E f : Is(f, j)
      PROVE  \E f : Is(f, l)
  <2>1. CASE l = 0
    <3> DEFINE f == [i \in 0..l |-> {n}]
    <3>1. Is(f, l)
      BY <2>1
    <3> QED BY <3>1
  <2>2. CASE l # 0
    <3>0. l - 1 \in Nat /\ l - 1 < l
      BY <2>2
    <3>1. PICK f : Is(f, l - 1)
      BY <1>1, <3>0
    <3> DEFINE h == [i \in 0..l |-> IF i = l THEN Step(f, l) ELSE f[i]]
    <3>2. \A i \in 0..l : i # 0 => h[i - 1] = f[i - 1]
      OBVIOUS
    <3>3. ASSUME NEW i \in 0..l  PROVE h[i] = Step(h, i)
      <4>1. CASE i = l
        BY <3>2, <4>1
      <4>2. CASE i # l
        <5>1. i \in 0..l - 1
          BY <4>2
        <5>2. f[i] = Step(f, i)
          BY <3>1, <5>1
        <5> QED BY <3>2, <4>2, <5>2
      <4> QED BY <4>1, <4>2
    <3>4. Is(h, l)
      <4>1. h = [i \in 0..l |-> h[i]]
        OBVIOUS
      <4> HIDE DEF h
      <4> QED BY <3>3, <4>1
    <3> QED BY <3>4
  <2> QED BY <2>1, <2>2
<1> HIDE DEF Is
<1>2. \A l \in Nat : \E f : Is(f, l)
  <2> DEFINE Bad == {l \in Nat : ~ (\E f : Is(f, l))}
  <2> SUFFICES ASSUME Bad # {}  PROVE FALSE
    OBVIOUS
  <2>1. PICK l \in Bad : \A j \in Bad : l <= j
    BY NatLeast
  <2>2. \A j \in Nat : j < l => \E f : Is(f, j)
    BY <2>1
  <2> QED BY <1>1, <2>2
<1> DEFINE all == Cardinality(Nodes(g))
<1>3. \E f : Is(f, all)
  BY <1>2
<1> DEFINE up == CHOOSE f : Is(f, all)
<1>4. Is(up, all)
  BY <1>3
<1>5. Component(g, n) = up[all]
  BY DEF Component, Is
<1> QED BY <1>4, <1>5 DEF Is

\* A component is the smallest closed set with its node.
LEMMA ComponentIsSmallest ==
  ASSUME NEW g, IsGraph(g), NEW n \in Nodes(g)
  PROVE  /\ n \in Component(g, n) /\ Component(g, n) \subseteq Nodes(g)
         /\ Closed(g, Component(g, n))
         /\ \A D : Closed(g, D) /\ n \in D => Component(g, n) \subseteq D
<1> DEFINE N == Nodes(g)
<1> DEFINE all == Cardinality(N)
<1>0. IsFiniteSet(N) /\ all \in Nat
  BY FS_CardinalityType DEF IsGraph
<1>f. ASSUME NEW S, S \subseteq N
      PROVE  IsFiniteSet(S) /\ Cardinality(S) \in Nat /\ Cardinality(S) <= all
  BY <1>0, <1>f, FS_Subset, FS_CardinalityType
<1>1. PICK seen : /\ seen = [level \in 0..all |->
                             IF level = 0 THEN {n} ELSE Grown(g, seen[level - 1])]
                  /\ Component(g, n) = seen[all]
  BY <1>0, SearchUnfolds
<1> HIDE DEF all
<1>2. seen[0] = {n} /\ \A l \in 0..all : l # 0 => seen[l] = Grown(g, seen[l - 1])
  <2>1. 0 \in 0..all
    BY <1>0
  <2>2. ASSUME NEW l \in 0..all
        PROVE  seen[l] = IF l = 0 THEN {n} ELSE Grown(g, seen[l - 1])
    BY <1>1
  <2> QED BY <2>1, <2>2
<1> DEFINE Grows(l) ==
      /\ n \in seen[l] /\ seen[l] \subseteq N
      /\ Closed(g, seen[l]) \/ l < Cardinality(seen[l])
      /\ \A D : Closed(g, D) /\ n \in D => seen[l] \subseteq D
<1>3. Grows(0)
  <2>1. Cardinality({n}) = 1
    BY FS_Singleton
  <2> QED BY <1>2, <2>1
<1>4. ASSUME NEW l \in Nat, l < all, Grows(l)  PROVE Grows(l + 1)
  <2> DEFINE here == seen[l]
  <2>1. seen[l + 1] = Grown(g, here)
    <3>1. l + 1 \in 0..all /\ l + 1 # 0 /\ (l + 1) - 1 = l
      BY <1>0, <1>4
    <3> QED BY <1>2, <3>1
  <2> HIDE DEF here
  <2>2. /\ n \in here /\ here \subseteq N
        /\ Closed(g, here) \/ l < Cardinality(here)
        /\ \A D : Closed(g, D) /\ n \in D => here \subseteq D
    BY <1>4 DEF here
  <2> HIDE DEF Grows
  <2>3. /\ here \subseteq Grown(g, here) /\ Grown(g, here) \subseteq N
        /\ \A D : Closed(g, D) /\ n \in D => Grown(g, here) \subseteq D
    BY <2>2, GrownIsClosed
  <2>4. CASE Closed(g, here)
    <3>1. Grown(g, here) = here
      BY <2>4, GrownIsClosed
    <3>2. seen[l + 1] = here
      BY <2>1, <3>1
    <3> QED BY <2>2, <2>4, <3>2 DEF Grows
  <2>5. CASE ~Closed(g, here)
    <3>1. PICK m \in Grown(g, here) : m \notin here
      BY <2>3, <2>5, GrownIsClosed
    <3>2. Cardinality(here \cup {m}) = Cardinality(here) + 1 /\ Cardinality(here) \in Nat
      <4>1. IsFiniteSet(here) /\ Cardinality(here) \in Nat
        BY <1>f, <2>2
      <4> QED BY <3>1, <4>1, FS_AddElement
    <3>3. Cardinality(here \cup {m}) <= Cardinality(Grown(g, here)) /\ Cardinality(Grown(g, here)) \in Nat
      <4>1. IsFiniteSet(Grown(g, here)) /\ Cardinality(Grown(g, here)) \in Nat
        BY <1>f, <2>3
      <4>2. here \cup {m} \in SUBSET Grown(g, here)
        BY <2>3, <3>1
      <4> QED BY <4>1, <4>2, FS_Subset
    <3>4. l + 1 < Cardinality(Grown(g, here))
      <4>1. l < Cardinality(here)
        BY <2>2, <2>5
      <4> QED BY <3>2, <3>3, <4>1
    <3>5. n \in Grown(g, here)
      BY <2>2, <2>3
    <3> QED BY <2>1, <2>3, <3>4, <3>5 DEF Grows
  <2> QED BY <2>4, <2>5
<1> HIDE DEF Grows
<1>5. Grows(all)
  <2> DEFINE Bad == {l \in Nat : l <= all /\ ~Grows(l)}
  <2>1. Bad = {}
    <3> SUFFICES ASSUME Bad # {}  PROVE FALSE
      OBVIOUS
    <3>1. PICK l \in Bad : \A j \in Bad : l <= j
      BY NatLeast
    <3>2. l # 0
      BY <1>3
    <3>3. l - 1 \in Nat /\ l - 1 < all /\ l - 1 <= all /\ ~ (l <= l - 1) /\ (l - 1) + 1 = l
      BY <1>0, <3>2
    <3>4. Grows(l - 1)
      BY <3>1, <3>3
    <3> QED BY <1>4, <3>3, <3>4
  <2> QED BY <1>0, <2>1
<1>6. ~ (all < Cardinality(seen[all]))
  <2>1. seen[all] \subseteq N
    BY <1>5 DEF Grows
  <2>2. Cardinality(seen[all]) <= all /\ Cardinality(seen[all]) \in Nat
    BY <1>f, <2>1
  <2> QED BY <1>0, <2>2
<1> QED BY <1>1, <1>5, <1>6 DEF Grows

\* What is not in a component is closed: edges count both ways.
LEMMA ComponentOfEach ==
  ASSUME NEW g, IsGraph(g), NEW n \in Nodes(g), NEW m \in Component(g, n)
  PROVE  m \in Nodes(g) /\ Component(g, m) = Component(g, n)
<1>1. m \in Nodes(g)
  BY ComponentIsSmallest
<1>2. Component(g, m) \subseteq Component(g, n)
  BY <1>1, ComponentIsSmallest
<1>3. n \in Component(g, m)
  <2> SUFFICES ASSUME n \notin Component(g, m)  PROVE FALSE
    OBVIOUS
  <2> DEFINE D == Nodes(g) \ Component(g, m)
  <2>1. Closed(g, D)
    <3> SUFFICES ASSUME NEW x \in D, NEW y \in Adjacent(g, x)  PROVE y \in D
      BY DEF Closed
    <3>1. y \in Nodes(g)
      BY DEF Adjacent, IsGraph
    <3>2. y \notin Component(g, m)
      <4>1. x \in Adjacent(g, y)
        BY AdjacentIsSymmetric
      <4> QED BY <1>1, <4>1, ComponentIsSmallest DEF Closed
    <3> QED BY <3>1, <3>2
  <2>2. Component(g, n) \subseteq D
    <3>1. n \in D
      OBVIOUS
    <3> HIDE DEF D
    <3> QED BY <2>1, <3>1, ComponentIsSmallest
  <2>3. m \in Component(g, m)
    BY <1>1, ComponentIsSmallest
  <2> QED BY <2>2, <2>3
<1>4. Component(g, n) \subseteq Component(g, m)
  BY <1>1, <1>3, ComponentIsSmallest
<1> QED BY <1>1, <1>2, <1>4

\* The components are a partition of the nodes that no edge crosses.
LEMMA ComponentsPartition ==
  ASSUME NEW g, IsGraph(g)
  PROVE  /\ UNION ConnectedComponents(g) = Nodes(g)
         /\ \A c \in ConnectedComponents(g) :
              /\ Closed(g, c)
              /\ \A m \in c : m \in Nodes(g) /\ c = Component(g, m)
         /\ \A e \in DOMAIN g.edges, c \in ConnectedComponents(g) :
              e.from \in c <=> e.to \in c
         /\ \A c, d \in ConnectedComponents(g) : c = d \/ c \cap d = {}
<1>1. ASSUME NEW c \in ConnectedComponents(g)
      PROVE  Closed(g, c) /\ \A m \in c : m \in Nodes(g) /\ c = Component(g, m)
  <2>1. PICK n \in Nodes(g) : c = Component(g, n)
    BY DEF ConnectedComponents
  <2> QED BY <2>1, ComponentIsSmallest, ComponentOfEach
<1>2. ASSUME NEW n \in Nodes(g)
      PROVE  n \in Component(g, n) /\ Component(g, n) \in ConnectedComponents(g)
  BY ComponentIsSmallest DEF ConnectedComponents
<1>3. UNION ConnectedComponents(g) = Nodes(g)
  BY <1>1, <1>2
<1>4. ASSUME NEW e \in DOMAIN g.edges, NEW c \in ConnectedComponents(g)
      PROVE  e.from \in c <=> e.to \in c
  <2>1. e.to \in Adjacent(g, e.from) /\ e.from \in Adjacent(g, e.to)
    BY DEF Adjacent
  <2> QED BY <1>1, <2>1 DEF Closed
<1>5. ASSUME NEW c \in ConnectedComponents(g), NEW d \in ConnectedComponents(g)
      PROVE  c = d \/ c \cap d = {}
  BY <1>1
<1> QED BY <1>1, <1>3, <1>4, <1>5

\* A graph with all the edges of another splits none of its components.
LEMMA GrowthKeepsComponents ==
  ASSUME NEW g, NEW h, IsGraph(g), IsGraph(h), DOMAIN g.edges \subseteq DOMAIN h.edges,
         NEW c \in ConnectedComponents(g), NEW x \in ConnectedComponents(h), x \cap c # {}
  PROVE  c \subseteq x
<1>1. PICK a \in x \cap c : TRUE
  OBVIOUS
<1>2. a \in Nodes(g) /\ c = Component(g, a)
  BY ComponentsPartition
<1>3. Closed(g, x)
  <2>1. \A m : Adjacent(g, m) \subseteq Adjacent(h, m)
    BY DEF Adjacent
  <2>2. Closed(h, x)
    BY ComponentsPartition
  <2> QED BY <2>1, <2>2 DEF Closed
<1> QED BY <1>1, <1>2, <1>3, ComponentIsSmallest

\* Between graphs of which the later has all the edges of the earlier, no
\* cluster is in two components.
LEMMA GrowthMergesNothing ==
  ASSUME NEW g, NEW h, IsGraph(g), IsGraph(h), DOMAIN g.edges \subseteq DOMAIN h.edges
  PROVE  ComponentMerges(g, h) = {}
<1> SUFFICES ASSUME NEW c \in Clusters(g)
             PROVE  ~ (Cardinality({x \in ConnectedComponents(h) : x \cap c # {}}) > 1)
  BY DEF ComponentMerges
<1> DEFINE into == {x \in ConnectedComponents(h) : x \cap c # {}}
<1>1. c \in ConnectedComponents(g)
  BY DEF Clusters
<1>2. ASSUME NEW x \in into, NEW y \in into  PROVE x = y
  <2>1. c \subseteq x /\ c \subseteq y
    BY <1>1, GrowthKeepsComponents
  <2>2. x \cap y # {}
    BY <2>1
  <2> QED BY <2>2, ComponentsPartition
<1>3. CASE into = {}
  <2>1. Cardinality(into) = 0
    <3> HIDE DEF into
    <3> QED BY <1>3, FS_EmptySet
  <2> QED BY <2>1
<1>4. CASE into # {}
  <2>1. PICK x : into = {x}
    <3> HIDE DEF into
    <3> QED BY <1>2, <1>4
  <2>2. Cardinality(into) = 1
    <3> HIDE DEF into
    <3> QED BY <2>1, FS_Singleton
  <2> QED BY <2>2
<1> QED BY <1>3, <1>4

\* Who is not alone has a neighbour.
LEMMA ClustersHaveEdges ==
  ASSUME NEW g, IsGraph(g), NEW c \in Clusters(g), NEW n \in c
  PROVE  \E e \in DOMAIN g.edges : n \in {e.from, e.to}
<1>1. c \in ConnectedComponents(g) /\ Cardinality(c) >= 2
  BY DEF Clusters
<1>2. n \in Nodes(g) /\ c = Component(g, n)
  BY <1>1, ComponentsPartition
<1>3. CASE Adjacent(g, n) = {}
  <2>1. Closed(g, {n}) /\ n \in {n}
    BY <1>3 DEF Closed
  <2>2. c = {n}
    BY <1>2, <2>1, ComponentIsSmallest
  <2>3. Cardinality(c) = 1
    BY <2>2, FS_Singleton
  <2> QED BY <1>1, <2>3
<1> QED BY <1>3 DEF Adjacent

\* Between graphs of which the later has all the edges of the earlier, each
\* cluster is in one of the later.
LEMMA ClustersGrow ==
  ASSUME NEW g, NEW h, IsGraph(g), IsGraph(h), DOMAIN g.edges \subseteq DOMAIN h.edges,
         NEW c \in Clusters(g)
  PROVE  \E x \in Clusters(h) : c \subseteq x
<1>1. c \in ConnectedComponents(g) /\ Cardinality(c) >= 2
  BY DEF Clusters
<1>2. PICK n : n \in c
  BY <1>1, FS_EmptySet
<1>3. n \in Nodes(h)
  <2>1. PICK e \in DOMAIN g.edges : n \in {e.from, e.to}
    BY <1>2, ClustersHaveEdges
  <2> QED BY <2>1 DEF IsGraph
<1>4. PICK x \in ConnectedComponents(h) : n \in x
  BY <1>3, ComponentsPartition
<1>5. c \subseteq x
  BY <1>1, <1>2, <1>4, GrowthKeepsComponents
<1>6. IsFiniteSet(x)
  <2>1. x \in SUBSET Nodes(h)
    BY <1>4, ComponentsPartition
  <2> QED BY <2>1, FS_Subset DEF IsGraph
<1>7. Cardinality(c) <= Cardinality(x) /\ Cardinality(c) \in Nat /\ Cardinality(x) \in Nat
  <2>1. c \in SUBSET x
    BY <1>5
  <2> QED BY <1>6, <2>1, FS_Subset, FS_CardinalityType
<1> QED BY <1>1, <1>4, <1>5, <1>7 DEF Clusters

\* What GrowthIsNotAMerge says is true of any two graphs.
LEMMA GraphsGrowWithoutMerge ==
  ASSUME IsGraph(graph), IsGraph(before)
  PROVE  GrowthIsNotAMerge
<1>1. GrowsApart(before, graph) =>
        /\ ComponentMerges(before, graph) = {}
        /\ \A c \in Clusters(before) : \E x \in Clusters(graph) : c \subseteq x
  BY GrowthMergesNothing, ClustersGrow DEF GrowsApart
<1> QED BY <1>1, ComponentsPartition DEF GrowthIsNotAMerge

-----------------------------------------------------------------------------
(* The builder knows finitely many nodes, and a snapshot has the ends of its *)
(* edges, whatever was trimmed.                                             *)

BuilderIsFinite ==
  /\ IsFiniteSet(DOMAIN processes) /\ IsFiniteSet(DOMAIN apps)
  /\ IsFiniteSet(DOMAIN sockets) /\ IsFiniteSet(DOMAIN files)
  /\ IsFiniteSet(DOMAIN domains)

GraphInv == BuilderIsFinite /\ IsGraph(graph) /\ IsGraph(before)

\* The nodes of a snapshot are those of the builder, its edges of four kinds.
LEMMA SnapshotNodes ==
  ASSUME NEW order, NEW g, g = Snapshot(order)
  PROVE  /\ g.processes = processes /\ DOMAIN g.apps = DOMAIN apps /\ g.sockets = sockets
         /\ g.files = files /\ g.domains = domains
         /\ \A e \in DOMAIN g.edges :
              \/ e \in DOMAIN ParentEdges(order)
              \/ e \in DOMAIN FrontmostEdges(FrontClosed(lastTs))
              \/ e \in DOMAIN SocketEdges(order)
              \/ e \in DOMAIN DomainEdges(order)
<1>1. DOMAIN FrontClosed(lastTs) = DOMAIN apps
  BY DEF FrontClosed
<1> QED BY <1>1 DEF Snapshot, Both

\* A snapshot has both ends of each edge.
LEMMA SnapshotEnds ==
  ASSUME NEW order, NEW g, g = Snapshot(order)
  PROVE  \A e \in DOMAIN g.edges : e.from \in Nodes(g) /\ e.to \in Nodes(g)
<1> SUFFICES ASSUME NEW e \in DOMAIN g.edges
             PROVE  e.from \in Nodes(g) /\ e.to \in Nodes(g)
  OBVIOUS
<1>1. /\ \A k \in DOMAIN processes : <<"process", k>> \in Nodes(g)
      /\ \A a \in DOMAIN apps : <<"app", a>> \in Nodes(g)
      /\ \A x \in DOMAIN sockets : <<"socket", x>> \in Nodes(g)
      /\ \A d \in DOMAIN domains : <<"domain", d>> \in Nodes(g)
  BY SnapshotNodes DEF Nodes
<1>2. \A S : LastIn(order, S) \subseteq S
  BY DEF LastIn
<1>3. ASSUME NEW pid, NEW ts  PROVE Owner(order, pid, ts) \subseteq DOMAIN processes
  <2>1. Youngest(Candidates(pid, ts)) \subseteq DOMAIN processes
    BY DEF Youngest, Candidates, WithPid
  <2>2. Owner(order, pid, ts) \subseteq Youngest(Candidates(pid, ts))
    BY <1>2 DEF Owner
  <2> QED BY <2>1, <2>2
<1>4. CASE e \in DOMAIN ParentEdges(order)
  <2>0. PICK c \in DOMAIN processes :
          e \in {Edge("parent_of", "process", p, "process", c) :
                  p \in LastIn(order, WithPid(processes[c].ppid)) \ {c}}
    BY <1>4 DEF ParentEdges
  <2>1. PICK p \in LastIn(order, WithPid(processes[c].ppid)) :
          e = Edge("parent_of", "process", p, "process", c)
    BY <2>0
  <2>2. p \in DOMAIN processes
    BY <1>2 DEF WithPid
  <2>3. e.from = <<"process", p>> /\ e.to = <<"process", c>>
    BY <2>1 DEF Edge
  <2> QED BY <1>1, <2>2, <2>3
<1>5. CASE e \in DOMAIN FrontmostEdges(FrontClosed(lastTs))
  <2>1. DOMAIN FrontClosed(lastTs) = DOMAIN apps
    BY DEF FrontClosed
  <2>2. PICK a \in DOMAIN apps, k \in DOMAIN processes :
          e = Edge("frontmost_during", "app", a, "process", k)
    BY <1>5, <2>1 DEF FrontmostEdges
  <2>3. e.from = <<"app", a>> /\ e.to = <<"process", k>>
    BY <2>2 DEF Edge
  <2> QED BY <1>1, <2>3
<1>6. CASE e \in DOMAIN SocketEdges(order)
  <2>0. PICK x \in DOMAIN sockets :
          e \in {Edge("opened_socket", "process", k, "socket", x) :
                  k \in Owner(order, sockets[x].pid, sockets[x].opened)}
    BY <1>6 DEF SocketEdges
  <2>1. PICK k \in Owner(order, sockets[x].pid, sockets[x].opened) :
          e = Edge("opened_socket", "process", k, "socket", x)
    BY <2>0
  <2>2. e.from = <<"process", k>> /\ e.to = <<"socket", x>>
    BY <2>1 DEF Edge
  <2> QED BY <1>1, <1>3, <2>2
<1>7. CASE e \in DOMAIN DomainEdges(order)
  <2>0. PICK q \in DOMAIN domainQueries :
          /\ q[2] \in DOMAIN domains
          /\ e \in {Edge("queried_domain", "process", k, "domain", q[2]) :
                     k \in Owner(order, q[1], domainQueries[q].first)}
    BY <1>7 DEF DomainEdges
  <2>1. PICK k \in Owner(order, q[1], domainQueries[q].first) :
          e = Edge("queried_domain", "process", k, "domain", q[2])
    BY <2>0
  <2>2. e.from = <<"process", k>> /\ e.to = <<"domain", q[2]>>
    BY <2>1 DEF Edge
  <2> QED BY <1>1, <1>3, <2>0, <2>2
<1> QED BY <1>4, <1>5, <1>6, <1>7, SnapshotNodes

\* A snapshot of a finite builder is a graph.
LEMMA SnapshotIsGraph ==
  ASSUME BuilderIsFinite, NEW order, NEW g, g = Snapshot(order)
  PROVE  IsGraph(g)
<1>1. IsFiniteSet(Nodes(g))
  <2>0. /\ IsFiniteSet({"process"}) /\ IsFiniteSet({"app"}) /\ IsFiniteSet({"socket"})
        /\ IsFiniteSet({"file"}) /\ IsFiniteSet({"domain"})
    BY FS_Singleton
  <2>1. IsFiniteSet({"process"} \X DOMAIN processes)
    BY <2>0, FS_Product DEF BuilderIsFinite
  <2>2. IsFiniteSet({"app"} \X DOMAIN apps)
    BY <2>0, FS_Product DEF BuilderIsFinite
  <2>3. IsFiniteSet({"socket"} \X DOMAIN sockets)
    BY <2>0, FS_Product DEF BuilderIsFinite
  <2>4. IsFiniteSet({"file"} \X DOMAIN files)
    BY <2>0, FS_Product DEF BuilderIsFinite
  <2>5. IsFiniteSet({"domain"} \X DOMAIN domains)
    BY <2>0, FS_Product DEF BuilderIsFinite
  <2>6. Nodes(g) = ({"process"} \X DOMAIN processes) \cup ({"app"} \X DOMAIN apps)
                   \cup ({"socket"} \X DOMAIN sockets) \cup ({"file"} \X DOMAIN files)
                   \cup ({"domain"} \X DOMAIN domains)
    BY SnapshotNodes DEF Nodes
  <2>7. IsFiniteSet(({"process"} \X DOMAIN processes) \cup ({"app"} \X DOMAIN apps))
    BY <2>1, <2>2, FS_Union
  <2>8. IsFiniteSet(({"process"} \X DOMAIN processes) \cup ({"app"} \X DOMAIN apps)
                    \cup ({"socket"} \X DOMAIN sockets))
    BY <2>3, <2>7, FS_Union
  <2>9. IsFiniteSet(({"process"} \X DOMAIN processes) \cup ({"app"} \X DOMAIN apps)
                    \cup ({"socket"} \X DOMAIN sockets) \cup ({"file"} \X DOMAIN files))
    BY <2>4, <2>8, FS_Union
  <2>10. IsFiniteSet(({"process"} \X DOMAIN processes) \cup ({"app"} \X DOMAIN apps)
                     \cup ({"socket"} \X DOMAIN sockets) \cup ({"file"} \X DOMAIN files)
                     \cup ({"domain"} \X DOMAIN domains))
    BY <2>5, <2>9, FS_Union
  <2> QED BY <2>6, <2>10, Zenon
<1> QED BY <1>1, SnapshotEnds DEF IsGraph

\* What stands for no snapshot is an empty graph.
LEMMA NoGraphIsGraph == IsGraph(NoGraph)
<1>1. Nodes(NoGraph) = {} /\ DOMAIN NoGraph.edges = {}
  BY DEF NoGraph, Nodes
<1> QED BY <1>1, FS_EmptySet DEF IsGraph

\* An event brings one node at most.
LEMMA EventIsFinite ==
  ASSUME BuilderIsFinite, Receive
  PROVE  BuilderIsFinite'
<1>1. \E k : /\ DOMAIN processes' \subseteq DOMAIN processes \cup {k}
             /\ DOMAIN apps' \subseteq DOMAIN apps \cup {k}
             /\ DOMAIN sockets' \subseteq DOMAIN sockets \cup {k}
             /\ DOMAIN files' \subseteq DOMAIN files \cup {k}
             /\ DOMAIN domains' \subseteq DOMAIN domains \cup {k}
  <2>1. ASSUME NEW ts, ProcessEvent(ts)
        PROVE  \E k : /\ DOMAIN processes' \subseteq DOMAIN processes \cup {k}
                      /\ UNCHANGED <<apps, sockets, files, domains>>
    <3>1. PICK k \in ProcessId : \/ OnProcessBirth(k, ParentPid(k), ts)
                                 \/ OnProcessDeath(k, ParentPid(k), ts)
      BY <2>1 DEF ProcessEvent
    <3> QED BY <3>1 DEF OnProcessBirth, OnProcessDeath, Put
  <2>2. ASSUME NEW ts, SocketEvent(ts)
        PROVE  \E k : /\ DOMAIN sockets' \subseteq DOMAIN sockets \cup {k}
                      /\ UNCHANGED <<processes, apps, files, domains>>
    <3>1. PICK k \in Socket, pid \in Pid : \/ OnConnectionOpened(k, pid, ts)
                                           \/ OnConnectionClosed(k, pid, ts)
      BY <2>2 DEF SocketEvent
    <3> QED BY <3>1 DEF OnConnectionOpened, OnConnectionClosed, Put
  <2>3. ASSUME NEW ts, FileEvent(ts)
        PROVE  \E k : /\ DOMAIN files' \subseteq DOMAIN files \cup {k}
                      /\ UNCHANGED <<processes, apps, sockets, domains>>
    <3>1. PICK k \in File, count \in 1..2 : OnFileChanged(k, {}, count, ts)
      BY <2>3 DEF FileEvent
    <3> QED BY <3>1 DEF OnFileChanged, Put
  <2>4. ASSUME FocusEvent
        PROVE  \E k : /\ DOMAIN apps' \subseteq DOMAIN apps \cup {k}
                      /\ UNCHANGED <<processes, sockets, files, domains>>
    <3>1. (\E k \in App : OnAppFocus(k, now)) \/ OnFocusOnNothing(now)
      BY <2>4 DEF FocusEvent
    <3>2. DOMAIN FrontClosed(now) = DOMAIN apps
      BY DEF FrontClosed
    <3> QED BY <3>1, <3>2 DEF OnAppFocus, OnFocusOnNothing, OnObservation, Put
  <2>5. ASSUME DnsEvent
        PROVE  \E k : /\ DOMAIN domains' \subseteq DOMAIN domains \cup {k}
                      /\ UNCHANGED <<processes, apps, sockets, files>>
    <3>1. \/ OnObservation(now)
          \/ \E k, masked, pid : OnDnsQuery(k, masked, pid, now)
      BY <2>5 DEF DnsEvent
    <3> QED BY <3>1 DEF OnDnsQuery, OnObservation, Put
  <2> QED BY <2>1, <2>2, <2>3, <2>4, <2>5 DEF Receive
<1>2. PICK k : /\ DOMAIN processes' \subseteq DOMAIN processes \cup {k}
               /\ DOMAIN apps' \subseteq DOMAIN apps \cup {k}
               /\ DOMAIN sockets' \subseteq DOMAIN sockets \cup {k}
               /\ DOMAIN files' \subseteq DOMAIN files \cup {k}
               /\ DOMAIN domains' \subseteq DOMAIN domains \cup {k}
  BY <1>1
<1>3. ASSUME NEW S, NEW T, IsFiniteSet(S), T \subseteq S \cup {k}  PROVE IsFiniteSet(T)
  BY <1>3, FS_AddElement, FS_Subset
<1> QED BY <1>2, <1>3 DEF BuilderIsFinite

\* Trimming leaves no more than there was.
LEMMA TrimIsFinite ==
  ASSUME BuilderIsFinite, NEW cutoff, TrimBefore(cutoff)
  PROVE  BuilderIsFinite'
<1>1. /\ DOMAIN processes' \subseteq DOMAIN processes /\ DOMAIN apps' = DOMAIN apps
      /\ DOMAIN sockets' \subseteq DOMAIN sockets /\ DOMAIN files' \subseteq DOMAIN files
      /\ DOMAIN domains' \subseteq DOMAIN domains
  BY DEF TrimBefore, Kept, Restrict
<1>2. ASSUME NEW S, NEW T, IsFiniteSet(S), T \subseteq S  PROVE IsFiniteSet(T)
  BY <1>2, FS_Subset
<1> QED BY <1>1, <1>2 DEF BuilderIsFinite

\* No step makes the builder infinite or leaves an edge without its ends.
LEMMA GraphStep ==
  ASSUME GraphInv, [Next]_vars
  PROVE  GraphInv'
<1>1. ASSUME UNCHANGED <<builderVars, graph, before>>  PROVE GraphInv'
  BY <1>1 DEF builderVars, GraphInv, BuilderIsFinite
<1>2. CASE Receive
  <2>1. UNCHANGED <<graph, before>>
    BY <1>2 DEF Receive, reportVars
  <2>2. BuilderIsFinite'
    BY <1>2, EventIsFinite DEF GraphInv
  <2> QED BY <2>1, <2>2 DEF GraphInv
<1>3. CASE Tick
  <2>1. CASE UNCHANGED <<builderVars, reportVars>>
    BY <1>1, <2>1 DEF reportVars
  <2>2. CASE /\ before' = graph /\ graph' \in {Snapshot(order) : order \in Orders}
             /\ TrimBefore(Later(Last(window).ts - Ttl, 0))
    <3>1. PICK order \in Orders : graph' = Snapshot(order)
      BY <2>2
    <3>2. IsGraph(graph')
      BY <3>1, SnapshotIsGraph DEF GraphInv
    <3>3. BuilderIsFinite'
      BY <2>2, TrimIsFinite DEF GraphInv
    <3> QED BY <2>2, <3>2, <3>3 DEF GraphInv
  <2> QED BY <1>3, <2>1, <2>2 DEF Tick
<1>4. CASE Advance
  BY <1>1, <1>4 DEF Advance, reportVars
<1>5. CASE UNCHANGED vars
  BY <1>1, <1>5 DEF vars, reportVars
<1> QED BY <1>2, <1>3, <1>4, <1>5 DEF Next

\* As long as no two clusters of the snapshot before are joined and no edge of
\* it is gone, each of its clusters is in one of the later snapshot and none is
\* reported to merge; what is counted as components are a partition of the nodes
\* that no edge crosses (score_snapshot_diff, connected_components).
THEOREM GrowthIsNeverAMerge == Spec => []GrowthIsNotAMerge
<1>1. Init => GraphInv
  <2> SUFFICES ASSUME Init  PROVE GraphInv
    OBVIOUS
  <2>1. BuilderIsFinite
    <3>1. /\ DOMAIN processes = {} /\ DOMAIN apps = {} /\ DOMAIN sockets = {}
          /\ DOMAIN files = {} /\ DOMAIN domains = {}
      BY DEF Init, NewBuilder, Empty
    <3> QED BY <3>1, FS_EmptySet DEF BuilderIsFinite
  <2> QED BY <2>1, NoGraphIsGraph DEF Init, GraphInv
<1>2. GraphInv /\ [Next]_vars => GraphInv'
  BY GraphStep
<1>3. GraphInv => GrowthIsNotAMerge
  BY GraphsGrowWithoutMerge DEF GraphInv
<1> QED BY <1>1, <1>2, <1>3, PTL DEF Spec

-----------------------------------------------------------------------------
(* The window.  Events that are no file changes are at most one time late,  *)
(* so the first of the window is no older than WindowNs before the newest.  *)

IsSeq(s) == \E S : s \in Seq(S)

\* No event is older than one before it by more than the lag, but file changes.
Ordered(w, lag) ==
  \A i, j \in DOMAIN w : i < j /\ w[j].kind # "file_changed" => w[j].ts >= w[i].ts - lag

WindowInv ==
  /\ now \in Nat /\ newest \in Nat \cup {None} /\ newest <= now
  /\ evicted \in Nat \cup {None}
  /\ evicted # None /\ "file" \notin mix => evicted < newest - WindowNs
  /\ IsSeq(window)
  /\ \A i \in DOMAIN window : window[i].ts \in Nat /\ window[i].ts <= now
  /\ Ordered(window, Lag)
  /\ IF window = <<>> THEN newest = None ELSE window[1].ts >= newest - WindowNs

\* The largest of some integers that have a bound.
LEMMA MaxOfInts ==
  ASSUME NEW S \in SUBSET Int, S # {}, NEW b \in Int, \A x \in S : x <= b
  PROVE  Max(S) \in S /\ \A x \in S : x <= Max(S)
<1> DEFINE T == {b - x : x \in S}
<1>1. T \in SUBSET Nat /\ T # {}
  <2>1. \A x \in S : b - x \in Nat
    OBVIOUS
  <2> QED BY <2>1
<1>2. PICK t \in T : \A u \in T : t <= u
  <2> HIDE DEF T
  <2> QED BY <1>1, NatLeast
<1>3. PICK m \in S : t = b - m
  BY <1>2
<1>4. ASSUME NEW x \in S  PROVE m >= x
  <2>1. b - x \in T
    OBVIOUS
  <2>2. b - m <= b - x
    BY <1>2, <1>3, <2>1
  <2> QED BY <2>2
<1>5. \E x \in S : \A y \in S : x >= y
  BY <1>4
<1>6. Max(S) \in S /\ \A x \in S : Max(S) >= x
  BY <1>5 DEF Max
<1> QED BY <1>6

\* What is left after an eviction begins with the first event that is young.
LEMMA EvictIs ==
  ASSUME NEW w, IsSeq(w), w # <<>>, \A i \in DOMAIN w : w[i].ts \in Nat
  PROVE  \E m \in 1..Len(w) :
           /\ Evict(w) = SubSeq(w, m, Len(w))
           /\ w[m].ts >= w[Len(w)].ts - WindowNs
           /\ \A i \in 1..(m - 1) : w[i].ts < w[Len(w)].ts - WindowNs
<1> DEFINE old == w[Len(w)].ts - WindowNs
           young == {i \in DOMAIN w : w[i].ts >= old}
<1>1. Len(w) \in Nat /\ DOMAIN w = 1..Len(w) /\ Len(w) \in DOMAIN w
  BY DEF IsSeq
<1>2. WindowNs \in Nat /\ old \in Int
  BY <1>1, NarrationAssumption
<1>3. young \in SUBSET Nat /\ young # {}
  <2>1. Len(w) \in young
    BY <1>1, <1>2
  <2> QED BY <1>1, <2>1
<1>4. PICK m \in young : \A i \in young : m <= i
  <2> HIDE DEF young
  <2> QED BY <1>3, NatLeast
<1>5. Min(young) = m
  <2>1. Min(young) \in young /\ \A i \in young : Min(young) <= i
    <3> HIDE DEF young
    <3> QED BY <1>4 DEF Min
  <2>2. Min(young) \in Nat /\ m \in Nat /\ Min(young) <= m /\ m <= Min(young)
    BY <1>3, <1>4, <2>1
  <2> QED BY <2>2
<1>6. Evict(w) = SubSeq(w, m, Len(w))
  BY <1>5 DEF Evict, Last
<1>7. m \in 1..Len(w) /\ w[m].ts >= old
  BY <1>1, <1>4
<1>8. ASSUME NEW i \in 1..(m - 1)  PROVE w[i].ts < old
  <2>1. i \in DOMAIN w /\ i < m
    BY <1>1, <1>7
  <2>2. ~ (w[i].ts >= old)
    BY <1>4, <1>7, <2>1
  <2> QED BY <1>2, <2>1, <2>2
<1> QED BY <1>6, <1>7, <1>8

\* The events of one observation have one time, and are all of them file
\* changes or none, which are then no more than the lag late.
Batch(evs, t) ==
  /\ IsSeq(evs) /\ evs # <<>> /\ t \in Nat /\ t <= now
  /\ \A i \in DOMAIN evs : "ts" \in DOMAIN evs[i] /\ evs[i].ts = t
  /\ \/ "file" \in mix /\ \A i \in DOMAIN evs : evs[i].kind = "file_changed"
     \/ t >= now - Lag /\ \A i \in DOMAIN evs : evs[i].kind # "file_changed"

\* All that was in the window, and what comes.
LEMMA JoinedWindow ==
  ASSUME WindowInv, NEW evs, NEW t, Batch(evs, t), NEW all, all = window \o evs
  PROVE  /\ IsSeq(all) /\ all # <<>> /\ Len(all) \in Nat /\ DOMAIN all = 1..Len(all)
         /\ \A i \in DOMAIN all : all[i].ts \in Nat /\ all[i].ts <= now
         /\ all[Len(all)].ts = t
         /\ Ordered(all, Lag)
         /\ all[1].ts = IF window = <<>> THEN t ELSE window[1].ts
<1>1. /\ Len(window) \in Nat /\ DOMAIN window = 1..Len(window)
      /\ Len(evs) \in Nat \ {0} /\ DOMAIN evs = 1..Len(evs)
  BY DEF WindowInv, Batch, IsSeq
<1>2. /\ IsSeq(all) /\ Len(all) = Len(window) + Len(evs) /\ DOMAIN all = 1..Len(all)
      /\ \A i \in 1..Len(all) :
           all[i] = IF i <= Len(window) THEN window[i] ELSE evs[i - Len(window)]
  <2>1. PICK S : window \in Seq(S)
    BY DEF WindowInv, IsSeq
  <2>2. PICK T : evs \in Seq(T)
    BY DEF Batch, IsSeq
  <2>3. window \in Seq(S \cup T) /\ evs \in Seq(S \cup T)
    BY <2>1, <2>2, SeqMonotonic
  <2>4. all \in Seq(S \cup T)
    BY <2>3
  <2> QED BY <2>3, <2>4, ConcatProperties DEF IsSeq
<1>3. \A i \in 1..Len(all) :
        IF i <= Len(window) THEN i \in DOMAIN window /\ all[i] = window[i]
        ELSE i - Len(window) \in DOMAIN evs /\ all[i] = evs[i - Len(window)]
  BY <1>1, <1>2
<1>4. \A i \in DOMAIN all : all[i].ts \in Nat /\ all[i].ts <= now
  BY <1>2, <1>3 DEF WindowInv, Batch
<1>5. Len(all) \in 1..Len(all) /\ ~ (Len(all) <= Len(window)) /\ 1 \in 1..Len(all)
  BY <1>1, <1>2
<1>6. all[Len(all)].ts = t
  BY <1>3, <1>5 DEF Batch
<1>7. all[1].ts = IF window = <<>> THEN t ELSE window[1].ts
  <2>1. window = <<>> <=> Len(window) = 0
    BY DEF WindowInv, IsSeq
  <2> QED BY <1>1, <1>3, <1>5, <2>1 DEF Batch
<1>8. ASSUME NEW i \in DOMAIN all, NEW j \in DOMAIN all, i < j,
             all[j].kind # "file_changed"
      PROVE  all[j].ts >= all[i].ts - Lag
  <2>0. Lag \in {0, 1}
    BY DEF Lag
  <2>1. CASE j <= Len(window)
    <3>1. /\ i \in DOMAIN window /\ all[i] = window[i]
          /\ j \in DOMAIN window /\ all[j] = window[j]
      BY <1>1, <1>2, <1>3, <1>8, <2>1
    <3> QED BY <1>8, <3>1 DEF WindowInv, Ordered
  <2>2. CASE ~ (j <= Len(window))
    <3>1. j - Len(window) \in DOMAIN evs /\ all[j] = evs[j - Len(window)]
      BY <1>2, <1>3, <2>2
    <3>2. all[j].ts = t /\ t \in Nat /\ t >= now - Lag
      BY <1>8, <3>1 DEF Batch
    <3>3. all[i].ts \in Nat /\ all[i].ts <= now
      BY <1>4
    <3>4. now \in Nat
      BY DEF WindowInv
    <3> QED BY ONLY <2>0, <3>2, <3>3, <3>4
  <2> QED BY <2>1, <2>2
<1>9. Ordered(all, Lag)
  BY <1>8 DEF Ordered
<1> QED BY <1>1, <1>2, <1>4, <1>5, <1>6, <1>7, <1>9

\* The window after an observation has all that is said of it.
LEMMA PushRecent ==
  ASSUME WindowInv, NEW evs, NEW t, Batch(evs, t), Push(evs),
         now' = now, mix' = mix
  PROVE  WindowInv'
<1> DEFINE all == window \o evs
           gone == SubSeq(all, 1, Len(all) - Len(Evict(all)))
           n == Len(all)
<1>1. /\ IsSeq(all) /\ all # <<>> /\ n \in Nat /\ DOMAIN all = 1..n
      /\ \A i \in DOMAIN all : all[i].ts \in Nat /\ all[i].ts <= now
      /\ all[n].ts = t
      /\ Ordered(all, Lag)
      /\ all[1].ts = IF window = <<>> THEN t ELSE window[1].ts
  BY JoinedWindow
<1>2. /\ window' = Evict(all)
      /\ evicted' = Max({evicted} \cup Times(gone))
      /\ newest' = IF Head(evs).kind = "file_changed" THEN newest ELSE Later(newest, Head(evs).ts)
  BY DEF Push
<1>3. /\ Head(evs).ts = t
      /\ (Head(evs).kind = "file_changed" => "file" \in mix)
  <2>1. 1 \in DOMAIN evs /\ Head(evs) = evs[1]
    BY DEF Batch, IsSeq
  <2> QED BY <2>1 DEF Batch
<1> HIDE DEF all
<1>4. PICK m \in 1..n :
        /\ Evict(all) = SubSeq(all, m, n)
        /\ all[m].ts >= all[n].ts - WindowNs
        /\ \A i \in 1..(m - 1) : all[i].ts < all[n].ts - WindowNs
  BY <1>1, EvictIs
<1>5. /\ IsSeq(window') /\ Len(window') = n - m + 1 /\ window' # <<>>
      /\ DOMAIN window' = 1..(n - m + 1)
      /\ \A i \in 1..(n - m + 1) : window'[i] = all[m + i - 1]
  <2>1. PICK S : all \in Seq(S)
    BY <1>1 DEF IsSeq
  <2> DEFINE left == SubSeq(all, m, n)
  <2>2. /\ left \in Seq(S) /\ Len(left) = n - m + 1 /\ DOMAIN left = 1..(n - m + 1)
        /\ \A i \in 1..(n - m + 1) : left[i] = all[m + i - 1]
    <3>1. /\ m \in Nat \ {0} /\ n \in Nat /\ m <= n /\ n - m + 1 \in Nat /\ m..n = {j \in 1..n : m <= j}
      BY <1>1, <1>4
    <3>2. left \in Seq(S) /\ Len(left) = n - m + 1
      BY <1>1, <2>1, <3>1, SubSeqProperties
    <3>3. \A i \in 1..(n - m + 1) : left[i] = all[m + i - 1]
      BY <1>1, <2>1, <3>1, SubSeqProperties
    <3> QED BY <3>1, <3>2, <3>3, LenProperties
  <2> HIDE DEF left
  <2>3. window' = left
    BY <1>2, <1>4 DEF left
  <2>4. IsSeq(left) /\ left # <<>>
    <3>1. n - m + 1 # 0
      BY <1>1, <1>4
    <3> QED BY <2>2, <3>1 DEF IsSeq
  <2> QED BY <2>2, <2>3, <2>4
<1>6. /\ DOMAIN gone = 1..(m - 1)
      /\ \A i \in 1..(m - 1) : gone[i] = all[i]
  <2>1. PICK S : all \in Seq(S)
    BY <1>1 DEF IsSeq
  <2>2. Len(all) - Len(Evict(all)) = m - 1
    BY <1>1, <1>2, <1>5
  <2> QED BY <1>1, <2>1, <2>2, SubSeqProperties
<1> HIDE DEF gone
<1>7. WindowNs \in Nat /\ t \in Nat /\ t <= now /\ now \in Nat
  BY NarrationAssumption DEF Batch, WindowInv
<1>8. newest \in Nat \cup {-1} /\ newest <= now
  BY DEF WindowInv, None
<1>9. /\ newest' \in Nat \cup {-1} /\ newest' <= now /\ newest <= newest'
      /\ newest' = newest \/ newest' = t
      /\ ("file" \notin mix => t <= newest')
  BY <1>2, <1>3, <1>7, <1>8 DEF Later
<1>10. /\ evicted' \in Nat \cup {None}
       /\ evicted' # None /\ "file" \notin mix => evicted' < newest' - WindowNs
  <2>1. \A x \in Times(gone) : x \in Nat /\ x <= now /\ x < t - WindowNs
    BY <1>1, <1>4, <1>6 DEF Times
  <2>2. evicted \in Nat \cup {-1}
    BY DEF WindowInv, None
  <2>3. evicted' \in {evicted} \cup Times(gone)
    <3> DEFINE S == {evicted} \cup Times(gone)
    <3>1. S \in SUBSET Int /\ S # {} /\ \A x \in S : x <= evicted + now + 1
      BY <1>7, <2>1, <2>2
    <3>2. evicted + now + 1 \in Int
      BY <1>7, <2>2
    <3>3. Max(S) \in S
      <4> HIDE DEF S
      <4> QED BY <3>1, <3>2, MaxOfInts
    <3> QED BY <1>2, <3>3
  <2>4. ASSUME evicted' # None, "file" \notin mix  PROVE evicted' < newest' - WindowNs
    <3>1. t <= newest' /\ newest <= newest' /\ newest' \in Int
      BY <1>8, <1>9, <2>4
    <3>2. CASE evicted' = evicted
      <4>1. evicted < newest - WindowNs
        BY <2>4, <3>2 DEF WindowInv
      <4>2. newest \in Int /\ evicted \in Int /\ WindowNs \in Int
        BY <1>7, <1>8, <2>2
      <4>3. PICK late \in Int : late = newest'
        BY <3>1
      <4>4. newest <= late
        BY <3>1, <4>3
      <4>5. evicted < late - WindowNs
        BY <4>1, <4>2, <4>4
      <4> QED BY <3>2, <4>3, <4>5
    <3>3. CASE evicted' \in Times(gone)
      BY <1>7, <2>1, <3>1, <3>3
    <3> QED BY <2>3, <3>2, <3>3
  <2>5. evicted' \in Nat \cup {None}
    BY <2>1, <2>2, <2>3 DEF None
  <2> QED BY <2>4, <2>5
<1>11. \A i \in DOMAIN window' : window'[i].ts \in Nat /\ window'[i].ts <= now
  <2>1. \A i \in 1..(n - m + 1) : m + i - 1 \in 1..n
    BY <1>1, <1>4
  <2> QED BY <1>1, <1>5, <2>1
<1>12. Ordered(window', Lag)
  <2> SUFFICES ASSUME NEW i \in DOMAIN window', NEW j \in DOMAIN window',
                      i < j, window'[j].kind # "file_changed"
               PROVE  window'[j].ts >= window'[i].ts - Lag
    BY DEF Ordered
  <2>1. /\ m + i - 1 \in 1..n /\ m + j - 1 \in 1..n /\ m + i - 1 < m + j - 1
    BY <1>1, <1>4, <1>5
  <2> QED BY <1>1, <1>5, <2>1 DEF Ordered
<1>13. window'[1].ts >= newest' - WindowNs
  <2>1. window'[1] = all[m]
    BY <1>1, <1>4, <1>5
  <2>2. all[m].ts \in Nat /\ all[m].ts >= t - WindowNs
    BY <1>1, <1>4
  <2>3. CASE t >= newest
    BY <1>7, <1>8, <1>9, <2>1, <2>2, <2>3
  <2>4. CASE ~ (t >= newest)
    <3>1. window # <<>>
      BY <1>7, <2>4 DEF WindowInv, None
    <3>2. all[1].ts \in Nat /\ all[1].ts >= newest - WindowNs
      BY <1>1, <3>1 DEF WindowInv
    <3>3. m = 1
      <4>1. ~ (all[1].ts < t - WindowNs)
        BY <1>7, <1>8, <2>4, <3>2
      <4> QED BY <1>1, <1>4, <4>1
    <3>4. newest' = newest
      BY <1>7, <1>8, <1>9, <2>4
    <3> QED BY <2>1, <3>2, <3>3, <3>4
  <2> QED BY <2>3, <2>4
<1>14. Lag' = Lag
  BY DEF Lag
<1> QED BY <1>5, <1>7, <1>9, <1>10, <1>11, <1>12, <1>13, <1>14 DEF WindowInv, None

\* What a stage sends at its time is a batch.
LEMMA BatchOfOne ==
  ASSUME NEW e, NEW t \in Nat, t <= now, "ts" \in DOMAIN e, e.ts = t,
         \/ "file" \in mix /\ e.kind = "file_changed"
         \/ t >= now - Lag /\ e.kind # "file_changed"
  PROVE  Batch(<<e>>, t)
<1>1. <<e>> \in Seq({e}) /\ <<e>> # <<>>
  OBVIOUS
<1>2. \A i \in DOMAIN <<e>> : <<e>>[i] = e
  OBVIOUS
<1> QED BY <1>1, <1>2 DEF Batch, IsSeq

\* What a stage sends as two events of one time is a batch.
LEMMA BatchOfTwo ==
  ASSUME NEW d, NEW e, NEW t \in Nat, t <= now, t >= now - Lag,
         "ts" \in DOMAIN d \cap DOMAIN e, d.ts = t, e.ts = t,
         d.kind # "file_changed", e.kind # "file_changed"
  PROVE  Batch(<<d, e>>, t)
<1>1. <<d, e>> \in Seq({d, e}) /\ <<d, e>> # <<>>
  OBVIOUS
<1>2. \A i \in DOMAIN <<d, e>> : <<d, e>>[i] \in {d, e}
  OBVIOUS
<1> QED BY <1>1, <1>2 DEF Batch, IsSeq

\* What is received is a batch that is pushed.
LEMMA ReceivedBatch ==
  ASSUME WindowInv, Receive
  PROVE  \E evs, t : Batch(evs, t) /\ Push(evs)
<1>2. now \in Nat
  BY DEF WindowInv
<1>4. ASSUME NEW ts \in {now - 1} \cap Nat, ProcessEvent(ts)
      PROVE  \E evs, t : Batch(evs, t) /\ Push(evs)
  <2>1. ts \in Nat /\ ts <= now /\ ts >= now - Lag
    BY <1>2, <1>4 DEF ProcessEvent, Lag
  <2>2. PICK k \in ProcessId :
          \/ Push(<<[kind |-> "process_birth", ts |-> ts, process |-> k]>>)
          \/ Push(<<[kind |-> "process_death", ts |-> ts, process |-> k]>>)
    BY <1>4 DEF ProcessEvent
  <2>3. /\ Batch(<<[kind |-> "process_birth", ts |-> ts, process |-> k]>>, ts)
        /\ Batch(<<[kind |-> "process_death", ts |-> ts, process |-> k]>>, ts)
    BY <2>1, BatchOfOne
  <2> QED BY <2>2, <2>3
<1>5. ASSUME NEW ts \in {now - 1} \cap Nat, SocketEvent(ts)
      PROVE  \E evs, t : Batch(evs, t) /\ Push(evs)
  <2>1. ts \in Nat /\ ts <= now /\ ts >= now - Lag
    BY <1>2, <1>5 DEF SocketEvent, Lag
  <2>2. PICK s \in Socket, pid \in Pid, bytes \in Bytes :
          LET About(kind) == [kind |-> kind, ts |-> ts, socket |-> s, name |-> pid,
                              bytes |-> bytes]
          IN \/ Push(<<About("connection_opened")>>)
             \/ Push(<<About("connection_closed"), About("connection_completed")>>)
    BY <1>5 DEF SocketEvent
  <2> DEFINE About(kind) == [kind |-> kind, ts |-> ts, socket |-> s, name |-> pid,
                             bytes |-> bytes]
  <2>3. Batch(<<About("connection_opened")>>, ts)
    BY <2>1, BatchOfOne
  <2>4. Batch(<<About("connection_closed"), About("connection_completed")>>, ts)
    BY <2>1, BatchOfTwo
  <2> QED BY <2>2, <2>3, <2>4
<1>6. ASSUME NEW ts \in 0..now, FileEvent(ts)
      PROVE  \E evs, t : Batch(evs, t) /\ Push(evs)
  <2>1. PICK f \in File : Push(<<[kind |-> "file_changed", ts |-> ts, path |-> f]>>)
    BY <1>6 DEF FileEvent
  <2>2. Batch(<<[kind |-> "file_changed", ts |-> ts, path |-> f]>>, ts)
    BY <1>2, <1>6, BatchOfOne DEF FileEvent
  <2> QED BY <2>1, <2>2
<1>7. now >= now - Lag /\ now <= now
  BY <1>2 DEF Lag
<1>8. ASSUME FocusEvent
      PROVE  \E evs, t : Batch(evs, t) /\ Push(evs)
  <2>1. PICK a : Push(<<[kind |-> "app_focus", ts |-> now, app |-> a]>>)
    BY <1>8 DEF FocusEvent
  <2>2. Batch(<<[kind |-> "app_focus", ts |-> now, app |-> a]>>, now)
    BY <1>2, <1>7, BatchOfOne
  <2> QED BY <2>1, <2>2
<1>9. ASSUME DnsEvent
      PROVE  \E evs, t : Batch(evs, t) /\ Push(evs)
  <2> DEFINE Row(q) == [kind |-> "dns_query", ts |-> now, qname |-> q.qname, hash |-> q.hash,
                        client |-> q.client, comm |-> q.comm]
  <2>1. PICK q : Push(<<Row(q)>>)
    BY <1>9 DEF DnsEvent
  <2>2. Batch(<<Row(q)>>, now)
    BY <1>2, <1>7, BatchOfOne
  <2> QED BY <2>1, <2>2
<1> QED BY <1>4, <1>5, <1>6, <1>8, <1>9 DEF Receive

\* A batch leaves the window as recent as the invariant says.
LEMMA ReceiveRecent ==
  ASSUME WindowInv, Receive
  PROVE  WindowInv'
<1>1. now' = now /\ mix' = mix
  BY DEF Receive
<1>2. PICK evs, t : Batch(evs, t) /\ Push(evs)
  BY ReceivedBatch
<1> QED BY <1>1, <1>2, PushRecent

\* No step leaves the window older than the invariant says.
LEMMA RecentStep ==
  ASSUME WindowInv, [Next]_vars
  PROVE  WindowInv'
<1>1. CASE Receive
  BY <1>1, ReceiveRecent
<1>2. CASE Tick \/ UNCHANGED vars
  <2>1. UNCHANGED <<window, now, mix, newest, evicted>>
    BY <1>2 DEF Tick, vars, boundVars
  <2>2. Lag' = Lag
    BY <2>1 DEF Lag
  <2> QED BY <2>1, <2>2 DEF WindowInv
<1>3. CASE Advance
  <2>1. UNCHANGED <<window, mix, newest, evicted>> /\ now' = now + 1
    BY <1>3 DEF Advance, boundVars
  <2>2. Lag' = Lag
    BY <2>1 DEF Lag
  <2>3. now' \in Nat /\ newest' <= now'
    BY <2>1 DEF WindowInv, None
  <2>4. \A i \in DOMAIN window : window[i].ts <= now'
    BY <2>1 DEF WindowInv
  <2> QED BY <2>1, <2>2, <2>3, <2>4 DEF WindowInv
<1> QED BY <1>1, <1>2, <1>3 DEF Next

\* The invariant of the window says that it is recent.
LEMMA RecentHolds == WindowInv => WindowIsRecent
<1> SUFFICES ASSUME WindowInv, NEW i \in DOMAIN window, window[i].kind # "file_changed"
             PROVE  window[i].ts >= newest - WindowNs - Lag
  BY DEF WindowIsRecent, WindowInv
<1>1. /\ Len(window) \in Nat /\ DOMAIN window = 1..Len(window) /\ window # <<>>
      /\ 1 \in DOMAIN window
  BY DEF WindowInv, IsSeq
<1>2. window[1].ts \in Nat /\ window[i].ts \in Nat /\ window[1].ts >= newest - WindowNs
  BY <1>1 DEF WindowInv
<1>3. WindowNs \in Nat /\ newest \in Int /\ Lag \in Nat
  BY NarrationAssumption DEF WindowInv, None, Lag
<1>4. window[i].ts >= window[1].ts - Lag
  <2>1. CASE i = 1
    BY <1>2, <1>3, <2>1
  <2>2. CASE i # 1
    BY <1>1, <2>2 DEF WindowInv, Ordered
  <2> QED BY <2>1, <2>2
<1> QED BY <1>2, <1>3, <1>4

\* Whatever the times of events and the width of the window, evicting from the
\* front keeps the last WindowNs of it whole and little that is older.
THEOREM WindowIsAlwaysRecent == Spec => []WindowIsRecent
<1>1. Init => WindowInv
  <2> SUFFICES ASSUME Init  PROVE WindowInv
    OBVIOUS
  <2>1. window = <<>> /\ now = 0 /\ newest = None /\ evicted = None
    BY DEF Init
  <2>2. <<>> \in Seq({}) /\ DOMAIN <<>> = {}
    OBVIOUS
  <2> QED BY <2>1, <2>2 DEF WindowInv, IsSeq, Ordered, None
<1>2. WindowInv /\ [Next]_vars => WindowInv'
  BY RecentStep
<1> QED BY <1>1, <1>2, RecentHolds, PTL DEF Spec

-----------------------------------------------------------------------------
(* What is said of a window.  The window a report is about has times.       *)

IsWindow(w) == IsSeq(w) /\ \A i \in DOMAIN w : w[i].ts \in Nat

\* A sequence has finitely many places, 1 to its length.
LEMMA WindowIsFinite ==
  ASSUME NEW w, IsSeq(w)
  PROVE  /\ IsFiniteSet(DOMAIN w) /\ DOMAIN w = 1..Len(w) /\ Len(w) \in Nat
         /\ Cardinality(DOMAIN w) = Len(w)
<1>1. DOMAIN w = 1..Len(w) /\ Len(w) \in Nat
  BY DEF IsSeq
<1>2. IsFiniteSet(1..Len(w)) /\ Cardinality(1..Len(w)) = Len(w)
  <2>1. PICK n \in Nat : n = Len(w)
    BY <1>1
  <2>2. IsFiniteSet(1..n) /\ Cardinality(1..n) = IF 1 > n THEN 0 ELSE n - 1 + 1
    BY FS_Interval
  <2>3. n = IF 1 > n THEN 0 ELSE n - 1 + 1
    BY <2>1
  <2> QED BY <2>1, <2>2, <2>3
<1> QED BY <1>1, <1>2

\* The image of a finite set.
LEMMA ImageIsSmaller ==
  ASSUME NEW S, IsFiniteSet(S), NEW f
  PROVE  /\ IsFiniteSet({f[x] : x \in S})
         /\ Cardinality({f[x] : x \in S}) <= Cardinality(S)
<1> DEFINE T == {f[x] : x \in S}
           g == [x \in S |-> f[x]]
<1>1. g \in Surjection(S, T)
  BY DEF Surjection
<1> HIDE DEF g, T
<1>2. IsFiniteSet(T) /\ Cardinality(T) <= Cardinality(S)
  BY <1>1, FS_Surjection
<1> QED BY <1>2 DEF T

\* Elements counted by a key add up to all of them.
LEMMA CountedByKey ==
  ASSUME NEW I, IsFiniteSet(I), NEW key, NEW A, IsFiniteSet(A), \A i \in I : key[i] \in A,
         NEW counts, DOMAIN counts = A,
         \A a \in A : counts[a] = Cardinality({i \in I : key[i] = a})
  PROVE  Total(counts) = Cardinality(I)
<1> DEFINE parts == [a \in A |-> {i \in I : key[i] = a}]
<1>2. \A a \in A : IsFiniteSet(parts[a]) /\ counts[a] = Cardinality(parts[a])
  BY FS_Subset
<1>3. \A a, b \in A : a = b \/ parts[a] \cap parts[b] = {}
  OBVIOUS
<1>4. UnionOver(parts, A) = I
  <2>1. ASSUME NEW i \in I  PROVE i \in UnionOver(parts, A)
    <3>1. key[i] \in A /\ i \in parts[key[i]]
      OBVIOUS
    <3> QED BY <3>1 DEF UnionOver
  <2>2. \A a \in A : parts[a] \subseteq I
    OBVIOUS
  <2> HIDE DEF parts
  <2> QED BY <2>1, <2>2 DEF UnionOver
<1> HIDE DEF parts
<1>5. SumOver(counts, A) = Cardinality(UnionOver(parts, A))
  BY <1>2, <1>3, CountsAddUp
<1> QED BY <1>4, <1>5 DEF Total

\* The counts of all kinds add up to the length of the window.
LEMMA KindsAddUp ==
  ASSUME NEW w, IsSeq(w)
  PROVE  Total(KindCounts(w)) = Len(w)
<1> DEFINE key == [i \in DOMAIN w |-> w[i].kind]
           A == {key[i] : i \in DOMAIN w}
<1>1. DOMAIN KindCounts(w) = A
  BY DEF KindCounts, CountBy
<1>2. \A a \in A : KindCounts(w)[a] = Cardinality({i \in DOMAIN w : key[i] = a})
  BY DEF KindCounts, CountBy
<1> HIDE DEF key
<1>3. Total(KindCounts(w)) = Cardinality(DOMAIN w)
  <2>1. IsFiniteSet(DOMAIN w)
    BY WindowIsFinite
  <2> DEFINE counts == KindCounts(w)
             I == DOMAIN w
  <2>2. DOMAIN counts = A /\ IsFiniteSet(I) /\ \A i \in I : key[i] \in A
    BY <1>1, <2>1
  <2>4. IsFiniteSet(A)
    BY <2>1, ImageIsSmaller
  <2>3. \A a \in A : counts[a] = Cardinality({i \in I : key[i] = a})
    BY <1>2
  <2> HIDE DEF counts, I, A
  <2>5. Total(counts) = Cardinality(I)
    BY <2>2, <2>3, <2>4, CountedByKey
  <2> QED BY <2>5 DEF counts, I
<1> QED BY <1>3, WindowIsFinite

\* The narrator and the network reviewer sum the same bytes of the same
\* conversations.
LEMMA BytesAgree ==
  ASSUME NEW w
  PROVE  LET bytes == TopEndpoints(w).completed
             conversations == NetworkTable(w)
         IN /\ DOMAIN bytes = DOMAIN conversations
            /\ \A c \in DOMAIN bytes : bytes[c] = conversations[c].bytes
BY DEF TopEndpoints, NetworkTable, SumBy

\* A window has finitely many events of any kinds.
LEMMA KindsAreFinite ==
  ASSUME NEW w, IsSeq(w), NEW kinds
  PROVE  OfKinds(w, kinds) \subseteq DOMAIN w /\ IsFiniteSet(OfKinds(w, kinds))
<1> DEFINE I == OfKinds(w, kinds)
<1>1. I \in SUBSET DOMAIN w
  BY DEF OfKinds
<1> HIDE DEF I
<1>2. IsFiniteSet(I)
  BY <1>1, WindowIsFinite, FS_Subset
<1> QED BY <1>1, <1>2 DEF I

\* What is shown of a client is its tally.
LEMMA ShownClients ==
  ASSUME NEW w, NEW c \in DOMAIN TopDnsClients(w)
  PROVE  c \in DOMAIN DnsTally(w) /\ TopDnsClients(w)[c] = DnsTally(w)[c]
<1> DEFINE tally == DnsTally(w)
           Ahead(x) == {y \in DOMAIN tally :
                          \/ tally[y].total > tally[x].total
                          \/ (tally[y].total = tally[x].total /\ y < x)}
           kept == {x \in DOMAIN tally : Cardinality(Ahead(x)) < TopNDnsClients}
<1>1. TopDnsClients(w) = [x \in kept |-> tally[x]] /\ kept \subseteq DOMAIN tally
  BY DEF TopDnsClients, Restrict
<1> HIDE DEF kept
<1> QED BY <1>1

\* The queries that name a client.
QueriesOf(w, c) == {i \in OfKinds(w, {"dns_query"}) : w[i].client = c}

\* The tally of a client, by the queries it is of.
LEMMA TallyIs ==
  ASSUME NEW w, IsSeq(w), NEW c \in DOMAIN DnsTally(w)
  PROVE  /\ QueriesOf(w, c) \in SUBSET OfKinds(w, {"dns_query"}) /\ IsFiniteSet(QueriesOf(w, c))
         /\ c \in {w[i].client : i \in OfKinds(w, {"dns_query"})}
         /\ DnsTally(w)[c].total = Cardinality(QueriesOf(w, c))
         /\ DnsTally(w)[c].unique
              = Cardinality({w[i].hash : i \in QueriesOf(w, c)} \ {Missing})
<1> DEFINE queries == OfKinds(w, {"dns_query"})
           I == QueriesOf(w, c)
<1>1. DOMAIN DnsTally(w) = {w[i].client : i \in queries}
  BY DEF DnsTally
<1>2. /\ DnsTally(w)[c].total = Cardinality(I)
      /\ DnsTally(w)[c].unique = Cardinality({w[i].hash : i \in I} \ {Missing})
  BY DEF DnsTally, QueriesOf
<1>3. IsFiniteSet(queries)
  BY KindsAreFinite
<1>4. I \in SUBSET queries
  BY DEF QueriesOf
<1>5. IsFiniteSet(I)
  <2> HIDE DEF I, queries
  <2> QED BY <1>3, <1>4, FS_Subset
<1> QED BY <1>1, <1>2, <1>4, <1>5

\* A window has finitely many clients.
LEMMA ClientsAreFinite ==
  ASSUME NEW w, IsSeq(w)
  PROVE  IsFiniteSet(DOMAIN DnsTally(w))
<1> DEFINE queries == OfKinds(w, {"dns_query"})
           f == [i \in queries |-> w[i].client]
<1>1. DOMAIN DnsTally(w) = {f[i] : i \in queries}
  BY DEF DnsTally
<1>2. IsFiniteSet(queries)
  BY KindsAreFinite
<1> HIDE DEF f, queries
<1> QED BY <1>1, <1>2, ImageIsSmaller

\* The rows of the reviewer's table add up to the queries that have an id.
LEMMA RowsAddUp ==
  ASSUME NEW w, IsSeq(w)
  PROVE  Total(DnsTable(w)) = Cardinality(Identified(w))
<1> DEFINE K == Identified(w)
           key == [i \in K |-> <<DomainId(w[i]), ClientName(w[i])>>]
           A == {key[i] : i \in K}
           counts == DnsTable(w)
<1>1. DOMAIN counts = A /\ \A a \in A : counts[a] = Cardinality({i \in K : key[i] = a})
  <2>1. counts = [x \in A |-> Cardinality({i \in K : key[i] = x})]
    <3>1. counts = CountBy(K, LAMBDA i : <<DomainId(w[i]), ClientName(w[i])>>)
      BY DEF DnsTable
    <3>2. \A i \in K : key[i] = <<DomainId(w[i]), ClientName(w[i])>>
      OBVIOUS
    <3> HIDE DEF K
    <3> QED BY <3>1 DEF CountBy
  <2> HIDE DEF A, counts, key
  <2> QED BY <2>1
<1>2. IsFiniteSet(K)
  <2>1. K \in SUBSET OfKinds(w, {"dns_query"}) /\ IsFiniteSet(OfKinds(w, {"dns_query"}))
    BY KindsAreFinite DEF Identified
  <2> HIDE DEF K
  <2> QED BY <2>1, FS_Subset
<1>3. \A i \in K : key[i] \in A
  OBVIOUS
<1> HIDE DEF K, key
<1>4. IsFiniteSet(A)
  BY <1>2, ImageIsSmaller
<1> HIDE DEF A, counts
<1>5. Total(counts) = Cardinality(K)
  BY <1>1, <1>2, <1>3, <1>4, CountedByKey
<1> QED BY <1>5 DEF counts, K

\* Where they are named alike, a client's queries are those of its rows of the
\* other table and those that have no id.
LEMMA QueriesAgree ==
  ASSUME NEW w, IsSeq(w), NamedAlike(w), NEW c \in DOMAIN DnsTally(w)
  PROVE  LET Names == {q \in DOMAIN DnsTable(w) : q[2] = c}
             lost == {i \in OfKinds(w, {"dns_query"}) \ Identified(w) : w[i].client = c}
         IN DnsTally(w)[c].total = SumOver(DnsTable(w), Names) + Cardinality(lost)
<1> DEFINE queries == OfKinds(w, {"dns_query"})
           I == {i \in queries : w[i].client = c}
           K == {i \in Identified(w) : w[i].client = c}
           lost == {i \in queries \ Identified(w) : w[i].client = c}
           Key(i) == <<DomainId(w[i]), ClientName(w[i])>>
           Names == {q \in DOMAIN DnsTable(w) : q[2] = c}
           parts == [q \in Names |-> {i \in Identified(w) : Key(i) = q}]
<1>1. Identified(w) \in SUBSET queries /\ \A i \in queries : ClientName(w[i]) = w[i].client
  BY DEF Identified, NamedAlike
<1>2. DnsTally(w)[c].total = Cardinality(I) /\ IsFiniteSet(I)
  <2>1. I = QueriesOf(w, c)
    BY DEF QueriesOf
  <2> HIDE DEF I
  <2> QED BY <2>1, TallyIs
<1>3. DnsTable(w) = [x \in {Key(i) : i \in Identified(w)} |->
                       Cardinality({i \in Identified(w) : Key(i) = x})]
  BY DEF DnsTable, CountBy
<1>4. I = K \cup lost /\ K \cap lost = {} /\ K \in SUBSET I /\ lost \in SUBSET I
  <2> HIDE DEF queries
  <2> QED BY <1>1
<1>5. IsFiniteSet(K) /\ IsFiniteSet(lost)
  <2> HIDE DEF I, K, lost
  <2> QED BY <1>2, <1>4, FS_Subset
<1>6. Cardinality(I) = Cardinality(K) + Cardinality(lost)
  <2> HIDE DEF I, K, lost
  <2>1. Cardinality(K \cup lost) = Cardinality(K) + Cardinality(lost) - Cardinality(K \cap lost)
    BY <1>5, FS_Union
  <2>2. Cardinality(K \cap lost) = 0 /\ Cardinality(K) \in Nat /\ Cardinality(lost) \in Nat
    BY <1>4, <1>5, FS_EmptySet, FS_CardinalityType
  <2> QED BY <1>4, <2>1, <2>2
<1> HIDE DEF queries
<1>7. Names = {Key(i) : i \in K}
  <2>1. \A i \in Identified(w) : Key(i)[2] = w[i].client
    BY <1>1
  <2>2. DOMAIN DnsTable(w) = {Key(i) : i \in Identified(w)}
    BY <1>3
  <2> HIDE DEF Key
  <2> QED BY <2>1, <2>2
<1>8. IsFiniteSet(Names)
  <2> DEFINE f == [i \in K |-> Key(i)]
  <2>1. Names = {f[i] : i \in K}
    BY <1>7
  <2> HIDE DEF f, K, Names
  <2> QED BY <1>5, <2>1, ImageIsSmaller
<1>9. \A q \in Names : DnsTable(w)[q] = Cardinality(parts[q])
  BY <1>3
<1>10. \A q \in Names : parts[q] \in SUBSET K
  <2>1. ASSUME NEW q \in Names, NEW i \in Identified(w), Key(i) = q  PROVE w[i].client = c
    BY <1>1, <2>1
  <2> HIDE DEF Key
  <2> QED BY <2>1
<1>11. \A q \in Names : IsFiniteSet(parts[q])
  <2> HIDE DEF parts, K, Names
  <2> QED BY <1>5, <1>10, FS_Subset
<1>12. \A p, q \in Names : p = q \/ parts[p] \cap parts[q] = {}
  <2> HIDE DEF Names, Key
  <2> QED OBVIOUS
<1>13. UnionOver(parts, Names) = K
  <2>1. \A i \in K : Key(i) \in Names /\ i \in parts[Key(i)]
    <3>1. \A i \in K : Key(i) \in Names /\ i \in Identified(w)
      BY <1>7
    <3> HIDE DEF Names, Key
    <3> QED BY <3>1
  <2> HIDE DEF parts, K, Names, Key
  <2> QED BY <1>10, <2>1 DEF UnionOver
<1>14. SumOver(DnsTable(w), Names) = Cardinality(UnionOver(parts, Names))
  <2> DEFINE counts == DnsTable(w)
  <2> HIDE DEF parts, Names, counts
  <2>1. SumOver(counts, Names) = Cardinality(UnionOver(parts, Names))
    BY <1>8, <1>9, <1>11, <1>12, CountsAddUp DEF counts
  <2> QED BY <2>1 DEF counts
<1> QED BY <1>2, <1>6, <1>13, <1>14 DEF queries

\* Where they are named alike, a client has a row of the other table for each
\* of its names.
LEMMA NamesAgree ==
  ASSUME NEW w, IsSeq(w), NamedAlike(w), NEW c \in DOMAIN DnsTally(w)
  PROVE  DnsTally(w)[c].unique <= Cardinality({q \in DOMAIN DnsTable(w) : q[2] = c})
<1> DEFINE queries == OfKinds(w, {"dns_query"})
           I == {i \in queries : w[i].client = c}
           H == {w[i].hash : i \in I} \ {Missing}
           Key(i) == <<DomainId(w[i]), ClientName(w[i])>>
           A == {Key(i) : i \in Identified(w)}
           Names == {q \in DOMAIN DnsTable(w) : q[2] = c}
           asked == [h \in H |-> CHOOSE i \in I : w[i].hash = h]
           row == [h \in H |-> Key(asked[h])]
<1>1. DnsTally(w)[c].unique = Cardinality(H)
  <2>1. I = QueriesOf(w, c)
    BY DEF QueriesOf
  <2> HIDE DEF I
  <2> QED BY <2>1, TallyIs
<1>2. DOMAIN DnsTable(w) = A
  BY DEF DnsTable, CountBy
<1>3. \A h \in H : h # None /\ asked[h] \in I /\ w[asked[h]].hash = h
  BY DEF None, Missing
<1>4. \A i \in I : w[i].hash # None => i \in Identified(w)
  BY DEF Identified, HasDomainId, None, Missing
<1>5. \A i \in I : ClientName(w[i]) = c
  BY DEF NamedAlike
<1>6. \A i, j \in Identified(w) :
        DomainId(w[i]) = DomainId(w[j]) /\ None \notin {w[i].hash, w[j].hash}
          => w[i].hash = w[j].hash
  BY DEF NamedAlike
<1>7. Names \in SUBSET A /\ IsFiniteSet(A)
  <2> DEFINE K == Identified(w)
             f == [i \in K |-> Key(i)]
  <2>1. K \in SUBSET queries /\ IsFiniteSet(queries)
    BY KindsAreFinite DEF Identified
  <2>2. A = {f[i] : i \in K}
    OBVIOUS
  <2>3. IsFiniteSet(K)
    <3> HIDE DEF K, queries
    <3> QED BY <2>1, FS_Subset
  <2>4. IsFiniteSet(A)
    <3> HIDE DEF K, f, A
    <3> QED BY <2>2, <2>3, ImageIsSmaller
  <2> QED BY <1>2, <2>4
<1>8. IsFiniteSet(Names)
  <2> HIDE DEF Names, A
  <2> QED BY <1>7, FS_Subset
<1> HIDE DEF H, I, asked, queries
<1>9. row \in Injection(H, Names)
  <2>1. \A h \in H : row[h] = Key(asked[h]) /\ asked[h] \in Identified(w)
    BY <1>3, <1>4
  <2>2. ASSUME NEW h \in H  PROVE row[h] \in Names
    <3>1. row[h] \in A /\ row[h][2] = ClientName(w[asked[h]])
      BY <2>1
    <3> QED BY <1>2, <1>3, <1>5, <3>1
  <2>3. ASSUME NEW h \in H, NEW l \in H, row[h] = row[l]  PROVE h = l
    <3>1. DomainId(w[asked[h]]) = DomainId(w[asked[l]])
      BY <2>1, <2>3
    <3>2. PICK i \in Identified(w), j \in Identified(w) : i = asked[h] /\ j = asked[l]
      BY <2>1
    <3>3. w[i].hash = h /\ w[j].hash = l /\ h # None /\ l # None
      BY <1>3, <3>2
    <3>4. DomainId(w[i]) = DomainId(w[j])
      BY <3>1, <3>2
    <3>5. None \notin {w[i].hash, w[j].hash}
      BY <3>3
    <3> HIDE DEF row
    <3> QED BY <1>6, <3>3, <3>4, <3>5
  <2>4. row \in [H -> Names]
    BY <2>2
  <2> HIDE DEF row, Names
  <2> QED BY <2>3, <2>4 DEF Injection, IsInjective
<1> HIDE DEF row, Names
<1>10. Cardinality(H) <= Cardinality(Names)
  BY <1>8, <1>9, FS_Injection
<1> QED BY <1>1, <1>10 DEF Names

\* The narrator's and the reviewers' tables of any window agree.
LEMMA TablesAlwaysAgree ==
  ASSUME NEW w, IsSeq(w)
  PROVE  TablesAgree(w)
<1>1. ASSUME NamedAlike(w), NEW c \in DOMAIN TopDnsClients(w)
      PROVE  LET Names == {q \in DOMAIN DnsTable(w) : q[2] = c}
                 lost == {i \in OfKinds(w, {"dns_query"}) \ Identified(w) : w[i].client = c}
             IN /\ TopDnsClients(w)[c].total
                     = SumOver(DnsTable(w), Names) + Cardinality(lost)
                /\ TopDnsClients(w)[c].unique <= Cardinality(Names)
  BY <1>1, ShownClients, QueriesAgree, NamesAgree
<1> QED BY <1>1, KindsAddUp, BytesAgree, RowsAddUp DEF TablesAgree
-----------------------------------------------------------------------------
(* Focus segments *)

\* The first and the last time of a window are times of it, and all others
\* between them.
LEMMA TimesBounded ==
  ASSUME NEW w, IsWindow(w), w # <<>>
  PROVE  /\ Times(w) \in SUBSET Nat
         /\ Max(Times(w)) \in Times(w) /\ \A t \in Times(w) : t <= Max(Times(w))
         /\ Min(Times(w)) \in Times(w) /\ \A t \in Times(w) : Min(Times(w)) <= t
<1> DEFINE f == [i \in DOMAIN w |-> w[i].ts]
<1>1. DOMAIN w = 1..Len(w) /\ Len(w) \in Nat /\ 1 \in DOMAIN w
  <2>1. Len(w) # 0
    BY DEF IsWindow, IsSeq
  <2> QED BY <2>1, WindowIsFinite DEF IsWindow
<1>2. PICK b \in Nat : \A i \in 1..Len(w) : f[i] <= b
  <2>1. \A i \in 1..Len(w) : f[i] \in Nat
    BY <1>1 DEF IsWindow
  <2> HIDE DEF f
  <2> QED BY <1>1, <2>1, SequenceIsBounded
<1>3. Times(w) \in SUBSET Nat /\ Times(w) # {} /\ \A t \in Times(w) : t <= b
  BY <1>1, <1>2 DEF Times, IsWindow
<1> QED BY <1>3, MaxOfNats, MinOfNats

\* The focus events in the order of their times.
Foci(w) == OfKinds(w, {"app_focus"})
FocusOrder(w) == InOrder([i \in DOMAIN w |-> w[i].ts], Foci(w))

\* Segments follow the focus events sorted by time, those of one time in the
\* order of the window.
LEMMA FocusOrderSorts ==
  ASSUME NEW w, IsWindow(w)
  PROVE  LET n == Cardinality(Foci(w))  foci == FocusOrder(w)
         IN /\ n \in Nat /\ foci \in [1..n -> Foci(w)] /\ Len(foci) = n
            /\ Foci(w) \subseteq DOMAIN w
            /\ \A i \in Foci(w) : \E k \in 1..n : foci[k] = i
            /\ \A k, l \in 1..n : k < l =>
                 \/ w[foci[k]].ts < w[foci[l]].ts
                 \/ w[foci[k]].ts = w[foci[l]].ts /\ foci[k] < foci[l]
            /\ DOMAIN BuildFocusSegments(w) = 1..n
            /\ \A k \in 1..n : BuildFocusSegments(w)[k] =
                 [app |-> w[foci[k]].app, from |-> w[foci[k]].ts,
                  to |-> IF k = n THEN Max(Times(w)) ELSE w[foci[k + 1]].ts]
<1> DEFINE I == Foci(w)
           key == [i \in DOMAIN w |-> w[i].ts]
           n == Cardinality(I)
           foci == InOrder(key, I)
<1>1. I \in SUBSET DOMAIN w /\ DOMAIN w \in SUBSET Int /\ IsFiniteSet(DOMAIN w)
  BY WindowIsFinite DEF Foci, OfKinds, IsWindow
<1>2. IsFiniteSet(I) /\ I \in SUBSET Int /\ \A i \in I : key[i] \in Int /\ key[i] = w[i].ts
  <2>1. IsFiniteSet(I)
    BY <1>1, FS_Subset
  <2> QED BY <1>1, <2>1 DEF IsWindow
<1> HIDE DEF I, key
<1>3. /\ n \in Nat /\ foci \in [1..n -> I] /\ Len(foci) = n
      /\ \A i \in I : \E k \in 1..n : foci[k] = i
      /\ \A k, l \in 1..n : k < l => Precedes(key, foci[k], foci[l])
  BY <1>2, InOrderSorts
<1>4. \A k, l \in 1..n : k < l =>
        \/ w[foci[k]].ts < w[foci[l]].ts
        \/ w[foci[k]].ts = w[foci[l]].ts /\ foci[k] < foci[l]
  <2>1. ASSUME NEW k \in 1..n, NEW l \in 1..n, k < l
        PROVE  \/ w[foci[k]].ts < w[foci[l]].ts
               \/ w[foci[k]].ts = w[foci[l]].ts /\ foci[k] < foci[l]
    <3>1. foci[k] \in I /\ foci[l] \in I /\ Precedes(key, foci[k], foci[l])
      BY <1>3, <2>1
    <3>2. key[foci[k]] = w[foci[k]].ts /\ key[foci[l]] = w[foci[l]].ts
      BY <1>2, <3>1
    <3> QED BY <3>1, <3>2 DEF Precedes
  <2> QED BY <2>1
<1>5. foci = FocusOrder(w)
  BY DEF FocusOrder, I, key
<1> HIDE DEF foci
<1>6. BuildFocusSegments(w) =
        [k \in DOMAIN foci |->
          [app |-> w[foci[k]].app, from |-> w[foci[k]].ts,
           to |-> IF k = Len(foci) THEN Max(Times(w)) ELSE w[foci[k + 1]].ts]]
  BY DEF BuildFocusSegments, foci, I, key, Foci
<1>7. DOMAIN foci = 1..n
  BY <1>3
<1> HIDE DEF n
<1> QED BY <1>1, <1>3, <1>4, <1>5, <1>6, <1>7 DEF I, n

\* Whatever the order of the window, its segments tile the time from the first
\* focus to the end.
LEMMA SegmentsAlwaysTile ==
  ASSUME NEW w, IsWindow(w)
  PROVE  SegmentsTile(w)
<1> DEFINE s == BuildFocusSegments(w)
           n == Cardinality(Foci(w))
           foci == FocusOrder(w)
           end == Max(Times(w))
<1>1. /\ n \in Nat /\ foci \in [1..n -> Foci(w)]
      /\ Foci(w) \subseteq DOMAIN w
      /\ \A k, l \in 1..n : k < l =>
           \/ w[foci[k]].ts < w[foci[l]].ts
           \/ w[foci[k]].ts = w[foci[l]].ts /\ foci[k] < foci[l]
      /\ DOMAIN s = 1..n
      /\ \A k \in 1..n : s[k] =
           [app |-> w[foci[k]].app, from |-> w[foci[k]].ts,
            to |-> IF k = n THEN end ELSE w[foci[k + 1]].ts]
  BY FocusOrderSorts
<1> HIDE DEF s, n, foci
<1>2. \A k \in 1..n : w[foci[k]].ts \in Times(w) /\ w[foci[k]].ts \in Nat
  BY <1>1 DEF Times, IsWindow
<1>3. ASSUME NEW k \in 1..n
      PROVE  /\ s[k].from = w[foci[k]].ts
             /\ s[k].to = IF k = n THEN end ELSE w[foci[k + 1]].ts
  BY <1>1
<1>4. ASSUME NEW k \in 1..n  PROVE s[k].from <= s[k].to
  <2>1. CASE k = n
    <3>1. w # <<>>
      BY <1>1
    <3>2. w[foci[k]].ts <= end
      BY <1>2, <3>1, TimesBounded
    <3> QED BY <1>3, <2>1, <3>2
  <2>2. CASE k # n
    <3> DEFINE l == k + 1
    <3>1. l \in 1..n /\ k < l
      BY <1>1, <2>2
    <3> HIDE DEF l
    <3>2. w[foci[k]].ts \in Nat /\ w[foci[l]].ts \in Nat
      BY <1>2, <3>1
    <3>3. w[foci[k]].ts < w[foci[l]].ts \/ w[foci[k]].ts = w[foci[l]].ts
      BY <1>1, <3>1
    <3>4. w[foci[k]].ts <= w[foci[k + 1]].ts
      BY <3>2, <3>3 DEF l
    <3> QED BY <1>3, <2>2, <3>4
  <2> QED BY <2>1, <2>2
<1>5. Len(s) = n
  <2>1. s = [k \in 1..n |-> s[k]]
    BY <1>1, FocusOrderSorts DEF s, BuildFocusSegments
  <2> QED BY <1>1, <2>1
<1>6. ASSUME NEW k \in 1..(n - 1)  PROVE s[k].to = s[k + 1].from
  <2>1. k \in 1..n /\ k + 1 \in 1..n /\ k # n
    BY <1>1
  <2> QED BY <1>3, <2>1
<1>7. ASSUME s # <<>>  PROVE s[n].to - s[1].from <= Duration(w)
  <2>1. n \in 1..n /\ 1 \in 1..n
    <3>1. n # 0
      BY <1>1, <1>7
    <3> QED BY <1>1, <3>1
  <2>2. w # <<>>
    BY <1>1, <2>1
  <2>3. s[n].to = end /\ s[1].from \in Times(w)
    BY <1>2, <1>3, <2>1
  <2>4. /\ Times(w) \in SUBSET Nat /\ end \in Times(w) /\ Min(Times(w)) \in Times(w)
        /\ Min(Times(w)) <= s[1].from
    BY <2>2, <2>3, TimesBounded
  <2> HIDE DEF end
  <2>5. end \in Nat /\ Min(Times(w)) \in Nat /\ s[1].from \in Nat
    BY <2>3, <2>4
  <2> QED BY <2>3, <2>4, <2>5 DEF Duration, end
<1> QED BY <1>1, <1>4, <1>5, <1>6, <1>7 DEF SegmentsTile, s

-----------------------------------------------------------------------------
(* The counts of the table *)

\* Rows of the past, in any order of their times.
IsPast(rows, end) == IsWindow(rows) /\ \A i \in DOMAIN rows : rows[i].ts <= end

\* A window up to the present has all rows of a kind, if the limit does.
LEMMA WindowHasAll ==
  ASSUME NEW rows, NEW end \in Nat, IsPast(rows, end), NEW kind, NEW from \in Nat,
         NEW limit \in Nat, Cardinality(RowsSince(rows, kind, from)) <= limit
  PROVE  /\ IsFiniteSet(RowsSince(rows, kind, from))
         /\ Len(EventsInWindow(rows, from, end, {kind}, limit))
              = Cardinality(RowsSince(rows, kind, from))
<1> DEFINE I == {i \in DOMAIN rows : rows[i].ts \in from..end /\ rows[i].kind \in {kind}}
           order == InOrder([i \in I |-> rows[i].ts], I)
<1>1. I = RowsSince(rows, kind, from)
  BY DEF RowsSince, IsPast, IsWindow
<1>2. /\ DOMAIN rows \in SUBSET Int /\ IsFiniteSet(DOMAIN rows)
      /\ \A i \in DOMAIN rows : rows[i].ts \in Int
  BY WindowIsFinite DEF IsPast, IsWindow
<1>3. IsFiniteSet(I) /\ I \in SUBSET Int
  <2>1. I \in SUBSET DOMAIN rows
    OBVIOUS
  <2> HIDE DEF I
  <2> QED BY <1>2, <2>1, FS_Subset
<1>4. Len(order) = Cardinality(I) /\ Cardinality(I) \in Nat
  <2> DEFINE key == [i \in I |-> rows[i].ts]
  <2>1. \A i \in I : key[i] \in Int
    BY <1>2
  <2> HIDE DEF key, I
  <2>2. Len(InOrder(key, I)) = Cardinality(I) /\ Cardinality(I) \in Nat
    BY <1>3, <2>1, InOrderSorts
  <2> QED BY <2>2 DEF key
<1> HIDE DEF order
<1>5. EventsInWindow(rows, from, end, {kind}, limit)
        = [n \in 1..Min({limit, Len(order)}) |-> rows[order[n]]]
  BY DEF EventsInWindow, order
<1>6. Min({limit, Len(order)}) = Len(order)
  <2> DEFINE S == {limit, Len(order)}
  <2>1. S \in SUBSET Nat /\ S # {} /\ Len(order) <= limit
    BY <1>1, <1>4
  <2>2. Min(S) \in S /\ \A x \in S : Min(S) <= x
    <3> HIDE DEF S
    <3> QED BY <2>1, MinOfNats
  <2> QED BY <1>4, <2>1, <2>2
<1> HIDE DEF I
<1>7. Len(EventsInWindow(rows, from, end, {kind}, limit)) = Cardinality(I)
  BY <1>4, <1>5, <1>6
<1> QED BY <1>1, <1>3, <1>7

\* The quotients that the queries take.
LEMMA QuotientRange ==
  ASSUME NEW t \in Nat, NEW width \in Nat \ {0}
  PROVE  t \div width \in Nat
OBVIOUS

\* The hour of a day is one of its hours.
LEMMA HourRange ==
  ASSUME NEW t \in Nat
  PROVE  HourOf(t) \in 0..(DayHours - 1)
<1>1. Hour \in Nat \ {0} /\ DayHours \in Nat \ {0}
  BY EventQueriesAssumption
<1>2. PICK h \in Nat : h = t \div Hour
  BY <1>1, QuotientRange
<1>3. h % DayHours \in 0..(DayHours - 1)
  BY <1>1, <1>2
<1> QED BY <1>2, <1>3 DEF HourOf

\* The hours of the day have all rows of the kind between them.
LEMMA ProfileAddsUp ==
  ASSUME NEW rows, IsWindow(rows), NEW kind \in {r.kind : r \in ToSet(rows)}
  PROVE  Total(HourlyProfile(rows, 0)[kind]) = Cardinality(RowsSince(rows, kind, 0))
<1> DEFINE I == RowsSince(rows, kind, 0)
           hours == 0..(DayHours - 1)
           key == [i \in I |-> HourOf(rows[i].ts)]
           counts == HourlyProfile(rows, 0)[kind]
<1>1. IsFiniteSet(I) /\ \A i \in I : i \in DOMAIN rows /\ rows[i].ts \in Nat
  <2>1. I \in SUBSET DOMAIN rows
    BY DEF RowsSince
  <2> HIDE DEF I
  <2> QED BY <2>1, WindowIsFinite, FS_Subset DEF IsWindow
<1>2. IsFiniteSet(hours)
  <2>1. DayHours - 1 \in Int /\ 0 \in Int
    BY EventQueriesAssumption
  <2> QED BY <2>1, FS_Interval
<1>3. \A i \in I : key[i] \in hours
  BY <1>1, HourRange
<1>4. counts = [h \in hours |-> Cardinality({i \in I : HourOf(rows[i].ts) = h})]
  <2>1. kind \in {r.kind : r \in {x \in ToSet(rows) : x.ts >= 0}}
    BY DEF ToSet, IsWindow
  <2> QED BY <2>1 DEF HourlyProfile
<1>5. /\ DOMAIN counts = hours
      /\ \A h \in hours : counts[h] = Cardinality({i \in I : key[i] = h})
  <2>1. \A h \in hours : {i \in I : key[i] = h} = {i \in I : HourOf(rows[i].ts) = h}
    OBVIOUS
  <2> HIDE DEF I, key, hours, counts
  <2> QED BY <1>4, <2>1
<1> HIDE DEF I, key, hours, counts
<1>6. Total(counts) = Cardinality(I)
  BY <1>1, <1>2, <1>3, <1>5, CountedByKey
<1> QED BY <1>6 DEF counts, I

\* The windows, however wide, have all rows of the kind between them.
LEMMA WindowsAddUp ==
  ASSUME NEW rows, IsWindow(rows), NEW kind \in {r.kind : r \in ToSet(rows)},
         NEW width,
         NEW kinds, kinds = [r \in ToSet(rows) |-> r.kind]
  PROVE  Total(FieldWindowCounts(rows, kind, kinds, 0, width)[kind])
           = Cardinality(RowsSince(rows, kind, 0))
<1> DEFINE I == RowsSince(rows, kind, 0)
           key == [i \in I |-> (rows[i].ts \div width) * width]
           Starts == {key[i] : i \in I}
           counts == FieldWindowCounts(rows, kind, kinds, 0, width)[kind]
<1>1. IsFiniteSet(I) /\ \A i \in I : i \in DOMAIN rows /\ rows[i].kind = kind
  <2>1. I \in SUBSET DOMAIN rows /\ \A i \in I : rows[i].kind = kind
    BY DEF RowsSince
  <2> HIDE DEF I
  <2> QED BY <2>1, WindowIsFinite, FS_Subset DEF IsWindow
<1>2. \A i \in I : kinds[rows[i]] = kind
  <2>1. \A i \in I : rows[i] \in ToSet(rows)
    BY <1>1 DEF ToSet
  <2> HIDE DEF I
  <2> QED BY <1>1, <2>1
<1>3. kind \in {kinds[rows[i]] : i \in I}
  <2>1. PICK i \in DOMAIN rows : rows[i].kind = kind
    BY DEF ToSet
  <2>2. i \in I
    BY <2>1 DEF RowsSince, IsWindow
  <2> HIDE DEF I
  <2> QED BY <1>2, <2>2
<1>4. IsFiniteSet(Starts) /\ \A i \in I : key[i] \in Starts
  <2>1. \A i \in I : key[i] \in Starts
    OBVIOUS
  <2> HIDE DEF I, key
  <2> QED BY <1>1, <2>1, ImageIsSmaller
<1>5. /\ DOMAIN counts = Starts
      /\ \A start \in Starts : counts[start] = Cardinality({i \in I : key[i] = start})
  <2> DEFINE StartOf(i) == (rows[i].ts \div width) * width
             same == {j \in I : kinds[rows[j]] = kind}
             starts == {StartOf(i) : i \in same}
  <2>1. counts = [start \in starts |->
                    Cardinality({i \in I : kinds[rows[i]] = kind /\ StartOf(i) = start})]
    BY <1>3 DEF FieldWindowCounts
  <2>2. same = I
    BY <1>2
  <2>3. starts = Starts
    BY <2>2
  <2>4. \A start : {i \in I : kinds[rows[i]] = kind /\ StartOf(i) = start}
                     = {i \in I : key[i] = start}
    BY <1>2
  <2> HIDE DEF I, key, Starts, starts, counts, StartOf
  <2> QED BY <2>1, <2>3, <2>4
<1> HIDE DEF I, key, Starts, counts
<1>6. Total(counts) = Cardinality(I)
  BY <1>1, <1>4, <1>5, CountedByKey
<1> QED BY <1>6 DEF counts, I

\* What a baseline counts of the table is what the table's window has.
LEMMA CountsAlwaysAgree ==
  ASSUME now \in Nat, IsPast(store.rows, Anchor + now)
  PROVE  CountsAgree
<1> SUFFICES ASSUME NEW kind \in {r.kind : r \in ToSet(store.rows)}
             PROVE  LET end == Anchor + now
                        rows == EventsInWindow(store.rows, 0, end, {kind}, Len(store.rows))
                        kinds == [r \in ToSet(store.rows) |-> r.kind]
                        Of(width) == FieldWindowCounts(store.rows, kind, kinds, 0, width)[kind]
                    IN /\ Total(HourlyProfile(store.rows, 0)[kind]) = Len(rows)
                       /\ \A width \in {Hour, Hour * DayHours} : Total(Of(width)) = Len(rows)
                       /\ \A from \in 0..end :
                            Len(EventsInWindow(store.rows, from, end, {kind}, Len(rows)))
                              = Cardinality(RowsSince(store.rows, kind, from))
  BY DEF CountsAgree
<1> DEFINE R == store.rows
           end == Anchor + now
           all == EventsInWindow(R, 0, end, {kind}, Len(R))
           kinds == [r \in ToSet(R) |-> r.kind]
<1>1. end \in Nat /\ IsPast(R, end) /\ IsWindow(R)
  BY EventQueriesAssumption DEF IsPast
<1>2. /\ Len(R) \in Nat /\ IsFiniteSet(DOMAIN R) /\ Cardinality(DOMAIN R) = Len(R)
  BY <1>1, WindowIsFinite DEF IsWindow
<1> HIDE DEF R, end
<1>3. ASSUME NEW from \in Nat
      PROVE  /\ RowsSince(R, kind, from) \in SUBSET RowsSince(R, kind, 0)
             /\ RowsSince(R, kind, from) \in SUBSET DOMAIN R
  BY <1>1 DEF RowsSince, IsWindow
<1>4. /\ Cardinality(RowsSince(R, kind, 0)) <= Len(R)
      /\ IsFiniteSet(RowsSince(R, kind, 0))
      /\ Cardinality(RowsSince(R, kind, 0)) \in Nat
  <2> DEFINE S == RowsSince(R, kind, 0)
  <2>1. S \in SUBSET DOMAIN R
    BY DEF RowsSince
  <2> HIDE DEF S
  <2>2. IsFiniteSet(S) /\ Cardinality(S) <= Len(R)
    BY <1>2, <2>1, FS_Subset
  <2> QED BY <2>2, FS_CardinalityType DEF S
<1>5. Len(all) = Cardinality(RowsSince(R, kind, 0))
  BY <1>1, <1>2, <1>4, WindowHasAll
<1> HIDE DEF all
<1>6. ASSUME NEW from \in Nat
      PROVE  Len(EventsInWindow(R, from, end, {kind}, Len(all)))
               = Cardinality(RowsSince(R, kind, from))
  <2>1. Cardinality(RowsSince(R, kind, from)) <= Len(all)
    <3> DEFINE S == RowsSince(R, kind, 0)
               T == RowsSince(R, kind, from)
    <3>1. T \in SUBSET S /\ IsFiniteSet(S) /\ Len(all) = Cardinality(S)
      BY <1>3, <1>4, <1>5
    <3> HIDE DEF S, T
    <3>2. Cardinality(T) <= Cardinality(S)
      BY <3>1, FS_Subset
    <3> QED BY <3>1, <3>2 DEF T
  <2>2. PICK limit \in Nat : limit = Len(all)
    BY <1>4, <1>5
  <2>3. Cardinality(RowsSince(R, kind, from)) <= limit
    BY <2>1, <2>2
  <2>4. Len(EventsInWindow(R, from, end, {kind}, limit)) = Cardinality(RowsSince(R, kind, from))
    BY <1>1, <2>3, WindowHasAll
  <2> QED BY <2>2, <2>4
<1>7. Total(HourlyProfile(R, 0)[kind]) = Len(all)
  BY <1>1, <1>5, ProfileAddsUp DEF R
<1>8. \A width : Total(FieldWindowCounts(R, kind, kinds, 0, width)[kind]) = Len(all)
  BY <1>1, <1>5, WindowsAddUp DEF R
<1>9. \A from \in 0..end : from \in Nat
  BY <1>1
<1> QED BY <1>6, <1>7, <1>8, <1>9 DEF all, end, R

-----------------------------------------------------------------------------
(* Rules and scores *)

\* Finitely many processes of a window lived shortly.
LEMMA ShortLivedIsFinite ==
  ASSUME NEW w, IsSeq(w)
  PROVE  ShortLived(w) \subseteq DOMAIN w /\ IsFiniteSet(ShortLived(w))
<1> DEFINE I == ShortLived(w)
           J == OfKinds(w, {"process_death"})
<1>1. I \in SUBSET J /\ J \in SUBSET DOMAIN w /\ IsFiniteSet(J)
  BY KindsAreFinite DEF ShortLived
<1> HIDE DEF I, J
<1>2. IsFiniteSet(I) /\ I \subseteq DOMAIN w
  BY <1>1, FS_Subset
<1> QED BY <1>2 DEF I

\* A window has finitely many first contacts.
LEMMA ContactsAreFinite ==
  ASSUME NEW w, IsSeq(w)
  PROVE  FirstContacts(w) \subseteq DOMAIN w /\ IsFiniteSet(FirstContacts(w))
<1> DEFINE I == FirstContacts(w)
           J == OfKinds(w, {"connection_opened", "connection_completed"})
<1>1. I \in SUBSET J /\ J \in SUBSET DOMAIN w /\ IsFiniteSet(J)
  BY KindsAreFinite DEF FirstContacts, SensitiveContacts
<1> HIDE DEF I, J
<1>2. IsFiniteSet(I) /\ I \subseteq DOMAIN w
  BY <1>1, FS_Subset
<1> QED BY <1>2 DEF I

\* Without a baseline the same bursts are flagged and scored, but for noise.
LEMMA BurstsAreScored ==
  ASSUME NEW w, NEW e, e.cold = TRUE
  PROVE  {b[2] : b \in RuleBursts(w)} = {b.text[2] : b \in ScoredBursts(w, e)} \ Noisy
<1> DEFINE D == ShortLived(w)
           loud == {i \in D : Comm(w[i].process) \notin Noisy}
           Of(c) == {i \in D : Comm(w[i].process) = c}
           comms == {Comm(w[i].process) : i \in D}
           n == DeathsBy(w, loud)
<1>1. \A c : Threshold(e, e.deaths, c, BurstMin) = BurstMin
  BY DEF Threshold
<1>2. {b.text[2] : b \in ScoredBursts(w, e)} = {c \in comms : Cardinality(Of(c)) >= BurstMin}
  <2> DEFINE limit(c) == Threshold(e, e.deaths, c, BurstMin)
             S == {c \in comms : Cardinality(Of(c)) >= limit(c)}
             line(c) == Scored(e, <<"burst", c, Cardinality(Of(c)), limit(c)>>, Cardinality(Of(c)),
                               limit(c), "process_death", Of(c), w)
  <2>1. ScoredBursts(w, e) = {line(c) : c \in S}
    BY DEF ScoredBursts
  <2>2. \A c : line(c).text[2] = c
    BY DEF Scored
  <2>3. S = {c \in comms : Cardinality(Of(c)) >= BurstMin}
    <3> HIDE DEF Of, comms
    <3> QED BY <1>1
  <2> HIDE DEF S, line, Of, comms
  <2>4. {b.text[2] : b \in ScoredBursts(w, e)} = S
    <3>1. ASSUME NEW b \in ScoredBursts(w, e)  PROVE b.text[2] \in S
      BY <2>1, <2>2
    <3>2. ASSUME NEW c \in S  PROVE line(c) \in ScoredBursts(w, e) /\ c = line(c).text[2]
      BY <2>1, <2>2
    <3> QED BY <3>1, <3>2
  <2> QED BY <2>3, <2>4
<1>3. {b[2] : b \in RuleBursts(w)} = {c \in DOMAIN n : n[c] >= BurstMin}
  <2> DEFINE S == {c \in DOMAIN n : n[c] >= BurstMin}
             line(c) == <<"rule burst", c, n[c]>>
  <2>1. RuleBursts(w) = {line(c) : c \in S}
    BY DEF RuleBursts
  <2>2. \A c : line(c)[2] = c
    OBVIOUS
  <2> HIDE DEF S, line
  <2>3. {b[2] : b \in RuleBursts(w)} = S
    BY <2>1, <2>2
  <2> QED BY <2>3 DEF S
<1>4. /\ DOMAIN n = {Comm(w[i].process) : i \in loud}
      /\ \A c \in DOMAIN n : n[c] = Cardinality({i \in loud : Comm(w[i].process) = c})
  BY DEF DeathsBy, CountBy
<1>5. DOMAIN n = comms \ Noisy
  BY <1>4
<1>6. ASSUME NEW c \in comms \ Noisy  PROVE n[c] = Cardinality(Of(c))
  <2>1. {i \in loud : Comm(w[i].process) = c} = Of(c)
    OBVIOUS
  <2> QED BY <1>4, <1>5, <2>1
<1> HIDE DEF n, comms, Of
<1> QED BY <1>2, <1>3, <1>5, <1>6

\* A client that asked for many names asked often.
LEMMA HeavyClientsAreScored ==
  ASSUME NEW w, IsSeq(w), NEW e, e.cold = TRUE
  PROVE  {d[2] : d \in RuleDns(w)} \subseteq {d.text[2] : d \in ScoredDns(w, e)}
<1> DEFINE queries == OfKinds(w, {"dns_query"})
           Of(c) == {i \in queries : w[i].client = c}
           Unique(c) == Cardinality({w[i].hash : i \in Of(c)})
           limit(c) == Threshold(e, e.queries, c, HeavyDns)
           S == {c \in {w[i].client : i \in queries} : Cardinality(Of(c)) >= limit(c)}
           line(c) == Scored(e, <<"dns", c, Cardinality(Of(c)), Unique(c), limit(c)>>,
                             Cardinality(Of(c)), limit(c), "dns_query", Of(c), w)
           n == TopDnsClients(w)
<1>1. \A c : limit(c) = HeavyDns
  BY DEF Threshold
<1>2. ScoredDns(w, e) = {line(c) : c \in S} /\ \A c : line(c).text[2] = c
  <2>1. ScoredDns(w, e) = {line(c) : c \in S}
    BY DEF ScoredDns
  <2>2. \A c : line(c).text[2] = c
    BY DEF Scored
  <2> QED BY <2>1, <2>2
<1>3. {d[2] : d \in RuleDns(w)} = {c \in DOMAIN n : n[c].unique >= HeavyDns}
  <2> DEFINE T == {c \in DOMAIN n : n[c].unique >= HeavyDns}
             text(c) == <<"rule dns", c, n[c].unique>>
  <2>1. RuleDns(w) = {text(c) : c \in T}
    BY DEF RuleDns
  <2>2. \A c : text(c)[2] = c
    OBVIOUS
  <2> HIDE DEF T, text
  <2>3. {d[2] : d \in RuleDns(w)} = T
    BY <2>1, <2>2
  <2> QED BY <2>3 DEF T
<1>4. ASSUME NEW c \in DOMAIN n, n[c].unique >= HeavyDns  PROVE c \in S
  <2> DEFINE I == Of(c)
             f == [i \in I |-> w[i].hash]
             names == {f[i] : i \in I}
             known == names \ {Missing}
  <2>0. c \in DOMAIN DnsTally(w) /\ n[c] = DnsTally(w)[c]
    BY ShownClients
  <2>1. /\ c \in {w[i].client : i \in queries} /\ IsFiniteSet(I)
        /\ DnsTally(w)[c].unique = Cardinality({w[i].hash : i \in I} \ {Missing})
    <3>1. I = QueriesOf(w, c)
      BY DEF QueriesOf
    <3> HIDE DEF I, n
    <3> QED BY <2>0, <3>1, TallyIs
  <2>2. {w[i].hash : i \in I} = names
    OBVIOUS
  <2>3. n[c].unique = Cardinality(known) /\ IsFiniteSet(I)
    <3> HIDE DEF I, names, n
    <3> QED BY <2>0, <2>1, <2>2
  <2> HIDE DEF I, f
  <2>4. IsFiniteSet(names) /\ Cardinality(names) <= Cardinality(I)
    BY <2>3, ImageIsSmaller
  <2>5. known \in SUBSET names
    OBVIOUS
  <2> HIDE DEF names, known
  <2>6. IsFiniteSet(known) /\ Cardinality(known) <= Cardinality(names)
    BY <2>4, <2>5, FS_Subset
  <2>7. /\ Cardinality(known) \in Nat /\ Cardinality(names) \in Nat
        /\ Cardinality(I) \in Nat /\ HeavyDns \in Nat
    BY <2>3, <2>4, <2>6, FS_CardinalityType, SummaryAssumption
  <2>8. Cardinality(I) >= HeavyDns
    BY <1>4, <2>3, <2>4, <2>6, <2>7
  <2> HIDE DEF queries, limit
  <2> QED BY <1>1, <2>1, <2>8 DEF I
<1> HIDE DEF n, S, line
<1>5. ASSUME NEW c \in S  PROVE line(c) \in ScoredDns(w, e) /\ line(c).text[2] = c
  BY <1>2
<1> QED BY <1>3, <1>4, <1>5

\* Against a cold baseline the first contacts of the rules are those that are
\* scored, and some are shown.
LEMMA PortsAreScored ==
  ASSUME NEW w, NEW e
  PROVE  {PortText(w, i) : i \in FirstContacts(w)} = {p.text : p \in ScoredPorts(w, e)}
<1> DEFINE line(i) == [text |-> PortText(w, i),
                       score |-> 5 * Unit + 2 * KindRarity(e, "connection_opened",
                                                           HourOf(Anchor + w[i].ts))]
<1>1. ScoredPorts(w, e) = {line(i) : i \in FirstContacts(w)}
  BY DEF ScoredPorts
<1>2. \A i : line(i).text = PortText(w, i)
  OBVIOUS
<1> HIDE DEF line
<1> QED BY <1>1, <1>2

\* The listing of a set is a sequence.
LEMMA ListingIsSeq ==
  ASSUME NEW S, IsFiniteSet(S)
  PROVE  SetToSeq(S) \in Seq(S)
<1> DEFINE n == Cardinality(S)
<1>1. n \in Nat /\ ExistsBijection(1..n, S)
  BY FS_CardinalityType
<1>2. \E f \in [1..n -> S] : IsInjective(f)
  BY <1>1 DEF ExistsBijection, Bijection, Injection, IsInjective
<1>3. SetToSeq(S) \in [1..n -> S]
  BY <1>2 DEF SetToSeq
<1> HIDE DEF n
<1> QED BY <1>1, <1>3

\* The rules flag finitely much of a window.
LEMMA RulesAreFinite ==
  ASSUME NEW w, IsSeq(w)
  PROVE  IsFiniteSet(RuleBursts(w)) /\ IsFiniteSet(RuleDns(w))
<1>1. IsFiniteSet(RuleBursts(w))
  <2> DEFINE loud == {i \in ShortLived(w) : Comm(w[i].process) \notin Noisy}
             n == DeathsBy(w, loud)
             f == [i \in DOMAIN w |-> Comm(w[i].process)]
             some == {x \in DOMAIN n : n[x] >= BurstMin}
             g == [c \in some |-> <<"rule burst", c, n[c]>>]
  <2>1. IsFiniteSet(loud) /\ loud \subseteq DOMAIN w
    <3>1. loud \in SUBSET ShortLived(w)
      OBVIOUS
    <3> HIDE DEF loud
    <3> QED BY <3>1, ShortLivedIsFinite, FS_Subset
  <2>2. DOMAIN n = {f[i] : i \in loud}
    BY <2>1 DEF DeathsBy, CountBy
  <2>3. IsFiniteSet(DOMAIN n)
    <3> HIDE DEF f, loud, n
    <3> QED BY <2>1, <2>2, ImageIsSmaller
  <2> HIDE DEF n
  <2>4. IsFiniteSet(some)
    BY <2>3, FS_Subset
  <2>5. RuleBursts(w) = {g[c] : c \in some}
    BY DEF RuleBursts, n
  <2> HIDE DEF some, g
  <2> QED BY <2>4, <2>5, ImageIsSmaller
<1>2. IsFiniteSet(RuleDns(w))
  <2> DEFINE n == TopDnsClients(w)
             some == {x \in DOMAIN n : n[x].unique >= HeavyDns}
             g == [c \in some |-> <<"rule dns", c, n[c].unique>>]
             all == DOMAIN DnsTally(w)
  <2>1. DOMAIN n \in SUBSET all /\ IsFiniteSet(all)
    BY ShownClients, ClientsAreFinite
  <2>3. IsFiniteSet(DOMAIN n)
    <3> HIDE DEF all, n
    <3> QED BY <2>1, FS_Subset
  <2> HIDE DEF n
  <2>4. IsFiniteSet(some)
    BY <2>3, FS_Subset
  <2>5. RuleDns(w) = {g[c] : c \in some}
    BY DEF RuleDns, n
  <2> HIDE DEF some, g
  <2> QED BY <2>4, <2>5, ImageIsSmaller
<1> QED BY <1>1, <1>2

\* The rules' list is some of the texts of the three rules, and begins with a
\* port if there is one.
LEMMA SuspicionsAre ==
  ASSUME NEW w, IsSeq(w)
  PROVE  LET ports == {PortText(w, i) : i \in FirstContacts(w)}
         IN /\ IsFiniteSet(EventSuspicions(w))
            /\ EventSuspicions(w) \subseteq ports \cup RuleBursts(w) \cup RuleDns(w)
            /\ MaxEventSuspicions > 0 /\ ports # {} => EventSuspicions(w) \cap ports # {}
<1> DEFINE I == FirstContacts(w)
           key == ByNumber(DOMAIN w)
           order == InOrder(key, I)
           ports == {PortText(w, i) : i \in I}
           all == ports \cup RuleBursts(w) \cup RuleDns(w)
           first == [n \in DOMAIN order |-> PortText(w, order[n])]
           rest == SetToSeq(RuleBursts(w))
           last == SetToSeq(RuleDns(w))
           texts == first \o rest \o last
           m == Min({Len(texts), MaxEventSuspicions})
           shown == SubSeq(texts, 1, m)
           n == Cardinality(I)
<1>1. I \in SUBSET Int /\ IsFiniteSet(I) /\ \A i \in I : key[i] \in Int
  BY ContactsAreFinite, WindowIsFinite DEF ByNumber
<1> HIDE DEF key, I
<1>2. n \in Nat /\ order \in [1..n -> I] /\ Len(order) = n /\ \A i \in I : \E k \in 1..n : order[k] = i
  BY <1>1, InOrderSorts
<1>3. first \in Seq(ports) /\ Len(first) = n /\ \A k \in 1..n : first[k] \in ports
  <2> HIDE DEF order, n
  <2>1. DOMAIN order = 1..n /\ \A k \in 1..n : order[k] \in I
    BY <1>2
  <2>2. first \in [1..n -> ports]
    BY <2>1
  <2> HIDE DEF first, ports
  <2> QED BY <1>2, <2>2
<1>4. rest \in Seq(RuleBursts(w)) /\ last \in Seq(RuleDns(w))
  BY ListingIsSeq, RulesAreFinite
<1>5. first \in Seq(all) /\ rest \in Seq(all) /\ last \in Seq(all)
  <2>1. ports \subseteq all /\ RuleBursts(w) \subseteq all /\ RuleDns(w) \subseteq all
    OBVIOUS
  <2> HIDE DEF first, rest, last, all, ports
  <2> QED BY <1>3, <1>4, <2>1, SeqMonotonic
<1> HIDE DEF first, rest, last, all, ports, order, n
<1>6. /\ texts \in Seq(all) /\ Len(texts) \in Nat /\ Len(texts) >= n
      /\ \A k \in 1..n : texts[k] = first[k]
  <2> DEFINE two == first \o rest
  <2>1. /\ two \in Seq(all) /\ Len(two) = n + Len(rest) /\ Len(rest) \in Nat
        /\ \A k \in 1..n : two[k] = first[k]
    <3>1. n \in Nat /\ Len(first) = n /\ Len(rest) \in Nat
      BY <1>2, <1>3, <1>5
    <3>2. /\ two \in Seq(all) /\ Len(two) = Len(first) + Len(rest)
          /\ \A k \in 1..Len(first) + Len(rest) :
               two[k] = IF k <= Len(first) THEN first[k] ELSE rest[k - Len(first)]
      BY <1>5, ConcatProperties
    <3>3. \A k \in 1..n : k \in 1..Len(first) + Len(rest) /\ k <= Len(first)
      BY <3>1
    <3> QED BY <3>1, <3>2, <3>3
  <2> HIDE DEF two
  <2>2. /\ two \o last \in Seq(all) /\ Len(two \o last) = Len(two) + Len(last) /\ Len(last) \in Nat
        /\ \A k \in 1..Len(two) : (two \o last)[k] = two[k]
    BY <1>5, <2>1, ConcatProperties
  <2>3. \A k \in 1..n : k \in 1..Len(two)
    BY <1>2, <2>1
  <2> QED BY <1>2, <2>1, <2>2, <2>3 DEF two
<1> HIDE DEF texts
<1>7. m \in Nat /\ m <= Len(texts) /\ (MaxEventSuspicions > 0 /\ Len(texts) > 0 => m > 0)
  <2> DEFINE S == {Len(texts), MaxEventSuspicions}
  <2>1. S \in SUBSET Nat /\ S # {}
    BY <1>6, SummaryAssumption
  <2>2. Min(S) \in S /\ \A x \in S : Min(S) <= x
    <3> HIDE DEF S
    <3> QED BY <2>1, MinOfNats
  <2> QED BY <2>1, <2>2
<1> HIDE DEF m
<1>8. shown \in Seq(all) /\ Len(shown) = m /\ \A k \in 1..m : shown[k] = texts[k]
  BY <1>6, <1>7, SubSeqProperties
<1> HIDE DEF shown
<1>9. EventSuspicions(w) = ToSet(shown)
  BY DEF EventSuspicions, shown, m, texts, first, rest, last, order, key, I
<1>10. EventSuspicions(w) = {shown[k] : k \in 1..m} /\ \A k \in 1..m : shown[k] \in all
  BY <1>7, <1>8, <1>9 DEF ToSet
<1>11. IsFiniteSet(EventSuspicions(w))
  <2> DEFINE S == 1..m
  <2>1. IsFiniteSet(S) /\ EventSuspicions(w) = {shown[k] : k \in S}
    BY <1>7, <1>10, FS_Interval
  <2> HIDE DEF S
  <2>2. IsFiniteSet({shown[k] : k \in S})
    BY <2>1, ImageIsSmaller
  <2> QED BY <2>1, <2>2
<1>12. ASSUME MaxEventSuspicions > 0, ports # {}  PROVE EventSuspicions(w) \cap ports # {}
  <2>1. I # {}
    BY <1>12 DEF ports
  <2>2. 1 \in 1..n
    BY <1>2, <2>1
  <2>3. 1 \in 1..m
    BY <1>2, <1>6, <1>7, <1>12, <2>2
  <2>4. shown[1] \in ports
    BY <1>3, <1>6, <1>8, <2>2, <2>3
  <2> QED BY <1>10, <2>3, <2>4
<1> QED BY <1>10, <1>11, <1>12 DEF all, ports, I

\* In any window the fixed rules and a cold baseline agree.
LEMMA RulesAlwaysScored ==
  ASSUME NEW w, IsSeq(w)
  PROVE  RulesAreScored(w)
<1> DEFINE e == [FromStore(store, 0) EXCEPT !.cold = TRUE]
<1>1. e.cold = TRUE
  BY DEF FromStore
<1> HIDE DEF e
<1>2. /\ {b[2] : b \in RuleBursts(w)} = {b.text[2] : b \in ScoredBursts(w, e)} \ Noisy
      /\ {d[2] : d \in RuleDns(w)} \subseteq {d.text[2] : d \in ScoredDns(w, e)}
  BY <1>1, BurstsAreScored, HeavyClientsAreScored
<1>3. {PortText(w, i) : i \in FirstContacts(w)} = {p.text : p \in ScoredPorts(w, e)}
  BY PortsAreScored
<1> QED BY <1>2, <1>3, SuspicionsAre DEF RulesAreScored, e

-----------------------------------------------------------------------------
(* The list that is shown *)

IsLines(L) == IsFiniteSet(L) /\ \A l \in L : l.score \in Int

\* The smaller of two numbers.
LEMMA MinOfTwo ==
  ASSUME NEW a \in Nat, NEW b \in Nat
  PROVE  Min({a, b}) = IF a <= b THEN a ELSE b
<1> DEFINE S == {a, b}
<1>1. S \in SUBSET Nat /\ S # {}
  OBVIOUS
<1>2. Min(S) \in S /\ \A x \in S : Min(S) <= x
  <2> HIDE DEF S
  <2> QED BY <1>1, MinOfNats
<1> QED BY <1>2

\* Cutting a list before something joins it changes nothing.
LEMMA CutTwice ==
  ASSUME NEW L, IsLines(L), NEW S, IsLines(S), S \cap L = {},
         NEW kept \in Shown(L), NEW T \in Shown(S \cup kept)
  PROVE  T \in Shown(S \cup L)
<1> DEFINE M == MaxSuspicions
<1>1. M \in Nat
  BY NarrationAssumption
<1>2. /\ kept \in SUBSET L /\ Cardinality(kept) = Min({M, Cardinality(L)})
      /\ \A t \in kept, l \in L \ kept : l.score <= t.score
  BY DEF Shown
<1>3. /\ T \in SUBSET (S \cup kept) /\ Cardinality(T) = Min({M, Cardinality(S \cup kept)})
      /\ \A t \in T, l \in (S \cup kept) \ T : l.score <= t.score
  BY DEF Shown
<1> HIDE DEF M
<1>4. IsFiniteSet(L) /\ IsFiniteSet(S) /\ IsFiniteSet(kept)
  BY <1>2, FS_Subset DEF IsLines
<1>5. /\ IsFiniteSet(S \cup L) /\ IsFiniteSet(S \cup kept)
      /\ Cardinality(S \cup L) = Cardinality(S) + Cardinality(L)
      /\ Cardinality(S \cup kept) = Cardinality(S) + Cardinality(kept)
  <2>1. S \cap kept = {} /\ Cardinality({}) = 0
    BY <1>2, FS_EmptySet
  <2>2. /\ Cardinality(S) \in Nat /\ Cardinality(L) \in Nat /\ Cardinality(kept) \in Nat
    BY <1>4, FS_CardinalityType
  <2>3. /\ IsFiniteSet(S \cup L)
        /\ Cardinality(S \cup L) = Cardinality(S) + Cardinality(L) - Cardinality(S \cap L)
    BY <1>4, FS_Union
  <2>4. /\ IsFiniteSet(S \cup kept)
        /\ Cardinality(S \cup kept) = Cardinality(S) + Cardinality(kept) - Cardinality(S \cap kept)
    BY <1>4, FS_Union
  <2>5. Cardinality(S \cap L) = 0 /\ Cardinality(S \cap kept) = 0
    BY <2>1
  <2> QED BY <2>2, <2>3, <2>4, <2>5
<1>6. IsFiniteSet(T)
  BY <1>3, <1>5, FS_Subset
<1>7. /\ Cardinality(S) \in Nat /\ Cardinality(L) \in Nat /\ Cardinality(kept) \in Nat
      /\ Cardinality(T) \in Nat
  BY <1>4, <1>6, FS_CardinalityType
<1>8. /\ Cardinality(kept) = IF M <= Cardinality(L) THEN M ELSE Cardinality(L)
      /\ Cardinality(T) = IF M <= Cardinality(S) + Cardinality(kept) THEN M
                          ELSE Cardinality(S) + Cardinality(kept)
      /\ Min({M, Cardinality(S \cup L)}) =
           IF M <= Cardinality(S) + Cardinality(L) THEN M ELSE Cardinality(S) + Cardinality(L)
  <2>1. PICK a \in Nat, b \in Nat, c \in Nat :
          a = Cardinality(L) /\ b = Cardinality(S) + Cardinality(kept)
            /\ c = Cardinality(S) + Cardinality(L)
    BY <1>7
  <2>2. /\ Min({M, a}) = IF M <= a THEN M ELSE a
        /\ Min({M, b}) = IF M <= b THEN M ELSE b
        /\ Min({M, c}) = IF M <= c THEN M ELSE c
    BY <1>1, MinOfTwo
  <2> QED BY <1>2, <1>3, <1>5, <2>1, <2>2
<1>9. Cardinality(T) = Min({M, Cardinality(S \cup L)})
  BY <1>1, <1>7, <1>8
<1>10. ASSUME NEW t \in T, NEW l \in (S \cup L) \ T  PROVE l.score <= t.score
  <2>1. CASE l \in S \cup kept
    BY <1>3, <2>1
  <2>2. CASE l \notin S \cup kept
    <3>1. l \in L \ kept
      BY <2>2
    <3>2. CASE t \in kept
      BY <1>2, <3>1, <3>2
    <3>3. CASE t \notin kept
      <4>1. t \in S
        BY <1>3, <3>3
      <4>2. CASE kept \subseteq T
        <5>1. /\ IsFiniteSet(kept \cup {t})
              /\ Cardinality(kept \cup {t}) = Cardinality(kept) + 1
          BY <1>4, <3>3, FS_AddElement
        <5>2. Cardinality(kept \cup {t}) <= Cardinality(T)
          <6> DEFINE more == kept \cup {t}
          <6>1. more \in SUBSET T
            BY <4>2
          <6> HIDE DEF more
          <6>2. Cardinality(more) <= Cardinality(T)
            BY <1>6, <6>1, FS_Subset
          <6> QED BY <6>2 DEF more
        <5>3. Cardinality(kept) # Cardinality(L)
          <6>1. Cardinality(kept) = Cardinality(L) => kept = L
            BY <1>2, <1>4, FS_Subset
          <6> QED BY <3>1, <6>1
        <5>4. Cardinality(kept) = M /\ Cardinality(T) <= M
          BY <1>1, <1>7, <1>8, <5>3
        <5> QED BY <1>1, <1>7, <5>1, <5>2, <5>4
      <4>3. CASE ~ (kept \subseteq T)
        <5>1. PICK k \in kept : k \notin T
          BY <4>3
        <5>2. l.score <= k.score /\ k.score <= t.score
          BY <1>2, <1>3, <3>1, <5>1
        <5>3. l.score \in Int /\ k.score \in Int /\ t.score \in Int
          BY <1>2, <3>1, <4>1, <5>1 DEF IsLines
        <5> QED BY <5>2, <5>3
      <4> QED BY <4>2, <4>3
    <3> QED BY <3>2, <3>3
  <2> QED BY <2>1, <2>2
<1>11. T \in SUBSET (S \cup L)
  BY <1>2, <1>3
<1> QED BY <1>9, <1>10, <1>11 DEF Shown, M

\* Lists without a common text are joined.
LEMMA FoldJoins ==
  ASSUME NEW S, NEW L, \A s \in S, l \in L : s.text # l.text
  PROVE  Fold(S, L) = S \cup L /\ S \cap L = {}
BY DEF Fold

\* The two cuts of a tick are one.
LEMMA CutOnce ==
  ASSUME NEW shifts, IsLines(shifts), NEW lines, IsLines(lines),
         \A s \in shifts, l \in lines : s.text # l.text,
         NEW kept \in Shown(lines), NEW T \in Shown(Fold(shifts, kept))
  PROVE  T \in Shown(Fold(shifts, lines))
<1>1. kept \in SUBSET lines
  BY DEF Shown
<1>2. Fold(shifts, kept) = shifts \cup kept
  BY <1>1, FoldJoins
<1>3. Fold(shifts, lines) = shifts \cup lines /\ shifts \cap lines = {}
  BY FoldJoins
<1> QED BY <1>2, <1>3, CutTwice

-----------------------------------------------------------------------------
(* Scores are numbers, whatever the store held when the baseline was built. *)

\* The ceiling of an entity's counts, of which there is one at least.
CeilingIsNat == \A counts \in Seq(Nat) \ {<<>>} : Ceiling(counts) \in Nat

IsMetric(m) == m.default \in Nat /\ \A x \in DOMAIN m.own : m.own[x] \in Nat

IsProfile(p) == \E b \in Nat : p \in [0..(DayHours - 1) -> 0..b]

IsEngine(e) ==
  /\ IsMetric(e.deaths) /\ IsMetric(e.queries) /\ e.children \in Nat
  /\ \A kind \in DOMAIN e.hours : IsProfile(e.hours[kind])

\* Of each value the counts of some hours.
IsCounts(counts) ==
  /\ IsFiniteSet(DOMAIN counts)
  /\ \A x \in DOMAIN counts :
       /\ DOMAIN counts[x] \subseteq Int /\ DOMAIN counts[x] # {}
       /\ IsFiniteSet(DOMAIN counts[x])
       /\ \A h \in DOMAIN counts[x] : counts[x][h] \in Nat

\* The larger of two numbers.
LEMMA MaxOfTwo ==
  ASSUME NEW a \in Nat, NEW b \in Nat
  PROVE  Max({a, b}) = IF a <= b THEN b ELSE a
<1> DEFINE S == {a, b}
<1>1. S \in SUBSET Nat /\ S # {} /\ a + b \in Nat /\ \A x \in S : x <= a + b
  OBVIOUS
<1>2. Max(S) \in S /\ \A x \in S : x <= Max(S)
  <2> HIDE DEF S
  <2> QED BY <1>1, MaxOfNats
<1> QED BY <1>2

\* The nearest rank is one of the ranks.
LEMMA PercentileIsNat ==
  ASSUME NEW values \in Seq(Nat)
  PROVE  Percentile99(values) \in Nat
<1> DEFINE n == Len(values)
           I == DOMAIN values
           order == InOrder(values, I)
           part == (99 * n + 99) \div 100
           rank == Max({1, part})
<1>1. n \in Nat /\ I = 1..n /\ I \in SUBSET Int /\ (\A i \in I : values[i] \in Nat /\ values[i] \in Int)
      /\ IsSeq(values)
  BY DEF IsSeq
<1>2. IsFiniteSet(I) /\ Cardinality(I) = n
  BY <1>1, WindowIsFinite
<1>3. order \in [1..n -> I]
  <2> HIDE DEF I, n
  <2> QED BY <1>1, <1>2, InOrderSorts
<1> HIDE DEF order
<1>4. CASE values = <<>>
  BY <1>4 DEF Percentile99
<1>5. CASE values # <<>>
  <2>1. n # 0
    BY <1>5
  <2>2. part \in Nat /\ part <= n
    <3> HIDE DEF n
    <3> QED BY <1>1, <2>1
  <2> HIDE DEF part
  <2>3. rank \in 1..n
    <3>1. rank = IF 1 <= part THEN part ELSE 1
      BY <2>2, MaxOfTwo
    <3> HIDE DEF rank
    <3> QED BY <1>1, <2>1, <2>2, <3>1
  <2> HIDE DEF rank, n
  <2>4. order[rank] \in I
    BY <1>3, <2>3
  <2>5. Percentile99(values) = values[order[rank]]
    BY <1>5 DEF Percentile99, rank, part, order, n
  <2> QED BY <1>1, <2>4, <2>5
<1> QED BY <1>4, <1>5

\* A baseline of counts is a limit for each entity and a default.
LEMMA MetricIsMetric ==
  ASSUME NEW counts, IsCounts(counts), CeilingIsNat
  PROVE  IsMetric(MetricBaseline(counts))
<1> DEFINE Hours(x) == InOrder(ByNumber(DOMAIN counts[x]), DOMAIN counts[x])
           Counts(x) == [n \in DOMAIN Hours(x) |-> counts[x][Hours(x)[n]]]
           own == [x \in DOMAIN counts |-> Max({Percentile99(Counts(x)), Ceiling(Counts(x))})]
           each == SetToSeq(DOMAIN own)
           all == [n \in DOMAIN each |-> own[each[n]]]
<1>1. ASSUME NEW x \in DOMAIN counts  PROVE Counts(x) \in Seq(Nat) \ {<<>>}
  <2> DEFINE I == DOMAIN counts[x]
             key == ByNumber(I)
             n == Cardinality(I)
             order == InOrder(key, I)
             row == [k \in DOMAIN order |-> counts[x][order[k]]]
  <2>1. /\ I \in SUBSET Int /\ I # {} /\ IsFiniteSet(I)
        /\ \A i \in I : key[i] \in Int /\ counts[x][i] \in Nat
    <3>1. I \subseteq Int /\ I # {} /\ IsFiniteSet(I) /\ \A i \in I : counts[x][i] \in Nat
      BY DEF IsCounts
    <3> HIDE DEF I
    <3>2. \A i \in I : key[i] = i
      BY DEF ByNumber
    <3> QED BY <3>1, <3>2
  <2> HIDE DEF I, key
  <2>2. n \in Nat /\ order \in [1..n -> I]
    BY <2>1, InOrderSorts
  <2>3. n # 0
    BY <2>1, FS_EmptySet
  <2> HIDE DEF n, order
  <2>4. row \in [1..n -> Nat]
    BY <2>1, <2>2
  <2> HIDE DEF row
  <2>5. row \in Seq(Nat) /\ Len(row) = n
    BY <2>2, <2>4
  <2>6. row # <<>>
    BY <2>3, <2>5
  <2> QED BY <2>5, <2>6 DEF row, order, key, I
<1>2. ASSUME NEW x \in DOMAIN counts  PROVE own[x] \in Nat
  <2>1. PICK row \in Seq(Nat) \ {<<>>} : row = Counts(x)
    BY <1>1
  <2>2. Percentile99(row) \in Nat /\ Ceiling(row) \in Nat
    BY PercentileIsNat DEF CeilingIsNat
  <2>3. Max({Percentile99(row), Ceiling(row)}) \in Nat
    BY <2>2, MaxOfTwo
  <2> HIDE DEF Counts
  <2> QED BY <2>1, <2>3
<1>3. DOMAIN own = DOMAIN counts
  OBVIOUS
<1>4. MetricBaseline(counts) = [own |-> own, default |-> Percentile99(all)]
  BY DEF MetricBaseline
<1> HIDE DEF own
<1>5. all \in Seq(Nat)
  <2>1. each \in Seq(DOMAIN own)
    BY <1>3, ListingIsSeq DEF IsCounts
  <2> HIDE DEF each
  <2>2. Len(each) \in Nat /\ DOMAIN each = 1..Len(each) /\ \A n \in DOMAIN each : own[each[n]] \in Nat
    BY <1>2, <1>3, <2>1
  <2>3. all \in [1..Len(each) -> Nat]
    BY <2>2
  <2> HIDE DEF all
  <2> QED BY <2>2, <2>3
<1> HIDE DEF all
<1>6. Percentile99(all) \in Nat
  BY <1>5, PercentileIsNat
<1> QED BY <1>2, <1>3, <1>4, <1>6 DEF IsMetric

\* Of each entity the windows with events, finitely many, and how many each
\* has.
LEMMA WindowCounts ==
  ASSUME NEW rows, IsWindow(rows), NEW kind, NEW field, NEW from, NEW width \in Nat \ {0}
  PROVE  IsCounts(FieldWindowCounts(rows, kind, field, from, width))
<1> DEFINE I == RowsSince(rows, kind, from)
           value == [i \in I |-> field[rows[i]]]
           start == [i \in I |-> (rows[i].ts \div width) * width]
           Same(v) == {i \in I : value[i] = v}
           Starts(v) == {start[i] : i \in Same(v)}
           values == {value[i] : i \in I}
           counts == FieldWindowCounts(rows, kind, field, from, width)
<1>1. IsFiniteSet(I) /\ \A i \in I : i \in DOMAIN rows /\ rows[i].ts \in Nat
  <2>1. I \in SUBSET DOMAIN rows
    BY DEF RowsSince
  <2> HIDE DEF I
  <2> QED BY <2>1, WindowIsFinite, FS_Subset DEF IsWindow
<1>2. \A i \in I : start[i] \in Int
  <2> SUFFICES ASSUME NEW i \in I  PROVE start[i] \in Int
    OBVIOUS
  <2>1. PICK t \in Nat : t = rows[i].ts
    BY <1>1
  <2>2. PICK q \in Nat : q = t \div width
    BY QuotientRange
  <2>3. q * width \in Int
    OBVIOUS
  <2> HIDE DEF I
  <2> QED BY <2>1, <2>2, <2>3
<1>3. counts = [v \in {field[rows[i]] : i \in I} |->
                 [s \in {(rows[i].ts \div width) * width : i \in {j \in I : field[rows[j]] = v}} |->
                   Cardinality({i \in I : field[rows[i]] = v /\ (rows[i].ts \div width) * width = s})]]
  BY DEF FieldWindowCounts
<1>4. values = {field[rows[i]] : i \in I}
  OBVIOUS
<1>5. \A v : Starts(v) = {(rows[i].ts \div width) * width : i \in {j \in I : field[rows[j]] = v}}
  OBVIOUS
<1>6. ASSUME NEW S \in SUBSET I  PROVE IsFiniteSet(S) /\ Cardinality(S) \in Nat
  BY <1>1, <1>6, FS_Subset, FS_CardinalityType
<1>7. DOMAIN counts = values
  <2> HIDE DEF I, value, values
  <2> QED BY <1>3, <1>4
<1>8. ASSUME NEW v \in values
      PROVE  /\ DOMAIN counts[v] = Starts(v)
             /\ \A s \in Starts(v) : counts[v][s] \in Nat
  <2> DEFINE At(s) == {i \in I : field[rows[i]] = v /\ (rows[i].ts \div width) * width = s}
             row == [s \in Starts(v) |-> Cardinality(At(s))]
  <2>1. counts[v] = row
    <3> HIDE DEF I, value, values, Starts
    <3> QED BY <1>3, <1>4, <1>5
  <2>2. \A s \in Starts(v) : Cardinality(At(s)) \in Nat
    <3>1. \A s \in Starts(v) : At(s) \in SUBSET I
      OBVIOUS
    <3> HIDE DEF At, I, Starts
    <3> QED BY <1>6, <3>1
  <2> HIDE DEF Starts, At, counts
  <2> QED BY <2>1, <2>2
<1>9. ASSUME NEW v \in values
      PROVE  Starts(v) \subseteq Int /\ Starts(v) # {} /\ IsFiniteSet(Starts(v))
  <2>1. Same(v) \in SUBSET I /\ Same(v) # {}
    OBVIOUS
  <2>2. IsFiniteSet(Same(v))
    <3> HIDE DEF Same, I
    <3> QED BY <1>6, <2>1
  <2> HIDE DEF Same, start, I
  <2>3. IsFiniteSet(Starts(v))
    BY <2>2, ImageIsSmaller
  <2>4. \A i \in Same(v) : start[i] \in Int /\ start[i] \in Starts(v)
    BY <1>2, <2>1
  <2> QED BY <2>1, <2>3, <2>4
<1>10. IsFiniteSet(values)
  <2> HIDE DEF I, value
  <2> QED BY <1>1, ImageIsSmaller
<1> HIDE DEF counts, values, Starts
<1> QED BY <1>7, <1>8, <1>9, <1>10 DEF IsCounts, counts

\* The profile of a kind has a count for each hour of the day.
LEMMA ProfileIsProfile ==
  ASSUME NEW rows, IsWindow(rows), NEW from, NEW kind \in DOMAIN HourlyProfile(rows, from)
  PROVE  IsProfile(HourlyProfile(rows, from)[kind])
<1> DEFINE I == RowsSince(rows, kind, from)
           At(h) == {i \in I : HourOf(rows[i].ts) = h}
           hours == 0..(DayHours - 1)
           profile == [h \in hours |-> Cardinality(At(h))]
           b == Cardinality(I)
<1>1. IsFiniteSet(I) /\ b \in Nat
  <2>1. I \in SUBSET DOMAIN rows
    BY DEF RowsSince
  <2> HIDE DEF I
  <2> QED BY <2>1, WindowIsFinite, FS_Subset, FS_CardinalityType DEF IsWindow
<1>2. HourlyProfile(rows, from)[kind] = profile
  BY DEF HourlyProfile
<1>3. \A h \in hours : Cardinality(At(h)) \in 0..b
  <2>1. \A h \in hours : At(h) \in SUBSET I
    OBVIOUS
  <2> HIDE DEF At, I
  <2>2. \A h \in hours : Cardinality(At(h)) <= b /\ IsFiniteSet(At(h))
    BY <1>1, <2>1, FS_Subset
  <2>3. \A h \in hours : Cardinality(At(h)) \in Nat
    BY <2>2, FS_CardinalityType
  <2> QED BY <1>1, <2>2, <2>3
<1> HIDE DEF At, b, hours
<1>4. profile \in [hours -> 0..b]
  BY <1>3
<1> QED BY <1>1, <1>2, <1>4 DEF IsProfile, hours

\* A baseline that is built from a store.
LEMMA EngineFromStore ==
  ASSUME NEW s, IsWindow(s.rows), s.children \in Seq(Nat), NEW at, NEW n, CeilingIsNat
  PROVE  IsEngine(Both(FromStore(s, n), [at |-> at]))
<1> DEFINE from == n - Lookback * Hour
           Of(kind) == {r \in ToSet(s.rows) : r.kind = kind}
           dead == [r \in Of("process_death") |-> Comm(r.process)]
           asked == [r \in Of("dns_query") |-> r.client]
           deaths == FieldWindowCounts(s.rows, "process_death", dead, from, Hour)
           queries == FieldWindowCounts(s.rows, "dns_query", asked, from, Hour)
           base == FromStore(s, n)
           e == Both(base, [at |-> at])
<1>1. /\ base.deaths = MetricBaseline(deaths) /\ base.queries = MetricBaseline(queries)
      /\ base.children = Percentile99(s.children) /\ base.hours = HourlyProfile(s.rows, from)
      /\ DOMAIN base = {"cold", "deaths", "queries", "children", "hours"}
  BY DEF FromStore
<1>2. Hour \in Nat \ {0}
  BY EventQueriesAssumption
<1>3. IsCounts(deaths) /\ IsCounts(queries)
  <2> HIDE DEF dead, asked, from
  <2> QED BY <1>2, WindowCounts
<1> HIDE DEF base, deaths, queries, from
<1>4. e.deaths = base.deaths /\ e.queries = base.queries /\ e.children = base.children /\ e.hours = base.hours
  BY <1>1 DEF Both
<1> HIDE DEF e
<1>5. IsMetric(e.deaths) /\ IsMetric(e.queries)
  BY <1>1, <1>3, <1>4, MetricIsMetric
<1>6. e.children \in Nat
  BY <1>1, <1>4, PercentileIsNat
<1>7. \A kind \in DOMAIN e.hours : IsProfile(e.hours[kind])
  BY <1>1, <1>4, ProfileIsProfile
<1> QED BY <1>5, <1>6, <1>7 DEF IsEngine, e, base

-----------------------------------------------------------------------------
(* The lines that are offered *)

\* Lines of one kind are told from those of another by their first word.
Worded(L, words) == \A l \in L : l.text[1] \in words

\* How rare an hour is, is a number.
LEMMA RarityIsInt ==
  ASSUME NEW e, IsEngine(e), NEW kind, NEW t \in Nat
  PROVE  KindRarity(e, kind, HourOf(t)) \in Int
<1>1. CASE e.cold \/ kind \notin DOMAIN e.hours
  BY <1>1 DEF KindRarity
<1>2. CASE ~ (e.cold \/ kind \notin DOMAIN e.hours)
  <2> DEFINE p == e.hours[kind]
             hours == 0..(DayHours - 1)
             counts == {p[h] : h \in DOMAIN p}
             busiest == Max(counts)
             hour == HourOf(t)
  <2>1. PICK b \in Nat : p \in [hours -> 0..b]
    BY <1>2 DEF IsEngine, IsProfile
  <2>2. hour \in hours
    BY HourRange
  <2> HIDE DEF p, hours, hour
  <2>3. counts \in SUBSET Nat /\ counts # {} /\ \A x \in counts : x <= b
    BY <2>1, <2>2
  <2> HIDE DEF counts
  <2>4. busiest \in Nat
    BY <2>3, MaxOfNats
  <2>5. p[hour] \in Nat
    BY <2>1, <2>2
  <2>6. Unit \in Nat /\ Unit * p[hour] \in Nat
    <3>1. PICK u \in Nat, q \in Nat : u = Unit /\ q = p[hour]
      BY <2>5, SummaryAssumption
    <3>2. u * q \in Nat
      OBVIOUS
    <3> QED BY <3>1, <3>2
  <2> HIDE DEF busiest
  <2>7. busiest # 0 => Unit - (Unit * p[hour]) \div busiest \in Int
    <3>1. PICK m \in Nat : m = Unit * p[hour]
      BY <2>6
    <3>2. busiest # 0 => m \div busiest \in Nat
      BY <2>4, QuotientRange
    <3> QED BY <2>6, <3>1, <3>2
  <2>8. KindRarity(e, kind, hour) = IF busiest = 0 THEN 0 ELSE Unit - (Unit * p[hour]) \div busiest
    BY <1>2 DEF KindRarity, busiest, counts, p
  <2> QED BY <2>7, <2>8 DEF hour
<1> QED BY <1>1, <1>2

\* A threshold is a number, with any baseline.
LEMMA ThresholdIsNat ==
  ASSUME NEW e, NEW m, IsMetric(m), NEW x, NEW legacy \in Nat
  PROVE  Threshold(e, m, x, legacy) \in Nat
BY DEF Threshold, IsMetric

\* The time of the last event of some.
LEMMA LatestHasTime ==
  ASSUME NEW w, IsWindow(w), NEW I \in SUBSET DOMAIN w, I # {}
  PROVE  Max(I) \in I /\ Anchor + w[Max(I)].ts \in Nat
<1>1. DOMAIN w = 1..Len(w) /\ Len(w) \in Nat
  BY WindowIsFinite DEF IsWindow
<1>2. Max(I) \in I
  BY <1>1, MaxOfNats
<1> QED BY <1>2, EventQueriesAssumption DEF IsWindow

\* The score of what was counted is a number.
LEMMA ScoredIsInt ==
  ASSUME NEW e, IsEngine(e), NEW w, IsWindow(w), NEW text, NEW n \in Nat, NEW limit \in Nat,
         NEW kind, NEW I \in SUBSET DOMAIN w, I # {}
  PROVE  /\ Scored(e, text, n, limit, kind, I, w).score \in Int
         /\ Scored(e, text, n, limit, kind, I, w).text = text
<1> DEFINE t == Anchor + w[Max(I)].ts
           rare == KindRarity(e, kind, HourOf(t))
           at == Max({limit, 1})
<1>1. rare \in Int
  <2>1. t \in Nat
    BY LatestHasTime
  <2> HIDE DEF t
  <2> QED BY <2>1, RarityIsInt
<1>2. at \in Nat \ {0}
  <2>1. at = IF limit <= 1 THEN 1 ELSE limit
    BY MaxOfTwo
  <2> HIDE DEF at
  <2> QED BY <2>1
<1>3. Unit \in Nat
  BY SummaryAssumption
<1> HIDE DEF rare, at
<1>4. (3 * n * Unit) \div at + 2 * rare \in Int
  <2>1. PICK m \in Nat : m = 3 * n * Unit
    <3>1. PICK u \in Nat : u = Unit
      BY <1>3
    <3>2. 3 * n * u \in Nat
      OBVIOUS
    <3> QED BY <3>1, <3>2
  <2>2. m \div at \in Nat
    BY <1>2, QuotientRange
  <2> QED BY <1>1, <2>1, <2>2
<1> QED BY <1>4 DEF Scored, rare, at, t

\* The scores of bursts are lines, each with its word.
LEMMA BurstLines ==
  ASSUME NEW e, IsEngine(e), NEW w, IsWindow(w)
  PROVE  IsLines(ScoredBursts(w, e)) /\ Worded(ScoredBursts(w, e), {"burst"})
<1> DEFINE deaths == ShortLived(w)
           Of(c) == {i \in deaths : Comm(w[i].process) = c}
           Limit(c) == Threshold(e, e.deaths, c, BurstMin)
           f == [i \in deaths |-> Comm(w[i].process)]
           comms == {f[i] : i \in deaths}
           some == {x \in comms : Cardinality(Of(x)) >= Limit(x)}
           line == [c \in some |-> Scored(e, <<"burst", c, Cardinality(Of(c)), Limit(c)>>,
                                          Cardinality(Of(c)), Limit(c), "process_death", Of(c), w)]
<1>1. deaths \in SUBSET DOMAIN w /\ IsFiniteSet(deaths)
  BY ShortLivedIsFinite DEF IsWindow
<1>2. ScoredBursts(w, e) = {line[c] : c \in some}
  <2>1. comms = {Comm(w[i].process) : i \in deaths}
    OBVIOUS
  <2> HIDE DEF comms, f
  <2> QED BY <2>1 DEF ScoredBursts
<1> HIDE DEF deaths
<1>3. IsFiniteSet(some)
  <2>1. IsFiniteSet(comms)
    <3> HIDE DEF f
    <3> QED BY <1>1, ImageIsSmaller
  <2>2. some \in SUBSET comms
    OBVIOUS
  <2> HIDE DEF some, comms
  <2> QED BY <2>1, <2>2, FS_Subset
<1>4. ASSUME NEW c \in some  PROVE line[c].score \in Int /\ line[c].text[1] = "burst"
  <2> DEFINE I == Of(c)
             n == Cardinality(I)
             limit == Limit(c)
             text == <<"burst", c, n, limit>>
  <2>1. I \in SUBSET deaths /\ I # {}
    OBVIOUS
  <2>2. I \in SUBSET DOMAIN w /\ n \in Nat
    <3> HIDE DEF I
    <3> QED BY <1>1, <2>1, FS_Subset, FS_CardinalityType
  <2>3. limit \in Nat
    BY ThresholdIsNat, SummaryAssumption DEF IsEngine
  <2>4. line[c] = Scored(e, text, n, limit, "process_death", I, w)
    OBVIOUS
  <2>5. text[1] = "burst"
    OBVIOUS
  <2> HIDE DEF I, n, limit, text, line, some
  <2> QED BY <2>1, <2>2, <2>3, <2>4, <2>5, ScoredIsInt
<1> HIDE DEF line, some
<1>5. IsFiniteSet({line[c] : c \in some})
  BY <1>3, ImageIsSmaller
<1> QED BY <1>2, <1>4, <1>5 DEF IsLines, Worded

\* The scores of clients are lines, each with its word.
LEMMA DnsLines ==
  ASSUME NEW e, IsEngine(e), NEW w, IsWindow(w)
  PROVE  IsLines(ScoredDns(w, e)) /\ Worded(ScoredDns(w, e), {"dns"})
<1> DEFINE queries == OfKinds(w, {"dns_query"})
           Of(c) == {i \in queries : w[i].client = c}
           Unique(c) == Cardinality({w[i].hash : i \in Of(c)})
           Limit(c) == Threshold(e, e.queries, c, HeavyDns)
           f == [i \in queries |-> w[i].client]
           known == {f[i] : i \in queries}
           some == {x \in known : Cardinality(Of(x)) >= Limit(x)}
           line == [c \in some |-> Scored(e, <<"dns", c, Cardinality(Of(c)), Unique(c), Limit(c)>>,
                                          Cardinality(Of(c)), Limit(c), "dns_query", Of(c), w)]
<1>1. queries \in SUBSET DOMAIN w /\ IsFiniteSet(queries)
  BY KindsAreFinite DEF IsWindow
<1>2. ScoredDns(w, e) = {line[c] : c \in some}
  <2>1. known = {w[i].client : i \in queries}
    OBVIOUS
  <2> HIDE DEF known, f
  <2> QED BY <2>1 DEF ScoredDns
<1> HIDE DEF queries
<1>4. IsFiniteSet(some)
  <2>1. IsFiniteSet(known)
    <3> HIDE DEF f
    <3> QED BY <1>1, ImageIsSmaller
  <2>2. some \in SUBSET known
    OBVIOUS
  <2> HIDE DEF some, known
  <2> QED BY <2>1, <2>2, FS_Subset
<1>5. ASSUME NEW c \in some  PROVE line[c].score \in Int /\ line[c].text[1] = "dns"
  <2> DEFINE I == Of(c)
             n == Cardinality(I)
             limit == Limit(c)
             text == <<"dns", c, n, Unique(c), limit>>
  <2>1. I \in SUBSET queries /\ I # {}
    OBVIOUS
  <2>2. I \in SUBSET DOMAIN w /\ n \in Nat
    <3> HIDE DEF I
    <3> QED BY <1>1, <2>1, FS_Subset, FS_CardinalityType
  <2>3. limit \in Nat
    BY ThresholdIsNat, SummaryAssumption DEF IsEngine
  <2>4. line[c] = Scored(e, text, n, limit, "dns_query", I, w)
    OBVIOUS
  <2>5. text[1] = "dns"
    OBVIOUS
  <2> HIDE DEF I, n, limit, text, line, some
  <2> QED BY <2>1, <2>2, <2>3, <2>4, <2>5, ScoredIsInt
<1> HIDE DEF line, some
<1>6. IsFiniteSet({line[c] : c \in some})
  BY <1>4, ImageIsSmaller
<1> QED BY <1>2, <1>5, <1>6 DEF IsLines, Worded

\* The scores of parents are lines, each with its word.
LEMMA ParentLines ==
  ASSUME NEW e, IsEngine(e), NEW w, IsWindow(w)
  PROVE  IsLines(ScoredParents(w, e)) /\ Worded(ScoredParents(w, e), {"parent"})
<1> DEFINE births == OfKinds(w, {"process_birth"})
           Of(p) == {i \in births : ParentPid(w[i].process) = p}
           limit == IF e.cold \/ e.children = 0 THEN ProlificParent ELSE e.children
           f == [i \in births |-> ParentPid(w[i].process)]
           known == {f[i] : i \in births}
           some == {x \in known : Cardinality(Of(x)) >= limit}
           line == [p \in some |-> Scored(e, <<"parent", p, Cardinality(Of(p)), limit>>,
                                          Cardinality(Of(p)), limit, "process_birth", Of(p), w)]
<1>1. births \in SUBSET DOMAIN w /\ IsFiniteSet(births)
  BY KindsAreFinite DEF IsWindow
<1>2. ScoredParents(w, e) = {line[p] : p \in some}
  <2>1. known = {ParentPid(w[i].process) : i \in births}
    OBVIOUS
  <2> HIDE DEF known, f
  <2> QED BY <2>1 DEF ScoredParents
<1>3. limit \in Nat
  BY SummaryAssumption DEF IsEngine
<1> HIDE DEF births, limit
<1>4. IsFiniteSet(some)
  <2>1. IsFiniteSet(known)
    <3> HIDE DEF f
    <3> QED BY <1>1, ImageIsSmaller
  <2>2. some \in SUBSET known
    OBVIOUS
  <2> HIDE DEF some, known
  <2> QED BY <2>1, <2>2, FS_Subset
<1>5. ASSUME NEW p \in some  PROVE line[p].score \in Int /\ line[p].text[1] = "parent"
  <2> DEFINE I == Of(p)
             n == Cardinality(I)
             text == <<"parent", p, n, limit>>
  <2>1. I \in SUBSET births /\ I # {}
    OBVIOUS
  <2>2. I \in SUBSET DOMAIN w /\ n \in Nat
    <3> HIDE DEF I
    <3> QED BY <1>1, <2>1, FS_Subset, FS_CardinalityType
  <2>3. line[p] = Scored(e, text, n, limit, "process_birth", I, w)
    OBVIOUS
  <2>4. text[1] = "parent"
    OBVIOUS
  <2> HIDE DEF I, n, text, line, some
  <2> QED BY <1>3, <2>1, <2>2, <2>3, <2>4, ScoredIsInt
<1> HIDE DEF line, some
<1>6. IsFiniteSet({line[p] : p \in some})
  BY <1>4, ImageIsSmaller
<1> QED BY <1>2, <1>5, <1>6 DEF IsLines, Worded

\* The scores of contacts are lines, each with its word.
LEMMA PortLines ==
  ASSUME NEW e, IsEngine(e), NEW w, IsWindow(w)
  PROVE  IsLines(ScoredPorts(w, e)) /\ Worded(ScoredPorts(w, e), {"port"})
<1> DEFINE I == FirstContacts(w)
           line == [i \in I |-> [text |-> PortText(w, i),
                      score |-> 5 * Unit + 2 * KindRarity(e, "connection_opened",
                                                          HourOf(Anchor + w[i].ts))]]
<1>1. I \subseteq DOMAIN w /\ IsFiniteSet(I)
  BY ContactsAreFinite DEF IsWindow
<1>2. ScoredPorts(w, e) = {line[i] : i \in I}
  BY DEF ScoredPorts
<1> HIDE DEF I
<1>3. ASSUME NEW i \in I  PROVE line[i].score \in Int /\ line[i].text[1] = "port"
  <2>1. Anchor + w[i].ts \in Nat
    BY <1>1, EventQueriesAssumption DEF IsWindow
  <2>2. KindRarity(e, "connection_opened", HourOf(Anchor + w[i].ts)) \in Int
    BY <2>1, RarityIsInt
  <2>3. Unit \in Nat
    BY SummaryAssumption
  <2> QED BY <2>2, <2>3 DEF PortText
<1> HIDE DEF line
<1>4. IsFiniteSet({line[i] : i \in I})
  BY <1>1, ImageIsSmaller
<1> QED BY <1>2, <1>3, <1>4 DEF IsLines, Worded

\* Lines and lines are lines together.
LEMMA LinesJoin ==
  ASSUME NEW K, IsLines(K), NEW L, IsLines(L)
  PROVE  IsLines(K \cup L)
<1>1. IsFiniteSet(K \cup L)
  BY FS_Union DEF IsLines
<1> QED BY <1>1 DEF IsLines

\* The scores of a window are lines.
LEMMA WindowLines ==
  ASSUME NEW e, IsEngine(e), NEW w, IsWindow(w)
  PROVE  /\ IsLines(ScoreWindow(w, e))
         /\ Worded(ScoreWindow(w, e), {"burst", "dns", "parent", "port"})
<1>1. IsLines(ScoreWindow(w, e))
  BY BurstLines, DnsLines, ParentLines, PortLines, LinesJoin DEF ScoreWindow
<1>2. /\ Worded(ScoredBursts(w, e), {"burst"}) /\ Worded(ScoredDns(w, e), {"dns"})
      /\ Worded(ScoredParents(w, e), {"parent"}) /\ Worded(ScoredPorts(w, e), {"port"})
  BY BurstLines, DnsLines, ParentLines, PortLines
<1> QED BY <1>1, <1>2 DEF ScoreWindow, Worded

-----------------------------------------------------------------------------
(* What two snapshots differ in is finite and has numbers.                  *)

\* An edge has a number of lines.
IsWeighted(g) ==
  /\ IsFiniteSet(DOMAIN g.edges)
  /\ \A e \in DOMAIN g.edges : Len(g.edges[e]) \in Nat

IntervalsAreSeqs == \A a \in DOMAIN apps : IsSeq(apps[a])

\* What is left of the intervals are overlaps of theirs.
LEMMA OverlapsAreSeq ==
  ASSUME NEW S, NEW intervals \in Seq(S), NEW p
  PROVE  Overlaps(intervals, p) \in Seq({Overlap(x, p) : x \in S})
<1> DEFINE O == {Overlap(x, p) : x \in S}
           n == Len(intervals)
           Over(i) == Overlap(intervals[i], p)
           Lasts(i) == Over(i).to = None \/ Over(i).from < Over(i).to
           keeps == [i \in 1..n |-> Lasts(i)]
           value == [i \in 1..n |-> Over(i)]
           Is(f) == f = [i \in 0..n |-> IF i = 0 THEN <<>>
                                        ELSE IF Lasts(i) THEN Append(f[i - 1], Over(i))
                                        ELSE f[i - 1]]
           up == CHOOSE f : Is(f)
<1>1. n \in Nat /\ \A i \in 1..n : intervals[i] \in S
  OBVIOUS
<1>2. Overlaps(intervals, p) = up[n]
  BY DEF Overlaps
<1>3. \A i \in 0..n : i # 0 => keeps[i] = Lasts(i) /\ value[i] = Over(i)
  <2>1. \A i \in 0..n : i # 0 => i \in 1..n
    BY <1>1
  <2> HIDE DEF Over, Lasts
  <2> QED BY <2>1, Zenon
<1>4. \A i \in 1..n : value[i] \in O
  BY <1>1
<1> HIDE DEF Over, Lasts, keeps, value, O, n
<1>5. ASSUME NEW f  PROVE Is(f) <=> Selects(f, keeps, value, n)
  BY <1>3 DEF Selects
<1> HIDE DEF Is
<1>6. \E f : Is(f)
  BY <1>1, <1>5, SelectionExists
<1>7. Is(up)
  BY <1>6
<1> HIDE DEF up
<1>8. up[n] \in Seq(O)
  BY <1>1, <1>4, <1>5, <1>7, SelectionIsSeq
<1> QED BY <1>2, <1>8 DEF O

\* An interval that ends is still in its place.
LEMMA ClosedIsSeq ==
  ASSUME NEW s, IsSeq(s), NEW ts
  PROVE  IsSeq(CloseLast(s, ts))
<1>1. PICK S : s \in Seq(S)
  BY DEF IsSeq
<1> DEFINE n == Len(s)
           r == [s EXCEPT ![n].to = ts]
<1>2. n \in Nat /\ DOMAIN s = 1..n
  BY <1>1
<1>3. r \in [1..n -> {r[i] : i \in 1..n}]
  <2>1. DOMAIN r = 1..n /\ r = [i \in 1..n |-> r[i]]
    BY <1>2
  <2> HIDE DEF r
  <2> QED BY <2>1
<1>4. IsSeq(r)
  <2>1. PICK T : r \in [1..n -> T]
    BY <1>3
  <2> HIDE DEF r, n
  <2>2. r \in Seq(T)
    BY <1>2, <2>1
  <2> QED BY <2>2 DEF IsSeq
<1> QED BY <1>4 DEF CloseLast

Kinds == {"parent_of", "frontmost_during", "opened_socket", "queried_domain"}

\* What the edges of a snapshot are, and what they carry.
LEMMA SnapshotEdges ==
  ASSUME IntervalsAreSeqs, NEW order, NEW g, g = Snapshot(order), NEW e \in DOMAIN g.edges
  PROVE  /\ \E kind \in Kinds : e = [kind |-> kind, from |-> e.from, to |-> e.to]
         /\ e.from # e.to
         /\ Len(g.edges[e]) \in Nat
<1> DEFINE P == ParentEdges(order)
           F == FrontmostEdges(FrontClosed(lastTs))
           S == SocketEdges(order)
           D == DomainEdges(order)
<1>1. g.edges = Both(Both(P, F), Both(S, D))
  BY DEF Snapshot
<1>2. Len(Plain) \in Nat
  BY DEF Plain
<1>3. CASE e \in DOMAIN P
  <2>1. PICK c \in DOMAIN processes :
          e \in {Edge("parent_of", "process", p, "process", c) :
                  p \in LastIn(order, WithPid(processes[c].ppid)) \ {c}}
    BY <1>3 DEF ParentEdges
  <2>2. PICK p \in LastIn(order, WithPid(processes[c].ppid)) \ {c} :
          e = Edge("parent_of", "process", p, "process", c)
    BY <2>1
  <2>3. /\ e = [kind |-> "parent_of", from |-> e.from, to |-> e.to]
        /\ e.from[2] = p /\ e.to[2] = c
    BY <2>2 DEF Edge
  <2>4. P[e] = Plain
    BY <1>3 DEF ParentEdges
  <2>5. g.edges[e] = P[e]
    BY <1>1, <1>3 DEF Both
  <2> QED BY <1>2, <2>2, <2>3, <2>4, <2>5 DEF Kinds
<1>4. CASE e \in DOMAIN F /\ e \notin DOMAIN P
  <2> DEFINE shown == FrontClosed(lastTs)
  <2>1. PICK a \in DOMAIN shown, k \in DOMAIN processes :
          e = Edge("frontmost_during", "app", a, "process", k)
    BY <1>4 DEF FrontmostEdges
  <2>2. /\ e = [kind |-> "frontmost_during", from |-> e.from, to |-> e.to]
        /\ e.from[1] = "app" /\ e.to[1] = "process" /\ e.from[2] = a
    BY <2>1 DEF Edge
  <2>3. F[e] = Overlaps(shown[e.from[2]], processes[e.to[2]])
    BY <1>4 DEF FrontmostEdges
  <2>4. g.edges[e] = F[e]
    BY <1>1, <1>4 DEF Both
  <2>5. IsSeq(shown[a])
    <3>1. shown[a] = apps[a] \/ shown[a] = CloseLast(apps[a], lastTs)
      BY <2>1 DEF FrontClosed
    <3>2. a \in DOMAIN apps
      BY <2>1 DEF FrontClosed
    <3>3. IsSeq(apps[a])
      BY <3>2 DEF IntervalsAreSeqs
    <3> QED BY <3>1, <3>3, ClosedIsSeq
  <2>6. Len(F[e]) \in Nat
    <3>1. PICK T : shown[a] \in Seq(T)
      BY <2>5 DEF IsSeq
    <3> HIDE DEF shown
    <3>2. Overlaps(shown[a], processes[e.to[2]]) \in Seq({Overlap(x, processes[e.to[2]]) : x \in T})
      BY <3>1, OverlapsAreSeq
    <3> QED BY <2>2, <2>3, <3>2
  <2>7. e.from # e.to
    BY <2>2
  <2> QED BY <2>2, <2>4, <2>6, <2>7 DEF Kinds
<1>5. CASE e \in DOMAIN S /\ e \notin DOMAIN P /\ e \notin DOMAIN F
  <2>1. PICK x \in DOMAIN sockets :
          e \in {Edge("opened_socket", "process", k, "socket", x) :
                  k \in Owner(order, sockets[x].pid, sockets[x].opened)}
    BY <1>5 DEF SocketEdges
  <2>2. PICK k \in Owner(order, sockets[x].pid, sockets[x].opened) :
          e = Edge("opened_socket", "process", k, "socket", x)
    BY <2>1
  <2>3. /\ e = [kind |-> "opened_socket", from |-> e.from, to |-> e.to]
        /\ e.from[1] = "process" /\ e.to[1] = "socket"
    BY <2>2 DEF Edge
  <2>4. S[e] = Plain
    BY <1>5 DEF SocketEdges
  <2>5. g.edges[e] = S[e]
    BY <1>1, <1>5 DEF Both
  <2>6. e.from # e.to
    BY <2>3
  <2> QED BY <1>2, <2>3, <2>4, <2>5, <2>6 DEF Kinds
<1>6. CASE e \in DOMAIN D /\ e \notin DOMAIN P /\ e \notin DOMAIN F /\ e \notin DOMAIN S
  <2>1. PICK q \in DOMAIN domainQueries :
          e \in {Edge("queried_domain", "process", k, "domain", q[2]) :
                  k \in Owner(order, q[1], domainQueries[q].first)}
    BY <1>6 DEF DomainEdges
  <2>2. PICK k \in Owner(order, q[1], domainQueries[q].first) :
          e = Edge("queried_domain", "process", k, "domain", q[2])
    BY <2>1
  <2>3. /\ e = [kind |-> "queried_domain", from |-> e.from, to |-> e.to]
        /\ e.from[1] = "process" /\ e.to[1] = "domain"
    BY <2>2 DEF Edge
  <2>4. D[e] = << domainQueries[<<PidOf(e.from[2]), e.to[2]>>].count >>
    BY <1>6 DEF DomainEdges
  <2>5. g.edges[e] = D[e]
    BY <1>1, <1>6 DEF Both
  <2>6. e.from # e.to
    BY <2>3
  <2>7. Len(D[e]) \in Nat
    BY <2>4
  <2> QED BY <2>3, <2>5, <2>6, <2>7 DEF Kinds
<1>7. e \in DOMAIN P \/ e \in DOMAIN F \/ e \in DOMAIN S \/ e \in DOMAIN D
  BY <1>1 DEF Both
<1> HIDE DEF P, F, S, D
<1> QED BY <1>3, <1>4, <1>5, <1>6, <1>7

\* A snapshot has finitely many edges, each as often as it is listed.
LEMMA SnapshotIsWeighted ==
  ASSUME BuilderIsFinite, IntervalsAreSeqs, NEW order, NEW g, g = Snapshot(order)
  PROVE  IsWeighted(g)
<1> DEFINE N == Nodes(g)
           all == Kinds \X (N \X N)
           f == [x \in all |-> [kind |-> x[1], from |-> x[2][1], to |-> x[2][2]]]
<1>1. IsGraph(g)
  BY SnapshotIsGraph
<1>2. IsFiniteSet(all)
  <2>1. IsFiniteSet(Kinds)
    <3>1. Kinds = {"parent_of"} \cup {"frontmost_during"} \cup {"opened_socket"} \cup {"queried_domain"}
      BY DEF Kinds
    <3>2. /\ IsFiniteSet({"parent_of"}) /\ IsFiniteSet({"frontmost_during"})
          /\ IsFiniteSet({"opened_socket"}) /\ IsFiniteSet({"queried_domain"})
      BY FS_Singleton
    <3> QED BY <3>1, <3>2, FS_Union
  <2>2. IsFiniteSet(N)
    BY <1>1 DEF IsGraph
  <2> HIDE DEF N
  <2>3. IsFiniteSet(N \X N)
    BY <2>2, FS_Product
  <2> QED BY <2>1, <2>3, FS_Product
<1>3. DOMAIN g.edges \subseteq {f[x] : x \in all}
  <2> SUFFICES ASSUME NEW e \in DOMAIN g.edges  PROVE e \in {f[x] : x \in all}
    OBVIOUS
  <2>1. PICK kind \in Kinds : e = [kind |-> kind, from |-> e.from, to |-> e.to]
    BY SnapshotEdges
  <2>2. e.from \in N /\ e.to \in N
    BY <1>1 DEF IsGraph
  <2>3. PICK x : x = <<kind, <<e.from, e.to>>>>
    OBVIOUS
  <2> HIDE DEF N
  <2>4. x \in all /\ f[x] = e
    BY <2>1, <2>2, <2>3
  <2> HIDE DEF all, f
  <2> QED BY <2>4
<1> HIDE DEF all, f
<1>4. IsFiniteSet(DOMAIN g.edges)
  <2>1. IsFiniteSet({f[x] : x \in all})
    BY <1>2, ImageIsSmaller
  <2> QED BY <1>3, <2>1, FS_Subset
<1> QED BY <1>4, SnapshotEdges DEF IsWeighted

\* The degree of a node is a number.
LEMMA DegreeIsNat ==
  ASSUME NEW g, IsWeighted(g), NEW n
  PROVE  Degree(g, n) \in Nat
<1> DEFINE w == [e \in DOMAIN g.edges |-> Len(g.edges[e])]
           S == {e \in DOMAIN g.edges : n \in {e.from, e.to}}
<1>1. IsFiniteSet(S) /\ \A e \in S : w[e] \in Nat
  <2>1. S \in SUBSET DOMAIN g.edges
    OBVIOUS
  <2>2. \A e \in DOMAIN g.edges : w[e] \in Nat
    BY DEF IsWeighted
  <2> HIDE DEF S, w
  <2> QED BY <2>1, <2>2, FS_Subset DEF IsWeighted
<1> HIDE DEF w, S
<1>2. SumOver(w, S) \in Nat
  BY <1>1, SumIsNat
<1> QED BY <1>2 DEF Degree, w, S

\* A graph has finitely many components, each of finitely many nodes.
LEMMA ComponentsAreFinite ==
  ASSUME NEW g, IsGraph(g)
  PROVE  /\ IsFiniteSet(ConnectedComponents(g))
         /\ \A c \in ConnectedComponents(g) : IsFiniteSet(c) /\ Cardinality(c) \in Nat
<1> DEFINE f == [n \in Nodes(g) |-> Component(g, n)]
<1>1. ConnectedComponents(g) = {f[n] : n \in Nodes(g)}
  BY DEF ConnectedComponents
<1> HIDE DEF f
<1>2. IsFiniteSet(ConnectedComponents(g))
  BY <1>1, ImageIsSmaller DEF IsGraph
<1>3. ASSUME NEW c \in ConnectedComponents(g)
      PROVE  IsFiniteSet(c) /\ Cardinality(c) \in Nat
  <2>1. c \in SUBSET Nodes(g)
    BY ComponentsPartition
  <2> QED BY <2>1, FS_Subset, FS_CardinalityType DEF IsGraph
<1> QED BY <1>2, <1>3

\* What is said of two snapshots.
LEMMA ShiftLines ==
  ASSUME NEW g, IsGraph(g), IsWeighted(g), NEW h, IsGraph(h), IsWeighted(h)
  PROVE  /\ IsLines(ScoreSnapshotDiff(g, h))
         /\ Worded(ScoreSnapshotDiff(g, h), {"new_component", "component_merge", "degree_spike"})
<1>1. IsLines(NewComponents(g, h)) /\ Worded(NewComponents(g, h), {"new_component"})
  <2> DEFINE S == {x \in Clusters(h) : x \cap Nodes(g) = {}}
             f == [c \in S |-> [text |-> <<"new_component", c>>, score |-> Cardinality(c)]]
  <2>1. S \in SUBSET ConnectedComponents(h)
    BY DEF Clusters
  <2>2. NewComponents(g, h) = {f[c] : c \in S}
    BY DEF NewComponents
  <2> HIDE DEF S
  <2>3. IsFiniteSet(S) /\ \A c \in S : Cardinality(c) \in Nat
    BY <2>1, ComponentsAreFinite, FS_Subset
  <2>4. \A c \in S : f[c].score \in Int /\ f[c].text[1] = "new_component"
    BY <2>3
  <2> HIDE DEF f
  <2>5. IsFiniteSet({f[c] : c \in S})
    BY <2>3, ImageIsSmaller
  <2> QED BY <2>2, <2>4, <2>5 DEF IsLines, Worded
<1>2. IsLines(ComponentMerges(g, h)) /\ Worded(ComponentMerges(g, h), {"component_merge"})
  <2> DEFINE C == ConnectedComponents(h)
             Into(c) == {x \in C : x \cap c # {}}
             S == {x \in Clusters(g) : Cardinality(Into(x)) > 1}
             f == [c \in S |-> [text |-> <<"component_merge", c>>, score |-> Cardinality(Into(c))]]
  <2>1. S \in SUBSET ConnectedComponents(g)
    BY DEF Clusters
  <2>2. ComponentMerges(g, h) = {f[c] : c \in S}
    BY DEF ComponentMerges
  <2>3. \A c : Into(c) \in SUBSET C
    OBVIOUS
  <2> HIDE DEF S, Into, C
  <2>4. IsFiniteSet(S)
    BY <2>1, ComponentsAreFinite, FS_Subset
  <2>5. \A c : Cardinality(Into(c)) \in Nat
    BY <2>3, ComponentsAreFinite, FS_Subset, FS_CardinalityType DEF C
  <2>6. \A c \in S : f[c].score \in Int /\ f[c].text[1] = "component_merge"
    BY <2>5
  <2> HIDE DEF f
  <2>7. IsFiniteSet({f[c] : c \in S})
    BY <2>4, ImageIsSmaller
  <2> QED BY <2>2, <2>6, <2>7 DEF IsLines, Worded
<1>3. IsLines(DegreeSpikes(g, h)) /\ Worded(DegreeSpikes(g, h), {"degree_spike"})
  <2> DEFINE Delta(n) == Degree(h, n) - Degree(g, n)
             S == {x \in Nodes(h) : Delta(x) >= SpikeMinDelta}
             f == [n \in S |-> [text |-> <<"degree_spike", n, Degree(h, n)>>, score |-> Delta(n)]]
  <2>1. S \in SUBSET Nodes(h)
    OBVIOUS
  <2>2. DegreeSpikes(g, h) = {f[c] : c \in S}
    BY DEF DegreeSpikes
  <2> HIDE DEF S
  <2>3. IsFiniteSet(S)
    BY <2>1, FS_Subset DEF IsGraph
  <2>4. \A n : Delta(n) \in Int
    BY DegreeIsNat
  <2> HIDE DEF Delta
  <2>5. \A n \in S : f[n].score \in Int /\ f[n].text[1] = "degree_spike"
    BY <2>4
  <2> HIDE DEF f
  <2>6. IsFiniteSet({f[c] : c \in S})
    BY <2>3, ImageIsSmaller
  <2> QED BY <2>2, <2>5, <2>6 DEF IsLines, Worded
<1>4. IsLines(ScoreSnapshotDiff(g, h))
  BY <1>1, <1>2, <1>3, LinesJoin DEF ScoreSnapshotDiff
<1> QED BY <1>1, <1>2, <1>3, <1>4 DEF ScoreSnapshotDiff, Worded

-----------------------------------------------------------------------------
(* What a tick shows *)

TopologyWords == {"new_component", "component_merge", "degree_spike"}

\* What the rules and the store flag is finite and not worded as flags of the
\* topology.
LEMMA RulesAreWorded ==
  ASSUME NEW w, IsSeq(w), NEW stored \in SUBSET StoreFlag
  PROVE  LET rules == EventSuspicions(w) \cup stored
         IN IsFiniteSet(rules) /\ \A t \in rules : t[1] \notin TopologyWords
<1>1. IsFiniteSet(stored) /\ \A t \in stored : t[1] \notin TopologyWords
  BY StoreAssumption, FS_Subset DEF TopologyWords
<1>2. IsFiniteSet(EventSuspicions(w))
  BY SuspicionsAre
<1>3. ASSUME NEW t \in EventSuspicions(w)  PROVE t[1] \notin TopologyWords
  <2>1. t \in {PortText(w, i) : i \in FirstContacts(w)} \cup RuleBursts(w) \cup RuleDns(w)
    BY SuspicionsAre
  <2>2. CASE t \in {PortText(w, i) : i \in FirstContacts(w)}
    <3>1. \E c : t = <<"port", c>>
      BY <2>2 DEF PortText
    <3> QED BY <3>1 DEF TopologyWords
  <2>3. CASE t \in RuleBursts(w)
    <3>1. PICK c, n : t = <<"rule burst", c, n>>
      BY <2>3 DEF RuleBursts
    <3>2. t[1] = "rule burst"
      BY <3>1
    <3> QED BY <3>2 DEF TopologyWords
  <2>4. CASE t \in RuleDns(w)
    <3>1. PICK c, n : t = <<"rule dns", c, n>>
      BY <2>4 DEF RuleDns
    <3>2. t[1] = "rule dns"
      BY <3>1
    <3> QED BY <3>2 DEF TopologyWords
  <2> QED BY <2>1, <2>2, <2>3, <2>4
<1>4. IsFiniteSet(EventSuspicions(w) \cup stored)
  BY <1>1, <1>2, FS_Union
<1> QED BY <1>1, <1>3, <1>4

\* Texts at nominal score are lines.
LEMMA NominalLines ==
  ASSUME NEW rules, IsFiniteSet(rules)
  PROVE  IsLines(AtNominal(rules)) /\ \A l \in AtNominal(rules) : l.text \in rules
<1> DEFINE f == [t \in rules |-> [text |-> t, score |-> Unit]]
<1>1. AtNominal(rules) = {f[t] : t \in rules}
  BY DEF AtNominal
<1>2. \A t \in rules : f[t].score \in Int /\ f[t].text = t
  BY SummaryAssumption
<1> HIDE DEF f
<1>3. IsFiniteSet({f[t] : t \in rules})
  BY ImageIsSmaller
<1> QED BY <1>1, <1>2, <1>3 DEF IsLines

\* Lines folded into others are lines of both.
LEMMA FoldedLines ==
  ASSUME NEW K, IsLines(K), NEW L, IsLines(L)
  PROVE  IsLines(Fold(K, L)) /\ Fold(K, L) \subseteq K \cup L
<1> DEFINE M == {o \in L : \A s \in K : s.text # o.text}
<1>1. M \in SUBSET L
  OBVIOUS
<1>2. Fold(K, L) = K \cup M
  BY DEF Fold
<1> HIDE DEF M
<1>3. IsLines(M)
  BY <1>1, FS_Subset DEF IsLines
<1> QED BY <1>1, <1>2, <1>3, LinesJoin

\* Lines with their scores in other units are lines.
LEMMA UnitLines ==
  ASSUME NEW L, IsLines(L), NEW words, Worded(L, words),
         \A l \in L : l = [text |-> l.text, score |-> l.score]
  PROVE  IsLines(InUnits(L)) /\ Worded(InUnits(L), words)
<1> DEFINE f == [l \in L |-> [l EXCEPT !.score = @ * Unit]]
<1>1. InUnits(L) = {f[l] : l \in L}
  BY DEF InUnits
<1>2. ASSUME NEW l \in L  PROVE f[l].text = l.text /\ f[l].score \in Int
  <2>1. PICK s \in Int, u \in Int : s = l.score /\ u = Unit
    BY SummaryAssumption DEF IsLines
  <2>2. s * u \in Int
    OBVIOUS
  <2>3. l = [text |-> l.text, score |-> s]
    BY <2>1
  <2>4. f[l] = [text |-> l.text, score |-> s * u]
    BY <2>1, <2>3
  <2> HIDE DEF f
  <2> QED BY <2>2, <2>4
<1> HIDE DEF f
<1>3. IsFiniteSet({f[l] : l \in L})
  BY ImageIsSmaller DEF IsLines
<1> QED BY <1>1, <1>2, <1>3 DEF IsLines, Worded

\* Whatever is offered, the two cuts show the top of it.
LEMMA TickShowsTop ==
  ASSUME NEW rules, IsFiniteSet(rules), \A t \in rules : t[1] \notin TopologyWords,
         NEW scores, IsLines(scores), Worded(scores, {"burst", "dns", "parent", "port"}),
         NEW shifts, IsLines(shifts), Worded(shifts, TopologyWords),
         NEW kept \in Shown(Fold(scores, AtNominal(rules))),
         NEW T \in Shown(Fold(shifts, kept))
  PROVE  T \in Shown(Fold(shifts, Fold(scores, AtNominal(rules))))
<1> DEFINE lines == Fold(scores, AtNominal(rules))
<1>1. IsLines(lines) /\ lines \subseteq scores \cup AtNominal(rules)
  BY NominalLines, FoldedLines
<1>2. \A l \in lines : l.text[1] \notin TopologyWords
  <2>1. \A l \in scores : l.text[1] \notin TopologyWords
    BY DEF Worded, TopologyWords
  <2>2. \A l \in AtNominal(rules) : l.text[1] \notin TopologyWords
    BY NominalLines
  <2> HIDE DEF lines
  <2> QED BY <1>1, <2>1, <2>2
<1>3. \A s \in shifts, l \in lines : s.text # l.text
  <2> HIDE DEF lines
  <2> QED BY <1>2 DEF Worded
<1> HIDE DEF lines
<1>4. kept \in Shown(lines)
  BY DEF lines
<1> QED BY <1>1, <1>3, <1>4, CutOnce DEF lines

\* The lines of a difference are records.
LEMMA ShiftsAreLines ==
  ASSUME NEW g, NEW h
  PROVE  \A l \in ScoreSnapshotDiff(g, h) : l = [text |-> l.text, score |-> l.score]
<1> SUFFICES ASSUME NEW l \in ScoreSnapshotDiff(g, h)
             PROVE  \E t, s : l = [text |-> t, score |-> s]
  OBVIOUS
<1>1. CASE l \in NewComponents(g, h)
  BY <1>1 DEF NewComponents
<1>2. CASE l \in ComponentMerges(g, h)
  BY <1>2 DEF ComponentMerges
<1>3. CASE l \in DegreeSpikes(g, h)
  BY <1>3 DEF DegreeSpikes
<1> QED BY <1>1, <1>2, <1>3 DEF ScoreSnapshotDiff

StoreInv ==
  /\ {"rows", "children"} \subseteq DOMAIN store
  /\ IsPast(store.rows, Anchor + now)
  /\ store.children \in Seq(Nat)

ScoreInv ==
  /\ engine = NoEngine \/ IsEngine(engine)
  /\ IntervalsAreSeqs
  /\ IsWeighted(graph)
  /\ TopFlagsShown

\* A narrated tick.
Narrates ==
  /\ window # <<>>
  /\ before' = graph
  /\ graph' \in {Snapshot(order) : order \in Orders}
  /\ engine' \in Rebuilt
  /\ \E stored \in SUBSET StoreFlag :
       LET rules  == EventSuspicions(window) \cup stored
           scores == IF engine' = NoEngine THEN {} ELSE ScoreWindow(window, engine')
           shifts == IF graph = NoGraph THEN {}
                     ELSE InUnits(ScoreSnapshotDiff(graph, graph'))
       IN \E flags \in Flags(rules, scores, shifts) :
            report' = [of |-> window, flags |-> flags,
                       offered |-> Fold(shifts, Fold(scores, AtNominal(rules)))]
  /\ TrimBefore(Later(Last(window).ts - Ttl, 0))

\* The engine of a tick is the old one or one of the store, and a baseline
\* either way.
LEMMA EngineStep ==
  ASSUME CeilingIsNat, now \in Nat, StoreInv, engine = NoEngine \/ IsEngine(engine),
         engine' \in Rebuilt
  PROVE  engine' = NoEngine \/ IsEngine(engine')
<1>1. IsWindow(store.rows) /\ store.children \in Seq(Nat)
  BY DEF StoreInv, IsPast
<1>2. IsEngine(Both(FromStore(store, Anchor + now), [at |-> now]))
  BY <1>1, EngineFromStore
<1>3. engine' = engine \/ engine' = Both(FromStore(store, Anchor + now), [at |-> now])
  BY DEF Rebuilt
<1> QED BY <1>2, <1>3

\* A narrated tick shows the top of all that was flagged.
LEMMA TickFlags ==
  ASSUME CeilingIsNat, now \in Nat, StoreInv, IsWindow(window), GraphInv, ScoreInv, Narrates
  PROVE  TopFlagsShown' /\ (engine' = NoEngine \/ IsEngine(engine')) /\ IsWeighted(graph')
<1>1. engine' = NoEngine \/ IsEngine(engine')
  BY EngineStep DEF ScoreInv, Narrates
<1>2. IsWeighted(graph') /\ IsGraph(graph')
  <2>1. PICK order : graph' = Snapshot(order)
    BY DEF Narrates
  <2> QED BY <2>1, SnapshotIsWeighted, SnapshotIsGraph DEF ScoreInv, GraphInv
<1>3. PICK stored \in SUBSET StoreFlag :
        LET rules  == EventSuspicions(window) \cup stored
            scores == IF engine' = NoEngine THEN {} ELSE ScoreWindow(window, engine')
            shifts == IF graph = NoGraph THEN {}
                      ELSE InUnits(ScoreSnapshotDiff(graph, graph'))
        IN \E flags \in Flags(rules, scores, shifts) :
             report' = [of |-> window, flags |-> flags,
                        offered |-> Fold(shifts, Fold(scores, AtNominal(rules)))]
  BY DEF Narrates
<1> DEFINE rules  == EventSuspicions(window) \cup stored
           scores == IF engine' = NoEngine THEN {} ELSE ScoreWindow(window, engine')
           shifts == IF graph = NoGraph THEN {}
                     ELSE InUnits(ScoreSnapshotDiff(graph, graph'))
           lines  == Fold(scores, AtNominal(rules))
<1>4. IsFiniteSet(rules) /\ \A t \in rules : t[1] \notin TopologyWords
  BY RulesAreWorded DEF IsWindow
<1>5. IsLines({}) /\ \A words : Worded({}, words)
  BY FS_EmptySet DEF IsLines, Worded
<1>6. IsLines(scores) /\ Worded(scores, {"burst", "dns", "parent", "port"})
  BY <1>1, <1>5, WindowLines
<1>7. IsLines(shifts) /\ Worded(shifts, TopologyWords)
  <2> DEFINE diff == ScoreSnapshotDiff(graph, graph')
  <2>1. IsLines(diff) /\ Worded(diff, TopologyWords)
    BY <1>2, ShiftLines DEF TopologyWords, GraphInv, ScoreInv
  <2>2. \A l \in diff : l = [text |-> l.text, score |-> l.score]
    BY ShiftsAreLines
  <2> HIDE DEF diff
  <2>3. IsLines(InUnits(diff)) /\ Worded(InUnits(diff), TopologyWords)
    BY <2>1, <2>2, UnitLines
  <2> QED BY <1>5, <2>3 DEF diff
<1> HIDE DEF rules, scores, shifts
<1>8. PICK flags \in Flags(rules, scores, shifts) :
        report' = [of |-> window, flags |-> flags, offered |-> Fold(shifts, lines)]
  BY <1>3 DEF rules, scores, shifts
<1>9. \/ engine' = NoEngine /\ graph = NoGraph
      \/ \E kept \in Shown(lines) : flags \in Shown(Fold(shifts, kept))
  BY <1>8 DEF Flags
<1>10. CASE \E kept \in Shown(lines) : flags \in Shown(Fold(shifts, kept))
  <2>1. flags \in Shown(Fold(shifts, lines))
    BY <1>4, <1>6, <1>7, <1>10, TickShowsTop
  <2> QED BY <1>1, <1>2, <1>8, <2>1 DEF TopFlagsShown
<1>11. CASE engine' = NoEngine /\ graph = NoGraph
  <2>1. before' = NoGraph
    BY <1>11 DEF Narrates
  <2> QED BY <1>1, <1>2, <1>11, <2>1 DEF TopFlagsShown
<1> QED BY <1>9, <1>10, <1>11

-----------------------------------------------------------------------------
(* What a builder knows of a window, as long as neither lost anything.      *)


KnowsProcesses(p, w) ==
  /\ \A k \in DOMAIN p :
       /\ p[k] = [ppid |-> p[k].ppid, birth |-> p[k].birth, death |-> p[k].death]
       /\ p[k].birth \in Times(w) /\ p[k].death \in Times(w) \cup {None}
  /\ \A i \in OfKinds(w, {"process_birth"}) : w[i].process \in DOMAIN p

\* An event of the connection.
About(w, x, pid) ==
  \E i \in DOMAIN w : "socket" \in DOMAIN w[i] /\ w[i].socket = x /\ w[i].name = pid

KnowsSockets(s, w) ==
  \A x \in DOMAIN s :
    /\ s[x] = [pid |-> s[x].pid, opened |-> s[x].opened, closed |-> s[x].closed]
    /\ s[x].opened \in Times(w) /\ s[x].closed \in Times(w) \cup {None}
    /\ About(w, x, s[x].pid)

Changes(w, f) == {i \in OfKinds(w, {"file_changed"}) : w[i].path = f}

KnowsFiles(f, w) ==
  /\ \A i \in OfKinds(w, {"file_changed"}) : w[i].path \in DOMAIN f
  /\ \A x \in DOMAIN f :
       /\ f[x] = [first |-> f[x].first, last |-> f[x].last,
                  touches |-> f[x].touches, flags |-> f[x].flags]
       /\ f[x].first \in Times(w) /\ f[x].last \in Times(w)
       /\ Changes(w, x) # {}
       /\ f[x].touches \in Nat /\ Cardinality(Changes(w, x)) <= f[x].touches

Intervals(w) == [from : Times(w), to : Times(w) \cup {None}]

\* Two focus events with none between them, and the last one.
Adjoining(I, i, j) == i < j /\ \A m \in I : m <= i \/ m >= j
Latest(I, l) == l \in I /\ \A m \in I : m <= l

\* Each focus is on an app, and on another than the one before.
Alternates(w) ==
  /\ \A i \in Foci(w) : w[i].app # None
  /\ \A i, j \in Foci(w) : Adjoining(Foci(w), i, j) => w[i].app # w[j].app

KnowsApps(a, front, w) ==
  LET I == Foci(w)
  IN /\ \A x \in DOMAIN a : a[x] \in Seq(Intervals(w))
     /\ front = Nobody \/ (I # {} /\ front.app \in DOMAIN a /\ front.since \in Times(w))
     /\ \A i, j \in I : i < j => w[i].ts <= w[j].ts
     /\ Alternates(w) =>
          \A l \in I : Latest(I, l) =>
            /\ front = [app |-> w[l].app, since |-> front.since]
            /\ a[front.app] # <<>> /\ Last(a[front.app]) = [from |-> w[l].ts, to |-> None]
     /\ Alternates(w) =>
          \A i, j \in I : Adjoining(I, i, j) =>
            /\ w[i].app \in DOMAIN a
            /\ \E n \in DOMAIN a[w[i].app] :
                 a[w[i].app][n] = [from |-> w[i].ts, to |-> w[j].ts]

\* A window and one to which some events were added.
Longer(w, v, news) ==
  /\ IsWindow(w) /\ IsWindow(v)
  /\ DOMAIN w \subseteq DOMAIN v /\ \A i \in DOMAIN w : v[i] = w[i]
  /\ \A j \in DOMAIN v \ DOMAIN w : v[j] \in news /\ \A i \in DOMAIN w : i < j
  /\ \A e \in news : \E j \in DOMAIN v \ DOMAIN w : v[j] = e

OneLonger(w, v, e) ==
  Longer(w, v, {e}) /\ \E l : l \notin DOMAIN w /\ DOMAIN v = DOMAIN w \cup {l}

\* If nothing left the window, it has all it had and what came.
LEMMA PushIsLonger ==
  ASSUME WindowInv, NEW evs, NEW t, Batch(evs, t), Push(evs), evicted' = None
  PROVE  /\ evicted = None
         /\ Longer(window, window', {evs[i] : i \in DOMAIN evs})
         /\ \A e : evs = <<e>> => OneLonger(window, window', e)
<1> DEFINE all == window \o evs
           gone == SubSeq(all, 1, Len(all) - Len(Evict(all)))
           n == Len(all)
<1>1. /\ IsSeq(all) /\ all # <<>> /\ n \in Nat /\ DOMAIN all = 1..n
      /\ \A i \in DOMAIN all : all[i].ts \in Nat /\ all[i].ts <= now
  BY JoinedWindow
<1>2. window' = Evict(all) /\ evicted' = Max({evicted} \cup Times(gone))
  BY DEF Push
<1>3. /\ Len(window) \in Nat /\ DOMAIN window = 1..Len(window)
      /\ Len(evs) \in Nat \ {0} /\ DOMAIN evs = 1..Len(evs)
  BY DEF WindowInv, Batch, IsSeq
<1>4. /\ n = Len(window) + Len(evs)
      /\ \A i \in 1..n : all[i] = IF i <= Len(window) THEN window[i] ELSE evs[i - Len(window)]
  <2>1. PICK S : window \in Seq(S)
    BY DEF WindowInv, IsSeq
  <2>2. PICK T : evs \in Seq(T)
    BY DEF Batch, IsSeq
  <2>3. window \in Seq(S \cup T) /\ evs \in Seq(S \cup T)
    BY <2>1, <2>2, SeqMonotonic
  <2> QED BY <2>3, ConcatProperties
<1>s. PICK S : all \in Seq(S)
  BY <1>1 DEF IsSeq
<1> HIDE DEF all
<1>5. PICK m \in 1..n : Evict(all) = SubSeq(all, m, n)
  BY <1>1, EvictIs
<1>6. Len(Evict(all)) = n - m + 1
  <2>1. m \in Int /\ n \in Int /\ m <= n /\ \A i \in m..n : all[i] \in S
    BY <1>1, <1>s
  <2> QED BY <1>5, <2>1, SubSeqProperties
<1>7. DOMAIN gone = 1..(m - 1) /\ \A i \in 1..(m - 1) : gone[i] = all[i]
  <2>1. n - Len(Evict(all)) = m - 1
    BY <1>1, <1>6
  <2> QED BY <1>1, <1>s, <2>1, SubSeqProperties
<1> HIDE DEF gone
<1>8. evicted = None /\ m = 1
  <2> DEFINE times == {evicted} \cup Times(gone)
  <2>1. \A x \in Times(gone) : x \in Nat /\ x <= now
    BY <1>1, <1>7 DEF Times
  <2>2. evicted \in Nat \cup {-1} /\ now \in Nat
    BY DEF WindowInv, None
  <2>3. times \in SUBSET Int /\ times # {} /\ \A x \in times : x <= evicted + now + 1
    BY <2>1, <2>2
  <2>4. evicted + now + 1 \in Int
    BY <2>2
  <2>5. \A x \in times : x <= Max(times)
    <3> HIDE DEF times
    <3> QED BY <2>3, <2>4, MaxOfInts
  <2>6. Max(times) = -1
    BY <1>2 DEF None
  <2>7. evicted <= -1
    BY <2>5, <2>6
  <2>8. m = 1
    <3> SUFFICES ASSUME m # 1  PROVE FALSE
      OBVIOUS
    <3>1. 1 \in 1..(m - 1)
      BY <1>1
    <3>2. gone[1].ts \in Times(gone)
      BY <1>7, <3>1 DEF Times
    <3>3. gone[1].ts <= -1 /\ gone[1].ts \in Nat
      BY <2>1, <2>5, <2>6, <3>2
    <3> QED BY <3>3
  <2> QED BY <2>2, <2>7, <2>8 DEF None
<1>9. window' = all
  BY <1>2, <1>5, <1>8, <1>s, SubSeqFull
<1>10. IsWindow(window) /\ IsWindow(window')
  BY <1>1, <1>9 DEF IsWindow, WindowInv
<1>11. ASSUME NEW i \in DOMAIN window
       PROVE  i \in DOMAIN window' /\ window'[i] = window[i]
  BY <1>1, <1>3, <1>4, <1>9
<1>12. ASSUME NEW j \in DOMAIN window' \ DOMAIN window
       PROVE  /\ j - Len(window) \in DOMAIN evs /\ window'[j] = evs[j - Len(window)]
              /\ \A i \in DOMAIN window : i < j
  BY <1>1, <1>3, <1>4, <1>9
<1>13. ASSUME NEW k \in DOMAIN evs
       PROVE  \E j \in DOMAIN window' \ DOMAIN window : window'[j] = evs[k]
  <2> DEFINE j == Len(window) + k
  <2>1. j \in 1..n /\ ~ (j <= Len(window)) /\ j - Len(window) = k
    BY <1>3, <1>4
  <2> HIDE DEF j
  <2> QED BY <1>1, <1>3, <1>4, <1>9, <2>1
<1>14. Longer(window, window', {evs[i] : i \in DOMAIN evs})
  BY <1>10, <1>11, <1>12, <1>13 DEF Longer
<1>15. ASSUME NEW e, evs = <<e>>  PROVE OneLonger(window, window', e)
  <2>1. Len(evs) = 1 /\ DOMAIN evs = {1} /\ evs[1] = e
    BY <1>15
  <2>2. {evs[i] : i \in DOMAIN evs} = {e}
    BY <2>1
  <2> DEFINE l == Len(window) + 1
  <2>3. l \notin DOMAIN window /\ DOMAIN window' = DOMAIN window \cup {l}
    BY <1>1, <1>3, <1>4, <1>9, <2>1
  <2> HIDE DEF l
  <2> QED BY <1>14, <2>2, <2>3 DEF OneLonger
<1> QED BY <1>8, <1>14, <1>15

-----------------------------------------------------------------------------
(* What an event teaches *)

\* A longer window has all the times it had, and those of the news.
LEMMA TimesGrow ==
  ASSUME NEW w, NEW v, NEW news, Longer(w, v, news)
  PROVE  /\ Times(w) \subseteq Times(v) /\ \A e \in news : e.ts \in Times(v)
         /\ Times(v) \subseteq Nat
<1>1. \A i \in DOMAIN w : i \in DOMAIN v /\ v[i] = w[i]
  BY DEF Longer
<1>2. \A e \in news : \E j \in DOMAIN v : v[j] = e
  BY DEF Longer
<1>3. \A i \in DOMAIN v : v[i].ts \in Nat
  BY DEF Longer, IsWindow
<1> QED BY <1>1, <1>2, <1>3 DEF Times

\* A longer window has the events it had at their places, and the news after
\* them.
LEMMA KindsGrow ==
  ASSUME NEW w, NEW v, NEW news, Longer(w, v, news), NEW kinds
  PROVE  /\ OfKinds(w, kinds) \subseteq OfKinds(v, kinds)
         /\ \A i \in OfKinds(w, kinds) : i \in DOMAIN w /\ v[i] = w[i]
         /\ \A j \in OfKinds(v, kinds) \ OfKinds(w, kinds) :
              /\ j \notin DOMAIN w /\ v[j] \in news /\ v[j].kind \in kinds
              /\ \A i \in DOMAIN w : i < j
         /\ (\A e \in news : e.kind \notin kinds) => OfKinds(v, kinds) = OfKinds(w, kinds)
BY DEF Longer, OfKinds

\* News that are no births leave the processes known.
LEMMA ProcessesKept ==
  ASSUME NEW w, NEW v, NEW news, Longer(w, v, news), NEW p, KnowsProcesses(p, w),
         \A e \in news : e.kind # "process_birth"
  PROVE  KnowsProcesses(p, v)
<1>1. OfKinds(v, {"process_birth"}) = OfKinds(w, {"process_birth"})
  BY KindsGrow
<1>2. \A i \in OfKinds(w, {"process_birth"}) : v[i] = w[i]
  BY KindsGrow
<1> QED BY <1>1, <1>2, TimesGrow DEF KnowsProcesses

\* News leave the connections known.
LEMMA SocketsKept ==
  ASSUME NEW w, NEW v, NEW news, Longer(w, v, news), NEW s, KnowsSockets(s, w)
  PROVE  KnowsSockets(s, v)
<1>1. ASSUME NEW x, NEW pid, About(w, x, pid)  PROVE About(v, x, pid)
  BY <1>1 DEF Longer, About
<1> QED BY <1>1, TimesGrow DEF KnowsSockets

\* News that are no file changes leave the files known.
LEMMA FilesKept ==
  ASSUME NEW w, NEW v, NEW news, Longer(w, v, news), NEW f, KnowsFiles(f, w),
         \A e \in news : e.kind # "file_changed"
  PROVE  KnowsFiles(f, v)
<1>1. OfKinds(v, {"file_changed"}) = OfKinds(w, {"file_changed"})
  BY KindsGrow
<1>2. \A i \in OfKinds(w, {"file_changed"}) : v[i] = w[i]
  BY KindsGrow
<1>3. \A x : Changes(v, x) = Changes(w, x)
  BY <1>1, <1>2 DEF Changes
<1> QED BY <1>1, <1>2, <1>3, TimesGrow DEF KnowsFiles

\* News that are no focus leave the apps known.
LEMMA AppsKept ==
  ASSUME NEW w, NEW v, NEW news, Longer(w, v, news), NEW a, NEW front, KnowsApps(a, front, w),
         \A e \in news : e.kind # "app_focus"
  PROVE  KnowsApps(a, front, v)
<1> DEFINE I == Foci(w)
<1>1. Foci(v) = I
  BY KindsGrow DEF Foci
<1>2. \A i \in I : v[i] = w[i]
  BY KindsGrow DEF Foci
<1>3. Times(w) \subseteq Times(v)
  BY TimesGrow
<1>4. \A x \in DOMAIN a : a[x] \in Seq(Intervals(v))
  <2>1. Intervals(w) \subseteq Intervals(v)
    BY <1>3 DEF Intervals
  <2>2. \A x \in DOMAIN a : a[x] \in Seq(Intervals(w))
    BY DEF KnowsApps
  <2> QED BY <2>1, <2>2, SeqMonotonic
<1> HIDE DEF I
<1>5. Alternates(v) <=> Alternates(w)
  BY <1>1, <1>2 DEF Alternates, I
<1>6. /\ front = Nobody \/ (I # {} /\ front.app \in DOMAIN a /\ front.since \in Times(w))
      /\ \A i, j \in I : i < j => w[i].ts <= w[j].ts
      /\ Alternates(w) =>
           \A l \in I : Latest(I, l) =>
             /\ front = [app |-> w[l].app, since |-> front.since]
             /\ a[front.app] # <<>> /\ Last(a[front.app]) = [from |-> w[l].ts, to |-> None]
      /\ Alternates(w) =>
           \A i, j \in I : Adjoining(I, i, j) =>
             /\ w[i].app \in DOMAIN a
             /\ \E n \in DOMAIN a[w[i].app] :
                  a[w[i].app][n] = [from |-> w[i].ts, to |-> w[j].ts]
  BY DEF KnowsApps, I
<1> QED BY <1>1, <1>2, <1>3, <1>4, <1>5, <1>6 DEF KnowsApps

\* After a birth the process is known.
LEMMA BirthIsKnown ==
  ASSUME NEW w, NEW v, NEW p, KnowsProcesses(p, w), NEW k, NEW t, NEW ppid,
         Longer(w, v, {[kind |-> "process_birth", ts |-> t, process |-> k]}),
         NEW q, q = Put(p, k, [ppid |-> ppid, birth |-> t, death |-> None])
  PROVE  KnowsProcesses(q, v)
<1> DEFINE e == [kind |-> "process_birth", ts |-> t, process |-> k]
<1>1. e.ts = t /\ e.process = k
  OBVIOUS
<1> HIDE DEF e
<1>2. Longer(w, v, {e})
  BY DEF e
<1>3. Times(w) \subseteq Times(v) /\ t \in Times(v)
  BY <1>1, <1>2, TimesGrow
<1>4. \A i \in OfKinds(v, {"process_birth"}) : v[i].process \in DOMAIN p \cup {k}
  <2> SUFFICES ASSUME NEW i \in OfKinds(v, {"process_birth"})
               PROVE  v[i].process \in DOMAIN p \cup {k}
    OBVIOUS
  <2>1. CASE i \in OfKinds(w, {"process_birth"})
    BY <1>2, <2>1, KindsGrow DEF KnowsProcesses
  <2>2. CASE i \notin OfKinds(w, {"process_birth"})
    BY <1>1, <1>2, <2>2, KindsGrow
  <2> QED BY <2>1, <2>2
<1> QED BY <1>3, <1>4 DEF KnowsProcesses, Put

\* After a death the process is known, whether or not its birth was.
LEMMA DeathIsKnown ==
  ASSUME NEW w, NEW v, NEW p, KnowsProcesses(p, w), NEW k, NEW t, NEW ppid,
         Longer(w, v, {[kind |-> "process_death", ts |-> t, process |-> k]}),
         NEW q,
         \/ k \in DOMAIN p /\ q = [p EXCEPT ![k].death = t]
         \/ q = Put(p, k, [ppid |-> ppid, birth |-> t, death |-> t])
  PROVE  KnowsProcesses(q, v)
<1> DEFINE e == [kind |-> "process_death", ts |-> t, process |-> k]
<1>1. e.ts = t /\ e.kind = "process_death"
  OBVIOUS
<1> HIDE DEF e
<1>2. Longer(w, v, {e})
  BY DEF e
<1>3. Times(w) \subseteq Times(v) /\ t \in Times(v)
  BY <1>1, <1>2, TimesGrow
<1>4. KnowsProcesses(p, v)
  BY <1>1, <1>2, ProcessesKept
<1>5. CASE k \in DOMAIN p /\ q = [p EXCEPT ![k].death = t]
  <2>1. DOMAIN q = DOMAIN p
    BY <1>5
  <2>2. ASSUME NEW x \in DOMAIN p, x # k  PROVE q[x] = p[x]
    BY <1>5, <2>2
  <2>3. q[k] = [ppid |-> p[k].ppid, birth |-> p[k].birth, death |-> t]
    <3>1. q[k] = [p[k] EXCEPT !.death = t]
      BY <1>5
    <3>2. p[k] = [ppid |-> p[k].ppid, birth |-> p[k].birth, death |-> p[k].death]
      BY <1>5 DEF KnowsProcesses
    <3> QED BY <3>1, <3>2
  <2> QED BY <1>3, <1>4, <1>5, <2>1, <2>2, <2>3 DEF KnowsProcesses
<1>6. CASE q = Put(p, k, [ppid |-> ppid, birth |-> t, death |-> t])
  BY <1>3, <1>4, <1>6 DEF KnowsProcesses, Put
<1> QED BY <1>5, <1>6

\* After it opened a connection is known.
LEMMA OpeningIsKnown ==
  ASSUME NEW w, NEW v, NEW news, Longer(w, v, news), NEW s, KnowsSockets(s, w),
         NEW e \in news, "socket" \in DOMAIN e,
         NEW q, q = Put(s, e.socket, [pid |-> e.name, opened |-> e.ts, closed |-> None])
  PROVE  KnowsSockets(q, v)
<1>1. KnowsSockets(s, v) /\ e.ts \in Times(v)
  BY SocketsKept, TimesGrow
<1>2. About(v, e.socket, e.name)
  BY DEF About, Longer
<1> QED BY <1>1, <1>2 DEF KnowsSockets, Put

\* After it closed a connection is known, whether or not its opening was.
LEMMA ClosingIsKnown ==
  ASSUME NEW w, NEW v, NEW news, Longer(w, v, news), NEW s, KnowsSockets(s, w),
         NEW e \in news, "socket" \in DOMAIN e,
         NEW q,
         \/ e.socket \in DOMAIN s /\ q = [s EXCEPT ![e.socket].closed = e.ts]
         \/ q = Put(s, e.socket, [pid |-> e.name, opened |-> e.ts, closed |-> e.ts])
  PROVE  KnowsSockets(q, v)
<1>1. KnowsSockets(s, v) /\ e.ts \in Times(v)
  BY SocketsKept, TimesGrow
<1>2. About(v, e.socket, e.name)
  BY DEF About, Longer
<1>3. CASE e.socket \in DOMAIN s /\ q = [s EXCEPT ![e.socket].closed = e.ts]
  <2> DEFINE k == e.socket
  <2>1. DOMAIN q = DOMAIN s
    BY <1>3
  <2>2. ASSUME NEW x \in DOMAIN s, x # k  PROVE q[x] = s[x]
    BY <1>3, <2>2
  <2>3. q[k] = [pid |-> s[k].pid, opened |-> s[k].opened, closed |-> e.ts]
    <3>1. q[k] = [s[k] EXCEPT !.closed = e.ts]
      BY <1>3
    <3>2. s[k] = [pid |-> s[k].pid, opened |-> s[k].opened, closed |-> s[k].closed]
      BY <1>3 DEF KnowsSockets
    <3> QED BY <3>1, <3>2
  <2> HIDE DEF k
  <2> QED BY <1>1, <2>1, <2>2, <2>3 DEF KnowsSockets
<1>4. CASE q = Put(s, e.socket, [pid |-> e.name, opened |-> e.ts, closed |-> e.ts])
  BY <1>1, <1>2, <1>4 DEF KnowsSockets, Put
<1> QED BY <1>3, <1>4

\* After a change a file has been touched at least as often as it changed.
LEMMA ChangeIsKnown ==
  ASSUME NEW w, NEW v, NEW f, KnowsFiles(f, w), NEW x, NEW t, NEW count \in 1..2,
         OneLonger(w, v, [kind |-> "file_changed", ts |-> t, path |-> x]),
         NEW known, known = IF x \in DOMAIN f THEN f[x]
                            ELSE [first |-> t, last |-> t, touches |-> 0, flags |-> {}],
         NEW q, q = Put(f, x, [known EXCEPT !.last = t, !.touches = @ + count,
                                            !.flags = @ \cup {}])
  PROVE  KnowsFiles(q, v)
<1> DEFINE e == [kind |-> "file_changed", ts |-> t, path |-> x]
           J(u) == OfKinds(u, {"file_changed"})
<1>1. e.ts = t /\ e.kind = "file_changed" /\ e.path = x
  OBVIOUS
<1> HIDE DEF e
<1>2. Longer(w, v, {e})
  BY DEF e, OneLonger
<1>3. PICK l : l \notin DOMAIN w /\ DOMAIN v = DOMAIN w \cup {l}
  BY DEF OneLonger
<1>4. v[l] = e
  BY <1>2, <1>3 DEF Longer
<1>5. Times(w) \subseteq Times(v) /\ t \in Times(v)
  BY <1>1, <1>2, TimesGrow
<1>6. J(v) = J(w) \cup {l} /\ l \notin J(w) /\ \A i \in J(w) : v[i] = w[i]
  BY <1>1, <1>2, <1>3, <1>4 DEF OfKinds, Longer
<1>7. Changes(v, x) = Changes(w, x) \cup {l} /\ l \notin Changes(w, x)
  BY <1>1, <1>4, <1>6 DEF Changes
<1>8. \A y : y # x => Changes(v, y) = Changes(w, y)
  BY <1>1, <1>4, <1>6 DEF Changes
<1>9. /\ Cardinality(Changes(v, x)) = Cardinality(Changes(w, x)) + 1
      /\ Cardinality(Changes(w, x)) \in Nat
  <2>1. IsFiniteSet(Changes(w, x))
    <3>1. Changes(w, x) \in SUBSET J(w) /\ IsFiniteSet(J(w))
      BY <1>2, KindsAreFinite DEF Changes, Longer, IsWindow
    <3> QED BY <3>1, FS_Subset
  <2> QED BY <1>7, <2>1, FS_AddElement, FS_CardinalityType
<1> HIDE DEF J
<1>10. /\ known = [first |-> known.first, last |-> known.last,
                   touches |-> known.touches, flags |-> known.flags]
       /\ known.first \in Times(v) /\ known.touches \in Nat
       /\ Cardinality(Changes(w, x)) <= known.touches
  <2>1. CASE x \in DOMAIN f
    <3>1. known = f[x]
      BY <2>1
    <3> QED BY <1>5, <2>1, <3>1 DEF KnowsFiles
  <2>2. CASE x \notin DOMAIN f
    <3>1. known = [first |-> t, last |-> t, touches |-> 0, flags |-> {}]
      BY <2>2
    <3>2. Changes(w, x) = {}
      BY <2>2 DEF Changes, KnowsFiles
    <3>3. Cardinality(Changes(w, x)) = 0
      BY <3>2, FS_EmptySet
    <3> QED BY <1>5, <3>1, <3>3
  <2> QED BY <2>1, <2>2
<1>11. q[x] = [first |-> known.first, last |-> t, touches |-> known.touches + count,
               flags |-> known.flags \cup {}]
  <2>1. q[x] = [known EXCEPT !.last = t, !.touches = @ + count, !.flags = @ \cup {}]
    BY DEF Put
  <2> QED BY ONLY <1>10, <2>1
<1>12. DOMAIN q = DOMAIN f \cup {x} /\ \A y \in DOMAIN f : y # x => q[y] = f[y]
  BY DEF Put
<1>13. \A i \in J(v) : v[i].path \in DOMAIN q
  BY <1>1, <1>4, <1>6, <1>12 DEF KnowsFiles, J
<1>14. ASSUME NEW y \in DOMAIN q
       PROVE  /\ q[y] = [first |-> q[y].first, last |-> q[y].last,
                         touches |-> q[y].touches, flags |-> q[y].flags]
              /\ q[y].first \in Times(v) /\ q[y].last \in Times(v)
              /\ Changes(v, y) # {}
              /\ q[y].touches \in Nat /\ Cardinality(Changes(v, y)) <= q[y].touches
  <2>1. CASE y = x
    <3>1. /\ q[y].first = known.first /\ q[y].last = t /\ q[y].touches = known.touches + count
      BY <1>11, <2>1
    <3>2. known.touches + count \in Nat
          /\ Cardinality(Changes(w, x)) + 1 <= known.touches + count
      BY <1>9, <1>10
    <3> QED BY <1>5, <1>7, <1>9, <1>10, <1>11, <2>1, <3>1, <3>2
  <2>2. CASE y # x
    BY <1>5, <1>8, <1>12, <2>2 DEF KnowsFiles
  <2> QED BY <2>1, <2>2
<1> QED BY <1>13, <1>14 DEF KnowsFiles, J

-----------------------------------------------------------------------------
(* What a focus teaches *)

\* A sequence is a function on 1 to its length.
LEMMA SeqIsFunction ==
  ASSUME NEW R, NEW s \in Seq(R)
  PROVE  Len(s) \in Nat /\ DOMAIN s = 1..Len(s) /\ s \in [1..Len(s) -> R]
OBVIOUS

\* The last interval ends, and no other changes.
LEMMA ClosedIs ==
  ASSUME NEW R, NEW s \in Seq(R), NEW t,
         \A z \in R : z = [from |-> z.from, to |-> z.to] /\ [from |-> z.from, to |-> t] \in R,
         NEW r, r = CloseLast(s, t)
  PROVE  /\ r \in Seq(R) /\ Len(r) = Len(s) /\ DOMAIN r = DOMAIN s
         /\ \A n \in DOMAIN s : s[n].to # None => r[n] = s[n]
         /\ s # <<>> /\ Last(s).to = None => Last(r) = [from |-> Last(s).from, to |-> t]
<1> DEFINE l == Len(s)
           o == [from |-> s[l].from, to |-> t]
<1>0. l \in Nat /\ DOMAIN s = 1..l /\ s \in [1..l -> R]
  BY SeqIsFunction
<1>1. CASE s # <<>> /\ Last(s).to = None
  <2>1. l \in 1..l /\ Last(s) = s[l] /\ s[l] \in R
    BY <1>0, <1>1 DEF Last
  <2>2. r = [s EXCEPT ![l].to = t]
    BY <1>1 DEF CloseLast
  <2>3. o \in R
    BY <2>1
  <2>4. [s[l] EXCEPT !.to = t] = o
    BY <2>1
  <2>5. r = [s EXCEPT ![l] = o]
    BY <2>2, <2>4
  <2> HIDE DEF o, l
  <2>6. r \in [1..l -> R]
    BY <1>0, <2>3, <2>5
  <2>7. r \in Seq(R) /\ Len(r) = l /\ DOMAIN r = 1..l
    BY <1>0, <2>6
  <2>8. r[l] = o /\ \A n \in 1..l : n # l => r[n] = s[n]
    BY <1>0, <2>1, <2>5
  <2>9. Last(r) = o
    BY <2>7, <2>8 DEF Last
  <2>10. s[l].to = None
    BY <1>1, <2>1
  <2> QED BY <1>0, <2>1, <2>7, <2>8, <2>9, <2>10 DEF o, l
<1>2. CASE ~ (s # <<>> /\ Last(s).to = None)
  <2>1. r = s
    BY <1>2 DEF CloseLast
  <2> QED BY <1>2, <2>1
<1> QED BY <1>1, <1>2

\* If there are focus events one is the last.
LEMMA LatestExists ==
  ASSUME NEW w, IsWindow(w), Foci(w) # {}
  PROVE  \E l : Latest(Foci(w), l)
<1> DEFINE I == Foci(w)
<1>1. I \subseteq DOMAIN w /\ DOMAIN w = 1..Len(w) /\ Len(w) \in Nat
  BY WindowIsFinite, KindsAreFinite DEF IsWindow, Foci
<1>2. I \in SUBSET Nat /\ \A m \in I : m <= Len(w)
  BY <1>1
<1> HIDE DEF I
<1>3. Max(I) \in I /\ \A m \in I : m <= Max(I)
  BY <1>1, <1>2, MaxOfNats DEF I
<1> QED BY <1>3 DEF Latest, I

\* A focus ends the interval of the app in front at its time and begins one:
\* what adjoins in the window is an interval of the app.
LEMMA FocusIsKnown ==
  ASSUME NEW w, NEW v, NEW a, NEW front, KnowsApps(a, front, w),
         NEW x, x # None, NEW t,
         \A i \in DOMAIN w : w[i].ts <= t,
         OneLonger(w, v, [kind |-> "app_focus", ts |-> t, app |-> x]),
         NEW closed, closed = IF front = Nobody THEN a
                              ELSE [a EXCEPT ![front.app] = CloseLast(@, t)],
         NEW since, since = IF front.app = x THEN front.since ELSE t,
         NEW b, b = Put(closed, x, Append(IntervalsOf(x, closed), [from |-> since, to |-> None])),
         NEW now2, now2 = [app |-> x, since |-> since]
  PROVE  KnowsApps(b, now2, v)
<1> DEFINE e == [kind |-> "app_focus", ts |-> t, app |-> x]
           I == Foci(w)
           T == Times(v)
           Ivs == [from : T, to : T \cup {None}]
<1>1. e.ts = t /\ e.kind = "app_focus" /\ e.app = x
  OBVIOUS
<1> HIDE DEF e
<1>2. Longer(w, v, {e})
  BY DEF e, OneLonger
<1>3. PICK l : l \notin DOMAIN w /\ DOMAIN v = DOMAIN w \cup {l}
  BY DEF OneLonger
<1>4. v[l] = e /\ \A i \in DOMAIN w : i < l
  BY <1>2, <1>3 DEF Longer
<1>5. Times(w) \subseteq T /\ t \in T /\ T \subseteq Nat
  BY <1>1, <1>2, TimesGrow
<1>6. /\ Foci(v) = I \cup {l} /\ l \notin I /\ I \subseteq DOMAIN w
      /\ \A i \in I : v[i] = w[i] /\ i < l
  BY <1>1, <1>2, <1>3, <1>4 DEF OfKinds, Longer, Foci
<1>7. I \cup {l} \subseteq Int
  <2>1. DOMAIN v = 1..Len(v)
    BY <1>2, WindowIsFinite DEF Longer, IsWindow
  <2>2. \A i \in DOMAIN v : i \in Int
    BY <2>1
  <2> QED BY <1>3, <1>6, <2>2
<1>8. Intervals(v) = Ivs
  BY DEF Intervals
<1>9. \A y \in DOMAIN a : a[y] \in Seq(Ivs)
  <2>1. Intervals(w) \subseteq Ivs
    BY <1>5 DEF Intervals
  <2>2. \A y \in DOMAIN a : a[y] \in Seq(Intervals(w))
    BY DEF KnowsApps
  <2> HIDE DEF Ivs
  <2> QED BY <2>1, <2>2, SeqMonotonic
<1>10. front = Nobody \/ (I # {} /\ front.app \in DOMAIN a /\ front.since \in Times(w))
  BY DEF KnowsApps
<1>11. since \in T
  <2>1. CASE front = Nobody
    BY <1>5, <2>1 DEF Nobody
  <2>2. CASE front # Nobody
    BY <1>5, <1>10, <2>2
  <2> QED BY <2>1, <2>2
<1>12. /\ DOMAIN closed = DOMAIN a
       /\ \A y \in DOMAIN a :
            /\ closed[y] \in Seq(Ivs) /\ DOMAIN closed[y] = DOMAIN a[y]
            /\ \A n \in DOMAIN a[y] : a[y][n].to # None => closed[y][n] = a[y][n]
       /\ front # Nobody /\ a[front.app] # <<>> /\ Last(a[front.app]).to = None =>
            /\ closed[front.app] # <<>>
            /\ Last(closed[front.app]) = [from |-> Last(a[front.app]).from, to |-> t]
  <2>1. CASE front = Nobody
    BY <1>9, <2>1
  <2>2. CASE front # Nobody
    <3> DEFINE y == front.app
               s == a[y]
               r == CloseLast(s, t)
    <3>1. y \in DOMAIN a /\ s \in Seq(Ivs)
      BY <1>9, <1>10, <2>2
    <3>2. closed = [a EXCEPT ![y] = r]
      BY <2>2
    <3>s. \A z \in Ivs : z = [from |-> z.from, to |-> z.to] /\ [from |-> z.from, to |-> t] \in Ivs
      BY <1>5
    <3> HIDE DEF r, y, s, T, Ivs
    <3>3. /\ r \in Seq(Ivs) /\ Len(r) = Len(s) /\ DOMAIN r = DOMAIN s
          /\ \A n \in DOMAIN s : s[n].to # None => r[n] = s[n]
          /\ s # <<>> /\ Last(s).to = None => Last(r) = [from |-> Last(s).from, to |-> t]
      <4>1. r = CloseLast(s, t)
        BY DEF r
      <4> QED BY ONLY <3>1, <3>s, <4>1, ClosedIs
    <3>4. s # <<>> => r # <<>>
      BY <3>1, <3>3
    <3>5. DOMAIN closed = DOMAIN a /\ closed[y] = r /\ \A z \in DOMAIN a : z # y => closed[z] = a[z]
      BY <3>1, <3>2
    <3> QED BY <1>9, <3>1, <3>3, <3>4, <3>5 DEF y, s
  <2> QED BY <2>1, <2>2
<1> DEFINE old == IntervalsOf(x, closed)
           new == [from |-> since, to |-> None]
<1>13. old \in Seq(Ivs) /\ new \in Ivs
  <2>1. <<>> \in Seq(Ivs)
    OBVIOUS
  <2> QED BY <1>11, <1>12, <2>1 DEF IntervalsOf
<1>14. /\ DOMAIN b = DOMAIN a \cup {x} /\ b[x] = Append(old, new)
       /\ \A y \in DOMAIN a : y # x => b[y] = closed[y]
  BY <1>12 DEF Put
<1>o. x \in DOMAIN a => old = closed[x]
  BY <1>12 DEF IntervalsOf
<1>n. new = [from |-> since, to |-> None]
  OBVIOUS
<1> HIDE DEF old, new, Ivs
<1>15. /\ b[x] \in Seq(Ivs) /\ b[x] # <<>> /\ Last(b[x]) = new
       /\ \A n \in DOMAIN old : n \in DOMAIN b[x] /\ b[x][n] = old[n]
  <2>1. PICK s \in Seq(Ivs), i \in Ivs : s = old /\ i = new
    BY <1>13
  <2>2. /\ Append(s, i) \in Seq(Ivs) /\ Len(Append(s, i)) = Len(s) + 1 /\ Len(s) \in Nat
        /\ DOMAIN s = 1..Len(s) /\ DOMAIN Append(s, i) = 1..(Len(s) + 1)
        /\ Append(s, i)[Len(s) + 1] = i /\ \A n \in 1..Len(s) : Append(s, i)[n] = s[n]
    OBVIOUS
  <2>3. Last(Append(s, i)) = i /\ Append(s, i) # <<>>
    BY <2>2 DEF Last
  <2>4. b[x] = Append(s, i)
    BY <1>14, <2>1
  <2>5. \A n \in 1..Len(s) : n \in 1..(Len(s) + 1)
    BY <2>2
  <2> QED BY <2>1, <2>2, <2>3, <2>4, <2>5
<1>16. \A y \in DOMAIN b : b[y] \in Seq(Ivs)
  BY ONLY <1>12, <1>14, <1>15
<1>17. \A i, j \in Foci(v) : i < j => v[i].ts <= v[j].ts
  <2> SUFFICES ASSUME NEW i \in I \cup {l}, NEW j \in I \cup {l}, i < j
               PROVE  v[i].ts <= v[j].ts
    BY <1>6
  <2>1. i \in I
    BY <1>6, <1>7
  <2>2. CASE j \in I
    BY <1>6, <2>1, <2>2 DEF KnowsApps
  <2>3. CASE j = l
    BY <1>1, <1>4, <1>6, <2>1, <2>3
  <2> QED BY <2>2, <2>3
<1>18. ASSUME NEW m, Latest(Foci(v), m)  PROVE m = l
  BY <1>6, <1>7, <1>18 DEF Latest
<1>19. ASSUME Alternates(v)
       PROVE  /\ Alternates(w)
              /\ \A m \in I : Latest(I, m) => w[m].app # x
  <2>1. ASSUME NEW i \in I, NEW j \in I, Adjoining(I, i, j)  PROVE w[i].app # w[j].app
    <3>1. Adjoining(Foci(v), i, j)
      BY <1>6, <1>7, <2>1 DEF Adjoining
    <3> QED BY <1>6, <1>19, <3>1 DEF Alternates
  <2>2. ASSUME NEW m \in I, Latest(I, m)  PROVE w[m].app # x
    <3>1. Adjoining(Foci(v), m, l)
      BY <1>6, <1>7, <2>2 DEF Adjoining, Latest
    <3>2. v[m].app # v[l].app
      BY <1>6, <1>19, <3>1 DEF Alternates
    <3> QED BY <1>1, <1>4, <1>6, <3>2
  <2>3. \A i \in I : w[i].app # None
    BY <1>6, <1>19 DEF Alternates
  <2> QED BY <2>1, <2>2, <2>3 DEF Alternates
<1>20. ASSUME Alternates(v)  PROVE since = t
  <2>1. CASE front = Nobody
    BY <2>1 DEF Nobody
  <2>2. CASE front # Nobody
    <3>1. PICK m : Latest(I, m)
      BY <1>2, <1>10, <2>2, LatestExists DEF Longer
    <3>2. front = [app |-> w[m].app, since |-> front.since]
      BY <1>19, <1>20, <3>1 DEF KnowsApps, Latest
    <3>3. front.app = w[m].app
      BY <3>2
    <3>4. w[m].app # x
      BY <1>19, <1>20, <3>1 DEF Latest
    <3> QED BY <3>3, <3>4
  <2> QED BY <2>1, <2>2
<1>21. ASSUME Alternates(v), NEW i \in Foci(v), NEW j \in Foci(v), Adjoining(Foci(v), i, j)
       PROVE  /\ v[i].app \in DOMAIN b
              /\ \E n \in DOMAIN b[v[i].app] :
                   b[v[i].app][n] = [from |-> v[i].ts, to |-> v[j].ts]
  <2>0. i \in I /\ i < j /\ v[i] = w[i] /\ Alternates(w)
    BY <1>6, <1>7, <1>19, <1>21 DEF Adjoining
  <2> DEFINE y == w[i].app
             out == [from |-> w[i].ts, to |-> v[j].ts]
  <2>1. y \in DOMAIN a /\ \E n \in DOMAIN closed[y] : closed[y][n] = out
    <3>1. CASE j \in I
      <4>1. Adjoining(I, i, j)
        BY <1>6, <1>21 DEF Adjoining
      <4>2. PICK n \in DOMAIN a[y] : a[y][n] = [from |-> w[i].ts, to |-> w[j].ts]
        BY <2>0, <3>1, <4>1 DEF KnowsApps
      <4>3. y \in DOMAIN a
        BY <2>0, <3>1, <4>1 DEF KnowsApps
      <4>4. v[j] = w[j] /\ w[j].ts \in Nat
        BY <1>2, <1>6, <3>1 DEF Longer, IsWindow
      <4>5. a[y][n].to # None
        BY <4>2, <4>4 DEF None
      <4> HIDE DEF y
      <4> QED BY <1>12, <4>2, <4>3, <4>4, <4>5
    <3>2. CASE j = l
      <4>1. Latest(I, i)
        <5>1. \A m \in I : m <= i \/ m >= l
          BY <1>6, <1>21, <3>2 DEF Adjoining
        <5>2. \A m \in I : m \in Int /\ m < l /\ l \in Int
          BY <1>6, <1>7
        <5> QED BY <2>0, <5>1, <5>2 DEF Latest
      <4>0. /\ front = [app |-> y, since |-> front.since]
            /\ a[front.app] # <<>> /\ Last(a[front.app]) = [from |-> w[i].ts, to |-> None]
        BY <2>0, <4>1 DEF KnowsApps, Latest
      <4>3. front.app = y
        BY <4>0
      <4>4. front # Nobody
        BY <2>0, <4>3 DEF Nobody, Alternates
      <4>2. /\ front.app \in DOMAIN a
            /\ a[front.app] # <<>> /\ Last(a[front.app]) = [from |-> w[i].ts, to |-> None]
        BY <1>10, <4>0, <4>4
      <4>5. Last(a[y]).to = None /\ Last(a[y]).from = w[i].ts
        BY <4>2, <4>3
      <4>6. closed[y] # <<>> /\ Last(closed[y]) = [from |-> w[i].ts, to |-> t]
        BY <1>12, <4>2, <4>3, <4>4, <4>5
      <4>7. PICK s \in Seq(Ivs) : s = closed[y]
        BY <1>12, <4>2, <4>3
      <4>8. Len(s) \in DOMAIN s /\ s[Len(s)] = Last(s)
        BY <4>6, <4>7 DEF Last
      <4>9. v[j].ts = t
        BY <1>1, <1>4, <3>2
      <4> HIDE DEF y
      <4> QED BY <4>2, <4>3, <4>6, <4>7, <4>8, <4>9
    <3> QED BY <1>6, <3>1, <3>2
  <2>2. y \in DOMAIN b /\ \E n \in DOMAIN b[y] : b[y][n] = out
    <3> HIDE DEF y, out
    <3>1. CASE y = x
      <4>1. PICK n \in DOMAIN closed[y] : closed[y][n] = out
        BY <2>1
      <4>2. old = closed[y]
        BY <1>o, <2>1, <3>1
      <4> QED BY <1>14, <1>15, <3>1, <4>1, <4>2
    <3>2. CASE y # x
      BY ONLY <1>14, <2>1, <3>2
    <3> QED BY <3>1, <3>2
  <2>3. v[i].app = y /\ [from |-> v[i].ts, to |-> v[j].ts] = out
    BY <2>0
  <2> HIDE DEF y, out
  <2> QED BY <2>2, <2>3
<1>22. ASSUME NEW m \in Foci(v), Latest(Foci(v), m)
       PROVE  /\ now2 = [app |-> v[m].app, since |-> now2.since]
              /\ now2.app \in DOMAIN b /\ now2.since \in T
              /\ Alternates(v) =>
                   b[now2.app] # <<>> /\ Last(b[now2.app]) = [from |-> v[m].ts, to |-> None]
  <2>1. v[m].app = x /\ v[m].ts = t
    BY <1>1, <1>4, <1>18, <1>22
  <2>2. now2.app = x /\ now2.since = since
    OBVIOUS
  <2> QED BY <1>11, <1>14, <1>15, <1>20, <1>n, <2>1, <2>2
<1>23. Foci(v) # {} /\ now2.app \in DOMAIN b /\ now2.since \in T
  BY <1>6, <1>11, <1>14
<1>t. T = Times(v)
  OBVIOUS
<1> HIDE DEF T
<1> QED BY ONLY <1>t, <1>8, <1>16, <1>17, <1>21, <1>22, <1>23 DEF KnowsApps

\* After a focus on nothing the apps are as they were, and not compared.
LEMMA NothingIsKnown ==
  ASSUME NEW w, NEW v, NEW a, NEW front, KnowsApps(a, front, w), NEW t,
         \A i \in DOMAIN w : w[i].ts <= t,
         OneLonger(w, v, [kind |-> "app_focus", ts |-> t, app |-> None])
  PROVE  KnowsApps(a, front, v)
<1> DEFINE e == [kind |-> "app_focus", ts |-> t, app |-> None]
           I == Foci(w)
<1>1. e.ts = t /\ e.kind = "app_focus" /\ e.app = None
  OBVIOUS
<1> HIDE DEF e
<1>2. Longer(w, v, {e})
  BY DEF e, OneLonger
<1>3. PICK l : l \notin DOMAIN w /\ DOMAIN v = DOMAIN w \cup {l}
  BY DEF OneLonger
<1>4. v[l] = e /\ \A i \in DOMAIN w : i < l
  BY <1>2, <1>3 DEF Longer
<1>5. Times(w) \subseteq Times(v)
  BY <1>1, <1>2, TimesGrow
<1>6. /\ Foci(v) = I \cup {l} /\ l \notin I /\ I \subseteq DOMAIN w
      /\ \A i \in I : v[i] = w[i] /\ i < l
  BY <1>1, <1>2, <1>3, <1>4 DEF OfKinds, Longer, Foci
<1>7. I \cup {l} \subseteq Int
  <2>1. DOMAIN v = 1..Len(v)
    BY <1>2, WindowIsFinite DEF Longer, IsWindow
  <2>2. \A i \in DOMAIN v : i \in Int
    BY <2>1
  <2> QED BY <1>3, <1>6, <2>2
<1>8. \A x \in DOMAIN a : a[x] \in Seq(Intervals(v))
  <2>1. Intervals(w) \subseteq Intervals(v)
    BY <1>5 DEF Intervals
  <2>2. \A x \in DOMAIN a : a[x] \in Seq(Intervals(w))
    BY DEF KnowsApps
  <2> QED BY <2>1, <2>2, SeqMonotonic
<1>9. ASSUME NEW i \in Foci(v), NEW j \in Foci(v), i < j  PROVE v[i].ts <= v[j].ts
  <2>1. i \in I
    BY <1>6, <1>7, <1>9
  <2>2. CASE j \in I
    BY <1>6, <1>9, <2>1, <2>2 DEF KnowsApps
  <2>3. CASE j = l
    BY <1>1, <1>4, <1>6, <2>1, <2>3
  <2> QED BY <1>6, <2>2, <2>3
<1>10. ~ Alternates(v)
  BY <1>1, <1>4, <1>6 DEF Alternates
<1>11. front = Nobody \/ (Foci(v) # {} /\ front.app \in DOMAIN a /\ front.since \in Times(v))
  BY <1>5, <1>6 DEF KnowsApps
<1> QED BY ONLY <1>8, <1>9, <1>10, <1>11 DEF KnowsApps

-----------------------------------------------------------------------------
(* What an event leaves known *)

Knows ==
  /\ lastTs \in Times(window) \cup {None}
  /\ KnowsProcesses(processes, window) /\ KnowsSockets(sockets, window)
  /\ KnowsFiles(files, window) /\ KnowsApps(apps, frontmost, window)

\* An event of one kind leaves the rest as well known as it was.
LEMMA RestIsKept ==
  ASSUME Knows, NEW news, Longer(window, window', news),
         NEW e \in news, lastTs' = e.ts, \A d \in news : d.kind = e.kind
  PROVE  /\ lastTs' \in Times(window') \cup {None}
         /\ KnowsSockets(sockets, window')
         /\ e.kind # "process_birth" => KnowsProcesses(processes, window')
         /\ e.kind # "file_changed" => KnowsFiles(files, window')
         /\ e.kind # "app_focus" => KnowsApps(apps, frontmost, window')
<1>1. lastTs' \in Times(window')
  BY TimesGrow
<1>2. KnowsSockets(sockets, window')
  BY SocketsKept DEF Knows
<1>3. e.kind # "process_birth" => KnowsProcesses(processes, window')
  <2>1. e.kind # "process_birth" => \A d \in news : d.kind # "process_birth"
    OBVIOUS
  <2> QED BY <2>1, ProcessesKept DEF Knows
<1>4. e.kind # "file_changed" => KnowsFiles(files, window')
  <2>1. e.kind # "file_changed" => \A d \in news : d.kind # "file_changed"
    OBVIOUS
  <2> QED BY <2>1, FilesKept DEF Knows
<1>5. e.kind # "app_focus" => KnowsApps(apps, frontmost, window')
  <2>1. e.kind # "app_focus" => \A d \in news : d.kind # "app_focus"
    OBVIOUS
  <2> QED BY <2>1, AppsKept DEF Knows
<1> QED BY <1>1, <1>2, <1>3, <1>4, <1>5

\* The batch of one event.
LEMMA PushOne ==
  ASSUME WindowInv, NEW e, NEW t \in Nat, t <= now, "ts" \in DOMAIN e, e.ts = t,
         Push(<<e>>), evicted' = None,
         \/ "file" \in mix /\ e.kind = "file_changed"
         \/ t >= now - Lag /\ e.kind # "file_changed"
  PROVE  evicted = None /\ OneLonger(window, window', e) /\ Longer(window, window', {e})
<1>1. Batch(<<e>>, t)
  BY BatchOfOne
<1>2. evicted = None /\ OneLonger(window, window', e)
  BY <1>1, PushIsLonger
<1> QED BY <1>2 DEF OneLonger

\* A process event is learned by the builder as by the window.
LEMMA ProcessLearned ==
  ASSUME WindowInv, Knows, NEW ts \in {now - 1} \cap Nat, ProcessEvent(ts), evicted' = None
  PROVE  evicted = None /\ Knows'
<1>1. ts \in Nat /\ ts <= now /\ ts >= now - Lag
  BY DEF ProcessEvent, Lag, WindowInv
<1>2. PICK k \in ProcessId :
         \/ /\ OnProcessBirth(k, ParentPid(k), ts)
            /\ Push(<<[kind |-> "process_birth", ts |-> ts, process |-> k]>>)
         \/ /\ OnProcessDeath(k, ParentPid(k), ts)
            /\ Push(<<[kind |-> "process_death", ts |-> ts, process |-> k]>>)
  BY DEF ProcessEvent
<1>3. ASSUME NEW e, "ts" \in DOMAIN e, e.ts = ts,
             e.kind \in {"process_birth", "process_death"}, Push(<<e>>),
             UNCHANGED <<apps, sockets, files, frontmost>>, lastTs' = ts
      PROVE  /\ evicted = None /\ Longer(window, window', {e})
             /\ KnowsProcesses(processes', window') => Knows'
  <2>1. evicted = None /\ Longer(window, window', {e})
    BY <1>1, <1>3, PushOne
  <2>2. /\ lastTs' \in Times(window') \cup {None}
        /\ KnowsSockets(sockets, window')
        /\ KnowsFiles(files, window') /\ KnowsApps(apps, frontmost, window')
    BY <1>3, <2>1, RestIsKept
  <2>3. /\ KnowsSockets(sockets', window')
        /\ KnowsFiles(files', window') /\ KnowsApps(apps', frontmost', window')
    BY <1>3, <2>2
  <2> QED BY <2>1, <2>2, <2>3 DEF Knows
<1>4. KnowsProcesses(processes, window)
  BY DEF Knows
<1>5. CASE /\ OnProcessBirth(k, ParentPid(k), ts)
           /\ Push(<<[kind |-> "process_birth", ts |-> ts, process |-> k]>>)
  <2> DEFINE e == [kind |-> "process_birth", ts |-> ts, process |-> k]
  <2>1. "ts" \in DOMAIN e /\ e.ts = ts /\ e.kind = "process_birth"
    OBVIOUS
  <2>2. /\ UNCHANGED <<apps, sockets, files, frontmost>> /\ lastTs' = ts
        /\ processes' = Put(processes, k, [ppid |-> ParentPid(k), birth |-> ts, death |-> None])
    BY <1>5 DEF OnProcessBirth
  <2>3. Longer(window, window', {e}) /\ Push(<<e>>)
    BY <1>3, <1>5, <2>1, <2>2
  <2>4. KnowsProcesses(processes', window')
    BY <1>4, <2>2, <2>3, BirthIsKnown
  <2> HIDE DEF e
  <2> QED BY <1>3, <2>1, <2>2, <2>3, <2>4
<1>6. CASE /\ OnProcessDeath(k, ParentPid(k), ts)
           /\ Push(<<[kind |-> "process_death", ts |-> ts, process |-> k]>>)
  <2> DEFINE e == [kind |-> "process_death", ts |-> ts, process |-> k]
  <2>1. "ts" \in DOMAIN e /\ e.ts = ts /\ e.kind = "process_death"
    OBVIOUS
  <2>2. /\ UNCHANGED <<apps, sockets, files, frontmost>> /\ lastTs' = ts
        /\ \/ k \in DOMAIN processes /\ processes' = [processes EXCEPT ![k].death = ts]
           \/ processes' = Put(processes, k, [ppid |-> ParentPid(k), birth |-> ts, death |-> ts])
    BY <1>6 DEF OnProcessDeath
  <2>3. Longer(window, window', {e}) /\ Push(<<e>>)
    BY <1>3, <1>6, <2>1, <2>2
  <2>4. KnowsProcesses(processes', window')
    BY <1>4, <2>2, <2>3, DeathIsKnown
  <2> HIDE DEF e
  <2> QED BY <1>3, <2>1, <2>2, <2>3, <2>4
<1> QED BY <1>2, <1>5, <1>6

\* A file change is learned by the builder as by the window.
LEMMA FileLearned ==
  ASSUME WindowInv, Knows, NEW ts \in 0..now, FileEvent(ts), evicted' = None
  PROVE  evicted = None /\ Knows'
<1>1. ts \in Nat /\ ts <= now /\ "file" \in mix
  BY DEF FileEvent, WindowInv
<1>2. PICK f \in File, count \in 1..2 :
         /\ OnFileChanged(f, {}, count, ts)
         /\ Push(<<[kind |-> "file_changed", ts |-> ts, path |-> f]>>)
  BY DEF FileEvent
<1> DEFINE e == [kind |-> "file_changed", ts |-> ts, path |-> f]
           known == IF f \in DOMAIN files THEN files[f]
                    ELSE [first |-> ts, last |-> ts, touches |-> 0, flags |-> {}]
<1>3. "ts" \in DOMAIN e /\ e.ts = ts /\ e.kind = "file_changed"
  OBVIOUS
<1>4. /\ UNCHANGED <<processes, apps, sockets, frontmost>> /\ lastTs' = ts
      /\ files' = Put(files, f, [known EXCEPT !.last = ts, !.touches = @ + count,
                                              !.flags = @ \cup {}])
  BY <1>2 DEF OnFileChanged
<1>5. evicted = None /\ OneLonger(window, window', e) /\ Longer(window, window', {e})
  <2> HIDE DEF e
  <2>1. Push(<<e>>)
    BY <1>2 DEF e
  <2> QED BY <1>1, <1>3, <2>1, PushOne
<1>6. KnowsFiles(files', window')
  BY <1>4, <1>5, ChangeIsKnown DEF Knows
<1> HIDE DEF e
<1>7. /\ lastTs' \in Times(window') \cup {None}
      /\ KnowsSockets(sockets, window')
      /\ KnowsProcesses(processes, window') /\ KnowsApps(apps, frontmost, window')
  BY <1>3, <1>4, <1>5, RestIsKept
<1>8. /\ KnowsSockets(sockets', window')
      /\ KnowsProcesses(processes', window') /\ KnowsApps(apps', frontmost', window')
  BY <1>4, <1>7
<1> QED BY <1>5, <1>6, <1>7, <1>8 DEF Knows

\* A query teaches nothing that is compared.
LEMMA QueryLearned ==
  ASSUME WindowInv, Knows, DnsEvent, evicted' = None
  PROVE  evicted = None /\ Knows'
<1> DEFINE Row(q) == [kind |-> "dns_query", ts |-> now, qname |-> q.qname, hash |-> q.hash,
                      client |-> q.client, comm |-> q.comm]
<1>1. PICK q : /\ \/ OnObservation(now)
                  \/ \E k, masked, pid : OnDnsQuery(k, masked, pid, now)
               /\ Push(<<Row(q)>>)
  BY DEF DnsEvent
<1> DEFINE e == Row(q)
<1>2. "ts" \in DOMAIN e /\ e.ts = now /\ e.kind = "dns_query"
  OBVIOUS
<1> HIDE DEF e
<1>3. evicted = None /\ Longer(window, window', {e})
  <2>1. Push(<<e>>) /\ now \in Nat /\ now <= now /\ now >= now - Lag
    BY <1>1 DEF e, WindowInv, Lag
  <2> QED BY <1>2, <2>1, PushOne
<1>4. UNCHANGED <<processes, apps, sockets, files, frontmost>> /\ lastTs' = now
  BY <1>1 DEF OnDnsQuery, OnObservation
<1>5. /\ lastTs' \in Times(window') \cup {None}
      /\ KnowsSockets(sockets, window') /\ KnowsFiles(files, window')
      /\ KnowsProcesses(processes, window') /\ KnowsApps(apps, frontmost, window')
  BY <1>2, <1>3, <1>4, RestIsKept
<1>6. /\ KnowsSockets(sockets', window') /\ KnowsFiles(files', window')
      /\ KnowsProcesses(processes', window') /\ KnowsApps(apps', frontmost', window')
  BY <1>4, <1>5
<1> QED BY <1>3, <1>5, <1>6 DEF Knows

\* A focus is learned by the builder as by the window.
LEMMA FocusLearned ==
  ASSUME WindowInv, Knows, NEW a \in App, OnAppFocus(a, now),
         Push(<<[kind |-> "app_focus", ts |-> now, app |-> a]>>), evicted' = None
  PROVE  evicted = None /\ Knows'
<1> DEFINE e == [kind |-> "app_focus", ts |-> now, app |-> a]
           closed == FrontClosed(now)
           since == IF frontmost.app = a THEN frontmost.since ELSE now
<1>2. "ts" \in DOMAIN e /\ e.ts = now /\ e.kind = "app_focus"
  OBVIOUS
<1>3. evicted = None /\ OneLonger(window, window', e) /\ Longer(window, window', {e})
  <2>1. Push(<<e>>) /\ now \in Nat /\ now <= now /\ now >= now - Lag
    BY DEF WindowInv, Lag
  <2> HIDE DEF e
  <2> QED BY <1>2, <2>1, PushOne
<1>4. /\ UNCHANGED <<processes, sockets, files>> /\ lastTs' = now
      /\ apps' = Put(closed, a, Append(IntervalsOf(a, closed), [from |-> since, to |-> None]))
      /\ frontmost' = [app |-> a, since |-> since]
  BY DEF OnAppFocus
<1>5. closed = IF frontmost = Nobody THEN apps
               ELSE [apps EXCEPT ![frontmost.app] = CloseLast(@, now)]
  BY DEF FrontClosed
<1>6. a # None /\ KnowsApps(apps, frontmost, window) /\ \A i \in DOMAIN window : window[i].ts <= now
  BY NarrationAssumption DEF Knows, WindowInv
<1>7. KnowsApps(apps', frontmost', window')
  BY <1>3, <1>4, <1>5, <1>6, FocusIsKnown
<1> HIDE DEF e
<1>8. /\ lastTs' \in Times(window') \cup {None}
      /\ KnowsSockets(sockets, window') /\ KnowsFiles(files, window')
      /\ KnowsProcesses(processes, window')
  BY <1>2, <1>3, <1>4, RestIsKept
<1>9. /\ KnowsSockets(sockets', window') /\ KnowsFiles(files', window')
      /\ KnowsProcesses(processes', window')
  BY <1>4, <1>8
<1> QED BY <1>3, <1>7, <1>8, <1>9 DEF Knows

\* When nothing comes to the front the window has an event, which the builder
\* passes over.
LEMMA NothingLearned ==
  ASSUME WindowInv, Knows, OnFocusOnNothing(now),
         Push(<<[kind |-> "app_focus", ts |-> now, app |-> None]>>), evicted' = None
  PROVE  evicted = None /\ Knows'
<1> DEFINE e == [kind |-> "app_focus", ts |-> now, app |-> None]
<1>2. "ts" \in DOMAIN e /\ e.ts = now /\ e.kind = "app_focus"
  OBVIOUS
<1>3. evicted = None /\ OneLonger(window, window', e) /\ Longer(window, window', {e})
  <2>1. Push(<<e>>) /\ now \in Nat /\ now <= now /\ now >= now - Lag
    BY DEF WindowInv, Lag
  <2> HIDE DEF e
  <2> QED BY <1>2, <2>1, PushOne
<1>4. UNCHANGED <<processes, apps, sockets, files, frontmost>> /\ lastTs' = now
  BY DEF OnFocusOnNothing, OnObservation
<1>6. KnowsApps(apps, frontmost, window) /\ \A i \in DOMAIN window : window[i].ts <= now
  BY DEF Knows, WindowInv
<1>7. KnowsApps(apps, frontmost, window')
  BY <1>3, <1>6, NothingIsKnown
<1> HIDE DEF e
<1>8. /\ lastTs' \in Times(window') \cup {None}
      /\ KnowsSockets(sockets, window') /\ KnowsFiles(files, window')
      /\ KnowsProcesses(processes, window')
  BY <1>2, <1>3, <1>4, RestIsKept
<1>9. /\ KnowsSockets(sockets', window') /\ KnowsFiles(files', window')
      /\ KnowsProcesses(processes', window') /\ KnowsApps(apps', frontmost', window')
  BY <1>4, <1>7, <1>8
<1> QED BY <1>3, <1>8, <1>9 DEF Knows

\* An event of a connection is learned by the builder as by the window, of
\* two at once the first.
LEMMA SocketLearned ==
  ASSUME WindowInv, Knows, NEW ts \in {now - 1} \cap Nat, SocketEvent(ts), evicted' = None
  PROVE  evicted = None /\ Knows'
<1>1. ts \in Nat /\ ts <= now /\ ts >= now - Lag
  BY DEF SocketEvent, Lag, WindowInv
<1>2. PICK s \in Socket, pid \in Pid, bytes \in Bytes :
         LET E(kind) == [kind |-> kind, ts |-> ts, socket |-> s, name |-> pid,
                         bytes |-> bytes]
         IN \/ /\ OnConnectionOpened(s, pid, ts)
               /\ Push(<<E("connection_opened")>>)
            \/ /\ OnConnectionClosed(s, pid, ts)
               /\ Push(<<E("connection_closed"), E("connection_completed")>>)
  BY DEF SocketEvent
<1> DEFINE E(kind) == [kind |-> kind, ts |-> ts, socket |-> s, name |-> pid,
                       bytes |-> bytes]
<1>3. ASSUME NEW news, Longer(window, window', news), NEW e \in news, e.ts = ts,
             \A d \in news : d.kind \notin {"process_birth", "file_changed", "app_focus"},
             UNCHANGED <<processes, apps, files, frontmost>>, lastTs' = ts,
             KnowsSockets(sockets', window')
      PROVE  Knows'
  <2>1. lastTs' \in Times(window') \cup {None}
    BY <1>3, TimesGrow
  <2>2. /\ KnowsProcesses(processes, window') /\ KnowsFiles(files, window')
        /\ KnowsApps(apps, frontmost, window')
    BY <1>3, ProcessesKept, FilesKept, AppsKept DEF Knows
  <2>3. /\ KnowsProcesses(processes', window') /\ KnowsFiles(files', window')
        /\ KnowsApps(apps', frontmost', window')
    BY <1>3, <2>2
  <2> QED BY <1>3, <2>1, <2>3 DEF Knows
<1>4. KnowsSockets(sockets, window)
  BY DEF Knows
<1>e. ASSUME NEW kind
      PROVE  /\ "ts" \in DOMAIN E(kind) /\ E(kind).ts = ts /\ E(kind).kind = kind /\ E(kind).socket = s
             /\ E(kind).name = pid /\ "socket" \in DOMAIN E(kind)
  OBVIOUS
<1>5. CASE OnConnectionOpened(s, pid, ts) /\ Push(<<E("connection_opened")>>)
  <2> DEFINE e == E("connection_opened")
  <2>1. /\ UNCHANGED <<processes, apps, files, frontmost>> /\ lastTs' = ts
        /\ sockets' = Put(sockets, s, [pid |-> pid, opened |-> ts, closed |-> None])
    BY <1>5 DEF OnConnectionOpened
  <2>2. /\ "ts" \in DOMAIN e /\ e.ts = ts /\ e.kind = "connection_opened" /\ e.socket = s
        /\ e.name = pid /\ "socket" \in DOMAIN e
    BY <1>e
  <2>3. Push(<<e>>)
    BY <1>5
  <2> HIDE DEF e, E
  <2>4. evicted = None /\ Longer(window, window', {e})
    BY <1>1, <2>2, <2>3, PushOne
  <2>5. KnowsSockets(sockets', window')
    <3> DEFINE news == {e}
    <3>1. Longer(window, window', news) /\ e \in news
      BY <2>4
    <3>2. sockets' = Put(sockets, e.socket, [pid |-> e.name, opened |-> e.ts, closed |-> None])
      BY <2>1, <2>2
    <3> HIDE DEF news
    <3> QED BY <1>4, <2>2, <3>1, <3>2, OpeningIsKnown
  <2> QED BY <1>3, <2>1, <2>2, <2>4, <2>5
<1>6. CASE /\ OnConnectionClosed(s, pid, ts)
           /\ Push(<<E("connection_closed"), E("connection_completed")>>)
  <2> DEFINE e == E("connection_closed")
             d == E("connection_completed")
             evs == <<e, d>>
             news == {evs[i] : i \in DOMAIN evs}
  <2>1. /\ UNCHANGED <<processes, apps, files, frontmost>> /\ lastTs' = ts
        /\ \/ s \in DOMAIN sockets /\ sockets' = [sockets EXCEPT ![s].closed = ts]
           \/ sockets' = Put(sockets, s, [pid |-> pid, opened |-> ts, closed |-> ts])
    BY <1>6 DEF OnConnectionClosed
  <2>2. /\ "ts" \in DOMAIN e /\ e.ts = ts /\ e.kind = "connection_closed" /\ e.socket = s
        /\ e.name = pid /\ "socket" \in DOMAIN e
        /\ "ts" \in DOMAIN d /\ d.ts = ts /\ d.kind = "connection_completed"
    BY <1>e
  <2>3. Push(evs)
    BY <1>6
  <2> HIDE DEF e, d, E
  <2>4. news = {e, d}
    <3>1. DOMAIN evs = {1, 2} /\ evs[1] = e /\ evs[2] = d
      OBVIOUS
    <3> QED BY <3>1
  <2>5. Batch(evs, ts)
    BY <1>1, <2>2, BatchOfTwo
  <2> HIDE DEF evs
  <2>6. evicted = None /\ Longer(window, window', news)
    BY <2>3, <2>5, PushIsLonger
  <2> HIDE DEF news
  <2>7. KnowsSockets(sockets', window')
    <3>1. \/ e.socket \in DOMAIN sockets /\ sockets' = [sockets EXCEPT ![e.socket].closed = e.ts]
          \/ sockets' = Put(sockets, e.socket, [pid |-> e.name, opened |-> e.ts, closed |-> e.ts])
      BY <2>1, <2>2
    <3> QED BY <1>4, <2>2, <2>4, <2>6, <3>1, ClosingIsKnown
  <2> QED BY <1>3, <2>1, <2>2, <2>4, <2>6, <2>7
<1> QED BY <1>2, <1>5, <1>6

\* What was known stays known as events come, if nothing leaves the window.
LEMMA Learned ==
  ASSUME WindowInv, Receive, evicted' = None
  PROVE  evicted = None /\ (Knows => Knows')
<1>1. \/ \E ts \in {now - 1} \cap Nat : ProcessEvent(ts) \/ SocketEvent(ts)
      \/ \E ts \in 0..now : FileEvent(ts)
      \/ FocusEvent
      \/ DnsEvent
  BY DEF Receive
<1>2. ASSUME Knows  PROVE evicted = None /\ Knows'
  <2>1. FocusEvent => evicted = None /\ Knows'
    BY <1>2, FocusLearned, NothingLearned DEF FocusEvent
  <2> QED BY <1>1, <1>2, <2>1, ProcessLearned, SocketLearned, FileLearned, QueryLearned
<1>3. evicted = None
  <2>1. PICK evs, t : Batch(evs, t) /\ Push(evs)
    BY ReceivedBatch
  <2> QED BY <2>1, PushIsLonger
<1> QED BY <1>2, <1>3

-----------------------------------------------------------------------------
(* Two ways to the same counts *)

\* Two sets that a map pairs are of one size.
LEMMA PairedSets ==
  ASSUME NEW S, IsFiniteSet(S), NEW T, NEW f,
         \A s \in S : f[s] \in T,
         \A t \in T : \E s \in S : f[s] = t,
         \A r, s \in S : f[r] = f[s] => r = s
  PROVE  Cardinality(S) = Cardinality(T)
<1> DEFINE g == [s \in S |-> f[s]]
<1>1. g \in Bijection(S, T)
  <2>1. g \in [S -> T]
    OBVIOUS
  <2>2. \A r, s \in S : g[r] = g[s] => r = s
    OBVIOUS
  <2>3. \A t \in T : \E s \in S : g[s] = t
    OBVIOUS
  <2> HIDE DEF g
  <2> QED BY <2>1, <2>2, <2>3 DEF Bijection, Injection, Surjection, IsInjective
<1> QED BY <1>1, FS_Bijection DEF ExistsBijection

\* Who was born once in the window has one birth and one node.
LEMMA ProcessesAgree ==
  ASSUME NEW w, IsWindow(w), NEW g, KnowsProcesses(g.processes, w),
         \A k \in DOMAIN g.processes : Cardinality(Born(w, k)) = 1
  PROVE  TopProcesses(w) = TopProcessesFromGraph(g)
<1> DEFINE B == OfKinds(w, {"process_birth"})
           P == DOMAIN g.processes
           I == {i \in B : Comm(w[i].process) \notin Noisy}
           K == {k \in P : Comm(k) \notin Noisy}
           Ix(x) == {i \in I : Comm(w[i].process) = x}
           Kx(x) == {k \in K : Comm(k) = x}
           X == {Comm(w[i].process) : i \in I}
           Y == {Comm(k) : k \in K}
           p == [i \in B |-> w[i].process]
<1>1. \A i \in B : w[i].process \in P
  BY DEF KnowsProcesses
<1>2. IsFiniteSet(B)
  BY KindsAreFinite DEF IsWindow
<1>3. ASSUME NEW k \in P
      PROVE  \E i \in B : /\ w[i].process = k
                          /\ \A j \in B : w[j].process = k => j = i
  <2>1. PICK i : Born(w, k) = {i}
    <3>1. Born(w, k) \in SUBSET B
      BY DEF Born
    <3>2. IsFiniteSet(Born(w, k)) /\ Cardinality(Born(w, k)) = 1
      BY <1>2, <3>1, FS_Subset
    <3> QED BY <3>2, FS_Singleton
  <2> QED BY <2>1 DEF Born
<1>4. X = Y
  BY <1>1, <1>3
<1>5. ASSUME NEW x  PROVE Cardinality(Ix(x)) = Cardinality(Kx(x))
  <2>1. Ix(x) \in SUBSET B
    OBVIOUS
  <2>2. IsFiniteSet(Ix(x))
    BY <1>2, <2>1, FS_Subset
  <2>3. \A i \in Ix(x) : p[i] \in Kx(x)
    BY <1>1
  <2>4. \A k \in Kx(x) : \E i \in Ix(x) : p[i] = k
    BY <1>3
  <2>5. \A i, j \in Ix(x) : p[i] = p[j] => i = j
    BY <1>1, <1>3
  <2> DEFINE S == Ix(x)
             T == Kx(x)
  <2> HIDE DEF S, T, p
  <2>6. Cardinality(S) = Cardinality(T)
    BY <2>2, <2>3, <2>4, <2>5, PairedSets DEF S, T
  <2> QED BY <2>6 DEF S, T
<1>6. TopProcesses(w) = [x \in X |-> Cardinality(Ix(x))]
  BY DEF TopProcesses, CountBy
<1>7. TopProcessesFromGraph(g) = [x \in Y |-> Cardinality(Kx(x))]
  BY DEF TopProcessesFromGraph, CountBy
<1> HIDE DEF X, Y, Ix, Kx
<1> QED BY <1>4, <1>5, <1>6, <1>7

\* A directory has at least as many touches as changes.
LEMMA DirectoriesAgree ==
  ASSUME NEW w, IsWindow(w), NEW g, KnowsFiles(g.files, w)
  PROVE  /\ DOMAIN TopDirectoriesFromGraph(g) = DOMAIN TopDirectories(w)
         /\ \A d \in DOMAIN TopDirectories(w) :
              TopDirectories(w)[d] <= TopDirectoriesFromGraph(g)[d]
<1> DEFINE f == g.files
           J == OfKinds(w, {"file_changed"})
           Jd(d) == {i \in J : Directory(w[i].path) = d}
           Fd(d) == {x \in DOMAIN f : Directory(x) = d}
           touches == [x \in DOMAIN f |-> f[x].touches]
           D == {Directory(w[i].path) : i \in J}
           E == {Directory(x) : x \in DOMAIN f}
<1>1. IsFiniteSet(J)
  BY KindsAreFinite DEF IsWindow
<1>2. \A i \in J : w[i].path \in DOMAIN f
  BY DEF KnowsFiles
<1>3. \A x \in DOMAIN f : /\ Changes(w, x) # {} /\ f[x].touches \in Nat
                          /\ Cardinality(Changes(w, x)) <= f[x].touches
  BY DEF KnowsFiles
<1>4. \A x \in DOMAIN f : \E i \in J : w[i].path = x
  BY <1>3 DEF Changes
<1>5. D = E
  BY <1>2, <1>4
<1>6. IsFiniteSet(DOMAIN f)
  <2> DEFINE path == [i \in J |-> w[i].path]
  <2>1. path \in Surjection(J, DOMAIN f)
    BY <1>2, <1>4 DEF Surjection
  <2> QED BY <1>1, <2>1, FS_Surjection
<1>7. ASSUME NEW d
      PROVE  Cardinality(Jd(d)) <= SumOver(touches, Fd(d))
  <2> DEFINE A == Fd(d)
             parts == [x \in A |-> Changes(w, x)]
             counts == [x \in A |-> Cardinality(Changes(w, x))]
  <2>1. IsFiniteSet(A)
    <3>1. A \in SUBSET DOMAIN f
      OBVIOUS
    <3> QED BY <1>6, <3>1, FS_Subset
  <2>2. \A x \in A : IsFiniteSet(Changes(w, x)) /\ Cardinality(Changes(w, x)) \in Nat
    <3> SUFFICES ASSUME NEW x \in A  PROVE IsFiniteSet(Changes(w, x))
      BY FS_CardinalityType
    <3>1. Changes(w, x) \in SUBSET J
      BY DEF Changes
    <3> QED BY <1>1, <3>1, FS_Subset
  <2>3. \A x, y \in A : x = y \/ Changes(w, x) \cap Changes(w, y) = {}
    BY DEF Changes
  <2>4. A \subseteq DOMAIN f
    OBVIOUS
  <2>5. UnionOver(parts, A) = Jd(d)
    <3>1. \A x \in A : parts[x] = {i \in J : w[i].path = x}
      BY DEF Changes
    <3>2. \A i \in Jd(d) : w[i].path \in A
      BY <1>2
    <3>3. \A x \in A : \A i \in J : w[i].path = x => i \in Jd(d)
      OBVIOUS
    <3> HIDE DEF parts, A
    <3>4. UnionOver(parts, A) \subseteq Jd(d)
      BY <3>1, <3>3 DEF UnionOver
    <3>5. Jd(d) \subseteq UnionOver(parts, A)
      BY <3>1, <3>2 DEF UnionOver
    <3> QED BY <3>4, <3>5
  <2> HIDE DEF A
  <2>6. /\ \A x \in A : IsFiniteSet(parts[x]) /\ counts[x] = Cardinality(parts[x])
        /\ \A x, y \in A : x = y \/ parts[x] \cap parts[y] = {}
    BY <2>2, <2>3
  <2>7. \A x \in A : counts[x] \in Nat /\ touches[x] \in Nat /\ counts[x] <= touches[x]
    BY <1>3, <2>2, <2>4
  <2> HIDE DEF parts, counts, touches, Jd
  <2>8. SumOver(counts, A) = Cardinality(UnionOver(parts, A))
    BY <2>1, <2>6, CountsAddUp
  <2>9. SumOver(counts, A) <= SumOver(touches, A)
    BY <2>1, <2>7, SumIsMonotone
  <2> QED BY <2>5, <2>8, <2>9 DEF A
<1>8. TopDirectories(w) = [d \in D |-> Cardinality(Jd(d))]
  BY DEF TopDirectories, CountBy
<1>9. TopDirectoriesFromGraph(g) = [d \in E |-> SumOver(touches, Fd(d))]
  BY DEF TopDirectoriesFromGraph, SumBy
<1> HIDE DEF D, E, Jd, Fd, touches
<1> QED BY <1>5, <1>7, <1>8, <1>9

-----------------------------------------------------------------------------
(* The snapshot says what the window says *)

\* As the interval in front ends, what was ended stays.
LEMMA EndedStay ==
  ASSUME NEW w, IsWindow(w), NEW a, NEW front, KnowsApps(a, front, w),
         NEW t \in Times(w) \cup {None},
         NEW closed, closed = IF front = Nobody THEN a
                              ELSE [a EXCEPT ![front.app] = CloseLast(@, t)]
  PROVE  /\ DOMAIN closed = DOMAIN a
         /\ \A y \in DOMAIN a :
              /\ closed[y] \in Seq(Intervals(w)) /\ DOMAIN closed[y] = DOMAIN a[y]
              /\ \A n \in DOMAIN a[y] : a[y][n].to # None => closed[y][n] = a[y][n]
<1> DEFINE R == Intervals(w)
<1>1. \A y \in DOMAIN a : a[y] \in Seq(R)
  BY DEF KnowsApps
<1>2. \A z \in R : z = [from |-> z.from, to |-> z.to] /\ [from |-> z.from, to |-> t] \in R
  BY DEF Intervals
<1> HIDE DEF R
<1>f. front = Nobody \/ front.app \in DOMAIN a
  BY DEF KnowsApps
<1>3. CASE front = Nobody
  <2>1. closed = a
    BY <1>3
  <2> QED BY <1>1, <2>1 DEF R
<1>4. CASE front # Nobody /\ front.app \in DOMAIN a
  <2> DEFINE y == front.app
             s == a[y]
             r == CloseLast(s, t)
  <2>1. closed = [a EXCEPT ![y] = r] /\ y \in DOMAIN a /\ s \in Seq(R)
    BY <1>1, <1>4
  <2>2. DOMAIN closed = DOMAIN a /\ closed[y] = r /\ \A x \in DOMAIN a : x # y => closed[x] = a[x]
    <3> HIDE DEF r, y, s
    <3> QED BY <2>1
  <2>r. r = CloseLast(s, t)
    OBVIOUS
  <2> HIDE DEF r, s, y
  <2>3. /\ r \in Seq(R) /\ DOMAIN r = DOMAIN s
        /\ \A n \in DOMAIN s : s[n].to # None => r[n] = s[n]
    BY ONLY <1>2, <2>1, <2>r, ClosedIs
  <2> QED BY <1>1, <2>2, <2>3 DEF R, s
<1> QED BY <1>3, <1>4, <1>f

\* If each focus is on another app than the one before, the segments of the
\* window up to the last are intervals of apps.
LEMMA FocusesAgree ==
  ASSUME NEW w, IsWindow(w), NEW a, NEW front, KnowsApps(a, front, w),
         NEW t \in Times(w) \cup {None},
         NEW g, g.apps = IF front = Nobody THEN a
                         ELSE [a EXCEPT ![front.app] = CloseLast(@, t)],
         Alternates(w), NEW last, last = w[Max(Foci(w))],
         NEW seg \in ToSet(BuildFocusSegments(w))
  PROVE  seg \in FocusSegmentsFromApps(g) \/ (seg.from = last.ts /\ seg.app = last.app)
<1> DEFINE I == Foci(w)
           s == BuildFocusSegments(w)
           n == Cardinality(I)
           foci == FocusOrder(w)
           end == Max(Times(w))
           c == g.apps
<1>1. /\ n \in Nat /\ foci \in [1..n -> I]
      /\ I \subseteq DOMAIN w
      /\ \A i \in I : \E k \in 1..n : foci[k] = i
      /\ \A k, l \in 1..n : k < l =>
           \/ w[foci[k]].ts < w[foci[l]].ts
           \/ w[foci[k]].ts = w[foci[l]].ts /\ foci[k] < foci[l]
      /\ DOMAIN s = 1..n
      /\ \A k \in 1..n : s[k] =
           [app |-> w[foci[k]].app, from |-> w[foci[k]].ts,
            to |-> IF k = n THEN end ELSE w[foci[k + 1]].ts]
  BY FocusOrderSorts
<1>2. /\ DOMAIN c = DOMAIN a
      /\ \A y \in DOMAIN a :
           /\ c[y] \in Seq(Intervals(w)) /\ DOMAIN c[y] = DOMAIN a[y]
           /\ \A k \in DOMAIN a[y] : a[y][k].to # None => c[y][k] = a[y][k]
  <2>1. c = IF front = Nobody THEN a ELSE [a EXCEPT ![front.app] = CloseLast(@, t)]
    OBVIOUS
  <2> HIDE DEF c
  <2> QED BY <2>1, EndedStay
<1>3. /\ \A i, j \in I : i < j => w[i].ts <= w[j].ts
      /\ \A i, j \in I : Adjoining(I, i, j) =>
           /\ w[i].app \in DOMAIN a
           /\ \E k \in DOMAIN a[w[i].app] :
                a[w[i].app][k] = [from |-> w[i].ts, to |-> w[j].ts]
  BY DEF KnowsApps
<1>4. I \subseteq Nat /\ \A i \in I : w[i].ts \in Nat
  <2>1. DOMAIN w = 1..Len(w) /\ Len(w) \in Nat
    BY WindowIsFinite DEF IsWindow
  <2> QED BY <1>1, <2>1 DEF IsWindow
<1>5. PICK k \in 1..n : seg = s[k]
  BY <1>1 DEF ToSet
<1> HIDE DEF I, s, n, foci, end, c
<1>6. \A k1, k2 \in 1..n : foci[k1] \in I
  BY <1>1
<1>7. ASSUME NEW p \in 1..n, NEW q \in 1..n, p < q  PROVE foci[p] < foci[q]
  <2>1. foci[p] \in I /\ foci[q] \in I
    BY <1>1
  <2>2. /\ foci[p] \in Nat /\ foci[q] \in Nat
        /\ w[foci[p]].ts \in Nat /\ w[foci[q]].ts \in Nat
    BY <1>4, <2>1
  <2>3. \/ w[foci[p]].ts < w[foci[q]].ts
        \/ w[foci[p]].ts = w[foci[q]].ts /\ foci[p] < foci[q]
    BY <1>1, <1>7
  <2>4. foci[q] < foci[p] => w[foci[q]].ts <= w[foci[p]].ts
    BY <1>3, <2>1
  <2> QED BY <2>2, <2>3, <2>4
<1>8. CASE k = n
  <2>1. n \in 1..n /\ foci[n] \in I
    BY <1>1, <1>8
  <2>2. \A i \in I : i <= foci[n]
    <3> SUFFICES ASSUME NEW i \in I  PROVE i <= foci[n]
      OBVIOUS
    <3>1. PICK q \in 1..n : foci[q] = i
      BY <1>1
    <3>2. q < n => foci[q] < foci[n]
      BY <1>7, <2>1
    <3>3. q < n \/ q = n
      <4>1. n \in Nat
        BY <1>1
      <4> QED BY <4>1
    <3>4. i \in Nat /\ foci[n] \in Nat
      BY <1>4, <2>1
    <3>5. CASE q < n
      BY <3>1, <3>2, <3>4, <3>5
    <3>6. CASE q = n
      BY <3>1, <3>4, <3>6
    <3> QED BY <3>3, <3>5, <3>6
  <2>3. Max(I) \in I /\ \A i \in I : i <= Max(I)
    <3>1. I \in SUBSET Nat /\ I # {} /\ foci[n] \in Nat
      BY <1>4, <2>1
    <3> QED BY <2>2, <3>1, MaxOfNats
  <2>4. Max(I) = foci[n]
    <3>1. Max(I) \in Nat /\ foci[n] \in Nat /\ Max(I) <= foci[n] /\ foci[n] <= Max(I)
      BY <1>4, <2>1, <2>2, <2>3
    <3> QED BY <3>1
  <2>5. last = w[foci[n]]
    BY <2>4 DEF I
  <2> QED BY <1>1, <1>5, <1>8, <2>5
<1>9. CASE k # n
  <2> DEFINE i == foci[k]
             j == foci[k + 1]
             y == w[i].app
  <2>1. k + 1 \in 1..n /\ k < k + 1
    BY <1>1, <1>9
  <2>2. i \in I /\ j \in I /\ i < j
    BY <1>1, <1>7, <2>1
  <2>3. seg = [app |-> y, from |-> w[i].ts, to |-> w[j].ts]
    BY <1>1, <1>5, <1>9
  <2>4. \A m \in I : m <= i \/ m >= j
    <3> SUFFICES ASSUME NEW m \in I  PROVE m <= i \/ m >= j
      OBVIOUS
    <3>1. PICK q \in 1..n : foci[q] = m
      BY <1>1
    <3>2. q < k \/ q = k \/ q = k + 1 \/ k + 1 < q
      OBVIOUS
    <3>3. q < k => foci[q] < foci[k]
      BY <1>7
    <3>4. k + 1 < q => foci[k + 1] < foci[q]
      BY <1>7, <2>1
    <3>5. m \in Nat /\ i \in Nat /\ j \in Nat
      BY <1>4, <2>2
    <3> QED BY <3>1, <3>2, <3>3, <3>4, <3>5
  <2>5. Adjoining(I, i, j)
    BY <2>2, <2>4 DEF Adjoining
  <2>6. PICK x \in DOMAIN a[y] : a[y][x] = [from |-> w[i].ts, to |-> w[j].ts]
    BY <1>3, <2>2, <2>5
  <2>7. y \in DOMAIN a
    BY <1>3, <2>2, <2>5
  <2>8. w[j].ts \in Nat /\ w[i].ts \in Nat
    BY <1>4, <2>2
  <2> DEFINE v == [from |-> w[i].ts, to |-> w[j].ts]
  <2>9. a[y][x].to # None
    BY <2>6, <2>8 DEF None
  <2>10. y \in DOMAIN c /\ x \in DOMAIN c[y] /\ c[y][x] = v
    <3> HIDE DEF y
    <3> QED BY <1>2, <2>6, <2>7, <2>9
  <2>11. v \in ToSet(c[y])
    <3> HIDE DEF v, y
    <3> QED BY <2>10 DEF ToSet
  <2>12. v.from = w[i].ts /\ v.to = w[j].ts /\ v.to # -1
    BY <2>8
  <2>13. [app |-> y, from |-> v.from, to |-> IF v.to = -1 THEN v.from ELSE v.to]
           \in FocusSegmentsFromApps(g)
    <3> HIDE DEF v, y
    <3> QED BY <2>10, <2>11 DEF FocusSegmentsFromApps, c
  <2> QED BY <2>3, <2>12, <2>13
<1> QED BY <1>8, <1>9

\* A connection of the graph was in an event of the window.
LEMMA EndpointsAgree ==
  ASSUME NEW w, NEW g, KnowsSockets(g.sockets, w)
  PROVE  TopEndpointsFromGraph(g) \subseteq
           {Conversation(w, i) : i \in {j \in DOMAIN w : "socket" \in DOMAIN w[j]}}
<1> SUFFICES ASSUME NEW x \in DOMAIN g.sockets
             PROVE  \E i \in DOMAIN w : /\ "socket" \in DOMAIN w[i]
                                        /\ Conversation(w, i) = <<Endpoint(x), g.sockets[x].pid>>
  BY DEF TopEndpointsFromGraph
<1>1. About(w, x, g.sockets[x].pid)
  BY DEF KnowsSockets
<1> QED BY <1>1 DEF About, Conversation

\* The times of the graph are times of the window.
LEMMA SpansAgree ==
  ASSUME NEW w, NEW g,
         KnowsProcesses(g.processes, w), KnowsSockets(g.sockets, w), KnowsFiles(g.files, w),
         \A y \in DOMAIN g.apps : g.apps[y] \in Seq(Intervals(w))
  PROVE  SpanOf(g) \subseteq Times(w)
<1> DEFINE T == Times(w)
           P == UNION {{p.birth, p.death} : p \in {g.processes[k] : k \in DOMAIN g.processes}}
           A == UNION {UNION {{i.from, i.to} : i \in ToSet(g.apps[a])} : a \in DOMAIN g.apps}
           S == UNION {{g.sockets[s].opened, g.sockets[s].closed} : s \in DOMAIN g.sockets}
           F == UNION {{g.files[f].first, g.files[f].last} : f \in DOMAIN g.files}
<1>1. P \subseteq T \cup {None}
  <2>1. \A x \in DOMAIN g.processes : /\ g.processes[x].birth \in T \cup {None}
                               /\ g.processes[x].death \in T \cup {None}
    BY DEF KnowsProcesses
  <2> HIDE DEF T
  <2> QED BY <2>1
<1>2. A \subseteq T \cup {None}
  <2> SUFFICES ASSUME NEW y \in DOMAIN g.apps, NEW i \in ToSet(g.apps[y])
               PROVE  i.from \in T /\ i.to \in T \cup {None}
    OBVIOUS
  <2>1. i \in Intervals(w)
    <3> DEFINE R == Intervals(w)
               q == g.apps[y]
    <3>1. q \in Seq(R)
      OBVIOUS
    <3>2. PICK n \in DOMAIN q : i = q[n]
      BY DEF ToSet
    <3> HIDE DEF R, q
    <3>3. i \in R
      BY <3>1, <3>2
    <3> QED BY <3>3 DEF R
  <2> QED BY <2>1 DEF Intervals
<1>3. S \subseteq T \cup {None}
  <2>1. \A x \in DOMAIN g.sockets : /\ g.sockets[x].opened \in T \cup {None}
                               /\ g.sockets[x].closed \in T \cup {None}
    BY DEF KnowsSockets
  <2> HIDE DEF T
  <2> QED BY <2>1
<1>4. F \subseteq T \cup {None}
  <2>1. \A x \in DOMAIN g.files : /\ g.files[x].first \in T \cup {None}
                               /\ g.files[x].last \in T \cup {None}
    BY DEF KnowsFiles
  <2> HIDE DEF T
  <2> QED BY <2>1
<1>5. SpanOf(g) = Bounded(P \cup A \cup S \cup F)
  BY DEF SpanOf
<1> HIDE DEF P, A, S, F, T
<1>6. SpanOf(g) \subseteq T
  BY <1>1, <1>2, <1>3, <1>4, <1>5 DEF None, Bounded
<1> QED BY <1>6 DEF T

\* A node and its neighbours are in one component.
LEMMA ShapesAgree ==
  ASSUME NEW g, IsGraph(g), \A e \in DOMAIN g.edges : e.from # e.to, NEW n \in Nodes(g)
  PROVE  Cardinality(Adjacent(g, n)) < GraphAnalytics(g).largest
<1> DEFINE c == Component(g, n)
           N == Adjacent(g, n)
           sizes == {0} \cup {Cardinality(d) : d \in ConnectedComponents(g)}
           b == Cardinality(Nodes(g))
<1>1. n \in c /\ c \subseteq Nodes(g) /\ N \subseteq c
  BY ComponentIsSmallest DEF Closed
<1>2. n \notin N
  BY DEF Adjacent
<1>3. c \in ConnectedComponents(g)
  BY DEF ConnectedComponents
<1>4. IsFiniteSet(c) /\ Cardinality(c) \in Nat
  BY <1>3, ComponentsAreFinite
<1>5. Cardinality(N) \in Nat /\ Cardinality(N) < Cardinality(c)
  <2> DEFINE D == c \ {n}
  <2> HIDE DEF c, N
  <2>1. IsFiniteSet(D) /\ Cardinality(D) = Cardinality(c) - 1
    BY <1>1, <1>4, FS_RemoveElement
  <2>2. N \in SUBSET D
    BY <1>1, <1>2
  <2> HIDE DEF D
  <2>3. IsFiniteSet(N) /\ Cardinality(N) <= Cardinality(D)
    BY <2>1, <2>2, FS_Subset
  <2>4. Cardinality(N) \in Nat
    BY <2>3, FS_CardinalityType
  <2> QED BY <1>4, <2>1, <2>3, <2>4
<1>6. b \in Nat /\ sizes \in SUBSET Nat /\ \A x \in sizes : x <= b
  <2>1. b \in Nat
    BY FS_CardinalityType DEF IsGraph
  <2>2. ASSUME NEW d \in ConnectedComponents(g)
        PROVE  Cardinality(d) \in Nat /\ Cardinality(d) <= b
    <3>1. d \in SUBSET Nodes(g)
      BY ComponentsPartition
    <3> QED BY <2>2, <3>1, ComponentsAreFinite, FS_Subset DEF IsGraph
  <2> QED BY <2>1, <2>2
<1>7. Cardinality(c) \in sizes
  BY <1>3
<1>8. GraphAnalytics(g).largest = Max(sizes)
  BY DEF GraphAnalytics
<1> HIDE DEF sizes, b, c, N
<1>9. Cardinality(c) <= Max(sizes) /\ Max(sizes) \in sizes
  BY <1>6, <1>7, MaxOfNats
<1>10. Max(sizes) \in Nat
  BY <1>6, <1>9
<1>11. Cardinality(N) < Max(sizes)
  BY <1>4, <1>5, <1>9, <1>10
<1> QED BY <1>8, <1>11 DEF N

\* What a builder knows that missed nothing makes the two summaries agree.
LEMMA PathsLearned ==
  ASSUME IsWindow(window), Knows, BuilderIsFinite, IntervalsAreSeqs,
         NEW order, NEW g, g = Snapshot(order)
  PROVE  PathsAgree(window, g)
<1>1. /\ g.processes = processes /\ DOMAIN g.apps = DOMAIN apps /\ g.sockets = sockets
      /\ g.files = files
  BY SnapshotNodes
<1>2. g.apps = IF frontmost = Nobody THEN apps
               ELSE [apps EXCEPT ![frontmost.app] = CloseLast(@, lastTs)]
  BY DEF Snapshot, FrontClosed
<1>3. /\ lastTs \in Times(window) \cup {None}
      /\ KnowsProcesses(g.processes, window) /\ KnowsSockets(g.sockets, window)
      /\ KnowsFiles(g.files, window) /\ KnowsApps(apps, frontmost, window)
  BY <1>1 DEF Knows
<1>4. IsGraph(g)
  BY SnapshotIsGraph
<1>5. \A e \in DOMAIN g.edges : e.from # e.to
  BY SnapshotEdges
<1>6. \A y \in DOMAIN g.apps : g.apps[y] \in Seq(Intervals(window))
  <2> DEFINE c == g.apps
  <2>1. c = IF frontmost = Nobody THEN apps
            ELSE [apps EXCEPT ![frontmost.app] = CloseLast(@, lastTs)]
    BY <1>2
  <2> HIDE DEF c
  <2>2. DOMAIN c = DOMAIN apps /\ \A y \in DOMAIN apps : c[y] \in Seq(Intervals(window))
    BY <1>3, <2>1, EndedStay
  <2> QED BY <2>2 DEF c
<1>7. (\A k \in DOMAIN g.processes : Cardinality(Born(window, k)) = 1) =>
        TopProcesses(window) = TopProcessesFromGraph(g)
  BY <1>3, ProcessesAgree
<1>8. Alternates(window) =>
        \A s \in ToSet(BuildFocusSegments(window)) :
          \/ s \in FocusSegmentsFromApps(g)
          \/ /\ s.from = window[Max(Foci(window))].ts
             /\ s.app = window[Max(Foci(window))].app
  BY <1>2, <1>3, FocusesAgree
<1>9. /\ DOMAIN TopDirectoriesFromGraph(g) = DOMAIN TopDirectories(window)
      /\ \A d \in DOMAIN TopDirectories(window) :
           TopDirectories(window)[d] <= TopDirectoriesFromGraph(g)[d]
  BY <1>3, DirectoriesAgree
<1>10. TopEndpointsFromGraph(g) \subseteq
         {Conversation(window, i) : i \in {j \in DOMAIN window : "socket" \in DOMAIN window[j]}}
  BY <1>3, EndpointsAgree
<1>11. SpanOf(g) \subseteq Times(window)
  BY <1>3, <1>6, SpansAgree
<1>12. \A n \in Nodes(g) : Cardinality(Adjacent(g, n)) < GraphAnalytics(g).largest
  BY <1>4, <1>5, ShapesAgree
<1> QED BY <1>7, <1>8, <1>9, <1>10, <1>11, <1>12 DEF PathsAgree, Alternates, Foci, Adjoining

-----------------------------------------------------------------------------
(* The report *)

\* If nothing left the window, what is known while nothing was narrated is
\* what the first narration is about.
PathInv ==
  evicted = None =>
    /\ graph = NoGraph => Knows
    /\ report # NoReport /\ before = NoGraph => PathsAgree(report.of, graph)

\* What the report is made from, and what it says.
ReportInv == WindowInv /\ GraphInv /\ StoreInv /\ ScoreInv /\ PathInv

\* What is appended was in the past.
LEMMA PushStored ==
  ASSUME now \in Nat, StoreInv, NEW evs, NEW t, Batch(evs, t), Push(evs), now' = now
  PROVE  StoreInv'
<1> DEFINE rows == store.rows
           added == [i \in DOMAIN evs |-> [evs[i] EXCEPT !.ts = @ + Anchor]]
           n == Len(evs)
<1>1. store' = [store EXCEPT !.rows = rows \o added]
  BY DEF Push, AppendEvents
<1>2. /\ {"rows", "children"} \subseteq DOMAIN store' /\ store'.rows = rows \o added
      /\ store'.children = store.children
  BY <1>1 DEF StoreInv
<1>3. n \in Nat /\ DOMAIN evs = 1..n
  BY DEF Batch, IsSeq
<1>4. Anchor \in Nat
  BY EventQueriesAssumption
<1>5. ASSUME NEW i \in 1..n
      PROVE  added[i].ts \in Nat /\ added[i].ts <= Anchor + now
  <2>1. "ts" \in DOMAIN evs[i] /\ evs[i].ts \in Nat /\ evs[i].ts <= now
    BY <1>3 DEF Batch
  <2>2. added[i] = [evs[i] EXCEPT !.ts = @ + Anchor]
    BY <1>3
  <2>3. added[i].ts = evs[i].ts + Anchor
    BY <2>1, <2>2
  <2> QED BY <1>4, <2>1, <2>3
<1>6. added \in Seq({added[i] : i \in 1..n})
  <2>1. added = [i \in 1..n |-> added[i]]
    BY <1>3
  <2> HIDE DEF added
  <2>2. added \in [1..n -> {added[i] : i \in 1..n}]
    BY <2>1
  <2> QED BY <1>3, <2>2
<1>7. Len(added) = n
  BY <1>3
<1> HIDE DEF added, n, rows
<1>8. PICK R : rows \in Seq(R)
  BY DEF StoreInv, IsPast, IsWindow, IsSeq, rows
<1>9. \A i \in DOMAIN rows : rows[i].ts \in Nat /\ rows[i].ts <= Anchor + now
  BY DEF StoreInv, IsPast, IsWindow, rows
<1> DEFINE all == rows \o added
           S == R \cup {added[i] : i \in 1..n}
<1>10. rows \in Seq(S) /\ added \in Seq(S)
  BY <1>6, <1>8, SeqMonotonic
<1>11. /\ all \in Seq(S) /\ DOMAIN all = 1..(Len(rows) + n)
       /\ Len(rows) \in Nat /\ DOMAIN rows = 1..Len(rows)
       /\ \A i \in 1..(Len(rows) + n) :
            all[i] = IF i <= Len(rows) THEN rows[i] ELSE added[i - Len(rows)]
  <2> HIDE DEF S
  <2>1. /\ all \in Seq(S) /\ Len(all) = Len(rows) + Len(added)
        /\ \A i \in 1..Len(rows) + Len(added) :
             all[i] = IF i <= Len(rows) THEN rows[i] ELSE added[i - Len(rows)]
    BY <1>10, ConcatProperties
  <2>2. Len(rows) \in Nat /\ DOMAIN rows = 1..Len(rows) /\ DOMAIN all = 1..Len(all)
    BY <1>10, <2>1
  <2> QED BY <1>7, <2>1, <2>2
<1> HIDE DEF all, S
<1>12. \A i \in DOMAIN all : all[i].ts \in Nat /\ all[i].ts <= Anchor + now
  <2> SUFFICES ASSUME NEW i \in DOMAIN all
               PROVE  all[i].ts \in Nat /\ all[i].ts <= Anchor + now
    OBVIOUS
  <2>1. CASE i <= Len(rows)
    <3>1. i \in DOMAIN rows /\ all[i] = rows[i]
      BY <1>3, <1>11, <2>1
    <3> QED BY <1>9, <3>1
  <2>2. CASE ~ (i <= Len(rows))
    <3>1. i - Len(rows) \in 1..n /\ all[i] = added[i - Len(rows)]
      BY <1>3, <1>11, <2>2
    <3> QED BY <1>5, <3>1
  <2> QED BY <2>1, <2>2
<1>13. IsPast(all, Anchor + now)
  BY <1>11, <1>12 DEF IsPast, IsWindow, IsSeq
<1> QED BY <1>2, <1>13 DEF StoreInv, all

\* The rows of the store stay in the past.
LEMMA StoreStep ==
  ASSUME WindowInv, StoreInv, [Next]_vars
  PROVE  StoreInv'
<1>1. now \in Nat /\ Anchor \in Nat
  BY EventQueriesAssumption DEF WindowInv
<1>2. CASE Receive
  <2>1. now' = now
    BY <1>2 DEF Receive
  <2>2. PICK evs, t : Batch(evs, t) /\ Push(evs)
    BY <1>2, ReceivedBatch
  <2> QED BY <1>1, <2>1, <2>2, PushStored
<1>3. CASE Tick \/ UNCHANGED vars
  <2>1. UNCHANGED <<store, now>>
    BY <1>3 DEF Tick, vars
  <2> QED BY <2>1 DEF StoreInv
<1>4. CASE Advance
  <2>1. UNCHANGED store /\ now' = now + 1
    BY <1>4 DEF Advance
  <2>2. \A i \in DOMAIN store.rows : store.rows[i].ts <= Anchor + now'
    <3>1. \A i \in DOMAIN store.rows : store.rows[i].ts \in Nat /\ store.rows[i].ts <= Anchor + now
      BY DEF StoreInv, IsPast, IsWindow
    <3> QED BY <1>1, <2>1, <3>1
  <2> QED BY <2>1, <2>2 DEF StoreInv, IsPast
<1> QED BY <1>2, <1>3, <1>4 DEF Next

\* The intervals of each app stay a sequence.
LEMMA IntervalsStep ==
  ASSUME IntervalsAreSeqs, [Next]_vars
  PROVE  IntervalsAreSeqs'
<1>1. ASSUME UNCHANGED apps  PROVE IntervalsAreSeqs'
  BY <1>1 DEF IntervalsAreSeqs
<1>2. ASSUME NEW a, NEW ts, OnAppFocus(a, ts)
      PROVE  IntervalsAreSeqs'
  <2> DEFINE closed == FrontClosed(ts)
             since == IF frontmost.app = a THEN frontmost.since ELSE ts
             new == [from |-> since, to |-> None]
             old == IntervalsOf(a, closed)
  <2>1. apps' = Put(closed, a, Append(old, new))
    BY <1>2 DEF OnAppFocus
  <2>2. DOMAIN closed = DOMAIN apps /\ \A y \in DOMAIN apps : IsSeq(closed[y])
    <3>1. CASE frontmost = Nobody
      BY <3>1 DEF FrontClosed, IntervalsAreSeqs
    <3>2. CASE frontmost # Nobody
      <4> DEFINE f == frontmost.app
      <4>1. closed = [apps EXCEPT ![f] = CloseLast(apps[f], ts)]
        BY <3>2 DEF FrontClosed
      <4> HIDE DEF closed
      <4>2. DOMAIN closed = DOMAIN apps
        BY <4>1
      <4>3. ASSUME NEW y \in DOMAIN apps  PROVE IsSeq(closed[y])
        <5>1. CASE y = f
          <6>1. closed[y] = CloseLast(apps[y], ts)
            BY <4>1, <5>1
          <6> QED BY <6>1, ClosedIsSeq DEF IntervalsAreSeqs
        <5>2. CASE y # f
          BY <4>1, <5>2 DEF IntervalsAreSeqs
        <5> QED BY <5>1, <5>2
      <4> QED BY <4>2, <4>3
    <3> QED BY <3>1, <3>2
  <2> HIDE DEF closed, new
  <2>3. IsSeq(old)
    <3>1. IsSeq(<<>>)
      <4>1. <<>> \in Seq({})
        OBVIOUS
      <4> QED BY <4>1 DEF IsSeq
    <3> QED BY <2>2, <3>1 DEF IntervalsOf
  <2> HIDE DEF old
  <2>4. IsSeq(Append(old, new))
    <3>1. PICK S : old \in Seq(S)
      BY <2>3 DEF IsSeq
    <3>2. old \in Seq(S \cup {new}) /\ new \in S \cup {new}
      BY <3>1, SeqMonotonic
    <3>3. Append(old, new) \in Seq(S \cup {new})
      BY <3>2
    <3> QED BY <3>3 DEF IsSeq
  <2> DEFINE r == Append(old, new)
  <2> HIDE DEF r
  <2>5. apps' = Put(closed, a, r) /\ IsSeq(r)
    BY <2>1, <2>4 DEF r
  <2>6. DOMAIN apps' = DOMAIN apps \cup {a} /\ \A y \in DOMAIN apps' : IsSeq(apps'[y])
    BY <2>2, <2>5 DEF Put
  <2> QED BY <2>6 DEF IntervalsAreSeqs
<1>3. CASE Receive
  <2>1. ASSUME NEW ts, ProcessEvent(ts) \/ SocketEvent(ts) \/ FileEvent(ts)
        PROVE  UNCHANGED apps
    BY <2>1 DEF ProcessEvent, SocketEvent, FileEvent, OnProcessBirth, OnProcessDeath,
                OnConnectionOpened, OnConnectionClosed, OnFileChanged
  <2>2. DnsEvent => UNCHANGED apps
    BY DEF DnsEvent, OnDnsQuery, OnObservation
  <2>3. FocusEvent => UNCHANGED apps \/ \E a : OnAppFocus(a, now)
    BY DEF FocusEvent, OnFocusOnNothing, OnObservation
  <2> QED BY <1>1, <1>2, <1>3, <2>1, <2>2, <2>3 DEF Receive
<1>4. CASE Tick
  BY <1>1, <1>4 DEF Tick, TrimBefore, builderVars
<1>5. CASE Advance \/ UNCHANGED vars
  BY <1>1, <1>5 DEF Advance, vars, builderVars
<1> QED BY <1>3, <1>4, <1>5 DEF Next

\* The tick that is not narrated changes nothing that is reported.
LEMMA TickNarrates ==
  ASSUME Tick
  PROVE  /\ UNCHANGED <<window, store, now, evicted>>
         /\ UNCHANGED <<builderVars, reportVars>> \/ Narrates
BY DEF Tick, Narrates

\* No step leaves a baseline that is none, or a report without the top of its
\* flags.
LEMMA ScoreStep ==
  ASSUME CeilingIsNat, WindowInv, GraphInv, StoreInv, ScoreInv, [Next]_vars
  PROVE  ScoreInv'
<1>1. IntervalsAreSeqs'
  BY IntervalsStep DEF ScoreInv
<1>2. ASSUME UNCHANGED reportVars  PROVE ScoreInv'
  BY <1>1, <1>2 DEF ScoreInv, reportVars, TopFlagsShown, IsWeighted
<1>3. CASE Narrates
  <2>1. now \in Nat /\ IsWindow(window)
    BY DEF WindowInv, IsWindow
  <2> QED BY <1>1, <1>3, <2>1, TickFlags DEF ScoreInv
<1>4. UNCHANGED reportVars \/ Narrates
  <2>1. CASE Tick
    BY <2>1, TickNarrates
  <2>2. CASE ~ Tick
    BY <2>2 DEF Next, Receive, Advance, vars
  <2> QED BY <2>1, <2>2
<1> QED BY <1>2, <1>3, <1>4

\* A snapshot is not what stands for none.
LEMMA SnapshotIsSome ==
  ASSUME NEW order
  PROVE  Snapshot(order) # NoGraph
<1>1. "none" \in DOMAIN NoGraph
  BY DEF NoGraph
<1>2. "none" \notin DOMAIN Snapshot(order)
  BY DEF Snapshot
<1> QED BY <1>1, <1>2

\* No step loses what the builder and the window have in common while nothing
\* left the window.
LEMMA PathStep ==
  ASSUME WindowInv, GraphInv, ScoreInv, PathInv, [Next]_vars
  PROVE  PathInv'
<1>1. CASE Receive
  <2>1. UNCHANGED <<graph, before, report>>
    BY <1>1 DEF Receive, reportVars
  <2> SUFFICES ASSUME evicted' = None
               PROVE  /\ graph' = NoGraph => Knows'
                      /\ report' # NoReport /\ before' = NoGraph => PathsAgree(report'.of, graph')
    BY DEF PathInv
  <2>2. evicted = None /\ (Knows => Knows')
    BY <1>1, Learned
  <2> QED BY <2>1, <2>2 DEF PathInv
<1>2. CASE Narrates /\ UNCHANGED <<window, evicted>>
  <2>1. PICK order : graph' = Snapshot(order)
    BY <1>2 DEF Narrates
  <2>2. graph' # NoGraph
    BY <2>1, SnapshotIsSome
  <2>3. before' = graph /\ report'.of = window
    BY <1>2 DEF Narrates
  <2>4. IsWindow(window) /\ BuilderIsFinite /\ IntervalsAreSeqs
    BY DEF WindowInv, IsWindow, GraphInv, ScoreInv
  <2>5. Knows => PathsAgree(window, graph')
    BY <2>1, <2>4, PathsLearned
  <2> QED BY <1>2, <2>2, <2>3, <2>5 DEF PathInv
<1>3. ASSUME UNCHANGED <<builderVars, window, graph, before, report, evicted>>
      PROVE  PathInv'
  BY <1>3 DEF PathInv, Knows, builderVars
<1>4. CASE Tick
  <2>1. CASE UNCHANGED <<builderVars, reportVars>>
    BY <1>3, <1>4, <2>1, TickNarrates DEF reportVars
  <2>2. CASE Narrates
    BY <1>2, <1>4, <2>2, TickNarrates
  <2> QED BY <1>4, <2>1, <2>2, TickNarrates
<1>5. CASE Advance \/ UNCHANGED vars
  BY <1>3, <1>5 DEF Advance, vars, reportVars
<1> QED BY <1>1, <1>4, <1>5 DEF Next

\* All of it holds at first.
LEMMA ReportInit ==
  ASSUME Init
  PROVE  ReportInv
<1>1. WindowInv
  <2>1. window = <<>> /\ now = 0 /\ newest = None /\ evicted = None
    BY DEF Init
  <2>2. <<>> \in Seq({}) /\ DOMAIN <<>> = {}
    OBVIOUS
  <2> QED BY <2>1, <2>2 DEF WindowInv, IsSeq, Ordered, None
<1>2. GraphInv
  <2>1. BuilderIsFinite
    <3>1. /\ DOMAIN processes = {} /\ DOMAIN apps = {} /\ DOMAIN sockets = {}
          /\ DOMAIN files = {} /\ DOMAIN domains = {}
      BY DEF Init, NewBuilder, Empty
    <3> QED BY <3>1, FS_EmptySet DEF BuilderIsFinite
  <2> QED BY <2>1, NoGraphIsGraph DEF Init, GraphInv
<1>3. StoreInv
  <2>1. store \in Stores /\ now = 0
    BY DEF Init
  <2>2. /\ store = [rows |-> store.rows, children |-> store.children, span |-> store.span]
        /\ store.rows \in Seq(ToSet(store.rows))
        /\ \A r \in ToSet(store.rows) : r.ts \in 0..Anchor
        /\ store.children \in Seq(Nat)
    BY <2>1, StoreAssumption
  <2>3. {"rows", "children"} \subseteq DOMAIN store
    BY <2>2
  <2>4. Anchor \in Nat
    BY EventQueriesAssumption
  <2>5. \A i \in DOMAIN store.rows : store.rows[i].ts \in Nat /\ store.rows[i].ts <= Anchor + now
    <3>1. \A i \in DOMAIN store.rows : store.rows[i] \in ToSet(store.rows)
      BY DEF ToSet
    <3> QED BY <2>1, <2>2, <2>4, <3>1
  <2> QED BY <2>2, <2>3, <2>5 DEF StoreInv, IsPast, IsWindow, IsSeq
<1>4. ScoreInv
  <2>1. DOMAIN NoGraph.edges = {}
    BY DEF NoGraph
  <2>2. DOMAIN apps = {}
    BY DEF Init, NewBuilder, Empty
  <2>3. IsWeighted(NoGraph)
    BY <2>1, FS_EmptySet DEF IsWeighted
  <2> QED BY <2>2, <2>3 DEF Init, ScoreInv, IntervalsAreSeqs, TopFlagsShown
<1>5. PathInv
  <2>1. /\ DOMAIN processes = {} /\ DOMAIN apps = {} /\ DOMAIN sockets = {}
        /\ DOMAIN files = {} /\ frontmost = Nobody /\ lastTs = None
    BY DEF Init, NewBuilder, Empty
  <2>2. window = <<>> /\ report = NoReport
    BY DEF Init
  <2>3. \A kinds : OfKinds(window, kinds) = {}
    BY <2>2 DEF OfKinds
  <2>4. Foci(window) = {}
    BY <2>3 DEF Foci
  <2>5. KnowsProcesses(processes, window)
    BY <2>1, <2>3 DEF KnowsProcesses
  <2>6. KnowsSockets(sockets, window)
    BY <2>1 DEF KnowsSockets
  <2>7. KnowsFiles(files, window)
    BY <2>1, <2>3 DEF KnowsFiles
  <2>8. KnowsApps(apps, frontmost, window)
    BY <2>1, <2>4 DEF KnowsApps
  <2> QED BY <2>1, <2>2, <2>5, <2>6, <2>7, <2>8 DEF PathInv, Knows
<1> QED BY <1>1, <1>2, <1>3, <1>4, <1>5 DEF ReportInv

\* What the invariant of the report says makes it faithful.
LEMMA ReportHolds ==
  ASSUME ReportInv
  PROVE  ReportIsFaithful
<1>1. now \in Nat /\ IsWindow(window) /\ IsPast(store.rows, Anchor + now)
  BY DEF ReportInv, WindowInv, IsWindow, StoreInv
<1>2. CountsAgree
  BY <1>1, CountsAlwaysAgree
<1>3. TablesAgree(window) /\ SegmentsTile(window) /\ RulesAreScored(window)
  BY <1>1, TablesAlwaysAgree, SegmentsAlwaysTile, RulesAlwaysScored DEF IsWindow
<1>4. TopFlagsShown
  BY DEF ReportInv, ScoreInv
<1>5. Fresh => report # NoReport /\ report.of = window
  BY DEF Fresh
<1>6. report # NoReport /\ before = NoGraph /\ evicted = None => PathsAgree(report.of, graph)
  BY DEF ReportInv, PathInv
<1> QED BY <1>2, <1>3, <1>4, <1>5, <1>6 DEF ReportIsFaithful

\* What a narrated tick says of its window adds up, whatever the window, the
\* store and the order of the builder's map; of all flags the top is shown.
THEOREM ReportIsAlwaysFaithful ==
  ASSUME CeilingIsNat
  PROVE  Spec => []ReportIsFaithful
<1>1. Init => ReportInv
  BY ReportInit
<1>2. ReportInv /\ [Next]_vars => ReportInv'
  <2> SUFFICES ASSUME ReportInv, [Next]_vars  PROVE ReportInv'
    OBVIOUS
  <2>1. WindowInv' /\ GraphInv' /\ StoreInv'
    BY RecentStep, GraphStep, StoreStep DEF ReportInv
  <2>2. ScoreInv' /\ PathInv'
    BY ScoreStep, PathStep DEF ReportInv
  <2> QED BY <2>1, <2>2 DEF ReportInv
<1>3. ReportInv => ReportIsFaithful
  BY ReportHolds
<1> QED BY <1>1, <1>2, <1>3, PTL DEF Spec
=============================================================================
