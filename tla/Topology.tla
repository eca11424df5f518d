------------------------------ MODULE Topology ------------------------------
(***************************************************************************)
(* aw-graph/src/analytics.rs and aw-agents/src/topology.rs: the shape of a *)
(* graph, and what is said of two successive snapshots.  A graph is what   *)
(* GraphBuilder's Snapshot returns.                                        *)
(***************************************************************************)
EXTENDS Integers, Sequences, FiniteSetsExt, Counting

CONSTANT SpikeMinDelta   \* DEGREE_SPIKE_MIN_DELTA

ASSUME TopologyAssumption == SpikeMinDelta \in Nat \ {0}

Nodes(g) ==
  ({"process"} \X DOMAIN g.processes) \cup ({"app"} \X DOMAIN g.apps)
    \cup ({"socket"} \X DOMAIN g.sockets) \cup ({"file"} \X DOMAIN g.files)
    \cup ({"domain"} \X DOMAIN g.domains)

\* Mutant: an edge is followed in its direction only.
AdjacentForward(g, n) == {e.to : e \in {x \in DOMAIN g.edges : x.from = n}}

\* Undirected: each edge is in the lists of both its ends.
Adjacent(g, n) ==
  {e.to : e \in {x \in DOMAIN g.edges : x.from = n}}
    \cup {e.from : e \in {x \in DOMAIN g.edges : x.to = n}}

\* The length of a node's list, in which an edge that the graph lists more than
\* once is as often.
Degree(g, n) ==
  SumOver([e \in DOMAIN g.edges |-> Len(g.edges[e])],
          {e \in DOMAIN g.edges : n \in {e.from, e.to}})

Grown(g, near) == near \cup UNION {Adjacent(g, m) : m \in near}

\* One search from n, level by level.
Component(g, n) ==
  LET seen[level \in 0..Cardinality(Nodes(g))] ==
        IF level = 0 THEN {n} ELSE Grown(g, seen[level - 1])
  IN seen[Cardinality(Nodes(g))]

ConnectedComponents(g) == {Component(g, n) : n \in Nodes(g)}

Clusters(g) == {c \in ConnectedComponents(g) : Cardinality(c) >= 2}

-----------------------------------------------------------------------------
(* score_snapshot_diff *)

NewComponents(prev, curr) ==
  {[text |-> <<"new_component", c>>, score |-> Cardinality(c)] :
     c \in {x \in Clusters(curr) : x \cap Nodes(prev) = {}}}

\* As the code has it: a cluster of the previous snapshot whose nodes are in
\* more than one component of the current one.
ComponentMerges(prev, curr) ==
  LET components == ConnectedComponents(curr)
      Into(c) == {x \in components : x \cap c # {}}
  IN {[text |-> <<"component_merge", c>>, score |-> Cardinality(Into(c))] :
        c \in {x \in Clusters(prev) : Cardinality(Into(x)) > 1}}

DegreeSpikes(prev, curr) ==
  LET Delta(n) == Degree(curr, n) - Degree(prev, n)
  IN {[text |-> <<"degree_spike", n, Degree(curr, n)>>, score |-> Delta(n)] :
        n \in {x \in Nodes(curr) : Delta(x) >= SpikeMinDelta}}

ScoreSnapshotDiff(prev, curr) ==
  NewComponents(prev, curr) \cup ComponentMerges(prev, curr) \cup DegreeSpikes(prev, curr)
=============================================================================
