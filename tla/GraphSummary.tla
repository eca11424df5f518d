---------------------------- MODULE GraphSummary ----------------------------
(***************************************************************************)
(* summarize_graph (aw-agents/src/timeline_narrator.rs): the narrator's    *)
(* facts from a graph in place of a window of events.  The byte counts of  *)
(* sockets are left out, as in GraphBuilder.                               *)
(***************************************************************************)
EXTENDS CaptureSummary, Topology

\* Without the missing ends, and what has no time.
Bounded(times) == times \ {-1, 0}

\* The times whose ends are the span.  Domains do not count.
SpanOf(g) ==
  Bounded((UNION {{p.birth, p.death} : p \in {g.processes[k] : k \in DOMAIN g.processes}})
    \cup (UNION {UNION {{i.from, i.to} : i \in ToSet(g.apps[a])} : a \in DOMAIN g.apps})
    \cup (UNION {{g.sockets[s].opened, g.sockets[s].closed} : s \in DOMAIN g.sockets})
    \cup (UNION {{g.files[f].first, g.files[f].last} : f \in DOMAIN g.files}))

FocusSegmentsFromApps(g) ==
  UNION {{[app |-> a, from |-> i.from, to |-> IF i.to = -1 THEN i.from ELSE i.to] :
            i \in ToSet(g.apps[a])} : a \in DOMAIN g.apps}

TopProcessesFromGraph(g) ==
  CountBy({k \in DOMAIN g.processes : Comm(k) \notin Noisy}, Comm)

TopEndpointsFromGraph(g) ==
  {<<Endpoint(s), g.sockets[s].pid>> : s \in DOMAIN g.sockets}

TopDirectoriesFromGraph(g) ==
  SumBy(DOMAIN g.files, Directory, LAMBDA f : g.files[f].touches)

GraphAnalytics(g) ==
  LET components == ConnectedComponents(g)
  IN [degree |-> [n \in Nodes(g) |-> Degree(g, n)],
      components |-> Cardinality(components),
      largest |-> Max({0} \cup {Cardinality(c) : c \in components})]
=============================================================================
