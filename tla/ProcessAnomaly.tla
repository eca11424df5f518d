--------------------------- MODULE ProcessAnomaly ---------------------------
(***************************************************************************)
(* aw-agents/src/process_anomaly.rs: the processes that are worth a look,  *)
(* by three criteria, from the store and from a graph, and the flags of a  *)
(* window.  A candidate is a pid: processes that share one are one entry,  *)
(* with the reasons of all.  What is asked of a model is left out.         *)
(***************************************************************************)
EXTENDS StoreQueries

CONSTANTS
  Prolific,        \* DEFAULT_PROLIFIC_PARENT_THRESHOLD
  Sudo             \* programs whose name is sudo or doas

ASSUME AnomalyAssumption == Prolific \in Nat \ {0}

Pids(K) == {k[1] : k \in K}

\* run_from_store
StoreCandidates ==
  [escalated |-> Pids(RootUnderUserParent(0)),
   untrusted |-> Pids(OutsidePaths(0)),
   prolific  |-> Pids(ParentsWithManyChildren(Prolific, 0))]

\* candidates_from_graph.  The parent is any process with the parent's pid (the
\* last one listed), and the children of all of these count together.
GraphCandidates(g, parent) ==
  LET K == DOMAIN g.processes
      Children(pid) == {e \in DOMAIN g.edges : e.kind = "parent_of" /\ e.from[2][1] = pid}
  IN [escalated |-> Pids({k \in K : /\ IsRoot(k)
                                    /\ g.processes[k].ppid \in DOMAIN parent
                                    /\ ~IsRoot(parent[g.processes[k].ppid])}),
      untrusted |-> Pids({k \in K : Program(k) \notin TrustedProgram}),
      prolific  |-> {pid \in Pids(K) : Cardinality(Children(pid)) >= Prolific}]

\* What by_pid may hold.
ByPids(g) ==
  LET K == DOMAIN g.processes
  IN {f \in [Pids(K) -> K] : \A pid \in Pids(K) : f[pid][1] = pid}

\* suspicion_flags_from_store, before each kind is capped.
FlagsOf(since) ==
  [escalated |-> {k \in RootUnderUserParent(since) : Program(k) \notin Sudo},
   untrusted |-> {Program(k) : k \in OutsidePaths(since)},
   prolific  |-> ParentsWithManyChildren(Prolific, since)]
=============================================================================
