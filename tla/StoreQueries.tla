---------------------------- MODULE StoreQueries ----------------------------
(***************************************************************************)
(* The reading half of aw-store/src/lib.rs: the graph loaded back, whole   *)
(* or in a window, and the queries of the agents and of aw-query.  A query *)
(* returns its rows as a set: order and limits are left out.  Windows are  *)
(* in wall-clock time and include both ends.                               *)
(***************************************************************************)
EXTENDS Store

CONSTANTS
  Program(_),      \* the comm and exec_path of a process id
  IsRoot(_),       \* its uid is 0
  TrustedProgram,  \* programs whose path has an allowed prefix
  Remote(_),       \* the foreign address of a socket id
  NoveltyBaseline  \* NOVELTY_MIN_BASELINE_NS

ASSUME QueriesAssumption == NoveltyBaseline \in Nat

Ids(kind, N) == {n[2] : n \in {x \in N : x[1] = kind}}
OfKind(kind) == {e \in DOMAIN edges : e.kind = kind}

-----------------------------------------------------------------------------
(* Rows back to nodes.  What was a column is wall-clock time, what was an   *)
(* attribute comes back as it was stored.                                   *)

LoadedProcess(k) ==
  LET r == nodes[<<"process", k>>]
  IN [ppid |-> r.attrs.ppid, birth |-> r.first, death |-> r.attrs.death]

LoadedSocket(s) ==
  LET r == nodes[<<"socket", s>>]
  IN [pid |-> r.attrs.pid, opened |-> r.first,
      closed |-> IF r.last > r.first THEN r.last ELSE NoTime]

LoadedFile(f) ==
  LET r == nodes[<<"file", f>>]
  IN [first |-> r.first, last |-> r.last,
      touches |-> r.attrs.touches, flags |-> r.attrs.flags]

LoadedDomain(d) ==
  LET r == nodes[<<"domain", d>>]
  IN [first |-> r.first, last |-> r.last,
      queries |-> r.attrs.queries, masked |-> r.attrs.masked]

Loaded(N, E) ==
  [processes |-> [k \in Ids("process", N) |-> LoadedProcess(k)],
   apps      |-> [a \in Ids("app", N) |-> nodes[<<"app", a>>].attrs.intervals],
   sockets   |-> [s \in Ids("socket", N) |-> LoadedSocket(s)],
   files     |-> [f \in Ids("file", N) |-> LoadedFile(f)],
   domains   |-> [d \in Ids("domain", N) |-> LoadedDomain(d)],
   edges     |-> [e \in E |-> <<edges[e].attrs>>]]

LoadGraph == Loaded(DOMAIN nodes, DOMAIN edges)

InWindow(from, to) ==
  {n \in DOMAIN nodes : nodes[n].first <= to /\ nodes[n].last >= from}

\* Mutant: only one end of an edge is looked up.
GraphInWindowOneEnd(from, to) ==
  LET N == InWindow(from, to)
  IN Loaded(N, {e \in DOMAIN edges : e.from \in N})

GraphInWindow(from, to) ==
  LET N == InWindow(from, to)
  IN Loaded(N, {e \in DOMAIN edges : Ends(e) \subseteq N})

-----------------------------------------------------------------------------
(* Processes *)

ProcessesSeenSince(since) ==
  LET g == LoadGraph
  IN {k \in DOMAIN g.processes :
        EndOr(g.processes[k].death, g.processes[k].birth) >= since}

SeenProcesses(since) ==
  {k \in Ids("process", DOMAIN nodes) : nodes[<<"process", k>>].last >= since}

\* The join with the two nodes of an edge.
Joined(kind) == {e \in OfKind(kind) : Ends(e) \subseteq DOMAIN nodes}

RootUnderUserParent(since) ==
  {e.to[2] : e \in {x \in Joined("parent_of") :
                      /\ x.to[2] \in SeenProcesses(since)
                      /\ IsRoot(x.to[2])
                      /\ ~IsRoot(x.from[2])}}

OutsidePaths(since) ==
  {k \in SeenProcesses(since) : Program(k) \notin TrustedProgram}

\* The recursive query has a row for every walk upward from k of at most
\* maxDepth edges (UNION ALL keeps them all), and shows its last process.
Ancestors(k, maxDepth) ==
  LET walks[d \in 0..maxDepth] ==
        IF d = 0 THEN {<< <<"process", k>> >>}
        ELSE {Append(x[1], x[2].from) :
                x \in {y \in walks[d - 1] \X OfKind("parent_of") :
                         y[2].to = Last(y[1])}}
  IN {w \in UNION {walks[d] : d \in 1..maxDepth} : Last(w) \in DOMAIN nodes}

ParentsWithManyChildren(atLeast, since) ==
  {p \in Ids("process", DOMAIN nodes) :
     atLeast <= Cardinality({e \in Joined("parent_of") :
                  e.from[2] = p /\ e.to[2] \in SeenProcesses(since)})}

-----------------------------------------------------------------------------
(* Sockets, domains and edges *)

TopEndpoints ==
  LET Sockets(a) == {s \in Ids("socket", DOMAIN nodes) : Remote(s) = a}
      Pids(a) == {nodes[<<"socket", s>>].attrs.pid : s \in Sockets(a)} \ {NoTime}
  IN {[address |-> a, processes |-> Cardinality(Pids(a)),
       connections |-> Cardinality(Sockets(a))] :
      a \in {Remote(s) : s \in Ids("socket", DOMAIN nodes)}}

TopDomains ==
  {[name |-> d, queries |-> nodes[<<"domain", d>>].attrs.queries,
    processes |-> Cardinality({e.from : e \in {x \in OfKind("queried_domain") :
                                                 x.to[2] = d}})] :
   d \in Ids("domain", DOMAIN nodes)}

EdgeRates(kind) ==
  {[from |-> e.from[2], to |-> e.to[2], count |-> edges[e].count,
    first |-> edges[e].first, last |-> edges[e].last] : e \in OfKind(kind)}

\* An overlap without an end is clipped to the window's.
Segment(e, from, to) ==
  LET o == edges[e].attrs
      begin == Unix(o.from, edges[e].anchor)
      end == IF o.to = NoTime THEN to ELSE Unix(o.to, edges[e].anchor)
  IN [app |-> e.from[2], pid |-> e.to[2][1], begin |-> begin, end |-> end,
      from |-> Larger(begin, from), to |-> Smaller(end, to)]

FocusSegments(from, to) ==
  {s \in {Segment(e, from, to) : e \in OfKind("frontmost_during")} :
     s.end >= from /\ s.begin <= to}

-----------------------------------------------------------------------------
(* novel_since: what was first seen at or after a time.  Processes count by *)
(* their program, sockets by their remote address.                         *)

FirstSeen(N) == Min({nodes[n].first : n \in N})

Identity(n) ==
  IF n[1] = "process" THEN <<"process", Program(n[2])>>
  ELSE IF n[1] = "socket" THEN <<"socket", Remote(n[2])>>
  ELSE n

Sightings(i) == {n \in DOMAIN nodes : Identity(n) = i}

Known == {Identity(n) : n \in DOMAIN nodes}

NovelSince(since) ==
  {i \in Known :
     /\ i[1] # "file"
     /\ i[1] = "domain" => ~nodes[i].attrs.masked
     /\ FirstSeen(Sightings(i)) >= since}

\* Whether the history goes back NoveltyBaseline before the window.
BaselineIsCold(since) ==
  nodes = <<>> \/ FirstSeen(DOMAIN nodes) > since - NoveltyBaseline

\* NoveltySummary::from_report: what a narration is told to be new.
Novelty(since) == IF BaselineIsCold(since) THEN {} ELSE NovelSince(since)

Summary ==
  [nodes |-> [k \in {n[1] : n \in DOMAIN nodes} |->
                Cardinality({n \in DOMAIN nodes : n[1] = k})],
   edges |-> [k \in {e.kind : e \in DOMAIN edges} |-> Cardinality(OfKind(k))],
   span  |-> IF nodes = <<>> THEN {}
             ELSE {FirstSeen(DOMAIN nodes), Max({nodes[n].last : n \in DOMAIN nodes})}]
=============================================================================
