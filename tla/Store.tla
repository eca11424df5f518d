------------------------------- MODULE Store -------------------------------
(***************************************************************************)
(* aw-store/src/lib.rs: the nodes and edges tables of world.db.  A node's  *)
(* row is keyed by <<kind, id>>, an edge's by its kind and its two ends.   *)
(* merge_graph and prune_before are one transaction each.                  *)
(*                                                                         *)
(* The columns first_seen and last_seen hold wall-clock time: the builder's *)
(* times are counted from the anchor of its clock, and within attrs stored *)
(* as they are, with the anchor.  Of attrs the model keeps what a query reads and a   *)
(* merge can change.  (The events table is in EventHistory and Daemon.)    *)
(***************************************************************************)
EXTENDS Integers, Sequences, FiniteSetsExt, SequencesExt, Maps

VARIABLES
  nodes,           \* <<kind, id>> -> [attrs, first, last]
  edges            \* [kind, from, to] -> [count, first, last, attrs, anchor]

storeVars == <<nodes, edges>>

NoTime == -1

OpenStore == nodes = <<>> /\ edges = <<>>

-----------------------------------------------------------------------------
(* merge_graph *)

Smaller(s, t) == IF s <= t THEN s ELSE t
Larger(s, t) == IF s >= t THEN s ELSE t

\* ts_to_unix_ns: an anchor of 0 says that the time is wall-clock already.
Unix(ts, anchor) == IF anchor = 0 THEN ts ELSE anchor + ts

Row(attrs, first, last, anchor) ==
  [attrs |-> attrs, first |-> Unix(first, anchor), last |-> Unix(last, anchor)]

EndOr(end, begin) == IF end = NoTime THEN begin ELSE end

\* Rows as they are sent to the database.  A process that lives and a socket
\* that is open were last seen when they began, an app when it last left the
\* front.
ProcessRow(p, anchor) ==
  Row([ppid |-> p.ppid, death |-> p.death], p.birth, EndOr(p.death, p.birth), anchor)

SocketRow(s, anchor) ==
  Row([pid |-> s.pid], s.opened, EndOr(s.closed, s.opened), anchor)

FileRow(f, anchor) ==
  Row([touches |-> f.touches, flags |-> f.flags], f.first, f.last, anchor)

DomainRow(d, anchor) ==
  Row([queries |-> d.queries, masked |-> d.masked], d.first, d.last, anchor)

AppRow(intervals, anchor) ==
  LET first == Min({i.from : i \in ToSet(intervals)})
      ends  == {i.to : i \in ToSet(intervals)} \ {NoTime}
  IN Row([intervals |-> intervals], first, IF ends = {} THEN first ELSE Max(ends),
         anchor)

Keyed(kind, map, RowOf(_)) ==
  [n \in {<<kind, id>> : id \in DOMAIN map} |-> RowOf(map[n[2]])]

Rows(g, anchor) ==
  Both(Keyed("process", g.processes, LAMBDA p : ProcessRow(p, anchor)),
  Both(Keyed("app", g.apps, LAMBDA a : AppRow(a, anchor)),
  Both(Keyed("socket", g.sockets, LAMBDA s : SocketRow(s, anchor)),
  Both(Keyed("file", g.files, LAMBDA f : FileRow(f, anchor)),
       Keyed("domain", g.domains, LAMBDA d : DomainRow(d, anchor))))))

\* Mutant: the newest row replaces the old one whole.
UpsertNodeReplacing(old, row) == row

\* Mutant: the first attributes stay.
UpsertNodeKeepsAttrs(old, row) ==
  [attrs |-> old.attrs,
   first |-> Smaller(row.first, old.first),
   last  |-> Larger(row.last, old.last)]

\* Attributes are replaced, the span only grows.
UpsertNode(old, row) ==
  [attrs |-> row.attrs,
   first |-> Smaller(row.first, old.first),
   last  |-> Larger(row.last, old.last)]

MergedNodes(rows) ==
  [n \in DOMAIN nodes \cup DOMAIN rows |->
     IF n \notin DOMAIN nodes THEN rows[n]
     ELSE IF n \notin DOMAIN rows THEN nodes[n]
     ELSE UpsertNode(nodes[n], rows[n])]

\* An edge is seen when its child, socket or domain was last seen by then, a
\* frontmost_during edge at the end of the overlap.
SeenAt(e, attrs, merged, anchor) ==
  IF e.kind = "frontmost_during"
  THEN Unix(EndOr(attrs.to, attrs.from), anchor)
  ELSE merged[e.to].last

\* One row for all the times the graph lists the edge: each is an upsert.
MergedEdge(e, listed, merged, anchor) ==
  LET seen == {SeenAt(e, listed[i], merged, anchor) : i \in DOMAIN listed}
      first == SeenAt(e, Head(listed), merged, anchor)
      old == IF e \in DOMAIN edges THEN edges[e]
             ELSE [count |-> 0, first |-> first, last |-> first]
  IN [count |-> old.count + Len(listed),
      first |-> old.first,
      last  |-> Max(seen \cup {old.last}),
      attrs |-> Last(listed), anchor |-> anchor]

MergeGraph(g, anchor) ==
  LET merged == MergedNodes(Rows(g, anchor))
  IN /\ nodes' = merged
     /\ edges' = [e \in DOMAIN edges \cup DOMAIN g.edges |->
                    IF e \in DOMAIN g.edges
                    THEN MergedEdge(e, g.edges[e], merged, anchor)
                    ELSE edges[e]]

-----------------------------------------------------------------------------
(* prune_before *)

Ends(e) == {e.from, e.to}

\* Mutant: edges are deleted by age only.
PruneBeforeByAge(cutoff) ==
  /\ nodes' = Restrict(nodes, {n \in DOMAIN nodes : nodes[n].last >= cutoff})
  /\ edges' = Restrict(edges, {e \in DOMAIN edges : edges[e].last >= cutoff})

PruneBefore(cutoff) ==
  /\ nodes' = Restrict(nodes, {n \in DOMAIN nodes : nodes[n].last >= cutoff})
  /\ edges' = Restrict(edges, {e \in DOMAIN edges :
                                 /\ edges[e].last >= cutoff
                                 /\ Ends(e) \subseteq DOMAIN nodes'})
=============================================================================
