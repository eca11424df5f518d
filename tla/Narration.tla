----------------------------- MODULE Narration -----------------------------
(***************************************************************************)
(* The daemon's window and what a narrated tick says about it              *)
(* (aw-mvp/src/main.rs, run_daemon): events go into the builder and into a *)
(* window that forgets from its front; a tick takes the builder's snapshot, *)
(* trims the builder, summarises the window, and folds rule flags, scores  *)
(* and the difference to the last narrated snapshot into one short list.   *)
(*                                                                         *)
(* The flags from the store (suspicion_flags_from_store) are any set of    *)
(* texts.  The baseline is built from what a store held at first and the   *)
(* events since, which a tick appends before it is read.  Transactions that *)
(* fail are Daemon's, observations that bring no event are left out.            *)
(***************************************************************************)
EXTENDS GraphBuilder, GraphSummary, Counting

CONSTANTS
  Mixes,           \* sets of event kinds: a behaviour is about one of them
  Pid,             \* of processes that connect
  Query,           \* what the log and the process table tell of a dns query
  Bytes,           \* an event of a connection tells
  WindowNs,        \* --window
  Ttl,             \* --store-ttl
  MaxSuspicions,   \* MAX_SUSPICIONS
  Stores,          \* what the store may hold at first
  StoreFlag,       \* texts of flags from the store
  MaxTime, MaxEvents, MaxTicks             \* bounds

ASSUME NarrationAssumption ==
  /\ ProcessId \subseteq Nat \X Nat
  /\ Bytes \subseteq Nat
  /\ {WindowNs, Ttl, MaxSuspicions, MaxTime, MaxEvents, MaxTicks} \subseteq Nat
  /\ None \notin App
  /\ \A q \in Query :
       /\ q = [pid |-> q.pid, qname |-> q.qname, hash |-> q.hash,
               client |-> q.client, comm |-> q.comm]
       /\ q.pid # None /\ {q.qname, q.hash} \subseteq Domain \cup {None}
       /\ q.client \in Nat /\ q.comm \in Nat \cup {None}
  /\ None \notin Domain

\* A store that is there at first was written in the past; its flags are not
\* worded as those of the topology are.
ASSUME StoreAssumption ==
  /\ \A s \in Stores :
       /\ s = [rows |-> s.rows, children |-> s.children, span |-> s.span]
       /\ s.rows \in Seq(ToSet(s.rows)) /\ \A r \in ToSet(s.rows) : r.ts \in 0..Anchor
       /\ s.children \in Seq(Nat)
  /\ IsFiniteSet(StoreFlag)
  /\ \A t \in StoreFlag : t[1] \notin {"new_component", "component_merge", "degree_spike"}

VARIABLES
  window,          \* VecDeque of events
  now,
  store,           \* [rows, children, span]
  engine,          \* the baseline, or NoEngine
  graph,           \* the snapshot of the latest narrated tick, or NoGraph
  before,          \* the one it was compared with, or NoGraph
  report,          \* of the latest narrated tick, or NoReport
  mix, received, ticks,
  newest,          \* history: the latest time of an event that is no file change
  evicted          \* history: of an event that left the window

boundVars == <<mix, received, ticks>>
reportVars == <<engine, graph, before, report>>
vars == <<builderVars, window, store, now, reportVars, boundVars, newest, evicted>>

NoGraph == [processes |-> <<>>, apps |-> <<>>, sockets |-> <<>>, files |-> <<>>,
            domains |-> <<>>, edges |-> <<>>, none |-> TRUE]
NoEngine == [cold |-> TRUE, none |-> TRUE]
NoReport == [of |-> <<>>, flags |-> {}, offered |-> {}]

Init ==
  /\ NewBuilder
  /\ window = <<>>
  /\ now = 0
  /\ store \in Stores
  /\ engine = NoEngine
  /\ graph = NoGraph /\ before = NoGraph
  /\ report = NoReport
  /\ mix \in Mixes
  /\ received = 0 /\ ticks = 0
  /\ newest = None /\ evicted = None

-----------------------------------------------------------------------------
\* Mutant: one event leaves at most.
EvictOne(w) ==
  IF Head(w).ts < Last(w).ts - WindowNs THEN Tail(w) ELSE w

\* What is older than the newest event leaves, as far as it is in front.
Evict(w) ==
  LET young == {i \in DOMAIN w : w[i].ts >= Last(w).ts - WindowNs}
  IN SubSeq(w, Min(young), Len(w))

\* The events that come with one observation have one time.
Push(evs) ==
  LET all == window \o evs
      gone == SubSeq(all, 1, Len(all) - Len(Evict(all)))
  IN /\ window' = Evict(all)
     /\ store' = [store EXCEPT !.rows = AppendEvents(@, evs)]
     /\ evicted' = Max({evicted} \cup Times(gone))
     /\ newest' = IF Head(evs).kind = "file_changed" THEN newest
                  ELSE Later(newest, Head(evs).ts)

ProcessEvent(ts) ==
  /\ "process" \in mix
  /\ \E k \in ProcessId :
       \/ /\ k \in DOMAIN processes => processes[k].death # None
          /\ OnProcessBirth(k, ParentPid(k), ts)
          /\ Push(<<[kind |-> "process_birth", ts |-> ts, process |-> k]>>)
       \/ /\ k \in DOMAIN processes => processes[k].death = None
          /\ OnProcessDeath(k, ParentPid(k), ts)
          /\ Push(<<[kind |-> "process_death", ts |-> ts, process |-> k]>>)

\* A connection that is closed is completed with the same observation, which
\* the builder ignores.
SocketEvent(ts) ==
  /\ "socket" \in mix
  /\ \E s \in Socket, pid \in Pid, bytes \in Bytes :
       LET About(kind) == [kind |-> kind, ts |-> ts, socket |-> s, name |-> pid,
                           bytes |-> bytes]
       IN \/ /\ OnConnectionOpened(s, pid, ts)
             /\ Push(<<About("connection_opened")>>)
          \/ /\ OnConnectionClosed(s, pid, ts)
             /\ Push(<<About("connection_closed"), About("connection_completed")>>)

FileEvent(ts) ==
  /\ "file" \in mix
  /\ \E f \in File, count \in 1..2 :
       /\ f \in DOMAIN files => files[f].last <= ts
       /\ OnFileChanged(f, {}, count, ts)
       /\ Push(<<[kind |-> "file_changed", ts |-> ts, path |-> f]>>)

FocusEvent ==
  /\ "focus" \in mix
  /\ \/ \E a \in App :
          /\ OnAppFocus(a, now)
          /\ Push(<<[kind |-> "app_focus", ts |-> now, app |-> a]>>)
     \/ /\ OnFocusOnNothing(now)
        /\ Push(<<[kind |-> "app_focus", ts |-> now, app |-> None]>>)

\* The builder passes over a query without a domain id.
DnsEvent ==
  /\ "dns" \in mix
  /\ \E q \in Query :
       /\ IF HasDomainId(q) THEN OnDnsQuery(DomainId(q), q.qname = None, q.pid, now)
          ELSE OnObservation(now)
       /\ Push(<<[kind |-> "dns_query", ts |-> now, qname |-> q.qname, hash |-> q.hash,
                  client |-> q.client, comm |-> q.comm]>>)

Receive ==
  /\ received < MaxEvents
  /\ received' = received + 1
  /\ \/ \E ts \in {now - 1} \cap Nat : ProcessEvent(ts) \/ SocketEvent(ts)
     \/ \E ts \in 0..now : FileEvent(ts)
     \/ FocusEvent
     \/ DnsEvent
  /\ UNCHANGED <<now, reportVars, mix, ticks>>

-----------------------------------------------------------------------------
(* merge_scored_suspicions: a text that is offered twice is listed once, with *)
(* the newer score; of equal scores any may be cut.                        *)

AtNominal(texts) == {[text |-> t, score |-> Unit] : t \in texts}

Fold(scored, others) ==
  scored \cup {o \in others : \A s \in scored : s.text # o.text}

Shown(lines) ==
  {T \in SUBSET lines :
     /\ Cardinality(T) = Min({MaxSuspicions, Cardinality(lines)})
     /\ \A t \in T, l \in lines \ T : l.score <= t.score}

\* The engine is rebuilt when it is an hour old; a failure keeps the old one.
Rebuilt ==
  IF engine # NoEngine /\ now < engine.at + Hour THEN {engine}
  ELSE {engine, Both(FromStore(store, Anchor + now), [at |-> now])}

InUnits(lines) == {[l EXCEPT !.score = @ * Unit] : l \in lines}

\* apply_scored_suspicions and apply_topology_suspicions, each if it can.
Flags(rules, scores, shifts) ==
  {IF engine' = NoEngine /\ graph = NoGraph THEN AtNominal(rules) ELSE T :
     T \in UNION {Shown(Fold(shifts, kept)) : kept \in Shown(Fold(scores, AtNominal(rules)))}}

\* The tick arm up to the narration, which has the summary of the window.
Tick ==
  /\ ticks < MaxTicks
  /\ ticks' = ticks + 1
  /\ \/ /\ window = <<>>
        /\ UNCHANGED <<builderVars, reportVars>>
     \/ /\ window # <<>>
        /\ before' = graph
        /\ graph' \in {Snapshot(order) : order \in Orders}
        /\ engine' \in Rebuilt
        /\ \E stored \in SUBSET StoreFlag :
             LET rules  == EventSuspicions(window) \cup stored
                 scores == IF engine' = NoEngine THEN {} ELSE ScoreWindow(window, engine')
                 shifts == IF graph = NoGraph THEN {}
                           ELSE InUnits(ScoreSnapshotDiff(graph, graph'))
             IN \E flags \in Flags(rules, scores, shifts) :
                  report' = [of |-> window, flags |-> flags,
                             offered |-> Fold(shifts, Fold(scores, AtNominal(rules)))]
        /\ TrimBefore(Later(Last(window).ts - Ttl, 0))
  /\ UNCHANGED <<window, store, now, mix, received, newest, evicted>>

Advance ==
  /\ now < MaxTime
  /\ now' = now + 1
  /\ UNCHANGED <<builderVars, window, store, reportVars, boundVars, newest, evicted>>

Next == Receive \/ Tick \/ Advance

Spec == Init /\ [][Next]_vars
-----------------------------------------------------------------------------
(* Properties *)

\* Of the events of stages that compare bursts.
Lag == IF {"process", "socket"} \cap mix = {} THEN 0 ELSE 1

\* Evicting from the front, with events out of order, takes nothing of the last
\* WindowNs, and leaves nothing older than that and the lag but file changes,
\* whose lag has no bound.
WindowIsRecent ==
  /\ evicted # None /\ "file" \notin mix => evicted < newest - WindowNs
  /\ \A i \in DOMAIN window : window[i].kind # "file_changed" =>
       window[i].ts >= newest - WindowNs - Lag

\* The process table gives no client another name, and a name has one hash.
NamedAlike(w) ==
  /\ \A i \in OfKinds(w, {"dns_query"}) : ClientName(w[i]) = w[i].client
  /\ \A i, j \in Identified(w) :
       DomainId(w[i]) = DomainId(w[j]) /\ None \notin {w[i].hash, w[j].hash}
         => w[i].hash = w[j].hash

\* The narrator and the reviewers count the same traffic: of dns queries all
\* that have a domain id.  Where they are named alike, a client's queries are
\* those of its rows and what has no id, and it has at most as many names as
\* rows, which tell a masked name from the same in clear.
TablesAgree(w) ==
  LET bytes == TopEndpoints(w).completed
      conversations == NetworkTable(w)
      clients == TopDnsClients(w)
      queries == DnsTable(w)
      Names(c) == {q \in DOMAIN queries : q[2] = c}
      Lost(c) == {i \in OfKinds(w, {"dns_query"}) \ Identified(w) : w[i].client = c}
  IN /\ DOMAIN bytes = DOMAIN conversations
     /\ \A c \in DOMAIN bytes : bytes[c] = conversations[c].bytes
     /\ Total(queries) = Cardinality(Identified(w))
     /\ NamedAlike(w) =>
          \A c \in DOMAIN clients :
            /\ clients[c].total = SumOver(queries, Names(c)) + Cardinality(Lost(c))
            /\ clients[c].unique <= Cardinality(Names(c))
     /\ Total(KindCounts(w)) = Len(w)

\* Each row of the table is in one hour of the profile and, by whatever the
\* windows are, in one window.
CountsAgree ==
  \A kind \in {r.kind : r \in ToSet(store.rows)} :
    LET end == Anchor + now
        rows == EventsInWindow(store.rows, 0, end, {kind}, Len(store.rows))
        kinds == [r \in ToSet(store.rows) |-> r.kind]
        Of(width) == FieldWindowCounts(store.rows, kind, kinds, 0, width)[kind]
    IN /\ Total(HourlyProfile(store.rows, 0)[kind]) = Len(rows)
       /\ \A width \in {Hour, Hour * DayHours} : Total(Of(width)) = Len(rows)
       /\ \A from \in 0..end :
            Len(EventsInWindow(store.rows, from, end, {kind}, Len(rows)))
              = Cardinality(RowsSince(store.rows, kind, from))

\* Focus segments follow each other without gap or overlap to the end.
SegmentsTile(w) ==
  LET s == BuildFocusSegments(w)
  IN /\ \A n \in DOMAIN s : s[n].from <= s[n].to
     /\ \A n \in 1..(Len(s) - 1) : s[n].to = s[n + 1].from
     /\ s # <<>> => s[Len(s)].to - s[1].from <= Duration(w)

\* With a cold baseline "the legacy constants apply": what the rules flag is
\* scored, and of bursts also what only the rules leave out as noise.  A client
\* that is cut from the rules' list is scored too.
RulesAreScored(w) ==
  LET cold == [FromStore(store, 0) EXCEPT !.cold = TRUE]
      ports == {p.text : p \in ScoredPorts(w, cold)}
  IN /\ {b[2] : b \in RuleBursts(w)} =
          {b.text[2] : b \in ScoredBursts(w, cold)} \ Noisy
     /\ {d[2] : d \in RuleDns(w)} \subseteq {d.text[2] : d \in ScoredDns(w, cold)}
     /\ {PortText(w, i) : i \in FirstContacts(w)} = ports
     /\ MaxEventSuspicions > 0 /\ ports # {} => EventSuspicions(w) \cap ports # {}

Born(w, k) == {i \in OfKinds(w, {"process_birth"}) : w[i].process = k}

\* A summary of the graph that was built from a window says the same of it,
\* but for processes that were not born in it, an app that comes to the front
\* while it is there, a time when nothing is in front, and the end of the last
\* segment: the graph's is when the snapshot was taken.
PathsAgree(w, g) ==
  LET foci == OfKinds(w, {"app_focus"})
      Adjoin(i, j) == i < j /\ \A m \in foci : m <= i \/ m >= j
      last == w[Max(foci)]
      segments == ToSet(BuildFocusSegments(w))
      counts == TopDirectories(w)
      touches == TopDirectoriesFromGraph(g)
      shape == GraphAnalytics(g)
  IN /\ (\A k \in DOMAIN g.processes : Cardinality(Born(w, k)) = 1) =>
          TopProcesses(w) = TopProcessesFromGraph(g)
     /\ /\ \A i \in foci : w[i].app # None
        /\ \A i, j \in foci : Adjoin(i, j) => w[i].app # w[j].app
        => \A s \in segments :
            s \in FocusSegmentsFromApps(g) \/ (s.from = last.ts /\ s.app = last.app)
     /\ DOMAIN touches = DOMAIN counts
     /\ \A d \in DOMAIN counts : counts[d] <= touches[d]
     /\ TopEndpointsFromGraph(g) \subseteq
          {Conversation(w, i) : i \in {j \in DOMAIN w : "socket" \in DOMAIN w[j]}}
     /\ SpanOf(g) \subseteq Times(w)
     /\ \A n \in Nodes(g) : Cardinality(Adjacent(g, n)) < shape.largest

\* Cutting the list after each of the two folds cuts what one fold would.
TopFlagsShown ==
  engine # NoEngine \/ before # NoGraph => report.flags \in Shown(report.offered)

\* The report is about the window as it is.
Fresh == report # NoReport /\ report.of = window

\* The parts of what a narrated tick says of its window agree with each other,
\* and of all that was flagged the top of the list is shown.
ReportIsFaithful ==
  /\ ticks = 0 => CountsAgree
  /\ Fresh =>
       /\ TablesAgree(report.of)
       /\ SegmentsTile(report.of)
       /\ RulesAreScored(report.of)
       /\ TopFlagsShown
       /\ before = NoGraph /\ evicted = None => PathsAgree(report.of, graph)

\* The later graph has all the edges of the earlier, and in none of its
\* components are two clusters of the earlier.
GrowsApart(prev, curr) ==
  /\ DOMAIN prev.edges \subseteq DOMAIN curr.edges
  /\ \A x \in ConnectedComponents(curr), c, d \in Clusters(prev) :
       x \cap c # {} /\ x \cap d # {} => c = d

\* Each cluster that only grew is in one cluster and is not reported to merge,
\* whatever else grew; the components are a partition of the nodes that no edge
\* crosses.
GrowthIsNotAMerge ==
  LET components == ConnectedComponents(graph)
  IN Fresh =>
     /\ UNION components = Nodes(graph)
     /\ \A e \in DOMAIN graph.edges, c \in components : e.from \in c <=> e.to \in c
     /\ \A c, d \in components : c = d \/ c \cap d = {}
     /\ before # NoGraph /\ GrowsApart(before, graph) =>
          /\ ComponentMerges(before, graph) = {}
          /\ \A c \in Clusters(before) : \E x \in Clusters(graph) : c \subseteq x

\* "A component merge: two previously-disjoint prior components are now both
\* fully contained in one current component."
MergesAreFlagged ==
  before # NoGraph =>
    \A c, d \in Clusters(before) :
      c # d /\ (\E x \in ConnectedComponents(graph) : c \cup d \subseteq x) =>
        ComponentMerges(before, graph) # {}
=============================================================================
