--------------------------- MODULE CaptureSummary ---------------------------
(***************************************************************************)
(* What is computed about a window of Layer 2 events: the narrator's facts *)
(* and rule flags (aw-agents/src/timeline_narrator.rs), the scores against *)
(* a baseline (baseline.rs), and the tables of the network and dns         *)
(* reviewers.                                                              *)
(*                                                                         *)
(* A window is a sequence of events [kind, ts, ...].  What is listed is a  *)
(* function from what is counted; the order and length of lists that are   *)
(* only displayed are left out, but for the dns clients, whose list a rule *)
(* runs over after it was cut.  A query tells [qname, hash, client, comm]: *)
(* the name if it is not masked, its hash, the client as mDNSResponder     *)
(* names it and as the process table does, each of them None if missing.   *)
(***************************************************************************)
EXTENDS EventQueries

CONSTANTS
  Comm(_), ParentPid(_),   \* of a process id
  Noisy,           \* NOISY_COMMS
  Endpoint(_),     \* the foreign address of a socket
  Sensitive,       \* endpoints with one of SENSITIVE_PORTS
  Directory(_),    \* directory_bucket of a path
  ShortLife,       \* SHORT_LIVED_MAX_SECS
  BurstMin, HeavyDns, ProlificParent,      \* the fixed thresholds
  TopNDnsClients,  \* TOP_N_DNS_CLIENTS
  MaxEventSuspicions,
  Unit,            \* 1.0
  Ceiling(_),      \* EWMA mean and deviations of a sequence of counts
  Lookback,        \* of the baseline, in hours
  MinBaseline      \* MIN_BASELINE_DAYS, in hours

ASSUME SummaryAssumption ==
  /\ {ShortLife, TopNDnsClients, MaxEventSuspicions, Lookback, MinBaseline} \subseteq Nat
  /\ {BurstMin, HeavyDns, ProlificParent, Unit} \subseteq Nat \ {0}

Missing == -1      \* None, in a row

OfKinds(w, kinds) == {i \in DOMAIN w : w[i].kind \in kinds}

CountBy(I, key(_)) ==
  [x \in {key(i) : i \in I} |-> Cardinality({i \in I : key(i) = x})]

SumBy(I, key(_), value(_)) ==
  LET of == [i \in I |-> value(i)]
  IN [x \in {key(i) : i \in I} |-> SumOver(of, {i \in I : key(i) = x})]

Times(w) == {w[i].ts : i \in DOMAIN w}

-----------------------------------------------------------------------------
(* summarize_capture *)

Duration(w) == Max(Times(w)) - Min(Times(w))

\* Each focus lasts until the next one in time, the last until the end.  That
\* nothing is in front is a segment too.
BuildFocusSegments(w) ==
  LET foci == InOrder([i \in DOMAIN w |-> w[i].ts], OfKinds(w, {"app_focus"}))
  IN [n \in DOMAIN foci |->
        [app |-> w[foci[n]].app, from |-> w[foci[n]].ts,
         to |-> IF n = Len(foci) THEN Max(Times(w)) ELSE w[foci[n + 1]].ts]]

TopProcesses(w) ==
  CountBy({i \in OfKinds(w, {"process_birth"}) : Comm(w[i].process) \notin Noisy},
          LAMBDA i : Comm(w[i].process))

Conversation(w, i) == <<Endpoint(w[i].socket), w[i].name>>

\* Mutant: a connection counts when it is closed and when it is completed.
TopEndpointsTwice(w) ==
  LET Totals(I) == SumBy(I, LAMBDA i : Conversation(w, i), LAMBDA i : w[i].bytes)
      ended == OfKinds(w, {"connection_closed", "connection_completed"})
  IN [completed |-> Totals(ended), open |-> Totals(OfKinds(w, {"connection_opened"}))]

\* Completed conversations, and those that were only opened.
TopEndpoints(w) ==
  LET Totals(I) == SumBy(I, LAMBDA i : Conversation(w, i), LAMBDA i : w[i].bytes)
      completed == Totals(OfKinds(w, {"connection_completed"}))
  IN [completed |-> completed,
      open |-> Totals({i \in OfKinds(w, {"connection_opened"}) :
                         Conversation(w, i) \notin DOMAIN completed})]

TopDirectories(w) ==
  CountBy(OfKinds(w, {"file_changed"}), LAMBDA i : Directory(w[i].path))

\* Per client that a query names: all queries, and the different hashes.
DnsTally(w) ==
  LET queries == OfKinds(w, {"dns_query"})
  IN [c \in {w[i].client : i \in queries} |->
        LET I == {i \in queries : w[i].client = c}
        IN [total |-> Cardinality(I),
            unique |-> Cardinality({w[i].hash : i \in I} \ {Missing})]]

\* Those that asked most stay, of equals the first by name.
TopDnsClients(w) ==
  LET tally == DnsTally(w)
      Ahead(c) == {x \in DOMAIN tally :
                     \/ tally[x].total > tally[c].total
                     \/ (tally[x].total = tally[c].total /\ x < c)}
  IN Restrict(tally, {c \in DOMAIN tally : Cardinality(Ahead(c)) < TopNDnsClients})

KindCounts(w) == CountBy(DOMAIN w, LAMBDA i : w[i].kind)

-----------------------------------------------------------------------------
(* What both kinds of flags are about *)

\* The last birth of each pid.
BornAt(w) ==
  LET births == OfKinds(w, {"process_birth"})
      Of(pid) == {i \in births : w[i].process[1] = pid}
  IN [pid \in {w[i].process[1] : i \in births} |-> w[Max(Of(pid))].ts]

\* A death before the last birth of its pid is saturated to a life of 0.
ShortLived(w) ==
  LET born == BornAt(w)
  IN {i \in OfKinds(w, {"process_death"}) :
        /\ w[i].process[1] \in DOMAIN born
        /\ w[i].ts - born[w[i].process[1]] < ShortLife}

DeathsBy(w, I) == CountBy(I, LAMBDA i : Comm(w[i].process))

SensitiveContacts(w) ==
  {i \in OfKinds(w, {"connection_opened", "connection_completed"}) :
     Endpoint(w[i].socket) \in Sensitive}

\* The first contact of each process and endpoint.
FirstContacts(w) ==
  LET contacts == SensitiveContacts(w)
  IN {i \in contacts : \A j \in contacts :
        Conversation(w, j) = Conversation(w, i) => i <= j}

PortText(w, i) == <<"port", Conversation(w, i)>>

-----------------------------------------------------------------------------
(* event_suspicions: texts, in the order of the three rules *)

RuleBursts(w) ==
  LET n == DeathsBy(w, {i \in ShortLived(w) : Comm(w[i].process) \notin Noisy})
  IN {<<"rule burst", c, n[c]>> : c \in {x \in DOMAIN n : n[x] >= BurstMin}}

RuleDns(w) ==
  LET n == TopDnsClients(w)
  IN {<<"rule dns", c, n[c].unique>> : c \in {x \in DOMAIN n : n[x].unique >= HeavyDns}}

EventSuspicions(w) ==
  LET ports == InOrder(ByNumber(DOMAIN w), FirstContacts(w))
      texts == [n \in DOMAIN ports |-> PortText(w, ports[n])]
                 \o SetToSeq(RuleBursts(w)) \o SetToSeq(RuleDns(w))
  IN ToSet(SubSeq(texts, 1, Min({Len(texts), MaxEventSuspicions})))

-----------------------------------------------------------------------------
(* BaselineEngine, from a store: the rows of the events table, the number  *)
(* of children of each parent, and the span of the nodes.                  *)

\* Nearest rank.
Percentile99(values) ==
  IF values = <<>> THEN 0
  ELSE LET rank == Max({1, (99 * Len(values) + 99) \div 100})
       IN values[InOrder(values, DOMAIN values)[rank]]

\* The counts of an entity's hours, of those that have any, in order.
MetricBaseline(counts) ==
  LET Hours(x) == InOrder(ByNumber(DOMAIN counts[x]), DOMAIN counts[x])
      Counts(x) == [n \in DOMAIN Hours(x) |-> counts[x][Hours(x)[n]]]
      own == [x \in DOMAIN counts |-> Max({Percentile99(Counts(x)), Ceiling(Counts(x))})]
      each == SetToSeq(DOMAIN own)
  IN [own |-> own, default |-> Percentile99([n \in DOMAIN each |-> own[each[n]]])]

EventSpan(metrics) ==
  LET starts == UNION {UNION {DOMAIN m[x] : x \in DOMAIN m} : m \in metrics}
  IN IF starts = {} THEN 0 ELSE Max(starts) - Min(starts) + Hour

\* Longer than the window that is scored, which it includes.
FromStore(store, now) ==
  LET from == now - Lookback * Hour
      Of(kind) == {r \in ToSet(store.rows) : r.kind = kind}
      Counts(kind, Field(_)) ==
        FieldWindowCounts(store.rows, kind, [r \in Of(kind) |-> Field(r)], from, Hour)
      deaths == Counts("process_death", LAMBDA r : Comm(r.process))
      queries == Counts("dns_query", LAMBDA r : r.client)
  IN [cold |-> Max({store.span, EventSpan({deaths, queries})}) < MinBaseline * Hour,
      deaths |-> MetricBaseline(deaths),
      queries |-> MetricBaseline(queries),
      children |-> Percentile99(store.children),
      hours |-> HourlyProfile(store.rows, from)]

Threshold(engine, metric, x, legacy) ==
  IF engine.cold THEN legacy
  ELSE IF x \in DOMAIN metric.own THEN metric.own[x]
  ELSE IF metric.default > 0 THEN metric.default
  ELSE legacy

\* 0 at the busiest hour of the kind, up to 1 where there never was activity.
KindRarity(engine, kind, hour) ==
  IF engine.cold \/ kind \notin DOMAIN engine.hours THEN 0
  ELSE LET profile == engine.hours[kind]
           busiest == Max({profile[h] : h \in DOMAIN profile})
       IN IF busiest = 0 THEN 0 ELSE Unit - (Unit * profile[hour]) \div busiest

Scored(engine, text, n, threshold, kind, I, w) ==
  [text |-> text,
   score |-> (3 * n * Unit) \div Max({threshold, 1})
               + 2 * KindRarity(engine, kind, HourOf(Anchor + w[Max(I)].ts))]

ScoredBursts(w, engine) ==
  LET deaths == ShortLived(w)
      Of(c) == {i \in deaths : Comm(w[i].process) = c}
      Limit(c) == Threshold(engine, engine.deaths, c, BurstMin)
      comms == {Comm(w[i].process) : i \in deaths}
  IN {Scored(engine, <<"burst", c, Cardinality(Of(c)), Limit(c)>>, Cardinality(Of(c)),
             Limit(c), "process_death", Of(c), w) :
        c \in {x \in comms : Cardinality(Of(x)) >= Limit(x)}}

\* Of all clients; a missing hash counts as one more name.
ScoredDns(w, engine) ==
  LET queries == OfKinds(w, {"dns_query"})
      Of(c) == {i \in queries : w[i].client = c}
      Unique(c) == Cardinality({w[i].hash : i \in Of(c)})
      Limit(c) == Threshold(engine, engine.queries, c, HeavyDns)
  IN {Scored(engine, <<"dns", c, Cardinality(Of(c)), Unique(c), Limit(c)>>,
             Cardinality(Of(c)), Limit(c), "dns_query", Of(c), w) :
        c \in {x \in {w[i].client : i \in queries} : Cardinality(Of(x)) >= Limit(x)}}

ScoredParents(w, engine) ==
  LET births == OfKinds(w, {"process_birth"})
      Of(p) == {i \in births : ParentPid(w[i].process) = p}
      limit == IF engine.cold \/ engine.children = 0 THEN ProlificParent
               ELSE engine.children
  IN {Scored(engine, <<"parent", p, Cardinality(Of(p)), limit>>, Cardinality(Of(p)),
             limit, "process_birth", Of(p), w) :
        p \in {x \in {ParentPid(w[i].process) : i \in births} :
                 Cardinality(Of(x)) >= limit}}

ScoredPorts(w, engine) ==
  {[text |-> PortText(w, i),
    score |-> 5 * Unit + 2 * KindRarity(engine, "connection_opened", HourOf(Anchor + w[i].ts))] :
   i \in FirstContacts(w)}

ScoreWindow(w, engine) ==
  ScoredBursts(w, engine) \cup ScoredDns(w, engine)
    \cup ScoredParents(w, engine) \cup ScoredPorts(w, engine)

-----------------------------------------------------------------------------
(* The reviewers' tables *)

NetworkTable(w) ==
  LET completed == OfKinds(w, {"connection_completed"})
      Of(c) == {i \in completed : Conversation(w, i) = c}
  IN [c \in {Conversation(w, i) : i \in completed} |->
        [connections |-> Cardinality(Of(c)),
         bytes |-> SumOver([i \in completed |-> w[i].bytes], Of(c))]]

\* domain_id: a masked name is known by its hash, and without one not at all.
HasDomainId(q) == q.qname # Missing \/ q.hash # Missing
DomainId(q) == IF q.qname # Missing THEN <<"name", q.qname>> ELSE <<"hash", q.hash>>

\* client_name: the process table's name comes first.
ClientName(q) == IF q.comm # Missing THEN q.comm ELSE q.client

Identified(w) == {i \in OfKinds(w, {"dns_query"}) : HasDomainId(w[i])}

DnsTable(w) ==
  CountBy(Identified(w), LAMBDA i : <<DomainId(w[i]), ClientName(w[i])>>)
=============================================================================
