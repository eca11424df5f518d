----------------------------- MODULE WorldGraph -----------------------------
(***************************************************************************)
(* From Layer 2's events to the queries: the daemon feeds its builder      *)
(* (GraphBuilder), merges a snapshot into the store at each tick and trims *)
(* the builder, prunes the store, is killed and restarted                  *)
(* (aw-mvp/src/main.rs, run_daemon).  Transactions that fail are Daemon's. *)
(*                                                                         *)
(* A behaviour is about one mix of event kinds: the handlers of the others *)
(* touch no variable of these.  Stages that diff snapshots date an event   *)
(* by the burst before the observation that closes it, the coalescer by    *)
(* the last change of its window, window and dns stages by the observation.*)
(***************************************************************************)
EXTENDS GraphBuilder, ProcessAnomaly, Counting

CONSTANTS
  Mixes,           \* sets of event kinds
  Pid,
  Asker,           \* pids of dns queries, None for one without
  Ppid(_),         \* the parent's pid of a process id
  Ttl,             \* --store-ttl
  Retention,       \* --retention-days, aw-query prune
  MaxTime, MaxEvents, MaxTicks, MaxUpsets    \* bounds

\* `front` before the first focus event of a run; it is None when nothing is in
\* front.
Unknown == -2

ASSUME WorldAssumption ==
  /\ ProcessId \subseteq Pid \X Nat
  /\ Pid \subseteq Nat
  /\ Asker \subseteq Pid \cup {None}
  /\ {None, Unknown} \cap App = {}
  /\ {Ttl, Retention, MaxTime, MaxEvents, MaxTicks, MaxUpsets} \subseteq Nat

VARIABLES
  now,             \* wall-clock time
  anchor,          \* where the daemon's clock began
  newest,          \* time of the event received last, or None
  mix,             \* the kinds of events of this behaviour
  received, ticks,
  upsets,          \* prunes and restarts
  told,            \* history: what was said last of each process
  front,           \* history: the app in front, by the last focus event
  inFront,         \* history: what was in front at which quantum
  forgotten,       \* history: nodes that were trimmed, or lost by a restart
  horizon,         \* history: the latest cutoff of the store
  merged           \* history: nothing was received since the last merge

boundVars == <<mix, received, ticks, upsets>>
historyVars == <<told, front, inFront, forgotten, horizon>>
vars == <<builderVars, storeVars, now, anchor, newest, boundVars, historyVars, merged>>

Clock == now - anchor
Untold == [state |-> "unknown", at |-> None]

Init ==
  /\ NewBuilder
  /\ OpenStore
  /\ now = 1 /\ anchor = 1
  /\ newest = None
  /\ mix \in Mixes
  /\ received = 0 /\ ticks = 0 /\ upsets = 0
  /\ told = [k \in ProcessId |-> Untold]
  /\ front = Unknown
  /\ inFront = {}
  /\ forgotten = {}
  /\ horizon = 0
  /\ merged = FALSE

-----------------------------------------------------------------------------
(* Events of the Layer 2 stages, in an order they can be emitted in.       *)

Tell(k, state, ts) == told' = [told EXCEPT ![k] = [state |-> state, at |-> ts]]

\* A process of the first burst is alive without having been born.
Birth(k, ts) ==
  /\ told[k].state # "alive"
  /\ OnProcessBirth(k, Ppid(k), ts)
  /\ Tell(k, "alive", ts)

Death(k, ts) ==
  /\ told[k].state # "dead"
  /\ OnProcessDeath(k, Ppid(k), ts)
  /\ Tell(k, "dead", ts)

ProcessEvent(ts) ==
  /\ "process" \in mix
  /\ \E k \in ProcessId : Birth(k, ts) \/ Death(k, ts)
  /\ UNCHANGED front

SocketEvent(ts) ==
  /\ "socket" \in mix
  /\ \E s \in Socket, pid \in Pid :
       OnConnectionOpened(s, pid, ts) \/ OnConnectionClosed(s, pid, ts)
  /\ UNCHANGED <<told, front>>

FileEvent(ts) ==
  /\ "file" \in mix
  /\ \E f \in File, flags \in SUBSET Flag, count \in 0..1 :
       /\ f \in DOMAIN files => files[f].last <= ts
       /\ OnFileChanged(f, flags, count, ts)
  /\ UNCHANGED <<told, front>>

FocusEvent ==
  /\ "focus" \in mix
  /\ \/ \E a \in App : OnAppFocus(a, Clock) /\ front' = a
     \/ OnFocusOnNothing(Clock) /\ front' = None
  /\ UNCHANGED told

DnsEvent ==
  /\ "dns" \in mix
  /\ \E d \in Domain, masked \in BOOLEAN, pid \in Asker :
       OnDnsQuery(d, masked, pid, Clock)
  /\ UNCHANGED <<told, front>>

\* An observation, and an event that came with it.
Receive ==
  /\ received < MaxEvents
  /\ received' = received + 1
  /\ \/ \E ts \in {Clock - 1} \cap Nat : ProcessEvent(ts) \/ SocketEvent(ts)
     \/ \E ts \in 0..Clock : FileEvent(ts)
     \/ FocusEvent
     \/ DnsEvent
  /\ newest' = lastTs'
  /\ merged' = FALSE
  /\ UNCHANGED <<storeVars, now, anchor, mix, ticks, upsets, inFront, forgotten, horizon>>

\* An observation that brings no event.  Only the end of an interval in front
\* depends on it.
Observe ==
  /\ frontmost # Nobody /\ lastTs # Clock
  /\ OnObservation(Clock)
  /\ merged' = FALSE
  /\ UNCHANGED <<storeVars, now, anchor, newest, boundVars, historyVars>>

-----------------------------------------------------------------------------
(* The daemon *)

\* The tick arm: merge, then forget what is older than the ttl.
Tick ==
  /\ ticks < MaxTicks
  /\ ticks' = ticks + 1
  /\ \E order \in Orders : MergeGraph(Snapshot(order), anchor)
  /\ \/ /\ newest # None
        /\ TrimBefore(Later(newest - Ttl, 0))
        /\ forgotten' = forgotten \cup
             ({<<"file", f>> : f \in DOMAIN files \ DOMAIN files'}
               \cup {<<"domain", d>> : d \in DOMAIN domains \ DOMAIN domains'})
     \/ /\ newest = None
        /\ UNCHANGED <<builderVars, forgotten>>
  /\ merged' = TRUE
  /\ UNCHANGED <<now, anchor, newest, mix, received, upsets, told, front, inFront,
                 horizon>>

\* By the daemon itself or by hand.
Prune ==
  /\ upsets < MaxUpsets
  /\ upsets' = upsets + 1
  /\ now > Retention
  /\ PruneBefore(now - Retention)
  /\ horizon' = Later(horizon, now - Retention)
  /\ merged' = FALSE
  /\ UNCHANGED <<builderVars, now, anchor, newest, mix, received, ticks, told,
                 front, inFront, forgotten>>

Restart ==
  /\ upsets < MaxUpsets
  /\ upsets' = upsets + 1
  /\ ResetBuilder
  /\ anchor' = now
  /\ newest' = None
  /\ told' = [k \in ProcessId |-> Untold]
  /\ front' = Unknown
  /\ forgotten' = forgotten \cup {<<"file", f>> : f \in File}
                    \cup {<<"domain", d>> : d \in Domain}
  /\ merged' = FALSE
  /\ UNCHANGED <<storeVars, now, mix, received, ticks, inFront, horizon>>

Advance ==
  /\ now < MaxTime
  /\ now' = now + 1
  /\ inFront' = IF front = Unknown THEN inFront
                ELSE inFront \cup {<<front, now>>}
  /\ merged' = FALSE
  /\ UNCHANGED <<builderVars, storeVars, anchor, newest, boundVars, told,
                 front, forgotten, horizon>>

Next == Receive \/ Observe \/ Tick \/ Prune \/ Restart \/ Advance

Spec == Init /\ [][Next]_vars
-----------------------------------------------------------------------------
(* Properties *)

TypeOK ==
  /\ DOMAIN processes \subseteq ProcessId
  /\ DOMAIN apps \subseteq App
  /\ \A a \in DOMAIN apps : apps[a] # <<>>
  /\ frontmost # Nobody => frontmost.app \in DOMAIN apps
  /\ \A q \in DOMAIN domainQueries : q[2] \in DOMAIN domains
  /\ \A n \in DOMAIN nodes : n[1] # "app" => nodes[n].first <= nodes[n].last
  /\ \A e \in DOMAIN edges : edges[e].first <= edges[e].last /\ edges[e].count > 0
  /\ told \in [ProcessId -> [state : {"unknown", "alive", "dead"}, at : Int]]

\* "load_graph never materializes an edge with a missing endpoint": across
\* merges of trimmed builders, pruning by age and restarts.
NoDanglingEdge == \A e \in DOMAIN edges : Ends(e) \subseteq DOMAIN nodes

\* A focus segment never covers a time at which another app was in front, nor
\* one of which no focus event told, whatever the order of events, snapshots,
\* trims and restarts.
SegmentsAreTrue ==
  \A s \in FocusSegments(0, now) :
    \A t \in s.from..(s.to - 1) : <<s.app, t>> \in inFront \/ <<None, t>> \in inFront

\* "Becomes None when the frontmost transitions to nothing": nor does it cover
\* a time at which nothing was in front.
SegmentsEndWithFocus ==
  \A s \in FocusSegments(0, now) :
    \A t \in s.from..(s.to - 1) : <<s.app, t>> \in inFront

\* A merge tells the store all that was said of each process in this run, also
\* of those the builder has forgotten since.
StoreIsCurrent ==
  merged => \A k \in ProcessId :
    LET n == <<"process", k>>
    IN /\ told[k].state = "alive" =>
            n \in DOMAIN nodes /\ nodes[n].attrs.death = None
       /\ told[k].state = "dead" /\ told[k].at + anchor >= horizon =>
            n \in DOMAIN nodes /\ nodes[n].attrs.death = told[k].at

\* What was seen once "can never re-qualify as new": a known program, endpoint,
\* domain or app becomes new again only after it was pruned.
NoveltyNeverReturns ==
  [][\A i \in Known \cap Known', since \in 1..MaxTime :
       i \in NovelSince(since)' /\ i \notin NovelSince(since) =>
         \/ Sightings(i) \ DOMAIN nodes' # {}
         \/ i[1] = "domain" /\ nodes[i].attrs.masked]_vars

\* The number of touches or queries of a stored file or domain goes down only
\* if the builder had forgotten it.
OnlyForgettingShrinksTallies ==
  [][\A n \in DOMAIN nodes \cap DOMAIN nodes' :
       /\ n[1] = "file" /\ nodes'[n].attrs.touches < nodes[n].attrs.touches
            => n \in forgotten
       /\ n[1] = "domain" /\ nodes'[n].attrs.queries < nodes[n].attrs.queries
            => n \in forgotten]_vars

\* "Kept in sync": the criteria on the store's tables and on the graph that is
\* loaded from them give the same, but that the graph finds a parent the tables
\* have no edge to, and adds up the children of processes with the same pid.
TablesMatchGraph ==
  LET loaded == LoadGraph
      store == StoreCandidates
      reused == Cardinality(Pids(DOMAIN loaded.processes))
                  < Cardinality(DOMAIN loaded.processes)
  IN \A parent \in ByPids(loaded) :
       LET g == GraphCandidates(loaded, parent)
       IN /\ store.untrusted = g.untrusted
          /\ store.prolific \subseteq g.prolific
          /\ ~reused => store.prolific = g.prolific
          /\ ~reused => store.escalated \subseteq g.escalated

\* The flags of a longer window are more, and are candidates.
FlagsOnlyGrow ==
  LET flags == [since \in 0..now |-> FlagsOf(since)]
  IN /\ \A since \in 1..now, c \in {"escalated", "untrusted", "prolific"} :
          flags[since][c] \subseteq flags[since - 1][c]
     /\ Pids(flags[0].escalated) \subseteq StoreCandidates.escalated

\* What is called new is in no earlier window, and there is an earlier window
\* to tell it from.
NoveltyIsNew ==
  \A since \in 1..now :
    Novelty(since) # {} =>
      /\ InWindow(0, since - NoveltyBaseline) # {}
      /\ \A i \in Novelty(since) : Sightings(i) \cap InWindow(0, since - 1) = {}

\* The window of all time is the graph, and no window has an edge to a process
\* that is not in it.
WindowsAgree ==
  /\ GraphInWindow(0, now) = LoadGraph
  /\ \A from, to \in 0..now :
       LET g == GraphInWindow(from, to)
       IN \A e \in DOMAIN g.edges :
            e.to[1] = "process" => e.to[2] \in DOMAIN g.processes

\* Who has children, and whose parent is another user's, upward and downward.
ParentsAgree ==
  /\ ParentsWithManyChildren(1, 0) =
       {Last(w)[2] : w \in UNION {Ancestors(k, 1) : k \in DOMAIN LoadGraph.processes}}
  /\ RootUnderUserParent(0) =
       {k \in SeenProcesses(0) : \E w \in Ancestors(k, 1) :
          IsRoot(k) /\ ~IsRoot(Last(w)[2])}

\* A domain is asked for by as many processes as it has edges.
DomainsAgree ==
  \A d \in TopDomains :
    d.processes = Cardinality({r \in EdgeRates("queried_domain") : r.to = d.name})

\* The connections of all endpoints are the sockets of the summary.
EndpointsAddUp ==
  Total([r \in TopEndpoints |-> r.connections]) =
    IF "socket" \in DOMAIN Summary.nodes THEN Summary.nodes["socket"] ELSE 0

\* Different ways to ask for the same thing agree.
QueriesAgree ==
  /\ TablesMatchGraph
  /\ FlagsOnlyGrow
  /\ NoveltyIsNew
  /\ WindowsAgree
  /\ ParentsAgree
  /\ DomainsAgree
  /\ EndpointsAddUp
=============================================================================
