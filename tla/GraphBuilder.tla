---------------------------- MODULE GraphBuilder ----------------------------
(***************************************************************************)
(* aw-graph/src/lib.rs: the streaming builder of the world graph, with one *)
(* action per event handler, trimming, and the snapshot the daemon merges  *)
(* into the store.                                                         *)
(*                                                                         *)
(* A process is its id, <<pid, start_unix_secs>>.  Of its record the       *)
(* parent's pid and the two times are kept, of a socket the pid and the    *)
(* times; names, states and byte counts are copied and never tested.       *)
(* Times are Timestamp::mono_ns of one clock.                              *)
(***************************************************************************)
EXTENDS Integers, Sequences, SequencesExt, Maps

CONSTANTS ProcessId, App, Socket, File, Domain, Flag

VARIABLES
  processes,       \* HashMap id -> [ppid, birth, death]
  apps,            \* HashMap id -> the intervals it was frontmost
  sockets,         \* HashMap id -> [pid, opened, closed]
  files,           \* HashMap path -> [first, last, touches, flags]
  domains,         \* HashMap name -> [first, last, queries, masked]
  domainQueries,   \* HashMap (pid, name) -> [count, first]
  frontmost,       \* current_frontmost: [app, since], or Nobody
  lastTs           \* time of the latest observation or event, or None

builderVars == <<processes, apps, sockets, files, domains, domainQueries,
                 frontmost, lastTs>>

None == -1
Nobody == [app |-> None, since |-> None]
Empty == <<>>      \* a map without keys

PidOf(k) == k[1]
Earlier(s, t) == IF s <= t THEN s ELSE t
Later(s, t) == IF s >= t THEN s ELSE t

NewBuilder ==
  /\ processes = Empty /\ apps = Empty /\ sockets = Empty
  /\ files = Empty /\ domains = Empty /\ domainQueries = Empty
  /\ frontmost = Nobody
  /\ lastTs = None

\* A process that is killed takes its builder with it.
ResetBuilder ==
  /\ processes' = Empty /\ apps' = Empty /\ sockets' = Empty
  /\ files' = Empty /\ domains' = Empty /\ domainQueries' = Empty
  /\ frontmost' = Nobody
  /\ lastTs' = None

-----------------------------------------------------------------------------
(* Observations and events.  Every event sets last_ts, one that lacks the   *)
(* fields its handler needs and connection_completed do nothing else.       *)

OnObservation(ts) ==
  /\ lastTs' = ts
  /\ UNCHANGED <<processes, apps, sockets, files, domains, domainQueries, frontmost>>

OnProcessBirth(k, ppid, ts) ==
  /\ processes' = Put(processes, k, [ppid |-> ppid, birth |-> ts, death |-> None])
  /\ lastTs' = ts
  /\ UNCHANGED <<apps, sockets, files, domains, domainQueries, frontmost>>

\* A death without a birth makes a node that was born as it died.
OnProcessDeath(k, ppid, ts) ==
  /\ \/ /\ k \in DOMAIN processes
        /\ processes' = [processes EXCEPT ![k].death = ts]
     \/ /\ k \notin DOMAIN processes
        /\ processes' = Put(processes, k, [ppid |-> ppid, birth |-> ts, death |-> ts])
  /\ lastTs' = ts
  /\ UNCHANGED <<apps, sockets, files, domains, domainQueries, frontmost>>

CloseLast(intervals, ts) ==
  IF intervals # <<>> /\ Last(intervals).to = None
  THEN [intervals EXCEPT ![Len(intervals)].to = ts]
  ELSE intervals

FrontClosed(ts) ==
  IF frontmost = Nobody THEN apps
  ELSE [apps EXCEPT ![frontmost.app] = CloseLast(@, ts)]

IntervalsOf(a, known) == IF a \in DOMAIN known THEN known[a] ELSE <<>>

\* A focus event that names no app, as when nothing is in front, leaves the
\* interval of the app before it open.
OnFocusOnNothing(ts) == OnObservation(ts)

\* Mutant: the interval of the app that was in front stays open.
OnAppFocusLeavesOpen(a, ts) ==
  /\ apps' = Put(apps, a, Append(IntervalsOf(a, apps), [from |-> ts, to |-> None]))
  /\ frontmost' = [app |-> a, since |-> ts]
  /\ lastTs' = ts
  /\ UNCHANGED <<processes, sockets, files, domains, domainQueries>>

\* A focus on the app that is in front already closes its interval and opens
\* another one, from where the closed one began.
OnAppFocus(a, ts) ==
  LET closed == FrontClosed(ts)
      since  == IF frontmost.app = a THEN frontmost.since ELSE ts
  IN /\ apps' = Put(closed, a, Append(IntervalsOf(a, closed), [from |-> since, to |-> None]))
     /\ frontmost' = [app |-> a, since |-> since]
     /\ lastTs' = ts
     /\ UNCHANGED <<processes, sockets, files, domains, domainQueries>>

OnConnectionOpened(s, pid, ts) ==
  /\ sockets' = Put(sockets, s, [pid |-> pid, opened |-> ts, closed |-> None])
  /\ lastTs' = ts
  /\ UNCHANGED <<processes, apps, files, domains, domainQueries, frontmost>>

OnConnectionClosed(s, pid, ts) ==
  /\ \/ /\ s \in DOMAIN sockets
        /\ sockets' = [sockets EXCEPT ![s].closed = ts]
     \/ /\ s \notin DOMAIN sockets
        /\ sockets' = Put(sockets, s, [pid |-> pid, opened |-> ts, closed |-> ts])
  /\ lastTs' = ts
  /\ UNCHANGED <<processes, apps, files, domains, domainQueries, frontmost>>

\* Mutant: a change replaces what was known of the file.
OnFileChangedResets(f, flags, count, ts) ==
  /\ files' = Put(files, f, [first |-> ts, last |-> ts, touches |-> count, flags |-> flags])
  /\ lastTs' = ts
  /\ UNCHANGED <<processes, apps, sockets, domains, domainQueries, frontmost>>

OnFileChanged(f, flags, count, ts) ==
  LET known == IF f \in DOMAIN files THEN files[f]
               ELSE [first |-> ts, last |-> ts, touches |-> 0, flags |-> {}]
  IN /\ files' = Put(files, f, [known EXCEPT !.last = ts, !.touches = @ + count,
                                            !.flags = @ \cup flags])
     /\ lastTs' = ts
     /\ UNCHANGED <<processes, apps, sockets, domains, domainQueries, frontmost>>

Tallied(d, pid, ts) ==
  LET known == IF <<pid, d>> \in DOMAIN domainQueries THEN domainQueries[<<pid, d>>]
               ELSE [count |-> 0, first |-> ts]
  IN Put(domainQueries, <<pid, d>>, [known EXCEPT !.count = @ + 1])

\* Any unmasked query of a name clears its mask.
OnDnsQuery(d, masked, pid, ts) ==
  LET known == IF d \in DOMAIN domains THEN domains[d]
               ELSE [first |-> ts, last |-> ts, queries |-> 0, masked |-> masked]
  IN /\ domains' = Put(domains, d, [known EXCEPT !.last = ts, !.queries = @ + 1,
                                                !.masked = @ /\ masked])
     /\ domainQueries' = IF pid = None THEN domainQueries ELSE Tallied(d, pid, ts)
     /\ lastTs' = ts
     /\ UNCHANGED <<processes, apps, sockets, files, frontmost>>

-----------------------------------------------------------------------------
(* trim_before *)

Kept(map, stays(_)) == Restrict(map, {x \in DOMAIN map : stays(map[x])})

\* Mutant: the tallies of trimmed domains stay.
TrimBeforeKeepsTallies(cutoff) ==
  /\ processes' = Kept(processes, LAMBDA p : p.death = None \/ p.death >= cutoff)
  /\ sockets' = Kept(sockets, LAMBDA s : s.closed = None \/ s.closed >= cutoff)
  /\ files' = Kept(files, LAMBDA f : f.last >= cutoff)
  /\ domains' = Kept(domains, LAMBDA d : d.last >= cutoff)
  /\ UNCHANGED <<apps, frontmost, lastTs, domainQueries>>

\* Living processes, open sockets and apps stay.
TrimBefore(cutoff) ==
  /\ processes' = Kept(processes, LAMBDA p : p.death = None \/ p.death >= cutoff)
  /\ sockets' = Kept(sockets, LAMBDA s : s.closed = None \/ s.closed >= cutoff)
  /\ files' = Kept(files, LAMBDA f : f.last >= cutoff)
  /\ domains' = Kept(domains, LAMBDA d : d.last >= cutoff)
  /\ domainQueries' = Restrict(domainQueries,
       {q \in DOMAIN domainQueries : q[2] \in DOMAIN domains'})
  /\ UNCHANGED <<apps, frontmost, lastTs>>

-----------------------------------------------------------------------------
(* snapshot: a build on a copy.  The nodes come out of a HashMap in some    *)
(* order; by_pid keeps the last node of each pid, and max_by_key the last   *)
(* of those born last, so the order decides between incarnations of a pid.  *)

Orders == Injection(DOMAIN processes, 1..Cardinality(DOMAIN processes))

\* Of some processes, the one that comes last.
LastIn(order, S) == {k \in S : \A j \in S : order[j] <= order[k]}

WithPid(pid) == {k \in DOMAIN processes : PidOf(k) = pid}

\* The youngest of the processes with this pid that lived at ts.
Candidates(pid, ts) ==
  {k \in WithPid(pid) :
     /\ processes[k].birth <= ts
     /\ processes[k].death = None \/ processes[k].death >= ts}

Youngest(S) ==
  {k \in S : \A j \in S : processes[j].birth <= processes[k].birth}

Edge(kind, fromKind, from, toKind, to) ==
  [kind |-> kind, from |-> <<fromKind, from>>, to |-> <<toKind, to>>]

\* Edges with what each carries: a frontmost_during edge appears once for
\* each interval of its app that overlaps its process's life.
Plain == << <<>> >>

ParentEdges(order) ==
  LET Parent(c) == LastIn(order, WithPid(processes[c].ppid))
  IN [e \in UNION {{Edge("parent_of", "process", p, "process", c) : p \in Parent(c) \ {c}} :
                     c \in DOMAIN processes} |-> Plain]

\* The mono_ns of None is the largest number.
EarlierEnd(s, t) == IF s = None THEN t ELSE IF t = None THEN s ELSE Earlier(s, t)

Overlap(interval, p) ==
  [from |-> Later(interval.from, p.birth), to |-> EarlierEnd(interval.to, p.death)]

Overlaps(intervals, p) ==
  LET upTo[i \in 0..Len(intervals)] ==
        IF i = 0 THEN <<>>
        ELSE LET o == Overlap(intervals[i], p)
             IN IF o.to = None \/ o.from < o.to
                THEN Append(upTo[i - 1], o)
                ELSE upTo[i - 1]
  IN upTo[Len(intervals)]

FrontmostEdges(shown) ==
  LET Of(e) == Overlaps(shown[e.from[2]], processes[e.to[2]])
      all == {Edge("frontmost_during", "app", a, "process", k) :
                a \in DOMAIN shown, k \in DOMAIN processes}
  IN [e \in {x \in all : Of(x) # <<>>} |-> Of(e)]

Owner(order, pid, ts) == LastIn(order, Youngest(Candidates(pid, ts)))

SocketEdges(order) ==
  LET Owners(s) == Owner(order, sockets[s].pid, sockets[s].opened)
  IN [e \in UNION {{Edge("opened_socket", "process", k, "socket", s) : k \in Owners(s)} :
                     s \in DOMAIN sockets} |-> Plain]

DomainEdges(order) ==
  LET Owners(q) == Owner(order, q[1], domainQueries[q].first)
      known == {q \in DOMAIN domainQueries : q[2] \in DOMAIN domains}
  IN [e \in UNION {{Edge("queried_domain", "process", k, "domain", q[2]) : k \in Owners(q)} :
                     q \in known} |->
        << domainQueries[<<PidOf(e.from[2]), e.to[2]>>].count >>]

\* The interval in front ends at last_ts, on the copy.
Snapshot(order) ==
  LET shown == FrontClosed(lastTs)
  IN [processes |-> processes, apps |-> shown, sockets |-> sockets,
      files |-> files, domains |-> domains,
      edges |-> Both(Both(ParentEdges(order), FrontmostEdges(shown)),
                     Both(SocketEdges(order), DomainEdges(order)))]
=============================================================================
