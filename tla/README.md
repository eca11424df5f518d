# Verification of agentworld

agentworld watches a macOS machine: adapters sample or stream operating-system
facts (Layer 1, *observations*), a reconstructor turns them into semantic events
(Layer 2), a builder and a SQLite store keep the resulting graph and history
(Layer 3), and agents narrate it.  This directory holds TLA+ models of the
program, the TLC runs that check them on small instances and the proofs that
carry the results to every instance.  Paths below are relative to `src/`.

## 1. Inventory

| Component | State it keeps | Operations | Interacts with |
|---|---|---|---|
| `aw-core` `Bus` | bounded mpsc channel (16384), per-source `sent`/`dropped` atomics | `emit`, `stats`, `dropped_total` | every adapter emits; the drain receives; the scheduler reads drops |
| `aw-mvp/pipeline.rs` | drain queue (4096), reconstructor queue (1024), `DrainStats` | `spawn_drain`, `spawn_reconstructor` tasks, abort | bus → Layer 2 → daemon loop |
| `aw-scheduler` | per source: `cur_interval`, ticker, `in_flight`, dirty/clean counters | `register`, `poll_loop`, `shutdown` | spawns adapters' polls, reads bus drops |
| `aw-events` lifecycle stages | process, network: `current`, `prior`, `primed`, `last_obs_ts`; fsevents: window buffer | `on_observation`, `on_tick_complete`/`flush_all` | routed to by `Reconstructor` |
| `aw-events` `ProcessTable` | entries by key, latest key by pid, sequence number | `insert`, `mark_dead`, `by_pid`, `ancestors`, eviction | fed by births/deaths, read by enrichment |
| Layer 1 adapters | window: last frontmost app; network: native reader disabled, a poll under way; others none | `poll_snapshot`, `poll_diff`, `run_stream` | operating system → bus |
| `aw-graph` `GraphBuilder` | nodes by kind, frontmost app, `last_ts` | one handler per event, `snapshot`, `trim_before`, `build` | fed by the daemon loop |
| `aw-store` | SQLite tables nodes, edges, events, meta | `merge_graph`, `append_events`, `prune_before`, `set_meta`, queries | daemon writes, `aw-query` reads |
| `aw-mvp` daemon loop | window, pending events, narration handle, baseline, last prune | select of shutdown / tick / receive | owns builder and store |
| `aw-agents` | none between calls; the daemon keeps their baseline and the last narrated snapshot | summaries, rule flags, scores, anomaly criteria, topology diff | window, graph and store |
| `aw-query`, `aw-llm`, CLIs | none between calls | queries, prose | store and graph |

What is hard here:

* **Interleaving.** Adapters, poll loops, polls, the two stages and the daemon
  loop are tasks of a multi-threaded runtime that share channels and atomics.
* **Loss by design.** Layer 1 drops rather than blocks, and Layer 2 is a set
  difference: an observation that is missing looks like a process that is gone.
* **Ticks by inference.** Nothing marks the end of a snapshot.  A stage finds it
  by a gap of more than 250 ms between timestamps, so slow polls, pauses and the
  scheduler's interval decide what a tick is.
* **Two clocks in one stream.** Events of a closed tick are dated in the past of
  the observations they arrive with.
* **Partial failure.** Merge, append, trim, heartbeat and retention are separate
  steps of a tick that may be skipped, fail or be cut short by a crash.

The full list of hazards, with the lines where they bite, is `hazards` in
`PROJECT.json`.

What makes each component correct:

* *Bus and pipeline*: every drop is counted, order is kept, the drain never waits.
* *Poll loop*: one poll at a time, sampling never stops, the interval follows load
  in both directions and stays within its band.
* *Lifecycle stages*: events alternate per entity and replay to the stage's state;
  what is reported is true unless an observation was lost, and becomes true again.
* *Process table*: a lookup by pid finds the latest owner, memory stays bounded.
* *Network stage and adapter*: a close is of a connection that went away, a
  completed event has the whole span, whichever way sockets are read.
* *Coalescer and window stage*: each change is reported once and in its window;
  what is said to be in front was in front.
* *Graph builder*: intervals and lifetimes are well-formed, trimming forgets only
  the dead.
* *Store*: re-merging is idempotent up to counts, nodes never lose history, pruning
  leaves no dangling edge.
* *Agents*: their tables and flags are about the same window and agree with each
  other; what is called new, born, merged or split was.
* *Daemon*: what was consumed reaches the store once, or its loss is reported; the
  heartbeat tells whether it is alive.

## 2. Modules

| Module | Models | Kind |
|---|---|---|
| `LossyFifo` | what the pipeline promises: one FIFO channel that may lose | abstract specification |
| `ObservationPipeline` | `Bus`, drain, reconstructor task, consumer's end, shutdown | component |
| `MCObservationPipeline` | instance: three adapters on two sources | TLC |
| `PollLoop` | `poll_loop` of one source | component |
| `ProcessLifecycle` | the Layer 2 process stage, alone under every sequence of calls | component |
| `ProcessTelemetry` | machine + `PollLoop` + snapshot adapter + `ProcessLifecycle` | composition |
| `MCProcessTelemetry` | instance: two pids, one reused | TLC |
| `EventHistory` | what the daemon promises of the store's event history | abstract specification |
| `Daemon` | `run_daemon` in several processes, one-shot captures beside it, their store and `daemon_status` of `aw-query` | component |
| `NetworkLifecycle` | the Layer 2 network stage under every sequence of calls | component |
| `NetworkAdapter` | `aw-network`'s polls, from the kernel's tables or by netstat, over a machine's sockets | composition |
| `FsEventsCoalesce` | the coalescer of file events | component |
| `WindowFocus` | the window adapter's diff and the stage behind it | component |
| `ProcessTable` | the index of processes and the enrichment of events by pid | component |
| `Reconstruction`, `MCReconstruction` | the `Reconstructor`, with the four above and what feeds them | composition |
| `Maps` | maps that are written, joined and restricted | operators |
| `GraphBuilder` | the handlers of the builder, `trim_before`, `snapshot` | component |
| `Store` | `merge_graph` and `prune_before` on the nodes and edges tables | component |
| `StoreQueries` | `load_graph` and the queries over nodes and edges | operators on the store |
| `ProcessAnomaly` | the criteria of the process-anomaly agent, from store and graph | operators on the store |
| `WorldGraph`, `MCWorldGraph` | events, builder, ticks, retention, restarts, queries | composition |
| `EventQueries` | the events table and its counts | algorithm |
| `CaptureSummary` | the narrator's facts and rule flags, baselines and scores, the reviewers' tables | algorithm |
| `Topology` | degrees, components, the diff of two snapshots | algorithm |
| `GraphSummary` | `summarize_graph` | algorithm |
| `Narration`, `MCNarration` | the daemon's window, its builder and what a narrated tick says | composition |
| `Counting` | sums over finite sets, numbers in order | operators |
| `*_proofs` | theorems about the module named, `ProcessTelemetry_proofs` also about `PollLoop` and `ProcessLifecycle` | TLAPS |

### ObservationPipeline

A step ends where the code touches shared state.  `EmitTrySend`/`EmitCount` are
the two halves of `Bus::emit` (the observation is in the channel before it is
counted); `DrainRecv`, `DrainTrySend`, `DrainCount` and `ReconRecv`,
`ReconSend`, `ReconBreak` are the two stage loops; `drainHand` and `reconHand` are
their local variables.  Shutdown is part of the model: the consumer leaves
(`ConsumerGone`), the stages are aborted where they await (`AbortDrain`,
`AbortReconstructor`), the adapters end (`AdaptersGone`), in any order, and the
receivers that go away take their channels' contents with them (`discarded`).
`offered`, `accepted`, `consumed` and `discarded` are history variables.

### PollLoop

Time is relative: `timer` is what is left to the ticker's next deadline and goes
negative, down to `-MaxLate`, while the loop's task waits for the runtime.
`StartPoll` is an iteration that spawns a poll and then adapts; `SkipTick` is the
`continue`.  `MissedTickBehavior::Skip` is `NextDeadline`: the next point of the
ticker's grid that lies ahead.  A changed interval creates a new ticker whose
immediate first tick is consumed, so the next one is a whole interval away.
`fresh` and `streak` are history variables and know nothing of `last_dropped` or the
counters: whether the bus has dropped since the latest poll began, and how many polls
in a row began after new drops, or after none, since the interval last changed.
`AdaptsOnEvidence` compares the code's adaptation with them.

### ProcessLifecycle

`Accumulate` and `BeginTick` are the two paths of `on_observation`, `FinalizeTick`
is `finalize_tick`, `OnTickComplete` the public flush.  A record is its key and
`last_seen`.  `ledger` is a history variable: what a consumer that believes every
event holds of each process.  `LifecycleSpec` lets calls come in any order the
adapter's monotonic clock allows.

### ProcessTelemetry

Processes start, exit and reuse pids (`Spawn`, `Exit`) while the adapter lists
pids and then queries them one at a time (`ListPids`, `QueryPid`): a listed pid may
be gone or belong to another process when it is queried, and `pidinfo` may fail on a
process that lives (`Unread`), which skips the pid just so.  An emitted observation
is delivered or lost; a loss at the bus is seen by the poll loop, one at the drain
queue is not; drops of the other sources, which the loop's counter includes, are
`OthersDrop`.  The stage is called when the observation is emitted: it looks only
at the timestamp given at emission, and `PipelineIsLossyFifo` shows that the
pipeline between them is a FIFO with losses, so delay changes nothing.

### Daemon

Every process that may be started with `--daemon` has a record: where it is in
`run_daemon` (`pc`) and its locals.  The store is `nodes`, `history`, `daemonPid`
and `beatAge`; it outlives the processes, as the lock file does.  A step ends
where a transaction commits: `Merge`, `AppendEvents` and `FinishTick` are the three
of a tick (`Tick` is its start, `SkipTick` its early `continue`), `FinalMerge`,
`FinalAppend` and `ClearPid` those of the shutdown.  Each may fail, and the process
may die (`Crash`) anywhere between them.  The select is biased, so `TickDue`
excludes a signal that was heard and `Receive` excludes a tick that is due.
`Signal` is heard while the select waits; during the body of an arm no
`shutdown_signal()` exists, and whether the signal is heard depends on when the
runtime publishes it.  A narration counts its quanta, and ends by answer or
timeout (`NarrationDone`).  An event is numbered in the order of happening, and stands
for the nodes it adds to the graph; `trim_before` is the choice of any part of the
builder's nodes.  Stages lag and observations get lost, so a daemon consumes the events
since its start in any order (`Receive` takes any of `Due`) and may miss any (`Lose`).

A one-shot run captures (`CaptureEvent`), ends by its deadline or a signal
(`EndCapture`), merges and appends; it never looks at the lock.  The rows of the events
table carry their writer, for the properties only: all daemons are one, each one-shot
run another.

What the writers have not written yet and the events table implement `EventHistory`:
of each writer, events enter in the order in which they reached it, each at most once,
in whole batches.  That is not the order of happening, and between a daemon and a
one-shot run nothing keeps it to once (see below).

### Reconstruction

The stages of the `Reconstructor` share no state, so a behaviour has one source.
A poll of sockets is a walk: one read of the kernel's tables, or two runs of
netstat (`FetchHalf`), each of which may fail, with time and traffic between them;
a native read that fails may or may not be remembered (`nativeDisabled`).
`Accumulate`, `BeginTick` and `OnTickComplete` are the paths of the network stage,
as in `ProcessLifecycle`; a record also carries `first_seen` from tick to tick.
Two sockets may share one key.  `streak` is a history variable: since when a
connection was in every tick.  File events come in at any time, with or without
an id; `OnFileEvent` is the coalescer's `on_observation`, `FlushAll` its `flush_all`.
`PollDiff` overwrites the adapter's prior reading before it emits, so a lost
transition is never repeated (`hidden`).  `InsertEntry` and `MarkDead` fill the
process table; eviction is part of the insertion; `Annotation` is what the
enrichment of an event by raw pid looks up.  `EndOfInput` is
`Reconstructor::on_tick_complete`, a public call that no binary makes.

### WorldGraph

One handler per kind of event in `GraphBuilder`, each with what it does to
`last_ts`.  Nodes come out of a `HashMap`, and a pid that several processes had
resolves to the last of them in that order, or to the last of those born last:
`Snapshot(order)` takes the order as a parameter, and a tick is for any of them.
Edges are a function from `[kind, from, to]` to what the graph lists under it, once
for each time.  Times of the builder count from the clock's `anchor`;
`Store` makes the columns absolute and leaves what is inside `attrs`, as the code
does.  `Tick` is merge and trim, `Prune` retention by the daemon or by hand,
`Restart` a kill and a new builder with a new anchor over the old store.  Events
come dated in the past, by as much as their stages allow (`EventsLag` is the
theorem for the process stage); file changes have no bound on their age.  A focus event
may name no app, and the builder passes over it (`OnFocusOnNothing`).  What is really in
front is the history `front`, which follows the focus events and not the builder;
`inFront` records it, app or nothing, quantum by quantum.

The queries are operators on the same two variables, so that a run can ask
whether two of them agree in every reachable store: `load_graph` and
`load_graph_in_window`, ancestors, root under a user's parent, prolific parents,
endpoints, domains, rates, novelty.

### Narration

The same builder, fed together with the daemon's window, which evicts from the
front while events are out of order.  A tick takes the snapshot, summarises the
window, folds rule flags, scores against the baseline and the differences to
the last narrated snapshot into a list cut at `MAX_SUSPICIONS` (twice, as the
code does), and trims.  The baseline's EWMA and deviations are any function of the
counts (`Ceiling`); what the store's flags say is any set of texts.  Scores are in
multiples of `Unit` (1.0).

A dns query tells a name or none (masked), a hash or none, the client as mDNSResponder
names it and as the process table does, if it knows the pid.  The narrator goes by the
log's client and the hash, and cuts its list of clients to `TopNDnsClients` before the
rule looks at it; the scores go by the same client and are not cut; the reviewer goes by
the process table's name if there is one, by `domain_id`, and passes over a query without.
`TablesAgree` says how far the two tables still determine each other: their totals always,
their rows for clients that have one name (`NamedAlike`).

### What was found on the way

Notes of the translation that no run has to itself, for who reads or changes this code:

* One lost observation of a running process becomes a `process_death` event, and its next
  sighting a `process_birth` (`aw-events/src/process_lifecycle.rs:147`), though
  `aw-mvp/src/pipeline.rs:10-11` calls it "the loss class Layer 2's set-diff stages already
  tolerate"; a `pidinfo` that fails on a living process has the same effect
  (`aw-process/src/lib.rs:91`).  What holds is `OnlyGapsInventDeaths` and `LedgerCatchesUp`.
* A tick with a narration in flight returns before the heartbeat (`aw-mvp/src/main.rs:866`).
  A narration may take 300 s and aw-query's limit is 120 s, so a running daemon can be shown
  as "likely not running", which `aw-query/src/main.rs:158-160` reads as "died without
  cleanup".  What holds is `LooksAliveUnlessSkipped`.
* `run_one_shot` appends to the events table (`aw-mvp/src/main.rs:367`) without the instance
  lock, which is there because "concurrent writers would double every event" (`:754-755`):
  an event that a running daemon and a capture both saw is in the table twice.  What holds is
  once for each writer (`ImplementsEventHistory`).
* The rule for "a single client issuing unusually many unique DNS names"
  (`aw-agents/src/timeline_narrator.rs:944`) runs over the list that is cut to the
  `TOP_N_DNS_CLIENTS` (6) clients with the most queries in total (`:899`): a client with many
  different names is not flagged when six others asked more often.  The scores, which are
  not cut, go by totals.
* `event_suspicions` and `score_window` pair a death with the last birth of its pid
  and subtract saturating, so a death of an earlier process of the pid reads as a
  life of 0 s.
* A scored burst's text differs from the rule's, so the same burst can be listed
  twice; a cold baseline counts DNS queries where the narrator counts names, and
  does not leave out `NOISY_COMMS`.
* The criteria of `process_anomaly.rs` on a store and on a graph are commented as mirrors of
  each other.  They differ in two ways, which `QueriesAgree` names: the graph finds a parent to
  which the tables have no edge, and it adds up the children of processes with one pid.
* `degree_centrality` is documented as "distinct neighbors" and counts an edge as
  often as the graph lists it.
* A repeated focus on the app in front closes its interval and opens another from
  where the closed one began; `focus_segments` of the store loses earlier intervals.
* Living processes are stored with `last_seen` = birth, so retention prunes
  a long-lived process and the next merge brings it back.
* Counts of `edges` are counts of merges; touches and queries shrink when the
  builder had forgotten the node.
* A connection that closes in the quantum it opened in loads as open.
* The table of processes grows past its capacity when every entry is the latest of
  its pid, and processes of the first tick are never in it.

## 3. Runs

| Run | Checks | Result |
|---|---|---|
| `pipeline` | `TypeOK`, `BusAccounting`, `NoSilentLoss`, `ForwardedIsSafe`, `ImplementsLossyFifo`, `BusAlwaysDrains`, `ForwardedIsDelivered` | hold |
| `poll_loop` | `OnePollAtATime`, `AdaptsOnEvidence`, `PollsForever`, `CalmRestoresBase`, `PressureReachesMax` | hold |
| `process_telemetry` | `TypeOK`, `LedgerIsPrior`, `OnlyGapsInventDeaths`, `LedgerCatchesUp`, `EventsAlternate`, `EventsLag` | hold |
| `daemon` | `TypeOK`, `TrimmedIsMerged`, `CleanStopIsSaved`, `LooksAliveUnlessSkipped`, `EventuallySaved` | hold |
| `one_shot` | `GraphLeadsHistory`, `ImplementsEventHistory` | hold |
| `reconstruction` | `EachChangeOnce`, `OnlyLossHidesFocus`, `NamesResolve`, `OnlyGapsInventCloses`, `SpansAreUnbroken` | hold |
| `world_graph` | `TypeOK`, `NoDanglingEdge`, `SegmentsAreTrue`, `StoreIsCurrent`, `QueriesAgree`, `NoveltyNeverReturns`, `OnlyForgettingShrinksTallies` | hold |
| `narration` | `WindowIsRecent`, `ReportIsFaithful`, `GrowthIsNotAMerge` | hold |
| `merged_bursts` | `BurstsStayApart` | violated |
| `lost_signal` | `SignalStops` | violated |
| `open_focus` | `SegmentsEndWithFocus` | violated |
| `component_merge` | `MergesAreFlagged` | violated |

**pipeline.**  Two adapters share one source and one serves the other; queues
of 2, 2 and 1; two observations per source.  All of them are shorter than the four
observations on offer, so each queue fills, each drop point is hit, and each
hand and queue can hold what a shutdown discards.  The property that fixes
order is the refinement to `LossyFifo`, with `channel` the concatenation of all
queues and hands.

**poll_loop.**  The code's thresholds (3 dirty, 10 clean), an interval from 2 to
9 quanta so that doubling meets a ceiling that is no power of two times the base,
and a loop up to 5 quanta late, which is more than two base intervals.

**process_telemetry.**  A quantum is 250 ms: the gap is one quantum, the interval
two (the scheduler's floor) to four, with thresholds of one and two so that it moves
within the run.  Two pids, one with two incarnations; nine instants (five polls), so that a
pid can change owner between polls, and so that after a wrong report there is room for the
three calm ticks that `LedgerCatchesUp` speaks of.  The constraint `MCFewUpsets` cuts a
behaviour at the second gap (a lost observation, a living process that could not be read,
a split burst), at the fifth birth or death, and at bus drops after the first instant.
One gap is enough: `LedgerCatchesUp` counts from the last one, and `OnlyGapsInventDeaths` is
about none.  The run has `CHECK_DEADLOCK FALSE` because the clock stops at `MaxTime`.

**merged_bursts.**  The same pids and interval, without gaps.  It refutes a statement of
the repository:

1. `crates/aw-scheduler/src/lib.rs:31-32` says the 500 ms floor keeps polling from
   dipping "under the 250ms gap threshold Layer 2 uses for tick-boundary
   detection".  The interval is measured between starts of polls and the gap from
   the end of one burst: a poll that takes 250 ms of a 500 ms interval leaves too
   little, and two ticks merge.

**daemon.**  Two processes, so that a second start meets the lock and a restart a
store with a past; two events, so that part of a batch can differ from the whole; one crash and
one failed transaction, which are enough since every property either excludes them
or holds after the first.  A quantum is 30 s: a tick of two quanta and a limit of
four are the code's 60 s and 120 s.  A narration takes at most six quanta (the
code's 300 s are ten), enough for it to be in flight at two ticks and for the
limit to pass before the third.

**one_shot.**  Two daemon processes and a one-shot run over two events that reach
each of them in either order, late, or not at all; one crash and one failed transaction;
no narrations and the shortest tick, since neither property is about time.

**lost_signal.**  One process, one event, no crash, no failure.

2. `crates/aw-mvp/src/main.rs:245` says a signal "stops cleanly".  The listener is
   created anew in each select and dropped before a body runs; a signal published
   while a merge or an append runs finds none, and the handlers that stay
   installed keep it from ending the process.

**reconstruction.**  Seven instants, polls every second one, a gap of one: four
ticks, so a connection can open, be missing, return and close.  Three sockets on
two keys, two of them TCP with the same key; one lost row.  Windows of two
instants and four file events on two paths: a report, a later window and an event
that is late for both.  Two processes of one bundle, another bundle and no app.  A
table of two entries for six processes on three pids whose parents form a cycle
and a chain as long as the limit of two ancestors.  What it shows: `EachChangeOnce`
is exact (the ids of a report are those of the changes in its span, and the spans
of a path are disjoint); a completed event has the span of an unbroken row of
ticks; a close is wrong only if a row was lost or a half failed or came late;
a wrong focus has a lost transition behind it; names resolve after evictions.

**world_graph.**  Each behaviour has one of four mixes of kinds, chosen because an
edge, a query or a trim relates them (processes with each of focus, sockets and
dns; files with dns).  Three processes, two of the same pid, each the other pid's
parent, so that lookups by pid have two answers and parents a cycle.  Three
events, two ticks and one prune or restart in three instants, with a ttl and a
retention of one: an entity can be reported, merged, trimmed, pruned or lost by a
restart, and reported and merged again.

**open_focus.**  The same instance without prunes and restarts:

3. `crates/aw-graph/src/lib.rs:170` says the frontmost "becomes `None` when the frontmost
   transitions to nothing".  `on_app_focus` returns on an event that names no app before
   it closes the interval, so the segment goes on until another app comes to the front.
   What does hold is `SegmentsAreTrue`: a segment never covers a time at which *another*
   app was in front, nor one before the first focus event.

**narration.**  Three events and two ticks, with a window of one instant so that
eviction happens; thresholds of one or two so that each flag can be raised; a list of
one dns client, so that it is cut; seven queries: two names in clear and masked from one
client, two from a process whose two names differ, and one without name and hash; a store
that has two days of history (of two hours each) before the daemon starts, so that
there is a profile and a baseline to score against.  The rules are compared with
the scores of a cold baseline in every state (`RulesAreScored`).

**component_merge.**  Two processes and two domains, no restarts.

4. `crates/aw-agents/src/topology.rs:78-79` and the flag's text ("Previously
   separate activity clusters merged into one").  The test is whether *one*
   cluster of the previous snapshot lies in several of the current one, which is a
   split.  A true merge is never flagged.  `GrowthIsNotAMerge` is about the other
   direction: clusters that grow without meeting are not reported to merge.

### Bounds

`MaxLosses`, `MaxChanges`, `MaxBirths`, `MaxTicks`, `MaxUpsets`, `MaxOffered`, `MaxLate`, `MaxTime`, `MaxDrops`, `MaxUnread`, `MaxStalls`, `MaxEvents`, `MaxCrashes`
and `MaxFailures` bound the runs and
are constants of the models, as are the capacities and thresholds of the code, and the
sets of processes that may run (`Daemon`, `OneShot`).  The proofs hold for every value of
them.  One thing is fixed and no constant: in `WorldGraph` and `Narration` an event of a
lagging stage is one quantum late, so `WindowIsRecent` is relative to that lag.

### Fairness

`ObservationPipeline`: weak fairness of the two stage tasks (the runtime schedules
runnable tasks).  Nothing is assumed of the adapters or the consumer, which is
what makes `BusAlwaysDrains` worth having; `ForwardedIsDelivered` assumes of the
consumer, in the property itself, that it keeps receiving.
`PollLoop`: time passes, the loop's task runs when its ticker is due, and a poll
that was started returns.  The last one is an assumption on the adapters; a
poll that never returns stops its source, by design of the skip.
`ProcessTelemetry` checks no liveness: its clock is bounded, and what would be
liveness is stated in ticks (`LedgerCatchesUp`).
`Reconstruction`, `WorldGraph` and `Narration` check no liveness: their clocks are
bounded, and what they promise is about what was said so far.
`Daemon`: a process in the middle of something goes on (the runtime), time passes,
and a narration ends (the HTTP client's timeout).  Starts, signals, events, crashes
and failures are never assumed; neither is the receive arm, which a tick may
always precede.

## 4. Proofs

Everything listed is checked by TLAPS for every value of the constants under the
assumptions named in the modules (`PipelineAssumption`, `PollLoopAssumption`,
`LifecycleAssumption`, `TelemetryAssumption`, `DaemonAssumption`, `NetworkAssumption`,
`CoalesceAssumption`, `TableAssumption`, `AdapterAssumption`, `ReconstructionAssumption`,
`WorldAssumption`, `QueriesAssumption`, `EventQueriesAssumption`, `SummaryAssumption`,
`TopologyAssumption`, `NarrationAssumption`, `StoreAssumption`), which say no more than that
capacities, intervals, thresholds and bounds are numbers (positive where the code's
are), the ceiling is at least the base, the set of adapters is finite, keys and
pids are of the sets they are taken from, the values that stand for "no pid",
"stopped" and "no app" are not a daemon or an app, and that what a store holds before
the first event is dated before it and its flags are not worded as those of the
topology are.  Two theorems have a hypothesis of their own.  `HeartbeatShowsLife`
assumes `TickEvery <= DeadAfter`, which the default of 60 s against 120 s satisfies and
a `--tick` above 120 would not.  `ReportIsAlwaysFaithful` assumes `CeilingIsNat`: the
EWMA's ceiling of a row of counts is a number.  This is no `ASSUME` of a module only
because TLC cannot enumerate `Seq(Nat)`.

* **Pipeline.**  `PipelineInvariant` strengthens the four checked invariants by
  `DrainIsSequential`: the drain does not hold an observation while it has a
  counter to bump.  Without it, `DrainTrySend` could overwrite a count that is due,
  and `NoSilentLoss` and `ForwardedIsSafe` would not be inductive.  `BusAccounting`
  is a statement about a cardinality, so its proof follows adapters in and out of
  the set of those that are inside `emit`.
* **Refinement.**  `PipelineIsLossyFifo` maps the chain to one sequence.  Moves
  between neighbours are stutters by associativity of concatenation; a drop, an
  abort or a receiver's end removes one stretch of it (`Lose`).
* **Poll loop.**  `PollInvariant` is the type invariant and `OnePollAtATime`
  together (the runs check the first as a part of `ProcessTelemetry`'s `TypeOK`); the
  interval's band rests on two facts about doubling and halving.  `AlwaysAdaptsOnEvidence`
  needs `EvidenceInv`: the comparison with `last_dropped` finds new drops exactly if the
  bus dropped since the latest poll, and where the interval can still move, the counter
  that moves it is the length of the row of polls with, or without, such drops.
* **Process stage.**  `LifecycleInvariant` is the type invariant, `LedgerIsPrior`,
  and that the stage has no prior tick before it is primed.  `EventsAlternate`
  and `EventsLag` follow from it step by step.  These theorems hold of *every*
  sequence of calls: observations missing, bursts split or merged, flushes at
  any time.
* **Composition.**  `ProcessTelemetry` implements `PollSpec` and `LifecycleSpec`
  (`TelemetryImplementsPollLoop`, `TelemetryImplementsLifecycle`), so the theorems
  of its two parts are its own.
* **What is reported of processes.**  `OnlyGapsEverInventDeaths` is about the whole
  composition.  Its invariant `DeathInv` says, as long as nothing was dropped, every running
  process was read and no burst was split (`Undisturbed`): every process the stage holds of a tick, if it
  is still running, is either in the tick under way or still to be queried
  (`WalkInv`); a walk that has begun to answer meets no boundary (`NoStall`); and
  every death in the ledger is real.  It is not inductive without the bookkeeping
  of the burst (`BurstInv`), the clocks and the stage's type invariant (`Context`),
  which come from their own theorems.  `LedgerAlwaysCatchesUp` is the other half: what
  is wrong does not stay.  Its invariant `CatchUpInv` says what one, two and three
  ticks of calm do to a process that lives and to one that is gone (`RecentInv`), for
  the tick under way, the prior tick and the walk between them.
* **Daemon.**  `DaemonInv` joins the type invariant (at most one daemon runs with the
  lock) to what a process keeps of its own: `received`, `builder` and `pending` hold
  only what it has seen.  `TrimmingLosesNothing` follows from it step by step: a
  trim is behind a merge that committed.  The refinement of `EventHistory` needs
  `HistoryInv`: what daemons wrote is from before the start of the one that is up, or among
  what that one has seen, in whatever order it came; so neither a restart nor a late event
  is written again.  A one-shot run has the same of its own rows (`CaptureInv`).  `HistoryNeverLeads` needs `GraphInv`:
  the batch of a daemon between its two transactions is already in the graph.
  `CleanStopSavesAll` needs `SavedInv`: without a fault, everything captured is written,
  or in the batch, or in the builder of a daemon that is not yet at the step that
  would forget it.  `HeartbeatShowsLife` rests on `BeatInv`: the age of the beat and
  what is left of the tick add up to one tick, as long as none was skipped.
* **Network stage.**  `NetworkInv` joins the type invariant to `StreaksAreTicks`: what
  a record carries as `first_seen` is the start of the connection's unbroken row of
  ticks, for the tick under way and for the prior one.  `SpansAreAlwaysUnbroken`
  follows step by step, again for every sequence of calls.
* **Reconstruction.**  `SystemImplementsNetworkSpec` carries the stage's theorems over.
  For `OnlyGapsEverInventCloses` the invariant `GapInv` relates the walk to the
  ticks: what has been read is in the tick or still among the rows, and as long as
  nothing came late the open tick is the current or the last walk.
* **Coalescer.**  `ChangesAreReportedOnce` is exact about ids and counts them.  `CoalesceInv`
  says that a window's entry is precisely the changes of its path since the window
  began (`BufferInv`), each report precisely those in its span (`ToldInv`), that spans of
  one path are apart, and that every change is in one of the two (`ReportedInv`).
* **Process table.**  `NamesAlwaysResolve` needs that an entry that is the latest of its
  pid is never a victim (`IsTable`), that one eviction per insertion keeps the bound
  (`EvictionTrims`), and, for the walk to the ancestors, that each step of `Climb` adds the
  parent of the last one or ends the walk.
* **Builder and store.**  `NoEdgeEverDangles` rests on the ends of every kind of
  edge of a snapshot being among its nodes.  `StoreKeepsUp` needs `Remembered`: what
  was said of a process is in the builder until it is trimmed and then in the
  store, unless retention took it; a trim is safe because it follows the merge
  within one tick.  `TalliesShrinkOnlyIfForgotten` needs that a node that was never
  forgotten has in the builder at least what the store has (`StoredTallies`).
  `SegmentsAreAlwaysTrue` is an invariant of the handlers: intervals of an app are
  times at which it, or nothing, was in front, the open one is that of the last app a
  focus event named (`SegmentInv`), and so are the overlaps that a merge stores of them
  (`OverlapsAreTrue`).  `WorldTypeCorrect` (`TypeInv`) and that the store's `first` only
  goes down while an entity is known give `KnownIsNeverNewAgain`.
* **Queries.**  `QueriesAlwaysAgree` is about queries that read the same two tables in
  different ways.  Its invariant `QueryInv` says what they take for granted: the
  tables are finite, so that counts and sums mean something (`TablesInv`); an edge joins
  nodes of its kind, and one between processes leads from the pid that the child's row
  names as its parent's (`ParentsAreKnown` carries this through the builder, merges and
  restarts); nothing was seen later than now (`NothingIsLater`), or what is novel since a
  time could be missing from the window that ends now.  Then each query is followed to the rows
  it counts, and the sums of two groupings of one set of rows are equal by `SumSplits`
  and `CountsAddUp`.
* **Narration.**  `GrowthIsNeverAMerge` needs that a snapshot is a finite graph with the
  ends of its edges (`IsGraph`), and that the components a search finds are a
  partition of the nodes that no edge crosses (`ComponentsPartition`): as many levels
  as there are nodes close a search (`GrownIsClosed`), and a closed set holds all of a
  component that it meets (`ComponentIsSmallest`).  A cluster keeps its edges, so it is
  inside one component of the later snapshot; that no two clusters meet there is the
  hypothesis (`GrowsApart`), not a claim.  `WindowIsAlwaysRecent` is about a
  window that is not sorted: `WindowInv` says that an event that is no file change is
  at most the lag earlier than any event before it (`Ordered`), and that the first of
  the window is no older than `WindowNs` before the newest; an eviction ends at the
  first event that is young (`EvictIs`), so what is behind it is late by the lag at most.
* **What a narrated tick says.**  `ReportIsAlwaysFaithful` joins five invariants
  (`ReportInv`).  `WindowInv` and `GraphInv` are those of the two theorems above.
  `StoreInv`: the stored rows are of the past, so that a window up to the present has all
  of them (`WindowHasAll`), which is what the counts by hour, by kind and by window are
  compared over.  `ScoreInv`: a baseline in use is well formed (`IsEngine`), the edges
  of the last snapshot are finite in number, intervals are sequences, and the flags
  shown are the top of those offered (`TopFlagsShown`).  The last of these is about
  two cuts of one list: a line that the first cut drops has `MaxSuspicions` lines above
  it that are still there at the second, unless a line of the topology replaces one of
  the same text, which the words of the two kinds of flags exclude (`TickShowsTop`).
  `PathInv`, the largest part, is why the facts taken from a graph are those taken from
  a window: as long as no event left the window and no snapshot was narrated, the
  builder *knows* the window (`Knows`).  Every time in its maps is that of an event,
  a process is there if its birth is, a file was touched at least as often as the
  window holds changes of it, and the app in front is that of the last focus, with an
  interval from each focus to the next.  It would not be inductive without the order
  of focus events, which is part of it: they are stamped as they arrive.  It ends with
  the first narrated tick, whose trim takes from the builder what the window still has;
  what that tick reports is compared before it (`PathsAgree`).  Of dns,
  the reviewer's rows add up to the queries that have a domain id (`RowsAddUp`), a
  client's queries are those of its rows and those without an id (`QueriesAgree`), and it has
  at most as many names as rows (`NamesAgree`); the cut only restricts the narrator's tally.

Recursive definitions that theorems are about (`Overlaps` of the builder, `Ancestors` of
the process table, `Component` of a graph) are recursive functions over a bounded
range, with the step as an operator of its own (`Climb`, `Grown`).  What they compute
is proved by the least number at which it would fail (`NatLeast`, from the
well-foundedness of the natural numbers), so that no induction over an operator is needed.

Sums and sorted lists are operators of `Counting`, on functions and not on operators, so
that lemmas about them can be stated.  What a fold over a set returns is found in two
steps.  There is a function on the subsets of the set that satisfies the fold's equation
(`SumUnfolds`, by the least number of elements), so the fold is a sum by its equation
(`SumByChoice`).  Induction over a finite set is then made with a *set* in the place
of a predicate: a set of subsets that has every subset of which it has all that lack
one element, has the whole (`FewerElements`).  `SumIsNat`, `SumSplits`, `CountsAddUp` and
`SumIsMonotone` follow.  A sorted list is given by ranks: `InOrder` puts at place n the
number with n - 1 before it, and `InOrderSorts` says that it lists each number once
and in order.  `SelectionExists` and `SelectionIsSeq` do for a recursion that appends
some of its elements (`Overlaps`) what `SumUnfolds` does for sums.

Only model-checked:

* the liveness properties (`BusAlwaysDrains`, `ForwardedIsDelivered`, `PollsForever`,
  `CalmRestoresBase`, `PressureReachesMax`, `EventuallySaved`), which are out of the
  prover's reach;
* the four statements of the repository that do not hold (section 3), for which
  the counterexample is the result.

## 5. Not modelled

The content of observations and events beyond identity and time; parsing and
formatting (`netstat` and `dns` lines, the kernel's socket buffers, `eslogger` and
`system` lines, `dot.rs`); floating-point values of scores; prompts, what a language
model answers and how it is parsed; HTTP in `aw-llm`; of a one-shot run of `aw-mvp` (`run_one_shot`), what is narrated
after its capture is stored; rendering in `aw-query` (of which
only `daemon_status` is modelled); the order and limits of lists that are only
displayed; `set_meta`, `get_meta` and the schema version; the command-line tools.
Pid reuse within one second of the clock (the code's key cannot tell the two
apart).  A behaviour of `Reconstruction`, `WorldGraph` or `Narration` is about one
source or one mix of kinds: stages and handlers of different kinds share only
`last_ts`, whose effect on the interval in front is in `Observe`.

## 6. What is left

Every invariant and every action property of the runs that hold is stated by a theorem; what
is not proved is liveness.  Of the code, the next parts to model would be the meta
table with the schema's version, the narration of a one-shot run, which shares the window's
code with `run_daemon`, and the parsers, which have no state but many cases.
