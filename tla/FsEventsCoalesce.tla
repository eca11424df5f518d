-------------------------- MODULE FsEventsCoalesce --------------------------
(***************************************************************************)
(* aw-events/src/fsevents_coalesce.rs: file events, gathered by path in    *)
(* tumbling windows of time and reported when a later window begins.       *)
(*                                                                         *)
(* A file event is its path, its time and its id, or NoId (event_id 0).    *)
(* Flags are gathered like the ids and left out.                           *)
(***************************************************************************)
EXTENDS Integers, Sequences, SequencesExt, Maps

CONSTANTS
  Path,
  WindowNs         \* WINDOW_NS (500 ms)

ASSUME CoalesceAssumption == WindowNs \in Nat \ {0}

VARIABLES
  buffer,          \* HashMap path -> [ids, first, last]
  currentWindow,   \* window of the latest event, or NoWindow
  lastTs,          \* its time
  changed          \* FileChanged events returned by the latest call

coalesceVars == <<buffer, currentWindow, lastTs, changed>>

NoId == 0
NoWindow == -1

CoalesceInit ==
  /\ buffer = <<>>
  /\ currentWindow = NoWindow
  /\ lastTs = 0
  /\ changed = {}

WindowOf(ts) == ts \div WindowNs

\* One event per path, all dated at the latest file event.
DrainBuffer ==
  {[path |-> p, ids |-> buffer[p].ids, count |-> Len(buffer[p].ids),
    first |-> buffer[p].first, last |-> buffer[p].last, ts |-> lastTs] :
   p \in DOMAIN buffer}

Merged(p, id, ts, gathered) ==
  LET rec == IF p \in DOMAIN gathered THEN gathered[p]
             ELSE [ids |-> <<>>, first |-> ts, last |-> ts]
  IN Put(gathered, p, [rec EXCEPT !.last = ts,
                                  !.ids = IF id = NoId THEN @ ELSE Append(@, id)])

StartsWindow(ts) == currentWindow # NoWindow /\ WindowOf(ts) > currentWindow

\* Mutant: what was reported stays in the buffer.
OnFileEventKeeps(p, id, ts) ==
  /\ changed' = IF StartsWindow(ts) THEN DrainBuffer ELSE {}
  /\ buffer' = Merged(p, id, ts, buffer)
  /\ currentWindow' = WindowOf(ts)
  /\ lastTs' = ts

\* on_observation.
OnFileEvent(p, id, ts) ==
  /\ \/ /\ StartsWindow(ts)
        /\ changed' = DrainBuffer
        /\ buffer' = Merged(p, id, ts, <<>>)
     \/ /\ ~StartsWindow(ts)
        /\ changed' = {}
        /\ buffer' = Merged(p, id, ts, buffer)
  /\ currentWindow' = WindowOf(ts)
  /\ lastTs' = ts

\* flush_all.
FlushAll ==
  /\ changed' = DrainBuffer
  /\ buffer' = <<>>
  /\ UNCHANGED <<currentWindow, lastTs>>
=============================================================================
