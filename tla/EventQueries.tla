---------------------------- MODULE EventQueries ----------------------------
(***************************************************************************)
(* The events table of aw-store/src/lib.rs as its readers see it: a        *)
(* sequence of rows, which are Layer 2 events with wall-clock times, and   *)
(* the two counts a baseline is built from.                                *)
(***************************************************************************)
EXTENDS Integers, FiniteSets, SequencesExt, Counting

CONSTANTS
  Anchor,          \* wall-clock time at which the daemon's clock began
  Hour, DayHours   \* an hour, and how many make a day

ASSUME EventQueriesAssumption ==
  /\ Anchor \in Nat
  /\ {Hour, DayHours} \subseteq Nat \ {0}

\* append_events: in the order received, with the time made absolute.
AppendEvents(rows, evs) ==
  rows \o [i \in DOMAIN evs |-> [evs[i] EXCEPT !.ts = @ + Anchor]]

\* Oldest first.  The limit is on what the filter by kind leaves.
EventsInWindow(rows, from, to, kinds, limit) ==
  LET I == {i \in DOMAIN rows : rows[i].ts \in from..to /\ rows[i].kind \in kinds}
      order == InOrder([i \in I |-> rows[i].ts], I)
  IN [n \in 1..Min({limit, Len(order)}) |-> rows[order[n]]]

HourOf(unix) == (unix \div Hour) % DayHours

RowsSince(rows, kind, from) ==
  {i \in DOMAIN rows : rows[i].kind = kind /\ rows[i].ts >= from}

\* Kind, hour of the day -> count; 0 where there is no row for the hour.
HourlyProfile(rows, from) ==
  LET kinds == {r.kind : r \in {x \in ToSet(rows) : x.ts >= from}}
  IN [kind \in kinds |-> [h \in 0..(DayHours - 1) |->
        Cardinality({i \in RowsSince(rows, kind, from) : HourOf(rows[i].ts) = h})]]

\* Value of the field, start of a window -> count.  The field is a function of
\* the rows of the kind.
FieldWindowCounts(rows, kind, field, from, width) ==
  LET I == RowsSince(rows, kind, from)
      StartOf(i) == (rows[i].ts \div width) * width
      Starts(v) == {StartOf(i) : i \in {j \in I : field[rows[j]] = v}}
  IN [v \in {field[rows[i]] : i \in I} |-> [start \in Starts(v) |->
        Cardinality({i \in I : field[rows[i]] = v /\ StartOf(i) = start})]]
=============================================================================
