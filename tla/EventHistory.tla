---------------------------- MODULE EventHistory ----------------------------
(***************************************************************************)
(* What aw-mvp promises of the store's event history, whatever fails,      *)
(* crashes or is started twice: each writer enters an event at most once,  *)
(* in the order in which events reached it, and a batch enters whole and   *)
(* unbroken or not at all (aw-mvp/src/main.rs; aw-store/src/lib.rs,        *)
(* append_events).  All daemons together are one writer; a one-shot run,   *)
(* which takes no lock, is another.                                        *)
(***************************************************************************)
EXTENDS Sequences

CONSTANTS Event, Writer

VARIABLES
  batch,       \* of each writer: consumed and not yet written
  history      \* the events table

vars == <<batch, history>>

Row(w, e) == [writer |-> w, event |-> e]
Rows(w, events) == [i \in DOMAIN events |-> Row(w, events[i])]

Taken(w, e) ==
  \/ \E i \in DOMAIN batch[w] : batch[w][i] = e
  \/ \E i \in DOMAIN history : history[i] = Row(w, e)

Init ==
  /\ batch = [w \in Writer |-> <<>>]
  /\ history = <<>>

Take(w) ==
  /\ \E e \in Event :
       /\ ~Taken(w, e)
       /\ batch' = [batch EXCEPT ![w] = Append(@, e)]
  /\ UNCHANGED history

Write(w) ==
  /\ history' = history \o Rows(w, batch[w])
  /\ batch' = [batch EXCEPT ![w] = <<>>]

\* A failed append or a crash: the batch is lost as a whole.
Forget(w) ==
  /\ batch' = [batch EXCEPT ![w] = <<>>]
  /\ UNCHANGED history

Next == \E w \in Writer : Take(w) \/ Write(w) \/ Forget(w)

Spec == Init /\ [][Next]_vars
=============================================================================
