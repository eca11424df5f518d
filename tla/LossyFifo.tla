----------------------------- MODULE LossyFifo -----------------------------
(***************************************************************************)
(* What the staged telemetry pipeline promises to Layer 2's consumer,      *)
(* whatever its stages do: one first-in first-out channel that may lose    *)
(* observations but neither reorders, duplicates nor invents them          *)
(* (aw-mvp/src/pipeline.rs, "Ordering"; aw-core's `Bus::emit`).            *)
(***************************************************************************)
EXTENDS Naturals, Sequences

CONSTANT Observation

VARIABLES
  channel,     \* accepted and not yet delivered, oldest first
  delivered    \* everything the consumer has taken, in order

vars == <<channel, delivered>>

Init ==
  /\ channel = <<>>
  /\ delivered = <<>>

Accept(o) ==
  /\ channel' = Append(channel, o)
  /\ UNCHANGED delivered

Deliver ==
  /\ channel # <<>>
  /\ delivered' = Append(delivered, Head(channel))
  /\ channel' = Tail(channel)

\* What is left of s without its elements from first up to, not including, next.
Cut(s, first, next) ==
  SubSeq(s, 1, first - 1) \o SubSeq(s, next, Len(s))

\* A stretch of what is in flight vanishes; what survives keeps its order.
Lose ==
  /\ \E first \in 1..Len(channel), next \in 1..(Len(channel) + 1) :
       first < next /\ channel' = Cut(channel, first, next)
  /\ UNCHANGED delivered

Next ==
  \/ \E o \in Observation : Accept(o)
  \/ Deliver
  \/ Lose

Spec == Init /\ [][Next]_vars
=============================================================================
