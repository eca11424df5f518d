---------------------------- MODULE WindowFocus ----------------------------
(***************************************************************************)
(* The window source end to end: the diff adapter (aw-window/src/lib.rs)   *)
(* and the stage that turns its transitions into app_focus events          *)
(* (aw-events/src/window_lifecycle.rs).                                    *)
(*                                                                         *)
(* A reading is the pid and the bundle of the app in front; an app may be  *)
(* started again with another pid, have no bundle, or there may be none.   *)
(***************************************************************************)
EXTENDS Integers

CONSTANT Reading   \* [pid, bundle] records

VARIABLES
  front,           \* what NSWorkspace answers
  reading,         \* the adapter's prior reading, or NoReading
  focus,           \* what the latest app_focus event said, or NoReading
  sampled,         \* history: the app in front at the last poll, or NoReading
  hidden           \* history: a transition since that event was lost

focusVars == <<front, reading, focus, sampled, hidden>>

NoPid == -1
NoBundle == "none"
NoApp == [pid |-> NoPid, bundle |-> NoBundle]
NoReading == [pid |-> NoPid, bundle |-> "unread"]

FocusInit ==
  /\ front = NoApp
  /\ reading = NoReading /\ focus = NoReading /\ sampled = NoReading
  /\ hidden = FALSE

Activate(r) ==
  /\ front # r
  /\ front' = r
  /\ UNCHANGED <<reading, focus, sampled, hidden>>

HasBundle(r) == r # NoReading /\ r.bundle # NoBundle

\* Mutant: a transition from or to nothing is not one.
OnTransitionBothKnown(from, to) ==
  \/ HasBundle(from) /\ HasBundle(to) /\ focus' = to /\ hidden' = FALSE
  \/ ~(HasBundle(from) /\ HasBundle(to)) /\ UNCHANGED <<focus, hidden>>

\* on_observation of the stage: transitions within a bundle are dropped.
OnTransition(from, to) ==
  \/ /\ HasBundle(from) /\ from.bundle = to.bundle
     /\ UNCHANGED <<focus, hidden>>
  \/ /\ ~(HasBundle(from) /\ from.bundle = to.bundle)
     /\ focus' = to
     /\ hidden' = FALSE

\* poll_diff: the prior reading is replaced before the transition is emitted,
\* and stays so if the bus or the drain loses it.
PollDiff(lost) ==
  /\ sampled' = front
  /\ \/ /\ front = reading /\ ~lost
        /\ UNCHANGED <<reading, focus, hidden>>
     \/ /\ front # reading
        /\ reading' = front
        /\ \/ ~lost /\ OnTransition(reading, front)
           \/ lost /\ hidden' = TRUE /\ UNCHANGED focus
  /\ UNCHANGED front

-----------------------------------------------------------------------------
\* The app that Layer 2 said was in front last is the app that was in front at
\* the last poll, unless a transition was lost since: the next one that is
\* reported puts it right.
OnlyLossHidesFocus == ~hidden => focus.bundle = sampled.bundle
=============================================================================
