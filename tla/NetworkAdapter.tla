--------------------------- MODULE NetworkAdapter ---------------------------
(***************************************************************************)
(* aw-network/src/lib.rs: the snapshot adapter of the network source,      *)
(* between a machine whose sockets open and close meanwhile and the stage  *)
(* of NetworkLifecycle.  One read of the kernel's tables gives all sockets; *)
(* when that fails, netstat is run for TCP and then for UDP.               *)
(*                                                                         *)
(* As in ProcessTelemetry an observation is handed to the stage as it is   *)
(* emitted, unless the transport loses it.                                 *)
(***************************************************************************)
EXTENDS NetworkLifecycle, Sequences

CONSTANTS
  Socket,
  KeyOf(_),        \* the proto and addresses of a socket
  ProtoOf(_)       \* "tcp" or "udp"

ASSUME AdapterAssumption ==
  \A s \in Socket : KeyOf(s) \in ConnectionKey /\ ProtoOf(s) \in {"tcp", "udp"}

VARIABLES
  openSockets,
  nativeDisabled,  \* the kernel's tables could not be read once
  polling,
  rows,            \* sockets read and not yet emitted
  toFetch,         \* runs of netstat to come
  reached,         \* an observation of this poll has got through
  walked,          \* history: connections read in this poll
  lastWalk,        \* history: in the last poll that read any
  intact           \* history: no row was lost, no half failed or came late

machineVars == <<openSockets>>
pollVars == <<nativeDisabled, polling, rows, toFetch>>
walkVars == <<reached, walked, lastWalk, intact>>
adapterVars == <<machineVars, pollVars, walkVars>>

AdapterInit ==
  /\ openSockets = {}
  /\ nativeDisabled = FALSE
  /\ polling = FALSE
  /\ rows = {} /\ toFetch = <<>>
  /\ reached = FALSE
  /\ walked = {} /\ lastWalk = {}
  /\ intact = TRUE

OpenSocket(s) ==
  /\ s \notin openSockets
  /\ openSockets' = openSockets \cup {s}
  /\ UNCHANGED <<networkVars, pollVars, walkVars>>

CloseSocket(s) ==
  /\ s \in openSockets
  /\ openSockets' = openSockets \ {s}
  /\ UNCHANGED <<networkVars, pollVars, walkVars>>

KeysOf(S) == {KeyOf(s) : s \in S}

Fetched(S) == rows' = S /\ walked' = walked \cup KeysOf(S)

-----------------------------------------------------------------------------
\* poll_snapshot up to the first rows, from the kernel's tables.
PollNative ==
  /\ ~polling /\ ~nativeDisabled
  /\ polling' = TRUE
  /\ Fetched(openSockets)
  /\ UNCHANGED <<networkVars, openSockets, nativeDisabled, toFetch, reached,
                 lastWalk, intact>>

\* The tables cannot be read, which is remembered, or the blocking task died,
\* which is not.
PollNativeFails ==
  /\ ~polling /\ ~nativeDisabled
  /\ polling' = TRUE
  /\ nativeDisabled' \in BOOLEAN
  /\ toFetch' = <<"tcp", "udp">>
  /\ UNCHANGED <<networkVars, openSockets, rows, walkVars>>

PollNetstat ==
  /\ ~polling /\ nativeDisabled
  /\ polling' = TRUE
  /\ toFetch' = <<"tcp", "udp">>
  /\ UNCHANGED <<networkVars, openSockets, nativeDisabled, rows, walkVars>>

\* run_netstat for one half: its rows, or an error and the next half.
FetchHalf ==
  /\ rows = {} /\ toFetch # <<>>
  /\ toFetch' = Tail(toFetch)
  /\ \/ /\ Fetched({s \in openSockets : ProtoOf(s) = Head(toFetch)})
        /\ UNCHANGED intact
     \/ /\ intact' = FALSE
        /\ UNCHANGED <<rows, walked>>
  /\ UNCHANGED <<networkVars, openSockets, nativeDisabled, polling, reached, lastWalk>>

\* One row is emitted and gets to the stage.  A row that opens a tick in the
\* middle of a poll has come late.
EmitRow(s, ts) ==
  /\ s \in rows
  /\ rows' = rows \ {s}
  /\ reached' = TRUE
  /\ \/ Accumulate(KeyOf(s), ts) /\ UNCHANGED intact
     \/ BeginTick(KeyOf(s), ts) /\ intact' = (intact /\ ~reached)
  /\ UNCHANGED <<openSockets, nativeDisabled, polling, toFetch, walked, lastWalk>>

LoseRow(s) ==
  /\ s \in rows
  /\ rows' = rows \ {s}
  /\ intact' = FALSE
  /\ UNCHANGED <<networkVars, openSockets, nativeDisabled, polling, toFetch,
                 reached, walked, lastWalk>>

EndPoll ==
  /\ polling /\ rows = {} /\ toFetch = <<>>
  /\ polling' = FALSE
  /\ reached' = FALSE
  /\ walked' = {}
  /\ lastWalk' = IF walked = {} THEN lastWalk ELSE walked
  /\ UNCHANGED <<networkVars, openSockets, nativeDisabled, rows, toFetch, intact>>

-----------------------------------------------------------------------------
\* The stage reports a connection closed only if the last poll did not see it,
\* as long as no row is lost and no half of a poll fails or comes late:
\* whatever is opened, closed or shared between sockets, and however the
\* adapter changes from one way of reading to the other.
OnlyGapsInventCloses ==
  [][intact' => \A e \in events'.closed : e.key \notin lastWalk]_events
=============================================================================
