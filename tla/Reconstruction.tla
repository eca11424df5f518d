--------------------------- MODULE Reconstruction ---------------------------
(***************************************************************************)
(* aw-events/src/lib.rs: the Reconstructor, which hands each observation   *)
(* to the stage of its source and enriches what comes back.  The stages    *)
(* share no state, and a behaviour is about one source: sockets            *)
(* (NetworkAdapter, NetworkLifecycle), files (FsEventsCoalesce), focus     *)
(* (WindowFocus), or the births and deaths that fill the process table     *)
(* (ProcessTable; their stage is ProcessLifecycle).  A dns query is passed *)
(* on as one event with an Annotation.                                     *)
(***************************************************************************)
EXTENDS NetworkAdapter, FsEventsCoalesce, WindowFocus, ProcessTable

CONSTANTS
  Sources,         \* the sources of observations to look at
  ProcessKey,      \* (pid, start_unix_secs) pairs
  Ppid(_),         \* the parent's pid in a birth event
  Interval,        \* time between polls
  MaxTime, MaxLosses, MaxChanges, MaxBirths      \* bounds

ASSUME ReconstructionAssumption ==
  /\ Time = 0..MaxTime
  /\ Interval \in Nat \ {0}
  /\ {MaxTime, MaxLosses, MaxChanges, MaxBirths} \subseteq Nat
  /\ ProcessKey \subseteq (Nat \ {0}) \X Nat

VARIABLES
  source,          \* the source of this behaviour
  now,
  polled,          \* the poll of this time was made
  losses,
  done,            \* the input has ended
  taken,           \* history: file events that got to the stage
  told,            \* history: FileChanged events
  born             \* history: processes whose birth was reported

fileHistory == <<taken, told>>
common == <<source, done>>
vars == <<networkVars, adapterVars, coalesceVars, focusVars, tableVars,
          source, now, polled, losses, done, fileHistory, born>>

Init ==
  /\ NetworkInit /\ AdapterInit /\ CoalesceInit /\ FocusInit /\ TableInit
  /\ source \in Sources
  /\ now = 0
  /\ polled = FALSE
  /\ losses = 0
  /\ done = FALSE
  /\ taken = {} /\ told = {}
  /\ born = {}

-----------------------------------------------------------------------------
PollDue == now % Interval = 0 /\ ~polled

StartPoll ==
  /\ PollDue
  /\ polled' = TRUE
  /\ PollNative \/ PollNativeFails \/ PollNetstat
  /\ UNCHANGED losses

WalkStep ==
  /\ \/ FetchHalf \/ EndPoll
     \/ \E s \in Socket : EmitRow(s, now)
  /\ UNCHANGED <<polled, losses>>

LostRow ==
  /\ losses < MaxLosses
  /\ losses' = losses + 1
  /\ \E s \in Socket : LoseRow(s)
  /\ UNCHANGED polled

Traffic ==
  /\ \E s \in Socket : OpenSocket(s) \/ CloseSocket(s)
  /\ UNCHANGED <<polled, losses>>

SocketStep ==
  /\ source = "sockets" /\ ~done
  /\ StartPoll \/ WalkStep \/ LostRow \/ Traffic
  /\ UNCHANGED <<coalesceVars, focusVars, tableVars, common, now, fileHistory, born>>

\* FSEvents calls back at any time; the ids count up.
FileStep ==
  /\ source = "files" /\ ~done
  /\ Cardinality(taken) < MaxChanges
  /\ \E p \in Path, id \in {NoId, Cardinality(taken) + 1} :
       /\ OnFileEvent(p, id, now)
       /\ taken' = taken \cup {[path |-> p, id |-> id, ts |-> now,
                                nth |-> Cardinality(taken) + 1]}
  /\ told' = told \cup changed'
  /\ UNCHANGED <<networkVars, adapterVars, focusVars, tableVars, common, now,
                 polled, losses, born>>

FocusStep ==
  /\ source = "focus" /\ ~done
  /\ \/ /\ \E r \in Reading : Activate(r)
        /\ UNCHANGED <<polled, losses>>
     \/ /\ PollDue
        /\ polled' = TRUE
        /\ \/ PollDiff(FALSE) /\ UNCHANGED losses
           \/ losses < MaxLosses /\ PollDiff(TRUE) /\ losses' = losses + 1
  /\ UNCHANGED <<networkVars, adapterVars, coalesceVars, tableVars, common, now,
                 fileHistory, born>>

\* Births come in any order of start times within a tick.
TableStep ==
  /\ source = "names" /\ ~done
  /\ \E k \in ProcessKey :
       \/ /\ nextSeq < MaxBirths
          /\ InsertEntry(k, Ppid(k))
          /\ born' = born \cup {k}
       \/ /\ k \in DOMAIN byKey => byKey[k].alive
          /\ MarkDead(k)
          /\ UNCHANGED born
  /\ UNCHANGED <<networkVars, adapterVars, coalesceVars, focusVars, common, now,
                 polled, losses, fileHistory>>

\* on_tick_complete, which is there for the end of the input: neither the
\* daemon nor the aw-events tool makes this call, but a caller may.
EndOfInput ==
  /\ ~done /\ ~polling
  /\ done' = TRUE
  /\ OnTickComplete(now)
  /\ FlushAll
  /\ told' = told \cup changed'
  /\ UNCHANGED <<adapterVars, focusVars, tableVars, source, now, polled, losses,
                 taken, born>>

\* The rows of one half follow each other within the gap; netstat takes its
\* time.
Advance ==
  /\ source # "names" /\ ~done
  /\ now < MaxTime
  /\ rows = {}
  /\ now' = now + 1
  /\ polled' = FALSE
  /\ UNCHANGED <<networkVars, adapterVars, coalesceVars, focusVars, tableVars,
                 common, losses, fileHistory, born>>

Next ==
  \/ SocketStep \/ FileStep \/ FocusStep \/ TableStep
  \/ EndOfInput \/ Advance

Spec == Init /\ [][Next]_vars

-----------------------------------------------------------------------------
(* Properties of the coalescer and of the table; NetworkLifecycle,          *)
(* NetworkAdapter and WindowFocus have the others.                          *)

With(e) == {t \in taken : t.path = e.path /\ e.first <= t.ts /\ t.ts <= e.last}

\* Every change of a file is reported once, with the others of its window and
\* path and no later than the first change of a later window: told now or
\* still gathered, never both, and dated when it happened.
EachChangeOnce ==
  LET gathered == {[path |-> p, ids |-> buffer[p].ids, first |-> buffer[p].first,
                    last |-> buffer[p].last] : p \in DOMAIN buffer}
      reports == told \cup gathered
  IN /\ \A t \in taken : \E e \in reports : t \in With(e)
     /\ \A e \in reports :
          /\ WindowOf(e.first) = WindowOf(e.last)
          /\ ToSet(e.ids) = {t.id : t \in With(e)} \ {NoId}
          /\ Cardinality({t \in With(e) : t.id # NoId}) = Len(e.ids)
     /\ \A d \in told, e \in reports : d # e /\ d.path = e.path =>
          d.last < e.first \/ e.last < d.first
     /\ \A e \in told : e.last <= e.ts /\ WindowOf(e.ts) = WindowOf(e.first)
     /\ \A e \in gathered : WindowOf(e.first) = currentWindow
     /\ done => gathered = {}

IsAncestry(pid, above) ==
  /\ Cardinality({k[1] : k \in ToSet(above)}) = Len(above)
  /\ \A i \in DOMAIN above :
       LET below == IF i = 1 THEN pid ELSE above[i - 1][1]
       IN above[i][1] \in ParentPid(below)

\* A raw pid resolves to the youngest process of that pid ever reported, and
\* its ancestors one by one to theirs, whatever was evicted to make room; and
\* the table is over its capacity only with entries it cannot do without.
NamesResolve ==
  /\ \A p \in {k[1] : k \in born} :
       \E a \in Annotation(p) :
         /\ a.process[1] = p
         /\ \A k \in born : k[1] = p => k[2] <= a.process[2]
         /\ IsAncestry(p, a.ancestors)
  /\ \A p \in {k[1] : k \in ProcessKey \ born} :
       Annotation(p) = {} <=> \A k \in born : k[1] # p
  /\ Cardinality(DOMAIN byKey) > Cap => DOMAIN byKey = Latest(latestByPid)
=============================================================================
