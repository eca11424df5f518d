---------------------------- MODULE ProcessTable ----------------------------
(***************************************************************************)
(* aw-events/src/process_table.rs, and its use in src/lib.rs: the index of *)
(* processes that Layer 2 fills from birth and death events and resolves   *)
(* the raw pids of the other events with.                                  *)
(*                                                                         *)
(* A process is its key, <<pid, start_unix_secs>>; of an entry the parent's *)
(* pid, whether it is alive and its insertion number are kept.             *)
(***************************************************************************)
EXTENDS Integers, Sequences, FiniteSets, SequencesExt, Maps

CONSTANTS
  Cap,             \* CAP (8192)
  MaxAncestors     \* MAX_ANCESTORS (32)

ASSUME TableAssumption == {Cap, MaxAncestors} \subseteq Nat

VARIABLES
  byKey,           \* HashMap key -> [ppid, alive, seq]
  latestByPid,     \* HashMap pid -> key
  nextSeq

tableVars == <<byKey, latestByPid, nextSeq>>

TableInit == byKey = <<>> /\ latestByPid = <<>> /\ nextSeq = 0

Latest(latest) == {latest[p] : p \in DOMAIN latest}

\* The oldest entry that no pid resolves to.
Victims(entries, latest) ==
  LET spare == DOMAIN entries \ Latest(latest)
  IN {k \in spare : \A j \in spare : entries[k].seq <= entries[j].seq}

\* Mutant: the oldest entry of all.
EvictOldest(entries, latest) ==
  IF Cardinality(DOMAIN entries) <= Cap THEN entries
  ELSE Restrict(entries, {k \in DOMAIN entries :
                            \E j \in DOMAIN entries : entries[j].seq < entries[k].seq})

\* evict_if_needed: one entry at most, and none if every entry is a latest one.
Evicted(entries, latest) ==
  IF Cardinality(DOMAIN entries) <= Cap THEN entries
  ELSE Restrict(entries, DOMAIN entries \ Victims(entries, latest))

\* insert, from a birth event.
InsertEntry(key, ppid) ==
  LET pid == key[1]
      latest == IF pid \in DOMAIN latestByPid /\ key[2] < latestByPid[pid][2]
                THEN latestByPid
                ELSE Put(latestByPid, pid, key)
      entry == [ppid |-> ppid, alive |-> TRUE, seq |-> nextSeq]
  IN /\ latestByPid' = latest
     /\ byKey' = Evicted(Put(byKey, key, entry), latest)
     /\ nextSeq' = nextSeq + 1

\* mark_dead, from a death event.
MarkDead(key) ==
  /\ byKey' = IF key \in DOMAIN byKey THEN [byKey EXCEPT ![key].alive = FALSE]
              ELSE byKey
  /\ UNCHANGED <<latestByPid, nextSeq>>

-----------------------------------------------------------------------------
\* by_pid: the entry's key, as a set that is empty if there is none.
ByPid(pid) ==
  {k \in DOMAIN byKey : pid \in DOMAIN latestByPid /\ latestByPid[pid] = k}

\* The pid to go on with from this one.
ParentPid(pid) == {p \in {byKey[k].ppid : k \in ByPid(pid)} : p > 1}

\* ancestors: from the parent upward, until a pid that was seen, that is not
\* in the table, or the limit.
Climb(pid, above) ==
  LET from == IF above = <<>> THEN pid ELSE Last(above)[1]
      next == {p \in ParentPid(from) : \A i \in DOMAIN above : above[i][1] # p}
      found == UNION {ByPid(p) : p \in next}
  IN IF found = {} THEN above ELSE Append(above, CHOOSE k \in found : TRUE)

Ancestors(pid) ==
  LET walk[n \in 0..MaxAncestors] == IF n = 0 THEN <<>> ELSE Climb(pid, walk[n - 1])
  IN walk[MaxAncestors]

\* annotate_pid_event: what an event of this pid is enriched with.
Annotation(pid) ==
  {[process |-> k, alive |-> byKey[k].alive, ancestors |-> Ancestors(pid)] :
     k \in ByPid(pid)}
=============================================================================
