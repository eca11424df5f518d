---------------------------- MODULE MCNarration ----------------------------
(* Processes <<2, 1>> and <<2, 2>> run the same program one after the other *)
(* under process 1, whose program is noise; socket 1 goes to a port that is *)
(* looked at.                                                              *)
EXTENDS Narration

MCProcessId == {<<1, 1>>, <<2, 1>>, <<2, 2>>}
MCComm(k) == k[1]
MCParentPid(k) == IF k[1] = 1 THEN 0 ELSE 1
MCEndpoint(s) == s
MCDirectory(f) == f
MCCeiling(counts) == Max(ToSet(counts))

\* A day has two hours of 2 quanta; the daemon starts with the third day.
Died(ts) == [kind |-> "process_death", ts |-> ts, process |-> <<2, 1>>]
Asked(ts) == [kind |-> "dns_query", ts |-> ts, qname |-> None, hash |-> None,
              client |-> 2, comm |-> None]
MCStores == {[rows |-> <<Died(1), Died(4), Died(5), Asked(2)>>,
              children |-> <<1, 1>>, span |-> 0]}
NewStores == {[rows |-> <<>>, children |-> <<>>, span |-> 0]}

\* A name in clear, a masked one, one from a client that the process table calls
\* otherwise, and a line without name and hash, from another client.
Told(pid, qname, hash, client, comm) ==
  [pid |-> pid, qname |-> qname, hash |-> hash, client |-> client, comm |-> comm]
ClearQueries(clients) == {Told(c, d, d, c, None) : c \in clients, d \in Domain}
MCQuery ==
  ClearQueries({2}) \cup {Told(2, None, d, 2, None) : d \in Domain}
    \cup {Told(1, d, d, 2, 1) : d \in Domain} \cup {Told(1, None, None, 1, None)}
MergeQuery == ClearQueries({2, 3})

MCMixes == {{"process", "dns"}, {"socket"}, {"file", "focus"}}
MCSymmetry == Permutations(App) \cup Permutations(Domain)
MergeProcessId == {<<2, 1>>, <<3, 1>>}
MergeMixes == {{"process", "dns"}}
=============================================================================
