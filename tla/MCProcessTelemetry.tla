------------------------- MODULE MCProcessTelemetry -------------------------
(* Two pids, one of them reused.  A quantum stands for 250 ms: the gap is   *)
(* one quantum, and the interval two, the shortest the scheduler allows.    *)
EXTENDS ProcessTelemetry

MCProcessKey == {<<1, 1>>, <<1, 2>>, <<2, 1>>}
MCTime == 0..MaxTime

Changes(p) == 2 * used[p] - (IF occupant[p] = 0 THEN 0 ELSE 1)

\* One gap of whatever kind, which leaves the time for a wrong report to be
\* followed by three calm ticks; a few births and deaths, those before the
\* capture included; and drops in the bus at the first poll only, which widen
\* the interval early or never.
MCFewUpsets ==
  /\ dropped + unread + stalls <= 1
  /\ Changes(1) + Changes(2) <= 4
  /\ drops => now = 0
=============================================================================
