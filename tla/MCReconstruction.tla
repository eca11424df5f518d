-------------------------- MODULE MCReconstruction --------------------------
(* Sockets 1 and 2 share the address of connection 1.  A quantum is 250 ms  *)
(* for sockets, half a window for files.                                    *)
EXTENDS Reconstruction

MCTime == 0..MaxTime
MCKeyOf(s) == IF s = 3 THEN 2 ELSE 1
MCProtoOf(s) == IF s = 3 THEN "udp" ELSE "tcp"
MCReading == {[pid |-> 1, bundle |-> "a"], [pid |-> 2, bundle |-> "a"],
              [pid |-> 3, bundle |-> "b"], NoApp}
MCProcessKey == {<<2, 1>>, <<2, 2>>, <<2, 3>>, <<3, 1>>, <<4, 1>>, <<4, 2>>}
MCPpid(k) == IF k[1] = 4 THEN 3 ELSE IF k = <<2, 3>> THEN 1 ELSE 5 - k[1]
=============================================================================
