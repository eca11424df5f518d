----------------------- MODULE MCObservationPipeline -----------------------
(* A small instance: two adapters share the network source (sockets and    *)
(* DNS do), one serves processes, and every channel is smaller than a      *)
(* burst.                                                                  *)
EXTENDS ObservationPipeline, TLC

CONSTANTS sockets, dns, processes, Network, Process

MCSourceOf == (sockets :> Network) @@ (dns :> Network) @@ (processes :> Process)
=============================================================================
