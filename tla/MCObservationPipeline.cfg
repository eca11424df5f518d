SPECIFICATION FairSpec
CONSTANTS
  sockets = sockets
  dns = dns
  processes = processes
  Network = Network
  Process = Process
  Adapter = {sockets, dns, processes}
  Source = {Network, Process}
  SourceOf <- MCSourceOf
  BusCapacity = 2
  DrainCapacity = 2
  ReconCapacity = 1
  MaxOffered = 2
INVARIANTS
  TypeOK
  BusAccounting
  NoSilentLoss
  ForwardedIsSafe
PROPERTIES
  ImplementsLossyFifo
  BusAlwaysDrains
  ForwardedIsDelivered
