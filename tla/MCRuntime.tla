----------------------------- MODULE MCRuntime ------------------------------
EXTENDS Runtime, TLC

CONSTANTS web, rpc, peer

ThreeClients == {web, rpc, peer}
ThreeVia     == (web :> "http") @@ (rpc :> "grpc") @@ (peer :> "amqp")
=============================================================================
