----------------------------- MODULE MCAcceptLoop -----------------------------
(* AcceptLoop with one request that is taken, which may have empty lines       *)
(* before it, one that is refused and one that makes the handshake panic.      *)
EXTENDS AcceptLoop, MCHeads

MCRequests ==
    {GoodRequest, [GoodRequest EXCEPT !.parses = FALSE],
     [GoodRequest EXCEPT !.connection = {Opaque}]}

MCPreceded == {GoodRequest}

=============================================================================
