-------------------------------- MODULE MCHeads --------------------------------
(* Heads of other programs that take every branch of the handshakes.          *)
EXTENDS Handshake

GoodRequest ==
    [parses |-> TRUE, get |-> TRUE, led |-> FALSE, key |-> "k1", version |-> "13",
     upgrade |-> {"websocket"}, connection |-> {"upgrade"}]
MCForeignRequests ==
    {GoodRequest,
     [GoodRequest EXCEPT !.upgrade = {"h2c", "websocket/13"},
                         !.connection = {"keep-alive", "upgrade"}],
     [GoodRequest EXCEPT !.upgrade = {"h2c"}], [GoodRequest EXCEPT !.parses = FALSE],
     [GoodRequest EXCEPT !.get = FALSE], [GoodRequest EXCEPT !.connection = {Opaque}],
     [GoodRequest EXCEPT !.key = Malformed], [GoodRequest EXCEPT !.led = TRUE],
     [GoodRequest EXCEPT !.led = TRUE, !.parses = FALSE]}

GoodResponse ==
    [parses |-> TRUE, status |-> "101", accept |-> "k1", upgrade |-> {"websocket"}]
MCForeignResponses ==
    {GoodResponse, [GoodResponse EXCEPT !.parses = FALSE],
     [GoodResponse EXCEPT !.status = "400"], [GoodResponse EXCEPT !.accept = Absent],
     [GoodResponse EXCEPT !.upgrade = {"h2c", "websocket"}]}

=============================================================================
