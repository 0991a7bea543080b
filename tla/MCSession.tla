------------------------------- MODULE MCSession -------------------------------
(* Session with a peer that sends messages of each kind the programs tell     *)
(* apart, and a close that has a code and a reason.                           *)
EXTENDS Session

MCPeerMessages ==
    {TextMessage(<<"hi", "lo">>), PingMessage(<<"a">>), PingMessage(<<>>),
     CloseBecause(<<"hi", "a">>, <<"a">>)}

=============================================================================
