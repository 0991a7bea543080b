---------------------------- MODULE MCFrameWriter ----------------------------
(* FrameWriter over messages of every length form, with and without a code.   *)
EXTENDS FrameWriter

Send(op, code, len) == [op |-> op, code |-> code, len |-> len]

MCSends ==
    {Send(1, FALSE, 0), Send(1, FALSE, 5), Send(2, FALSE, 7),
     Send(8, FALSE, 0), Send(8, TRUE, 0), Send(8, TRUE, 1),
     Send(9, FALSE, 4), Send(16, FALSE, 1)}

=============================================================================
