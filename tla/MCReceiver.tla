------------------------------ MODULE MCReceiver ------------------------------
(* Receiver on a client's stream, over frames of every form: those of a server  *)
(* are not masked, and one that is has a key to read and is refused after it.   *)
EXTENDS Receiver, MCFrames

MCFramesSent ==
    {Bare(f) : f \in {TextStart, LongMiddle, Ending, PingFrame, Overlong}}
        \cup {TextFrame}

=============================================================================
