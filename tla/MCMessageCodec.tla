---------------------------- MODULE MCMessageCodec ----------------------------
(* MessageCodec on a server's stream, over frames of every length form.       *)
EXTENDS MessageCodec, MCFrames

MCFramesSent ==
    {TextStart, LongMiddle, Ending, PingFrame, MediumOp3, Unmasked, PingTooLong, PingRsv}

=============================================================================
