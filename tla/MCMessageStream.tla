--------------------------- MODULE MCMessageStream ---------------------------
(* MessageStream on a server, over the frames that take every branch.       *)
EXTENDS MessageStream, MCFrames

MCShouldBeMasked == TRUE
MCFramesSent ==
    {TextFrame, TextStart, Middle, Ending, PingFrame, Close1Frame,
     Unmasked, PingNoFin}

=============================================================================
