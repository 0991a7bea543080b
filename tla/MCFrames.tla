------------------------------- MODULE MCFrames -------------------------------
(***************************************************************************)
(* Frames for the model-checking modules, one per case the receiving code  *)
(* tells apart. With MaxShort = 3 and MaxMedium = 4, lengths of every form *)
(* fit in a few bytes.                                                     *)
(***************************************************************************)
EXTENDS Integers, Sequences

Frame(fin, op, form, data) ==
    [fin |-> fin, rsv |-> FALSE, op |-> op, masked |-> TRUE,
     form |-> form, data |-> data]

\* A frame as a server sends it, not masked.
Bare(f) == [f EXCEPT !.masked = FALSE]

\* Whole messages and control frames.
TextFrame    == Frame(TRUE, 1, "short", <<"a">>)
PingFrame    == Frame(TRUE, 9, "short", <<>>)
Close1Frame  == Frame(TRUE, 8, "short", <<"a">>)

\* A text whose two-byte character is split over two frames: without Middle it is
\* not UTF-8.
TextStart    == Frame(FALSE, 1, "short", <<"hi">>)
Middle       == Frame(FALSE, 0, "short", <<"lo">>)
LongMiddle   == Frame(FALSE, 0, "long", <<"lo", "a", "a", "a", "a">>)
Ending       == Frame(TRUE, 0, "short", <<>>)

\* What a peer should not send.
MediumOp3    == Frame(TRUE, 3, "medium", <<"a", "a", "a", "a">>)
Unmasked     == Bare(TextFrame)
PingNoFin    == [PingFrame EXCEPT !.fin = FALSE]
PingRsv      == [PingFrame EXCEPT !.rsv = TRUE]
PingTooLong  == Frame(TRUE, 9, "medium", <<"a", "a", "a", "a">>)
Overlong     == Frame(TRUE, 1, "medium", <<"a">>)

=============================================================================
