----------------------------- MODULE MessageCodec -----------------------------
(***************************************************************************)
(* The asynchronous receiving side: MessageCodec over DataFrameCodec       *)
(* (codec/ws.rs) in the Framed of tokio. Framed, which is not part of the  *)
(* repository, is modelled from its contract with the codec: it reads what *)
(* has arrived into src, decodes until the codec asks for more, and parks  *)
(* the task until the socket is readable. The codec holds no part of a     *)
(* frame: it reads the header again from the start of src at every call.   *)
(***************************************************************************)
EXTENDS Dataframe

CONSTANTS
    Frames, ShouldBeMasked, MaxFrames, MaxEmptyCalls    \* see MessageStream

ASSUME CodecAssumption ==
    /\ \A f \in Frames : IsFrame(f)
    /\ ShouldBeMasked \in BOOLEAN
    /\ MaxFrames \in Nat
    /\ MaxEmptyCalls \in Nat

VARIABLES
    wire, consumed, buffer, results,   \* see MessageStream
    net,       \* bytes sent and not yet read from the socket
    src,       \* the bytes Framed holds for the codec
    last,      \* the last byte Framed has read (a history; NoByte before the first)
    gone,      \* the peer is gone: nothing follows what is in net
    eof,       \* Framed has read the end of the stream
    readable,  \* Framed will decode src before it reads again
    ended      \* the stream of messages has ended (None)

ioVars == <<net, last, gone, eof>>
vars   == <<wire, consumed, buffer, results, src, readable, ended, ioVars>>

NoByte == [frame |-> 0, k |-> 0]

Init ==
    /\ wire = <<>> /\ consumed = 0 /\ buffer = <<>> /\ results = <<>>
    /\ net = <<>> /\ src = <<>> /\ last = NoByte
    /\ gone = FALSE /\ eof = FALSE /\ ended = FALSE
    /\ readable = FALSE

MS == INSTANCE MessageStream
          WITH Frames <- Frames, ShouldBeMasked <- ShouldBeMasked,
               MaxFrames <- MaxFrames, MaxEmptyCalls <- MaxEmptyCalls,
               wire <- wire, consumed <- consumed, buffer <- buffer, results <- results

\* The k-th byte of the i-th frame of the wire.
BytesOf(i, f) == [k \in 1..WireLen(f) |-> [frame |-> i, k |-> k]]

-----------------------------------------------------------------------------
(* The peer, and Framed *)

PeerSends(f) ==
    /\ ~gone
    /\ Len(wire) < MaxFrames
    /\ wire' = Append(wire, f)
    /\ net' = net \o BytesOf(Len(wire) + 1, f)
    /\ UNCHANGED <<consumed, buffer, results, src, last, gone, eof, readable, ended>>

\* The connection is lost after any number of the bytes sent.
PeerGone ==
    /\ ~gone
    /\ gone' = TRUE
    /\ \E n \in 0..Len(net) : net' = SubSeq(net, 1, n)
    /\ UNCHANGED <<wire, consumed, buffer, results, src, last, eof, readable, ended>>

\* Framed reads when the codec has asked for more: some bytes, or the end.
ReadSocket(n) ==
    /\ ~readable /\ ~eof
    /\ src' = src \o SubSeq(net, 1, n)
    /\ net' = SubSeq(net, n + 1, Len(net))
    /\ last' = net[n]
    /\ readable' = TRUE
    /\ UNCHANGED <<wire, consumed, buffer, results, gone, eof, ended>>

ReadEof ==
    /\ ~readable /\ ~eof
    /\ gone /\ net = <<>>
    /\ eof' = TRUE
    /\ readable' = TRUE
    /\ UNCHANGED <<wire, consumed, buffer, results, net, src, last, gone, ended>>

-----------------------------------------------------------------------------
(* DataFrameCodec::decode *)

\* The frame src begins with, and what the codec can tell of it.
head == wire[src[1].frame]

HasLength == Len(src) >= 2 /\ Len(src) >= 2 + ExtLen(head.form)
HasFault  == HasLength /\ HeaderFault(head) # "none"
HasFrame  == HasLength /\ ~HasFault /\ Len(src) >= WireLen(head)

\* A poll of the stream reaches the codec.
Polled == readable /\ ~ended

Emit(out, from, cut) == results' = Append(results, MS!Result(out, from, cut))

\* A bad header is an error that leaves src as it was: every later poll repeats it.
BadHeader ==
    /\ Polled /\ HasFault
    /\ ~MS!Synced => MS!EmptyCalls < MaxEmptyCalls
    /\ Emit(Err(HeaderFault(head)), <<>>, TRUE)
    /\ UNCHANGED <<wire, consumed, buffer, ioVars, src, readable, ended>>

\* Mutant: asks for more when src holds exactly one frame.
AskTooEarly ==
    /\ Polled /\ ~HasFault
    /\ HasFrame => Len(src) = WireLen(head)
    /\ ~eof
    /\ readable' = FALSE
    /\ UNCHANGED <<wire, consumed, buffer, results, ioVars, src, ended>>

\* Not enough bytes: decode answers None and Framed goes back to the socket.
AskForMore ==
    /\ Polled /\ ~HasFault /\ ~HasFrame
    /\ ~eof
    /\ readable' = FALSE
    /\ UNCHANGED <<wire, consumed, buffer, results, ioVars, src, ended>>

\* At the end of the stream None ends it, or bytes are left over: an IoError,
\* at this poll and every later one.
DecodeEof ==
    /\ Polled /\ ~HasFault /\ ~HasFrame
    /\ eof
    /\ IF src = <<>>
       THEN /\ ended' = TRUE
            /\ UNCHANGED results
       ELSE /\ MS!EmptyCalls < MaxEmptyCalls
            /\ Emit(Err("IoError"), <<>>, TRUE)
            /\ UNCHANGED ended
    /\ UNCHANGED <<wire, consumed, buffer, ioVars, src, readable>>

\* Mutant: the key is not counted in what is split off.
TakeWithoutKey ==
    /\ Polled /\ HasFrame
    /\ src' = SubSeq(src, WireLen(head) - KeyLen(head.masked) + 1, Len(src))
    /\ consumed' = consumed + 1
    /\ UNCHANGED <<wire, ioVars, readable, ended>>

\* Mutant: src is emptied, not split at the end of the frame.
TakeEverything ==
    /\ Polled /\ HasFrame
    /\ src' = <<>>
    /\ consumed' = consumed + 1
    /\ UNCHANGED <<wire, ioVars, readable, ended>>

\* The whole frame is split off src.
TakeFrame ==
    /\ Polled /\ HasFrame
    /\ src' = SubSeq(src, WireLen(head) + 1, Len(src))
    /\ consumed' = consumed + 1
    /\ UNCHANGED <<wire, ioVars, readable, ended>>

-----------------------------------------------------------------------------
(* MessageCodec::decode: one turn of its loop for each frame *)

isFirst  == buffer = <<>>
maskFits == MaskFault(head, ShouldBeMasked) = "none"

Refuse(error) ==
    /\ Emit(Err(error), <<consumed + 1>>, FALSE)
    /\ UNCHANGED buffer

Deliver(from) == Emit(FromDataframes(MS!FramesOf(from)), from, FALSE)

RefuseBody ==
    /\ TakeFrame /\ ~maskFits
    /\ Refuse(MaskFault(head, ShouldBeMasked))

RefuseContinuation ==
    /\ TakeFrame /\ maskFits
    /\ head.op = Continuation /\ isFirst
    /\ Refuse("UnexpectedContinuation")

ControlFrame ==
    /\ TakeFrame /\ maskFits
    /\ head.op \in ControlOps
    /\ Deliver(<<consumed + 1>>)
    /\ UNCHANGED buffer

RefuseData ==
    /\ TakeFrame /\ maskFits
    /\ head.op \in DataOps /\ ~isFirst
    /\ Refuse("UnexpectedOpcode")

ItsGood ==
    \/ head.op = Continuation /\ ~isFirst
    \/ head.op \in DataOps /\ isFirst

\* Mutant: decode goes round for a fragment it neither takes nor keeps.
PushFrameSpins ==
    /\ Polled /\ HasFrame /\ maskFits /\ ItsGood
    /\ ~head.fin
    /\ UNCHANGED vars

PushFrame ==
    /\ TakeFrame /\ maskFits /\ ItsGood
    /\ ~head.fin
    /\ buffer' = Append(buffer, consumed + 1)
    /\ UNCHANGED results

\* Mutant: the fragments are copied, not taken, from the buffer.
FinishAndKeep ==
    /\ TakeFrame /\ maskFits /\ ItsGood
    /\ head.fin
    /\ UNCHANGED buffer
    /\ Deliver(Append(buffer, consumed + 1))

FinishMessage ==
    /\ TakeFrame /\ maskFits /\ ItsGood
    /\ head.fin
    /\ buffer' = <<>>
    /\ Deliver(Append(buffer, consumed + 1))

Decode ==
    \/ BadHeader \/ AskForMore \/ DecodeEof
    \/ RefuseBody \/ RefuseContinuation \/ ControlFrame \/ RefuseData
    \/ PushFrame \/ FinishMessage

ReadSome == (\E n \in 1..Len(net) : ReadSocket(n)) \/ ReadEof

Next ==
    \/ \E f \in Frames : PeerSends(f)
    \/ PeerGone
    \/ ReadSome
    \/ Decode

Spec == Init /\ [][Next]_vars

\* The executor polls the task when its socket is readable, and the caller polls
\* the stream again after each of its items.
FairSpec == Spec /\ WF_vars(ReadSome) /\ WF_vars(Decode)

-----------------------------------------------------------------------------
(* Properties *)

\* The codec hands its caller what MessageStream promises: the same results for
\* the same frames as the blocking Receiver, however the bytes are cut up.
ImplementsMessageStream == MS!Spec

\* The codec never stands inside a frame, whatever it has reported: src always
\* begins with the first byte of the first frame it has not taken.
AlwaysAtFrameStart ==
    src \o net # <<>> => (src \o net)[1] = [frame |-> consumed + 1, k |-> 1]

\* Framed waits for the socket only when src holds nothing to hand over: neither
\* a whole frame nor a header it can already refuse.
NeverParkedOnWork == ~readable => ~HasFrame /\ ~HasFault

\* The stream of messages ends quietly only where a frame ends: the last byte that
\* came is the last byte of the last frame taken.
NoQuietTruncation ==
    ended => \/ last = NoByte
             \/ last = [frame |-> consumed, k |-> WireLen(wire[consumed])]

\* A lost connection is noticed: the stream ends or reports an error.
LossNoticed == gone ~> (ended \/ ~MS!Synced)

=============================================================================
