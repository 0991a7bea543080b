---------------------------- MODULE MessageStream ----------------------------
(***************************************************************************)
(* What receiving promises, whichever of the crate's two receiving sides   *)
(* is used: the blocking Receiver (module Receiver) and the asynchronous   *)
(* MessageCodec (module MessageCodec) both implement this specification.   *)
(*                                                                         *)
(* A peer sends frames; the endpoint takes them one by one, keeps the      *)
(* fragments of an unfinished message in `buffer`, and hands its caller    *)
(* one result per finished message, control frame or refused frame. A call *)
(* can also end for want of bytes (Interrupted), and the blocking side can *)
(* read a raw frame past the message in progress. When a result leaves     *)
(* part of a frame unread (`cut`), what later calls return is not          *)
(* specified.                                                              *)
(***************************************************************************)
EXTENDS Dataframe

CONSTANTS
    Frames,          \* the frames the peer can send
    ShouldBeMasked,  \* TRUE on a server, FALSE on a client
    MaxFrames,       \* bound: frames the peer sends
    MaxEmptyCalls    \* bound: calls that return without taking a frame

ASSUME StreamAssumption ==
    /\ \A f \in Frames : IsFrame(f)
    /\ ShouldBeMasked \in BOOLEAN
    /\ MaxFrames \in Nat
    /\ MaxEmptyCalls \in Nat

VARIABLES
    wire,      \* the frames sent so far, in order
    consumed,  \* how many of them the endpoint has taken whole
    buffer,    \* the fragments of the message in progress, as indices of wire
    results    \* what the calls have returned so far (a history)

vars == <<wire, consumed, buffer, results>>

\* One result: what the caller got, the frames it accounts for, and whether the
\* call stopped in the middle of a frame.
Result(out, from, cut) == [out |-> out, from |-> from, cut |-> cut]

\* What a call returns once the stream is cut is unspecified: another header
\* error, or Unknown, which stands for any result at all.
Unknown      == [kind |-> "unknown"]
HeaderFaults == {"InvalidLength", "ControlTooLong", "FragmentedControl"}
ReadFaults   == {"NoDataAvailable", "IoError"}

\* What recv_dataframe returns: the frame that its result is from.
RawFrameOut  == [kind |-> "frame"]

Init ==
    /\ wire = <<>>
    /\ consumed = 0
    /\ buffer = <<>>
    /\ results = <<>>

-----------------------------------------------------------------------------
FramesOf(from) == [k \in DOMAIN from |-> wire[from[k]]]
EmptyCalls     == Cardinality({r \in DOMAIN results : results[r].from = <<>>})
Synced         == \A r \in DOMAIN results : ~results[r].cut

PeerSends(f) ==
    /\ Len(wire) < MaxFrames
    /\ wire' = Append(wire, f)
    /\ UNCHANGED <<consumed, buffer, results>>

\* The next frame is on the wire, and nothing is wrong with its header.
FrameReady ==
    /\ Synced
    /\ consumed < Len(wire)
    /\ HeaderFault(wire[consumed + 1]) = "none"

NextFrame == wire[consumed + 1]
MaskFits  == MaskFault(NextFrame, ShouldBeMasked) = "none"

\* Mutant: an error throws the message in progress away.
RefuseForgets(error) ==
    /\ results' = Append(results, Result(Err(error), <<consumed + 1>>, FALSE))
    /\ consumed' = consumed + 1
    /\ buffer' = <<>>
    /\ UNCHANGED wire

\* The next frame is taken and answered by itself: the message in progress keeps its
\* fragments.
TakeAlone(out) ==
    /\ results' = Append(results, Result(out, <<consumed + 1>>, FALSE))
    /\ consumed' = consumed + 1
    /\ UNCHANGED <<wire, buffer>>

\* A frame whose body is refused has been taken from the stream.
Refuse(error) == TakeAlone(Err(error))

Deliver(from) ==
    /\ results' = Append(results, Result(FromDataframes(FramesOf(from)), from, FALSE))
    /\ consumed' = consumed + 1
    /\ UNCHANGED wire

WrongMask ==
    /\ FrameReady /\ ~MaskFits
    /\ Refuse(MaskFault(NextFrame, ShouldBeMasked))

\* Mutant: every continuation frame is an orphan.
OrphanAlways ==
    /\ FrameReady /\ MaskFits
    /\ NextFrame.op = Continuation
    /\ Refuse("UnexpectedContinuation")

OrphanContinuation ==
    /\ FrameReady /\ MaskFits
    /\ NextFrame.op = Continuation /\ buffer = <<>>
    /\ Refuse("UnexpectedContinuation")

\* Mutant: a whole message is accepted in the middle of another.
AcceptInterleaved ==
    /\ FrameReady /\ MaskFits
    /\ NextFrame.op \in DataOps /\ buffer # <<>>
    /\ Deliver(<<consumed + 1>>)
    /\ UNCHANGED buffer

\* Mutant: the misplaced frame is skipped and nobody is told.
SkipDataFrame ==
    /\ FrameReady /\ MaskFits
    /\ NextFrame.op \in DataOps /\ buffer # <<>>
    /\ consumed' = consumed + 1
    /\ UNCHANGED <<wire, buffer, results>>

\* The message in progress survives the refused frame.
UnexpectedDataFrame ==
    /\ FrameReady /\ MaskFits
    /\ NextFrame.op \in DataOps /\ buffer # <<>>
    /\ Refuse("UnexpectedOpcode")

\* Mutant: the fragments are thrown away with the control frame.
ControlEmptiesBuffer ==
    /\ FrameReady /\ MaskFits
    /\ NextFrame.op \in ControlOps
    /\ Deliver(<<consumed + 1>>)
    /\ buffer' = <<>>

ControlFrame ==
    /\ FrameReady /\ MaskFits
    /\ NextFrame.op \in ControlOps
    /\ Deliver(<<consumed + 1>>)
    /\ UNCHANGED buffer

Fits == IF buffer = <<>> THEN NextFrame.op \in DataOps ELSE NextFrame.op = Continuation

\* Mutant: the fragment is looked at and not taken.
PeekFragment ==
    /\ FrameReady /\ MaskFits /\ Fits /\ ~NextFrame.fin
    /\ buffer' = Append(buffer, consumed + 1)
    /\ UNCHANGED <<wire, consumed, results>>

Fragment ==
    /\ FrameReady /\ MaskFits /\ Fits /\ ~NextFrame.fin
    /\ buffer' = Append(buffer, consumed + 1)
    /\ consumed' = consumed + 1
    /\ UNCHANGED <<wire, results>>

\* Mutant: a message is handed over before its last frame.
FinishEarly ==
    /\ FrameReady /\ MaskFits /\ Fits
    /\ Deliver(Append(buffer, consumed + 1))
    /\ buffer' = <<>>

FinishMessage ==
    /\ FrameReady /\ MaskFits /\ Fits /\ NextFrame.fin
    /\ Deliver(Append(buffer, consumed + 1))
    /\ buffer' = <<>>

\* A raw frame is taken out of the stream and of any message it is a fragment of.
RawFrame == FrameReady /\ MaskFits /\ TakeAlone(RawFrameOut)

TakeFrame ==
    \/ WrongMask \/ OrphanContinuation \/ UnexpectedDataFrame
    \/ ControlFrame \/ Fragment \/ FinishMessage
    \/ RawFrame

\* A bad header is reported before the rest of the frame is read: it leaves the
\* stream cut unless the frame had no more bytes.
BadHeader ==
    /\ Synced
    /\ consumed < Len(wire)
    /\ HeaderFault(NextFrame) # "none"
    /\ \/ Refuse(HeaderFault(NextFrame))
       \/ /\ results' = Append(results, Result(Err(HeaderFault(NextFrame)), <<>>, TRUE))
          /\ UNCHANGED <<wire, consumed, buffer>>

\* A call that ends for want of bytes, between two frames or inside one.
Interrupted ==
    /\ Synced
    /\ EmptyCalls < MaxEmptyCalls
    /\ \E e \in ReadFaults, cut \in BOOLEAN :
          results' = Append(results, Result(Err(e), <<>>, cut))
    /\ UNCHANGED <<wire, consumed, buffer>>

Unspecified ==
    /\ ~Synced
    /\ EmptyCalls < MaxEmptyCalls
    /\ \E out \in {Unknown} \cup {Err(e) : e \in HeaderFaults \cup ReadFaults} :
          results' = Append(results, Result(out, <<>>, TRUE))
    /\ UNCHANGED <<wire, consumed, buffer>>

Next ==
    \/ \E f \in Frames : PeerSends(f)
    \/ TakeFrame
    \/ BadHeader
    \/ Interrupted
    \/ Unspecified

Spec == Init /\ [][Next]_vars

-----------------------------------------------------------------------------
(* Properties *)

\* Results over the first n frames.
ResultsTyped(n, rs) ==
    /\ rs \in Seq(ToSet(rs))
    /\ \A r \in DOMAIN rs :
          /\ rs[r] = Result(rs[r].out, rs[r].from, rs[r].cut)
          /\ rs[r].from \in Seq(1..n)
          /\ rs[r].cut \in BOOLEAN

TypeOK ==
    /\ wire \in Seq(Frames)
    /\ consumed \in 0..Len(wire)
    /\ buffer \in Seq(1..consumed)
    /\ ResultsTyped(consumed, results)

\* Every frame taken from the stream is accounted for exactly once: by one result,
\* or by the message in progress.
FramesAccountedFor ==
    \A i \in 1..consumed :
        \/ /\ i \in ToSet(buffer)
           /\ \A r \in DOMAIN results : i \notin ToSet(results[r].from)
        \/ /\ i \notin ToSet(buffer)
           /\ \E r \in DOMAIN results :
                 /\ i \in ToSet(results[r].from)
                 /\ \A q \in DOMAIN results \ {r} : i \notin ToSet(results[q].from)

Completes(r) == results[r].from[Len(results[r].from)]
DataMessage(r) ==
    results[r].out.kind = "message" /\ results[r].out.op \in DataOps

\* Results come in the order in which the frames that complete them were sent, and
\* two data messages never interleave: a control frame overtakes the message it
\* interrupts, and nothing else does.
ResultsInOrder ==
    \A q, r \in DOMAIN results :
        q < r /\ results[q].from # <<>> /\ results[r].from # <<>> =>
            /\ Completes(q) < Completes(r)
            /\ DataMessage(q) /\ DataMessage(r) => Completes(q) < results[r].from[1]

\* A delivered text or binary message is one whole message as it was sent: it
\* starts at a data frame, continues with continuation frames and ends at the
\* only frame that is marked as the last.
WholeMessages ==
    \A r \in DOMAIN results :
        DataMessage(r) =>
            LET fs == FramesOf(results[r].from) IN
            /\ results[r].out.op = fs[1].op
            /\ \A k \in 2..Len(fs) : fs[k].op = Continuation
            /\ \A k \in DOMAIN fs : fs[k].fin <=> k = Len(fs)

\* The frames between the first and the last frame of a message that are not
\* its own are control frames or were each reported to the caller, as an error or
\* raw: the pieces of a message are never put together across a silent gap.
NoSilentGap ==
    \A r \in DOMAIN results :
        results[r].from # <<>> =>
        \A i \in results[r].from[1]..Completes(r) :
            \/ i \in ToSet(results[r].from)
            \/ wire[i].op \in ControlOps
            \/ \E q \in 1..(r - 1) :
                  results[q].from = <<i>> /\ results[q].out.kind \in {"error", "frame"}

\* The check for a continuation frame in from_dataframes never fails: the receiver
\* has already refused what would fail it.
NoLateRefusal ==
    \A r \in DOMAIN results : results[r].out # Err("NonContinuation")

\* A step changes the message in progress only by taking a frame: it adds that
\* frame, or hands over the message with all its fragments. No error and no
\* control frame loses a fragment.
FragmentsKept ==
    [][ buffer' # buffer =>
          \/ buffer' = Append(buffer, consumed') /\ results' = results
          \/ /\ buffer' = <<>>
             /\ Len(results') = Len(results) + 1
             /\ results'[Len(results')].from = Append(buffer, consumed') ]_vars

-----------------------------------------------------------------------------
(* A peer that keeps the rules of fragmentation *)

DataBefore(i) == {j \in 1..(i - 1) : wire[j].op \notin ControlOps}
Latest(S)     == CHOOSE j \in S : \A k \in S : k <= j

OpenBefore(i) == DataBefore(i) # {} /\ ~wire[Latest(DataBefore(i))].fin

KeepsRules(i) ==
    /\ HeaderFault(wire[i]) = "none"
    /\ MaskFault(wire[i], ShouldBeMasked) = "none"
    /\ ~wire[i].rsv
    /\ wire[i].op \in {Continuation, Text, Binary, Close, Ping, Pong}
    /\ wire[i].op \notin ControlOps => (wire[i].op = Continuation <=> OpenBefore(i))

\* The frames of the message whose last frame is i.
MessageEndingAt(i) ==
    IF wire[i].op \in ControlOps THEN {i}
    ELSE LET starts == {j \in 1..i : wire[j].op \in DataOps}
         IN  {j \in Latest(starts)..i : wire[j].op \notin ControlOps}

\* With a peer that keeps the rules and a caller that reads no raw frame, every
\* message the peer has finished is returned whole, once, with no error but for
\* content that is not UTF-8 or a close payload of one byte.
RulesKeptMeansDelivered ==
    (/\ \A i \in 1..consumed : KeepsRules(i)
     /\ \A r \in DOMAIN results : results[r].out # RawFrameOut)
    =>
        \A i \in 1..consumed :
            wire[i].fin =>
                \E r \in DOMAIN results :
                    /\ ToSet(results[r].from) = MessageEndingAt(i)
                    /\ \/ results[r].out.kind = "message"
                       \/ results[r].out \in {Err("Utf8"), Err("NoDataAvailable")}

=============================================================================
