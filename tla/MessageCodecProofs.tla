-------------------------- MODULE MessageCodecProofs --------------------------
(***************************************************************************)
(* What MessageCodec guarantees for any frames, however their bytes are    *)
(* cut up: it implements MessageStream, stands at the start of a frame,    *)
(* never parks on work and never ends quietly inside a frame.              *)
(***************************************************************************)
EXTENDS MessageCodec, TLAPS

\* MessageStream again, with the theorems about it and about the bytes of frames.
Promise == INSTANCE MessageStreamProofs
               WITH Frames <- Frames, ShouldBeMasked <- ShouldBeMasked,
                    MaxFrames <- MaxFrames, MaxEmptyCalls <- MaxEmptyCalls,
                    wire <- wire, consumed <- consumed, buffer <- buffer, results <- results

\* What MessageStream assumes of its constants is assumed here.
LEMMA PromiseAssumed == Promise!StreamAssumption /\ Promise!LengthAssumption
BY LengthAssumption, CodecAssumption
   DEF Promise!StreamAssumption, Promise!LengthAssumption, Promise!IsFrame, IsFrame,
       Promise!Form, Form, Promise!Opcode, Opcode, Promise!Byte, Byte

\* Its frames are those of this module.
LEMMA SameFrames ==
    \A f : /\ Promise!IsFrame(f) <=> IsFrame(f)
           /\ Promise!WireLen(f) = WireLen(f)
BY DEF Promise!IsFrame, IsFrame, Promise!WireLen, WireLen, Promise!HeaderLen, HeaderLen,
       Promise!ExtLen, ExtLen, Promise!KeyLen, KeyLen, Promise!Form, Form,
       Promise!Opcode, Opcode, Promise!Byte, Byte

\* A frame has at least the two bytes of its header.
LEMMA FrameLengths ==
    ASSUME NEW f, IsFrame(f)
    PROVE  /\ ExtLen(f.form) \in {0, 2, 8} /\ KeyLen(f.masked) \in {0, 4}
           /\ Len(f.data) \in Nat
           /\ HeaderLen(f) \in Nat /\ HeaderLen(f) >= 2
           /\ WireLen(f) \in Nat /\ WireLen(f) >= HeaderLen(f)
BY PromiseAssumed, SameFrames, Promise!FrameLengths
   DEF Promise!WireLen, WireLen, Promise!HeaderLen, HeaderLen, Promise!ExtLen, ExtLen,
       Promise!KeyLen, KeyLen

-----------------------------------------------------------------------------
\* The state is what it should be.
CodecTypes ==
    /\ wire \in Seq(Frames) /\ consumed \in 0..Len(wire)
    /\ results \in Seq(ToSet(results))
    /\ src \in Seq(Promise!ByteRecord) /\ net \in Seq(Promise!ByteRecord)

\* What is on its way to the codec is in line and begins where a frame begins; while
\* the peer is there, all that was sent is there too.
LineInv ==
    /\ Promise!InLine(src \o net, wire)
    /\ Promise!Begins(src \o net, wire, consumed, 0)
    /\ ~gone => Promise!AllThere(src \o net, wire, consumed, 0)
    /\ eof => gone /\ net = <<>>

\* A frame that has been sent is a frame, and so is one of a longer wire.
LEMMA WireSendable ==
    ASSUME CodecTypes
    PROVE  Promise!Sendable(wire) /\ Len(wire) \in Nat /\ consumed \in Nat
BY CodecAssumption, SameFrames DEF CodecTypes, Promise!Sendable

\* Every step sends, loses the peer, reads, reports, waits, or takes a frame.
Takes ==
    /\ TakeFrame
    /\ \/ results' = results
       \/ \E out, from : results' = Append(results, MS!Result(out, from, FALSE))

\* The steps of the codec, sorted by what they do to the bytes.
LEMMA CodecSteps ==
    ASSUME [Next]_vars
    PROVE  \/ \E f \in Frames : PeerSends(f)
           \/ PeerGone
           \/ \E n \in 1..Len(net) : ReadSocket(n)
           \/ ReadEof
           \/ BadHeader \/ DecodeEof \/ AskForMore
           \/ Takes
           \/ UNCHANGED vars
<1>1. ASSUME NEW e, TakeFrame, Refuse(e) PROVE Takes
  BY <1>1 DEF Refuse, Emit, Takes
<1>2. ASSUME NEW from, TakeFrame, Deliver(from) PROVE Takes
  BY <1>2 DEF Deliver, Emit, Takes
<1>3. CASE RefuseBody
  BY <1>1, <1>3 DEF RefuseBody
<1>4. CASE RefuseContinuation
  BY <1>1, <1>4 DEF RefuseContinuation
<1>5. CASE ControlFrame
  BY <1>2, <1>5 DEF ControlFrame
<1>6. CASE RefuseData
  BY <1>1, <1>6 DEF RefuseData
<1>7. CASE PushFrame
  BY <1>7 DEF PushFrame, Takes
<1>8. CASE FinishMessage
  BY <1>2, <1>8 DEF FinishMessage
<1> QED
  BY <1>3, <1>4, <1>5, <1>6, <1>7, <1>8 DEF Next, ReadSome, Decode

\* The frame at the front of src is the next one to be taken.
LEMMA HeadIsNext ==
    ASSUME CodecTypes, LineInv, Len(src) > 0
    PROVE  /\ src[1] = Promise!ByteAt(consumed + 1, 1)
           /\ consumed + 1 \in 1..Len(wire)
           /\ head = wire[consumed + 1]
           /\ head \in Frames /\ IsFrame(head)
<1> DEFINE s == src \o net
<1>1. Len(s) > 0 /\ s[1] = src[1] /\ 1 \in 1..Len(s)
  BY Promise!Concatenated, PromiseAssumed DEF CodecTypes
<1>2. s[1] = Promise!ByteAt(consumed + 1, 1)
  BY <1>1 DEF LineInv, Promise!Begins
<1>3. s[1].frame \in 1..Len(wire)
  BY <1>1 DEF LineInv, Promise!InLine
<1> HIDE DEF s
<1>4. src[1].frame = consumed + 1
  BY <1>1, <1>2 DEF Promise!ByteAt
<1>5. consumed + 1 \in 1..Len(wire) /\ head = wire[consumed + 1]
  BY <1>1, <1>3, <1>4 DEF head
<1>6. head \in Frames
  BY <1>5 DEF CodecTypes
<1> QED
  BY <1>1, <1>2, <1>5, <1>6, CodecAssumption

\* Taking the head off src.
LEMMA TakenOff ==
    ASSUME CodecTypes, LineInv, TakeFrame
    PROVE  LET L == WireLen(wire[consumed + 1])
               s == src \o net
           IN  /\ L \in Nat /\ L >= 2 /\ L <= Len(src) /\ Len(src) > 0
               /\ src' \in Seq(Promise!ByteRecord) /\ Len(src') = Len(src) - L
               /\ \A j \in 1..(Len(src) - L) : src'[j] = src[L + j]
               /\ (src \o net)' = SubSeq(s, L + 1, Len(s))
<1> DEFINE L == WireLen(wire[consumed + 1])
           s == src \o net
           t == SubSeq(src, L + 1, Len(src))
<1>1. Len(src) > 0 /\ Len(src) >= WireLen(head) /\ Len(src) \in Nat
  BY DEF TakeFrame, HasFrame, HasLength, CodecTypes
<1>2. WireLen(head) = L /\ L \in Nat /\ L >= 2
  BY <1>1, HeadIsNext, FrameLengths
<1> HIDE DEF L
<1>3. src' = t /\ net' = net
  BY <1>2 DEF TakeFrame, ioVars
<1>4. /\ t \in Seq(Promise!ByteRecord) /\ Len(t) = Len(src) - L
      /\ \A j \in 1..(Len(src) - L) : t[j] = src[L + j]
      /\ t \o net = SubSeq(s, L + 1, Len(s))
  <2>1. L <= Len(src) /\ src \in Seq(Promise!ByteRecord) /\ net \in Seq(Promise!ByteRecord)
    BY <1>1, <1>2 DEF CodecTypes
  <2> HIDE DEF s, t
  <2>2. LET r == SubSeq(src, L + 1, Len(src)) IN
        /\ r \in Seq(Promise!ByteRecord) /\ Len(r) = Len(src) - L
        /\ \A j \in 1..(Len(src) - L) : r[j] = src[L + j]
        /\ r \o net = SubSeq(src \o net, L + 1, Len(src \o net))
    <3>1. L \in Nat
      BY <1>2
    <3> QED
      BY <2>1, <3>1, Promise!FrontOff, PromiseAssumed, Zenon
  <2> QED
    BY <2>2 DEF s, t
<1> QED
  BY <1>1, <1>2, <1>3, <1>4 DEF L

-----------------------------------------------------------------------------
(* The types and the bytes on their way *)

\* Neither the socket nor Framed changes the bytes that are on their way, but for a
\* peer that is lost, which cuts them off.
LEMMA LineKept ==
    ASSUME CodecTypes, LineInv, [Next]_vars, ~TakeFrame, \A f \in Frames : ~PeerSends(f)
    PROVE  /\ wire' = wire /\ consumed' = consumed
           /\ src' \in Seq(Promise!ByteRecord) /\ net' \in Seq(Promise!ByteRecord)
           /\ \/ /\ (src \o net)' = src \o net /\ gone' = gone
                 /\ eof' => eof \/ (gone /\ net = <<>> /\ net' = <<>>)
                 /\ eof => net' = net
              \/ /\ gone' /\ eof' = eof /\ (eof => net' = <<>>)
                 /\ Promise!InLine((src \o net)', wire)
                 /\ Promise!Begins((src \o net)', wire, consumed, 0)
<1> USE DEF CodecTypes
<1>1. CASE PeerGone
  <2>1. PICK n \in 0..Len(net) : net' = SubSeq(net, 1, n)
    BY <1>1 DEF PeerGone
  <2> DEFINE t == SubSeq(net, 1, n)
  <2>2. /\ t \in Seq(Promise!ByteRecord) /\ Len(t) = n /\ n <= Len(net)
        /\ \A j \in 1..n : t[j] = net[j]
    OBVIOUS
  <2>3. net = <<>> => t = <<>>
    BY <2>2
  <2> HIDE DEF t
  <2>4. Promise!InLine(src \o t, wire) /\ Promise!Begins(src \o t, wire, consumed, 0)
    BY <2>2, WireSendable, Promise!CutOff, PromiseAssumed, SameFrames DEF LineInv
  <2>5. net' = t /\ src' = src /\ gone' /\ eof' = eof /\ wire' = wire /\ consumed' = consumed
    BY <1>1, <2>1 DEF PeerGone, t
  <2> QED
    BY <2>2, <2>3, <2>4, <2>5 DEF LineInv
<1>2. ASSUME NEW n \in 1..Len(net), ReadSocket(n)
      PROVE  /\ src' \in Seq(Promise!ByteRecord) /\ net' \in Seq(Promise!ByteRecord)
             /\ (src \o net)' = src \o net
             /\ ~eof /\ UNCHANGED <<wire, consumed, gone, eof>>
  BY <1>2, Promise!Moved, PromiseAssumed DEF ReadSocket
<1>3. CASE ReadEof
  BY <1>3 DEF ReadEof
<1>4. ASSUME BadHeader \/ DecodeEof \/ AskForMore \/ UNCHANGED vars
      PROVE  UNCHANGED <<wire, consumed, src, net, gone, eof>>
  BY <1>4 DEF BadHeader, DecodeEof, AskForMore, vars, ioVars
<1>5. \/ PeerGone \/ ReadEof
      \/ \E n \in 1..Len(net) : ReadSocket(n)
      \/ BadHeader \/ DecodeEof \/ AskForMore \/ UNCHANGED vars
  BY CodecSteps DEF Takes
<1>6. CASE \E n \in 1..Len(net) : ReadSocket(n)
  BY <1>2, <1>6
<1>7. CASE BadHeader \/ DecodeEof \/ AskForMore \/ UNCHANGED vars
  BY <1>4, <1>7
<1> QED
  BY <1>1, <1>3, <1>5, <1>6, <1>7

\* The results stay a sequence, and a result without a cut leaves the codec in step.
LEMMA ResultsStep ==
    ASSUME results \in Seq(ToSet(results)), NEW out, NEW from, NEW cut \in BOOLEAN,
           results' = Append(results, MS!Result(out, from, cut))
    PROVE  /\ results' \in Seq(ToSet(results'))
           /\ MS!Synced' <=> MS!Synced /\ ~cut
<1> DEFINE new == MS!Result(out, from, cut)
<1>1. new.cut = cut
  BY DEF MS!Result
<1> HIDE DEF new
<1>2. /\ results' \in Seq(ToSet(results'))
      /\ (\A i \in DOMAIN results' : ~results'[i].cut) <=>
         (\A i \in DOMAIN results : ~results[i].cut) /\ ~new.cut
  BY Promise!AppendResult, PromiseAssumed DEF new, Promise!ToSet, ToSet
<1> QED
  BY <1>1, <1>2 DEF MS!Synced

\* Only a refused header and bytes left over at the end cut the stream.
LEMMA SyncedStep ==
    ASSUME CodecTypes, [Next]_vars
    PROVE  /\ results' \in Seq(ToSet(results'))
           /\ \/ results' = results /\ (MS!Synced' <=> MS!Synced)
              \/ Takes /\ (MS!Synced' <=> MS!Synced)
              \/ (BadHeader \/ DecodeEof) /\ ~MS!Synced'
<1>1. results' = results => (MS!Synced' <=> MS!Synced)
  BY DEF MS!Synced
<1>2. ASSUME NEW e, results' = Append(results, MS!Result(Err(e), <<>>, TRUE))
      PROVE  results' \in Seq(ToSet(results')) /\ ~MS!Synced'
  BY <1>2, ResultsStep DEF CodecTypes
<1>3. CASE BadHeader
  BY <1>2, <1>3 DEF BadHeader, Emit
<1>4. CASE DecodeEof
  BY <1>1, <1>2, <1>4 DEF DecodeEof, Emit, CodecTypes
<1>5. CASE Takes
  BY <1>1, <1>5, ResultsStep DEF Takes, CodecTypes
<1>6. CASE PeerGone \/ ReadEof \/ AskForMore \/ UNCHANGED vars
  BY <1>1, <1>6 DEF PeerGone, ReadEof, AskForMore, vars, CodecTypes
<1>7. CASE \E n \in 1..Len(net) : ReadSocket(n)
  BY <1>1, <1>7 DEF ReadSocket, CodecTypes
<1>8. CASE \E f \in Frames : PeerSends(f)
  BY <1>1, <1>8 DEF PeerSends, CodecTypes
<1> QED
  BY <1>3, <1>4, <1>5, <1>6, <1>7, <1>8, CodecSteps

\* The bytes on their way stay in line, and the codec at the start of a frame.
LEMMA LineInvariant == Spec => [](CodecTypes /\ LineInv)
<1>1. Init => CodecTypes /\ LineInv
  <2> SUFFICES ASSUME Init PROVE CodecTypes /\ LineInv
    OBVIOUS
  <2>1. CodecTypes
    BY DEF Init, CodecTypes
  <2>2. src \o net = <<>> /\ Len(src \o net) = 0 /\ Len(wire) = 0 /\ consumed = 0 /\ ~eof
    BY DEF Init
  <2> QED
    BY <2>1, <2>2 DEF LineInv, Promise!InLine, Promise!Begins, Promise!AllThere
<1>2. CodecTypes /\ LineInv /\ [Next]_vars => CodecTypes' /\ LineInv'
  <2> SUFFICES ASSUME CodecTypes, LineInv, [Next]_vars PROVE CodecTypes' /\ LineInv'
    OBVIOUS
  <2> DEFINE s == src \o net
             c == consumed
  <2>0. /\ Promise!Sendable(wire) /\ Len(wire) \in Nat /\ c \in Nat
        /\ s \in Seq(Promise!ByteRecord) /\ Len(s) \in Nat
        /\ results' \in Seq(ToSet(results'))
    BY WireSendable, Promise!Concatenated, SyncedStep, PromiseAssumed, SameFrames DEF CodecTypes
  <2>1. ASSUME NEW f \in Frames, PeerSends(f) PROVE CodecTypes' /\ LineInv'
    <3> DEFINE u == BytesOf(Len(wire) + 1, f)
               v == Append(wire, f)
    <3>1. /\ wire' = v /\ net' = net \o u /\ ~gone
          /\ UNCHANGED <<consumed, src, gone, eof>>
      BY <2>1 DEF PeerSends
    <3>2. u \in Seq(Promise!ByteRecord)
      <4>1. \A k \in 1..WireLen(f) : [frame |-> Len(wire) + 1, k |-> k] \in Promise!ByteRecord
        BY <2>0 DEF Promise!ByteRecord
      <4>2. WireLen(f) \in Nat
        BY FrameLengths, CodecAssumption
      <4> QED
        BY <4>1, <4>2 DEF BytesOf
    <3>3. net \o u \in Seq(Promise!ByteRecord) /\ src \o (net \o u) = s \o u
      <4> HIDE DEF u
      <4>1. net \in Seq(Promise!ByteRecord) /\ src \in Seq(Promise!ByteRecord)
        BY DEF CodecTypes
      <4>2. net \o u \in Seq(Promise!ByteRecord)
        BY <3>2, <4>1, Promise!Concatenated, PromiseAssumed
      <4>3. (src \o net) \o u = src \o (net \o u)
        BY <3>2, <4>1, Promise!Associative, PromiseAssumed
      <4> QED
        BY <4>2, <4>3
    <3>4. v \in Seq(Frames) /\ Len(v) = Len(wire) + 1 /\ c \in 0..Len(v)
      BY <2>0 DEF CodecTypes
    <3>5. /\ Promise!InLine(s \o u, v) /\ Promise!Begins(s \o u, v, c, 0)
          /\ Promise!AllThere(s \o u, v, c, 0)
      <4>1. /\ wire \in Seq(Frames) /\ IsFrame(f) /\ c \in 0..Len(wire) /\ 0 \in Nat
            /\ Promise!InLine(s, wire) /\ Promise!Begins(s, wire, c, 0)
            /\ Promise!AllThere(s, wire, c, 0)
            /\ ~(0 > 0)
        BY <3>1, CodecAssumption DEF CodecTypes, LineInv
      <4> QED
        BY <2>0, <4>1, Promise!FrameSent, PromiseAssumed, SameFrames DEF BytesOf
    <3>6. CodecTypes'
      BY <2>0, <3>1, <3>3, <3>4 DEF CodecTypes
    <3>7. eof => gone
      BY DEF LineInv
    <3> QED
      BY <3>1, <3>3, <3>5, <3>6, <3>7 DEF LineInv
  <2>2. ASSUME TakeFrame PROVE CodecTypes' /\ LineInv'
    <3> DEFINE L == WireLen(wire[c + 1])
               t == SubSeq(s, L + 1, Len(s))
    <3>1. /\ L \in Nat /\ L <= Len(src) /\ src' \in Seq(Promise!ByteRecord) /\ (src \o net)' = t
          /\ Len(src) > 0
      BY <2>2, TakenOff
    <3>2. /\ consumed' = c + 1 /\ UNCHANGED <<wire, net, gone, eof>>
      BY <2>2 DEF TakeFrame, ioVars
    <3>3. c + 1 \in 1..Len(wire)
      BY <3>1, HeadIsNext
    <3>4. L <= Len(s)
      BY <3>1, Promise!Concatenated, PromiseAssumed DEF CodecTypes
    <3> HIDE DEF s
    <3>5. /\ Promise!InLine(t, wire) /\ Promise!Begins(t, wire, c, L)
          /\ ~gone => Promise!AllThere(t, wire, c, L)
      <4>1. /\ Promise!InLine(s, wire) /\ Promise!Begins(s, wire, c, 0)
            /\ (~gone => Promise!AllThere(s, wire, c, 0))
        BY DEF LineInv, s
      <4>2. 0 + L = L /\ 0 \in Nat /\ c + 1 <= Len(wire) /\ 0 + L <= WireLen(wire[c + 1])
        BY <3>1, <3>3
      <4> QED
        BY <2>0, <3>1, <3>4, <4>1, <4>2, Promise!BytesRead, PromiseAssumed, SameFrames
    <3>6. Promise!Begins(t, wire, c + 1, 0) /\ (~gone => Promise!AllThere(t, wire, c + 1, 0))
      BY <2>0, <3>3, <3>5, Promise!FrameRead, PromiseAssumed, SameFrames
    <3>7. CodecTypes'
      BY <2>0, <3>1, <3>2, <3>3 DEF CodecTypes
    <3> QED
      BY <3>1, <3>2, <3>5, <3>6, <3>7 DEF LineInv
  <2>3. ASSUME ~TakeFrame, \A f \in Frames : ~PeerSends(f) PROVE CodecTypes' /\ LineInv'
    <3> DEFINE t == (src \o net)'
    <3>1. /\ wire' = wire /\ consumed' = c
          /\ src' \in Seq(Promise!ByteRecord) /\ net' \in Seq(Promise!ByteRecord)
      BY <2>3, LineKept
    <3>2. CodecTypes'
      BY <2>0, <3>1 DEF CodecTypes
    <3>3. t \in Seq(Promise!ByteRecord) /\ Len(t) \in Nat
      BY <3>1, Promise!Concatenated, PromiseAssumed
    <3>4. CASE /\ t = s /\ gone' = gone
               /\ eof' => eof \/ (gone /\ net = <<>> /\ net' = <<>>)
               /\ eof => net' = net
      BY <3>1, <3>2, <3>4 DEF LineInv
    <3>5. CASE /\ gone' /\ eof' = eof /\ (eof => net' = <<>>)
               /\ Promise!InLine(t, wire) /\ Promise!Begins(t, wire, c, 0)
      BY <3>1, <3>2, <3>5 DEF LineInv
    <3> QED
      BY <2>3, <3>4, <3>5, LineKept
  <2> QED
    BY <2>1, <2>2, <2>3
<1> QED
  BY <1>1, <1>2, PTL DEF Spec

-----------------------------------------------------------------------------
(* What the codec and Framed know of src *)

\* Once a cut has been reported, the codec is stuck at it: every later poll meets the
\* same bytes.
StuckInv ==
    ~MS!Synced => readable /\ Len(src) > 0 /\ (HasFault \/ (eof /\ ~HasFrame))

EndedInv == ended => eof /\ src = <<>>

\* The last byte read is the last of src, or of the last frame taken.
LastInv ==
    IF Len(src) > 0 THEN last = src[Len(src)]
    ELSE \/ last = NoByte
         \/ consumed > 0 /\ last = [frame |-> consumed, k |-> WireLen(wire[consumed])]

CodecInv == NeverParkedOnWork /\ StuckInv /\ EndedInv /\ LastInv

\* A step that leaves src alone leaves what the codec can tell of it alone.
LEMMA HeadKept ==
    ASSUME CodecTypes, LineInv, src' = src,
           wire' = wire \/ \E f \in Frames : wire' = Append(wire, f)
    PROVE  (HasFault' <=> HasFault) /\ (HasFrame' <=> HasFrame)
<1>1. CASE Len(src) > 0
  <2>1. src[1].frame \in 1..Len(wire)
    BY <1>1, HeadIsNext DEF Promise!ByteAt
  <2>2. ASSUME NEW f \in Frames, wire' = Append(wire, f)
        PROVE  wire'[src[1].frame] = wire[src[1].frame]
    BY <2>1, <2>2 DEF CodecTypes
  <2>3. head' = head
    BY <2>2 DEF head
  <2> QED
    BY <2>3 DEF HasFault, HasFrame, HasLength
<1>2. CASE ~(Len(src) > 0)
  <2>1. ~(Len(src) >= 2)
    BY <1>2 DEF CodecTypes
  <2> QED
    BY <2>1 DEF HasFault, HasFrame, HasLength
<1> QED
  BY <1>1, <1>2

\* The frames sent before stay what they were.
LEMMA WireKept ==
    ASSUME CodecTypes, consumed > 0,
           wire' = wire \/ \E f \in Frames : wire' = Append(wire, f)
    PROVE  wire'[consumed] = wire[consumed]
BY DEF CodecTypes

\* A frame is taken only while the codec is in step.
LEMMA TakenInStep ==
    ASSUME StuckInv, TakeFrame
    PROVE  MS!Synced
BY DEF StuckInv, TakeFrame, HasFrame

\* Each step keeps what the codec and Framed know of src.
LEMMA InvStep ==
    ASSUME CodecTypes, LineInv, CodecInv, [Next]_vars
    PROVE  CodecInv'
<1> USE DEF CodecInv
<1>1. ASSUME NEW f \in Frames, PeerSends(f) PROVE CodecInv'
  <2>1. /\ wire' = Append(wire, f)
        /\ UNCHANGED <<consumed, src, last, eof, readable, ended, results>>
    BY <1>1 DEF PeerSends
  <2>2. (HasFault' <=> HasFault) /\ (HasFrame' <=> HasFrame)
    BY <2>1, HeadKept
  <2>3. MS!Synced' <=> MS!Synced
    BY <2>1 DEF MS!Synced
  <2>4. consumed > 0 => wire'[consumed] = wire[consumed]
    BY <2>1, WireKept
  <2>5. NeverParkedOnWork' /\ StuckInv' /\ EndedInv'
    BY <2>1, <2>2, <2>3 DEF NeverParkedOnWork, StuckInv, EndedInv
  <2>6. LastInv'
    BY <2>1, <2>4 DEF LastInv, NoByte
  <2> QED
    BY <2>5, <2>6
<1>2. ASSUME PeerGone \/ BadHeader \/ DecodeEof \/ AskForMore \/ UNCHANGED vars PROVE CodecInv'
  <2>1. UNCHANGED <<wire, consumed, src, last, eof>>
    BY <1>2 DEF PeerGone, BadHeader, DecodeEof, AskForMore, vars, ioVars
  <2>2. (HasFault' <=> HasFault) /\ (HasFrame' <=> HasFrame)
    BY <2>1, HeadKept
  <2>3. LastInv'
    BY <2>1 DEF LastInv, NoByte
  <2>4. CASE PeerGone \/ UNCHANGED vars
    <3>1. UNCHANGED <<readable, ended, results>>
      BY <2>4 DEF PeerGone, vars
    <3>2. MS!Synced' <=> MS!Synced
      BY <3>1 DEF MS!Synced
    <3> QED
      BY <2>1, <2>2, <2>3, <3>1, <3>2 DEF NeverParkedOnWork, StuckInv, EndedInv
  <2>5. CASE BadHeader
    <3>1. readable /\ HasFault /\ UNCHANGED <<readable, ended>>
      BY <2>5 DEF BadHeader, Polled
    <3>2. Len(src) > 0
      BY <3>1 DEF HasFault, HasLength, CodecTypes
    <3> QED
      BY <2>1, <2>2, <2>3, <3>1, <3>2 DEF NeverParkedOnWork, StuckInv, EndedInv
  <2>6. CASE DecodeEof
    <3>1. readable /\ ~HasFault /\ ~HasFrame /\ eof /\ UNCHANGED readable
      BY <2>6 DEF DecodeEof, Polled
    <3>2. CASE src = <<>>
      <4>1. results' = results
        BY <2>6, <3>2 DEF DecodeEof
      <4>2. MS!Synced' <=> MS!Synced
        BY <4>1 DEF MS!Synced
      <4> QED
        BY <2>1, <2>2, <2>3, <3>1, <3>2, <4>2 DEF NeverParkedOnWork, StuckInv, EndedInv
    <3>3. CASE src # <<>>
      <4>1. Len(src) > 0 /\ ended' = ended
        BY <2>6, <3>3 DEF DecodeEof, CodecTypes
      <4> QED
        BY <2>1, <2>2, <2>3, <3>1, <4>1 DEF NeverParkedOnWork, StuckInv, EndedInv
    <3> QED
      BY <3>2, <3>3
  <2>7. CASE AskForMore
    <3>1. ~HasFault /\ ~HasFrame /\ ~eof /\ UNCHANGED <<results, ended>>
      BY <2>7 DEF AskForMore
    <3>2. MS!Synced' <=> MS!Synced
      BY <3>1 DEF MS!Synced
    <3> QED
      BY <2>1, <2>2, <2>3, <3>1, <3>2 DEF NeverParkedOnWork, StuckInv, EndedInv
  <2> QED
    BY <1>2, <2>4, <2>5, <2>6, <2>7
<1>3. ASSUME NEW n \in 1..Len(net), ReadSocket(n) PROVE CodecInv'
  <2> DEFINE a == SubSeq(net, 1, n)
  <2>1. /\ ~readable /\ ~eof /\ src' = src \o a /\ last' = net[n] /\ readable'
        /\ UNCHANGED <<wire, consumed, results, eof, ended>>
    BY <1>3 DEF ReadSocket
  <2>2. a \in Seq(Promise!ByteRecord) /\ Len(a) = n /\ a[n] = net[n] /\ n \in Nat /\ n >= 1
    BY DEF CodecTypes
  <2> HIDE DEF a
  <2>3. Len(src') = Len(src) + n /\ src'[Len(src) + n] = a[n] /\ Len(src) \in Nat
    <3>1. n \in 1..Len(a) /\ src \in Seq(Promise!ByteRecord)
      BY <2>2 DEF CodecTypes
    <3> QED
      BY <2>1, <2>2, <3>1, Promise!Concatenated, PromiseAssumed
  <2>4. LastInv'
    BY <2>1, <2>2, <2>3 DEF LastInv
  <2>5. MS!Synced' <=> MS!Synced
    BY <2>1 DEF MS!Synced
  <2> QED
    BY <2>1, <2>4, <2>5 DEF NeverParkedOnWork, StuckInv, EndedInv
<1>4. ASSUME ReadEof PROVE CodecInv'
  <2>1. ~readable /\ readable' /\ ~eof /\ UNCHANGED <<wire, consumed, src, last, results, ended>>
    BY <1>4 DEF ReadEof
  <2>2. MS!Synced' <=> MS!Synced
    BY <2>1 DEF MS!Synced
  <2>3. LastInv'
    BY <2>1 DEF LastInv, NoByte
  <2> QED
    BY <2>1, <2>2, <2>3 DEF NeverParkedOnWork, StuckInv, EndedInv
<1>5. ASSUME Takes PROVE CodecInv'
  <2>1. /\ readable /\ ~ended /\ consumed' = consumed + 1
        /\ UNCHANGED <<wire, last, readable, ended>>
    BY <1>5 DEF Takes, TakeFrame, Polled, ioVars
  <2>2. MS!Synced'
    <3>1. MS!Synced
      BY <1>5, TakenInStep DEF Takes
    <3> QED
      BY <1>5, <3>1, ResultsStep DEF Takes, CodecTypes, MS!Synced
  <2>3. LastInv'
    <3> DEFINE L == WireLen(wire[consumed + 1])
               s == src \o net
    <3>1. /\ L \in Nat /\ L >= 2 /\ L <= Len(src) /\ Len(src) > 0
          /\ src' \in Seq(Promise!ByteRecord) /\ Len(src') = Len(src) - L
          /\ \A j \in 1..(Len(src) - L) : src'[j] = src[L + j]
      BY <1>5, TakenOff DEF Takes
    <3>2. last = src[Len(src)] /\ Len(src) \in Nat /\ consumed \in Nat
      BY <3>1, WireSendable DEF LastInv, CodecTypes
    <3>3. CASE Len(src') > 0
      <4>1. Len(src') \in 1..(Len(src) - L) /\ L + Len(src') = Len(src)
        BY <3>1, <3>2, <3>3
      <4>2. src'[Len(src')] = src[Len(src)]
        BY <3>1, <4>1
      <4> QED
        BY <2>1, <3>2, <3>3, <4>2 DEF LastInv
    <3>4. CASE ~(Len(src') > 0)
      <4>1. L = Len(src)
        BY <3>1, <3>2, <3>4
      <4>2. /\ \A j \in 1..Len(src) : s[j] = src[j]
            /\ Len(src) <= Len(s) /\ Len(s) \in Nat
        BY Promise!Concatenated, PromiseAssumed DEF CodecTypes
      <4>3. s[1] = Promise!ByteAt(consumed + 1, 1)
        BY <3>1, <3>2, <4>2, HeadIsNext
      <4> HIDE DEF L, s
      <4>4. s[1].frame = consumed + 1 /\ s[1].k = 1 /\ Promise!Behind(s[1], wire) = L - 1
        BY <4>3, SameFrames DEF Promise!ByteAt, Promise!Behind, L
      <4>5. /\ Promise!InLine(s, wire) /\ 1 \in 1..Len(s) /\ L \in 1..Len(s) /\ 1 <= L
            /\ L - 1 <= L - 1
        BY <3>1, <3>2, <4>1, <4>2 DEF LineInv, s
      <4>6. s[L] = Promise!ByteAt(s[1].frame, s[1].k + (L - 1))
        BY <4>4, <4>5 DEF Promise!InLine
      <4>7. last = Promise!ByteAt(consumed + 1, L)
        <5>1. 1 + (L - 1) = L
          BY <3>1
        <5>2. s[L] = src[L]
          BY <3>1, <4>1, <4>2
        <5> QED
          BY <3>2, <4>1, <4>4, <4>6, <5>1, <5>2
      <4> QED
        BY <2>1, <3>2, <3>4, <4>7 DEF LastInv, Promise!ByteAt, L
    <3> QED
      BY <3>3, <3>4
  <2> QED
    BY <2>1, <2>2, <2>3 DEF NeverParkedOnWork, StuckInv, EndedInv
<1> QED
  BY <1>1, <1>2, <1>3, <1>4, <1>5, CodecSteps

\* All of the invariant.
LEMMA CodecInvariant == Spec => [](CodecTypes /\ LineInv /\ CodecInv)
<1>1. Init => CodecInv
  <2> SUFFICES ASSUME Init PROVE CodecInv
    OBVIOUS
  <2>1. MS!Synced
    BY DEF Init, MS!Synced
  <2> QED
    BY <2>1 DEF Init, CodecInv, NeverParkedOnWork, StuckInv, EndedInv, LastInv,
                HasFrame, HasFault, HasLength
<1>2. CodecTypes /\ LineInv /\ CodecInv /\ [Next]_vars => CodecInv'
  BY InvStep
<1> QED
  BY <1>1, <1>2, LineInvariant, PTL DEF Spec

-----------------------------------------------------------------------------
(* The properties the codec keeps *)

\* The codec never stands inside a frame, whatever it has reported and however the
\* bytes of the frames came in.
THEOREM AlwaysAtStart == Spec => []AlwaysAtFrameStart
<1>1. CodecTypes /\ LineInv => AlwaysAtFrameStart
  <2> SUFFICES ASSUME CodecTypes, LineInv, src \o net # <<>>
               PROVE  (src \o net)[1] = [frame |-> consumed + 1, k |-> 1]
    BY DEF AlwaysAtFrameStart
  <2>1. Len(src \o net) > 0
    BY DEF CodecTypes
  <2> QED
    BY <2>1 DEF LineInv, Promise!Begins, Promise!ByteAt
<1> QED
  BY <1>1, LineInvariant, PTL

\* Framed goes back to the socket only when src holds neither a whole frame nor a
\* header it can already refuse, whatever read left the bytes there.
THEOREM NotParkedOnWork == Spec => []NeverParkedOnWork
<1>1. CodecInv => NeverParkedOnWork
  BY DEF CodecInv
<1> QED
  BY <1>1, CodecInvariant, PTL

\* The stream of messages ends without an error only where a frame ends.
THEOREM QuietOnlyAtFrameEnd == Spec => []NoQuietTruncation
<1>1. CodecInv => NoQuietTruncation
  BY DEF CodecInv, EndedInv, LastInv, NoQuietTruncation
<1> QED
  BY <1>1, CodecInvariant, PTL

-----------------------------------------------------------------------------
(* The codec implements MessageStream *)

\* The two modules take their frames, checks and messages from the same rules.
LEMMA SameRules ==
    /\ \A f : MS!HeaderFault(f) = HeaderFault(f)
    /\ \A f, b : MS!MaskFault(f, b) = MaskFault(f, b)
    /\ \A fs : MS!FromDataframes(fs) = FromDataframes(fs)
    /\ \A e : MS!Err(e) = Err(e)
    /\ MS!Continuation = Continuation
    /\ MS!DataOps = DataOps /\ MS!ControlOps = ControlOps
<1>1. \A f : MS!HeaderFault(f) = HeaderFault(f)
  BY DEF MS!HeaderFault, HeaderFault, MS!FormOf, FormOf, MS!ControlOps, ControlOps
<1>2. \A op, d : MS!Assemble(op, d) = Assemble(op, d)
  BY Zenon DEF MS!Assemble, Assemble, MS!Err, Err, MS!Msg, Msg, MS!Utf8, Utf8,
               MS!Text, Text, MS!Close, Close, MS!Binary, Binary, MS!Ping, Ping, MS!Pong, Pong
<1>3. \A fs : MS!FlattenSeq(fs) = FlattenSeq(fs)
  BY Zenon DEF MS!FlattenSeq, FlattenSeq
<1>4. \A fs : MS!FromDataframes(fs) = FromDataframes(fs)
  BY <1>2, <1>3, Zenon DEF MS!FromDataframes, FromDataframes, MS!Misplaced, Misplaced,
                           MS!Continuation, Continuation, MS!Err, Err
<1>5. \A f, b : MS!MaskFault(f, b) = MaskFault(f, b)
  BY DEF MS!MaskFault, MaskFault
<1>6. \A e : MS!Err(e) = Err(e)
  BY DEF MS!Err, Err
<1>7. MS!Continuation = Continuation /\ MS!DataOps = DataOps /\ MS!ControlOps = ControlOps
  BY DEF MS!Continuation, Continuation, MS!DataOps, DataOps, MS!ControlOps, ControlOps
<1> QED
  BY <1>1, <1>4, <1>5, <1>6, <1>7

\* What a header can be refused for.
LEMMA FaultRange == \A f : HeaderFault(f) # "none" => HeaderFault(f) \in MS!HeaderFaults
BY DEF HeaderFault, MS!HeaderFaults

\* Taking a frame is what MessageStream does with the frame that is ready.
LEMMA TakeStep ==
    ASSUME CodecTypes, LineInv, CodecInv,
           \/ RefuseBody \/ RefuseContinuation \/ ControlFrame \/ RefuseData
           \/ PushFrame \/ FinishMessage
    PROVE  MS!TakeFrame
<1>1. TakeFrame
  BY DEF RefuseBody, RefuseContinuation, ControlFrame, RefuseData, PushFrame, FinishMessage
<1>2. /\ Len(src) > 0 /\ HeaderFault(head) = "none"
      /\ consumed' = consumed + 1 /\ wire' = wire
  BY <1>1 DEF TakeFrame, HasFrame, HasFault, HasLength, CodecTypes
<1>3. head = MS!NextFrame /\ consumed < Len(wire) /\ IsFrame(head)
  <2>1. head = wire[consumed + 1] /\ consumed + 1 \in 1..Len(wire) /\ IsFrame(head)
    BY <1>2, HeadIsNext
  <2> QED
    BY <2>1, WireSendable DEF MS!NextFrame
<1>4. MS!FrameReady
  BY <1>1, <1>2, <1>3, TakenInStep, SameRules DEF CodecInv, MS!FrameReady, MS!NextFrame
<1>5. MS!MaskFits <=> maskFits
  BY <1>3, SameRules DEF MS!MaskFits, maskFits
<1>6. head.op \in Opcode /\ (head.op = Continuation => head.op \notin DataOps)
  BY <1>3 DEF IsFrame, Continuation, DataOps
<1>7. CASE RefuseBody
  <2>1. MS!WrongMask
    BY <1>2, <1>3, <1>4, <1>5, <1>7, SameRules
       DEF RefuseBody, Refuse, Emit, MS!WrongMask, MS!Refuse, MS!TakeAlone
  <2> QED
    BY <2>1 DEF MS!TakeFrame
<1>8. CASE RefuseContinuation
  <2>1. MS!OrphanContinuation
    BY <1>2, <1>3, <1>4, <1>5, <1>8, SameRules
       DEF RefuseContinuation, isFirst, Refuse, Emit, MS!OrphanContinuation, MS!Refuse, MS!TakeAlone
  <2> QED
    BY <2>1 DEF MS!TakeFrame
<1>9. CASE ControlFrame
  <2>1. MS!ControlFrame
    BY <1>2, <1>3, <1>4, <1>5, <1>9, SameRules
       DEF ControlFrame, Deliver, Emit, MS!ControlFrame, MS!Deliver
  <2> QED
    BY <2>1 DEF MS!TakeFrame
<1>10. CASE RefuseData
  <2>1. MS!UnexpectedDataFrame
    BY <1>2, <1>3, <1>4, <1>5, <1>10, SameRules
       DEF RefuseData, isFirst, Refuse, Emit, MS!UnexpectedDataFrame, MS!Refuse, MS!TakeAlone
  <2> QED
    BY <2>1 DEF MS!TakeFrame
<1>11. ItsGood => MS!Fits
  BY <1>3, <1>6, SameRules DEF ItsGood, isFirst, MS!Fits
<1>12. CASE PushFrame
  <2>1. MS!Fragment
    BY <1>2, <1>3, <1>4, <1>5, <1>11, <1>12 DEF PushFrame, MS!Fragment
  <2> QED
    BY <2>1 DEF MS!TakeFrame
<1>13. CASE FinishMessage
  <2>1. MS!FinishMessage
    BY <1>2, <1>3, <1>4, <1>5, <1>11, <1>13, SameRules
       DEF FinishMessage, Deliver, Emit, MS!FinishMessage, MS!Deliver
  <2> QED
    BY <2>1 DEF MS!TakeFrame
<1> QED
  BY <1>7, <1>8, <1>9, <1>10, <1>12, <1>13

\* Every step of the codec is one of MessageStream's or leaves its state alone.
LEMMA CodecRefines ==
    ASSUME CodecTypes, LineInv, CodecInv, [Next]_vars
    PROVE  [MS!Next]_MS!vars
<1>1. CASE \/ RefuseBody \/ RefuseContinuation \/ ControlFrame \/ RefuseData
           \/ PushFrame \/ FinishMessage
  BY <1>1, TakeStep DEF MS!Next
<1>2. CASE BadHeader
  <2>1. /\ Len(src) > 0 /\ HeaderFault(head) # "none"
        /\ results' = Append(results, MS!Result(Err(HeaderFault(head)), <<>>, TRUE))
        /\ UNCHANGED <<wire, consumed, buffer>>
        /\ ~MS!Synced => MS!EmptyCalls < MaxEmptyCalls
    BY <1>2 DEF BadHeader, HasFault, HasLength, Emit, CodecTypes
  <2>2. head = MS!NextFrame /\ consumed < Len(wire)
    <3>1. head = wire[consumed + 1] /\ consumed + 1 \in 1..Len(wire)
      BY <2>1, HeadIsNext
    <3> QED
      BY <3>1, WireSendable DEF MS!NextFrame
  <2>3. CASE MS!Synced
    BY <2>1, <2>2, <2>3, SameRules DEF MS!BadHeader, MS!Next
  <2>4. CASE ~MS!Synced
    <3>1. MS!Err(HeaderFault(head)) \in
              {MS!Unknown} \cup {MS!Err(e) : e \in MS!HeaderFaults \cup MS!ReadFaults}
      BY <2>1, FaultRange
    <3>2. MS!Unspecified
      BY <2>1, <2>4, <3>1, SameRules DEF MS!Unspecified
    <3> QED
      BY <3>2 DEF MS!Next
  <2> QED
    BY <2>3, <2>4
<1>3. CASE DecodeEof
  <2>1. UNCHANGED <<wire, consumed, buffer>>
    BY <1>3 DEF DecodeEof
  <2>2. CASE src = <<>>
    BY <1>3, <2>1, <2>2 DEF DecodeEof, MS!vars
  <2>3. CASE src # <<>>
    <3>1. /\ MS!EmptyCalls < MaxEmptyCalls
          /\ results' = Append(results, MS!Result(Err("IoError"), <<>>, TRUE))
      BY <1>3, <2>3 DEF DecodeEof, Emit
    <3>2. "IoError" \in MS!ReadFaults
      BY DEF MS!ReadFaults
    <3>3. MS!Synced => MS!Interrupted
      BY <2>1, <3>1, <3>2, SameRules DEF MS!Interrupted
    <3>4. ~MS!Synced => MS!Unspecified
      <4>1. MS!Err("IoError") \in
                {MS!Unknown} \cup {MS!Err(e) : e \in MS!HeaderFaults \cup MS!ReadFaults}
        BY <3>2
      <4> QED
        BY <2>1, <3>1, <4>1, SameRules DEF MS!Unspecified
    <3> QED
      BY <3>3, <3>4 DEF MS!Next
  <2> QED
    BY <2>2, <2>3
<1>4. CASE \E f \in Frames : PeerSends(f)
  <2>1. PICK f \in Frames : PeerSends(f)
    BY <1>4
  <2>2. MS!PeerSends(f)
    BY <2>1 DEF PeerSends, MS!PeerSends
  <2> QED
    BY <2>2 DEF MS!Next
<1>5. CASE PeerGone \/ ReadSome \/ AskForMore \/ UNCHANGED vars
  BY <1>5 DEF PeerGone, ReadSome, ReadSocket, ReadEof, AskForMore, vars, MS!vars
<1> QED
  BY <1>1, <1>2, <1>3, <1>4, <1>5 DEF Next, Decode

\* The codec hands over what MessageStream promises, for any frames, any split of their
\* bytes and a connection lost anywhere.
THEOREM CodecImplements == Spec => ImplementsMessageStream
<1>1. Init => MS!Init
  BY DEF Init, MS!Init
<1>2. CodecTypes /\ LineInv /\ CodecInv /\ [Next]_vars => [MS!Next]_MS!vars
  BY CodecRefines
<1> QED
  BY <1>1, <1>2, CodecInvariant, PTL DEF Spec, ImplementsMessageStream, MS!Spec

-----------------------------------------------------------------------------
(* What follows from the promise *)

\* It is the same specification.
LEMMA SamePromise == MS!Spec => Promise!Spec
<1>1. MS!Init => Promise!Init
  BY DEF MS!Init, Promise!Init
<1>2. MS!Next => Promise!Next
  <2>1. \A f : MS!PeerSends(f) => Promise!PeerSends(f)
    BY DEF MS!PeerSends, Promise!PeerSends
  <2>2. MS!WrongMask => Promise!WrongMask
    BY Zenon DEF MS!WrongMask, Promise!WrongMask, MS!FrameReady, Promise!FrameReady,
                 MS!NextFrame, Promise!NextFrame, MS!MaskFits, Promise!MaskFits, MS!Synced,
                 Promise!Synced, MS!HeaderFault, Promise!HeaderFault, MS!MaskFault,
                 Promise!MaskFault, MS!ControlOps, Promise!ControlOps, MS!FormOf,
                 Promise!FormOf, MS!Refuse, Promise!Refuse, MS!TakeAlone, Promise!TakeAlone,
                 MS!Result, Promise!Result, MS!Err, Promise!Err, MS!Continuation,
                 Promise!Continuation, MS!Text, Promise!Text, MS!Binary, Promise!Binary,
                 MS!Close, Promise!Close, MS!Ping, Promise!Ping, MS!Pong, Promise!Pong
  <2>3. MS!OrphanContinuation => Promise!OrphanContinuation
    BY Zenon DEF MS!OrphanContinuation, Promise!OrphanContinuation, MS!FrameReady,
                 Promise!FrameReady, MS!NextFrame, Promise!NextFrame, MS!MaskFits,
                 Promise!MaskFits, MS!Synced, Promise!Synced, MS!HeaderFault,
                 Promise!HeaderFault, MS!MaskFault, Promise!MaskFault, MS!ControlOps,
                 Promise!ControlOps, MS!FormOf, Promise!FormOf, MS!Refuse, Promise!Refuse,
                 MS!TakeAlone, Promise!TakeAlone, MS!Result, Promise!Result, MS!Err,
                 Promise!Err, MS!Continuation, Promise!Continuation, MS!Text, Promise!Text,
                 MS!Binary, Promise!Binary, MS!Close, Promise!Close, MS!Ping, Promise!Ping,
                 MS!Pong, Promise!Pong
  <2>4. MS!UnexpectedDataFrame => Promise!UnexpectedDataFrame
    BY Zenon DEF MS!UnexpectedDataFrame, Promise!UnexpectedDataFrame, MS!DataOps,
                 Promise!DataOps, MS!FrameReady, Promise!FrameReady, MS!NextFrame,
                 Promise!NextFrame, MS!MaskFits, Promise!MaskFits, MS!Synced, Promise!Synced,
                 MS!HeaderFault, Promise!HeaderFault, MS!MaskFault, Promise!MaskFault,
                 MS!ControlOps, Promise!ControlOps, MS!FormOf, Promise!FormOf, MS!Refuse,
                 Promise!Refuse, MS!TakeAlone, Promise!TakeAlone, MS!Result, Promise!Result,
                 MS!Err, Promise!Err, MS!Continuation, Promise!Continuation, MS!Text,
                 Promise!Text, MS!Binary, Promise!Binary, MS!Close, Promise!Close, MS!Ping,
                 Promise!Ping, MS!Pong, Promise!Pong
  <2>5. MS!ControlFrame => Promise!ControlFrame
    BY Zenon DEF MS!ControlFrame, Promise!ControlFrame, MS!FrameReady, Promise!FrameReady,
                 MS!NextFrame, Promise!NextFrame, MS!MaskFits, Promise!MaskFits, MS!Synced,
                 Promise!Synced, MS!HeaderFault, Promise!HeaderFault, MS!MaskFault,
                 Promise!MaskFault, MS!ControlOps, Promise!ControlOps, MS!FormOf,
                 Promise!FormOf, MS!Deliver, Promise!Deliver, MS!Result, Promise!Result,
                 MS!FramesOf, Promise!FramesOf, MS!FromDataframes, Promise!FromDataframes,
                 MS!Assemble, Promise!Assemble, MS!Misplaced, Promise!Misplaced, MS!FlattenSeq,
                 Promise!FlattenSeq, MS!Utf8, Promise!Utf8, MS!Err, Promise!Err, MS!Msg,
                 Promise!Msg, MS!DataOps, Promise!DataOps, MS!Continuation,
                 Promise!Continuation, MS!Text, Promise!Text, MS!Binary, Promise!Binary,
                 MS!Close, Promise!Close, MS!Ping, Promise!Ping, MS!Pong, Promise!Pong
  <2>6. MS!Fragment => Promise!Fragment
    BY Zenon DEF MS!Fragment, Promise!Fragment, MS!Fits, Promise!Fits, MS!DataOps,
                 Promise!DataOps, MS!FrameReady, Promise!FrameReady, MS!NextFrame,
                 Promise!NextFrame, MS!MaskFits, Promise!MaskFits, MS!Synced, Promise!Synced,
                 MS!HeaderFault, Promise!HeaderFault, MS!MaskFault, Promise!MaskFault,
                 MS!ControlOps, Promise!ControlOps, MS!FormOf, Promise!FormOf, MS!Continuation,
                 Promise!Continuation, MS!Text, Promise!Text, MS!Binary, Promise!Binary,
                 MS!Close, Promise!Close, MS!Ping, Promise!Ping, MS!Pong, Promise!Pong
  <2>7. MS!FinishMessage => Promise!FinishMessage
    BY Zenon DEF MS!FinishMessage, Promise!FinishMessage, MS!Fits, Promise!Fits, MS!DataOps,
                 Promise!DataOps, MS!FrameReady, Promise!FrameReady, MS!NextFrame,
                 Promise!NextFrame, MS!MaskFits, Promise!MaskFits, MS!Synced, Promise!Synced,
                 MS!HeaderFault, Promise!HeaderFault, MS!MaskFault, Promise!MaskFault,
                 MS!ControlOps, Promise!ControlOps, MS!FormOf, Promise!FormOf, MS!Deliver,
                 Promise!Deliver, MS!Result, Promise!Result, MS!FramesOf, Promise!FramesOf,
                 MS!FromDataframes, Promise!FromDataframes, MS!Assemble, Promise!Assemble,
                 MS!Misplaced, Promise!Misplaced, MS!FlattenSeq, Promise!FlattenSeq, MS!Utf8,
                 Promise!Utf8, MS!Err, Promise!Err, MS!Msg, Promise!Msg, MS!Continuation,
                 Promise!Continuation, MS!Text, Promise!Text, MS!Binary, Promise!Binary,
                 MS!Close, Promise!Close, MS!Ping, Promise!Ping, MS!Pong, Promise!Pong
  <2>8. MS!RawFrame => Promise!RawFrame
    BY Zenon DEF MS!RawFrame, Promise!RawFrame, MS!TakeAlone, Promise!TakeAlone, MS!Result,
                 Promise!Result, MS!RawFrameOut, Promise!RawFrameOut, MS!FrameReady,
                 Promise!FrameReady, MS!NextFrame, Promise!NextFrame, MS!MaskFits,
                 Promise!MaskFits, MS!Synced, Promise!Synced, MS!HeaderFault,
                 Promise!HeaderFault, MS!MaskFault, Promise!MaskFault, MS!ControlOps,
                 Promise!ControlOps, MS!FormOf, Promise!FormOf, MS!Continuation,
                 Promise!Continuation, MS!Text, Promise!Text, MS!Binary, Promise!Binary,
                 MS!Close, Promise!Close, MS!Ping, Promise!Ping, MS!Pong, Promise!Pong
  <2>9. MS!BadHeader => Promise!BadHeader
    BY Zenon DEF MS!BadHeader, Promise!BadHeader, MS!Synced, Promise!Synced, MS!NextFrame,
                 Promise!NextFrame, MS!HeaderFault, Promise!HeaderFault, MS!ControlOps,
                 Promise!ControlOps, MS!FormOf, Promise!FormOf, MS!Refuse, Promise!Refuse,
                 MS!TakeAlone, Promise!TakeAlone, MS!Result, Promise!Result, MS!Err,
                 Promise!Err, MS!Continuation, Promise!Continuation, MS!Text, Promise!Text,
                 MS!Binary, Promise!Binary, MS!Close, Promise!Close, MS!Ping, Promise!Ping,
                 MS!Pong, Promise!Pong
  <2>10. MS!Interrupted => Promise!Interrupted
    BY Zenon DEF MS!Interrupted, Promise!Interrupted, MS!Synced, Promise!Synced, MS!EmptyCalls,
                 Promise!EmptyCalls, MS!Cardinality, Promise!Cardinality, MS!ReadFaults,
                 Promise!ReadFaults, MS!Result, Promise!Result, MS!Err, Promise!Err
  <2>11. MS!Unspecified => Promise!Unspecified
    BY Zenon DEF MS!Unspecified, Promise!Unspecified, MS!Synced, Promise!Synced, MS!EmptyCalls,
                 Promise!EmptyCalls, MS!Cardinality, Promise!Cardinality, MS!HeaderFaults,
                 Promise!HeaderFaults, MS!ReadFaults, Promise!ReadFaults, MS!Unknown,
                 Promise!Unknown, MS!Result, Promise!Result, MS!Err, Promise!Err
  <2>12. MS!TakeFrame => Promise!TakeFrame
    BY <2>2, <2>3, <2>4, <2>5, <2>6, <2>7, <2>8
       DEF MS!TakeFrame, Promise!TakeFrame
  <2> QED
    BY <2>1, <2>9, <2>10, <2>11, <2>12 DEF MS!Next, Promise!Next
<1>3. [MS!Next]_MS!vars => [Promise!Next]_Promise!vars
  BY <1>2 DEF MS!vars, Promise!vars
<1> QED
  BY <1>1, <1>3, PTL DEF MS!Spec, Promise!Spec

\* What the codec returns accounts for every frame once, in order and with no silent gap; its
\* text and binary messages are whole; and a peer that keeps the rules of fragmentation
\* has every message it finishes delivered.
THEOREM CodecDelivers ==
    Spec => [](/\ Promise!FramesAccountedFor /\ Promise!ResultsInOrder
               /\ Promise!WholeMessages /\ Promise!NoSilentGap
               /\ Promise!RulesKeptMeansDelivered)
<1>1. Spec => Promise!Spec
  BY CodecImplements, SamePromise DEF ImplementsMessageStream
<1>2. Promise!Spec => []Promise!FramesAccountedFor
  BY PromiseAssumed, Promise!FramesAccounted DEF Promise!FramesAccounted
<1>3. Promise!Spec => []Promise!ResultsInOrder
  BY PromiseAssumed, Promise!ResultsComeInOrder DEF Promise!ResultsComeInOrder
<1>4. Promise!Spec => []Promise!WholeMessages
  BY PromiseAssumed, Promise!MessagesAreWhole DEF Promise!MessagesAreWhole
<1>5. Promise!Spec => []Promise!NoSilentGap
  BY PromiseAssumed, Promise!GapsAreReported DEF Promise!GapsAreReported
<1>6. Promise!Spec => []Promise!RulesKeptMeansDelivered
  BY PromiseAssumed, Promise!RulesKeptDelivers DEF Promise!RulesKeptDelivers
<1> QED
  BY <1>1, <1>2, <1>3, <1>4, <1>5, <1>6, PTL

=============================================================================
