---------------------------- MODULE ReceiverProofs ----------------------------
(***************************************************************************)
(* What the blocking Receiver guarantees for any frames, however their     *)
(* bytes arrive: it implements MessageStream, stays in step with the       *)
(* writer until it reports a cut, and gives up waiting only when the peer  *)
(* is gone or the socket does not block.                                   *)
(***************************************************************************)
EXTENDS Receiver, TLAPS

\* MessageStream again, with the theorems about it and about the bytes of frames.
Promise == INSTANCE MessageStreamProofs
               WITH Frames <- Frames, ShouldBeMasked <- ShouldBeMasked,
                    MaxFrames <- MaxFrames, MaxEmptyCalls <- MaxEmptyCalls,
                    wire <- wire, consumed <- consumed, buffer <- buffer, results <- results

\* What MessageStream assumes of its constants is assumed here.
LEMMA PromiseAssumed == Promise!StreamAssumption /\ Promise!LengthAssumption
BY LengthAssumption, ReceiverAssumption
   DEF Promise!StreamAssumption, Promise!LengthAssumption, Promise!IsFrame, IsFrame,
       Promise!Form, Form, Promise!Opcode, Opcode, Promise!Byte, Byte

\* Its frames are those of this module.
LEMMA SameFrames ==
    \A f : /\ Promise!IsFrame(f) <=> IsFrame(f)
           /\ Promise!WireLen(f) = WireLen(f)
BY DEF Promise!IsFrame, IsFrame, Promise!WireLen, WireLen, Promise!HeaderLen, HeaderLen,
       Promise!ExtLen, ExtLen, Promise!KeyLen, KeyLen, Promise!Form, Form,
       Promise!Opcode, Opcode, Promise!Byte, Byte

\* A frame has at least the two bytes of its header.
LEMMA FrameLengths ==
    ASSUME NEW f, IsFrame(f)
    PROVE  /\ ExtLen(f.form) \in {0, 2, 8} /\ KeyLen(f.masked) \in {0, 4}
           /\ Len(f.data) \in Nat
           /\ HeaderLen(f) \in Nat /\ HeaderLen(f) >= 2
           /\ WireLen(f) \in Nat /\ WireLen(f) >= HeaderLen(f)
BY PromiseAssumed, SameFrames, Promise!FrameLengths
   DEF Promise!WireLen, WireLen, Promise!HeaderLen, HeaderLen, Promise!ExtLen, ExtLen,
       Promise!KeyLen, KeyLen

-----------------------------------------------------------------------------
Places == {"idle", "byte0", "byte1", "ext", "key", "payload"}

\* The state is what it should be.
ReceiverTypes ==
    /\ wire \in Seq(Frames) /\ consumed \in 0..Len(wire)
    /\ buffer \in Seq(Nat)
    /\ results \in Seq(ToSet(results))
    /\ stream \in Seq(Promise!ByteRecord) /\ net \in Seq(Promise!ByteRecord)
    /\ pc \in Places

\* A call is inside a frame that has been sent, past its header only when nothing is
\* wrong with it, and only on a stream that is not cut.
PlaceInv ==
    /\ pc # "idle" => MS!Synced
    /\ pc \notin {"idle", "byte0"} => consumed < Len(wire)
    /\ pc \in {"key", "payload"} => HeaderFault(cur) = "none"

\* Until it is cut, the stream is in line and begins where the call is; while the peer
\* is there, all that was sent is there too.
LineInv ==
    MS!Synced =>
        /\ Promise!InLine(stream \o net, wire)
        /\ Promise!Begins(stream \o net, wire, consumed, Read)
        /\ ~gone => Promise!AllThere(stream \o net, wire, consumed, Read)

\* A step that takes a frame either goes on with the message or returns a result that
\* accounts for the frame.
Takes ==
    /\ TakeFrame
    /\ \/ pc' = "byte0" /\ results' = results
       \/ /\ pc' = "idle"
          /\ \E out, from :
                from # <<>> /\ results' = Append(results, MS!Result(out, from, FALSE))
    /\ buffer' \in Seq(Nat)

\* The steps of the Receiver, sorted by what they do to the stream.
LEMMA ReceiverSteps ==
    ASSUME ReceiverTypes, [Next]_vars
    PROVE  \/ \E f \in Frames : PeerSends(f)
           \/ \E n \in 1..Len(net) : Arrive(n)
           \/ PeerGone \/ SetNonblocking
           \/ Call \/ ReadByte \/ ReadLength \/ RefuseHeader \/ ReadKey
           \/ Takes
           \/ ReadFails \/ CallWhenCut
           \/ UNCHANGED vars
<1>1. /\ <<consumed + 1>> # <<>> /\ <<consumed + 1>> \in Seq(Nat)
      /\ Append(buffer, consumed + 1) # <<>> /\ Append(buffer, consumed + 1) \in Seq(Nat)
      /\ <<>> \in Seq(Nat) /\ buffer \in Seq(Nat)
  <2>1. consumed + 1 \in Nat /\ buffer \in Seq(Nat) /\ Len(buffer) \in Nat
    BY DEF ReceiverTypes
  <2> DEFINE c == consumed + 1
  <2> HIDE DEF c
  <2>2. c \in Nat
    BY <2>1 DEF c
  <2>3. <<c>> \in Seq(Nat) /\ Len(<<c>>) = 1 /\ Len(<<>>) = 0
    BY <2>2
  <2>4. Append(buffer, c) \in Seq(Nat) /\ Len(Append(buffer, c)) = Len(buffer) + 1
    BY <2>1, <2>2
  <2>5. Append(buffer, c) # <<>>
    BY <2>1, <2>3, <2>4
  <2>6. <<>> \in Seq(Nat)
    OBVIOUS
  <2> QED
    BY <2>1, <2>3, <2>4, <2>5, <2>6 DEF c
<1>2. ASSUME NEW from, TakeFrame, Deliver(from), from # <<>>, buffer' \in Seq(Nat) PROVE Takes
  BY <1>2 DEF Deliver, Return, Takes
<1>3. ASSUME NEW e, TakeFrame, Refuse(e) PROVE Takes
  BY <1>1, <1>3 DEF Refuse, Return, Takes
<1>4. CASE RefuseBody
  BY <1>3, <1>4 DEF RefuseBody
<1>5. CASE RawFrame
  BY <1>1, <1>5 DEF RawFrame, Return, Takes
<1>6. CASE FirstFrame
  <2>1. TakeFrame
    BY <1>6 DEF FirstFrame
  <2>2. \/ Refuse("UnexpectedContinuation")
        \/ Deliver(<<consumed + 1>>) /\ buffer' = <<>>
        \/ buffer' = <<consumed + 1>> /\ Continue("byte0")
    BY <1>6 DEF FirstFrame
  <2> QED
    BY <1>1, <1>2, <1>3, <2>1, <2>2 DEF Continue, Takes
<1>7. CASE NextFrame
  <2>1. TakeFrame
    BY <1>7 DEF NextFrame
  <2>2. \/ Refuse("UnexpectedOpcode")
        \/ Deliver(Append(buffer, consumed + 1)) /\ buffer' = <<>>
        \/ buffer' = Append(buffer, consumed + 1) /\ Continue("byte0")
        \/ Deliver(<<consumed + 1>>) /\ buffer' = buffer
    BY <1>7 DEF NextFrame
  <2> QED
    BY <1>1, <1>2, <1>3, <2>1, <2>2 DEF Continue, Takes
<1> QED
  BY <1>4, <1>5, <1>6, <1>7 DEF Next, Receive

\* A frame that has been sent is a frame.
LEMMA WireSendable ==
    ASSUME ReceiverTypes
    PROVE  /\ Promise!Sendable(wire) /\ Len(wire) \in Nat /\ consumed \in Nat
           /\ stream \o net \in Seq(Promise!ByteRecord)
           /\ Len(stream \o net) = Len(stream) + Len(net)
           /\ Len(stream) \in Nat /\ Len(net) \in Nat
BY ReceiverAssumption, Promise!Concatenated, PromiseAssumed, SameFrames DEF ReceiverTypes,
   Promise!Sendable

\* Inside a frame, the call has read some of it.
LEMMA InsideFrame ==
    ASSUME ReceiverTypes, PlaceInv, pc \notin {"idle", "byte0"}
    PROVE  /\ consumed + 1 \in 1..Len(wire) /\ IsFrame(cur)
           /\ Read \in Nat /\ Read > 0
<1>1. consumed + 1 \in 1..Len(wire)
  BY WireSendable DEF PlaceInv
<1>2. IsFrame(cur)
  BY <1>1, WireSendable, SameFrames DEF cur, Promise!Sendable
<1>3. ExtLen(cur.form) \in Nat /\ HeaderLen(cur) \in Nat /\ HeaderLen(cur) >= 2
  BY <1>2, FrameLengths
<1>4. pc \in {"byte1", "ext", "key", "payload"}
  BY DEF ReceiverTypes, Places
<1> HIDE DEF PlaceInv
<1> QED
  BY <1>1, <1>2, <1>3, <1>4 DEF Read

\* What the call has read of the frame, and what it asks for next.
LEMMA ReadAndNeed ==
    ASSUME ReceiverTypes, PlaceInv, LineInv, pc # "idle", Len(stream) >= Need
    PROVE  /\ consumed < Len(wire) /\ IsFrame(cur) /\ cur \in Frames
           /\ Need \in Nat /\ Read \in Nat
           /\ Read + Need = CASE pc = "byte0" -> 1
                              [] pc = "byte1" -> 2
                              [] pc = "ext"   -> 2 + ExtLen(cur.form)
                              [] pc = "key"   -> HeaderLen(cur)
                              [] OTHER        -> WireLen(cur)
           /\ Read + Need <= WireLen(cur)
<1>1. consumed < Len(wire)
  <2>1. CASE pc = "byte0"
    <3> DEFINE s == stream \o net
    <3>1. Need = 1 /\ Read = 0
      BY <2>1 DEF Need, Read
    <3>2. Len(s) > 0 /\ 1 \in 1..Len(s)
      BY <3>1, WireSendable
    <3>3. Promise!InLine(s, wire) /\ Promise!Begins(s, wire, consumed, 0)
      BY <3>1 DEF PlaceInv, LineInv
    <3> HIDE DEF s
    <3>4. s[1] = Promise!ByteAt(consumed + 1, 1) /\ s[1].frame \in 1..Len(wire)
      BY <3>2, <3>3 DEF Promise!Begins, Promise!InLine
    <3> QED
      BY <3>4, WireSendable DEF Promise!ByteAt
  <2> QED
    BY <2>1 DEF PlaceInv
<1>2. cur \in Frames /\ IsFrame(cur)
  BY <1>1, WireSendable, ReceiverAssumption DEF cur, ReceiverTypes
<1>3. /\ ExtLen(cur.form) \in Nat /\ KeyLen(cur.masked) \in Nat /\ Len(cur.data) \in Nat
  BY <1>2, FrameLengths
<1>4. pc \in Places \ {"idle"}
  BY DEF ReceiverTypes
<1> QED
  BY <1>1, <1>2, <1>3, <1>4 DEF Need, Read, HeaderLen, WireLen, Places

\* A read that gets what it asks for.
LEMMA ReadStep ==
    ASSUME ReceiverTypes, PlaceInv, LineInv, Reads
    PROVE  /\ stream' \in Seq(Promise!ByteRecord) /\ net' = net /\ wire' = wire /\ gone' = gone
           /\ Promise!InLine((stream \o net)', wire)
           /\ Promise!Begins((stream \o net)', wire, consumed, Read + Need)
           /\ ~gone => Promise!AllThere((stream \o net)', wire, consumed, Read + Need)
<1> DEFINE s == stream \o net
           t == SubSeq(stream, Need + 1, Len(stream))
           u == SubSeq(s, Need + 1, Len(s))
<1>1. /\ pc # "idle" /\ Len(stream) >= Need /\ stream' = t
      /\ UNCHANGED <<wire, net, gone>>
  BY DEF Reads
<1>2. /\ consumed < Len(wire) /\ Need \in Nat /\ Read \in Nat
      /\ Read + Need <= WireLen(wire[consumed + 1])
  BY <1>1, ReadAndNeed DEF cur
<1>3. t \in Seq(Promise!ByteRecord) /\ t \o net = u
  <2>1. Need <= Len(stream) /\ stream \in Seq(Promise!ByteRecord) /\ net \in Seq(Promise!ByteRecord)
    BY <1>1, <1>2, WireSendable DEF ReceiverTypes
  <2> HIDE DEF s, t, u
  <2>2. LET r == SubSeq(stream, Need + 1, Len(stream)) IN
        /\ r \in Seq(Promise!ByteRecord)
        /\ r \o net = SubSeq(stream \o net, Need + 1, Len(stream \o net))
    BY <1>2, <2>1, Promise!FrontOff, PromiseAssumed
  <2> QED
    BY <2>2 DEF s, t, u
<1>4. /\ Promise!InLine(s, wire) /\ Promise!Begins(s, wire, consumed, Read)
      /\ ~gone => Promise!AllThere(s, wire, consumed, Read)
  BY <1>1 DEF PlaceInv, LineInv
<1>5. Need <= Len(s) /\ consumed + 1 <= Len(wire) /\ s \in Seq(Promise!ByteRecord)
  BY <1>1, <1>2, WireSendable
<1> HIDE DEF s
<1>6. /\ Promise!InLine(u, wire) /\ Promise!Begins(u, wire, consumed, Read + Need)
      /\ ~gone => Promise!AllThere(u, wire, consumed, Read + Need)
  BY <1>2, <1>4, <1>5, WireSendable, Promise!BytesRead, PromiseAssumed, SameFrames
<1> QED
  BY <1>1, <1>3, <1>6

\* What a result does to Synced.
LEMMA ResultsStep ==
    ASSUME results \in Seq(ToSet(results)), NEW out, NEW from, NEW cut \in BOOLEAN,
           results' = Append(results, MS!Result(out, from, cut))
    PROVE  /\ results' \in Seq(ToSet(results'))
           /\ MS!Synced' <=> MS!Synced /\ ~cut
<1> DEFINE new == MS!Result(out, from, cut)
<1>1. new.cut = cut
  BY DEF MS!Result
<1> HIDE DEF new
<1>2. /\ results' \in Seq(ToSet(results'))
      /\ (\A i \in DOMAIN results' : ~results'[i].cut) <=>
         (\A i \in DOMAIN results : ~results[i].cut) /\ ~new.cut
  BY Promise!AppendResult, PromiseAssumed DEF new, Promise!ToSet, ToSet
<1> QED
  BY <1>1, <1>2 DEF MS!Synced

-----------------------------------------------------------------------------
(* The place of the call in the stream *)

LineTypes == ReceiverTypes /\ PlaceInv /\ LineInv

\* Only the steps that return touch the results.
LEMMA SyncedSame ==
    ASSUME results' = results
    PROVE  MS!Synced' <=> MS!Synced
BY DEF MS!Synced

\* Another frame is sent.
LEMMA SendStep ==
    ASSUME LineTypes, NEW f \in Frames, PeerSends(f)
    PROVE  LineTypes'
<1> USE DEF LineTypes
<1> DEFINE u == BytesOf(Len(wire) + 1, f)
           v == Append(wire, f)
           s == stream \o net
<1>1. /\ wire' = v /\ net' = net \o u /\ ~gone
      /\ UNCHANGED <<consumed, buffer, results, stream, gone, pc>>
  BY DEF PeerSends, callVars
<1>2. v \in Seq(Frames) /\ Len(v) = Len(wire) + 1 /\ \A j \in 1..Len(wire) : v[j] = wire[j]
  BY DEF ReceiverTypes
<1>3. u \in Seq(Promise!ByteRecord)
  <2>1. \A k \in 1..WireLen(f) : [frame |-> Len(wire) + 1, k |-> k] \in Promise!ByteRecord
    BY WireSendable DEF Promise!ByteRecord
  <2>2. WireLen(f) \in Nat
    BY FrameLengths, ReceiverAssumption
  <2> QED
    BY <2>1, <2>2 DEF BytesOf
<1>4. net \o u \in Seq(Promise!ByteRecord) /\ stream \o (net \o u) = s \o u
  <2> HIDE DEF u
  <2>1. net \in Seq(Promise!ByteRecord) /\ stream \in Seq(Promise!ByteRecord)
    BY DEF ReceiverTypes
  <2>2. net \o u \in Seq(Promise!ByteRecord)
    BY <1>3, <2>1, Promise!Concatenated, PromiseAssumed
  <2>3. (stream \o net) \o u = stream \o (net \o u)
    BY <1>3, <2>1, Promise!Associative, PromiseAssumed
  <2> QED
    BY <2>2, <2>3
<1>5. consumed < Len(wire) => cur' = cur
  <2>1. consumed < Len(wire) => consumed + 1 \in 1..Len(wire)
    BY WireSendable
  <2> QED
    BY <1>1, <1>2, <2>1 DEF cur
<1>6. Read' = Read
  BY <1>1, <1>5 DEF Read, PlaceInv, ReceiverTypes, Places
<1>7. ReceiverTypes'
  <2>1. consumed \in 0..Len(v)
    BY <1>2, WireSendable DEF ReceiverTypes
  <2> QED
    BY <1>1, <1>2, <1>4, <2>1 DEF ReceiverTypes
<1>8. PlaceInv'
  <2>1. consumed < Len(wire) => consumed < Len(v)
    BY <1>2, WireSendable
  <2> QED
    BY <1>1, <1>5, <2>1, SyncedSame DEF PlaceInv, ReceiverTypes, Places
<1>9. LineInv'
  <2>1. SUFFICES ASSUME MS!Synced
                 PROVE  Promise!InLine(s \o u, v) /\ Promise!Begins(s \o u, v, consumed, Read)
                        /\ Promise!AllThere(s \o u, v, consumed, Read)
    BY <1>1, <1>4, <1>6, SyncedSame DEF LineInv
  <2>2. /\ wire \in Seq(Frames) /\ Promise!Sendable(wire) /\ IsFrame(f) /\ consumed \in 0..Len(wire)
        /\ s \in Seq(Promise!ByteRecord)
        /\ Promise!InLine(s, wire) /\ Promise!Begins(s, wire, consumed, Read)
        /\ Promise!AllThere(s, wire, consumed, Read)
    BY <1>1, <2>1, WireSendable, ReceiverAssumption DEF ReceiverTypes, LineInv
  <2>3. Read \in Nat /\ (Read > 0 => consumed + 1 <= Len(wire))
    <3>1. pc \in {"idle", "byte0"} => Read = 0
      BY DEF Read
    <3> QED
      BY <3>1, InsideFrame, WireSendable
  <2> HIDE DEF s
  <2> QED
    BY <2>2, <2>3, Promise!FrameSent, PromiseAssumed, SameFrames DEF BytesOf
<1> QED
  BY <1>7, <1>8, <1>9

\* Bytes arrive, the peer goes, the socket stops blocking, or a call begins: the place
\* in the stream stays.
LEMMA NetworkStep ==
    ASSUME LineTypes,
           \/ \E n \in 1..Len(net) : Arrive(n)
           \/ PeerGone \/ SetNonblocking \/ Call \/ UNCHANGED vars
    PROVE  LineTypes'
<1> USE DEF LineTypes
<1>1. UNCHANGED <<wire, consumed, buffer, results>>
  BY DEF Arrive, PeerGone, SetNonblocking, Call, vars
<1>2. pc' = pc \/ (pc = "idle" /\ pc' = "byte0" /\ MS!Synced)
  BY DEF Arrive, PeerGone, SetNonblocking, Call, vars, callVars
<1>3. cur' = cur
  BY <1>1 DEF cur
<1>4. Read' = Read
  BY <1>2, <1>3 DEF Read
<1>5. PlaceInv'
  BY <1>1, <1>2, <1>3, SyncedSame DEF PlaceInv
<1>6. CASE \E n \in 1..Len(net) : Arrive(n)
  <2>1. PICK n \in 1..Len(net) : Arrive(n)
    BY <1>6
  <2>2. /\ stream' = stream \o SubSeq(net, 1, n) /\ net' = SubSeq(net, n + 1, Len(net))
        /\ gone' = gone
    BY <2>1 DEF Arrive
  <2>3. /\ stream' \in Seq(Promise!ByteRecord) /\ net' \in Seq(Promise!ByteRecord)
        /\ (stream \o net)' = stream \o net
    BY <2>2, Promise!Moved, PromiseAssumed DEF ReceiverTypes
  <2>4. ReceiverTypes'
    BY <1>1, <1>2, <2>3 DEF ReceiverTypes, Places
  <2> QED
    BY <1>1, <1>4, <1>5, <2>2, <2>3, <2>4, SyncedSame DEF LineInv
<1>7. CASE PeerGone
  <2>1. net' = <<>> /\ gone' /\ stream' = stream
    BY <1>7 DEF PeerGone
  <2>2. ReceiverTypes'
    BY <1>1, <1>2, <2>1 DEF ReceiverTypes, Places
  <2>3. LineInv'
    <3>1. SUFFICES ASSUME MS!Synced
                   PROVE  /\ Promise!InLine(stream \o <<>>, wire)
                          /\ Promise!Begins(stream \o <<>>, wire, consumed, Read)
      BY <1>1, <1>4, <2>1, SyncedSame DEF LineInv
    <3> DEFINE e == <<>>
    <3>2. e \in Seq(Promise!ByteRecord) /\ Len(e) <= Len(net) /\ \A j \in 1..Len(e) : e[j] = net[j]
      BY WireSendable
    <3>3. Promise!InLine(stream \o net, wire) /\ Promise!Begins(stream \o net, wire, consumed, Read)
      BY <3>1 DEF LineInv
    <3>4. /\ stream \in Seq(Promise!ByteRecord) /\ net \in Seq(Promise!ByteRecord)
          /\ Promise!Sendable(wire)
      BY WireSendable DEF ReceiverTypes
    <3> HIDE DEF e
    <3>5. Promise!InLine(stream \o e, wire) /\ Promise!Begins(stream \o e, wire, consumed, Read)
      BY <3>2, <3>3, <3>4, Promise!CutOff, PromiseAssumed, SameFrames
    <3> QED
      BY <3>5 DEF e
  <2> QED
    BY <1>5, <2>2, <2>3
<1>8. CASE SetNonblocking \/ Call \/ UNCHANGED vars
  <2>1. UNCHANGED <<stream, net, gone>>
    BY <1>8 DEF SetNonblocking, Call, vars, ioVars
  <2>2. ReceiverTypes'
    BY <1>1, <1>2, <2>1 DEF ReceiverTypes, Places
  <2> QED
    BY <1>1, <1>4, <1>5, <2>1, <2>2, SyncedSame DEF LineInv
<1> QED
  BY <1>6, <1>7, <1>8

\* A read inside a frame moves the place on by what it read.
LEMMA InsideStep ==
    ASSUME LineTypes, ReadByte \/ ReadLength \/ ReadKey
    PROVE  LineTypes'
<1> USE DEF LineTypes
<1>1. Reads /\ pc # "idle" /\ Len(stream) >= Need
  BY DEF ReadByte, ReadLength, ReadKey, Reads
<1>2. /\ stream' \in Seq(Promise!ByteRecord) /\ net' = net /\ wire' = wire /\ gone' = gone
      /\ Promise!InLine((stream \o net)', wire)
      /\ Promise!Begins((stream \o net)', wire, consumed, Read + Need)
      /\ ~gone => Promise!AllThere((stream \o net)', wire, consumed, Read + Need)
  BY <1>1, ReadStep
<1>3. UNCHANGED <<consumed, buffer, results>>
  BY DEF ReadByte, ReadLength, ReadKey, Continue
<1>4. \/ pc = "byte0" /\ pc' = "byte1"
      \/ pc = "byte1" /\ pc' = "ext"
      \/ pc = "ext" /\ pc' = "key" /\ HeaderFault(cur) = "none"
      \/ pc = "key" /\ pc' = "payload"
  BY DEF ReadByte, ReadLength, ReadKey, Continue
<1>5. cur' = cur
  BY <1>2, <1>3 DEF cur
<1>6. consumed < Len(wire) /\ Read' = Read + Need
  BY <1>1, <1>4, <1>5, ReadAndNeed DEF Read
<1>7. ReceiverTypes'
  BY <1>2, <1>3, <1>4 DEF ReceiverTypes, Places
<1>8. PlaceInv'
  BY <1>2, <1>3, <1>4, <1>5, <1>6, SyncedSame DEF PlaceInv
<1>9. LineInv'
  BY <1>2, <1>3, <1>6 DEF LineInv
<1> QED
  BY <1>7, <1>8, <1>9

\* The read that ends a frame leaves the stream at the start of the next.
LEMMA EndStep ==
    ASSUME LineTypes, Reads, consumed' = consumed + 1, pc' \in {"idle", "byte0"},
           Read + Need = WireLen(cur), buffer' \in Seq(Nat),
           \/ results' = results
           \/ /\ pc' = "idle"
              /\ \E out, from : results' = Append(results, MS!Result(out, from, FALSE))
    PROVE  LineTypes'
<1> USE DEF LineTypes
<1>1. pc # "idle" /\ Len(stream) >= Need /\ MS!Synced
  BY DEF Reads, PlaceInv
<1>2. /\ stream' \in Seq(Promise!ByteRecord) /\ net' = net /\ wire' = wire /\ gone' = gone
      /\ Promise!InLine((stream \o net)', wire)
      /\ Promise!Begins((stream \o net)', wire, consumed, WireLen(cur))
      /\ ~gone => Promise!AllThere((stream \o net)', wire, consumed, WireLen(cur))
  BY ReadStep
<1>3. consumed < Len(wire) /\ consumed + 1 <= Len(wire) /\ consumed + 1 \in 0..Len(wire)
  BY <1>1, ReadAndNeed, WireSendable
<1>4. /\ Promise!Begins((stream \o net)', wire, consumed + 1, 0)
      /\ ~gone => Promise!AllThere((stream \o net)', wire, consumed + 1, 0)
  BY <1>2, <1>3, WireSendable, Promise!FrameRead, PromiseAssumed, SameFrames DEF cur
<1>5. Read' = 0
  BY DEF Read
<1>6. results' \in Seq(ToSet(results')) /\ MS!Synced'
  BY <1>1, ResultsStep, SyncedSame DEF ReceiverTypes
<1>7. ReceiverTypes'
  BY <1>2, <1>3, <1>6 DEF ReceiverTypes, Places
<1>8. PlaceInv'
  BY <1>6 DEF PlaceInv
<1>9. LineInv'
  BY <1>2, <1>4, <1>5 DEF LineInv
<1> QED
  BY <1>7, <1>8, <1>9

\* A call that returns with the stream cut.
LEMMA CutStep ==
    ASSUME LineTypes, pc' = "idle", stream' \in Seq(Promise!ByteRecord),
           UNCHANGED <<wire, consumed, buffer, net>>,
           \E out, from : results' = Append(results, MS!Result(out, from, TRUE))
    PROVE  LineTypes'
<1> USE DEF LineTypes
<1>1. results' \in Seq(ToSet(results')) /\ ~MS!Synced'
  BY ResultsStep DEF ReceiverTypes
<1> QED
  BY <1>1 DEF ReceiverTypes, PlaceInv, LineInv, Places

\* Each step keeps the place of the call in the stream.
LEMMA LineStep ==
    ASSUME LineTypes, [Next]_vars
    PROVE  LineTypes'
<1> USE DEF LineTypes
<1>1. CASE Takes
  <2>1. Reads /\ pc = "payload" /\ consumed' = consumed + 1 /\ Len(stream) >= Need
    BY <1>1 DEF Takes, TakeFrame, Reads
  <2>2. Read + Need = WireLen(cur)
    BY <2>1, ReadAndNeed
  <2> QED
    BY <1>1, <2>1, <2>2, EndStep DEF Takes
<1>2. CASE RefuseHeader
  <2>1. Reads /\ pc = "ext" /\ Len(stream) >= Need /\ buffer' = buffer /\ pc' = "idle"
    BY <1>2 DEF RefuseHeader, Reads, Return
  <2>2. /\ Read + Need = 2 + ExtLen(cur.form) /\ IsFrame(cur)
        /\ ExtLen(cur.form) \in Nat /\ KeyLen(cur.masked) \in Nat /\ Len(cur.data) \in Nat
    BY <2>1, ReadAndNeed, FrameLengths
  <2>3. CASE KeyLen(cur.masked) + Len(cur.data) = 0
    <3>1. /\ consumed' = consumed + 1
          /\ \E out, from : results' = Append(results, MS!Result(out, from, FALSE))
      BY <1>2, <2>3 DEF RefuseHeader, Return
    <3>2. Read + Need = WireLen(cur)
      BY <2>2, <2>3 DEF WireLen, HeaderLen
    <3>3. buffer' \in Seq(Nat)
      BY <2>1 DEF ReceiverTypes
    <3> QED
      BY <2>1, <3>1, <3>2, <3>3, EndStep
  <2>4. CASE KeyLen(cur.masked) + Len(cur.data) # 0
    <3>1. /\ consumed' = consumed
          /\ \E out, from : results' = Append(results, MS!Result(out, from, TRUE))
      BY <1>2, <2>4 DEF RefuseHeader, Return
    <3>2. stream' \in Seq(Promise!ByteRecord) /\ net' = net /\ wire' = wire
      BY <2>1, ReadStep
    <3> QED
      BY <2>1, <3>1, <3>2, CutStep
  <2> QED
    BY <2>3, <2>4
<1>3. CASE ReadFails
  <2>1. /\ stream' = <<>> /\ pc' = "idle" /\ pc # "idle" /\ Len(stream) < Need
        /\ UNCHANGED <<wire, consumed, buffer, net, gone>>
        /\ \E out, from : results' = Append(results, MS!Result(out, from, pc # "byte0"))
    BY <1>3 DEF ReadFails, Return
  <2>2. stream' \in Seq(Promise!ByteRecord)
    BY <2>1
  <2>3. CASE pc = "byte0"
    <3>1. stream' = stream
      <4>1. Need = 1
        BY <2>3 DEF Need
      <4>2. Len(stream) = 0
        BY <2>1, <4>1, WireSendable
      <4> QED
        BY <2>1, <4>2 DEF ReceiverTypes
    <3>2. MS!Synced /\ Read = 0 /\ Read' = 0
      BY <2>1, <2>3 DEF PlaceInv, Read
    <3>3. results' \in Seq(ToSet(results')) /\ MS!Synced'
      BY <2>1, <2>3, <3>2, ResultsStep DEF ReceiverTypes
    <3>4. ReceiverTypes' /\ PlaceInv'
      BY <2>1, <2>2, <3>3 DEF ReceiverTypes, PlaceInv, Places
    <3>5. LineInv'
      BY <2>1, <3>1, <3>2 DEF LineInv
    <3> QED
      BY <3>4, <3>5
  <2>4. CASE pc # "byte0"
    <3>1. \E out, from : results' = Append(results, MS!Result(out, from, TRUE))
      BY <2>1, <2>4
    <3> QED
      BY <2>1, <2>2, <3>1, CutStep
  <2> QED
    BY <2>3, <2>4
<1>4. CASE CallWhenCut
  <2>1. /\ pc' = "idle" /\ UNCHANGED <<wire, consumed, buffer, net, stream>>
        /\ \E out, from : results' = Append(results, MS!Result(out, from, TRUE))
    BY <1>4 DEF CallWhenCut, Return, ioVars
  <2>2. stream' \in Seq(Promise!ByteRecord)
    BY <2>1 DEF ReceiverTypes
  <2> QED
    BY <2>1, <2>2, CutStep
<1> QED
  BY <1>1, <1>2, <1>3, <1>4, ReceiverSteps, SendStep, NetworkStep, InsideStep

\* The reader and the stream agree on where the call is.
LEMMA LineInvariant == Spec => []LineTypes
<1>1. Init => LineTypes
  <2> SUFFICES ASSUME Init PROVE LineTypes
    OBVIOUS
  <2>1. ReceiverTypes
    BY DEF Init, ReceiverTypes, Places
  <2>2. /\ stream \o net = <<>> /\ Len(stream \o net) = 0 /\ Len(wire) = 0 /\ consumed = 0
        /\ pc = "idle" /\ MS!Synced
    BY DEF Init, MS!Synced
  <2>3. Read = 0
    BY <2>2 DEF Read
  <2> QED
    BY <2>1, <2>2, <2>3 DEF LineTypes, PlaceInv, LineInv, Promise!InLine, Promise!Begins,
       Promise!AllThere
<1>2. LineTypes /\ [Next]_vars => LineTypes'
  BY LineStep
<1> QED
  BY <1>1, <1>2, PTL DEF Spec

\* Until a result reports a cut, the next byte the Receiver reads is the one the frame's
\* layout has there, however the bytes arrive and whichever calls fail.
THEOREM StaysInStep == Spec => []InStep
<1>1. LineTypes => InStep
  <2> SUFFICES ASSUME LineTypes, MS!Synced, stream \o net # <<>>
               PROVE  (stream \o net)[1] =
                          IF pc # "idle" /\ Read = WireLen(cur)
                          THEN [frame |-> consumed + 2, k |-> 1]
                          ELSE [frame |-> consumed + 1, k |-> Read + 1]
    BY DEF InStep
  <2> DEFINE s == stream \o net
  <2>1. Len(s) > 0 /\ 1 \in 1..Len(s)
    BY WireSendable DEF LineTypes
  <2>2. Promise!InLine(s, wire) /\ Promise!Begins(s, wire, consumed, Read)
    BY DEF LineTypes, LineInv
  <2> HIDE DEF s
  <2>3. pc \in {"idle", "byte0"} => Read = 0
    BY DEF Read
  <2>4. CASE pc \in {"idle", "byte0"}
    <3>1. s[1] = Promise!ByteAt(consumed + 1, 1) /\ s[1].frame \in 1..Len(wire)
      BY <2>1, <2>2, <2>3, <2>4 DEF Promise!Begins, Promise!InLine
    <3>2. consumed + 1 \in 1..Len(wire)
      BY <3>1 DEF Promise!ByteAt
    <3>3. WireLen(cur) # 0
      BY <3>2, WireSendable, Promise!SentLengths, PromiseAssumed, SameFrames DEF cur, LineTypes
    <3> QED
      BY <2>3, <2>4, <3>1, <3>3 DEF s, Promise!ByteAt
  <2>5. CASE pc \notin {"idle", "byte0"}
    <3>1. Read > 0
      BY <2>5, InsideFrame DEF LineTypes
    <3> QED
      BY <2>1, <2>2, <2>5, <3>1, SameFrames DEF Promise!Begins, Promise!ByteAt, cur, s
  <2> QED
    BY <2>4, <2>5
<1> QED
  BY <1>1, LineInvariant, PTL

-----------------------------------------------------------------------------
(* A blocking call waits *)

HeaderErrors == {Err(e) : e \in MS!HeaderFaults}

\* A result that accounts for no frame, or leaves the stream cut, is a refused header or
\* comes after one that cut the stream.
Explained(rs, r) ==
    rs[r].from = <<>> \/ rs[r].cut =>
        \/ rs[r].out \in HeaderErrors
        \/ \E q \in 1..(r - 1) : rs[q].cut /\ rs[q].out \in HeaderErrors

WaitInv == ~nonblocking /\ ~gone => \A r \in DOMAIN results : Explained(results, r)

\* What a header can be refused for.
LEMMA FaultRange == \A f : HeaderFault(f) # "none" => HeaderFault(f) \in MS!HeaderFaults
BY DEF HeaderFault, MS!HeaderFaults

\* A result is added that is explained.
LEMMA WaitAdded ==
    ASSUME results \in Seq(ToSet(results)), WaitInv, gone' = gone, nonblocking' = nonblocking,
           NEW out, NEW from, NEW cut, results' = Append(results, MS!Result(out, from, cut)),
           from = <<>> \/ cut =>
               \/ out \in HeaderErrors
               \/ \E q \in DOMAIN results : results[q].cut /\ results[q].out \in HeaderErrors
    PROVE  WaitInv'
<1> DEFINE new == MS!Result(out, from, cut)
           n == Len(results)
<1>1. new.out = out /\ new.from = from /\ new.cut = cut
  BY DEF MS!Result
<1> HIDE DEF new
<1>2. /\ n \in Nat /\ DOMAIN results = 1..n /\ DOMAIN results' = 1..(n + 1)
      /\ \A i \in 1..n : results'[i] = results[i]
      /\ results'[n + 1] = new
  BY Promise!AppendAny, PromiseAssumed DEF new
<1> HIDE DEF n
<1>3. ASSUME NEW r \in 1..n, Explained(results, r) PROVE Explained(results', r)
  <2>1. r \in 1..n /\ \A q \in 1..(r - 1) : q \in 1..n
    BY <1>2
  <2> QED
    BY <1>2, <1>3, <2>1 DEF Explained
<1>4. Explained(results', n + 1)
  <2>1. (n + 1) - 1 = n
    BY <1>2
  <2> QED
    BY <1>1, <1>2, <2>1 DEF Explained
<1>5. \A r \in 1..(n + 1) : r \in 1..n \/ r = n + 1
  BY <1>2
<1> QED
  BY <1>2, <1>3, <1>4, <1>5 DEF WaitInv

\* Each step that returns for want of bytes is explained.
LEMMA WaitStep ==
    ASSUME LineTypes, WaitInv, [Next]_vars
    PROVE  WaitInv'
<1> USE DEF LineTypes
<1>1. ASSUME results' = results, gone => gone', nonblocking => nonblocking' PROVE WaitInv'
  BY <1>1 DEF WaitInv
<1>2. CASE \/ \E f \in Frames : PeerSends(f)
           \/ \E n \in 1..Len(net) : Arrive(n)
           \/ PeerGone \/ SetNonblocking
           \/ Call \/ UNCHANGED vars
  BY <1>1, <1>2 DEF PeerSends, Arrive, PeerGone, SetNonblocking, Call, vars, ioVars
<1>3. CASE ReadByte \/ ReadLength \/ ReadKey
  BY <1>1, <1>3 DEF ReadByte, ReadLength, ReadKey, Reads, Continue
<1>4. CASE Takes
  <2>1. gone' = gone /\ nonblocking' = nonblocking
    BY <1>4 DEF Takes, TakeFrame, Reads
  <2>2. CASE results' = results
    BY <1>1, <2>1, <2>2
  <2>3. ASSUME NEW out, NEW from, from # <<>>,
               results' = Append(results, MS!Result(out, from, FALSE))
        PROVE  WaitInv'
    BY <2>1, <2>3, WaitAdded DEF ReceiverTypes
  <2> QED
    BY <1>4, <2>2, <2>3 DEF Takes
<1>5. CASE RefuseHeader
  <2>1. /\ gone' = gone /\ nonblocking' = nonblocking
        /\ Err(HeaderFault(cur)) \in HeaderErrors
        /\ \E from, cut :
              results' = Append(results, MS!Result(Err(HeaderFault(cur)), from, cut))
    BY <1>5, FaultRange DEF RefuseHeader, Reads, Return, HeaderErrors
  <2> QED
    BY <2>1, WaitAdded DEF ReceiverTypes
<1>6. CASE ReadFails
  <2>1. (gone \/ nonblocking) /\ gone' = gone /\ nonblocking' = nonblocking
    BY <1>6 DEF ReadFails
  <2> QED
    BY <2>1 DEF WaitInv
<1>7. CASE CallWhenCut
  <2>1. /\ gone' = gone /\ nonblocking' = nonblocking
        /\ results' = Append(results, MS!Result(MS!Unknown, <<>>, TRUE))
    BY <1>7 DEF CallWhenCut, Return, ioVars
  <2>2. CASE ~gone /\ ~nonblocking
    <3>1. PICK r \in DOMAIN results : results[r].cut
      BY <1>7 DEF CallWhenCut, MS!Synced
    <3>2. Explained(results, r)
      BY <2>2 DEF WaitInv
    <3>3. \E q \in DOMAIN results : results[q].cut /\ results[q].out \in HeaderErrors
      <4>1. DOMAIN results = 1..Len(results) /\ Len(results) \in Nat
        BY Promise!AppendAny, PromiseAssumed DEF ReceiverTypes
      <4>2. \A q \in 1..(r - 1) : q \in DOMAIN results
        BY <4>1
      <4> QED
        BY <3>1, <3>2, <4>2 DEF Explained
    <3> QED
      BY <2>1, <3>3, WaitAdded DEF ReceiverTypes
  <2>3. CASE ~(~gone /\ ~nonblocking)
    BY <2>1, <2>3 DEF WaitInv
  <2> QED
    BY <2>2, <2>3
<1> QED
  BY <1>2, <1>3, <1>4, <1>5, <1>6, <1>7, ReceiverSteps

\* A call on a blocking socket with the peer there never returns for want of bytes:
\* what it returns has a frame, or is about a header, or follows such an error.
THEOREM CallsBlock == Spec => []BlocksUntilFrame
<1>1. Init => WaitInv
  BY DEF Init, WaitInv
<1>2. LineTypes /\ WaitInv /\ [Next]_vars => WaitInv'
  BY WaitStep
<1>3. WaitInv => BlocksUntilFrame
  BY DEF WaitInv, Explained, HeaderErrors, BlocksUntilFrame
<1> QED
  BY <1>1, <1>2, <1>3, LineInvariant, PTL DEF Spec

-----------------------------------------------------------------------------
(* The Receiver implements MessageStream *)

\* The two modules take their frames, checks and messages from the same rules.
LEMMA SameRules ==
    /\ \A f : MS!HeaderFault(f) = HeaderFault(f)
    /\ \A f, b : MS!MaskFault(f, b) = MaskFault(f, b)
    /\ \A fs : MS!FromDataframes(fs) = FromDataframes(fs)
    /\ \A e : MS!Err(e) = Err(e)
    /\ MS!Continuation = Continuation
    /\ MS!DataOps = DataOps /\ MS!ControlOps = ControlOps
<1>1. \A f : MS!HeaderFault(f) = HeaderFault(f)
  BY DEF MS!HeaderFault, HeaderFault, MS!FormOf, FormOf, MS!ControlOps, ControlOps
<1>2. \A op, d : MS!Assemble(op, d) = Assemble(op, d)
  BY Zenon DEF MS!Assemble, Assemble, MS!Err, Err, MS!Msg, Msg, MS!Utf8, Utf8,
               MS!Text, Text, MS!Close, Close, MS!Binary, Binary, MS!Ping, Ping, MS!Pong, Pong
<1>3. \A fs : MS!FlattenSeq(fs) = FlattenSeq(fs)
  BY Zenon DEF MS!FlattenSeq, FlattenSeq
<1>4. \A fs : MS!FromDataframes(fs) = FromDataframes(fs)
  BY <1>2, <1>3, Zenon DEF MS!FromDataframes, FromDataframes, MS!Misplaced, Misplaced,
                           MS!Continuation, Continuation, MS!Err, Err
<1>5. \A f, b : MS!MaskFault(f, b) = MaskFault(f, b)
  BY DEF MS!MaskFault, MaskFault
<1>6. \A e : MS!Err(e) = Err(e)
  BY DEF MS!Err, Err
<1>7. MS!Continuation = Continuation /\ MS!DataOps = DataOps /\ MS!ControlOps = ControlOps
  BY DEF MS!Continuation, Continuation, MS!DataOps, DataOps, MS!ControlOps, ControlOps
<1> QED
  BY <1>1, <1>4, <1>5, <1>6, <1>7

\* A frame whose header was not refused is a control frame only if it is whole.
LEMMA WholeControls ==
    ASSUME NEW f, IsFrame(f), HeaderFault(f) = "none"
    PROVE  /\ f.op = Continuation \/ f.op \in DataOps \/ f.op \in ControlOps
           /\ f.op \in ControlOps => f.fin
           /\ f.op \in ControlOps \cup {Continuation} => f.op \notin DataOps
           /\ f.op # Continuation \/ f.op \notin ControlOps
BY DEF IsFrame, Opcode, HeaderFault, Continuation, DataOps, ControlOps

\* Taking a frame is what MessageStream does with the frame that is ready.
LEMMA TakeStep ==
    ASSUME LineTypes, RefuseBody \/ RawFrame \/ FirstFrame \/ NextFrame
    PROVE  MS!TakeFrame
<1> USE DEF LineTypes
<1>1. TakeFrame
  BY DEF RefuseBody, RawFrame, FirstFrame, NextFrame
<1>2. /\ pc = "payload" /\ Len(stream) >= Need
      /\ consumed' = consumed + 1 /\ wire' = wire
  BY <1>1 DEF TakeFrame, Reads
<1>3. /\ cur = MS!NextFrame /\ consumed < Len(wire) /\ IsFrame(cur)
      /\ HeaderFault(cur) = "none"
  BY <1>2, ReadAndNeed DEF PlaceInv, cur, MS!NextFrame
<1>4. MS!FrameReady
  BY <1>2, <1>3, SameRules DEF PlaceInv, MS!FrameReady, MS!NextFrame
<1>5. MS!MaskFits <=> MaskFault(cur, ShouldBeMasked) = "none"
  BY <1>3, SameRules DEF MS!MaskFits
<1>6. /\ cur.op = Continuation \/ cur.op \in DataOps \/ cur.op \in ControlOps
      /\ cur.op \in ControlOps => cur.fin
      /\ cur.op \in ControlOps \cup {Continuation} => cur.op \notin DataOps
  BY <1>3, WholeControls
<1>7. buffer = <<>> => Append(buffer, consumed + 1) = <<consumed + 1>>
  OBVIOUS
<1>8. ASSUME NEW e, Refuse(e)
      PROVE  MS!Refuse(e)
  BY <1>2, <1>8, SameRules DEF Refuse, Return, MS!Refuse, MS!TakeAlone
<1>9. ASSUME NEW from, Deliver(from)
      PROVE  MS!Deliver(from)
  BY <1>2, <1>9, SameRules DEF Deliver, Return, MS!Deliver
<1>10. CASE RefuseBody
  <2>1. MS!WrongMask
    BY <1>3, <1>4, <1>5, <1>8, <1>10, SameRules DEF RefuseBody, MS!WrongMask
  <2> QED
    BY <2>1 DEF MS!TakeFrame
<1>11. CASE RawFrame
  <2>1. MS!RawFrame
    BY <1>2, <1>4, <1>5, <1>11 DEF RawFrame, Return, MS!RawFrame, MS!TakeAlone
  <2> QED
    BY <2>1 DEF MS!TakeFrame
<1>12. CASE FirstFrame
  <2>1. MS!MaskFits /\ buffer = <<>>
    BY <1>5, <1>12 DEF FirstFrame
  <2>2. CASE cur.op = Continuation /\ Refuse("UnexpectedContinuation")
    <3>1. MS!OrphanContinuation
      BY <1>3, <1>4, <1>8, <2>1, <2>2, SameRules DEF MS!OrphanContinuation
    <3> QED
      BY <3>1 DEF MS!TakeFrame
  <2>3. CASE cur.op # Continuation /\ cur.fin /\ Deliver(<<consumed + 1>>) /\ buffer' = <<>>
    <3>1. cur.op \in ControlOps => MS!ControlFrame
      BY <1>3, <1>4, <1>9, <2>1, <2>3, SameRules DEF MS!ControlFrame
    <3>2. cur.op \in DataOps => MS!FinishMessage
      BY <1>3, <1>4, <1>7, <1>9, <2>1, <2>3, SameRules DEF MS!FinishMessage, MS!Fits
    <3> QED
      BY <1>6, <2>3, <3>1, <3>2 DEF MS!TakeFrame
  <2>4. CASE /\ cur.op # Continuation /\ ~cur.fin
             /\ buffer' = <<consumed + 1>> /\ Continue("byte0")
    <3>1. MS!Fragment
      BY <1>2, <1>3, <1>4, <1>6, <1>7, <2>1, <2>4, SameRules DEF Continue, MS!Fragment, MS!Fits
    <3> QED
      BY <3>1 DEF MS!TakeFrame
  <2> QED
    BY <1>12, <2>2, <2>3, <2>4 DEF FirstFrame
<1>13. CASE NextFrame
  <2>1. MS!MaskFits /\ buffer # <<>>
    BY <1>5, <1>13 DEF NextFrame
  <2>2. CASE /\ cur.op = Continuation /\ cur.fin
             /\ Deliver(Append(buffer, consumed + 1)) /\ buffer' = <<>>
    <3>1. MS!FinishMessage
      BY <1>3, <1>4, <1>9, <2>1, <2>2, SameRules DEF MS!FinishMessage, MS!Fits
    <3> QED
      BY <3>1 DEF MS!TakeFrame
  <2>3. CASE /\ cur.op = Continuation /\ ~cur.fin
             /\ buffer' = Append(buffer, consumed + 1) /\ Continue("byte0")
    <3>1. MS!Fragment
      BY <1>2, <1>3, <1>4, <2>1, <2>3, SameRules DEF Continue, MS!Fragment, MS!Fits
    <3> QED
      BY <3>1 DEF MS!TakeFrame
  <2>4. CASE cur.op \in ControlOps /\ Deliver(<<consumed + 1>>) /\ UNCHANGED buffer
    <3>1. MS!ControlFrame
      BY <1>3, <1>4, <1>9, <2>1, <2>4, SameRules DEF MS!ControlFrame
    <3> QED
      BY <3>1 DEF MS!TakeFrame
  <2>5. CASE cur.op \in DataOps /\ Refuse("UnexpectedOpcode")
    <3>1. MS!UnexpectedDataFrame
      BY <1>3, <1>4, <1>8, <2>1, <2>5, SameRules DEF MS!UnexpectedDataFrame
    <3> QED
      BY <3>1 DEF MS!TakeFrame
  <2> QED
    BY <1>13, <2>2, <2>3, <2>4, <2>5 DEF NextFrame
<1> QED
  BY <1>10, <1>11, <1>12, <1>13

\* Every step of the Receiver is one of MessageStream's or leaves its state alone.
LEMMA ReceiverRefines ==
    ASSUME LineTypes, [Next]_vars
    PROVE  [MS!Next]_MS!vars
<1> USE DEF LineTypes
<1>1. CASE RefuseBody \/ RawFrame \/ FirstFrame \/ NextFrame
  BY <1>1, TakeStep DEF MS!Next
<1>2. CASE RefuseHeader
  <2>1. /\ pc = "ext" /\ Len(stream) >= Need /\ wire' = wire /\ buffer' = buffer
        /\ HeaderFault(cur) # "none"
        /\ \/ /\ results' = Append(results,
                                MS!Result(Err(HeaderFault(cur)), <<consumed + 1>>, FALSE))
              /\ consumed' = consumed + 1
           \/ /\ results' = Append(results, MS!Result(Err(HeaderFault(cur)), <<>>, TRUE))
              /\ consumed' = consumed
    BY <1>2 DEF RefuseHeader, Reads, Return
  <2>2. cur = MS!NextFrame /\ consumed < Len(wire) /\ MS!Synced
    BY <2>1, ReadAndNeed DEF PlaceInv, cur, MS!NextFrame
  <2>3. MS!BadHeader
    BY <2>1, <2>2, SameRules DEF MS!BadHeader, MS!Refuse, MS!TakeAlone
  <2> QED
    BY <2>3 DEF MS!Next
<1>3. CASE ReadFails
  <2>1. /\ MS!Synced /\ MS!EmptyCalls < MaxEmptyCalls
        /\ UNCHANGED <<wire, consumed, buffer>>
        /\ results' = Append(results,
               MS!Result(Err(IF gone THEN "NoDataAvailable" ELSE "IoError"), <<>>, pc # "byte0"))
    BY <1>3 DEF ReadFails, Return, PlaceInv
  <2>2. (IF gone THEN "NoDataAvailable" ELSE "IoError") \in MS!ReadFaults
    BY DEF MS!ReadFaults
  <2>3. (pc # "byte0") \in BOOLEAN
    OBVIOUS
  <2>4. MS!Interrupted
    BY <2>1, <2>2, <2>3, SameRules DEF MS!Interrupted
  <2> QED
    BY <2>4 DEF MS!Next
<1>4. CASE CallWhenCut
  <2>1. MS!Unspecified
    BY <1>4 DEF CallWhenCut, Return, MS!Unspecified
  <2> QED
    BY <2>1 DEF MS!Next
<1>5. CASE \E f \in Frames : PeerSends(f)
  <2>1. PICK f \in Frames : PeerSends(f)
    BY <1>5
  <2>2. MS!PeerSends(f)
    BY <2>1 DEF PeerSends, MS!PeerSends
  <2> QED
    BY <2>2 DEF MS!Next
<1>6. CASE \/ \E n \in 1..Len(net) : Arrive(n)
           \/ PeerGone \/ SetNonblocking \/ Call \/ UNCHANGED vars
  BY <1>6 DEF Arrive, PeerGone, SetNonblocking, Call, vars, MS!vars
<1>7. CASE ReadByte \/ ReadLength \/ ReadKey
  BY <1>7 DEF ReadByte, ReadLength, ReadKey, Reads, Continue, MS!vars
<1> QED
  BY <1>1, <1>2, <1>3, <1>4, <1>5, <1>6, <1>7 DEF Next, Receive

\* The Receiver hands over what MessageStream promises, for any frames, any pieces their
\* bytes arrive in, any call that fails and a peer that goes at any time.
THEOREM ReceiverImplements == Spec => ImplementsMessageStream
<1>1. Init => MS!Init
  BY DEF Init, MS!Init
<1>2. LineTypes /\ [Next]_vars => [MS!Next]_MS!vars
  BY ReceiverRefines
<1> QED
  BY <1>1, <1>2, LineInvariant, PTL DEF Spec, ImplementsMessageStream, MS!Spec

-----------------------------------------------------------------------------
(* What follows from the promise *)

\* It is the same specification.
LEMMA SamePromise == MS!Spec => Promise!Spec
<1>1. MS!Init => Promise!Init
  BY DEF MS!Init, Promise!Init
<1>2. MS!Next => Promise!Next
  <2>1. \A f : MS!PeerSends(f) => Promise!PeerSends(f)
    BY DEF MS!PeerSends, Promise!PeerSends
  <2>2. MS!WrongMask => Promise!WrongMask
    BY Zenon DEF MS!WrongMask, Promise!WrongMask, MS!FrameReady, Promise!FrameReady,
                 MS!NextFrame, Promise!NextFrame, MS!MaskFits, Promise!MaskFits, MS!Synced,
                 Promise!Synced, MS!HeaderFault, Promise!HeaderFault, MS!MaskFault,
                 Promise!MaskFault, MS!ControlOps, Promise!ControlOps, MS!FormOf,
                 Promise!FormOf, MS!Refuse, Promise!Refuse, MS!TakeAlone, Promise!TakeAlone,
                 MS!Result, Promise!Result, MS!Err, Promise!Err, MS!Continuation,
                 Promise!Continuation, MS!Text, Promise!Text, MS!Binary, Promise!Binary,
                 MS!Close, Promise!Close, MS!Ping, Promise!Ping, MS!Pong, Promise!Pong
  <2>3. MS!OrphanContinuation => Promise!OrphanContinuation
    BY Zenon DEF MS!OrphanContinuation, Promise!OrphanContinuation, MS!FrameReady,
                 Promise!FrameReady, MS!NextFrame, Promise!NextFrame, MS!MaskFits,
                 Promise!MaskFits, MS!Synced, Promise!Synced, MS!HeaderFault,
                 Promise!HeaderFault, MS!MaskFault, Promise!MaskFault, MS!ControlOps,
                 Promise!ControlOps, MS!FormOf, Promise!FormOf, MS!Refuse, Promise!Refuse,
                 MS!TakeAlone, Promise!TakeAlone, MS!Result, Promise!Result, MS!Err,
                 Promise!Err, MS!Continuation, Promise!Continuation, MS!Text, Promise!Text,
                 MS!Binary, Promise!Binary, MS!Close, Promise!Close, MS!Ping, Promise!Ping,
                 MS!Pong, Promise!Pong
  <2>4. MS!UnexpectedDataFrame => Promise!UnexpectedDataFrame
    BY Zenon DEF MS!UnexpectedDataFrame, Promise!UnexpectedDataFrame, MS!DataOps,
                 Promise!DataOps, MS!FrameReady, Promise!FrameReady, MS!NextFrame,
                 Promise!NextFrame, MS!MaskFits, Promise!MaskFits, MS!Synced, Promise!Synced,
                 MS!HeaderFault, Promise!HeaderFault, MS!MaskFault, Promise!MaskFault,
                 MS!ControlOps, Promise!ControlOps, MS!FormOf, Promise!FormOf, MS!Refuse,
                 Promise!Refuse, MS!TakeAlone, Promise!TakeAlone, MS!Result, Promise!Result,
                 MS!Err, Promise!Err, MS!Continuation, Promise!Continuation, MS!Text,
                 Promise!Text, MS!Binary, Promise!Binary, MS!Close, Promise!Close, MS!Ping,
                 Promise!Ping, MS!Pong, Promise!Pong
  <2>5. MS!ControlFrame => Promise!ControlFrame
    BY Zenon DEF MS!ControlFrame, Promise!ControlFrame, MS!FrameReady, Promise!FrameReady,
                 MS!NextFrame, Promise!NextFrame, MS!MaskFits, Promise!MaskFits, MS!Synced,
                 Promise!Synced, MS!HeaderFault, Promise!HeaderFault, MS!MaskFault,
                 Promise!MaskFault, MS!ControlOps, Promise!ControlOps, MS!FormOf,
                 Promise!FormOf, MS!Deliver, Promise!Deliver, MS!Result, Promise!Result,
                 MS!FramesOf, Promise!FramesOf, MS!FromDataframes, Promise!FromDataframes,
                 MS!Assemble, Promise!Assemble, MS!Misplaced, Promise!Misplaced, MS!FlattenSeq,
                 Promise!FlattenSeq, MS!Utf8, Promise!Utf8, MS!Err, Promise!Err, MS!Msg,
                 Promise!Msg, MS!DataOps, Promise!DataOps, MS!Continuation,
                 Promise!Continuation, MS!Text, Promise!Text, MS!Binary, Promise!Binary,
                 MS!Close, Promise!Close, MS!Ping, Promise!Ping, MS!Pong, Promise!Pong
  <2>6. MS!Fragment => Promise!Fragment
    BY Zenon DEF MS!Fragment, Promise!Fragment, MS!Fits, Promise!Fits, MS!DataOps,
                 Promise!DataOps, MS!FrameReady, Promise!FrameReady, MS!NextFrame,
                 Promise!NextFrame, MS!MaskFits, Promise!MaskFits, MS!Synced, Promise!Synced,
                 MS!HeaderFault, Promise!HeaderFault, MS!MaskFault, Promise!MaskFault,
                 MS!ControlOps, Promise!ControlOps, MS!FormOf, Promise!FormOf, MS!Continuation,
                 Promise!Continuation, MS!Text, Promise!Text, MS!Binary, Promise!Binary,
                 MS!Close, Promise!Close, MS!Ping, Promise!Ping, MS!Pong, Promise!Pong
  <2>7. MS!FinishMessage => Promise!FinishMessage
    BY Zenon DEF MS!FinishMessage, Promise!FinishMessage, MS!Fits, Promise!Fits, MS!DataOps,
                 Promise!DataOps, MS!FrameReady, Promise!FrameReady, MS!NextFrame,
                 Promise!NextFrame, MS!MaskFits, Promise!MaskFits, MS!Synced, Promise!Synced,
                 MS!HeaderFault, Promise!HeaderFault, MS!MaskFault, Promise!MaskFault,
                 MS!ControlOps, Promise!ControlOps, MS!FormOf, Promise!FormOf, MS!Deliver,
                 Promise!Deliver, MS!Result, Promise!Result, MS!FramesOf, Promise!FramesOf,
                 MS!FromDataframes, Promise!FromDataframes, MS!Assemble, Promise!Assemble,
                 MS!Misplaced, Promise!Misplaced, MS!FlattenSeq, Promise!FlattenSeq, MS!Utf8,
                 Promise!Utf8, MS!Err, Promise!Err, MS!Msg, Promise!Msg, MS!Continuation,
                 Promise!Continuation, MS!Text, Promise!Text, MS!Binary, Promise!Binary,
                 MS!Close, Promise!Close, MS!Ping, Promise!Ping, MS!Pong, Promise!Pong
  <2>8. MS!RawFrame => Promise!RawFrame
    BY Zenon DEF MS!RawFrame, Promise!RawFrame, MS!TakeAlone, Promise!TakeAlone, MS!Result,
                 Promise!Result, MS!RawFrameOut, Promise!RawFrameOut, MS!FrameReady,
                 Promise!FrameReady, MS!NextFrame, Promise!NextFrame, MS!MaskFits,
                 Promise!MaskFits, MS!Synced, Promise!Synced, MS!HeaderFault,
                 Promise!HeaderFault, MS!MaskFault, Promise!MaskFault, MS!ControlOps,
                 Promise!ControlOps, MS!FormOf, Promise!FormOf, MS!Continuation,
                 Promise!Continuation, MS!Text, Promise!Text, MS!Binary, Promise!Binary,
                 MS!Close, Promise!Close, MS!Ping, Promise!Ping, MS!Pong, Promise!Pong
  <2>9. MS!BadHeader => Promise!BadHeader
    BY Zenon DEF MS!BadHeader, Promise!BadHeader, MS!Synced, Promise!Synced, MS!NextFrame,
                 Promise!NextFrame, MS!HeaderFault, Promise!HeaderFault, MS!ControlOps,
                 Promise!ControlOps, MS!FormOf, Promise!FormOf, MS!Refuse, Promise!Refuse,
                 MS!TakeAlone, Promise!TakeAlone, MS!Result, Promise!Result, MS!Err,
                 Promise!Err, MS!Continuation, Promise!Continuation, MS!Text, Promise!Text,
                 MS!Binary, Promise!Binary, MS!Close, Promise!Close, MS!Ping, Promise!Ping,
                 MS!Pong, Promise!Pong
  <2>10. MS!Interrupted => Promise!Interrupted
    BY Zenon DEF MS!Interrupted, Promise!Interrupted, MS!Synced, Promise!Synced, MS!EmptyCalls,
                 Promise!EmptyCalls, MS!Cardinality, Promise!Cardinality, MS!ReadFaults,
                 Promise!ReadFaults, MS!Result, Promise!Result, MS!Err, Promise!Err
  <2>11. MS!Unspecified => Promise!Unspecified
    BY Zenon DEF MS!Unspecified, Promise!Unspecified, MS!Synced, Promise!Synced, MS!EmptyCalls,
                 Promise!EmptyCalls, MS!Cardinality, Promise!Cardinality, MS!HeaderFaults,
                 Promise!HeaderFaults, MS!ReadFaults, Promise!ReadFaults, MS!Unknown,
                 Promise!Unknown, MS!Result, Promise!Result, MS!Err, Promise!Err
  <2>12. MS!TakeFrame => Promise!TakeFrame
    BY <2>2, <2>3, <2>4, <2>5, <2>6, <2>7, <2>8
       DEF MS!TakeFrame, Promise!TakeFrame
  <2> QED
    BY <2>1, <2>9, <2>10, <2>11, <2>12 DEF MS!Next, Promise!Next
<1>3. [MS!Next]_MS!vars => [Promise!Next]_Promise!vars
  BY <1>2 DEF MS!vars, Promise!vars
<1> QED
  BY <1>1, <1>3, PTL DEF MS!Spec, Promise!Spec

\* What the Receiver returns accounts for every frame once, in order and with no silent gap; its
\* text and binary messages are whole; and a peer that keeps the rules of fragmentation
\* has every message it finishes delivered.
THEOREM ReceiverDelivers ==
    Spec => [](/\ Promise!FramesAccountedFor /\ Promise!ResultsInOrder
               /\ Promise!WholeMessages /\ Promise!NoSilentGap
               /\ Promise!RulesKeptMeansDelivered)
<1>1. Spec => Promise!Spec
  BY ReceiverImplements, SamePromise DEF ImplementsMessageStream
<1>2. Promise!Spec => []Promise!FramesAccountedFor
  BY PromiseAssumed, Promise!FramesAccounted DEF Promise!FramesAccounted
<1>3. Promise!Spec => []Promise!ResultsInOrder
  BY PromiseAssumed, Promise!ResultsComeInOrder DEF Promise!ResultsComeInOrder
<1>4. Promise!Spec => []Promise!WholeMessages
  BY PromiseAssumed, Promise!MessagesAreWhole DEF Promise!MessagesAreWhole
<1>5. Promise!Spec => []Promise!NoSilentGap
  BY PromiseAssumed, Promise!GapsAreReported DEF Promise!GapsAreReported
<1>6. Promise!Spec => []Promise!RulesKeptMeansDelivered
  BY PromiseAssumed, Promise!RulesKeptDelivers DEF Promise!RulesKeptDelivers
<1> QED
  BY <1>1, <1>2, <1>3, <1>4, <1>5, <1>6, PTL

=============================================================================
