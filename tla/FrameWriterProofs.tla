-------------------------- MODULE FrameWriterProofs --------------------------
(***************************************************************************)
(* What FrameWriter guarantees for every set of messages, both roles, both *)
(* sinks and any number of sends.                                          *)
(***************************************************************************)
EXTENDS FrameWriter, TLAPS

(* The layout of a frame *)

\* The bytes of the frame of m that come before a piece.
Before(piece, m) ==
    CASE piece = "byte0" -> 0
      [] piece = "byte1" -> 1
      [] piece = "ext"   -> 2
      [] piece = "key"   -> 2 + ExtLen(FormOf(Size(m)))
      [] piece = "code"  -> Header(m)
      [] piece = "data"  -> Header(m) + PieceLen("code", m)

\* The lengths of a frame's parts are numbers, and the payload is its code and its data.
LEMMA Lengths ==
    ASSUME NEW m \in Sends
    PROVE  /\ m.len \in Nat /\ Size(m) \in Nat
           /\ ExtLen(FormOf(Size(m))) \in {0, 2, 8} /\ KeyLen(Mask) \in {0, 4}
           /\ Header(m) \in Nat
           /\ Size(m) = PieceLen("code", m) + PieceLen("data", m)
<1>1. m.len \in Nat /\ m.code \in BOOLEAN
  BY WriterAssumption
<1>2. Size(m) \in Nat
  BY <1>1 DEF Size
<1>3. ExtLen(FormOf(Size(m))) \in {0, 2, 8} /\ KeyLen(Mask) \in {0, 4}
  BY DEF ExtLen, FormOf, KeyLen
<1>4. PieceLen("code", m) = (IF m.code THEN 2 ELSE 0) /\ PieceLen("data", m) = m.len
  BY DEF PieceLen
<1> QED
  BY <1>1, <1>2, <1>3, <1>4 DEF Header, Size

\* The length of a piece and of what comes before it are numbers.
LEMMA PieceLengths ==
    ASSUME NEW m \in Sends, NEW piece \in Pieces
    PROVE  PieceLen(piece, m) \in Nat /\ Before(piece, m) \in Nat
BY Lengths, WriterAssumption DEF Pieces, PieceLen, Before

\* Each piece begins where the one before it ends.
LEMMA NextBefore ==
    ASSUME NEW m \in Sends, NEW piece \in Pieces \ {"data"}
    PROVE  /\ NextPiece[piece] \in Pieces
           /\ Before(NextPiece[piece], m) = Before(piece, m) + PieceLen(piece, m)
BY Lengths, WriterAssumption DEF Pieces, PieceLen, Before, NextPiece, Header

\* frame_size is the length of what write_to writes.
LEMMA TotalIsLayout ==
    ASSUME NEW m \in Sends
    PROVE  /\ Total(m) \in Nat
           /\ Total(m) = Before("data", m) + PieceLen("data", m)
           /\ \A piece \in Pieces : Before(piece, m) + PieceLen(piece, m) <= Total(m)
<1>1. Total(m) = Header(m) + Size(m)
  <2>1. Size(m) \in Nat /\ KeyLen(Mask) \in Nat
    BY Lengths
  <2>2. CASE Size(m) <= MaxShort
    BY <2>1, <2>2 DEF Total, FrameSize, Header, FormOf, ExtLen
  <2>3. CASE Size(m) > MaxShort /\ Size(m) <= MaxMedium
    BY <2>1, <2>3, LengthAssumption DEF Total, FrameSize, Header, FormOf, ExtLen
  <2>4. CASE Size(m) > MaxShort /\ Size(m) > MaxMedium
    BY <2>1, <2>4, LengthAssumption DEF Total, FrameSize, Header, FormOf, ExtLen
  <2> QED
    BY <2>1, <2>2, <2>3, <2>4, LengthAssumption
<1>2. Total(m) = Before("data", m) + PieceLen("data", m)
  BY <1>1, Lengths, PieceLengths DEF Before, Pieces
<1>3. \A piece \in Pieces : Before(piece, m) + PieceLen(piece, m) <= Total(m)
  BY <1>1, Lengths, WriterAssumption DEF Pieces, PieceLen, Before, Header
<1> QED
  BY <1>1, <1>2, <1>3, Lengths

-----------------------------------------------------------------------------
(* Type correctness, and where the writer stands in the frame *)

\* The bytes written and the bytes left of a piece end where the piece ends. In the
\* buffer each piece is written at once, and the room left is enough for the rest.
WriterInv ==
    /\ pc = "idle" => left = 0
    /\ pc # "idle" =>
          /\ left \in 0..PieceLen(pc, msg)
          /\ pos + left = Before(pc, msg) + PieceLen(pc, msg)
          /\ sink = "buffer" => /\ room + pos >= Total(msg)
                                /\ left \in {0, PieceLen(pc, msg)}

ByteRecord == [send : Nat, k : Nat, start : Nat]
SendRecord == [msg : Sends, status : {"ok", "failed", "refused"}]

\* The bytes that a write of n bytes adds.
Written(n, s, p, x) == [i \in 1..n |-> [send |-> s, k |-> p + i, start |-> x]]

\* The bytes one write puts out are byte records.
LEMMA WrittenTyped ==
    ASSUME NEW n \in Nat, NEW s \in Nat, NEW p \in Nat, NEW x \in Nat
    PROVE  Written(n, s, p, x) \in Seq(ByteRecord)
<1>1. \A i \in 1..n : [send |-> s, k |-> p + i, start |-> x] \in ByteRecord
  BY DEF ByteRecord
<1> QED
  BY <1>1 DEF Written

\* Where the key starts for the write under way: 0 when nothing is masked.
KeyStart == IF Mask /\ pc \in {"code", "data"} THEN pos + 1 ELSE 0

\* A sender keeps its sink.
LEMMA SinkKept ==
    ASSUME [Next]_vars PROVE sink' = sink
BY DEF Next, vars, Refuse, Begin, SocketWrites, BufferWrites, Write, Advance, Finish, Fail

\* In either sink a write takes some of what is left of the piece.
LEMMA WriteCases ==
    ASSUME TypeOK, WriterInv, SocketWrites \/ BufferWrites
    PROVE  /\ pc \in Pieces /\ left > 0
           /\ \E n \in 1..left :
                 /\ out' = out \o Written(n, Len(sends) + 1, pos, KeyStart)
                 /\ pos' = pos + n /\ left' = left - n
                 /\ UNCHANGED <<sink, msg, pc, sends>>
                 /\ sink = "socket" => room' = room
                 /\ sink = "buffer" => n = left /\ room' = room - n
<1>1. ASSUME NEW n \in 1..left, Write(n)
      PROVE  /\ out' = out \o Written(n, Len(sends) + 1, pos, KeyStart)
             /\ pos' = pos + n /\ left' = left - n
             /\ UNCHANGED <<sink, msg, pc, sends>>
  BY <1>1 DEF Write, Written, KeyStart
<1>2. pc \in Pieces /\ left > 0 /\ left \in Nat
  BY DEF TypeOK, WriterInv, SocketWrites, BufferWrites
<1>3. CASE SocketWrites
  <2>1. PICK n \in 1..left : Write(n) /\ sink = "socket" /\ room' = room
    BY <1>3 DEF SocketWrites
  <2> QED
    BY <1>1, <1>2, <2>1
<1>4. CASE BufferWrites
  <2>1. left <= room
    <3>1. left <= PieceLen(pc, msg) /\ pos + left = Before(pc, msg) + PieceLen(pc, msg)
      BY <1>2 DEF WriterInv, Pieces
    <3>2. room + pos >= Total(msg)
      BY <1>2, <1>4 DEF WriterInv, BufferWrites, Pieces
    <3>3. Before(pc, msg) + PieceLen(pc, msg) <= Total(msg)
      BY <1>2, TotalIsLayout DEF TypeOK
    <3>4. /\ PieceLen(pc, msg) \in Nat /\ Before(pc, msg) \in Nat
          /\ Total(msg) \in Nat /\ pos \in Nat /\ room \in Nat
      BY <1>2, PieceLengths, TotalIsLayout DEF TypeOK, Pieces
    <3> QED
      BY <1>2, <3>1, <3>2, <3>3, <3>4
  <2>2. sink = "buffer" /\ Write(left) /\ room' = room - left
    BY <1>4, <2>1 DEF BufferWrites
  <2> QED
    BY <1>1, <1>2, <2>2
<1> QED
  BY <1>3, <1>4

\* The writer's state is what it should be, and what is left of the piece at hand and the
\* position in the frame always add up to where that piece ends.
THEOREM WriterTypes == Spec => [](TypeOK /\ WriterInv)
<1>1. Init => TypeOK /\ WriterInv
  BY DEF Init, TypeOK, WriterInv
<1>2. TypeOK /\ WriterInv /\ [Next]_vars => TypeOK' /\ WriterInv'
  <2> SUFFICES ASSUME TypeOK, WriterInv, [Next]_vars PROVE TypeOK' /\ WriterInv'
    OBVIOUS
  <2>0. /\ sink \in {"socket", "buffer"}
        /\ msg \in Sends /\ pc \in Pieces \cup {"idle"} /\ left \in Nat /\ pos \in Nat
        /\ room \in Nat /\ out \in Seq(ByteRecord) /\ sends \in Seq(SendRecord)
        /\ Len(sends) \in Nat
    BY DEF TypeOK, ByteRecord, SendRecord
  <2>1. ASSUME NEW m \in Sends, Refuse(m) PROVE TypeOK' /\ WriterInv'
    <3>1. [msg |-> m, status |-> "refused"] \in SendRecord
      BY DEF SendRecord
    <3> QED
      BY <2>0, <2>1, <3>1 DEF Refuse, TypeOK, WriterInv, SendRecord, ByteRecord
  <2>2. ASSUME NEW m \in Sends, Begin(m) PROVE TypeOK' /\ WriterInv'
    <3>1. /\ msg' = m /\ pc' = "byte0" /\ left' = 1 /\ pos' = 0
          /\ out' = out /\ sends' = sends /\ sink' = sink
      BY <2>2 DEF Begin
    <3>2. room' \in Nat /\ (sink = "buffer" => room' >= Total(m))
      BY <2>0, <2>2, WriterAssumption, TotalIsLayout DEF Begin
    <3>3. Before("byte0", m) = 0 /\ PieceLen("byte0", m) = 1
      BY DEF Before, PieceLen
    <3>4. TypeOK'
      BY <2>0, <3>1, <3>2 DEF TypeOK, Pieces, ByteRecord, SendRecord
    <3> QED
      BY <3>1, <3>2, <3>3, <3>4 DEF WriterInv
  <2>3. CASE SocketWrites \/ BufferWrites
    <3>1. pc \in Pieces /\ left > 0
      BY <2>3, WriteCases
    <3>2. PICK n \in 1..left :
              /\ out' = out \o Written(n, Len(sends) + 1, pos, KeyStart)
              /\ pos' = pos + n /\ left' = left - n
              /\ UNCHANGED <<sink, msg, pc, sends>>
              /\ sink = "socket" => room' = room
              /\ sink = "buffer" => n = left /\ room' = room - n
      BY <2>3, WriteCases
    <3>3. out' \in Seq(ByteRecord)
      <4>1. KeyStart \in Nat
        BY <2>0 DEF KeyStart
      <4>2. Written(n, Len(sends) + 1, pos, KeyStart) \in Seq(ByteRecord)
        BY <2>0, <4>1, WrittenTyped
      <4> QED
        BY <2>0, <3>2, <4>2
    <3>4. /\ left \in 0..PieceLen(pc, msg)
          /\ pos + left = Before(pc, msg) + PieceLen(pc, msg)
          /\ sink = "buffer" => room + pos >= Total(msg)
      BY <3>1 DEF WriterInv, Pieces
    <3>5. /\ PieceLen(pc, msg) \in Nat /\ Before(pc, msg) \in Nat /\ Total(msg) \in Nat
          /\ Before(pc, msg) + PieceLen(pc, msg) <= Total(msg)
      BY <2>0, <3>1, PieceLengths, TotalIsLayout
    <3>6. room' \in Nat
      <4>1. CASE sink = "socket"
        BY <2>0, <3>2, <4>1
      <4>2. CASE sink = "buffer"
        <5>1. room' = room - left
          BY <3>2, <4>2
        <5>2. left <= room
          <6>1. /\ left \in Nat /\ pos \in Nat /\ room \in Nat
                /\ pos + left = Before(pc, msg) + PieceLen(pc, msg)
                /\ room + pos >= Total(msg)
            BY <2>0, <3>4, <4>2
          <6> QED
            BY <3>5, <6>1
        <5> QED
          BY <2>0, <5>1, <5>2
      <4> QED
        BY <2>0, <4>1, <4>2
    <3>7. TypeOK'
      BY <2>0, <3>2, <3>3, <3>6 DEF TypeOK, ByteRecord, SendRecord
    <3>8. /\ left' \in 0..PieceLen(pc, msg)
          /\ pos' + left' = Before(pc, msg) + PieceLen(pc, msg)
          /\ sink = "buffer" => room' + pos' >= Total(msg) /\ left' = 0
      BY <2>0, <3>2, <3>4, <3>5
    <3>9. sink' = sink /\ pc' = pc /\ msg' = msg /\ pc # "idle"
      BY <3>1, <3>2 DEF Pieces
    <3> QED
      BY <3>7, <3>8, <3>9 DEF WriterInv
  <2>4. CASE Advance
    <3> DEFINE next == NextPiece[pc]
    <3>1. /\ pc \in Pieces \ {"data"} /\ left = 0 /\ pc' = next
          /\ left' = PieceLen(next, msg)
          /\ UNCHANGED <<sink, msg, pos, room, out, sends>>
      BY <2>4 DEF Advance
    <3>2. next \in Pieces /\ Before(next, msg) = Before(pc, msg) + PieceLen(pc, msg)
      BY <2>0, <3>1, NextBefore
    <3>3. PieceLen(next, msg) \in Nat /\ Before(next, msg) \in Nat
      BY <2>0, <3>2, PieceLengths
    <3>4. /\ pos = Before(pc, msg) + PieceLen(pc, msg)
          /\ sink = "buffer" => room + pos >= Total(msg)
      BY <2>0, <3>1 DEF WriterInv, Pieces
    <3> HIDE DEF next
    <3>5. TypeOK'
      BY <2>0, <3>1, <3>2, <3>3 DEF TypeOK, ByteRecord, SendRecord
    <3>6. next # "idle"
      BY <3>2 DEF Pieces
    <3> QED
      BY <2>0, <3>1, <3>2, <3>3, <3>4, <3>5, <3>6 DEF WriterInv
  <2>5. CASE Finish \/ Fail
    <3>1. \E status \in {"ok", "failed"} : sends' = Append(sends, [msg |-> msg, status |-> status])
      BY <2>5 DEF Finish, Fail, Sent
    <3>2. sends' \in Seq(SendRecord)
      <4>1. \A status \in {"ok", "failed"} : [msg |-> msg, status |-> status] \in SendRecord
        BY <2>0 DEF SendRecord
      <4> QED
        BY <2>0, <3>1, <4>1
    <3>3. /\ pc' = "idle" /\ left' = 0
          /\ UNCHANGED <<sink, msg, pos, room, out>>
      BY <2>5 DEF Finish, Fail
    <3> QED
      BY <2>0, <3>2, <3>3 DEF TypeOK, WriterInv, ByteRecord, SendRecord
  <2>6. CASE UNCHANGED vars
    BY <2>6 DEF vars, TypeOK, WriterInv
  <2> QED
    BY <2>1, <2>2, <2>3, <2>4, <2>5, <2>6 DEF Next
<1> QED
  BY <1>1, <1>2, PTL DEF Spec

\* encode never fails for want of room: what frame_size announces is enough for what
\* write_to writes, for every message, either role and any room left in the buffer.
THEOREM EncodeAlwaysFits == Spec => []EncodeNeverFails
<1>1. Init => EncodeNeverFails
  BY DEF Init, EncodeNeverFails
<1>2. TypeOK /\ WriterInv /\ EncodeNeverFails /\ [Next]_vars => EncodeNeverFails'
  <2> SUFFICES ASSUME TypeOK, WriterInv, EncodeNeverFails, [Next]_vars, sink = "buffer"
               PROVE  \A j \in DOMAIN sends' : sends'[j].status # "failed"
    BY SinkKept DEF EncodeNeverFails
  <2>0. /\ sends \in Seq(SendRecord)
        /\ \A j \in DOMAIN sends : sends[j].status # "failed"
    BY DEF TypeOK, EncodeNeverFails, SendRecord
  <2>1. CASE sends' = sends
    BY <2>0, <2>1
  <2>2. ASSUME NEW m, NEW status \in {"ok", "refused"},
               sends' = Append(sends, [msg |-> m, status |-> status])
        PROVE  \A j \in DOMAIN sends' : sends'[j].status # "failed"
    BY <2>0, <2>2
  <2>3. ~Fail
    <3> SUFFICES ASSUME Fail PROVE FALSE
      OBVIOUS
    <3>1. pc \in Pieces /\ left > 0 /\ room = 0
      BY DEF Fail, TypeOK
    <3>2. /\ pos + left = Before(pc, msg) + PieceLen(pc, msg)
          /\ room + pos >= Total(msg)
      BY <3>1 DEF WriterInv, Pieces
    <3>3. /\ Before(pc, msg) + PieceLen(pc, msg) <= Total(msg)
          /\ Before(pc, msg) \in Nat /\ PieceLen(pc, msg) \in Nat /\ Total(msg) \in Nat
          /\ pos \in Nat /\ left \in Nat
      BY <3>1, TotalIsLayout, PieceLengths DEF TypeOK
    <3> QED
      BY <3>1, <3>2, <3>3
  <2> QED
    BY <2>1, <2>2, <2>3
       DEF Next, vars, Refuse, Begin, SocketWrites, BufferWrites, Write, Advance, Finish, Sent
<1> QED
  BY <1>1, <1>2, WriterTypes, PTL DEF Spec

-----------------------------------------------------------------------------
(* What a send leaves on the wire *)

\* The bytes of the j-th send in o are the first n of its frame.
Holds(o, j, n) ==
    /\ \A b \in DOMAIN o : o[b].send = j => o[b].k \in 1..n
    /\ \A k \in 1..n : \E b \in DOMAIN o : o[b].send = j /\ o[b].k = k

\* The positions of a send that holds n bytes are the first n.
LEMMA HoldsPositions ==
    ASSUME NEW j, NEW n, Holds(out, j, n) PROVE Positions(j) = 1..n
BY DEF Holds, Positions, BytesSent

\* o2 is o and the n bytes that one write of send s adds at position p.
Grown(o, o2, n, s, p, x) ==
    /\ \A b \in DOMAIN o : b \in DOMAIN o2 /\ o2[b] = o[b]
    /\ \A i \in 1..n : \E b \in DOMAIN o2 : o2[b] = [send |-> s, k |-> p + i, start |-> x]
    /\ \A b \in DOMAIN o2 :
          \/ b \in DOMAIN o
          \/ \E i \in 1..n : o2[b] = [send |-> s, k |-> p + i, start |-> x]

\* Appending the bytes of one write adds those bytes and no others.
LEMMA OutGrows ==
    ASSUME NEW o \in Seq(ByteRecord), NEW n \in Nat, NEW s \in Nat, NEW p \in Nat,
           NEW x \in Nat
    PROVE  Grown(o, o \o Written(n, s, p, x), n, s, p, x)
<1> DEFINE t == Written(n, s, p, x)
           o2 == o \o t
<1>1. t \in Seq(ByteRecord)
  BY WrittenTyped
<1>2. /\ DOMAIN t = 1..n
      /\ \A i \in 1..n : t[i] = [send |-> s, k |-> p + i, start |-> x]
  BY DEF Written
<1> HIDE DEF t
<1>3. Len(t) = n
  BY <1>1, <1>2
<1>4. /\ DOMAIN o = 1..Len(o) /\ Len(o) \in Nat
      /\ DOMAIN o2 = 1..(Len(o) + n)
      /\ \A b \in 1..Len(o) : o2[b] = o[b]
      /\ \A i \in 1..n : o2[Len(o) + i] = t[i]
  BY <1>1, <1>3
<1> HIDE DEF o2
<1>5. \A b \in DOMAIN o : b \in DOMAIN o2 /\ o2[b] = o[b]
  BY <1>4
<1>6. \A i \in 1..n : Len(o) + i \in DOMAIN o2
  BY <1>4
<1>7. \A b \in DOMAIN o2 : b \in DOMAIN o \/ \E i \in 1..n : b = Len(o) + i
  <2> SUFFICES ASSUME NEW b \in 1..(Len(o) + n), b \notin 1..Len(o)
               PROVE  \E i \in 1..n : b = Len(o) + i
    BY <1>4
  <2>1. b - Len(o) \in 1..n /\ b = Len(o) + (b - Len(o))
    BY <1>4
  <2> QED
    BY <2>1
<1>7a. \A i \in 1..n : o2[Len(o) + i] = [send |-> s, k |-> p + i, start |-> x]
  BY <1>2, <1>4
<1>7b. \A i \in 1..n : \E b \in DOMAIN o2 : o2[b] = [send |-> s, k |-> p + i, start |-> x]
  BY <1>6, <1>7a, Zenon
<1>7c. \A b \in DOMAIN o2 : \/ b \in DOMAIN o
                           \/ \E i \in 1..n : o2[b] = [send |-> s, k |-> p + i, start |-> x]
  BY <1>7, <1>7a, Zenon
<1>8. Grown(o, o2, n, s, p, x)
  BY <1>5, <1>7b, <1>7c, Zenon DEF Grown
<1> QED
  BY <1>8 DEF o2, t

\* A write of one send leaves the bytes of the others alone.
LEMMA OtherSendsKept ==
    ASSUME NEW o, NEW o2, NEW n, NEW s, NEW p, NEW x, Grown(o, o2, n, s, p, x),
           NEW j, j # s, NEW m, Holds(o, j, m)
    PROVE  Holds(o2, j, m)
<1>1. \A b \in DOMAIN o : b \in DOMAIN o2 /\ o2[b] = o[b]
  BY DEF Grown
<1>2. \A b \in DOMAIN o2 : o2[b].send = j => b \in DOMAIN o
  BY DEF Grown
<1> QED
  BY <1>1, <1>2 DEF Holds

\* A write extends the bytes of its own send from where they ended.
LEMMA ThisSendGrows ==
    ASSUME NEW o, NEW o2, NEW n \in Nat, NEW s, NEW p \in Nat, NEW x,
           Grown(o, o2, n, s, p, x), Holds(o, s, p)
    PROVE  Holds(o2, s, p + n)
<1>1. ASSUME NEW b \in DOMAIN o2, o2[b].send = s PROVE o2[b].k \in 1..(p + n)
  <2>1. CASE b \in DOMAIN o
    <3>1. o2[b] = o[b]
      BY <2>1 DEF Grown
    <3>2. o2[b].k \in 1..p
      BY <1>1, <2>1, <3>1 DEF Holds
    <3> QED
      BY <3>2
  <2>2. CASE \E i \in 1..n : o2[b] = [send |-> s, k |-> p + i, start |-> x]
    BY <2>2
  <2> QED
    BY <2>1, <2>2 DEF Grown
<1>2. ASSUME NEW k \in 1..(p + n) PROVE \E b \in DOMAIN o2 : o2[b].send = s /\ o2[b].k = k
  <2>1. CASE k \in 1..p
    <3>1. PICK b \in DOMAIN o : o[b].send = s /\ o[b].k = k
      BY <2>1 DEF Holds
    <3>2. b \in DOMAIN o2 /\ o2[b] = o[b]
      BY DEF Grown
    <3> QED
      BY <3>1, <3>2
  <2>2. CASE k \notin 1..p
    <3>1. k - p \in 1..n /\ k = p + (k - p)
      BY <2>2
    <3>2. \E b \in DOMAIN o2 : o2[b] = [send |-> s, k |-> p + (k - p), start |-> x]
      BY <3>1 DEF Grown
    <3> QED
      BY <3>1, <3>2
  <2> QED
    BY <2>1, <2>2
<1> QED
  BY <1>1, <1>2 DEF Holds

\* What is on the wire of the send under way and of those that have returned.
Sound(o, j, send) ==
    /\ send.status = "ok" => Holds(o, j, Total(send.msg))
    /\ send.status = "refused" => Holds(o, j, 0)

SendInv ==
    /\ \A b \in DOMAIN out : out[b].send \in 1..(Len(sends) + 1)
    /\ Holds(out, Len(sends) + 1, IF pc = "idle" THEN 0 ELSE pos)
    /\ \A j \in DOMAIN sends : Sound(out, j, sends[j])

\* A send that returns leaves the sends before it as they were, and nothing of the
\* next one is on the wire.
LEMMA SendReturns ==
    ASSUME TypeOK, SendInv, NEW send, sends' = Append(sends, send), out' = out,
           pc' = "idle", Sound(out, Len(sends) + 1, send)
    PROVE  SendInv'
<1>1. /\ DOMAIN sends = 1..Len(sends) /\ Len(sends) \in Nat
      /\ DOMAIN sends' = 1..(Len(sends) + 1) /\ Len(sends') = Len(sends) + 1
      /\ \A j \in 1..Len(sends) : sends'[j] = sends[j]
      /\ sends'[Len(sends) + 1] = send
  BY DEF TypeOK
<1>2. \A b \in DOMAIN out : /\ out[b].send \in 1..(Len(sends) + 2)
                            /\ out[b].send # Len(sends) + 2
  BY <1>1 DEF SendInv
<1>3. Holds(out, Len(sends) + 2, 0)
  BY <1>2 DEF Holds
<1>4. \A j \in 1..(Len(sends) + 1) : Sound(out, j, sends'[j])
  BY <1>1 DEF SendInv
<1>5. Len(sends') + 1 = Len(sends) + 2
  BY <1>1
<1>6. \A b \in DOMAIN out' : out'[b].send \in 1..(Len(sends') + 1)
  BY <1>2, <1>5
<1>7. Holds(out', Len(sends') + 1, IF pc' = "idle" THEN 0 ELSE pos')
  BY <1>3, <1>5
<1>8. \A j \in DOMAIN sends' : Sound(out', j, sends'[j])
  BY <1>1, <1>4
<1> QED
  BY <1>6, <1>7, <1>8 DEF SendInv

\* Each send holds the first bytes of its frame: all after Ok, none after a refusal.
LEMMA SendInvariant == Spec => []SendInv
<1>1. Init => SendInv
  BY DEF Init, SendInv, Holds
<1>2. TypeOK /\ WriterInv /\ SendInv /\ [Next]_vars => SendInv'
  <2> SUFFICES ASSUME TypeOK, WriterInv, SendInv, [Next]_vars PROVE SendInv'
    OBVIOUS
  <2>0. /\ msg \in Sends /\ pc \in Pieces \cup {"idle"} /\ left \in Nat /\ pos \in Nat
        /\ out \in Seq(ByteRecord) /\ Len(sends) \in Nat
        /\ DOMAIN sends = 1..Len(sends)
    BY DEF TypeOK, ByteRecord
  <2>1. ASSUME NEW m \in Sends, Refuse(m) PROVE SendInv'
    <3> DEFINE send == [msg |-> m, status |-> "refused"]
    <3>1. pc = "idle" /\ pc' = "idle" /\ out' = out /\ sends' = Append(sends, send)
      BY <2>1 DEF Refuse
    <3>2. Sound(out, Len(sends) + 1, send)
      BY <3>1 DEF SendInv, Sound
    <3> QED
      BY <3>1, <3>2, SendReturns
  <2>2. ASSUME NEW m \in Sends, Begin(m) PROVE SendInv'
    BY <2>2 DEF Begin, SendInv
  <2>3. CASE SocketWrites \/ BufferWrites
    <3> DEFINE s == Len(sends) + 1
    <3>1. pc \in Pieces
      BY <2>3, WriteCases
    <3>2. PICK n \in 1..left :
              /\ out' = out \o Written(n, s, pos, KeyStart)
              /\ pos' = pos + n
              /\ UNCHANGED <<msg, pc, sends>>
      BY <2>3, WriteCases
    <3>3. n \in Nat /\ s \in Nat /\ KeyStart \in Nat
      BY <2>0 DEF KeyStart
    <3>4. Grown(out, out', n, s, pos, KeyStart)
      BY <2>0, <3>2, <3>3, OutGrows
    <3>5. pc # "idle"
      BY <3>1 DEF Pieces
    <3>6. Holds(out, s, pos)
      BY <3>5 DEF SendInv
    <3>7. Holds(out', s, pos + n)
      BY <2>0, <3>3, <3>4, <3>6, ThisSendGrows
    <3>8. ASSUME NEW j \in DOMAIN sends PROVE Sound(out', j, sends[j])
      <4>1. j # s
        BY <2>0
      <4>2. Sound(out, j, sends[j])
        BY DEF SendInv
      <4> QED
        BY <3>4, <4>1, <4>2, OtherSendsKept DEF Sound
    <3>9. \A b \in DOMAIN out' : out'[b].send \in 1..s
      <4>1. \A b \in DOMAIN out : out[b].send \in 1..s
        BY DEF SendInv
      <4>2. s \in 1..s
        BY <3>3
      <4> QED
        BY <3>4, <4>1, <4>2 DEF Grown
    <3> QED
      BY <3>2, <3>5, <3>7, <3>8, <3>9 DEF SendInv
  <2>4. CASE Advance
    <3>1. pc' # "idle" /\ pc # "idle"
      BY <2>4, <2>0, NextBefore DEF Advance, Pieces
    <3>2. pos' = pos /\ out' = out /\ sends' = sends
      BY <2>4 DEF Advance
    <3> QED
      BY <3>1, <3>2 DEF SendInv
  <2>5. CASE Finish
    <3> DEFINE send == [msg |-> msg, status |-> "ok"]
    <3>1. /\ pc = "data" /\ left = 0 /\ pc' = "idle" /\ out' = out
          /\ sends' = Append(sends, send)
      BY <2>5 DEF Finish, Sent
    <3>2. pos = Total(msg)
      <4>1. pos + left = Before("data", msg) + PieceLen("data", msg)
        BY <3>1 DEF WriterInv
      <4>2. pos + left = pos
        BY <2>0, <3>1
      <4> QED
        BY <2>0, <4>1, <4>2, TotalIsLayout
    <3>3. Sound(out, Len(sends) + 1, send)
      BY <3>1, <3>2 DEF SendInv, Sound
    <3> QED
      BY <3>1, <3>3, SendReturns
  <2>6. CASE Fail
    <3> DEFINE send == [msg |-> msg, status |-> "failed"]
    <3>1. pc' = "idle" /\ out' = out /\ sends' = Append(sends, send)
      BY <2>6 DEF Fail, Sent
    <3>2. Sound(out, Len(sends) + 1, send)
      BY DEF Sound
    <3> QED
      BY <3>1, <3>2, SendReturns
  <2>7. CASE UNCHANGED vars
    BY <2>7 DEF vars, SendInv
  <2> QED
    BY <2>1, <2>2, <2>3, <2>4, <2>5, <2>6, <2>7 DEF Next
<1> QED
  BY <1>1, <1>2, WriterTypes, PTL DEF Spec

\* A send that returns Ok has put its whole frame on the wire, as many bytes as
\* frame_size announces, and a send that was refused has put none, on either sink.
THEOREM OkIsWhole == Spec => []OkMeansWhole
<1>1. SendInv => OkMeansWhole
  <2> SUFFICES ASSUME SendInv, NEW j \in DOMAIN sends
               PROVE  /\ sends[j].status = "ok" => Positions(j) = 1..Total(sends[j].msg)
                      /\ sends[j].status = "refused" => Positions(j) = {}
    BY DEF OkMeansWhole
  <2>1. Sound(out, j, sends[j])
    BY DEF SendInv
  <2>2. 1..0 = {}
    OBVIOUS
  <2> QED
    BY <2>1, <2>2, HoldsPositions DEF Sound
<1> QED
  BY <1>1, SendInvariant, PTL

-----------------------------------------------------------------------------
(* What encode masks can be unmasked *)

\* The key runs from the first byte of the payload, unless a status code and a
\* reason are written apart.
Aligned(o, j, m) ==
    ~(m.code /\ m.len > 0) =>
        \A b \in DOMAIN o :
            o[b].send = j /\ o[b].start > 0 => o[b].start = Header(m) + 1

AlignInv ==
    /\ \A j \in DOMAIN sends : Aligned(out, j, sends[j].msg)
    /\ pc # "idle" => Aligned(out, Len(sends) + 1, msg)

\* A send with no bytes out is aligned.
LEMMA NothingSentAligned ==
    ASSUME NEW o, NEW j, NEW m, Holds(o, j, 0) PROVE Aligned(o, j, m)
BY DEF Holds, Aligned

\* A piece of the payload that encode writes starts where the payload starts.
LEMMA KeyStartsWithPayload ==
    ASSUME TypeOK, WriterInv, sink = "buffer", pc \in Pieces, left > 0, KeyStart > 0,
           ~(msg.code /\ msg.len > 0)
    PROVE  KeyStart = Header(msg) + 1
<1>1. msg \in Sends /\ msg.len \in Nat /\ Header(msg) \in Nat /\ pos \in Nat
  BY Lengths DEF TypeOK
<1>2. pc \in {"code", "data"} /\ KeyStart = pos + 1
  BY DEF KeyStart
<1>3. /\ left = PieceLen(pc, msg)
      /\ pos + left = Before(pc, msg) + PieceLen(pc, msg)
  BY DEF WriterInv, Pieces
<1>4. PieceLen(pc, msg) \in Nat /\ Before(pc, msg) \in Nat
  BY <1>1, PieceLengths
<1>5. pos = Before(pc, msg)
  BY <1>1, <1>3, <1>4
<1>6. CASE pc = "code"
  BY <1>2, <1>5, <1>6 DEF Before
<1>7. CASE pc = "data"
  <2>1. ~msg.code
    BY <1>1, <1>3, <1>7 DEF PieceLen
  <2> QED
    BY <1>1, <1>2, <1>5, <1>7, <2>1 DEF Before, PieceLen
<1> QED
  BY <1>2, <1>6, <1>7

\* A write that starts at the payload's first byte keeps its send aligned.
LEMMA AlignedGrows ==
    ASSUME NEW o, NEW o2, NEW n, NEW s, NEW p, NEW x, Grown(o, o2, n, s, p, x),
           NEW j, NEW m, Aligned(o, j, m),
           j = s /\ x > 0 /\ ~(m.code /\ m.len > 0) => x = Header(m) + 1
    PROVE  Aligned(o2, j, m)
<1> SUFFICES ASSUME ~(m.code /\ m.len > 0), NEW b \in DOMAIN o2,
                    o2[b].send = j, o2[b].start > 0
             PROVE  o2[b].start = Header(m) + 1
  BY DEF Aligned
<1>1. CASE b \in DOMAIN o
  <2>1. o2[b] = o[b]
    BY <1>1 DEF Grown
  <2> QED
    BY <1>1, <2>1 DEF Aligned
<1>2. CASE \E i \in 1..n : o2[b] = [send |-> s, k |-> p + i, start |-> x]
  <2>1. o2[b].send = s /\ o2[b].start = x
    BY <1>2
  <2> QED
    BY <2>1
<1> QED
  BY <1>1, <1>2 DEF Grown

\* A send that ends aligned keeps all of them aligned.
LEMMA AlignedReturns ==
    ASSUME TypeOK, AlignInv, NEW send, sends' = Append(sends, send), out' = out,
           pc' = "idle", Aligned(out, Len(sends) + 1, send.msg)
    PROVE  AlignInv'
<1>1. /\ DOMAIN sends = 1..Len(sends) /\ Len(sends) \in Nat
      /\ DOMAIN sends' = 1..(Len(sends) + 1)
      /\ \A j \in 1..Len(sends) : sends'[j] = sends[j]
      /\ sends'[Len(sends) + 1] = send
  BY DEF TypeOK
<1>2. \A j \in 1..(Len(sends) + 1) : Aligned(out, j, sends'[j].msg)
  BY <1>1 DEF AlignInv
<1>3. \A j \in DOMAIN sends' : Aligned(out', j, sends'[j].msg)
  BY <1>1, <1>2
<1> QED
  BY <1>3 DEF AlignInv

\* Through encode, the masked bytes of a send were all written from the start of the
\* payload, but for a message with a code and a reason.
LEMMA AlignInvariant == Spec => [](sink = "buffer" => AlignInv)
<1> DEFINE Inv == sink = "buffer" => AlignInv
<1>1. Init => Inv
  BY DEF Init, AlignInv
<1>2. TypeOK /\ WriterInv /\ SendInv /\ Inv /\ [Next]_vars => Inv'
  <2> SUFFICES ASSUME TypeOK, WriterInv, SendInv, AlignInv, [Next]_vars, sink = "buffer"
               PROVE  AlignInv'
    BY SinkKept
  <2>0. /\ left \in Nat /\ pos \in Nat /\ pc \in Pieces \cup {"idle"} /\ msg \in Sends
        /\ out \in Seq(ByteRecord) /\ Len(sends) \in Nat
        /\ DOMAIN sends = 1..Len(sends)
    BY DEF TypeOK, ByteRecord
  <2>1. ASSUME NEW m \in Sends, Refuse(m) PROVE AlignInv'
    <3> DEFINE send == [msg |-> m, status |-> "refused"]
    <3>1. pc = "idle" /\ pc' = "idle" /\ out' = out /\ sends' = Append(sends, send)
      BY <2>1 DEF Refuse
    <3>2. Aligned(out, Len(sends) + 1, m)
      BY <3>1, NothingSentAligned DEF SendInv
    <3>3. send.msg = m
      OBVIOUS
    <3> HIDE DEF send
    <3> QED
      BY <3>1, <3>2, <3>3, AlignedReturns
  <2>2. ASSUME NEW m \in Sends, Begin(m) PROVE AlignInv'
    <3>1. pc = "idle" /\ msg' = m /\ out' = out /\ sends' = sends
      BY <2>2 DEF Begin
    <3>2. Aligned(out, Len(sends) + 1, m)
      BY <3>1, NothingSentAligned DEF SendInv
    <3> QED
      BY <3>1, <3>2 DEF AlignInv
  <2>3. CASE SocketWrites \/ BufferWrites
    <3> DEFINE s == Len(sends) + 1
    <3>1. pc \in Pieces /\ left > 0
      BY <2>3, WriteCases
    <3>2. PICK n \in 1..left :
              /\ out' = out \o Written(n, s, pos, KeyStart)
              /\ UNCHANGED <<msg, pc, sends>>
      BY <2>3, WriteCases
    <3>3. n \in Nat /\ s \in Nat /\ KeyStart \in Nat
      BY <2>0 DEF KeyStart
    <3>4. Grown(out, out', n, s, pos, KeyStart)
      BY <2>0, <3>2, <3>3, OutGrows
    <3>5. Aligned(out', s, msg)
      <4>1. Aligned(out, s, msg)
        BY <3>1 DEF AlignInv, Pieces
      <4>2. KeyStart > 0 /\ ~(msg.code /\ msg.len > 0) => KeyStart = Header(msg) + 1
        BY <3>1, KeyStartsWithPayload
      <4> QED
        BY <3>4, <4>1, <4>2, AlignedGrows
    <3>6. ASSUME NEW j \in DOMAIN sends PROVE Aligned(out', j, sends[j].msg)
      <4>1. j # s /\ Aligned(out, j, sends[j].msg)
        BY <2>0 DEF AlignInv
      <4> QED
        BY <3>4, <4>1, AlignedGrows
    <3> QED
      BY <3>2, <3>5, <3>6 DEF AlignInv
  <2>4. CASE Advance
    <3>1. pc # "idle" /\ msg' = msg /\ out' = out /\ sends' = sends
      BY <2>4 DEF Advance, Pieces
    <3> QED
      BY <3>1 DEF AlignInv
  <2>5. CASE Finish \/ Fail
    <3>1. PICK send : send.msg = msg /\ sends' = Append(sends, send)
      BY <2>5 DEF Finish, Fail, Sent
    <3>2. pc # "idle" /\ pc' = "idle" /\ out' = out
      BY <2>5 DEF Finish, Fail
    <3>3. Aligned(out, Len(sends) + 1, send.msg)
      BY <3>1, <3>2 DEF AlignInv
    <3> QED
      BY <3>1, <3>2, <3>3, AlignedReturns
  <2>6. CASE UNCHANGED vars
    BY <2>6 DEF vars, AlignInv
  <2> QED
    BY <2>1, <2>2, <2>3, <2>4, <2>5, <2>6 DEF Next
<1> QED
  BY <1>1, <1>2, WriterTypes, SendInvariant, PTL DEF Spec

\* Through encode, what a client masks the server unmasks: every payload but that of
\* a message with a status code and a reason, whose two writes use the key from its
\* start.
THEOREM EncodedPayloadsSurvive == Spec => []EncodedPayloadSurvives
<1>1. TypeOK /\ (sink = "buffer" => AlignInv) => EncodedPayloadSurvives
  <2> SUFFICES ASSUME TypeOK, AlignInv, NEW j \in DOMAIN sends,
                      ~(sends[j].msg.code /\ sends[j].msg.len > 0),
                      NEW i \in BytesSent(j), Masked(out[i])
               PROVE  MaskedWith(out[i]) = UnmaskedWith(out[i], sends[j].msg)
    BY DEF EncodedPayloadSurvives, Survives
  <2>1. i \in DOMAIN out /\ out[i].send = j /\ out[i].start > 0
    BY DEF BytesSent, Masked
  <2>2. out[i].start = Header(sends[j].msg) + 1
    BY <2>1 DEF AlignInv, Aligned
  <2>3. out[i].k \in Nat /\ Header(sends[j].msg) \in Nat
    <3>1. out[i].k \in Nat
      <4>1. out \in Seq(ByteRecord)
        BY DEF TypeOK, ByteRecord
      <4>2. out[i] \in ByteRecord
        BY <2>1, <4>1
      <4> QED
        BY <4>2 DEF ByteRecord
    <3>2. sends[j].msg \in Sends
      <4>1. sends \in Seq(SendRecord)
        BY DEF TypeOK, SendRecord
      <4>2. sends[j] \in SendRecord
        BY <4>1
      <4> QED
        BY <4>2 DEF SendRecord
    <3> QED
      BY <3>1, <3>2, Lengths
  <2>4. out[i].k - out[i].start = out[i].k - Header(sends[j].msg) - 1
    BY <2>2, <2>3
  <2> QED
    BY <2>4 DEF MaskedWith, UnmaskedWith
<1> QED
  BY <1>1, WriterTypes, AlignInvariant, PTL

=============================================================================
