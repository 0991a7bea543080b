----------------------------- MODULE FrameWriter -----------------------------
(***************************************************************************)
(* The sending side: write_to of ws/dataframe.rs, over write_header, the   *)
(* write_payload of each kind of message and the Masker, into one of two   *)
(* sinks:                                                                  *)
(*   "socket"  the blocking Sender: a write takes any part of what it is   *)
(*             given, or fails                                             *)
(*   "buffer"  encode of codec/ws.rs: a write takes what fits in the room  *)
(*             that encode has reserved                                    *)
(* Each piece of a frame goes through write_all, which writes again until  *)
(* the sink has taken all of it. A masked byte is known by the place where *)
(* its write call began: the Masker starts at the first byte of the key    *)
(* for every call.                                                         *)
(***************************************************************************)
EXTENDS Dataframe

CONSTANTS
    Sends,     \* what can be sent: [op, code, len], code: a status code goes first
    Mask,      \* TRUE on a client
    MaxSends,  \* bound: number of sends
    MaxRoom    \* bound: room left in the buffer before a send

ASSUME WriterAssumption ==
    /\ Sends \subseteq [op : Nat, code : BOOLEAN, len : Nat]
    /\ Mask \in BOOLEAN
    /\ MaxSends \in Nat
    /\ MaxRoom \in Nat

VARIABLES
    sink,   \* "socket" or "buffer"
    msg,    \* the message being sent
    pc,     \* the piece of its frame being written, "idle" between two sends
    left,   \* the bytes of the piece not yet written
    pos,    \* the bytes of the frame written
    room,   \* the room left in the buffer (buffer sink only)
    out,    \* every byte the sink has taken
    sends   \* what the sends have returned so far (a history)

vars == <<sink, msg, pc, left, pos, room, out, sends>>

\* size() of a message: a status code counts for two bytes.
Size(m)    == m.len + (IF m.code THEN 2 ELSE 0)
Header(m)  == 2 + ExtLen(FormOf(Size(m))) + KeyLen(Mask)
Total(m)   == FrameSize(Size(m), Mask)

Pieces == {"byte0", "byte1", "ext", "key", "code", "data"}

\* The pieces in the order they are written, and the length of each.
NextPiece ==
    [byte0 |-> "byte1", byte1 |-> "ext", ext |-> "key", key |-> "code",
     code |-> "data"]

PieceLen(piece, m) ==
    CASE piece = "ext"  -> ExtLen(FormOf(Size(m)))
      [] piece = "key"  -> KeyLen(Mask)
      [] piece = "code" -> IF m.code THEN 2 ELSE 0
      [] piece = "data" -> m.len
      [] OTHER          -> 1

Init ==
    /\ sink \in {"socket", "buffer"}
    /\ msg \in Sends
    /\ pc = "idle"
    /\ left = 0 /\ pos = 0 /\ room = 0
    /\ out = <<>>
    /\ sends = <<>>

-----------------------------------------------------------------------------
Sent(status) == sends' = Append(sends, [msg |-> msg, status |-> status])

\* write_header refuses the message before a byte is written.
Refuse(m) ==
    /\ pc = "idle"
    /\ Len(sends) < MaxSends
    /\ WriteFault(m.op, Size(m)) # "none"
    /\ msg' = m
    /\ sends' = Append(sends, [msg |-> m, status |-> "refused"])
    /\ UNCHANGED <<sink, pc, left, pos, room, out>>

\* Mutant: only the payload is reserved.
BeginPayloadOnly(m) ==
    /\ pc = "idle"
    /\ Len(sends) < MaxSends
    /\ WriteFault(m.op, Size(m)) = "none"
    /\ msg' = m
    /\ pc' = "byte0" /\ left' = 1 /\ pos' = 0
    /\ IF sink = "buffer"
       THEN \E r \in 0..MaxRoom : room' = IF Size(m) > r THEN Size(m) ELSE r
       ELSE UNCHANGED room
    /\ UNCHANGED <<sink, out, sends>>

\* encode reserves room for the frame when the buffer has too little: reserve gives
\* that much or more, and the least is taken here.
Begin(m) ==
    /\ pc = "idle"
    /\ Len(sends) < MaxSends
    /\ WriteFault(m.op, Size(m)) = "none"
    /\ msg' = m
    /\ pc' = "byte0" /\ left' = 1 /\ pos' = 0
    /\ IF sink = "buffer"
       THEN \E r \in 0..MaxRoom : room' = IF Total(m) > r THEN Total(m) ELSE r
       ELSE UNCHANGED room
    /\ UNCHANGED <<sink, out, sends>>

\* Mutant: the count is not compared with what was to be written.
WriteOverruns(n) ==
    LET byte(i) == [send |-> Len(sends) + 1, k |-> pos + i, start |-> 0]
    IN  /\ out' = out \o [i \in 1..n |-> byte(i)]
        /\ pos' = pos + n
        /\ left' = left - (n + 1)
        /\ UNCHANGED <<sink, msg, pc, sends>>

\* Mutant: the key runs from the first byte of the frame.
WriteKeyFromHeader(n) ==
    LET masked == Mask /\ pc \in {"code", "data"}
        byte(i) == [send |-> Len(sends) + 1, k |-> pos + i,
                    start |-> IF masked THEN 1 ELSE 0]
    IN  /\ out' = out \o [i \in 1..n |-> byte(i)]
        /\ pos' = pos + n
        /\ left' = left - n
        /\ UNCHANGED <<sink, msg, pc, sends>>

\* One call of write on the sink, which takes n bytes of the piece. The payload
\* of a masked frame goes through the Masker.
Write(n) ==
    LET masked == Mask /\ pc \in {"code", "data"}
        byte(i) == [send |-> Len(sends) + 1, k |-> pos + i,
                    start |-> IF masked THEN pos + 1 ELSE 0]
    IN  /\ out' = out \o [i \in 1..n |-> byte(i)]
        /\ pos' = pos + n
        /\ left' = left - n
        /\ UNCHANGED <<sink, msg, pc, sends>>

SocketWrites ==
    /\ sink = "socket"
    /\ \E n \in 1..left : Write(n)
    /\ UNCHANGED room

\* The writer of BytesMut takes as much as fits.
BufferWrites ==
    /\ sink = "buffer"
    /\ left > 0 /\ room > 0
    /\ LET n == IF left <= room THEN left ELSE room
       IN  Write(n) /\ room' = room - n

\* Mutant: the key of a masked frame is not written.
AdvanceWithoutKey ==
    /\ pc \in Pieces \ {"data"} /\ left = 0
    /\ pc' = IF pc = "ext" THEN "code" ELSE NextPiece[pc]
    /\ left' = PieceLen(pc', msg)
    /\ UNCHANGED <<sink, msg, pos, room, out, sends>>

Advance ==
    /\ pc \in Pieces \ {"data"} /\ left = 0
    /\ pc' = NextPiece[pc]
    /\ left' = PieceLen(NextPiece[pc], msg)
    /\ UNCHANGED <<sink, msg, pos, room, out, sends>>

Finish ==
    /\ pc = "data" /\ left = 0
    /\ pc' = "idle"
    /\ Sent("ok")
    /\ UNCHANGED <<sink, msg, left, pos, room, out>>

\* A write fails, and the rest of the frame is never written, or the flush at the
\* end fails.
Fail ==
    /\ pc # "idle"
    /\ \/ left > 0 /\ (sink = "socket" \/ room = 0)
       \/ left = 0 /\ pc = "data" /\ sink = "socket"
    /\ pc' = "idle" /\ left' = 0
    /\ Sent("failed")
    /\ UNCHANGED <<sink, msg, pos, room, out>>

Next ==
    \/ \E m \in Sends : Refuse(m) \/ Begin(m)
    \/ SocketWrites \/ BufferWrites
    \/ Advance \/ Finish \/ Fail

Spec == Init /\ [][Next]_vars

-----------------------------------------------------------------------------
(* Properties *)

TypeOK ==
    /\ sink \in {"socket", "buffer"}
    /\ msg \in Sends
    /\ pc \in Pieces \cup {"idle"}
    /\ left \in Nat /\ pos \in Nat /\ room \in Nat
    /\ out \in Seq([send : Nat, k : Nat, start : Nat])
    /\ sends \in Seq([msg : Sends, status : {"ok", "failed", "refused"}])

BytesSent(j)  == {b \in DOMAIN out : out[b].send = j}
Positions(j)  == {out[b].k : b \in BytesSent(j)}

\* A send that returns Ok has put on the wire the number of bytes that frame_size
\* announces; one that was refused has put none; only a failed one leaves a part
\* of a frame, which the peer will read together with what follows.
OkMeansWhole ==
    \A j \in DOMAIN sends :
        /\ sends[j].status = "ok" => Positions(j) = 1..Total(sends[j].msg)
        /\ sends[j].status = "refused" => Positions(j) = {}

\* encode never runs out of room: frame_size is enough for what write_to writes.
EncodeNeverFails ==
    sink = "buffer" => \A j \in DOMAIN sends : sends[j].status # "failed"

\* The key byte the Masker uses for a byte, and the one the receiver uses.
MaskedWith(b)      == (b.k - b.start) % 4
UnmaskedWith(b, m) == (b.k - Header(m) - 1) % 4
Masked(b)          == b.start > 0

Survives(j) ==
    \A i \in BytesSent(j) :
        Masked(out[i]) =>
            MaskedWith(out[i]) = UnmaskedWith(out[i], sends[j].msg)

\* Through encode, the receiver unmasks every payload to what was sent, but for a
\* message that carries both a status code and a reason.
EncodedPayloadSurvives ==
    sink = "buffer" =>
        \A j \in DOMAIN sends :
            ~(sends[j].msg.code /\ sends[j].msg.len > 0) => Survives(j)

\* What close_because promises in message.rs, that a close message provides its text
\* reason to the peer, and dataframe.rs of every frame, that masking is undone when
\* it is received: a payload that encode has taken is unmasked to what was sent. The
\* code breaks it, for the code and the reason of a close message are two writes. (On
\* a socket a short write garbles any payload in the same way, for write_all calls
\* the Masker again with what is left.)
PayloadSurvives ==
    sink = "buffer" =>
        \A j \in DOMAIN sends : sends[j].status = "ok" => Survives(j)

=============================================================================
