------------------------------- MODULE Messages -------------------------------
(***************************************************************************)
(* The two types of message of message.rs, Message and OwnedMessage: how   *)
(* they are made, turned into each other, written as one frame and read    *)
(* back. Both are an opcode, the two bytes of a close code or none, and    *)
(* the data: the payload but for the code. Pure operators.                 *)
(***************************************************************************)
EXTENDS Dataframe

TextMessage(data)        == [op |-> Text, code |-> <<>>, data |-> data]
BinaryMessage(data)      == [op |-> Binary, code |-> <<>>, data |-> data]
PingMessage(data)        == [op |-> Ping, code |-> <<>>, data |-> data]
PongMessage(data)        == [op |-> Pong, code |-> <<>>, data |-> data]
CloseMessage             == [op |-> Close, code |-> <<>>, data |-> <<>>]
CloseBecause(code, data) == [op |-> Close, code |-> code, data |-> data]

IsClose(m)   == m.op = Close
IsPing(m)    == m.op = Ping
IsPong(m)    == m.op = Pong
IsControl(m) == m.op \in {Close, Ping, Pong}
IsData(m)    == ~IsControl(m)

\* What an OwnedMessage can hold, before what its String is: a code is two bytes.
IsMessage(m) ==
    m \in [op : {Text, Binary, Close, Ping, Pong},
          code : {<<>>} \cup (Byte \X Byte), data : Seq(Byte)]

\* from_utf8_lossy: each byte that is not part of a character is replaced.
Lossy(s) ==
    [i \in DOMAIN s |->
        IF \/ s[i] = "a"
           \/ s[i] = "hi" /\ i < Len(s) /\ s[i + 1] = "lo"
           \/ s[i] = "lo" /\ i > 1 /\ s[i - 1] = "hi"
        THEN s[i] ELSE "replaced"]

\* OwnedMessage from Message: a text is made a String, and only a close keeps its code.
Owned(m) ==
    CASE m.op = Text  -> TextMessage(Lossy(m.data))
      [] m.op = Close -> IF m.code = <<>> THEN CloseMessage
                         ELSE CloseBecause(m.code, Lossy(m.data))
      [] OTHER        -> [m EXCEPT !.code = <<>>]

\* write_payload and take_payload, and the length frame_size counts with.
Payload(m) == m.code \o m.data
SizeOf(m)  == Len(m.data) + (IF m.code = <<>> THEN 0 ELSE 2)

\* A message is its own data frame: the last and only one, with no reserved bit.
FrameOf(m, masked) ==
    [fin |-> TRUE, rsv |-> FALSE, op |-> m.op, masked |-> masked,
     form |-> FormOf(SizeOf(m)), data |-> Payload(m)]

\* The end of from_dataframes: the first two bytes of a close are its code.
MessageFrom(op, payload) ==
    IF op = Close /\ payload # <<>>
    THEN CloseBecause(SubSeq(payload, 1, 2), SubSeq(payload, 3, Len(payload)))
    ELSE [op |-> op, code |-> <<>>, data |-> payload]

\* OwnedMessage::from_dataframes.
OwnedFrom(frames) ==
    LET m == FromDataframes(frames) IN
    IF m.kind = "error" THEN m ELSE Owned(MessageFrom(m.op, m.data))

=============================================================================
