------------------------------ MODULE Dataframe ------------------------------
(***************************************************************************)
(* The WebSocket data frame as this crate reads, checks and assembles it:  *)
(* the rules of ws/util/header.rs, dataframe.rs and message.rs as pure     *)
(* operators. The state machines of the sending and the receiving side are *)
(* built from them.                                                        *)
(*                                                                         *)
(* A frame is what one peer put on the wire:                               *)
(*   fin, rsv, op, masked   the header bits (rsv: any of the three is set) *)
(*   form                   how its length is encoded: "short" (7 bits),   *)
(*                          "medium" (126, 2 bytes), "long" (127, 8 bytes) *)
(*   data                   the payload, unmasked                          *)
(* A payload byte matters only to the UTF-8 checks: "a" is a one-byte      *)
(* character, "hi" and "lo" are the two bytes of a two-byte character.     *)
(***************************************************************************)
EXTENDS Integers, Sequences, SequencesExt

CONSTANTS
    MaxShort,    \* the longest payload of a short length: 125 in the code
    MaxMedium    \* the longest payload of a medium length: 65535 in the code

ASSUME LengthAssumption ==
    /\ MaxShort \in Nat
    /\ MaxMedium \in Nat
    /\ MaxShort < MaxMedium

Continuation == 0
Text         == 1
Binary       == 2
Close        == 8
Ping         == 9
Pong         == 10

DataOps    == 1..7
ControlOps == 8..15
Opcode     == 0..15

Byte == {"a", "hi", "lo"}
Form == {"short", "medium", "long"}

\* What a peer can put on the wire: any combination of header bits, with a
\* length the chosen form can hold.
IsFrame(f) ==
    /\ f.fin \in BOOLEAN /\ f.rsv \in BOOLEAN /\ f.masked \in BOOLEAN
    /\ f.op \in Opcode
    /\ f.form \in Form
    /\ f.data \in Seq(Byte)
    /\ f.form = "short"  => Len(f.data) <= MaxShort
    /\ f.form = "medium" => Len(f.data) <= MaxMedium

-----------------------------------------------------------------------------
(* Layout *)

\* The form the length of a payload of n bytes is written in.
FormOf(n) ==
    IF n <= MaxShort THEN "short" ELSE IF n <= MaxMedium THEN "medium" ELSE "long"

ExtLen(form) == [short |-> 0, medium |-> 2, long |-> 8][form]
KeyLen(masked) == IF masked THEN 4 ELSE 0

\* Bytes read_header takes from the wire, and bytes of the whole frame.
HeaderLen(f) == 2 + ExtLen(f.form) + KeyLen(f.masked)
WireLen(f)   == HeaderLen(f) + Len(f.data)

\* DataFrame::frame_size: the bytes a frame of n payload bytes is expected to
\* take once written.
FrameSize(n, masked) ==
    1 + (IF n <= MaxShort THEN 1 ELSE IF n <= MaxMedium THEN 3 ELSE 9)
      + KeyLen(masked) + n

-----------------------------------------------------------------------------
(* Checks *)

\* read_header: the first rule a header breaks, decided when the length is
\* known and before the masking key is read.
HeaderFault(f) ==
    IF f.form # FormOf(Len(f.data)) THEN "InvalidLength"
    ELSE IF f.op \in ControlOps /\ Len(f.data) > MaxShort THEN "ControlTooLong"
    ELSE IF f.op \in ControlOps /\ ~f.fin THEN "FragmentedControl"
    ELSE "none"

\* write_header: what it refuses before it writes a byte.
WriteFault(op, n) ==
    IF op \notin Opcode THEN "InvalidOpcode"
    ELSE IF op \in ControlOps /\ n > MaxShort THEN "ControlTooLong"
    ELSE "none"

\* read_dataframe_body: a server takes only masked frames, a client only
\* unmasked ones.
MaskFault(f, shouldBeMasked) ==
    IF f.masked = shouldBeMasked THEN "none"
    ELSE IF shouldBeMasked THEN "ExpectedMasked" ELSE "ExpectedUnmasked"

-----------------------------------------------------------------------------
(* Messages *)

Msg(op, data) == [kind |-> "message", op |-> op, data |-> data]
Err(e)        == [kind |-> "error", error |-> e]

Utf8(s) ==
    \A i \in DOMAIN s :
        /\ s[i] = "hi" => i < Len(s) /\ s[i + 1] = "lo"
        /\ s[i] = "lo" => i > 1 /\ s[i - 1] = "hi"

\* The last match of from_dataframes: the message for an opcode and its payload.
\* A close payload of one byte fails in read_u16, whose UnexpectedEof becomes
\* NoDataAvailable.
Assemble(op, data) ==
    CASE op = Text /\ ~Utf8(data)       -> Err("Utf8")
      [] op = Close /\ Len(data) = 1    -> Err("NoDataAvailable")
      [] op = Close /\ Len(data) > 1 /\ ~Utf8(SubSeq(data, 3, Len(data)))
                                        -> Err("Utf8")
      [] op \notin {Text, Binary, Close, Ping, Pong}
                                        -> Err("UnsupportedOpcode")
      [] OTHER                          -> Msg(op, data)

Misplaced(frames, i) == i > 1 /\ frames[i].op # Continuation

\* Message::from_dataframes: the frames are checked in order, each for its place
\* and then for its reserved bits. Its check for no frames at all cannot fail
\* here: both receivers pass at least one.
FromDataframes(frames) ==
    IF \E i \in DOMAIN frames :
          Misplaced(frames, i) /\ \A j \in 1..(i - 1) : ~frames[j].rsv
    THEN Err("NonContinuation")
    ELSE IF \E i \in DOMAIN frames : frames[i].rsv
    THEN Err("ReservedBits")
    ELSE Assemble(frames[1].op,
                  FlattenSeq([i \in DOMAIN frames |-> frames[i].data]))

=============================================================================
