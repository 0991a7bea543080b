------------------------------- MODULE Receiver -------------------------------
(***************************************************************************)
(* The blocking receiving side: Receiver over a BufReader (receiver.rs,    *)
(* ws/receiver.rs) with read_dataframe and read_header underneath it, at   *)
(* the granularity of the reads they make. The bytes of a frame arrive in  *)
(* any pieces; every read takes the bytes it asks for, or waits, or fails  *)
(* part-way: because the peer is gone or the socket shut down, or because  *)
(* the socket is in nonblocking mode. A failed read keeps nothing of the   *)
(* frame it was in. A call reads a message, or a raw frame past the        *)
(* message in progress.                                                    *)
(***************************************************************************)
EXTENDS Dataframe

CONSTANTS
    Frames, ShouldBeMasked, MaxFrames, MaxEmptyCalls    \* see MessageStream

ASSUME ReceiverAssumption ==
    /\ \A f \in Frames : IsFrame(f)
    /\ ShouldBeMasked \in BOOLEAN
    /\ MaxFrames \in Nat
    /\ MaxEmptyCalls \in Nat

VARIABLES
    wire, consumed, buffer, results,   \* see MessageStream
    net,     \* bytes sent and not yet arrived
    stream,  \* bytes arrived and not yet read
    gone,    \* the peer is gone: what has not arrived never will
    nonblocking,  \* set_nonblocking has been called
    pc,      \* the read the call is at, "idle" between two calls
    raw      \* the call is one of recv_dataframe

ioVars   == <<net, stream, gone, nonblocking>>
callVars == <<pc, raw>>
vars     == <<wire, consumed, buffer, results, ioVars, callVars>>

Init ==
    /\ wire = <<>> /\ consumed = 0 /\ buffer = <<>> /\ results = <<>>
    /\ net = <<>> /\ stream = <<>>
    /\ gone = FALSE /\ nonblocking = FALSE
    /\ pc = "idle" /\ raw = FALSE

MS == INSTANCE MessageStream
          WITH Frames <- Frames, ShouldBeMasked <- ShouldBeMasked,
               MaxFrames <- MaxFrames, MaxEmptyCalls <- MaxEmptyCalls,
               wire <- wire, consumed <- consumed, buffer <- buffer, results <- results

\* The k-th byte of the i-th frame of the wire.
BytesOf(i, f) == [k \in 1..WireLen(f) |-> [frame |-> i, k |-> k]]

-----------------------------------------------------------------------------
(* The peer and the network *)

PeerSends(f) ==
    /\ ~gone
    /\ Len(wire) < MaxFrames
    /\ wire' = Append(wire, f)
    /\ net' = net \o BytesOf(Len(wire) + 1, f)
    /\ UNCHANGED <<consumed, buffer, results, stream, gone, nonblocking, callVars>>

Arrive(n) ==
    /\ stream' = stream \o SubSeq(net, 1, n)
    /\ net' = SubSeq(net, n + 1, Len(net))
    /\ UNCHANGED <<wire, consumed, buffer, results, gone, nonblocking, callVars>>

\* The connection ends, or its reading side is shut down.
PeerGone ==
    /\ ~gone
    /\ gone' = TRUE
    /\ net' = <<>>
    /\ UNCHANGED <<wire, consumed, buffer, results, stream, nonblocking, callVars>>

\* set_nonblocking(true), between two calls: a call has the Client to itself.
SetNonblocking ==
    /\ pc = "idle" /\ ~nonblocking
    /\ nonblocking' = TRUE
    /\ UNCHANGED <<wire, consumed, buffer, results, net, stream, gone, callVars>>

-----------------------------------------------------------------------------
(* One call of recv_message or of recv_dataframe *)

\* The frame the bytes being read belong to.
cur == wire[consumed + 1]

\* Mutant: one byte too many is asked for.
NeedOneMore ==
    CASE pc \in {"byte0", "byte1"} -> 1
      [] pc = "ext"     -> ExtLen(cur.form)
      [] pc = "key"     -> KeyLen(cur.masked)
      [] pc = "payload" -> Len(cur.data) + 1
      [] OTHER          -> 0

\* Mutant: the key is not read.
NeedNoKey ==
    CASE pc \in {"byte0", "byte1"} -> 1
      [] pc = "ext"     -> ExtLen(cur.form)
      [] pc = "payload" -> Len(cur.data)
      [] OTHER          -> 0

\* The bytes each read asks for. The four reads of the key's bytes are one here,
\* and so are the reads of read_to_end: what fails part-way is lost either way.
Need ==
    CASE pc \in {"byte0", "byte1"} -> 1
      [] pc = "ext"     -> ExtLen(cur.form)
      [] pc = "key"     -> KeyLen(cur.masked)
      [] pc = "payload" -> Len(cur.data)
      [] OTHER          -> 0

Return(out, from, cut) ==
    /\ results' = Append(results, MS!Result(out, from, cut))
    /\ pc' = "idle" /\ raw' = FALSE

Continue(next) == pc' = next /\ UNCHANGED <<results, raw>>

Call ==
    /\ pc = "idle"
    /\ MS!Synced
    /\ pc' = "byte0" /\ raw' \in BOOLEAN
    /\ UNCHANGED <<wire, consumed, buffer, results, ioVars>>

\* A read that gets what it asks for: the state of the stream after it.
Reads ==
    /\ pc # "idle"
    /\ Len(stream) >= Need
    /\ stream' = SubSeq(stream, Need + 1, Len(stream))
    /\ UNCHANGED <<wire, net, gone, nonblocking>>

ReadByte ==
    /\ pc \in {"byte0", "byte1"}
    /\ Reads
    /\ Continue(IF pc = "byte0" THEN "byte1" ELSE "ext")
    /\ UNCHANGED <<consumed, buffer>>

\* The extended length, then the checks of the header.
ReadLength ==
    /\ pc = "ext"
    /\ Reads
    /\ HeaderFault(cur) = "none"
    /\ Continue("key")
    /\ UNCHANGED <<consumed, buffer>>

\* A refused header: its key and its payload stay in the stream.
RefuseHeader ==
    /\ pc = "ext"
    /\ Reads
    /\ HeaderFault(cur) # "none"
    /\ IF KeyLen(cur.masked) + Len(cur.data) = 0
       THEN /\ Return(Err(HeaderFault(cur)), <<consumed + 1>>, FALSE)
            /\ consumed' = consumed + 1
       ELSE /\ Return(Err(HeaderFault(cur)), <<>>, TRUE)
            /\ UNCHANGED consumed
    /\ UNCHANGED buffer

ReadKey ==
    /\ pc = "key"
    /\ Reads
    /\ Continue("payload")
    /\ UNCHANGED <<consumed, buffer>>

\* The frame is whole.
TakeFrame ==
    /\ pc = "payload"
    /\ Reads
    /\ consumed' = consumed + 1

Refuse(error) ==
    /\ Return(Err(error), <<consumed + 1>>, FALSE)
    /\ UNCHANGED buffer

\* recv_message returns what from_dataframes makes of the frames.
Deliver(from) == Return(FromDataframes(MS!FramesOf(from)), from, FALSE)

RefuseBody ==
    /\ TakeFrame
    /\ MaskFault(cur, ShouldBeMasked) # "none"
    /\ Refuse(MaskFault(cur, ShouldBeMasked))

\* Mutant: a raw read goes through the message in progress.
RawFrameThroughBuffer ==
    /\ raw /\ TakeFrame
    /\ MaskFault(cur, ShouldBeMasked) = "none"
    /\ Return(MS!RawFrameOut, <<consumed + 1>>, FALSE)
    /\ buffer' = <<>>

\* recv_dataframe hands over any frame, whatever message is in progress.
RawFrame ==
    /\ raw /\ TakeFrame
    /\ MaskFault(cur, ShouldBeMasked) = "none"
    /\ Return(MS!RawFrameOut, <<consumed + 1>>, FALSE)
    /\ UNCHANGED buffer

\* The first frame of a message: read when the buffer is empty, it is buffered
\* whatever it is but a continuation, and decides by itself whether to go on.
FirstFrame ==
    /\ ~raw /\ TakeFrame
    /\ MaskFault(cur, ShouldBeMasked) = "none"
    /\ buffer = <<>>
    /\ \/ /\ cur.op = Continuation
          /\ Refuse("UnexpectedContinuation")
       \/ /\ cur.op # Continuation /\ cur.fin
          /\ Deliver(<<consumed + 1>>)
          /\ buffer' = <<>>
       \/ /\ cur.op # Continuation /\ ~cur.fin
          /\ buffer' = <<consumed + 1>>
          /\ Continue("byte0")

\* A frame read by the loop, with a message in progress.
NextFrame ==
    /\ ~raw /\ TakeFrame
    /\ MaskFault(cur, ShouldBeMasked) = "none"
    /\ buffer # <<>>
    /\ \/ /\ cur.op = Continuation /\ cur.fin
          /\ Deliver(Append(buffer, consumed + 1))
          /\ buffer' = <<>>
       \/ /\ cur.op = Continuation /\ ~cur.fin
          /\ buffer' = Append(buffer, consumed + 1)
          /\ Continue("byte0")
       \/ /\ cur.op \in ControlOps
          /\ Deliver(<<consumed + 1>>)
          /\ UNCHANGED buffer
       \/ /\ cur.op \in DataOps
          /\ Refuse("UnexpectedOpcode")

\* Mutant: a blocking read gives up when there is nothing to read.
ReadGivesUp ==
    /\ pc # "idle"
    /\ Len(stream) < Need
    /\ MS!EmptyCalls < MaxEmptyCalls
    /\ stream' = <<>>
    /\ Return(Err(IF gone THEN "NoDataAvailable" ELSE "IoError"),
              <<>>, pc # "byte0")
    /\ UNCHANGED <<wire, consumed, buffer, net, gone, nonblocking>>

\* A read that fails: the bytes that had arrived are read and lost. The stream is
\* cut unless the call had not begun a frame.
ReadFails ==
    /\ pc # "idle"
    /\ Len(stream) < Need
    /\ gone \/ nonblocking
    /\ MS!EmptyCalls < MaxEmptyCalls
    /\ stream' = <<>>
    /\ Return(Err(IF gone THEN "NoDataAvailable" ELSE "IoError"),
              <<>>, pc # "byte0")
    /\ UNCHANGED <<wire, consumed, buffer, net, gone, nonblocking>>

\* A call on a stream that is cut reads the middle of a frame as a header.
CallWhenCut ==
    /\ pc = "idle"
    /\ ~MS!Synced
    /\ MS!EmptyCalls < MaxEmptyCalls
    /\ Return(MS!Unknown, <<>>, TRUE)
    /\ UNCHANGED <<wire, consumed, buffer, ioVars>>

Receive ==
    \/ Call \/ ReadByte \/ ReadLength \/ RefuseHeader \/ ReadKey
    \/ RefuseBody \/ RawFrame \/ FirstFrame \/ NextFrame
    \/ ReadFails \/ CallWhenCut

Next ==
    \/ \E f \in Frames : PeerSends(f)
    \/ \E n \in 1..Len(net) : Arrive(n)
    \/ PeerGone
    \/ SetNonblocking
    \/ Receive

Spec == Init /\ [][Next]_vars

\* The network delivers, and the caller keeps calling.
FairSpec ==
    /\ Spec
    /\ WF_vars(\E n \in 1..Len(net) : Arrive(n))
    /\ WF_vars(Receive)

-----------------------------------------------------------------------------
(* Properties *)

\* The Receiver hands its caller what MessageStream promises: the same results
\* for the same frames as the asynchronous codec, however the bytes arrive.
ImplementsMessageStream == MS!Spec

\* How much of the current frame the call has read.
Read ==
    CASE pc = "byte1"   -> 1
      [] pc = "ext"     -> 2
      [] pc = "key"     -> 2 + ExtLen(cur.form)
      [] pc = "payload" -> HeaderLen(cur)
      [] OTHER          -> 0

\* Until a result reports a cut, the reader is never out of step with the writer:
\* the next byte to read is the one the frame's layout has there.
InStep ==
    LET ahead == stream \o net IN
    MS!Synced /\ ahead # <<>> =>
        ahead[1] = IF pc # "idle" /\ Read = WireLen(cur)
                   THEN [frame |-> consumed + 2, k |-> 1]
                   ELSE [frame |-> consumed + 1, k |-> Read + 1]

\* On a blocking socket whose peer is there, a call returns only with a frame or
\* for a bad header: it never gives up waiting for bytes.
BlocksUntilFrame ==
    ~nonblocking /\ ~gone =>
        \A r \in DOMAIN results :
            results[r].from = <<>> =>
                \/ results[r].out \in {Err(e) : e \in MS!HeaderFaults}
                \/ \E q \in 1..(r - 1) :
                      results[q].cut /\ results[q].out \in
                          {Err(e) : e \in MS!HeaderFaults}

\* Whenever the peer pauses (here: it has sent MaxFrames frames, or no more), a caller
\* who goes on calling comes to have every frame that was sent, unless the peer goes
\* away or the stream is cut.
EveryFrameTaken ==
    []<>(consumed = Len(wire) \/ gone \/ ~MS!Synced)

=============================================================================
