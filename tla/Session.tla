------------------------------- MODULE Session -------------------------------
(***************************************************************************)
(* A whole session as the client programs of examples/ hold it, over the   *)
(* halves that split gives them:                                           *)
(*   threads  client.rs: the main thread reads lines and a receiving       *)
(*            thread reads messages, both for a sending thread behind a    *)
(*            channel                                                      *)
(*   select   async-client.rs and ssl-client.rs: a thread reads lines into *)
(*            a channel of one place; a task selects between the channel   *)
(*            and the answers to the messages, and forwards them to the    *)
(*            sink                                                         *)
(*   echo     autobahn-client.rs: one loop answers what it receives        *)
(* The peer is any program. A message is whole here: what a receiver makes *)
(* of frames and a sender of messages is in Receiver, MessageCodec and     *)
(* FrameWriter.                                                            *)
(***************************************************************************)
EXTENDS Messages, FiniteSets

CONSTANTS
    Programs,      \* the programs: a subset of {"threads", "select", "echo"}
    PeerMessages,  \* what a peer can send
    MaxPeer,       \* bound: messages of the peer
    MaxLines       \* bound: lines typed, before the user types /close

ASSUME SessionAssumption ==
    /\ Programs \subseteq {"threads", "select", "echo"}
    /\ \A m \in PeerMessages : IsMessage(m) /\ Owned(m) = m
    /\ MaxPeer \in Nat /\ MaxLines \in Nat

VARIABLES
    program,
    main,      \* the thread that reads lines: reading, joining, done
    sending,   \* the send loop, or the task: up, done
    receiving, \* the receive loop, or the task's stream of messages: up, done
    channel,   \* the messages in the channel
    peer,      \* up, gone
    arriving,  \* what the peer has sent and nobody has read: messages and errors
    out,       \* the frames the program has sent
    typed,     \* the messages made of the lines typed (a history)
    read       \* the messages read, but for errors (a history)

vars == <<program, main, sending, receiving, channel, peer, arriving, out, typed, read>>

Init ==
    /\ program \in Programs
    /\ main = IF program = "echo" THEN "joining" ELSE "reading"
    /\ sending = IF program = "echo" THEN "done" ELSE "up"
    /\ receiving = "up"
    /\ channel = <<>> /\ arriving = <<>> /\ out = <<>> /\ typed = <<>> /\ read = <<>>
    /\ peer = "up"

-----------------------------------------------------------------------------
(* The peer and the network *)

\* An error is a frame that is refused: the iterators hand it on and go on.
Error == [op |-> -1, code |-> <<>>, data |-> <<>>]

PeerSends ==
    /\ peer = "up" /\ Len(read) + Len(arriving) < MaxPeer
    /\ \E m \in PeerMessages \cup {Error} : arriving' = Append(arriving, m)
    /\ UNCHANGED <<program, main, sending, receiving, channel, peer, out, typed, read>>

PeerLeaves ==
    /\ peer = "up"
    /\ peer' = "gone"
    /\ UNCHANGED <<program, main, sending, receiving, channel, arriving, out, typed, read>>

\* The frames a message can become: a close with a code and a reason is written in two
\* writes, and the second is masked with the key from its start. Its reason is any
\* bytes to whoever unmasks the frame, as the key has it.
FramesOf(m) ==
    IF m.code = <<>> \/ m.data = <<>> THEN {FrameOf(m, TRUE)}
    ELSE {[FrameOf(m, TRUE) EXCEPT !.data = m.code \o r] : r \in [DOMAIN m.data -> Byte]}

\* One message or none goes out, and the socket takes each write whole. A send that
\* fails, as it can when the peer has gone, puts none.
Puts(ms) ==
    IF ms = <<>> THEN UNCHANGED out
    ELSE \E f \in FramesOf(Head(ms)) : out' = Append(out, f)

\* The next message, or the end of the stream, where the iterators give errors.
Arrives(m) == arriving # <<>> /\ m = Head(arriving)
AtEnd == arriving = <<>> /\ peer = "gone"
Takes == /\ arriving' = Tail(arriving)
         /\ read' = IF Head(arriving) = Error THEN read ELSE Append(read, Head(arriving))

\* Mutant: every ping is answered with an empty pong.
EmptyPong(m) == IF m.op = Ping THEN <<PongMessage(<<>>)>> ELSE <<>>

\* What a ping is answered with.
PongTo(m) == IF m.op = Ping THEN <<PongMessage(m.data)>> ELSE <<>>

-----------------------------------------------------------------------------
(* The user *)

Line == {"/ping", "text"}
MessageOf(line) == IF line = "/ping" THEN PingMessage(<<"a", "a">>) ELSE TextMessage(<<"a">>)

\* tx.send of the main loop fails when the send loop has returned.
MainSends(m, next) ==
    IF sending = "up"
    THEN channel' = Append(channel, m) /\ main' = next
    ELSE main' = "joining" /\ UNCHANGED channel

\* The thread of the asynchronous programs waits for the place in the channel.
StdinSends(m, next) ==
    /\ channel = <<>>
    /\ channel' = <<m>> /\ main' = next

Types ==
    /\ main = "reading" /\ program # "echo"
    /\ \/ /\ Len(typed) < MaxLines
          /\ \E line \in Line :
                /\ typed' = Append(typed, MessageOf(line))
                /\ \/ program = "threads" /\ MainSends(MessageOf(line), "reading")
                   \/ program = "select" /\ StdinSends(MessageOf(line), "reading")
       \/ /\ UNCHANGED typed
          /\ \/ program = "threads" /\ MainSends(CloseMessage, "joining")
             \/ program = "select" /\ StdinSends(CloseMessage, "done")
    /\ UNCHANGED <<program, sending, receiving, peer, arriving, out, read>>

-----------------------------------------------------------------------------
(* client.rs *)

\* Mutant: the loop goes on after a close.
SendLoopGoesOn ==
    /\ program = "threads" /\ sending = "up" /\ channel # <<>>
    /\ channel' = Tail(channel)
    /\ \/ Puts(<<Head(channel)>>) /\ UNCHANGED sending
       \/ /\ peer = "gone"
          /\ Puts(<<>>) \/ (Head(channel).op # Close /\ Puts(<<CloseMessage>>))
          /\ sending' = "done"
    /\ UNCHANGED <<program, main, receiving, peer, arriving, typed, read>>

\* A close is the last message, whether it could be sent or not; when another
\* cannot be sent, a close is tried.
SendLoop ==
    /\ program = "threads" /\ sending = "up" /\ channel # <<>>
    /\ channel' = Tail(channel)
    /\ \/ /\ Puts(<<Head(channel)>>)
          /\ sending' = IF IsClose(Head(channel)) THEN "done" ELSE "up"
       \/ /\ peer = "gone"
          /\ Puts(<<>>) \/ (~IsClose(Head(channel)) /\ Puts(<<CloseMessage>>))
          /\ sending' = "done"
    /\ UNCHANGED <<program, main, receiving, peer, arriving, typed, read>>

\* tx_1.send: the send loop's half of the channel may be gone.
Passes(ms) == channel' = IF sending = "up" THEN channel \o ms ELSE channel

ReceiveLoop ==
    /\ program = "threads" /\ receiving = "up"
    /\ \/ \E m \in {Error, CloseMessage} \cup PeerMessages :
             /\ Arrives(m) /\ Takes
             /\ IF m = Error \/ IsClose(m)
                THEN Passes(<<CloseMessage>>) /\ receiving' = "done"
                ELSE /\ Passes(PongTo(m))
                     /\ receiving' = IF IsPing(m) /\ sending # "up" THEN "done" ELSE "up"
       \/ /\ AtEnd
          /\ Passes(<<CloseMessage>>) /\ receiving' = "done"
          /\ UNCHANGED <<arriving, read>>
    /\ UNCHANGED <<program, main, sending, peer, out, typed>>

-----------------------------------------------------------------------------
(* async-client.rs and ssl-client.rs *)

\* filter_map: a close is answered with the same close, and the stream goes on.
Answer(m) == IF IsClose(m) THEN <<m>> ELSE PongTo(m)

\* forward ends at the first error, of a message read or of one sent.
Forwards(ms) ==
    \/ Puts(ms) /\ UNCHANGED sending
    \/ ms # <<>> /\ peer = "gone" /\ Puts(<<>>) /\ sending' = "done"

RunnerReads ==
    /\ program = "select" /\ sending = "up" /\ receiving = "up"
    /\ \/ /\ Arrives(Error) /\ Takes
          /\ sending' = "done"
          /\ UNCHANGED <<receiving, out>>
       \/ \E m \in PeerMessages :
             /\ Arrives(m) /\ Takes
             /\ Forwards(Answer(m))
             /\ UNCHANGED receiving
       \/ /\ AtEnd
          /\ \/ receiving' = "done" /\ UNCHANGED sending
             \/ sending' = "done" /\ UNCHANGED receiving   \* in the middle of a frame
          /\ UNCHANGED <<arriving, read, out>>
    /\ UNCHANGED <<program, main, channel, peer, typed>>

RunnerTakesLine ==
    /\ program = "select" /\ sending = "up" /\ channel # <<>>
    /\ channel' = Tail(channel)
    /\ Forwards(<<Head(channel)>>)
    /\ UNCHANGED <<program, main, receiving, peer, arriving, typed, read>>

\* select ends when both of its streams have ended.
RunnerEnds ==
    /\ program = "select" /\ sending = "up"
    /\ receiving = "done" /\ main = "done" /\ channel = <<>>
    /\ sending' = "done"
    /\ UNCHANGED <<program, main, receiving, channel, peer, arriving, out, typed, read>>

-----------------------------------------------------------------------------
(* autobahn-client.rs *)

\* Mutant: the loop goes on after an error.
EchoLoopGoesOn ==
    /\ program = "echo" /\ receiving = "up"
    /\ \/ \E m \in {Error} \cup PeerMessages :
             /\ Arrives(m) /\ Takes
             /\ IF m = Error THEN Puts(<<CloseMessage>>) /\ UNCHANGED receiving
                ELSE IF IsClose(m) THEN Puts(<<CloseMessage>>) /\ receiving' = "done"
                ELSE Puts(IF IsData(m) THEN <<m>> ELSE PongTo(m)) /\ UNCHANGED receiving
       \/ AtEnd /\ UNCHANGED <<receiving, arriving, read, out>>
    /\ UNCHANGED <<program, main, sending, channel, peer, typed>>

\* An answer that cannot be sent is a panic; a close is sent or not, and is the last.
EchoLoop ==
    /\ program = "echo" /\ receiving = "up"
    /\ \/ \E m \in {Error} \cup PeerMessages :
             /\ Arrives(m) /\ Takes
             /\ IF m = Error \/ IsClose(m)
                THEN /\ Puts(<<CloseMessage>>) \/ (peer = "gone" /\ Puts(<<>>))
                     /\ receiving' = "done"
                ELSE LET ms == IF IsData(m) THEN <<m>> ELSE PongTo(m) IN
                     \/ Puts(ms) /\ UNCHANGED receiving
                     \/ ms # <<>> /\ peer = "gone" /\ Puts(<<>>) /\ receiving' = "done"
       \/ /\ AtEnd
          /\ Puts(<<CloseMessage>>) \/ Puts(<<>>)
          /\ receiving' = "done"
          /\ UNCHANGED <<arriving, read>>
    /\ UNCHANGED <<program, main, sending, channel, peer, typed>>

-----------------------------------------------------------------------------
Joins ==
    /\ main = "joining" /\ sending = "done" /\ receiving = "done"
    /\ main' = "done"
    /\ UNCHANGED <<program, sending, receiving, channel, peer, arriving, out, typed, read>>

\* The threads are joined; the task's end is the end of its program.
Exited == sending = "done" /\ (main = "done" \/ program = "select")

Next ==
    \/ PeerSends \/ PeerLeaves
    \/ Types
    \/ SendLoop \/ ReceiveLoop
    \/ RunnerReads \/ RunnerTakesLine \/ RunnerEnds
    \/ EchoLoop
    \/ Joins

Spec == Init /\ [][Next]_vars

\* Each thread and the task go on while they can, and the user types until the
\* program asks for no more lines, /close in the end: a program whose user stops typing
\* stays in the read of a line. The peer owes nothing.
FairSpec ==
    /\ Spec
    /\ WF_vars(Types)
    /\ WF_vars(SendLoop) /\ WF_vars(ReceiveLoop)
    /\ WF_vars(RunnerReads) /\ WF_vars(RunnerTakesLine) /\ WF_vars(RunnerEnds)
    /\ WF_vars(EchoLoop)
    /\ WF_vars(Joins)

-----------------------------------------------------------------------------
(* Properties *)

\* A close by its code alone, for its reason may come garbled.
Bare(m) == [m EXCEPT !.data = <<>>]

\* What the peer reads of the frames.
HeardOf(f) ==
    IF f.op = Close THEN Bare(MessageFrom(f.op, f.data)) ELSE OwnedFrom(<<f>>)
SentMessages == [i \in DOMAIN out |-> HeardOf(out[i])]

\* The pongs the peer is owed, each in the place of its ping.
Pongs == [i \in DOMAIN read |-> IF IsPing(read[i]) THEN PongMessage(read[i].data) ELSE Error]

\* The messages of these kinds among the first i.
Count(ms, kinds, i) == Cardinality({k \in 1..i : ms[k].op \in kinds})

\* The n-th message of these kinds in sent is the n-th of them in due: none comes
\* twice, none before an earlier one, and none that is not due.
InOrder(sent, due, kinds) ==
    \A i \in DOMAIN sent : sent[i].op \in kinds =>
        \E j \in DOMAIN due : due[j] = sent[i] /\ Count(due, kinds, j) = Count(sent, kinds, i)

\* In client.rs and autobahn-client.rs a close is the last frame there is, whoever of
\* the user, the peer, a refused frame and a failed send has asked for it, and
\* whatever else is in the channel by then.
NothingAfterClose ==
    program # "select" => \A i \in 1..(Len(out) - 1) : out[i].op # Close

\* What the peer reads of the frames: its pings are answered in order with their data,
\* none twice and none before an earlier one; so are the messages it sends to
\* autobahn-client.rs; what the user types comes in the order of the lines; and a close
\* is the program's own or has the code of one that was read.
AnswersInOrder ==
    /\ InOrder(SentMessages, Pongs, {Pong})
    /\ IF program = "echo" THEN InOrder(SentMessages, read, {Text, Binary})
       ELSE InOrder(SentMessages, typed, {Text, Ping})
    /\ \A i \in DOMAIN out : IsClose(SentMessages[i]) =>
          \E m \in {CloseMessage} \cup ToSet(read) : SentMessages[i] = Bare(m)

\* When the peer has gone, by itself or as the answer to a close, the program ends if
\* its user types on until it asks for no more lines: no thread is left waiting for
\* another, in a channel or in a join.
ProgramEnds == (peer = "gone") ~> Exited

=============================================================================
