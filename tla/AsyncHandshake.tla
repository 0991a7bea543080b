---------------------------- MODULE AsyncHandshake ----------------------------
(***************************************************************************)
(* The opening handshake of the asynchronous half: async_connect_on and    *)
(* validate of client/builder.rs against into_ws, accept, reject and drop  *)
(* of server/upgrade, over the two HTTP codecs of codec/http.rs in the     *)
(* Framed of tokio. Each side sends one head and then data; the bytes      *)
(* arrive in any pieces, so that the first data can come in the same read  *)
(* as the end of the head, and the Framed is then taken apart and rebuilt  *)
(* around a MessageCodec. Either end can be somebody else's program.       *)
(***************************************************************************)
EXTENDS Handshake, SequencesExt

CONSTANTS
    HeadLen,   \* bytes of a head, the last of which ends its blank line, and the first
               \* of which stands for the empty lines before it, if it has some
    MaxData    \* bound: data bytes sent by each side

ASSUME HandshakeAssumption == HeadLen \in Nat \ {0, 1} /\ MaxData \in Nat

VARIABLES
    foreign,  \* the sides that are not this crate's
    pc,       \* where each side is
    head,     \* the head each side sends
    out,      \* write_buf of each side's Framed
    net,      \* the bytes on their way to each side
    buf,      \* read_buf of each side's Framed
    sent,     \* how many data bytes each side has sent
    got,      \* the data bytes each side has received (a history)
    gone,     \* the sides that have closed the connection
    parsed    \* the request the error of into_ws carries

vars == <<foreign, pc, head, out, net, buf, sent, got, gone, parsed>>

HeadBytes == [k \in 1..HeadLen |-> [part |-> "head", k |-> k]]
DataByte(k) == [part |-> "data", k |-> k]

Init ==
    /\ foreign \in {{}, {"client"}, {"server"}}
    /\ pc = [s \in Side |-> IF s \in foreign THEN "foreign"
                            ELSE IF s = "client" THEN "start" ELSE "reading"]
    /\ head = [s \in Side |-> NoHead]
    /\ out = [s \in Side |-> <<>>] /\ net = out /\ buf = out /\ got = out
    /\ sent = [s \in Side |-> 0]
    /\ gone = {}
    /\ parsed = NoHead

-----------------------------------------------------------------------------
(* Framed, for either codec *)

\* send: the head is encoded into write_buf, which is then flushed.
Encode(s, h) ==
    /\ head' = [head EXCEPT ![s] = h]
    /\ out' = [out EXCEPT ![s] = HeadBytes]

\* The end of a side: the connection is closed, and what it had sent may be lost.
Close(s) ==
    /\ gone' = gone \cup {s}
    /\ \E n \in 0..Len(net[Peer[s]]) :
          net' = [net EXCEPT ![Peer[s]] = SubSeq(@, 1, n)]

\* Where each send goes on to when the last byte is out.
After == [sending |-> "waiting", accepting |-> "open", rejecting |-> "rejected"]

Flush(s, n) ==
    /\ pc[s] \in DOMAIN After
    /\ out' = [out EXCEPT ![s] = SubSeq(@, n + 1, Len(@))]
    /\ net' = [net EXCEPT ![Peer[s]] = @ \o SubSeq(out[s], 1, n)]
    /\ pc' = [pc EXCEPT ![s] = IF n = Len(out[s]) THEN After[@] ELSE @]
    /\ UNCHANGED <<foreign, head, buf, sent, got, gone, parsed>>

SendFails(s) ==
    /\ pc[s] \in DOMAIN After
    /\ Peer[s] \in gone
    /\ pc' = [pc EXCEPT ![s] = "failed"]
    /\ Close(s)
    /\ UNCHANGED <<foreign, head, out, buf, sent, got, parsed>>

\* The empty lines before a request are at the front of the buffer.
EmptyLinesFirst(s) ==
    s = "server" /\ head["client"] # NoHead /\ head["client"].led
        /\ buf[s] # <<>> /\ buf[s][1] = HeadBytes[1]

\* How far the head at the front of the buffer goes: it may have lost its empty lines.
Left(s) == IF buf[s][1] = HeadBytes[1] THEN HeadLen ELSE HeadLen - 1

\* The server's codec looks for the first blank line, whatever is before it. The
\* client's takes a head that does not parse for one that is not complete.
HasHead(s) ==
    /\ ~EmptyLinesFirst(s)
    /\ buf[s] # <<>> /\ Len(buf[s]) >= Left(s)
    /\ s = "client" => head["server"].parses

\* A server that is parked looks at what it has in its buffer when more comes in.
Awaits(s) == pc[s] \in {"waiting", "reading", "parked"}

\* Nothing more can be made of the buffer of a side that waits for a head.
Idle(s) ==
    \/ pc[s] \in {"waiting", "reading"} /\ ~EmptyLinesFirst(s) /\ ~HasHead(s)
    \/ pc[s] = "parked"

Read(s, n) ==
    /\ Idle(s) \/ pc[s] = "open"
    /\ buf' = [buf EXCEPT ![s] = @ \o SubSeq(net[s], 1, n)]
    /\ net' = [net EXCEPT ![s] = SubSeq(@, n + 1, Len(@))]
    /\ pc' = [pc EXCEPT ![s] = IF @ = "parked" THEN "reading" ELSE @]
    /\ UNCHANGED <<foreign, head, out, sent, got, gone, parsed>>

\* Mutant: the end of the stream is taken for an end only between two heads.
ReadCleanEof(s) ==
    /\ Idle(s) /\ ~HasHead(s)
    /\ net[s] = <<>> /\ buf[s] = <<>> /\ Peer[s] \in gone
    /\ pc' = [pc EXCEPT ![s] = IF s = "server" THEN "refused" ELSE "failed"]
    /\ IF s = "client" THEN Close(s) ELSE UNCHANGED <<net, gone>>
    /\ UNCHANGED <<foreign, head, out, buf, sent, got, parsed>>

\* The end of the stream before the end of the head. The error of the server
\* holds the stream; the client's drops it.
ReadEof(s) ==
    /\ Idle(s) /\ ~HasHead(s)
    /\ net[s] = <<>> /\ Peer[s] \in gone
    /\ pc' = [pc EXCEPT ![s] = IF s = "server" THEN "refused" ELSE "failed"]
    /\ IF s = "client" THEN Close(s) ELSE UNCHANGED <<net, gone>>
    /\ UNCHANGED <<foreign, head, out, buf, sent, got, parsed>>

\* At the end of the stream the codec is asked once more for what is in the buffer.
ParkedEof ==
    /\ pc["server"] = "parked" /\ HasHead("server")
    /\ net["server"] = <<>> /\ "client" \in gone
    /\ pc' = [pc EXCEPT !["server"] = "reading"]
    /\ UNCHANGED <<foreign, head, out, net, buf, sent, got, gone, parsed>>

\* Mutant: what was read behind the head is dropped with the old Framed.
DropReadBuf(s) == buf' = [buf EXCEPT ![s] = <<>>]

\* The head is split off; what was read behind it stays for the next codec.
SplitHead(s) == buf' = [buf EXCEPT ![s] = SubSeq(@, Left(s) + 1, Len(@))]

-----------------------------------------------------------------------------
(* The client *)

\* A value that to_str fails on panics in the encoder, before anything is sent.
AsyncConnectOn ==
    /\ pc["client"] = "start"
    /\ \/ /\ \E request \in BuiltRequests :
                request.version # Opaque /\ Encode("client", request)
          /\ pc' = [pc EXCEPT !["client"] = "sending"]
          /\ UNCHANGED <<net, gone>>
       \/ /\ \E request \in BuiltRequests : request.version = Opaque
          /\ pc' = [pc EXCEPT !["client"] = "panicked"]
          /\ Close("client")
          /\ UNCHANGED <<head, out>>
    /\ UNCHANGED <<foreign, buf, sent, got, parsed>>

ClientGetsResponse ==
    /\ pc["client"] = "waiting" /\ HasHead("client")
    /\ SplitHead("client")
    /\ IF Validate(head["server"], head["client"])
       THEN /\ pc' = [pc EXCEPT !["client"] = "open"]
            /\ UNCHANGED <<net, gone>>
       ELSE /\ pc' = [pc EXCEPT !["client"] =
                         IF BuilderPanics(head["server"], head["client"])
                         THEN "panicked" ELSE "failed"]
            /\ Close("client")
    /\ UNCHANGED <<foreign, head, out, sent, got, parsed>>

-----------------------------------------------------------------------------
(* The server *)

Panic(s) ==
    /\ pc' = [pc EXCEPT ![s] = "panicked"]
    /\ Close(s)

\* The codec takes the end of two empty lines for that of a head, splits them off, and
\* finds no request in them: it has nothing to give, and the rest of the buffer, a whole
\* request it may be, is left until the stream has more to read.
SkipsEmptyLines ==
    /\ pc["server"] = "reading" /\ EmptyLinesFirst("server")
    /\ buf' = [buf EXCEPT !["server"] = SubSeq(@, 2, Len(@))]
    /\ pc' = [pc EXCEPT !["server"] = "parked"]
    /\ UNCHANGED <<foreign, head, out, net, sent, got, gone, parsed>>

\* A request the server takes: the application is handed a WsUpgrade.
IntoWs ==
    /\ pc["server"] = "reading" /\ HasHead("server")
    /\ head["client"].parses /\ Valid(head["client"])
    /\ SplitHead("server")
    /\ pc' = [pc EXCEPT !["server"] = "upgraded"]
    /\ UNCHANGED <<foreign, head, out, net, sent, got, gone, parsed>>

\* Mutant: a request that does not parse waits for more, as the client does.
RefuseOnlyParsed ==
    /\ pc["server"] = "reading" /\ HasHead("server")
    /\ head["client"].parses
    /\ ~Valid(head["client"]) /\ ~ValidatePanics(head["client"])
    /\ SplitHead("server")
    /\ pc' = [pc EXCEPT !["server"] = "refused"]
    /\ parsed' = NoHead
    /\ UNCHANGED <<foreign, head, out, net, sent, got, gone>>

\* A head that does not parse or does not pass: it has been split off, and the
\* error carries None for the request.
RefuseRequest ==
    /\ pc["server"] = "reading" /\ HasHead("server")
    /\ head["client"].parses =>
          ~Valid(head["client"]) /\ ~ValidatePanics(head["client"])
    /\ SplitHead("server")
    /\ pc' = [pc EXCEPT !["server"] = "refused"]
    /\ parsed' = NoHead
    /\ UNCHANGED <<foreign, head, out, net, sent, got, gone>>

IntoWsPanics ==
    /\ pc["server"] = "reading" /\ HasHead("server")
    /\ head["client"].parses /\ ValidatePanics(head["client"])
    /\ SplitHead("server")
    /\ Panic("server")
    /\ UNCHANGED <<foreign, head, out, sent, got, parsed>>

\* accept and accept_with. A key that is not well formed passes validate, which
\* asks only for its presence, and is unwrapped here.
Accept(custom) ==
    /\ pc["server"] = "upgraded"
    /\ IF head["client"].key \in Keys
       THEN /\ Encode("server", PrepareHeaders(head["client"], custom))
            /\ pc' = [pc EXCEPT !["server"] = "accepting"]
            /\ UNCHANGED <<net, gone>>
       ELSE /\ Panic("server")
            /\ UNCHANGED <<head, out>>
    /\ UNCHANGED <<foreign, buf, sent, got, parsed>>

Reject ==
    /\ pc["server"] = "upgraded"
    /\ Encode("server", BadRequest)
    /\ pc' = [pc EXCEPT !["server"] = "rejecting"]
    /\ UNCHANGED <<foreign, net, buf, sent, got, gone, parsed>>

Drop ==
    /\ pc["server"] = "upgraded"
    /\ pc' = [pc EXCEPT !["server"] = "dropped"]
    /\ Close("server")
    /\ UNCHANGED <<foreign, head, out, buf, sent, got, parsed>>

\* The application's last word on the connection.
Decide == (\E custom \in SUBSET {"accept", "upgrade"} : Accept(custom)) \/ Reject \/ Drop

-----------------------------------------------------------------------------
(* After the handshake, and the other programs *)

SendsData(s) ==
    /\ pc[s] = "open" \/ (pc[s] = "foreign" /\ head[s] # NoHead)
    /\ s \notin gone
    /\ sent[s] < MaxData
    /\ sent' = [sent EXCEPT ![s] = @ + 1]
    /\ net' = [net EXCEPT ![Peer[s]] = Append(@, DataByte(sent[s] + 1))]
    /\ UNCHANGED <<foreign, pc, head, out, buf, got, gone, parsed>>

\* The MessageCodec takes what it decodes from the front of the buffer.
TakesData(s) ==
    /\ pc[s] = "open"
    /\ buf[s] # <<>>
    /\ got' = [got EXCEPT ![s] = Append(@, buf[s][1])]
    /\ buf' = [buf EXCEPT ![s] = Tail(@)]
    /\ UNCHANGED <<foreign, pc, head, out, net, sent, gone, parsed>>

\* A connection whose handshake has failed is closed by the one who was handed it.
GivesUp(s) ==
    /\ pc[s] \in {"refused", "rejected"}
    /\ s \notin gone
    /\ Close(s)
    /\ UNCHANGED <<foreign, pc, head, out, buf, sent, got, parsed>>

Leaves(s) ==
    /\ pc[s] \in {"open", "foreign"}
    /\ s \notin gone
    /\ Close(s)
    /\ pc' = [pc EXCEPT ![s] = IF @ = "open" THEN "closed" ELSE @]
    /\ UNCHANGED <<foreign, head, out, buf, sent, got, parsed>>

\* A foreign side sends its head, and does so whenever it likes.
ForeignHead(s) ==
    /\ pc[s] = "foreign" /\ s \notin gone
    /\ head[s] = NoHead
    /\ \E h \in IF s = "client" THEN ForeignRequests ELSE ForeignResponses :
          head' = [head EXCEPT ![s] = h]
    /\ net' = [net EXCEPT ![Peer[s]] = @ \o HeadBytes]
    /\ UNCHANGED <<foreign, pc, out, buf, sent, got, gone, parsed>>

-----------------------------------------------------------------------------
Works(s) ==
    \/ \E n \in 1..Len(out[s]) : Flush(s, n)
    \/ SendFails(s)
    \/ \E n \in 1..Len(net[s]) : Read(s, n)
    \/ ReadEof(s)
    \/ TakesData(s)

Handshake ==
    \/ AsyncConnectOn \/ ClientGetsResponse
    \/ SkipsEmptyLines \/ ParkedEof
    \/ IntoWs \/ RefuseRequest \/ IntoWsPanics
    \/ Decide

Next ==
    \/ \E s \in Side : Works(s) \/ SendsData(s) \/ GivesUp(s) \/ Leaves(s) \/ ForeignHead(s)
    \/ Handshake

Spec == Init /\ [][Next]_vars

\* The executor polls each task that can go on; the server's application decides
\* on each upgrade, and drops a connection it has not made into a client.
FairSpec ==
    /\ Spec
    /\ \A s \in Side : WF_vars(Works(s)) /\ WF_vars(GivesUp(s))
    /\ WF_vars(ClientGetsResponse)
    /\ WF_vars(SkipsEmptyLines \/ ParkedEof \/ IntoWs \/ RefuseRequest \/ IntoWsPanics)
    /\ WF_vars(Decide)

-----------------------------------------------------------------------------
(* Properties *)

\* Every byte that follows the head reaches the message codec, once and in order, and
\* nothing else does, however it came in: in the read that ended the head, or between
\* the Framed of the HTTP codec and that of the messages. Only a lost connection loses
\* any.
HandoverIsExact ==
    \A s \in Side \ (foreign \cup gone) :
        LET come == got[s] \o buf[s] \o net[s] IN
        \E h \in {0, HeadLen - 1, HeadLen} :   \* the bytes of the head before the data
            /\ pc[s] = "open" => h = 0
            /\ \A i \in DOMAIN come :
                  come[i] = IF i <= h THEN HeadBytes[HeadLen - h + i] ELSE DataByte(i - h)
            /\ Len(come) <= h + sent[Peer[s]]
            /\ sent[Peer[s]] > 0 /\ Peer[s] \notin gone => Len(come) = h + sent[Peer[s]]

\* Two ends of this crate agree: the client is open only if the server has
\* accepted this client's own request, with its key.
ClientOpenMeansAccepted ==
    foreign = {} /\ pc["client"] = "open" =>
        /\ pc["server"] \in {"open", "closed"}
        /\ Valid(head["client"])
        /\ head["server"].accept = head["client"].key

\* Neither end is left alone by the other's checks: an acceptance whose custom
\* headers shadow none of the required ones is never refused by this crate's client.
AcceptanceIsTaken ==
    foreign = {} /\ pc["server"] = "open" /\ pc["client"] \in {"failed", "panicked"} =>
        head["server"].accept = "custom" \/ head["server"].upgrade = {"h2c"}

\* Between two ends of this crate a client that starts a handshake ends it: it is
\* connected or has an error.
ClientSettles ==
    (foreign = {} /\ pc["client"] = "sending")
        ~> pc["client"] \in {"open", "closed", "failed", "panicked"}

\* Whoever the client is, a whole request is answered or refused, and the server does not
\* go on reading behind the end of its head, but for one that was already there when the
\* empty lines before it were split off: that is overlooked for as long as the client
\* sends nothing more and stays, although IntoWs promises a request or an error.
RequestSettled ==
    /\ Awaits("server") /\ HasHead("server")
    /\ pc["server"] = "parked" => net["server"] # <<>> \/ "client" \in gone
    ~> ~Awaits("server")

\* A side whose peer has gone does not wait for its head for ever.
EndIsNoticed ==
    \A s \in Side : (Peer[s] \in gone /\ Awaits(s)) ~> ~Awaits(s)

\* What InvalidConnection says in server/mod.rs: it is all the information that is
\* recovered from a failed handshake, for use as HTTP, with the parsed request, a
\* normal HTTP request, in it. The code breaks it: the request that validate
\* refuses is dropped, and its bytes are no longer in the buffer.
RefusedRequestIsReturned ==
    pc["server"] = "refused" /\ head["client"].parses /\ Peer["server"] \notin gone =>
        \/ parsed = head["client"]
        \/ IsPrefix(HeadBytes, buf["server"])

=============================================================================
