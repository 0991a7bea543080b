--------------------------- MODULE BlockingHandshake ---------------------------
(***************************************************************************)
(* The opening handshake of the blocking half, line by line: connect_on of *)
(* client/builder.rs and into_ws, accept and reject of                     *)
(* server/upgrade/sync.rs, with the BufReader each reads through and the   *)
(* Client it is handed to (client/sync.rs), which can be split or turned   *)
(* back into its stream. Both ends write their headers as Rust's debug     *)
(* output, in one line and with no blank line behind it. Either end can be *)
(* somebody else's program, which writes HTTP.                             *)
(***************************************************************************)
EXTENDS Handshake, SequencesExt

CONSTANT MaxData   \* bound: data bytes sent by each side

ASSUME DataAssumption == MaxData \in Nat

VARIABLES
    foreign,  \* the sides that are not this crate's
    route,    \* the server's stream is upgraded itself, or with a request read from it
    pc,       \* where each side is
    head,     \* the head each side sends
    out,      \* the lines each side has yet to write
    net,      \* the lines and data on their way to each side
    ahead,    \* what each side's BufReader has read and not given out
    text,     \* the lines connect_on has read
    parts,    \* what each side's Client has been taken apart into
    sent,     \* how many data bytes each side has sent
    got,      \* the data bytes each side has received (a history)
    gone      \* the sides that have closed the connection

link == <<net, ahead, gone>>
data == <<parts, sent, got>>
openingVars == <<foreign, route, pc, head, out, net, ahead, text, parts, sent, got, gone>>

\* A line by its part in a head. All end in CRLF but "bare", which is a lone LF;
\* "opaque" is one that is not UTF-8, or not where the last four bytes begin;
\* "debug" is a HeaderMap in debug form. "begin" is a piece of a line whose end is yet
\* to come, with the next line or never.
Line(part)  == [part |-> part, k |-> 0]
DataByte(k) == [part |-> "data", k |-> k]
WholeHead   == <<Line("start"), Line("header"), Line("blank")>>
DebugHead   == <<Line("start"), Line("debug")>>
ForeignHeads ==
    {WholeHead,
     <<Line("start"), Line("header"), Line("bare")>>,
     <<Line("start"), Line("opaque"), Line("blank")>>,
     <<Line("blank")>> \o WholeHead}

\* What httparse takes for the whole of a head.
Complete(lines) ==
    /\ Len(lines) >= 2
    /\ lines[1] = Line("start") /\ Last(lines) = Line("blank")
    /\ \A i \in 2..(Len(lines) - 1) : lines[i] = Line("header")

OpeningInit ==
    /\ foreign \in {{}, {"client"}, {"server"}}
    /\ route \in IF "server" \in foreign THEN {"stream"} ELSE {"stream", "pair"}
    /\ pc = [s \in Side |-> IF s \in foreign THEN "foreign"
                            ELSE IF s = "client" THEN "start" ELSE "reading"]
    /\ head = [s \in Side |-> NoHead]
    /\ out = [s \in Side |-> <<>>] /\ net = out /\ ahead = out /\ got = out
    /\ text = <<>>
    /\ parts = [s \in Side |-> "client"]
    /\ sent = [s \in Side |-> 0]
    /\ gone = {}

-----------------------------------------------------------------------------
(* Streams *)

\* The end of a side: what it had sent may be lost, and what it had read is.
Close(s) ==
    /\ gone' = gone \cup {s}
    /\ \E n \in 0..Len(net[Peer[s]]) :
          net' = [net EXCEPT ![Peer[s]] = SubSeq(@, 1, n)]
    /\ ahead' = [ahead EXCEPT ![s] = <<>>]

Enter(s, where) == pc' = [pc EXCEPT ![s] = where]

Panic(s) == Enter(s, "panicked") /\ Close(s)

After == [sending |-> "awaiting", accepting |-> "open", rejecting |-> "rejected"]

\* Each write! of a head is one line; the last one ends the call.
WriteLine(s) ==
    /\ pc[s] \in DOMAIN After
    /\ out' = [out EXCEPT ![s] = Tail(@)]
    /\ net' = [net EXCEPT ![Peer[s]] = Append(@, out[s][1])]
    /\ Enter(s, IF Len(out[s]) = 1 THEN After[pc[s]] ELSE pc[s])
    /\ UNCHANGED <<foreign, route, head, ahead, text, gone, data>>

\* The errors of accept and reject hold the stream, that of connect_on drops it.
WriteFails(s) ==
    /\ pc[s] \in DOMAIN After
    /\ Peer[s] \in gone
    /\ IF s = "client"
       THEN Enter(s, "failed") /\ Close(s)
       ELSE Enter(s, "refused") /\ UNCHANGED link
    /\ UNCHANGED <<foreign, route, head, out, text, data>>

\* A BufReader asks its stream for more only when it has nothing left.
Buffered(s) ==
    \/ pc[s] = "awaiting"
    \/ pc[s] = "reading" /\ route = "stream"
    \/ pc[s] = "open" /\ parts[s] # "stream"

FillBuf(s, n) ==
    /\ Buffered(s) /\ ahead[s] = <<>>
    /\ ahead' = [ahead EXCEPT ![s] = SubSeq(net[s], 1, n)]
    /\ net' = [net EXCEPT ![s] = SubSeq(@, n + 1, Len(@))]
    /\ UNCHANGED <<foreign, route, pc, head, out, text, gone, data>>

AtEnd(s) == ahead[s] = <<>> /\ net[s] = <<>> /\ Peer[s] \in gone

-----------------------------------------------------------------------------
(* connect_on *)

ConnectOn ==
    /\ pc["client"] = "start"
    /\ \E request \in BuiltRequests : head' = [head EXCEPT !["client"] = request]
    /\ out' = [out EXCEPT !["client"] = DebugHead]
    /\ Enter("client", "sending")
    /\ UNCHANGED <<foreign, route, text, link, data>>

\* Mutant: a head ends only with its second blank line.
EndsLate(lines) ==
    Len(lines) >= 2 /\ Last(lines) = Line("blank") /\ lines[Len(lines) - 1] = Line("blank")

\* Whether the last four bytes are CRLF CRLF.
Ends(lines) ==
    Len(lines) >= 2 /\ Last(lines) = Line("blank") /\ lines[Len(lines) - 1] # Line("bare")

\* Fewer than four bytes: the index of the fourth from the end underflows.
Short(lines) == lines \in {<<>>, <<Line("blank")>>, <<Line("bare")>>}

Readable(line) == line.part \notin {"opaque", "data"}

\* One turn of the loop.
ReadLine ==
    LET lines == Append(text, ahead["client"][1]) IN
    /\ pc["client"] = "awaiting" /\ ahead["client"] # <<>>
    /\ Readable(ahead["client"][1]) /\ ~Short(lines)
    /\ text' = lines
    /\ ahead' = [ahead EXCEPT !["client"] = Tail(@)]
    /\ Enter("client", IF Ends(lines) THEN "parsing" ELSE "awaiting")
    /\ UNCHANGED <<foreign, route, head, out, net, gone, data>>

\* read_line is unwrapped, and the slice is taken whatever its length.
ReadLinePanics ==
    /\ pc["client"] = "awaiting" /\ ahead["client"] # <<>>
    /\ ~Readable(ahead["client"][1]) \/ Short(Append(text, ahead["client"][1]))
    /\ Panic("client")
    /\ UNCHANGED <<foreign, route, head, out, text, data>>

\* The end of the stream is an empty line to read_line, again and again: the loop
\* goes on for ever over the same text. A reset is an error, which is unwrapped.
ReadAtEnd ==
    /\ pc["client"] = "awaiting" /\ AtEnd("client")
    /\ \/ ~Short(text) /\ Enter("client", "spinning") /\ UNCHANGED link
       \/ Panic("client")
    /\ UNCHANGED <<foreign, route, head, out, text, data>>

\* Mutant: the Client starts with a new BufReader, as the server's does.
OpenWithNewReader ==
    /\ pc["client"] = "parsing"
    /\ Complete(text) /\ head["server"].parses
    /\ Validate(head["server"], head["client"])
    /\ Enter("client", "open")
    /\ ahead' = [ahead EXCEPT !["client"] = <<>>]
    /\ UNCHANGED <<foreign, route, head, out, text, net, gone, data>>

\* The response is taken: the Client is handed the BufReader as it is.
ResponseTaken ==
    /\ pc["client"] = "parsing"
    /\ Complete(text) /\ head["server"].parses
    /\ Validate(head["server"], head["client"])
    /\ Enter("client", "open")
    /\ UNCHANGED <<foreign, route, head, out, text, link, data>>

ResponseRefused ==
    LET whole == Complete(text) /\ head["server"].parses IN
    /\ pc["client"] = "parsing"
    /\ whole => ~Validate(head["server"], head["client"])
    /\ IF whole /\ BuilderPanics(head["server"], head["client"])
       THEN Panic("client")
       ELSE Enter("client", "failed") /\ Close("client")
    /\ UNCHANGED <<foreign, route, head, out, text, data>>

-----------------------------------------------------------------------------
(* into_ws, accept and reject *)

\* Mutant: the request is waited for up to its blank line.
IntoWsWaits ==
    /\ pc["server"] = "reading" /\ route = "stream"
    /\ Line("blank") \in ToSet(ahead["server"]) \/ AtEnd("server")
    /\ ahead' = [ahead EXCEPT !["server"] = <<>>]
    /\ Enter("server", "refused")
    /\ UNCHANGED <<foreign, route, head, out, text, net, gone, data>>

\* into_ws on a stream: read_line takes what there is of a line, and waits for its end.
ReadsBegin ==
    /\ pc["server"] = "reading" /\ route = "stream"
    /\ ahead["server"] # <<>> /\ ahead["server"][1] = Line("begin")
    /\ ahead' = [ahead EXCEPT !["server"] = Tail(@)]
    /\ UNCHANGED <<foreign, route, pc, head, out, net, text, gone, data>>

\* One line is read, or what there is of it when the stream ends, with no look at
\* whether the read failed, and the BufReader is dropped with the rest of what it holds.
\* One line is never a whole request, so there is no way on from here.
IntoWs ==
    /\ pc["server"] = "reading" /\ route = "stream"
    /\ \/ ahead["server"] # <<>> /\ ahead["server"][1] # Line("begin")
       \/ AtEnd("server")
    /\ ~Complete(IF AtEnd("server") THEN <<>> ELSE <<ahead["server"][1]>>)
    /\ ahead' = [ahead EXCEPT !["server"] = <<>>]
    /\ Enter("server", "refused")
    /\ UNCHANGED <<foreign, route, head, out, text, net, gone, data>>

\* An application that reads requests itself, up to the blank line and no further.
AppReads ==
    /\ pc["server"] = "reading" /\ route = "pair"
    /\ IsPrefix(WholeHead, net["server"]) /\ head["client"].parses
    /\ net' = [net EXCEPT !["server"] = SubSeq(@, 4, Len(@))]
    /\ Enter("server", "paired")
    /\ UNCHANGED <<foreign, route, head, out, ahead, text, gone, data>>

AppGivesUp ==
    /\ pc["server"] = "reading" /\ route = "pair"
    /\ Enter("server", "refused")
    /\ UNCHANGED <<foreign, route, head, out, text, link, data>>

\* into_ws on a RequestStreamPair: the request is checked, and handed back if it
\* does not pass.
PairIntoWs ==
    /\ pc["server"] = "paired"
    /\ ~ValidatePanics(head["client"])
    /\ Enter("server", IF Valid(head["client"]) THEN "upgraded" ELSE "refused")
    /\ UNCHANGED <<foreign, route, head, out, text, link, data>>

PairPanics ==
    /\ pc["server"] = "paired"
    /\ ValidatePanics(head["client"])
    /\ Panic("server")
    /\ UNCHANGED <<foreign, route, head, out, text, data>>

Answer(response, where) ==
    /\ pc["server"] = "upgraded"
    /\ head' = [head EXCEPT !["server"] = response]
    /\ out' = [out EXCEPT !["server"] = DebugHead]
    /\ Enter("server", where)
    /\ UNCHANGED <<foreign, route, text, link, data>>

\* The Client starts with a new BufReader: nothing has been read through another.
Accept ==
    /\ pc["server"] = "upgraded" /\ head["client"].key \in Keys
    /\ Answer(PrepareHeaders(head["client"], {}), "accepting")

AcceptPanics ==
    /\ pc["server"] = "upgraded" /\ head["client"].key \notin Keys
    /\ Panic("server")
    /\ UNCHANGED <<foreign, route, head, out, text, data>>

Reject == Answer(BadRequest, "rejecting")

Drop ==
    /\ pc["server"] = "upgraded"
    /\ Enter("server", "dropped") /\ Close("server")
    /\ UNCHANGED <<foreign, route, head, out, text, data>>

-----------------------------------------------------------------------------
(* The Client, and the other programs *)

SendsData(s) ==
    /\ pc[s] = "open" \/ (pc[s] = "foreign" /\ head[s] # NoHead)
    /\ s \notin gone
    /\ sent[s] < MaxData
    /\ sent' = [sent EXCEPT ![s] = @ + 1]
    /\ net' = [net EXCEPT ![Peer[s]] = Append(@, DataByte(sent[s] + 1))]
    /\ UNCHANGED <<foreign, route, pc, head, out, ahead, text, parts, got, gone>>

\* The Receiver reads through the BufReader.
TakesData(s) ==
    /\ pc[s] = "open" /\ parts[s] # "stream" /\ ahead[s] # <<>>
    /\ got' = [got EXCEPT ![s] = Append(@, ahead[s][1])]
    /\ ahead' = [ahead EXCEPT ![s] = Tail(@)]
    /\ UNCHANGED <<foreign, route, pc, head, out, net, text, parts, sent, gone>>

\* The caller of into_stream reads the stream itself.
TakesRaw(s) ==
    /\ pc[s] = "open" /\ parts[s] = "stream" /\ net[s] # <<>>
    /\ got' = [got EXCEPT ![s] = Append(@, net[s][1])]
    /\ net' = [net EXCEPT ![s] = Tail(@)]
    /\ UNCHANGED <<foreign, route, pc, head, out, ahead, text, parts, sent, gone>>

\* split and into_stream: the BufReader is dropped with what it holds.
TakeApart(s) ==
    /\ pc[s] = "open" /\ parts[s] = "client"
    /\ \E into \in {"split", "stream"} : parts' = [parts EXCEPT ![s] = into]
    /\ ahead' = [ahead EXCEPT ![s] = <<>>]
    /\ UNCHANGED <<foreign, route, pc, head, out, net, text, sent, got, gone>>

\* The Client is dropped; so it is by a split whose try_clone fails.
Leaves(s) ==
    /\ pc[s] \in {"open", "foreign"}
    /\ s \notin gone
    /\ Close(s)
    /\ Enter(s, IF pc[s] = "open" THEN "closed" ELSE "foreign")
    /\ UNCHANGED <<foreign, route, head, out, text, data>>

\* A connection whose handshake has failed is closed by the one who was handed it.
GivesUp ==
    /\ pc["server"] \in {"refused", "rejected"}
    /\ "server" \notin gone
    /\ Close("server")
    /\ UNCHANGED <<foreign, route, pc, head, out, text, data>>

\* A foreign client sends a piece of the first line of its request, which is all that
\* into_ws looks at.
ForeignBegins ==
    /\ pc["client"] = "foreign" /\ "client" \notin gone
    /\ head["client"] = NoHead /\ route = "stream"
    /\ Line("begin") \notin ToSet(ahead["server"] \o net["server"])
    /\ net' = [net EXCEPT !["server"] = Append(@, Line("begin"))]
    /\ UNCHANGED <<foreign, route, pc, head, out, ahead, text, gone, data>>

\* A foreign side sends its head, or the rest of it, and does so whenever it likes.
ForeignHead(s) ==
    /\ pc[s] = "foreign" /\ s \notin gone
    /\ head[s] = NoHead
    /\ \E h \in IF s = "client" THEN {r \in ForeignRequests : ~r.led} ELSE ForeignResponses :
          head' = [head EXCEPT ![s] = h]
    /\ \E lines \in IF s = "client" THEN {WholeHead} ELSE ForeignHeads :
          net' = [net EXCEPT ![Peer[s]] = @ \o lines]
    /\ UNCHANGED <<foreign, route, pc, out, ahead, text, gone, data>>

-----------------------------------------------------------------------------
Fills(s) == \E n \in 1..Len(net[s]) : FillBuf(s, n)

Writes(s) == WriteLine(s) \/ WriteFails(s)

Client ==
    \/ ConnectOn
    \/ ReadLine \/ ReadLinePanics \/ ReadAtEnd
    \/ ResponseTaken \/ ResponseRefused

Server ==
    \/ ReadsBegin \/ IntoWs
    \/ AppReads \/ AppGivesUp \/ PairIntoWs \/ PairPanics
    \/ Accept \/ AcceptPanics \/ Reject \/ Drop

OpeningNext ==
    \/ Client \/ Server \/ GivesUp \/ ForeignBegins
    \/ \E s \in Side :
          \/ Fills(s) \/ Writes(s)
          \/ SendsData(s) \/ TakesData(s) \/ TakesRaw(s) \/ TakeApart(s)
          \/ Leaves(s) \/ ForeignHead(s)

OpeningSpec == OpeningInit /\ [][OpeningNext]_openingVars

\* The operating system runs each thread: a call that can go on does.
FairSpec ==
    /\ OpeningSpec
    /\ \A s \in Side : WF_openingVars(Fills(s)) /\ WF_openingVars(Writes(s))
    /\ WF_openingVars(ReadLine \/ ReadLinePanics \/ ReadAtEnd)
    /\ WF_openingVars(ResponseTaken \/ ResponseRefused)
    /\ WF_openingVars(ReadsBegin \/ IntoWs)

-----------------------------------------------------------------------------
(* Properties *)

DataSent(s) == [k \in 1..sent[s] |-> DataByte(k)]

\* What a Client receives, until it is taken apart, is what its peer has sent behind
\* the head, from the first byte on and in order, with no line of the head before
\* it, whatever the BufReader of the handshake had read ahead.
DataFollowsHead ==
    \A s \in Side :
        pc[s] = "open" /\ parts[s] = "client" =>
            LET all == got[s] \o ahead[s] \o net[s] IN
            /\ IsPrefix(all, DataSent(Peer[s]))
            /\ Peer[s] \notin gone => all = DataSent(Peer[s])

\* A whole head with CRLF line ends has come, or is coming, to connect_on.
ResponseHere == IsPrefix(WholeHead, text \o ahead["client"] \o net["client"])

\* connect_on comes back, in one way or another, from every response whose lines
\* end in CRLF, unless the end of the stream cuts it: the loop neither misses the
\* blank line nor begins to spin.
ConnectReturns ==
    (pc["client"] = "awaiting" /\ ResponseHere)
        ~> (pc["client"] \notin {"awaiting", "parsing", "spinning"} \/ ~ResponseHere)

\* The end of a line has come, or is coming, to into_ws.
LineHere == \E piece \in ToSet(ahead["server"] \o net["server"]) : piece # Line("begin")

\* into_ws waits for no more than the first line, in whatever pieces it comes: it comes
\* back from the end of a line, and from a peer that has left in the middle of one. A peer
\* that stays silent before the end of its first line holds it up for ever.
IntoWsReturns ==
    (pc["server"] = "reading" /\ route = "stream" /\ (LineHere \/ "client" \in gone))
        ~> pc["server"] # "reading"

\* What AcceptResult in server/sync.rs says: that the stream was established and has
\* sent a WebSocket handshake is the Ok of accept. The code breaks it: into_ws reads
\* one line of the request.
HandshakeIsOk ==
    /\ pc["server"] = "refused" /\ route = "stream"
    /\ foreign = {"client"} /\ gone = {}
    => ~(head["client"].parses /\ Valid(head["client"]))

=============================================================================
