# A formal model of rust-websocket

TLA+ models of the `websocket` crate, model-checked with TLC, with theorems
proved by TLAPS. Paths below are relative to the repository's root. `PROJECT.json`
maps every definition that models code to the lines it stands for.

- [Inventory](#inventory)
- [Modules](#modules)
- [Runs](#runs)
- [Fairness](#fairness)
- [Theorems](#theorems)
- [Disagreements between code and docs](#disagreements-between-code-and-docs)
- [What the models assume and leave out](#what-the-models-assume-and-leave-out)
- [Plan](#plan)

## Inventory

The crate is a WebSocket library with two halves built on the same data frames: a
blocking one over `Read`/`Write`, and an asynchronous one over tokio's `Framed`.

| component | code | state | operations | what is hard | what makes it correct |
|---|---|---|---|---|---|
| Frames and messages | `src/dataframe.rs`, `src/message.rs`, `src/ws/util/header.rs`, `src/ws/dataframe.rs` | none | `read_header`, `read_dataframe_body`, `from_dataframes`, `write_header`, `frame_size`; making, converting and writing messages | three length forms, rules checked in a fixed order, an error before or after the rest of the frame is read | what is refused leaves the stream where the next frame begins, or says it does not |
| Blocking receiver | `src/receiver.rs`, `src/ws/receiver.rs` | `buffer`: fragments of the message in progress | `recv_message`, `recv_dataframe`, the two iterators, `set_nonblocking` | fragments and control frames interleave; a read fails in the middle of a frame; raw reads go past the buffer | every frame is in one result or in the buffer; messages come whole |
| Asynchronous codec | `src/codec/ws.rs` | `buffer`; `src` in `Framed` | `decode`, `encode` | bytes cut anywhere; end of file; errors that leave `src` untouched | same results as the blocking receiver; never parks on work; never ends quietly inside a frame |
| Sending | `src/ws/dataframe.rs`, `src/ws/util/mask.rs`, `src/sender.rs`, `src/ws/sender.rs` | bytes of the frame already out; the mask's key | `write_to`, `Masker::write`, `encode` | short writes, failing writes, a buffer with no room, a payload in several writes | `Ok` means a whole frame; the peer unmasks what was sent |
| HTTP codecs | `src/codec/http.rs` | `Framed`'s buffers | `encode`, `decode` of both sides | a head and data in one read; heads that do not parse | one head is split off, nothing behind it is lost, and a head that is there is seen |
| Client builder | `src/client/builder.rs` | the URL, the headers, whether key and version were set | `add_protocols`, `key`, `version`, `origin`, `custom_headers`, their opposites, `clone`; the eight ways to connect | required, custom and left-over headers meet in one map; a builder is used again or cloned | keys are fresh; requests are valid whatever was set; the port dialled, TLS and Host agree |
| Client handshake | `src/client/builder.rs` | the stream and what is buffered of it | `build_request`, `connect_on`, `async_connect_on`, `validate` | the end of the response, the handover to the message codec | the client is open only on an acceptance of its own request |
| Server handshake | `src/server/upgrade/` | `WsUpgrade`: request, headers, buffer | `into_ws`, `validate`, `accept`, `reject`, `drop` | bytes behind the request; custom headers; errors that hand the stream back | as above, and nothing taken from the stream is lost |
| Accept loop | `src/server/{mod,sync,async}.rs` | the listening socket, shared by its handles; `O_NONBLOCK` | `accept`, `incoming`, `try_clone`, `set_nonblocking`, `into_async` | one handshake at a time on each handle | nobody is refused for nothing; a bad connection does not end the loop; whoever speaks is answered |
| Client facade | `src/client/{sync,async}.rs`, `src/stream.rs` | `BufReader`, sender, receiver | `split`, `into_stream`, `shutdown*`, forwarding | what the `BufReader` has read ahead | no byte read ahead is lost |
| Typed headers | `src/header/` | none | parse and format protocols, extensions, host, version, key, accept | names with separators in them, lists that are empty | each end reads what the other wrote (it does not, see below) |
| Errors | `src/result.rs` | none | conversions | an `io::Error` that means want of bytes | |
| Example clients | `examples/{client,async-client,ssl-client,autobahn-client}.rs` | a channel, two threads or a task | typing, answering pings and closes, echoing | threads that wait for each other, closes from several sides | a close is the last frame; pings are answered in order; the program ends |
| Example servers | `examples/` | | | | not modelled, see below |
| TLS and TCP | `src/stream.rs` | none | thin wrappers | | not modelled: outside the repository |

How they interact. A connection begins with the handshake, which owns the
stream. When it succeeds, the stream and what has been read ahead of it are
handed to a `Client` (blocking: a `BufReader`, a `Sender` and a `Receiver`) or to a
`Framed` with a `MessageCodec` (asynchronous). From then on the two directions are
independent: the receiving side turns bytes into frames and frames into
messages, the sending side turns a message into one frame of bytes. Nothing in the
crate answers a ping or a close: that is left to the application, and the example
clients show how it is meant to be done. On a server the
accept loop comes first: it takes a connection off the listening socket and stays
with it until the request has been read, and hands the application a `WsUpgrade` to
accept, reject or drop.

Concurrency is between the endpoint, its peer and the network, and between the
handles on one listening socket; in the example clients it is between the threads or
streams that share one connection. A `Receiver` and a `Sender` are used through
`&mut`, so no two calls on one of them overlap.

`PROJECT.json` lists the hazards of this code line by line with the properties
that cover each, or the reason none does yet.

## Modules

```
Dataframe            frames, header rules, masking rule, from_dataframes: pure operators
  MessageStream      what receiving promises: frames in, results out
    Receiver         the blocking side, read by read     implements MessageStream
    MessageCodec     the asynchronous side under Framed  implements MessageStream
  Messages           Message and OwnedMessage: pure operators
    Session          the example clients, over whole messages
  FrameWriter        write_to, Masker, Sender, encode
Handshake            heads, validate on both sides, prepare_headers: pure operators
  AsyncHandshake     both ends of the asynchronous opening handshake
  BlockingHandshake  both ends of the blocking one, and the Client's BufReader
  AcceptLoop         accept and incoming on a shared listening socket
  ClientBuilder      configuring, cloning, dialling, building requests; with
HeaderValues         header maps and the crate's own headers in them: pure operators
MessageStreamProofs  theorems about MessageStream, lemmas about the bytes of frames
MessageCodecProofs, ReceiverProofs      theorems of both sides: they implement MessageStream
FrameWriterProofs, AcceptLoopProofs,
AsyncHandshakeProofs, SessionProofs     theorems about the modules of these names
ConnectProofs        theorems about ClientBuilder and BlockingHandshake
MC*                  constants for TLC
```

**Dataframe.** A frame is a record of its header bits, the form its length is
written in, and its payload. `HeaderFault` follows the order of the checks in
`read_header`, `MaskFault` is `read_dataframe_body`, `FromDataframes` is
`Message::from_dataframes`, with its UTF-8, opcode and close-payload checks in
`Assemble`. A payload byte is one of three kinds, because only the UTF-8 checks
look at payload: a character of one byte, and the first and second byte of a
character of two. The limits 125 and 65535 are the constants `MaxShort` and
`MaxMedium`, so that TLC meets all three length forms with a few bytes and the
proofs hold for any limits.

**MessageStream** is the abstract specification. Its state is the list of frames
the peer has sent (`wire`), how many have been taken (`consumed`), the fragments
of the message in progress (`buffer`, as `Receiver::buffer` and
`MessageCodec::buffer`) and the history of what calls have returned
(`results`). There is one action for each way a frame is treated: `WrongMask`,
`OrphanContinuation`, `UnexpectedDataFrame`, `ControlFrame`, `Fragment`,
`FinishMessage`, `BadHeader`; `RawFrame` for one that `recv_dataframe` hands over past the
message in progress; and `Interrupted` for a call that ends for want of bytes. A result
that leaves part of a frame unread is marked `cut`; what later calls return is then
`Unspecified`.

**Receiver** refines that to the single reads of `read_header` and
`read_dataframe`: two header bytes, the extended length, the key, the payload
(`pc` is the read the call is at). The bytes of `wire` travel through `net` (not yet
arrived) and `stream` (arrived). A read waits, gets what it asks for, or fails and
loses what it had taken: because the peer is gone, or, once `SetNonblocking` has
been taken, because not enough has arrived. A call is one of `recv_message` or, when
`raw`, of `recv_dataframe`. `FirstFrame` and `NextFrame` are the two branches
of `recv_message_dataframes`, which refuse different things.

**MessageCodec** refines the same specification to `decode` over `src`. `Framed`
itself is external: it reads what has arrived, decodes until it is asked for
more, parks until the socket is readable, and calls `decode_eof` at the end. Its
contract is the actions `ReadSocket`, `ReadEof` and `DecodeEof` and the flag
`readable`.

**Messages** holds the two types of `message.rs`: an opcode, the two bytes of a close
code or none, and the data. `Owned` is the conversion to `OwnedMessage`, which replaces
bytes that are not text; `FrameOf` is a message as its own data frame; `OwnedFrom` reads one
back. **Session** runs the client programs of `examples/` over them: `program` chooses the
threads of `client.rs`, the task of `async-client.rs` and `ssl-client.rs`, or the loop of
`autobahn-client.rs`. `main`, `sending` and `receiving` say how far each thread or stream is,
`channel` is what is between them, `out` the frames sent. The peer is any program: it
sends messages, frames that are refused (`Error`), or goes at any time, and a send that
fails puts nothing out. A send is masked: `Puts` leaves a close that has a code and a reason with
any reason of the same length, for the `Masker` garbles it (see FrameWriter).

**FrameWriter** sends one message after another: header bytes, extended length,
key, status code and payload are the pieces of a frame, each through
`write_all`, into a socket that takes any part of a write or fails, or into the
buffer in which `encode` has reserved `frame_size` bytes (`sink`, chosen in the
initial state). Every byte put out
remembers where its write call began, which is where the `Masker` starts its key.

**Handshake** holds what the two handshakes share: a head is a record of what
`validate` (server) and `ClientBuilder::validate` look at. `Upgrade` and `Connection` are
lists to the server, hence sets here; the client compares `Upgrade` with one word.
`Valid` and `ValidatePanics`
are the server's checks, `Validate` the client's, `PrepareHeaders` its response.

**ClientBuilder** is the life of a builder before and around a handshake, with a clone:
`Configuring` has one action for each configuring call, `Connect` the eight ways to
connect, each then a line of `conns` that goes through `Dialled`, `Secured`, `SendRequest`
(`Build` is `build_request`) and `Validates`. The scheme of the URL, its port and the call
come together in three places, each of which has its operator: `Wraps` (connect's test of the
scheme), `Port` (`extract_host_port`, over the port the url crate leaves) and `HostText`
(`build_request`). A blocking connect borrows the builder and
leaves the headers of its request in it; an asynchronous one consumes it, so two can be under
way with a clone, and its encoder panics on a header value that is not visible ASCII
(`Unreadable`). The header maps are those of the `http` crate: `Insert`
replaces, `Add` appends, `Extend` replaces by name. A text is the sequence of the words
between its separators (**HeaderValues**). The server is this crate's `WsUpgrade` (`Prepare`)
or any other.

**AsyncHandshake** composes `async_connect_on` with `into_ws`/`accept`/`reject`/
`drop`, each over a `Framed` (`out` and `buf` are `write_buf` and `read_buf`), and the
network between them. `foreign` chooses, in the initial state, whether both ends
are this crate's or one is some other program, which sends any head of a given
set whenever it likes, and data behind it. On the wire a head is `HeadLen`
bytes, the last of which ends the blank line and the first of which stands for the empty
lines before a request that has some (`led`). The two codecs treat a head that does not
parse differently: the client's waits for more, the server's refuses it (`RefuseRequest`), but
for two empty lines, which it takes for a head, splits off and then has nothing to give
(`SkipsEmptyLines`); `Framed` then does not look at the buffer again until more is read
(`parked`, `Idle`, `ParkedEof`). `SplitHead` is the step at
which a byte can be lost or taken twice. After the handshake, `SendsData` and
`TakesData` stand for FrameWriter and MessageCodec, byte by byte.

**BlockingHandshake** is the blocking half, whose unit is the line. `connect_on`
and `WsUpgrade::send` write two of them: the first line of the head, and the
headers in Rust's debug form with no blank line behind (`DebugHead`). `ReadLine` is
one turn of the loop of `connect_on`, `Ends` its test of the last four bytes,
`Complete` what httparse takes for a whole head. A line knows what the code tells
apart: that it is blank, that it ends in a lone LF (`bare`), that `read_line` or the
slice panics on it (`opaque`), that its end is yet to come (`begin`). `ReadsBegin` and `IntoWs`
read one line of a stream, in the pieces it comes in; `PairIntoWs` is the
way through a `RequestStreamPair`, whose request the application has read (`route`).
`ahead` is the content of each `BufReader`; `TakeApart` is `split` and `into_stream`, which
drop it. A client at the end of its stream is `spinning`: the loop of `connect_on`
goes on and reads nothing.

**AcceptLoop** has several handles on one listening socket (`try_clone`), each in a
thread that calls `accept` again and again, or turned into an asynchronous server
whose `incoming` is polled again and again (`half`). `pc` is where the call on each
handle is: `Listen` takes a connection off the `backlog`, `TlsAccept` and `IntoWs` go on
with it, `Ends` answers it: the application has an upgrade or an error, or the connection is
dropped with the task that panics (`dead`). `answers` keeps what became of each. `Silent` is what
holds a handle up: a peer that says nothing, or one whose request is `behind` empty lines it
came with, which the asynchronous half overlooks (see AsyncHandshake). `IntoWs` takes from the
two handshake modules what comes of a head: the blocking one refuses it, the asynchronous one
refuses, upgrades or panics. `nonblocking` belongs to the socket, so it is one variable
for all handles, and a call reads it twice (`mode`); `inherits` is the platform's choice for
accepted connections.

A definition marked *Mutant* is a plausible bug in the definition that follows it,
kept so that each property can be shown to depend on the code it is about. Nothing else uses these definitions.

## Runs

| run | module, configuration | distinct states | what it shows |
|---|---|---|---|
| `message_stream` | MCMessageStream, `MessageStream.cfg` | 7,029,042 | The promise of receiving, over every sequence of 4 frames out of 8 kinds on a server, with raw reads between messages: each frame is accounted for exactly once, results come in order, messages are whole, no message is put together across a silent gap, no error and no control frame loses a fragment, and a peer that keeps the rules has every message delivered. Covers calls that fail and calls on a stream that is cut. |
| `receiver` | MCReceiver, `Receiver.cfg` | 1,783,837 | A client's blocking receiver, read by read, over frames of every length form and a header that is refused, with raw reads, `set_nonblocking` at any time between two calls and a peer that may go: it implements MessageStream, reader and writer stay in step until a result says otherwise, a blocking socket is waited on rather than given up, and every frame that arrives is taken. |
| `message_codec` | MCMessageCodec, `MessageCodec.cfg` | 696,056 | Over frames of every length form, reserved bits, an unknown opcode and a control frame that is too long: the codec implements MessageStream for every way the bytes are cut up; it never parks on a frame, never stands inside one, never ends quietly inside one, and notices a lost connection. |
| `writer` | MCFrameWriter, `FrameWriter.cfg` | 178,217 | Into a socket: `Ok` means the whole frame, refused means nothing of it. Into a buffer: `encode` never runs out of room; what it masks, the peer unmasks, but for a close with code and reason. |
| `writer_doc` | MCFrameWriter, `FrameWriter_doc.cfg` | stops | The exception in the line above, into a buffer that takes every write whole, against what the docs say. |
| `async_handshake` | MCAsyncHandshake, `AsyncHandshake.cfg` | 31,683 | Every byte behind a head reaches the message codec once and in order, and nothing else does; the two ends agree; both settle; a head that has come is answered, but for a request that is overlooked behind empty lines. |
| `async_handshake_doc` | MCAsyncHandshake, `AsyncHandshake_doc.cfg` | stops | A refused request is lost, against what the docs say. |
| `blocking_handshake` | MCBlockingHandshake, `BlockingHandshake.cfg` | 87,613 | Against any program, or itself: `connect_on` comes back from every response that comes whole with CRLF line ends, `into_ws` once a line has ended or the peer has gone, and a `Client` receives from the first byte behind the head. |
| `blocking_handshake_doc` | MCBlockingHandshake, `BlockingHandshake_doc.cfg` | stops | The blocking server refuses every handshake, against what the docs say. |
| `accept_loop` | MCAcceptLoop, `AcceptLoop.cfg` | 691,456 | Two handles, two connections, requests that are taken, overlooked, refused or make the handshake panic, with and without TLS: nobody is refused for nothing, and every peer that has spoken or left is answered, unless each handle is kept by a silent peer or lost to a panic. |
| `client_builder` | MCClientBuilder, `ClientBuilder.cfg` | 6,396,199 | A builder and its clone after any two configuring calls, used for two connections: a drawn key is never used twice (`FreshKeys`), a request whose key and version are left to the crate is always valid, and the port dialled, the use of TLS and the Host header agree but for the cases that `PortsAgree` names. |
| `session` | MCSession, `Session.cfg` | 1,241,213 | The example clients: a close is the last frame a program sends, pings are answered in order with their data, lines come in the order typed, a close has the code it should, and every program whose user types on to `/close` ends once its peer has gone. |

Bounds, and why they suffice. `MaxFrames` is 3 or 4: the longest pattern the code
tells apart is a first fragment, a frame that interrupts it (control, raw or
refused), another fragment and the end. Each MC module has one frame for
every branch: `MCFrames` lists them; where `Receiver` is on a client's stream, frames are
bare and a masked one is refused. The sets are split between the runs to keep each small: the
header that gives its length in the wrong form is in `receiver`, the control frame that is too
long, the reserved bit and the unknown opcode are in `message_codec`. `MaxEmptyCalls` is 2, enough for a call
that fails before and one that fails after a cut, or for two in a row. `EveryFrameTaken`
asks that the caller catches up whenever the peer pauses, which it does at the latest
at `MaxFrames`. With `MaxShort = 3` and
`MaxMedium = 4` a payload of five bytes already needs the long form. The writer's
`MaxSends = 2` lets a send follow a failed one, and `MaxRoom = 22` is more than the longest
frame in the run takes (21 bytes), so the buffer starts with less room than needed and with more.
In the handshake `HeadLen = 3` separates the empty lines before a head, its middle and its end,
`MaxData = 2` puts data before, in and after the read that ends the head, and two
keys tell a wrong key from the right one. In the accept loop two handles and two
connections give every case of one that is held up while the other goes on, of both
held up, and of one handle with a second connection behind the first. With two handles and
two connections nobody waits behind two kept handles; that case is the exception of
`EveryoneIsAnswered`, and the hold-up itself (a silent peer keeps `accept` or `incoming` to
itself) is what the code does.
For the builder `MaxCalls = 2` gives every pair of calls (one that sets and one that
clears, custom headers before and after, a call between two connections) and
the URLs name no port, one of their own, the default of their scheme and that of the other, and
`MaxConnects = 2` a reuse, or a builder and its clone; the two keys that are drawn
are interchangeable, so they are a symmetry set, and the run has no liveness property. In a session
`MaxPeer = 3` and `MaxLines = 2` put a close of either side before, between and behind
messages of the other kind.

Deadlock is not checked: a connection that is over has nothing more to do, and
every model bounds what its peer sends. What must not stop is stated as liveness.

## Fairness

- `Receiver!FairSpec`: the network delivers bytes that were sent, and the caller
  keeps calling `recv_message` or `recv_dataframe`, as `incoming_messages` and
  `incoming_dataframes` do in a loop. Nothing is assumed of the peer.
- `MessageCodec!FairSpec`: the executor polls a task whose socket is readable, and
  the caller polls the stream again after each item, as `Stream` requires.
- `AsyncHandshake!FairSpec`: the executor polls each side that can go on. The
  application that is handed a `WsUpgrade` decides (accepts, rejects or drops it),
  and one that is handed an error or a rejected stream drops it in the end: both
  own the stream and dropping is what closes it. Nothing is assumed of an open
  connection or of a foreign program.

- `BlockingHandshake!FairSpec`: the operating system runs each thread, so a call that
  has something to read, write or parse goes on. Nothing is assumed of the
  applications or of foreign programs.
- `AcceptLoop!FairSpec`: the threads and the executor run the calls, and the application
  calls again after each, as the loops of the examples do. A call on a nonblocking
  listener may find nothing, and `accept` may fail, so a handle is not always ready to
  take a connection: `Listen` is strongly fair, that is, the listener does not fail for
  ever while connections wait. Nothing is assumed of the peers, of
  `set_nonblocking` or of `into_async`.

- `Session!FairSpec`: each thread and the task go on while they can, and the user types
  until the program asks for no more lines, `/close` in the end: a program whose user stops
  typing stays in the read of a line, whatever the peer does, and `ProgramEnds` does not speak of
  it. Nothing is assumed of the peer: `ProgramEnds` begins when it has gone.

All other fairness is weak: each step, once possible, stays possible until it is taken
or the connection ends. `MessageStream` has none: it is a safety specification, and the two
sides that implement it have their own liveness properties.

## Theorems

`LengthAssumption`, `StreamAssumption`, `CodecAssumption`, `ReceiverAssumption`,
`WriterAssumption`, `HeadAssumption`, `HandshakeAssumption`, `DataAssumption`,
`AcceptAssumption`, `BuilderAssumption` and `SessionAssumption` are all that is assumed of the
constants: any set of frames, either role, any bounds, any length limits in the right order,
any messages to send, heads of two bytes or more, any requests and responses, any connections
and handles; any URLs, protocol names, extensions and custom headers (with at least one value
for a name they have, as in a `HeaderMap`, and one of the values told apart for a key or a
version), and any `OwnedMessage`s of a peer, a `String` in them being valid UTF-8
(`Owned(m) = m`).

**MessageStreamProofs** proves for `MessageStream!Spec`, hence for any number and
kinds of frames, raw reads included: `TypeCorrect`, `FramesAccounted`, `MessagesAreWhole`,
`NeverRefusedLate`, `ResultsComeInOrder`, `GapsAreReported` and the action property
`FragmentsNeverLost`. Each step of the
argument strengthens the property until it is inductive relative to the types:

1. `Accounted`, for each frame taken, says that it is in `buffer` or in exactly one
   result: inductive by itself once the types are known.
2. `WholeInv` is needed for `WholeMessages`: it adds that the frames of `buffer` are
   the beginning of one message (a data frame, then continuations, none final).
   FinishMessage completes them to a whole one; it also refutes the late refusal,
   since all but the first frame handed to `from_dataframes` are continuations
   (`NeverRefusedLate`, which no run checks by itself).
3. `OrderInv` adds to the order of the results that every data message already
   delivered was complete before the one in `buffer` began (`BeganAfter`).
   `ResultsInOrder` alone is not inductive: it says nothing of the message that is
   not delivered yet.
4. `GapInv` adds the same for gaps: what lies between the first fragment in `buffer`
   and `consumed` is a fragment, a control frame, or already reported as an error
   (`NoGap`, `Explained`).

A second part adds `RulesKeptDelivers`: a peer that keeps the rules of fragmentation
has every message delivered (`RulesKeptMeansDelivered`), which is what makes the refusals
above harmless. The property speaks of the latest data frame before a place of the wire;
that there is one is itself an invariant (`LatestInv`: each frame sent is the latest, or
leaves the latest as it was), which saves an induction over the wire.
`DeliveryInv` then strengthens the property with the message in progress: the latest data
frame is final exactly when `buffer` is empty, and `buffer` holds the frames of the
message that frame belongs to. The first gives that a frame that keeps the rules
is never refused (`NoRefusal`), the second that what `FinishMessage` delivers is the message
that ends there (`EndsHere`).

A third part holds what both receiving sides need to know of bytes that are on their
way to a reader. `InLine` says that every byte of a sequence belongs to a frame that was
sent and is followed by the rest of its frame and then the next; `Begins` says which byte
comes first when `c` frames and `p` bytes of the next have been read; `AllThere` that
nothing is missing at the end. Taking bytes off the front (`BytesRead`, `FrameRead`), adding
a frame behind (`FrameSent`), cutting off the end (`CutOff`) and moving bytes from the
network to the buffer (`Moved`) keep them. The three are stated by position, with no sum
over the frames, so that none of them needs an induction.

**MessageCodecProofs** proves `AlwaysAtStart`, `NotParkedOnWork`, `QuietOnlyAtFrameEnd` and
`CodecImplements` (`Spec => ImplementsMessageStream`). `LineInv` says that `src` and `net`
together are in line and begin where the next frame begins, so that the frame `decode` sees is
the next one MessageStream takes (`HeadIsNext`). `StuckInv` is needed for the refinement:
after a result that cuts the stream, `src` still begins with the bytes that caused it, so
no frame is ever taken on a stream that is cut. `LastInv` gives where the stream ends.

**ReceiverProofs** proves `StaysInStep`, `CallsBlock` and `ReceiverImplements`. Here `LineInv`
holds only until the stream is cut and speaks of the byte the call has come to (`Read`), and
`PlaceInv` says what the call knows by then: past the header, that it has no fault. `WaitInv`
strengthens `BlocksUntilFrame` with results that cut the stream, without which the
results of later calls are not explained.

From these and the theorems of MessageStream follow `CodecDelivers` and `ReceiverDelivers`:
what either side returns accounts for every frame once, in order, with no silent gap, its
messages are whole, and a peer that keeps the rules has every message delivered. The
instance `Promise` is MessageStream once more, with its theorems; `SamePromise` says so.

**FrameWriterProofs** proves for `FrameWriter!Spec`: `WriterTypes`, `OkIsWhole`,
`EncodeAlwaysFits` and `EncodedPayloadsSurvive`. `WriterInv` ties the position in the
frame to the piece being written and what is left of it; `SendInv` says what bytes
are out for finished sends and for the one under way; with the buffer sink,
`room` is at least what is left of the frame, which is why `frame_size` is enough.
`AlignInv` says where each masked byte's write call began: in the buffer a payload
of one piece is one write, so the key is at its start.

**AcceptLoopProofs** proves for `AcceptLoop!Spec` `AcceptTypes` (a call has a connection
exactly from `Listen` to its end) and `NobodyRefusedForNothing` (`AnsweredForCause`), for any
handles and connections. The property speaks of answers that have been given; `CauseInv` says
what is known before: a call is behind TLS only with a peer that has done its part, and has
found `O_NONBLOCK` only on a blocking handle, where some handle has set it, and on the
connection only where connections inherit it. `EndsForCause` gives that each way a call ends
has its cause in that; `CauseLasts` that a cause stays one, because a peer that is gone stays
away and `unblocked` is never taken back.

**AsyncHandshakeProofs** proves for `AsyncHandshake!Spec`, whoever the peer is and for any
length of the heads, `HandshakeTypes` and `HandoverExact`, and for two ends of this crate
`OpenMeansAccepted` and `AcceptanceTaken`. None of the three invariants is inductive. `Control` says
what a side's place in the handshake means for its head, its write buffer and its end.
`Flow` follows one direction: with nothing, the empty lines or the whole head (`Bases`) split
off, which the byte at the front of the buffer tells apart (`FrontIs`), what has been received, what is in `buf`, on the way in `net` and still in the sender's `out` are the
bytes of the head and then the data, each at its place, and all of them unless the sender
has closed. The `Flow` lemmas do one step each on four sequences (a flush, a read, a split,
a close); `ReceiverStep` and `SenderStep` say which action is which, for the two ends of a
direction. It follows (`HeadWasSent`) that who finds a head in its buffer has been
sent all of one, and `Agreement` then ties the two heads to the two places: the server a
client hears from has answered, and a client that has failed has heard a head that does not
pass or has lost its server.

**ConnectProofs** proves for `ClientBuilder!Spec` `KeysAreFresh`, `RequestsTaken` and
`PortsDoAgree`, for any sequence of calls on a builder and its clone and any number of
connections. None of the three is inductive. `BuilderInv` says what a
builder's headers can hold (`GoodOwn`), in particular that with `key_set` the key in them is
none that is ever drawn; without it the key may be one an earlier request has left, and
`build_request` puts another in its place. `ConnInv` follows a connection: what it was given (its `own`), where
it has been (`Route`: the port that was dialled, and that a stream is wrapped where the call
says) and what was asked (`Asking`: the request is what `build_request` makes of `own`, with
the key in it that was drawn and the Host of the URL). `DrawnInv` keeps the drawn keys apart from those callers set
(`CallerKeys`): 128 random bits do not meet a caller's key, which is what the model assumes
of `SendRequest` and what `FreshKeys` needs. `PortsAgree` then compares three values that
`Port`, `Wraps` and `HostText` have worked out, each by its own test of the URL.

Its second part proves `ClientsReceiveData` for `BlockingHandshake!OpeningSpec` (named apart
from the builder's `Spec`, so that one module can extend both), against any peer and for any
amount of data. `DataFollowsHead` speaks of open clients only and is not inductive.
`Control` says what a side's place means for what it has taken, and that no Client comes of a
stream given to `into_ws`: a server's Client is opened over a pair. `Flow` follows one direction
from the start, while a Client can still come of it and is whole (`Reaches`): there is a list of pieces `H`, one that some program
sends, such that what connect_on has read, what the Client has received, what its
BufReader holds (`ahead`), what is on the way and what the sender has yet to write are the
pieces of `H` and then the data, each at its place, and all of them unless the sender has
closed. A Client starts only behind a `WholeHead`, which this crate never writes: its peer is
a foreign program. `StepKinds` sorts the actions by what they do to a direction (write, fill, take,
close, or nothing), the `Flow` lemmas do each on the sequences, and `ReceiverStep` and
`SenderStep` apply them to the two ends. `HeadPrefix` and `HeadComplete` give that a list
that begins as `WholeHead` does is `WholeHead`, so where the Client opens, what has been
taken is the head and no data, and data starts in `ahead` or behind it.

**SessionProofs** proves for `Session!Spec` `ClosesAreLast` and `AnswersOrdered`, for any
messages of the peer, any number of them and any number of lines. Neither is
inductive. That answers come in order is a statement by counting (`InOrder`): the n-th
pong among what the peer reads is the one due for the n-th ping. `Even` adds that as many have been sent
as are due, which is what lets the next one be sent. Of the threads, `Full` says this of what
has been sent followed by what waits in the channel, while the sending thread is
up; of the task it says it of what has been sent and of the lines but the one in the channel
(`Waits`); of the echo loop, of what has been sent and read (`Echoed`). When sending has
ended, what is left is `Part` of it, and a close or none in the end (`LastOnly`). What the peer
hears of a frame (`HeardIs`) is the message (`RoundTrip`), but of a close with code and
reason only the code (`CodeKept`), whatever the `Masker` has made of the reason: so the
property speaks of a close by its code.

Only model-checked, because they are beyond the prover: the liveness properties
(`EveryFrameTaken`, `LossNoticed`, `ClientSettles`, `RequestSettled`, `EndIsNoticed`,
`ConnectReturns`, `IntoWsReturns`, `EveryoneIsAnswered`, `ProgramEnds`).
Every safety invariant and action property that a passing run checks is proved.

## Disagreements between code and docs

- **A client's close reason arrives garbled** (`writer_doc`). `Masker::write`
  (`src/ws/util/mask.rs`, lines 29-38) masks every write from the first byte of the
  key and never advances. `write_payload` of a close message writes the status code and
  then the reason, so the reason is masked with the key two bytes off. The docs of
  `close_because` promise the peer a text reason. The run encodes into a buffer, which takes
  every write whole: the two writes are the code's own. A short write to a socket restarts the
  key too.
- **A refused request is not returned** (`async_handshake_doc`). The asynchronous
  `into_ws` answers a request that `validate` refuses with `None` for the request
  although it was parsed and its bytes are no longer in the buffer; the docs of
  `InvalidConnection` say it is there for use as HTTP.

- **The blocking server refuses every handshake** (`blocking_handshake_doc`). `into_ws` on
  a stream reads one line and parses it as the whole request
  (`src/server/upgrade/sync.rs`, lines 168-183): httparse finds it incomplete
  whatever it says. The docs of `AcceptResult` say that a handshake is its `Ok`. What
  remains is a `RequestStreamPair`; and there `send` writes a response that is not HTTP.

Met while modelling and not settled by a run:

- `accept` of a nonblocking server still reads the request from the connection it has
  taken, and waits for it where accepted connections do not inherit the flag; the example in
  the docs of `set_nonblocking` (`src/server/sync.rs`, lines 75-77) has the task after
  `accept` performed whether or not someone tried to connect.
- `into_stream` answers `None` for the bytes its docs say it returns
  (`src/client/sync.rs`, lines 313-320), and `split` drops them too.
- A request behind two empty lines is overlooked by the asynchronous server: `split_off_http`
  takes the empty lines for a head (`src/codec/http.rs`, line 309), which is `Partial` to
  httparse, so `decode` answers `None` (line 344) and `Framed` reads on with the whole request
  in its buffer. `RequestSettled` and `EveryoneIsAnswered` leave this case out by name.
- `add_protocols` "adds" protocols by its docs (`src/client/builder.rs`, line 173) and replaces
  those added before; so does `add_extensions`. `use_extensions` of `WsUpgrade`, which is to
  "select multiple extensions" (`src/server/upgrade/mod.rs`, line 72), writes an empty header
  whatever it is given. No property speaks of what was negotiated.
- By the docs of `new` a `wss` URL without a port means port 443 (`src/client/builder.rs`, lines
  150-152): `connect_insecure` dials it at 80, `connect_secure` a `ws` URL at 443. A URL that
  writes the default port of its scheme loses it in the url crate, so these two ways dial
  `wss://h:443` at 80 and `ws://h:80` at 443, not where the URL says. And the Host header leaves
  out 80 and 443 whatever the stream (line 869), so that of `wss://h:80` names port 443 to the
  server. `PortsAgree` says that there are no other cases.
- The asynchronous client panics in its encoder when a header of its request is not visible
  ASCII (`src/codec/http.rs`, line 159), which a caller can have set.
- `clear_header` and `custom_headers` can take away the key or the version and leave `key_set`
  and `version_set`, so that it is never put back: such a request is invalid
  (`RequestsAreTaken` leaves these flags out).
- `async_connect` dials the first address of a name only, the blocking `connect` all of them.
- `connect_on` and `WsUpgrade::send` write `{:?}` of their headers and no blank line
  (`src/client/builder.rs`, line 453; `src/server/upgrade/mod.rs`, line 164), so neither
  end of the blocking half completes a handshake with an HTTP peer that waits for
  the end of a head, nor with the other.
- At the end of its stream the loop of `connect_on` spins or panics
  (`src/client/builder.rs`, lines 459-464); a head ended by a lone LF, which the
  asynchronous client takes, it waits behind for ever.
- Where accepted connections do inherit the flag, the blocking `accept` refuses every
  peer whose request has not come yet: `into_ws` meets `WouldBlock`
  (`src/server/upgrade/sync.rs`, line 170).
- The same `read_line` waits for a line end: a peer that sends part of a line and
  then nothing holds up the call, and the handle whose `accept` it is.
- `incoming` gives the server's own address with each upgrade (`local_addr`,
  `src/server/async.rs`, lines 70 and 130) where its docs say the address of the incoming
  connection.
- The parameters of an extension are split with `splitn(1, '=')`, which never splits
  (`src/header/sec_websocket_extensions.rs`, line 80), so a value is read as part of the name; `Display` of
  `WebSocketExtensions` calls itself, that of `WebSocketProtocol` writes nothing.
- The client's `validate` checks `Connection` of its own request, not of the
  response (`src/client/builder.rs`, line 957); a response that does not parse is
  waited on (`src/codec/http.rs`, line 194); custom headers shadow the required
  ones, where the docs of `accept_with` say that they are overwritten
  (`src/server/upgrade/sync.rs`, lines 57-59); the server's version check compares
  with HTTP/0.9 twice (`src/server/upgrade/mod.rs`, line 291).

## What the models assume and leave out

- Payloads are shorter than 2^64 - 14 bytes, so the addition of header and payload
  length in `src/codec/ws.rs`, line 111, does not wrap; allocation does not fail.
- Lengths are scaled by `MaxShort` and `MaxMedium`; the extended length is 0, 2 or 8
  bytes as in the code.
- The reads of the four key bytes are one read, and so are those of `read_to_end`:
  when one of them fails part-way, what was read is lost either way.
- What a call returns on a stream that has been cut is any result (`Unknown`).
- A local `shutdown` has the effect of a peer that is gone. `set_nonblocking` is never
  taken back.
- `reserve` gives the least room it may.
- In the handshake a head is whole or not and parses or not; which of httparse's
  errors it has and its wording are left out. What is behind an HTTP head that ended in lone LFs,
  in the piece that was split off up to the next CRLF CRLF, is dropped with it; heads here end
  in CRLF CRLF. Of the empty lines before a request only two or more are modelled (`led`): one is
  skipped by httparse. HTTP versions
  are 1.0 or 1.1, which is all the parser gives. Sec-WebSocket-Accept stands for the
  key it is computed from: SHA-1 and base64 are not modelled, nor is `WsUpgrade::key`, which
  nothing calls. Protocols and extensions are compared by nobody and are left out of the
  handshake modules; ClientBuilder has them.
- In ClientBuilder the text of a header is a sequence of words; only the words and
  separators the crate looks at are told apart, and the name of an extension is one word.
  Dialling and TLS succeed or fail.
  A key in a header is one of `Keys` or malformed, and a drawn key is one not
  drawn before: 128 random bits do not repeat. The `Connection` of a response is read by
  nobody and `Validate` does not have it.
- `RequestsAreTaken` speaks of requests whose key and version the crate sets; the flags
  `key_set` and `version_set` that no longer hold are in the list above. `AcceptanceIsTaken`
  exempts custom headers that the required ones do not replace, also in that list.
- In Session a message arrives and is sent whole, or not at all, and a send can fail
  only once the peer has gone. The socket takes whole writes: what the `Masker` garbles is then the reason of a
  close with a code, and nothing else. No two sends of the threads share a connection at once.
- The example servers are not modelled: at this commit the blocking ones call an `accept`
  whose `into_ws` refuses everything, `async-server.rs` never runs the future it builds, the
  other asynchronous ones spawn on their executor from outside it, and
  `async-autobahn-client.rs` counts no case.
- In BlockingHandshake a foreign program may stop inside a line (`begin`) where the server
  reads the stream; elsewhere a stream ends between two lines: inside one, the same happens.
  Empty lines before a request are left out: `into_ws` looks at the first line only.
  A frame met while `connect_on` still reads lines is not UTF-8. `shutdown_sender` and
  `shutdown_receiver` are left out.
- In AcceptLoop a peer that sends part of its request is one that is silent; a handshake that
  panics takes the connection with it; and a
  connection counts for nothing more once it is answered: what an application does with
  a `WsUpgrade` is in the handshake modules. A connection that fails to be accepted is not
  tied to the error of the listener. `local_addr` does not fail.
- External: `Framed` and `BytesMut` of tokio and bytes, sockets, TLS, httparse.

## Plan

Done: all the modules above, with the proofs listed. Left, in this order:

1. A run that shows what `into_stream` loses, against its docs.
2. The addition of header and payload length with its width (`src/codec/ws.rs`, line 111).
3. Heads that end in lone LFs, and data split off with them, in AsyncHandshake.
4. Frames that come while `connect_on` still reads lines, in BlockingHandshake.
