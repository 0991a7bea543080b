---------------------------- MODULE ClientBuilder ----------------------------
(***************************************************************************)
(* The life of a ClientBuilder (client/builder.rs): the calls that         *)
(* configure it, its clones, and the ways to connect, each of which dials, *)
(* secures the stream or not, and sends the request that build_request     *)
(* makes of the headers. A blocking connect borrows the builder, which can *)
(* be used again with the headers the request left in it; an asynchronous  *)
(* one consumes it, and several can be under way at once. The server is    *)
(* this crate's WsUpgrade (server/upgrade/mod.rs), with the protocols and  *)
(* the headers its application chooses, or somebody else's. How heads      *)
(* travel is in AsyncHandshake and BlockingHandshake.                      *)
(***************************************************************************)
EXTENDS Handshake, HeaderValues

CONSTANTS
    OwnKey,         \* the key a caller sets
    Urls,           \* the URLs a builder is made from
    ProtocolNames,  \* what callers pass to add_protocols
    ExtensionLists, \* what callers pass to add_extensions
    CustomHeaders,  \* what callers pass to custom_headers
    Cleared,        \* the names callers pass to clear_header
    AppHeaders,     \* what server applications pass to accept_with
    MaxCalls,       \* bound: configuring calls
    MaxConnects     \* bound: connections

ASSUME BuilderAssumption ==
    /\ OwnKey \in Keys
    /\ Urls \subseteq [secure : BOOLEAN, host : STRING, written : Nat \cup {NoPort}]
    /\ Cleared \subseteq HeaderNames
    /\ \A h \in CustomHeaders \cup AppHeaders :
          DOMAIN h \subseteq HeaderNames /\ \A n \in DOMAIN h : h[n] # <<>>
    /\ \A h \in CustomHeaders :
          /\ "key" \in DOMAIN h => h["key"] \in Seq(Keys \cup {Malformed})
          /\ "version" \in DOMAIN h => h["version"] \in Seq({"13", "other", Opaque})
    /\ MaxCalls \in Nat /\ MaxConnects \in Nat

VARIABLES
    url,      \* the URL of the builder and of its clones
    builder,  \* the builder and its clone
    conns,    \* the connections, in the order of the calls
    drawn,    \* the keys drawn so far
    calls     \* how many configuring calls there have been

vars == <<url, builder, conns, drawn, calls>>

Builders == {1, 2}
Gone == [gone |-> TRUE]   \* consumed, or not cloned yet

NewBuilder ==
    [gone |-> FALSE, headers |-> NoHeaders, key_set |-> FALSE, version_set |-> FALSE]

Init ==
    /\ url \in Urls
    /\ builder = [b \in Builders |-> IF b = 1 THEN NewBuilder ELSE Gone]
    /\ conns = <<>>
    /\ drawn = {}
    /\ calls = 0

-----------------------------------------------------------------------------
(* Configuring *)

Finished == {"open", "failed", "spinning", "panicked"}

\* A blocking connect has the builder until it returns.
Free(b) ==
    /\ ~builder[b].gone
    /\ \A c \in DOMAIN conns :
          conns[c].by = b /\ ~conns[c].async => conns[c].stage \in Finished

Configure(b, new) ==
    /\ Free(b) /\ calls < MaxCalls
    /\ builder' = [builder EXCEPT ![b] = new]
    /\ calls' = calls + 1
    /\ UNCHANGED <<url, conns, drawn>>

Put(b, n, v) == [builder[b] EXCEPT !.headers = Insert(@, n, v)]
Cut(b, n)    == [builder[b] EXCEPT !.headers = Without(@, n)]

\* For all its name it replaces the protocols added before.
AddProtocols(b, names) == Configure(b, Put(b, "protocol", ProtocolText(names)))
ClearProtocols(b)      == Configure(b, Cut(b, "protocol"))

AddExtensions(b, es) == Configure(b, Put(b, "extensions", ExtensionsText(es)))
ClearExtensions(b)   == Configure(b, Cut(b, "extensions"))

Key(b)      == Configure(b, [Put(b, "key", OwnKey) EXCEPT !.key_set = TRUE])
ClearKey(b) == Configure(b, [Cut(b, "key") EXCEPT !.key_set = FALSE])

Version(b, v) ==
    Configure(b, [Put(b, "version", VersionText[v]) EXCEPT !.version_set = TRUE])
ClearVersion(b) == Configure(b, [Cut(b, "version") EXCEPT !.version_set = FALSE])

Origin(b, o)   == Configure(b, Put(b, "origin", o))
ClearOrigin(b) == Configure(b, Cut(b, "origin"))

\* The headers of the other map replace those of their names, the crate's own
\* among them; key_set and version_set stay as they are.
Custom(b, h) == Configure(b, [builder[b] EXCEPT !.headers = Extend(@, h)])

\* The name can be one of the crate's own, and again no flag changes.
ClearHeader(b, n) == Configure(b, Cut(b, n))

\* A clone takes the headers of the last request along, and the flags.
Clone ==
    /\ Free(1) /\ builder[2] = Gone
    /\ calls < MaxCalls
    /\ builder' = [builder EXCEPT ![2] = builder[1]]
    /\ calls' = calls + 1
    /\ UNCHANGED <<url, conns, drawn>>

Configuring ==
    \/ \E b \in Builders :
          \/ \E names \in ProtocolNames : AddProtocols(b, names)
          \/ ClearProtocols(b)
          \/ \E es \in ExtensionLists : AddExtensions(b, es)
          \/ ClearExtensions(b)
          \/ Key(b) \/ ClearKey(b)
          \/ \E v \in DOMAIN VersionText : Version(b, v)
          \/ ClearVersion(b)
          \/ Origin(b, "origin") \/ ClearOrigin(b)
          \/ \E h \in CustomHeaders : Custom(b, h)
          \/ \E n \in Cleared : ClearHeader(b, n)
    \/ Clone

-----------------------------------------------------------------------------
(* Connecting *)

\* asked is what connect does with the scheme of the URL, where connect_secure and
\* connect_insecure have it their way; on is a stream that is handed in.
Ways == {"asked", "secure", "insecure", "on"}

Default(secure) == IF secure THEN 443 ELSE 80

\* port of the url crate: a port that is written is not there when it is the default
\* of the scheme.
UrlPort == IF url.written = Default(url.secure) THEN NoPort ELSE url.written

\* extract_host_port: the argument, which connect leaves out, goes before the scheme.
Port(way) ==
    IF UrlPort # NoPort THEN UrlPort
    ELSE Default(IF way = "asked" THEN url.secure ELSE way = "secure")

\* Mutant: only a stream to a wss URL is wrapped, whoever asks.
WrapsByScheme(way) == url.secure /\ way \in {"asked", "secure"}

\* Whether the stream is wrapped: connect tests the scheme, connect_secure always does.
Wraps(way) ==
    \/ way = "asked" /\ url.secure
    \/ way = "secure"

\* connect, connect_secure, connect_insecure and connect_on, and the asynchronous
\* four, which consume the builder. A stream that is handed in needs no dialling.
Connect(b, way, async) ==
    /\ Free(b) /\ Len(conns) < MaxConnects
    /\ conns' = Append(conns,
          [by |-> b, way |-> way, async |-> async, own |-> builder[b],
           stage |-> IF way = "on" THEN "ready" ELSE "dialling",
           port |-> NoPort, secured |-> FALSE,
           request |-> NoHeaders, response |-> NoHeaders])
    /\ builder' = IF async THEN [builder EXCEPT ![b] = Gone] ELSE builder
    /\ UNCHANGED <<url, drawn, calls>>

At(c, stage) == conns[c].stage = stage

Step(c, conn) ==
    /\ conns' = [conns EXCEPT ![c] = conn]
    /\ UNCHANGED <<url, calls>>

Enters(c, stage) == Step(c, [conns[c] EXCEPT !.stage = stage])

Fail(c) ==
    /\ Enters(c, "failed")
    /\ UNCHANGED <<builder, drawn>>

\* The URL has no host, the host no address, or nobody answers: at any of its
\* addresses for the blocking half, at the first for the asynchronous one.
DialFails(c) ==
    /\ At(c, "dialling")
    /\ Fail(c)

Dialled(c) ==
    /\ At(c, "dialling") /\ url.host # ""
    /\ Step(c, [conns[c] EXCEPT
                   !.stage = IF Wraps(conns[c].way) THEN "securing" ELSE "ready",
                   !.port = Port(conns[c].way)])
    /\ UNCHANGED <<builder, drawn>>

\* The connector cannot be made, or the peer is not who it should be.
TlsFails(c) ==
    /\ At(c, "securing")
    /\ Fail(c)

Secured(c) ==
    /\ At(c, "securing")
    /\ Step(c, [conns[c] EXCEPT !.stage = "ready", !.secured = TRUE])
    /\ UNCHANGED <<builder, drawn>>

\* Mutant: Connection is left to the caller.
RequiredButConnection(own) ==
    LET h1 == IF url.host = "" THEN own.headers
              ELSE Insert(own.headers, "host", HostText(url.host, UrlPort))
        h2 == IF Has(h1, "connection") THEN h1 ELSE Insert(h1, "connection", {"upgrade"})
        h3 == Insert(h2, "upgrade", {"websocket"})
    IN  IF own.version_set THEN h3 ELSE Insert(h3, "version", "13")

\* What build_request puts in the place of what is there.
Required(own) ==
    LET h1 == IF url.host = "" THEN own.headers
              ELSE Insert(own.headers, "host", HostText(url.host, UrlPort))
        h2 == Insert(Insert(h1, "connection", {"upgrade"}), "upgrade", {"websocket"})
    IN  IF own.version_set THEN h2 ELSE Insert(h2, "version", "13")

\* Mutant: a key that is there is kept, drawn or not.
BuildWithOneKey(own, k) ==
    LET h == Required(own) IN
    [own EXCEPT !.headers = IF Has(h, "key") THEN h ELSE Insert(h, "key", k)]

\* build_request, k being the key it draws.
Build(own, k) ==
    LET h == Required(own) IN
    [own EXCEPT !.headers = IF own.key_set THEN h ELSE Insert(h, "key", k)]

\* The keys that callers set, in one way or the other. None of them is ever drawn, and
\* none is drawn twice.
CallerKeys ==
    {OwnKey} \cup {k \in Keys : \E h \in CustomHeaders : "key" \in DOMAIN h /\ h["key"] = <<k>>}

\* A value of a header that is not visible ASCII.
Unreadable(h) == \E n \in {"version", "origin", "cookie"} : \E i \in DOMAIN h[n] : h[n][i] = Opaque

\* The headers of the request stay in a builder that is only borrowed. The encoder of
\* the asynchronous client unwraps to_str of every value, before anything is sent; the
\* blocking one writes any value as it would be debugged.
SendRequest(c) ==
    /\ At(c, "ready")
    /\ \E k \in Keys \ (drawn \cup CallerKeys) :
          LET built == Build(conns[c].own, k)
              panics == conns[c].async /\ Unreadable(built.headers)
          IN
          /\ Step(c, [conns[c] EXCEPT !.stage = IF panics THEN "panicked" ELSE "waiting",
                                      !.request = IF panics THEN @ ELSE built.headers,
                                      !.own = built])
          /\ drawn' = IF built.key_set THEN drawn ELSE drawn \cup {k}
          /\ builder' = IF conns[c].async THEN builder
                        ELSE [builder EXCEPT ![conns[c].by] = built]

-----------------------------------------------------------------------------
(* The server *)

First(h, n, none) == IF Has(h, n) THEN Get(h, n) ELSE none

\* What validate and the client look at, as Handshake has it.
RequestOf(h) ==
    [parses |-> TRUE, get |-> TRUE, led |-> FALSE,
     key |-> First(h, "key", Absent), version |-> First(h, "version", Absent),
     upgrade |-> First(h, "upgrade", {}), connection |-> First(h, "connection", {})]
ResponseOf(h) ==
    [parses |-> TRUE, status |-> "101",
     accept |-> First(h, "accept", Absent), upgrade |-> First(h, "upgrade", {})]

\* use_protocols puts the application's choice in the headers, use_extensions an
\* empty text whatever it is given; prepare_headers lets the headers of
\* accept_with replace these and appends the required ones.
UseProtocols(h, names) == Insert(h, "protocol", ProtocolText([i \in DOMAIN names |-> <<names[i]>>]))
UseExtensions(h)       == Insert(h, "extensions", <<Blank>>)
Prepare(request, custom, h) ==
    LET h1 == Extend(h, custom) IN
    Add(Add(Add(h1, "accept", Get(request, "key")),
            "connection", {"upgrade"}), "upgrade", {"websocket"})

\* The crate's server with an application that takes some of the protocols asked for.
\* (The blocking client writes its headers in a form that no server reads.)
Answers(c) ==
    LET request == conns[c].request IN
    /\ At(c, "waiting") /\ conns[c].async
    /\ Valid(RequestOf(request)) /\ Get(request, "key") \in Keys
    /\ \E n \in 0..Len(ReadProtocols(request)), custom \in AppHeaders :
          LET chosen == SubSeq(ReadProtocols(request), 1, n)
              h == UseProtocols(UseExtensions(NoHeaders), chosen)
          IN  Step(c, [conns[c] EXCEPT !.stage = "answered",
                                       !.response = Prepare(request, custom, h)])
    /\ UNCHANGED <<builder, drawn>>

\* Another program, which may answer the blocking client too.
ForeignAnswers(c) ==
    /\ At(c, "waiting")
    /\ \E accept \in {First(conns[c].request, "key", Absent), Absent} :
          Step(c, [conns[c] EXCEPT
                     !.stage = "answered",
                     !.response = Insert(IF accept = Absent THEN NoHeaders
                                         ELSE Insert(NoHeaders, "accept", accept),
                                         "upgrade", {"websocket"})])
    /\ UNCHANGED <<builder, drawn>>

\* The server goes, or refuses the request and closes. The blocking client notices
\* as long as it writes; the loop that reads the response does not end then.
ServerLeaves(c) ==
    /\ At(c, "waiting")
    /\ \/ Enters(c, "failed")
       \/ ~conns[c].async /\ Enters(c, "spinning")
    /\ UNCHANGED <<builder, drawn>>

\* validate, with the key of the request. (A malformed one is a panic.)
Validates(c) ==
    /\ At(c, "answered")
    /\ IF Validate(ResponseOf(conns[c].response), RequestOf(conns[c].request))
       THEN Enters(c, "open")
       ELSE Enters(c, "failed")
    /\ UNCHANGED <<builder, drawn>>

Connecting(c) ==
    \/ DialFails(c) \/ Dialled(c)
    \/ TlsFails(c) \/ Secured(c)
    \/ SendRequest(c)
    \/ Validates(c)

Next ==
    \/ Configuring
    \/ \E b \in Builders, way \in Ways, async \in BOOLEAN : Connect(b, way, async)
    \/ \E c \in DOMAIN conns :
          Connecting(c) \/ Answers(c) \/ ForeignAnswers(c) \/ ServerLeaves(c)

Spec == Init /\ [][Next]_vars

-----------------------------------------------------------------------------
(* Properties *)

Sent(c) == conns[c].request # NoHeaders

\* No two requests carry the same drawn key, over all connections of a builder and
\* its clone: an answer to one is never an answer to the other. Reuse keeps the key
\* of the last request in the headers, and a clone takes it along (build_request).
FreshKeys ==
    \A c, d \in DOMAIN conns :
        c # d /\ conns[c].request["key"] \in {<<k>> : k \in drawn} =>
            conns[c].request["key"] # conns[d].request["key"]

\* Whatever the calls before it, a request whose key and version are left to the
\* crate is one that the crate's server takes: the caller's headers and those of
\* earlier requests do not get in the way of the required ones.
RequestsAreTaken ==
    \A c \in DOMAIN conns :
        Sent(c) /\ ~conns[c].own.key_set /\ ~conns[c].own.version_set =>
            /\ Valid(RequestOf(conns[c].request))
            /\ conns[c].request["key"] \in {<<k>> : k \in drawn}

\* The port, the use of TLS and the Host header are worked out in three places
\* (extract_host_port, connect and build_request) from the URL and the call. A URL that
\* names no port is dialled at 443 exactly if the stream is wrapped. One that names a
\* port is dialled there, but for the default of its scheme when the call overrides the
\* scheme. And the Host header, read by a server that takes a port left out for the one
\* of the stream it came on, names the port that was dialled, but for 80 on a wrapped
\* stream and 443 on a plain one.
PortsAgree ==
    \A c \in DOMAIN conns :
        LET conn == conns[c]
            host == Get(conn.request, "host")
            read == IF host.port = NoPort THEN Default(conn.secured) ELSE host.port
        IN
        Sent(c) /\ conn.way # "on" =>
            /\ url.written = NoPort => (conn.port = 443 <=> conn.secured)
            /\ url.written # NoPort =>
                  (conn.port = url.written <=>
                      url.written # Default(url.secure) \/ conn.secured = url.secure)
            /\ host.name = url.host
            /\ read = conn.port <=> conn.port # Default(~conn.secured)

=============================================================================
