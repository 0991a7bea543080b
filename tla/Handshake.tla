------------------------------- MODULE Handshake -------------------------------
(***************************************************************************)
(* What the two ends of an opening handshake ask of each other's heads,    *)
(* blocking and asynchronous alike: build_request and validate of the      *)
(* client (client/builder.rs), validate and prepare_headers of the server  *)
(* (server/upgrade/mod.rs). Pure operators; heads are records of what      *)
(* these four look at, and of whether two empty lines come before the      *)
(* request, which is where a codec may think that it ends.                 *)
(***************************************************************************)
EXTENDS Integers, Sequences

CONSTANTS
    Keys,              \* the well-formed values of Sec-WebSocket-Key
    ForeignRequests,   \* what a client that is not this crate's may send
    ForeignResponses   \* what a server that is not this crate's may send

Absent    == "none"
Malformed == "malformed"   \* a key that is not 16 bytes in base64
Opaque    == "opaque"      \* a header value to_str fails on

\* Upgrade and Connection are lists, of which only the members matter: {} is a header
\* that is absent or lists nothing, {Opaque} one that cannot be read. Letter case is
\* ignored by all who read them.
Protocols == {"websocket", "websocket/13", "h2c"}
Options   == {"upgrade", "keep-alive", "close"}

\* What validate looks at in a request, and what the client looks at in a
\* response. The value of Sec-WebSocket-Accept stands for the key it is made of.
Requests ==
    [parses : BOOLEAN, get : BOOLEAN, led : BOOLEAN,
     key : Keys \cup {Absent, Malformed},
     version : {Absent, "13", "other", Opaque},
     upgrade : SUBSET Protocols \cup {{Opaque}},
     connection : SUBSET Options \cup {{Opaque}}]
Responses ==
    [parses : BOOLEAN, status : {"101", "400"},
     accept : Keys \cup {Absent, "custom"},
     upgrade : SUBSET Protocols \cup {{Opaque}}]

ASSUME HeadAssumption ==
    /\ {Absent, Malformed, "custom"} \cap Keys = {}
    /\ ForeignRequests \subseteq Requests
    /\ ForeignResponses \subseteq Responses

Side == {"client", "server"}
Peer == [client |-> "server", server |-> "client"]

NoHead == [parses |-> FALSE]

-----------------------------------------------------------------------------
(* The client *)

\* The request of a builder: build_request sets Upgrade and Connection, and the
\* key and the version unless the caller has, who may have removed them since.
BuildRequest(key, version) ==
    [parses |-> TRUE, get |-> TRUE, led |-> FALSE, key |-> key, version |-> version,
     upgrade |-> {"websocket"}, connection |-> {"upgrade"}]

BuiltRequests ==
    {BuildRequest(key, version) : key \in Keys \cup {Absent, Malformed},
                                  version \in {Absent, "13", "other", Opaque}}

\* Mutant: the accept header is not compared with the key.
ValidateAnyAccept(response, request) ==
    /\ response.status = "101"
    /\ request.key \in Keys
    /\ response.upgrade = {"websocket"}

\* validate of the builder. Upgrade must be the one word websocket, where the server
\* takes it out of a list and with a version. The check of Connection looks at the
\* request, where build_request has set it.
Validate(response, request) ==
    /\ response.status = "101"
    /\ request.key \in Keys
    /\ response.accept = request.key
    /\ response.upgrade = {"websocket"}

\* The builder's own key is unwrapped once the status has passed.
BuilderPanics(response, request) ==
    response.status = "101" /\ request.key = Malformed

-----------------------------------------------------------------------------
(* The server *)

\* A protocol is its name up to the slash, whatever its version.
NamesWebSocket(upgrade) == upgrade \cap {"websocket", "websocket/13"} # {}
NamesUpgrade(connection) == "upgrade" \in connection

Valid(r) ==
    /\ r.get
    /\ r.version \in {Absent, "13"}
    /\ r.key # Absent
    /\ NamesWebSocket(r.upgrade)
    /\ NamesUpgrade(r.connection)

\* validate stops at the first check that fails, or that cannot read a value.
ValidatePanics(r) ==
    /\ r.get
    /\ \/ r.version = Opaque
       \/ /\ r.version \in {Absent, "13"} /\ r.key # Absent
          /\ \/ r.upgrade = {Opaque}
             \/ NamesWebSocket(r.upgrade) /\ r.connection = {Opaque}

\* Mutant: Upgrade is left out of the response.
PrepareWithoutUpgrade(request, custom) ==
    [parses |-> TRUE, status |-> "101",
     accept |-> IF "accept" \in custom THEN "custom" ELSE request.key,
     upgrade |-> IF "upgrade" \in custom THEN {"h2c"} ELSE {}]

\* Mutant: the headers are written in a form that HTTP cannot read.
PrepareUnreadable(request, custom) ==
    [parses |-> FALSE, status |-> "101",
     accept |-> IF "accept" \in custom THEN "custom" ELSE request.key,
     upgrade |-> IF "upgrade" \in custom THEN {"h2c"} ELSE {"websocket"}]

\* prepare_headers appends the required headers behind the custom ones, and the
\* first of two values is the one a reader gets. The key must be well formed,
\* which validate has not asked.
PrepareHeaders(request, custom) ==
    [parses |-> TRUE, status |-> "101",
     accept |-> IF "accept" \in custom THEN "custom" ELSE request.key,
     upgrade |-> IF "upgrade" \in custom THEN {"h2c"} ELSE {"websocket"}]

BadRequest ==
    [parses |-> TRUE, status |-> "400", accept |-> Absent, upgrade |-> {}]

=============================================================================
