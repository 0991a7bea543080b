----------------------------- MODULE HeaderValues -----------------------------
(***************************************************************************)
(* The header maps of a handshake and the values of the crate's own        *)
(* headers in them (header/*.rs), as the client's builder writes them and  *)
(* the two ends read them. A text is the sequence of the words between its *)
(* separators, "" a blank; a map gives each name the values it has, in     *)
(* order. Pure operators.                                                  *)
(***************************************************************************)
EXTENDS Integers, SequencesExt

HeaderNames == {"host", "connection", "upgrade", "key", "version", "accept",
                "protocol", "extensions", "origin", "cookie"}

-----------------------------------------------------------------------------
(* HeaderMap of the http crate *)

NoHeaders       == [n \in HeaderNames |-> <<>>]
Has(h, n)       == h[n] # <<>>
Get(h, n)       == h[n][1]
Insert(h, n, v) == [h EXCEPT ![n] = <<v>>]
Add(h, n, v)    == [h EXCEPT ![n] = Append(@, v)]
Without(h, n)   == [h EXCEPT ![n] = <<>>]
\* extend replaces all the values of a name that the other map has.
Extend(h, more) == [n \in HeaderNames |-> IF n \in DOMAIN more THEN more[n] ELSE h[n]]

-----------------------------------------------------------------------------
\* A list but for its blanks.
NonBlank(s, blank) ==
    LET kept[i \in 0..Len(s)] ==
            IF i = 0 THEN <<>>
            ELSE IF s[i] = blank THEN kept[i - 1] ELSE Append(kept[i - 1], s[i])
    IN  kept[Len(s)]

-----------------------------------------------------------------------------
(* Sec-WebSocket-Protocol: words between commas. A name the caller gives may *)
(* have commas in it, so it is a sequence of words as well.                  *)

\* join puts a separator between names, and none makes the empty text.
ProtocolText(names) == IF names = <<>> THEN <<"">> ELSE FlattenSeq(names)

\* protocols of WsUpgrade: the words of the first header, but for blanks.
ReadProtocols(h) ==
    IF Has(h, "protocol") THEN NonBlank(Get(h, "protocol"), "") ELSE <<>>

-----------------------------------------------------------------------------
(* Sec-WebSocket-Extensions: extensions between commas, each a name and its *)
(* parameters between semicolons; a parameter's text is the words between   *)
(* its equal signs, and a value that is None is <<>>.                       *)

ParameterText(p) == p.name \o p.value

ExtensionText(e) ==
    << <<e.name>> >> \o [i \in 1..Len(e.params) |-> ParameterText(e.params[i])]

Blank == << <<"">> >>

ExtensionsText(es) ==
    IF es = <<>> THEN <<Blank>> ELSE [i \in 1..Len(es) |-> ExtensionText(es[i])]

-----------------------------------------------------------------------------
(* Host and Sec-WebSocket-Version *)

NoPort == -1

\* The port is written unless it is 80 or 443, whatever the scheme.
HostText(name, port) ==
    [name |-> name, port |-> IF port \in {80, 443} THEN NoPort ELSE port]

VersionText == [WebSocket13 |-> "13", Unknown |-> "other"]

=============================================================================
