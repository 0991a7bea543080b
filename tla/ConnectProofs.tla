----------------------------- MODULE ConnectProofs -----------------------------
(***************************************************************************)
(* How a client connects. Of ClientBuilder: what the builder guarantees    *)
(* for any URLs, any headers of its callers and of the servers'            *)
(* applications, and any number of calls and of connections. Of            *)
(* BlockingHandshake: that the Client of a connection receives what the    *)
(* peer has sent behind its head, from the first byte on.                  *)
(***************************************************************************)
EXTENDS ClientBuilder, BlockingHandshake, TLAPS

-----------------------------------------------------------------------------
(* Header maps *)

IsHeaders(h) == DOMAIN h = HeaderNames

\* The values a caller, or build_request, gives to the headers that servers check.
KeyValues     == Seq(Keys \cup {Malformed})
VersionValues == Seq({"13", "other", Opaque})
Settings(h)   == IsHeaders(h) /\ h["key"] \in KeyValues /\ h["version"] \in VersionValues

\* What insert, remove and extend leave of the other headers.
LEMMA Maps ==
    ASSUME NEW h, IsHeaders(h), NEW n \in HeaderNames, NEW v, NEW more
    PROVE  /\ IsHeaders(Insert(h, n, v)) /\ IsHeaders(Without(h, n)) /\ IsHeaders(Extend(h, more))
           /\ Insert(h, n, v)[n] = <<v>> /\ Without(h, n)[n] = <<>>
           /\ \A m \in HeaderNames \ {n} : Insert(h, n, v)[m] = h[m] /\ Without(h, n)[m] = h[m]
           /\ \A m \in HeaderNames :
                 Extend(h, more)[m] = IF m \in DOMAIN more THEN more[m] ELSE h[m]
BY DEF IsHeaders, Insert, Without, Extend

LEMMA NoHeadersAre ==
    IsHeaders(NoHeaders) /\ \A n \in HeaderNames : NoHeaders[n] = <<>>
BY DEF IsHeaders, NoHeaders

LEMMA OneValue ==
    /\ \A k \in Keys \cup {Malformed} : <<k>> \in KeyValues
    /\ \A v \in {"13", "other", Opaque} : <<v>> \in VersionValues
    /\ <<>> \in KeyValues /\ <<>> \in VersionValues
BY DEF KeyValues, VersionValues

LEMMA SettingsKept ==
    ASSUME NEW h, Settings(h)
    PROVE  /\ \A n \in HeaderNames \ {"key", "version"} : \A v : Settings(Insert(h, n, v))
           /\ \A k \in Keys \cup {Malformed} : Settings(Insert(h, "key", k))
           /\ \A v \in {"13", "other", Opaque} : Settings(Insert(h, "version", v))
           /\ \A n \in HeaderNames : Settings(Without(h, n))
           /\ \A more \in CustomHeaders : Settings(Extend(h, more))
<1> USE DEF Settings
<1>1. "key" \in HeaderNames /\ "version" \in HeaderNames /\ "key" # "version"
  BY DEF HeaderNames
<1>2. \A more \in CustomHeaders :
         /\ "key" \in DOMAIN more => more["key"] \in KeyValues
         /\ "version" \in DOMAIN more => more["version"] \in VersionValues
  BY BuilderAssumption DEF KeyValues, VersionValues
<1>3. IsHeaders(h) /\ h["key"] \in KeyValues /\ h["version"] \in VersionValues
  OBVIOUS
<1> HIDE DEF Settings
<1>4. \A n \in HeaderNames \ {"key", "version"} : \A v : Settings(Insert(h, n, v))
  BY <1>1, <1>3, Maps DEF Settings
<1>5. \A k \in Keys \cup {Malformed} : Settings(Insert(h, "key", k))
  BY <1>1, <1>3, Maps, OneValue DEF Settings
<1>6. \A v \in {"13", "other", Opaque} : Settings(Insert(h, "version", v))
  BY <1>1, <1>3, Maps, OneValue DEF Settings
<1>7. \A n \in HeaderNames : Settings(Without(h, n))
  <2> TAKE n \in HeaderNames
  <2>1. IsHeaders(Without(h, n)) /\ Without(h, n)[n] = <<>>
        /\ \A m \in HeaderNames \ {n} : Without(h, n)[m] = h[m]
    BY <1>3, Maps
  <2> QED
    BY <1>1, <1>3, <2>1, OneValue DEF Settings
<1>8. \A more \in CustomHeaders : Settings(Extend(h, more))
  <2> TAKE more \in CustomHeaders
  <2>1. IsHeaders(Extend(h, more))
        /\ \A m \in HeaderNames : Extend(h, more)[m] = IF m \in DOMAIN more THEN more[m] ELSE h[m]
    BY <1>1, <1>3, Maps
  <2> QED
    BY <1>1, <1>2, <1>3, <2>1 DEF Settings
<1> QED
  BY <1>4, <1>5, <1>6, <1>7, <1>8

-----------------------------------------------------------------------------
(* The builders *)

OwnFields  == {"gone", "headers", "key_set", "version_set"}
IsOwn(own) ==
    /\ DOMAIN own = OwnFields /\ own.gone = FALSE
    /\ Settings(own.headers)

\* A key that the caller set is never one that is drawn.
CallersKey(own) ==
    own.key_set => \A k \in Keys \ CallerKeys : own.headers["key"] # <<k>>

\* What every builder is, and what a connection was made of.
GoodOwn(own) == IsOwn(own) /\ CallersKey(own)

\* What a call that configures can make of a builder.
Edited(old, new) ==
    /\ DOMAIN new = OwnFields /\ new.gone = FALSE
    /\ \/ /\ new.key_set = old.key_set
          /\ \/ \E n \in HeaderNames \ {"key", "version"} : \E v :
                   new.headers = Insert(old.headers, n, v)
             \/ \E v \in {"13", "other", Opaque} :
                   new.headers = Insert(old.headers, "version", v)
             \/ \E n \in HeaderNames : new.headers = Without(old.headers, n)
             \/ \E h \in CustomHeaders : new.headers = Extend(old.headers, h)
       \/ new.key_set = FALSE /\ new.headers = Without(old.headers, "key")
       \/ new.key_set = TRUE /\ new.headers = Insert(old.headers, "key", OwnKey)

\* It makes a good builder of a good one.
LEMMA ConfigureGood ==
    ASSUME NEW old, GoodOwn(old), NEW new, Edited(old, new)
    PROVE  GoodOwn(new)
<1> USE DEF Edited
<1> DEFINE h == old.headers
<1>1. Settings(h) /\ IsHeaders(h) /\ CallersKey(old)
  BY DEF GoodOwn, IsOwn, Settings
<1>2. OwnKey \in Keys /\ {"key", "version"} \subseteq HeaderNames
  BY BuilderAssumption DEF HeaderNames
<1> HIDE DEF h
<1>3. Settings(new.headers)
  BY <1>1, <1>2, SettingsKept DEF h
<1>4. CallersKey(new)
  <2>1. \A n \in HeaderNames \ {"key"} : \A v : Insert(h, n, v)["key"] = h["key"]
    BY <1>1, <1>2, Maps
  <2>2. \A n \in HeaderNames : Without(h, n)["key"] \in {<<>>, h["key"]}
    BY <1>1, <1>2, Maps
  <2>3. \A more \in CustomHeaders :
           Extend(h, more)["key"] = IF "key" \in DOMAIN more THEN more["key"] ELSE h["key"]
    BY <1>1, <1>2, Maps
  <2>4. \A more \in CustomHeaders : "key" \in DOMAIN more =>
           \A k \in Keys \ CallerKeys : more["key"] # <<k>>
    BY DEF CallerKeys
  <2>5. Insert(h, "key", OwnKey)["key"] = <<OwnKey>> /\ OwnKey \in CallerKeys
    BY <1>1, <1>2, Maps DEF CallerKeys
  <2>6. \A k : <<>> # <<k>>
    OBVIOUS
  <2>7. \A k \in Keys \ CallerKeys : <<OwnKey>> # <<k>>
    BY <2>5
  <2>8. SUFFICES ASSUME new.key_set, NEW k \in Keys \ CallerKeys
                 PROVE  new.headers["key"] # <<k>>
    BY DEF CallersKey
  <2>9. old.key_set => h["key"] # <<k>>
    BY <1>1 DEF CallersKey, h
  <2>10. CASE new.key_set = old.key_set /\ new.headers["key"] = h["key"]
    BY <2>8, <2>9, <2>10
  <2>11. CASE new.headers["key"] = <<>> \/ new.headers["key"] = <<OwnKey>>
    BY <2>6, <2>7, <2>11
  <2>12. ASSUME NEW more \in CustomHeaders, new.headers = Extend(h, more),
                new.key_set = old.key_set
         PROVE  new.headers["key"] # <<k>>
    BY <2>3, <2>4, <2>8, <2>9, <2>12
  <2>13. ASSUME NEW n \in HeaderNames \ {"key"}, NEW v, new.headers = Insert(h, n, v),
                new.key_set = old.key_set
         PROVE  new.headers["key"] # <<k>>
    BY <2>1, <2>10, <2>13
  <2>14. ASSUME NEW n \in HeaderNames, new.headers = Without(h, n),
                new.key_set = old.key_set
         PROVE  new.headers["key"] # <<k>>
    BY <2>2, <2>10, <2>11, <2>14
  <2>15. new.headers = Insert(h, "key", OwnKey) => new.headers["key"] # <<k>>
    BY <2>5, <2>11
  <2>16. "version" \in HeaderNames \ {"key"}
    BY <1>2
  <2> QED
    BY <2>8, <2>12, <2>13, <2>14, <2>15, <2>16 DEF h
<1> QED
  BY <1>3, <1>4 DEF GoodOwn, IsOwn

BuilderInv ==
    /\ DOMAIN builder = Builders
    /\ \A b \in Builders : builder[b].gone \/ GoodOwn(builder[b])

LEMMA InitBuilders == Init => BuilderInv
<1>1. Settings(NoHeaders)
  BY NoHeadersAre, OneValue DEF Settings, HeaderNames
<1>2. GoodOwn(NewBuilder)
  BY <1>1 DEF GoodOwn, IsOwn, CallersKey, NewBuilder, OwnFields
<1> QED
  BY <1>2 DEF Init, BuilderInv, Gone, Builders

LEMMA FreeGood ==
    ASSUME BuilderInv, NEW b \in Builders, Free(b)
    PROVE  GoodOwn(builder[b]) /\ DOMAIN builder[b] = OwnFields /\ builder[b].gone = FALSE
BY DEF BuilderInv, Free, GoodOwn, IsOwn

LEMMA ConfiguringKept ==
    ASSUME BuilderInv, Configuring
    PROVE  BuilderInv' /\ UNCHANGED <<url, conns, drawn>>
<1> DEFINE Kept == BuilderInv' /\ UNCHANGED <<url, conns, drawn>>
<1>1. ASSUME NEW b \in Builders, NEW new, Configure(b, new),
             Free(b) => Edited(builder[b], new)
      PROVE  Kept
  <2>1. Free(b) /\ GoodOwn(builder[b]) /\ Edited(builder[b], new)
    BY <1>1, FreeGood DEF Configure
  <2>2. GoodOwn(new)
    BY <2>1, ConfigureGood
  <2> QED
    BY <1>1, <2>2 DEF Configure, BuilderInv
<1>2. CASE Clone
  BY <1>2, FreeGood DEF Clone, BuilderInv, Builders
<1> HIDE DEF Kept
<1>3. {"protocol", "extensions", "origin"} \subseteq HeaderNames \ {"key", "version"}
      /\ {"key", "version"} \subseteq HeaderNames /\ Cleared \subseteq HeaderNames
  BY BuilderAssumption DEF HeaderNames
<1>4. ASSUME NEW b \in Builders PROVE Free(b) =>
         /\ DOMAIN builder[b] = OwnFields /\ builder[b].gone = FALSE
  BY FreeGood
<1>5. ASSUME NEW b \in Builders,
             \/ \E names \in ProtocolNames : AddProtocols(b, names)
             \/ ClearProtocols(b)
             \/ \E es \in ExtensionLists : AddExtensions(b, es)
             \/ ClearExtensions(b)
             \/ Key(b) \/ ClearKey(b)
             \/ \E v \in DOMAIN VersionText : Version(b, v)
             \/ ClearVersion(b)
             \/ Origin(b, "origin") \/ ClearOrigin(b)
             \/ \E h \in CustomHeaders : Custom(b, h)
             \/ \E n \in Cleared : ClearHeader(b, n)
      PROVE  Kept
  <2> DEFINE old == builder[b]
  <2>1. ASSUME NEW names \in ProtocolNames, AddProtocols(b, names) PROVE Kept
    <3> DEFINE new == Put(b, "protocol", ProtocolText(names))
    <3>1. Configure(b, new)
      BY <2>1 DEF AddProtocols
    <3>2. Free(b) => /\ DOMAIN new = OwnFields /\ new.gone = FALSE
                     /\ new.key_set = old.key_set
                     /\ new.headers = Insert(old.headers, "protocol", ProtocolText(names))
      BY <1>4 DEF Put, Cut, OwnFields
    <3> HIDE DEF new
    <3> QED
      BY <1>1, <1>3, <3>1, <3>2 DEF Edited
  <2>2. ASSUME ClearProtocols(b) PROVE Kept
    <3> DEFINE new == Cut(b, "protocol")
    <3>1. Configure(b, new)
      BY <2>2 DEF ClearProtocols
    <3>2. Free(b) => /\ DOMAIN new = OwnFields /\ new.gone = FALSE
                     /\ new.key_set = old.key_set
                     /\ new.headers = Without(old.headers, "protocol")
      BY <1>4 DEF Put, Cut, OwnFields
    <3> HIDE DEF new
    <3> QED
      BY <1>1, <1>3, <3>1, <3>2 DEF Edited
  <2>3. ASSUME NEW es \in ExtensionLists, AddExtensions(b, es) PROVE Kept
    <3> DEFINE new == Put(b, "extensions", ExtensionsText(es))
    <3>1. Configure(b, new)
      BY <2>3 DEF AddExtensions
    <3>2. Free(b) => /\ DOMAIN new = OwnFields /\ new.gone = FALSE
                     /\ new.key_set = old.key_set
                     /\ new.headers = Insert(old.headers, "extensions", ExtensionsText(es))
      BY <1>4 DEF Put, Cut, OwnFields
    <3> HIDE DEF new
    <3> QED
      BY <1>1, <1>3, <3>1, <3>2 DEF Edited
  <2>4. ASSUME ClearExtensions(b) PROVE Kept
    <3> DEFINE new == Cut(b, "extensions")
    <3>1. Configure(b, new)
      BY <2>4 DEF ClearExtensions
    <3>2. Free(b) => /\ DOMAIN new = OwnFields /\ new.gone = FALSE
                     /\ new.key_set = old.key_set
                     /\ new.headers = Without(old.headers, "extensions")
      BY <1>4 DEF Put, Cut, OwnFields
    <3> HIDE DEF new
    <3> QED
      BY <1>1, <1>3, <3>1, <3>2 DEF Edited
  <2>5. ASSUME Key(b) PROVE Kept
    <3> DEFINE new == [Put(b, "key", OwnKey) EXCEPT !.key_set = TRUE]
    <3>1. Configure(b, new)
      BY <2>5 DEF Key
    <3>2. Free(b) => /\ DOMAIN new = OwnFields /\ new.gone = FALSE
                     /\ new.key_set = TRUE
                     /\ new.headers = Insert(old.headers, "key", OwnKey)
      BY <1>4 DEF Put, Cut, OwnFields
    <3> HIDE DEF new
    <3> QED
      BY <1>1, <1>3, <3>1, <3>2 DEF Edited
  <2>6. ASSUME ClearKey(b) PROVE Kept
    <3> DEFINE new == [Cut(b, "key") EXCEPT !.key_set = FALSE]
    <3>1. Configure(b, new)
      BY <2>6 DEF ClearKey
    <3>2. Free(b) => /\ DOMAIN new = OwnFields /\ new.gone = FALSE
                     /\ new.key_set = FALSE
                     /\ new.headers = Without(old.headers, "key")
      BY <1>4 DEF Put, Cut, OwnFields
    <3> HIDE DEF new
    <3> QED
      BY <1>1, <1>3, <3>1, <3>2 DEF Edited
  <2>7. ASSUME NEW v \in DOMAIN VersionText, Version(b, v) PROVE Kept
    <3> DEFINE new == [Put(b, "version", VersionText[v]) EXCEPT !.version_set = TRUE]
    <3>1. Configure(b, new)
      BY <2>7 DEF Version
    <3>2. Free(b) => /\ DOMAIN new = OwnFields /\ new.gone = FALSE
                     /\ new.key_set = old.key_set
                     /\ new.headers = Insert(old.headers, "version", VersionText[v])
      BY <1>4 DEF Put, Cut, OwnFields
    <3> HIDE DEF new
    <3>3. VersionText[v] \in {"13", "other", Opaque}
      BY DEF VersionText
    <3> QED
      BY <1>1, <3>1, <3>2, <3>3 DEF Edited
  <2>8. ASSUME ClearVersion(b) PROVE Kept
    <3> DEFINE new == [Cut(b, "version") EXCEPT !.version_set = FALSE]
    <3>1. Configure(b, new)
      BY <2>8 DEF ClearVersion
    <3>2. Free(b) => /\ DOMAIN new = OwnFields /\ new.gone = FALSE
                     /\ new.key_set = old.key_set
                     /\ new.headers = Without(old.headers, "version")
      BY <1>4 DEF Put, Cut, OwnFields
    <3> HIDE DEF new
    <3> QED
      BY <1>1, <1>3, <3>1, <3>2 DEF Edited
  <2>9. ASSUME Origin(b, "origin") PROVE Kept
    <3> DEFINE new == Put(b, "origin", "origin")
    <3>1. Configure(b, new)
      BY <2>9 DEF Origin
    <3>2. Free(b) => /\ DOMAIN new = OwnFields /\ new.gone = FALSE
                     /\ new.key_set = old.key_set
                     /\ new.headers = Insert(old.headers, "origin", "origin")
      BY <1>4 DEF Put, Cut, OwnFields
    <3> HIDE DEF new
    <3> QED
      BY <1>1, <1>3, <3>1, <3>2 DEF Edited
  <2>10. ASSUME ClearOrigin(b) PROVE Kept
    <3> DEFINE new == Cut(b, "origin")
    <3>1. Configure(b, new)
      BY <2>10 DEF ClearOrigin
    <3>2. Free(b) => /\ DOMAIN new = OwnFields /\ new.gone = FALSE
                     /\ new.key_set = old.key_set
                     /\ new.headers = Without(old.headers, "origin")
      BY <1>4 DEF Put, Cut, OwnFields
    <3> HIDE DEF new
    <3> QED
      BY <1>1, <1>3, <3>1, <3>2 DEF Edited
  <2>11. ASSUME NEW h \in CustomHeaders, Custom(b, h) PROVE Kept
    <3> DEFINE new == [builder[b] EXCEPT !.headers = Extend(@, h)]
    <3>1. Configure(b, new)
      BY <2>11 DEF Custom
    <3>2. Free(b) => /\ DOMAIN new = OwnFields /\ new.gone = FALSE
                     /\ new.key_set = old.key_set
                     /\ new.headers = Extend(old.headers, h)
      BY <1>4 DEF Put, Cut, OwnFields
    <3> HIDE DEF new
    <3> QED
      BY <1>1, <1>3, <3>1, <3>2 DEF Edited
  <2>12. ASSUME NEW n \in Cleared, ClearHeader(b, n) PROVE Kept
    <3> DEFINE new == Cut(b, n)
    <3>1. Configure(b, new)
      BY <2>12 DEF ClearHeader
    <3>2. Free(b) => /\ DOMAIN new = OwnFields /\ new.gone = FALSE
                     /\ new.key_set = old.key_set
                     /\ new.headers = Without(old.headers, n)
      BY <1>4 DEF Put, Cut, OwnFields
    <3> HIDE DEF new
    <3> QED
      BY <1>1, <1>3, <3>1, <3>2 DEF Edited
  <2> QED
    BY <1>5, <2>1, <2>2, <2>3, <2>4, <2>5, <2>6, <2>7, <2>8, <2>9, <2>10, <2>11, <2>12
<1> QED
  BY <1>2, <1>5 DEF Configuring, Kept

-----------------------------------------------------------------------------
(* The connections *)

LEMMA OfItsMembers ==
    ASSUME NEW S, NEW s \in Seq(S)
    PROVE  s \in Seq(ToSet(s))
BY DEF ToSet

\* A connection that goes on, and one that begins.
LEMMA ConnsStep ==
    ASSUME conns \in Seq(ToSet(conns)), NEW c \in DOMAIN conns, NEW conn,
           conns' = [conns EXCEPT ![c] = conn]
    PROVE  /\ conns' \in Seq(ToSet(conns')) /\ DOMAIN conns' = DOMAIN conns
           /\ conns'[c] = conn
           /\ \A d \in DOMAIN conns \ {c} : conns'[d] = conns[d]
<1> DEFINE S == ToSet(conns) \cup {conn}
<1>1. conns \in Seq(S) /\ conn \in S
  BY DEF ToSet
<1> HIDE DEF S
<1>2. /\ Len(conns) \in Nat /\ DOMAIN conns = 1..Len(conns)
      /\ conns' \in Seq(S)
      /\ Len(conns') = Len(conns) /\ DOMAIN conns' = 1..Len(conns)
      /\ conns'[c] = conn
      /\ \A d \in DOMAIN conns \ {c} : conns'[d] = conns[d]
  BY <1>1
<1>4. conns' \in Seq(ToSet(conns'))
  BY <1>2, OfItsMembers
<1> QED
  BY <1>2, <1>4, Zenon

LEMMA ConnsAppend ==
    ASSUME conns \in Seq(ToSet(conns)), NEW conn, conns' = Append(conns, conn)
    PROVE  /\ conns' \in Seq(ToSet(conns'))
           /\ DOMAIN conns' = DOMAIN conns \cup {Len(conns) + 1}
           /\ Len(conns) + 1 \notin DOMAIN conns
           /\ conns'[Len(conns) + 1] = conn
           /\ \A d \in DOMAIN conns : conns'[d] = conns[d]
<1> DEFINE S == ToSet(conns) \cup {conn}
<1>1. conns \in Seq(S) /\ conn \in S
  BY DEF ToSet
<1> HIDE DEF S
<1>2. /\ Len(conns) \in Nat /\ DOMAIN conns = 1..Len(conns)
      /\ conns' \in Seq(S)
      /\ Len(conns') = Len(conns) + 1 /\ DOMAIN conns' = 1..(Len(conns) + 1)
      /\ conns'[Len(conns) + 1] = conn
      /\ \A d \in 1..Len(conns) : conns'[d] = conns[d]
  BY <1>1
<1>4. conns' \in Seq(ToSet(conns'))
  BY <1>2, OfItsMembers
<1>5. 1..(Len(conns) + 1) = (1..Len(conns)) \cup {Len(conns) + 1}
      /\ Len(conns) + 1 \notin 1..Len(conns)
  BY <1>2
<1>6. DOMAIN conns' = DOMAIN conns \cup {Len(conns) + 1} /\ Len(conns) + 1 \notin DOMAIN conns
  BY <1>2, <1>5, Zenon
<1>7. \A d \in DOMAIN conns : conns'[d] = conns[d]
  BY <1>2, Zenon
<1> QED
  BY <1>2, <1>4, <1>6, <1>7, Zenon

ConnFields == {"by", "way", "async", "own", "stage", "port", "secured", "request", "response"}

\* Nothing is sent before the stream is there, at the port that was worked out for the
\* call, and wrapped exactly where the call has it wrapped.
Route(conn) ==
    /\ conn.stage \in {"dialling", "securing", "ready"} => conn.request = NoHeaders
    /\ conn.secured \in BOOLEAN
    /\ conn.stage \in {"dialling", "securing"} => ~conn.secured
    /\ conn.way # "on" =>
          /\ conn.stage \in {"securing", "ready"} \/ conn.request # NoHeaders =>
                url.host # "" /\ conn.port = Port(conn.way)
          /\ conn.stage = "securing" => Wraps(conn.way)
          /\ conn.stage = "ready" \/ conn.request # NoHeaders =>
                (conn.secured <=> Wraps(conn.way))

\* The request has the headers that build_request gives it.
Asking(conn, keys) ==
    conn.request # NoHeaders =>
        /\ conn.request = conn.own.headers
        /\ conn.request["connection"] = <<{"upgrade"}>>
        /\ conn.request["upgrade"] = <<{"websocket"}>>
        /\ ~conn.own.version_set => conn.request["version"] = <<"13">>
        /\ ~conn.own.key_set => conn.request["key"] \in {<<k>> : k \in keys}
        /\ url.host # "" => conn.request["host"] = <<HostText(url.host, UrlPort)>>

GoodConn(conn, keys) ==
    /\ DOMAIN conn = ConnFields /\ conn.by \in Builders /\ conn.way \in Ways
    /\ GoodOwn(conn.own)
    /\ Route(conn) /\ Asking(conn, keys)

ConnInv ==
    /\ conns \in Seq(ToSet(conns))
    /\ \A c \in DOMAIN conns : GoodConn(conns[c], drawn)

DrawnInv == url \in Urls /\ drawn \subseteq Keys \ CallerKeys

Inv == BuilderInv /\ ConnInv /\ DrawnInv /\ FreshKeys

LEMMA InitInv == Init => Inv
<1> SUFFICES ASSUME Init PROVE Inv
  OBVIOUS
<1>1. DOMAIN conns = {} /\ conns \in Seq(ToSet(conns))
  BY DEF Init
<1>2. url \in Urls /\ drawn = {}
  BY DEF Init
<1> QED
  BY <1>1, <1>2, InitBuilders DEF Inv, ConnInv, DrawnInv, FreshKeys

\* More keys drawn, the connection stays as good as it is.
LEMMA GoodStays ==
    ASSUME NEW conn, NEW keys, NEW more, keys \subseteq more, GoodConn(conn, keys)
    PROVE  GoodConn(conn, more)
<1>1. Asking(conn, more)
  BY DEF GoodConn, Asking
<1> QED
  BY <1>1 DEF GoodConn

\* And so it does from one state to the next: of the state it reads the URL only.
LEMMA GoodNext ==
    ASSUME url' = url, NEW d, GoodConn(conns'[d], drawn')
    PROVE  GoodConn(conns[d], drawn)'
<1>1. Route(conns[d])'
  <2>1. Route(conns'[d])
    BY DEF GoodConn
  <2>2. \A way : Wraps(way)' = Wraps(way)
    BY DEF Wraps
  <2>3. \A way : Port(way)' = Port(way)
    BY DEF Port, UrlPort
  <2> QED
    BY <2>1, <2>2, <2>3 DEF Route
<1>2. Asking(conns[d], drawn)'
  <2>1. Asking(conns'[d], drawn')
    BY DEF GoodConn
  <2> QED
    BY <2>1 DEF Asking, UrlPort
<1> QED
  BY <1>1, <1>2 DEF GoodConn

LEMMA ConnsNext ==
    ASSUME url' = url, conns' \in Seq(ToSet(conns')),
           \A d \in DOMAIN conns' : GoodConn(conns'[d], drawn')
    PROVE  ConnInv'
<1>1. (\A d \in DOMAIN conns : GoodConn(conns[d], drawn))'
  BY GoodNext
<1> QED
  BY <1>1, Zenon DEF ConnInv

LEMMA ConnsSame ==
    ASSUME ConnInv, UNCHANGED <<url, conns, drawn>>
    PROVE  ConnInv'
<1>1. conns' \in Seq(ToSet(conns'))
  BY DEF ConnInv
<1>2. \A d \in DOMAIN conns' : GoodConn(conns'[d], drawn')
  BY DEF ConnInv
<1> QED
  BY <1>1, <1>2, ConnsNext

\* The invariant of the connections, when one of them goes on.
LEMMA ConnKept ==
    ASSUME ConnInv, NEW c \in DOMAIN conns, NEW conn, Step(c, conn),
           drawn \subseteq drawn', GoodConn(conn, drawn')
    PROVE  /\ ConnInv' /\ DOMAIN conns' = DOMAIN conns /\ conns'[c] = conn
           /\ \A d \in DOMAIN conns \ {c} : conns'[d] = conns[d]
<1>1. /\ conns' \in Seq(ToSet(conns')) /\ DOMAIN conns' = DOMAIN conns /\ conns'[c] = conn
      /\ \A d \in DOMAIN conns \ {c} : conns'[d] = conns[d]
  BY ConnsStep DEF ConnInv, Step
<1>2. \A d \in DOMAIN conns' : GoodConn(conns'[d], drawn')
  BY <1>1, GoodStays DEF ConnInv
<1>3. url' = url
  BY DEF Step
<1>4. ConnInv'
  BY <1>1, <1>2, <1>3, ConnsNext
<1> QED
  BY <1>1, <1>4

-----------------------------------------------------------------------------
(* What build_request makes of a builder *)

LEMMA PutOther ==
    ASSUME NEW h, Settings(h), NEW n \in HeaderNames \ {"key", "version"}, NEW v
    PROVE  /\ Settings(Insert(h, n, v)) /\ Insert(h, n, v)[n] = <<v>>
           /\ \A m \in HeaderNames \ {n} : Insert(h, n, v)[m] = h[m]
<1>1. Settings(Insert(h, n, v))
  BY SettingsKept
<1>2. IsHeaders(h)
  BY DEF Settings
<1> QED
  BY <1>1, <1>2, Maps

LEMMA RequiredIs ==
    ASSUME NEW own, IsOwn(own)
    PROVE  LET h == Required(own) IN
           /\ Settings(h)
           /\ h["connection"] = <<{"upgrade"}>> /\ h["upgrade"] = <<{"websocket"}>>
           /\ h["key"] = own.headers["key"]
           /\ ~own.version_set => h["version"] = <<"13">>
           /\ url.host # "" => h["host"] = <<HostText(url.host, UrlPort)>>
<1> DEFINE h0 == own.headers
           h1 == IF url.host = "" THEN h0 ELSE Insert(h0, "host", HostText(url.host, UrlPort))
           h2 == Insert(h1, "connection", {"upgrade"})
           h3 == Insert(h2, "upgrade", {"websocket"})
           h4 == IF own.version_set THEN h3 ELSE Insert(h3, "version", "13")
<1>1. Required(own) = h4
  BY DEF Required
<1> DEFINE Kept(g) == g["key"] = h0["key"]
<1>2. /\ {"host", "connection", "upgrade"} \subseteq HeaderNames \ {"key", "version"}
      /\ {"host", "connection", "upgrade", "key", "version"} \subseteq HeaderNames
  BY DEF HeaderNames
<1>3. Settings(h0)
  BY DEF IsOwn
<1> HIDE DEF h0
<1>4. /\ Settings(h1) /\ Kept(h1)
      /\ url.host # "" => h1["host"] = <<HostText(url.host, UrlPort)>>
  <2> DEFINE v == HostText(url.host, UrlPort)
             g == Insert(h0, "host", v)
  <2>1. Settings(g) /\ g["host"] = <<v>> /\ Kept(g)
    BY <1>2, <1>3, PutOther
  <2> QED
    BY <1>3, <2>1
<1> HIDE DEF h1
<1>5. /\ Settings(h2) /\ Kept(h2) /\ h2["connection"] = <<{"upgrade"}>>
      /\ h2["host"] = h1["host"]
  <2>1. {"host"} \cup {"key"} \subseteq HeaderNames \ {"connection"}
    BY <1>2
  <2>2. /\ Settings(h2) /\ h2["connection"] = <<{"upgrade"}>>
        /\ \A m \in HeaderNames \ {"connection"} : h2[m] = h1[m]
    <3>1. "connection" \in HeaderNames \ {"key", "version"}
      BY <1>2
    <3>2. Settings(h1)
      BY <1>4, Zenon
    <3> QED
      BY <3>1, <3>2, PutOther
  <2> HIDE DEF h2
  <2> QED
    BY <1>4, <2>1, <2>2
<1> HIDE DEF h2
<1>6. /\ Settings(h3) /\ Kept(h3) /\ h3["connection"] = <<{"upgrade"}>>
      /\ h3["upgrade"] = <<{"websocket"}>> /\ h3["host"] = h1["host"]
  <2>1. {"host", "connection"} \cup {"key"} \subseteq HeaderNames \ {"upgrade"}
    BY <1>2
  <2>2. /\ Settings(h3) /\ h3["upgrade"] = <<{"websocket"}>>
        /\ \A m \in HeaderNames \ {"upgrade"} : h3[m] = h2[m]
    <3>1. "upgrade" \in HeaderNames \ {"key", "version"}
      BY <1>2
    <3>2. Settings(h2)
      BY <1>5, Zenon
    <3> QED
      BY <3>1, <3>2, PutOther
  <2> HIDE DEF h3
  <2> QED
    BY <1>5, <2>1, <2>2
<1> HIDE DEF h3
<1>7. /\ Settings(h4) /\ Kept(h4) /\ h4["connection"] = <<{"upgrade"}>>
      /\ h4["upgrade"] = <<{"websocket"}>> /\ h4["host"] = h1["host"]
      /\ ~own.version_set => h4["version"] = <<"13">>
  <2>1. CASE own.version_set
    BY <1>6, <2>1
  <2>2. CASE ~own.version_set
    <3>1. {"host", "connection", "upgrade"} \cup {"key"}
             \subseteq HeaderNames \ {"version"}
      BY <1>2
    <3>2. h4 = Insert(h3, "version", "13")
      BY <2>2
    <3> HIDE DEF h4
    <3>3. Settings(h4)
      BY <1>6, <3>2, SettingsKept
    <3>4. IsHeaders(h3)
      BY <1>6 DEF Settings
    <3>5. h4["version"] = <<"13">> /\ \A m \in HeaderNames \ {"version"} : h4[m] = h3[m]
      BY <1>2, <3>2, <3>4, Maps
    <3> QED
      BY <1>6, <2>2, <3>1, <3>3, <3>5
  <2> QED
    BY <2>1, <2>2
<1> QED
  BY <1>1, <1>4, <1>7 DEF h0

LEMMA BuildIs ==
    ASSUME NEW own, GoodOwn(own), NEW k \in Keys \ CallerKeys
    PROVE  LET built == Build(own, k) IN
           /\ GoodOwn(built)
           /\ built.key_set = own.key_set /\ built.version_set = own.version_set
           /\ built.headers # NoHeaders
           /\ built.headers["connection"] = <<{"upgrade"}>>
           /\ built.headers["upgrade"] = <<{"websocket"}>>
           /\ ~own.version_set => built.headers["version"] = <<"13">>
           /\ own.key_set => built.headers["key"] = own.headers["key"]
           /\ ~own.key_set => built.headers["key"] = <<k>>
           /\ url.host # "" => built.headers["host"] = <<HostText(url.host, UrlPort)>>
<1> DEFINE h == Required(own)
           h1 == IF own.key_set THEN h ELSE Insert(h, "key", k)
           built == Build(own, k)
<1>1. /\ Settings(h)
      /\ h["connection"] = <<{"upgrade"}>> /\ h["upgrade"] = <<{"websocket"}>>
      /\ h["key"] = own.headers["key"]
      /\ ~own.version_set => h["version"] = <<"13">>
      /\ url.host # "" => h["host"] = <<HostText(url.host, UrlPort)>>
  BY RequiredIs DEF GoodOwn
<1>2. /\ DOMAIN built = OwnFields /\ built.gone = FALSE /\ built.headers = h1
      /\ built.key_set = own.key_set /\ built.version_set = own.version_set
  BY DEF Build, GoodOwn, IsOwn, OwnFields
<1>3. k \in Keys \cup {Malformed}
      /\ {"host", "connection", "upgrade", "version"} \subseteq HeaderNames \ {"key"}
      /\ "key" \in HeaderNames
  BY DEF HeaderNames
<1> HIDE DEF h, built
<1>4. Settings(h1)
  BY <1>1, <1>3, SettingsKept
<1>5. /\ \A n \in {"host", "connection", "upgrade", "version"} : h1[n] = h[n]
      /\ own.key_set => h1["key"] = h["key"]
      /\ ~own.key_set => h1["key"] = <<k>>
  <2>1. IsHeaders(h)
    BY <1>1 DEF Settings
  <2>2. /\ Insert(h, "key", k)["key"] = <<k>>
        /\ \A n \in HeaderNames \ {"key"} : Insert(h, "key", k)[n] = h[n]
    BY <1>3, <2>1, Maps
  <2> QED
    BY <1>3, <2>2
<1> HIDE DEF h1
<1>6. CallersKey(built)
  <2>1. own.key_set => built.headers["key"] = own.headers["key"]
    BY <1>1, <1>2, <1>5
  <2> QED
    BY <1>2, <2>1 DEF GoodOwn, CallersKey
<1>7. h1 # NoHeaders
  <2>1. \A x : <<x>> # <<>>
    OBVIOUS
  <2>2. h1["upgrade"] # <<>>
    BY <1>1, <1>5, <2>1
  <2> QED
    BY <1>3, <2>2, NoHeadersAre
<1> QED
  BY <1>1, <1>2, <1>4, <1>5, <1>6, <1>7 DEF GoodOwn, IsOwn, built

(* The steps *)

\* A step of one connection that neither draws a key nor sends a request.
LEMMA StepKept ==
    ASSUME Inv, NEW c \in DOMAIN conns, NEW conn, Step(c, conn), UNCHANGED <<builder, drawn>>,
           GoodConn(conn, drawn), conn.request = conns[c].request
    PROVE  Inv'
<1>1. /\ ConnInv' /\ DOMAIN conns' = DOMAIN conns /\ conns'[c] = conn
      /\ \A d \in DOMAIN conns \ {c} : conns'[d] = conns[d]
  BY ConnKept DEF Inv
<1>2. BuilderInv' /\ DrawnInv'
  <2>1. url' = url
    BY DEF Step
  <2> QED
    BY <2>1 DEF Inv, BuilderInv, DrawnInv
<1>3. FreshKeys'
  <2>1. \A d \in DOMAIN conns : conns'[d].request = conns[d].request
    BY <1>1
  <2> QED
    BY <1>1, <2>1 DEF Inv, FreshKeys
<1> QED
  BY <1>1, <1>2, <1>3 DEF Inv

LEMMA GoodAt ==
    ASSUME Inv, NEW c \in DOMAIN conns
    PROVE  GoodConn(conns[c], drawn) /\ DOMAIN conns[c] = ConnFields
BY DEF Inv, ConnInv, GoodConn

\* A connection that has its answer or comes to an end.
LEMMA EntersKept ==
    ASSUME Inv, NEW c \in DOMAIN conns, NEW stage,
           stage \notin {"dialling", "securing", "ready"}, Enters(c, stage),
           UNCHANGED <<builder, drawn>>
    PROVE  Inv'
<1> DEFINE old == conns[c]
           new == [old EXCEPT !.stage = stage]
<1>1. GoodConn(old, drawn) /\ DOMAIN old = ConnFields
  BY GoodAt
<1> HIDE DEF old
<1>2. /\ DOMAIN new = ConnFields /\ new.stage = stage
      /\ \A f \in ConnFields \ {"stage"} : new[f] = old[f]
  BY <1>1 DEF ConnFields
<1> HIDE DEF new
<1>3. GoodConn(new, drawn)
  BY <1>1, <1>2 DEF GoodConn, Route, Asking, ConnFields
<1>4. Step(c, new) /\ new.request = old.request
  BY <1>2 DEF Enters, new, old, ConnFields
<1> QED
  BY <1>3, <1>4, StepKept DEF old

LEMMA DialledKept ==
    ASSUME Inv, NEW c \in DOMAIN conns, Dialled(c) \/ Secured(c)
    PROVE  Inv'
<1> DEFINE old == conns[c]
<1>1. GoodConn(old, drawn) /\ DOMAIN old = ConnFields
  BY GoodAt
<1>2. CASE Dialled(c)
  <2> DEFINE stage == IF Wraps(old.way) THEN "securing" ELSE "ready"
             port == Port(old.way)
             new == [old EXCEPT !.stage = stage, !.port = port]
  <2>1. old.stage = "dialling" /\ url.host # "" /\ Step(c, new) /\ UNCHANGED <<builder, drawn>>
    BY <1>2 DEF Dialled, At
  <2> HIDE DEF old
  <2>2. /\ DOMAIN new = ConnFields /\ new.stage = stage /\ new.port = port
        /\ \A f \in ConnFields \ {"stage", "port"} : new[f] = old[f]
    BY <1>1 DEF ConnFields
  <2> HIDE DEF new
  <2>3. old.request = NoHeaders /\ old.secured \in BOOLEAN /\ ~old.secured
    BY <1>1, <2>1 DEF GoodConn, Route
  <2>4. Route(new)
    <3>1. new.request = NoHeaders /\ new.secured = old.secured /\ new.way = old.way
      BY <2>2, <2>3 DEF ConnFields
    <3>2. new.stage \in {"securing", "ready"} /\ (new.stage = "securing" <=> Wraps(new.way))
      BY <2>2, <3>1
    <3> QED
      BY <2>1, <2>2, <2>3, <3>1, <3>2 DEF Route
  <2>5. GoodConn(new, drawn)
    BY <1>1, <2>2, <2>4 DEF GoodConn, Asking, ConnFields
  <2>6. new.request = old.request
    BY <2>2 DEF ConnFields
  <2> QED
    BY <2>1, <2>5, <2>6, StepKept DEF old
<1>3. CASE Secured(c)
  <2> DEFINE new == [old EXCEPT !.stage = "ready", !.secured = TRUE]
  <2>1. old.stage = "securing" /\ Step(c, new) /\ UNCHANGED <<builder, drawn>>
    BY <1>3 DEF Secured, At
  <2> HIDE DEF old
  <2>2. /\ DOMAIN new = ConnFields /\ new.stage = "ready" /\ new.secured = TRUE
        /\ \A f \in ConnFields \ {"stage", "secured"} : new[f] = old[f]
    BY <1>1 DEF ConnFields
  <2> HIDE DEF new
  <2>3. Route(new)
    BY <1>1, <2>1, <2>2 DEF GoodConn, Route, ConnFields
  <2>4. GoodConn(new, drawn)
    BY <1>1, <2>2, <2>3 DEF GoodConn, Asking, ConnFields
  <2>5. new.request = old.request
    BY <2>2 DEF ConnFields
  <2> QED
    BY <2>1, <2>4, <2>5, StepKept DEF old
<1> QED
  BY <1>2, <1>3

LEMMA AnswersKept ==
    ASSUME Inv, NEW c \in DOMAIN conns, Answers(c) \/ ForeignAnswers(c)
    PROVE  Inv'
<1> DEFINE old == conns[c]
<1>1. GoodConn(old, drawn) /\ DOMAIN old = ConnFields
  BY GoodAt
<1>2. PICK response : /\ Step(c, [old EXCEPT !.stage = "answered", !.response = response])
                      /\ UNCHANGED <<builder, drawn>>
  BY DEF Answers, ForeignAnswers
<1> DEFINE new == [old EXCEPT !.stage = "answered", !.response = response]
<1>3. Step(c, new)
  BY <1>2
<1> HIDE DEF old
<1>4. /\ DOMAIN new = ConnFields /\ new.stage = "answered"
      /\ \A f \in ConnFields \ {"stage", "response"} : new[f] = old[f]
  BY <1>1 DEF ConnFields
<1> HIDE DEF new
<1>5. GoodConn(new, drawn)
  BY <1>1, <1>4 DEF GoodConn, Route, Asking, ConnFields
<1>6. new.request = old.request
  BY <1>4 DEF ConnFields
<1> QED
  BY <1>2, <1>3, <1>5, <1>6, StepKept DEF old

\* A key of another connection's request is another key: the one the caller set, which
\* is never drawn, or one that was drawn before.
LEMMA SendRequestKept ==
    ASSUME Inv, NEW c \in DOMAIN conns, SendRequest(c)
    PROVE  Inv'
<1> DEFINE old == conns[c]
           own == old.own
<1>1. GoodConn(old, drawn) /\ DOMAIN old = ConnFields /\ GoodOwn(own) /\ old.by \in Builders
  BY GoodAt DEF GoodConn
<1>2. old.stage = "ready"
  BY DEF SendRequest, At
<1>3. PICK k \in Keys \ (drawn \cup CallerKeys) :
         /\ LET panics == old.async /\ Unreadable(Build(own, k).headers) IN
            Step(c, [old EXCEPT !.stage = IF panics THEN "panicked" ELSE "waiting",
                                !.request = IF panics THEN @ ELSE Build(own, k).headers,
                                !.own = Build(own, k)])
         /\ drawn' = IF Build(own, k).key_set THEN drawn ELSE drawn \cup {k}
         /\ builder' = IF old.async THEN builder
                       ELSE [builder EXCEPT ![old.by] = Build(own, k)]
  BY DEF SendRequest
<1> DEFINE built == Build(own, k)
           panics == old.async /\ Unreadable(built.headers)
           new == [old EXCEPT !.stage = IF panics THEN "panicked" ELSE "waiting",
                              !.request = IF panics THEN @ ELSE built.headers,
                              !.own = built]
<1>4. /\ GoodOwn(built)
      /\ built.key_set = own.key_set /\ built.version_set = own.version_set
      /\ built.headers # NoHeaders
      /\ built.headers["connection"] = <<{"upgrade"}>>
      /\ built.headers["upgrade"] = <<{"websocket"}>>
      /\ ~own.version_set => built.headers["version"] = <<"13">>
      /\ own.key_set => built.headers["key"] = own.headers["key"]
      /\ ~own.key_set => built.headers["key"] = <<k>>
      /\ url.host # "" => built.headers["host"] = <<HostText(url.host, UrlPort)>>
  <2>1. k \in Keys \ CallerKeys
    BY <1>3
  <2> HIDE DEF old
  <2> QED
    BY <1>1, <2>1, BuildIs
<1>5. Step(c, new)
  BY <1>3
<1>5a. old.request = NoHeaders
  BY <1>1, <1>2 DEF GoodConn, Route
<1> HIDE DEF old, built, panics
<1>6. /\ DOMAIN new = ConnFields /\ new.stage \in {"waiting", "panicked"}
      /\ new.request \in {NoHeaders, built.headers} /\ new.own = built
      /\ \A f \in ConnFields \ {"stage", "request", "own"} : new[f] = old[f]
  BY <1>1, <1>5a DEF ConnFields
<1> HIDE DEF new
<1>7. drawn \subseteq drawn' /\ drawn' \subseteq drawn \cup {k}
  BY <1>3
<1>7a. ~own.key_set => k \in drawn' /\ built.headers["key"] = <<k>>
  BY <1>3, <1>4 DEF built
<1>7b. DrawnInv'
  <2>1. url' = url
    BY <1>5 DEF Step
  <2> QED
    BY <1>3, <1>7, <2>1 DEF Inv, DrawnInv
<1>8. Route(new)
  BY <1>1, <1>2, <1>6 DEF GoodConn, Route, ConnFields
<1>9. Asking(new, drawn')
  <2>1. ~own.key_set => built.headers["key"] \in {<<x>> : x \in drawn'}
    BY <1>7a
  <2> QED
    BY <1>4, <1>6, <2>1 DEF Asking
<1>11. GoodConn(new, drawn')
  BY <1>1, <1>4, <1>6, <1>8, <1>9 DEF GoodConn, ConnFields
<1>12. /\ ConnInv' /\ DOMAIN conns' = DOMAIN conns /\ conns'[c] = new
       /\ \A d \in DOMAIN conns \ {c} : conns'[d] = conns[d]
  <2>1. ConnInv
    BY DEF Inv
  <2> QED
    BY <1>5, <1>7, <1>11, <2>1, ConnKept, Zenon
<1>13. BuilderInv'
  BY <1>1, <1>3, <1>4 DEF Inv, BuilderInv, built
<1>14. FreshKeys'
  <2> DEFINE Other(d) == conns[d].request["key"]
  <2>1. ASSUME NEW d \in DOMAIN conns, NEW x \in Keys \ CallerKeys, Other(d) = <<x>>
        PROVE  x \in drawn
    <3>1. GoodConn(conns[d], drawn)
      BY GoodAt
    <3>2. NoHeaders["key"] = <<>> /\ <<>> # <<x>>
      BY NoHeadersAre DEF HeaderNames
    <3>3. conns[d].request # NoHeaders
      BY <2>1, <3>2
    <3>4. CallersKey(conns[d].own) /\ Asking(conns[d], drawn)
      BY <3>1 DEF GoodConn, GoodOwn
    <3>5. ~conns[d].own.key_set
      BY <2>1, <3>3, <3>4 DEF Asking, CallersKey
    <3>6. PICK y \in drawn : conns[d].request["key"] = <<y>>
      BY <3>3, <3>4, <3>5 DEF Asking
    <3> QED
      BY <2>1, <3>6
  <2>2. k \in Keys \ CallerKeys /\ k \notin drawn /\ drawn \subseteq Keys \ CallerKeys
    BY <1>3 DEF Inv, DrawnInv
  <2>3. ASSUME NEW x \in Keys \ CallerKeys, new.request["key"] = <<x>>
        PROVE  x = k /\ k \in drawn'
    <3>0. NoHeaders["key"] = <<>> /\ <<>> # <<x>>
      BY NoHeadersAre DEF HeaderNames
    <3>1. CallersKey(built) /\ built.headers["key"] = <<x>>
      BY <1>4, <1>6, <2>3, <3>0 DEF GoodOwn
    <3>2. ~built.key_set
      BY <3>1 DEF CallersKey
    <3>3. <<k>> = <<x>> /\ k \in drawn'
      BY <1>4, <1>7a, <3>1, <3>2
    <3> QED
      BY <3>3
  <2>4. SUFFICES ASSUME NEW d \in DOMAIN conns, NEW e \in DOMAIN conns, d # e,
                        NEW x \in drawn', conns'[d].request["key"] = <<x>>,
                        conns'[e].request["key"] = <<x>>
                 PROVE  FALSE
    BY <1>12 DEF FreshKeys
  <2>5. x \in Keys \ CallerKeys
    BY <1>7, <2>2
  <2>6. CASE d = c
    BY <1>12, <2>1, <2>2, <2>3, <2>4, <2>5, <2>6
  <2>7. CASE e = c
    BY <1>12, <2>1, <2>2, <2>3, <2>4, <2>5, <2>7
  <2>8. CASE d # c /\ e # c
    <3>1. Other(d) = <<x>> /\ Other(e) = <<x>> /\ x \in drawn
      BY <1>12, <2>1, <2>4, <2>5, <2>8
    <3> QED
      BY <2>4, <3>1 DEF Inv, FreshKeys
  <2> QED
    BY <2>6, <2>7, <2>8
<1> QED
  BY <1>7b, <1>12, <1>13, <1>14 DEF Inv

LEMMA ConnectKept ==
    ASSUME Inv, NEW b \in Builders, NEW way \in Ways, NEW async \in BOOLEAN,
           Connect(b, way, async)
    PROVE  Inv'
<1> DEFINE new == [by |-> b, way |-> way, async |-> async, own |-> builder[b],
                   stage |-> IF way = "on" THEN "ready" ELSE "dialling",
                   port |-> NoPort, secured |-> FALSE,
                   request |-> NoHeaders, response |-> NoHeaders]
           n == Len(conns) + 1
<1>1. GoodOwn(builder[b])
  BY FreeGood DEF Inv, Connect
<1>2. conns' = Append(conns, new) /\ UNCHANGED <<url, drawn>>
  BY DEF Connect
<1>3. NoHeaders["key"] = <<>>
  BY NoHeadersAre DEF HeaderNames
<1>4. GoodConn(new, drawn)
  <2>1. DOMAIN new = ConnFields
    BY DEF ConnFields
  <2>2. Route(new)
    BY DEF Route
  <2>3. Asking(new, drawn)
    BY DEF Asking
  <2> QED
    BY <1>1, <2>1, <2>2, <2>3 DEF GoodConn
<1>5. new.request = NoHeaders
  OBVIOUS
<1> HIDE DEF new
<1>6. /\ conns' \in Seq(ToSet(conns'))
      /\ DOMAIN conns' = DOMAIN conns \cup {n} /\ n \notin DOMAIN conns
      /\ conns'[n] = new
      /\ \A d \in DOMAIN conns : conns'[d] = conns[d]
  BY <1>2, ConnsAppend DEF Inv, ConnInv
<1> HIDE DEF n
<1>7. ConnInv'
  <2>1. \A d \in DOMAIN conns' : GoodConn(conns'[d], drawn')
    BY <1>2, <1>4, <1>6 DEF Inv, ConnInv
  <2> QED
    BY <1>2, <1>6, <2>1, ConnsNext
<1>8. BuilderInv'
  BY DEF Inv, BuilderInv, Connect, Gone
<1>9. FreshKeys'
  <2>1. conns'[n].request["key"] = <<>> /\ \A x : <<>> # <<x>>
    BY <1>3, <1>5, <1>6
  <2>2. SUFFICES ASSUME NEW d \in DOMAIN conns', NEW e \in DOMAIN conns', d # e,
                        NEW x \in drawn, conns'[d].request["key"] = <<x>>,
                        conns'[e].request["key"] = <<x>>
                 PROVE  FALSE
    BY <1>2 DEF FreshKeys
  <2>3. d # n /\ e # n
    BY <2>1, <2>2, Zenon
  <2>4. d \in DOMAIN conns /\ e \in DOMAIN conns
    BY <1>6, <2>2, <2>3, Zenon
  <2>5. conns[d].request["key"] = <<x>> /\ conns[e].request["key"] = <<x>>
    BY <1>6, <2>2, <2>4
  <2>6. conns[d].request["key"] \in {<<k>> : k \in drawn}
    BY <2>2, <2>5
  <2>7. FreshKeys
    BY DEF Inv
  <2> QED
    BY <2>2, <2>4, <2>5, <2>6, <2>7, Zenon DEF FreshKeys
<1>10. DrawnInv'
  BY <1>2 DEF Inv, DrawnInv
<1> QED
  BY <1>7, <1>8, <1>9, <1>10 DEF Inv

LEMMA NextInv ==
    ASSUME Inv, [Next]_vars
    PROVE  Inv'
<1>1. CASE Configuring
  <2>1. BuilderInv' /\ UNCHANGED <<url, conns, drawn>>
    BY <1>1, ConfiguringKept DEF Inv
  <2>2. ConnInv'
    <3>1. url' = url /\ conns' = conns /\ drawn' = drawn /\ ConnInv
      BY <2>1 DEF Inv
    <3> QED
      BY <3>1, ConnsSame
  <2>3. DrawnInv' /\ FreshKeys'
    BY <2>1 DEF Inv, DrawnInv, FreshKeys
  <2> QED
    BY <2>1, <2>2, <2>3 DEF Inv
<1>2. ASSUME NEW b \in Builders, NEW way \in Ways, NEW async \in BOOLEAN, Connect(b, way, async)
      PROVE  Inv'
  BY <1>2, ConnectKept
<1>3. ASSUME NEW c \in DOMAIN conns, DialFails(c) \/ TlsFails(c) \/ ServerLeaves(c) \/ Validates(c)
      PROVE  Inv'
  <2>1. PICK stage \in {"failed", "spinning", "open"} :
           Enters(c, stage) /\ UNCHANGED <<builder, drawn>>
    BY <1>3 DEF DialFails, TlsFails, Fail, ServerLeaves, Validates
  <2> QED
    BY <2>1, EntersKept
<1>4. ASSUME NEW c \in DOMAIN conns, Dialled(c) \/ Secured(c)
      PROVE  Inv'
  BY <1>4, DialledKept
<1>5. ASSUME NEW c \in DOMAIN conns, SendRequest(c)
      PROVE  Inv'
  BY <1>5, SendRequestKept
<1>6. ASSUME NEW c \in DOMAIN conns, Answers(c) \/ ForeignAnswers(c)
      PROVE  Inv'
  BY <1>6, AnswersKept
<1>7. CASE UNCHANGED vars
  <2>1. UNCHANGED <<url, builder, conns, drawn, calls>>
    BY <1>7 DEF vars
  <2>2. BuilderInv'
    BY <2>1 DEF Inv, BuilderInv
  <2>3. ConnInv'
    BY <2>1, ConnsSame DEF Inv
  <2>4. DrawnInv' /\ FreshKeys'
    BY <2>1 DEF Inv, DrawnInv, FreshKeys
  <2> QED
    BY <2>2, <2>3, <2>4 DEF Inv
<1> QED
  BY <1>1, <1>2, <1>3, <1>4, <1>5, <1>6, <1>7 DEF Next, Connecting

\* What builders and connections hold between any two calls: the headers match the flags
\* (key_set, version_set), a request is what build_request made of them, and every key
\* is a caller's or drawn once.
THEOREM BuilderInvariant == Spec => []Inv
<1>1. Inv /\ [Next]_vars => Inv'
  BY NextInv
<1> QED
  BY <1>1, InitInv, PTL DEF Spec

\* What RequestOf reads of a request that was sent.
LEMMA RequestIs ==
    ASSUME Inv, NEW c \in DOMAIN conns, Sent(c)
    PROVE  LET conn == conns[c]
               r == RequestOf(conn.request)
           IN  /\ r = BuildRequest(r.key, r.version)
               /\ r.key \in Keys \cup {Absent, Malformed}
               /\ r.version \in {Absent, "13", "other", Opaque}
               /\ ~conn.own.version_set => r.version = "13"
               /\ ~conn.own.key_set =>
                     r.key # Absent /\ conn.request["key"] \in {<<k>> : k \in drawn}
<1> DEFINE conn == conns[c]
           h == conn.request
           r == RequestOf(h)
<1>1. GoodConn(conn, drawn) /\ h # NoHeaders
  BY GoodAt DEF Sent
<1> HIDE DEF conn
<1>2. /\ GoodOwn(conn.own) /\ h = conn.own.headers
      /\ h["connection"] = <<{"upgrade"}>> /\ h["upgrade"] = <<{"websocket"}>>
      /\ ~conn.own.version_set => h["version"] = <<"13">>
      /\ ~conn.own.key_set => h["key"] \in {<<k>> : k \in drawn}
  BY <1>1 DEF GoodConn, Asking
<1>3. h["key"] \in Seq(Keys \cup {Malformed})
      /\ h["version"] \in Seq({"13", "other", Opaque})
  BY <1>2 DEF GoodOwn, IsOwn, Settings, KeyValues, VersionValues
<1> HIDE DEF h
<1>4. r.connection = {"upgrade"} /\ r.upgrade = {"websocket"}
  BY <1>2 DEF RequestOf, First, Has, Get
<1>5. r = BuildRequest(r.key, r.version)
  BY <1>4 DEF RequestOf, BuildRequest
<1>6. r.key = (IF h["key"] # <<>> THEN h["key"][1] ELSE Absent)
      /\ r.version = (IF h["version"] # <<>> THEN h["version"][1] ELSE Absent)
  BY DEF RequestOf, First, Has, Get
<1> HIDE DEF r
<1>7. h["key"] # <<>> => h["key"][1] \in Keys \cup {Malformed}
  BY <1>3
<1>8. h["version"] # <<>> => h["version"][1] \in {"13", "other", Opaque}
  BY <1>3
<1>9. ASSUME ~conn.own.version_set PROVE r.version = "13"
  <2>1. h["version"] = <<"13">>
    BY <1>2, <1>9
  <2> QED
    BY <1>6, <2>1
<1>10. ASSUME ~conn.own.key_set PROVE r.key # Absent
  <2>1. PICK k \in drawn : h["key"] = <<k>>
    BY <1>2, <1>10
  <2>2. r.key = k
    BY <1>6, <2>1
  <2>3. drawn \subseteq Keys
    BY DEF Inv, DrawnInv
  <2> QED
    BY <2>2, <2>3, HeadAssumption
<1> QED
  BY <1>2, <1>5, <1>6, <1>7, <1>8, <1>9, <1>10 DEF r, h, conn

-----------------------------------------------------------------------------
(* What follows *)

\* No two requests ever carry the same drawn key (the key of the last request stays in
\* a builder that is used again or cloned, and build_request draws another).
THEOREM KeysAreFresh == Spec => []FreshKeys
<1>1. Inv => FreshKeys
  BY DEF Inv
<1> QED
  BY <1>1, BuilderInvariant, PTL

\* A request whose key and version are left to the crate is one its server takes,
\* whatever the calls and the requests before it (build_request, validate).
THEOREM RequestsTaken == Spec => []RequestsAreTaken
<1>1. Inv => RequestsAreTaken
  <2> SUFFICES ASSUME Inv, NEW c \in DOMAIN conns, Sent(c),
                      ~conns[c].own.key_set, ~conns[c].own.version_set
               PROVE  /\ Valid(RequestOf(conns[c].request))
                      /\ conns[c].request["key"] \in {<<k>> : k \in drawn}
    BY DEF RequestsAreTaken
  <2> DEFINE r == RequestOf(conns[c].request)
  <2>1. /\ r = BuildRequest(r.key, r.version) /\ r.version = "13" /\ r.key # Absent
        /\ conns[c].request["key"] \in {<<k>> : k \in drawn}
    BY RequestIs
  <2> HIDE DEF r
  <2>2. /\ r.get = TRUE /\ r.upgrade = {"websocket"} /\ r.connection = {"upgrade"}
    BY <2>1 DEF BuildRequest
  <2>3. Valid(r)
    BY <2>1, <2>2 DEF Valid, NamesWebSocket, NamesUpgrade
  <2> QED
    BY <2>1, <2>3 DEF r
<1> QED
  BY <1>1, BuilderInvariant, PTL

\* The port that is dialled suits the stream and the URL, and the Host header names it,
\* but for the ports 80 and 443 where the call or the URL has them on the other kind of
\* stream (extract_host_port, connect, connect_secure, connect_insecure, build_request).
THEOREM PortsDoAgree == Spec => []PortsAgree
<1>1. Inv => PortsAgree
  <2> SUFFICES ASSUME Inv, NEW c \in DOMAIN conns, Sent(c), conns[c].way # "on"
               PROVE  LET conn == conns[c]
                          host == Get(conn.request, "host")
                          read == IF host.port = NoPort THEN Default(conn.secured) ELSE host.port
                      IN  /\ url.written = NoPort => (conn.port = 443 <=> conn.secured)
                          /\ url.written # NoPort =>
                                (conn.port = url.written <=>
                                    url.written # Default(url.secure) \/ conn.secured = url.secure)
                          /\ host.name = url.host
                          /\ read = conn.port <=> conn.port # Default(~conn.secured)
    BY DEF PortsAgree
  <2> DEFINE conn == conns[c]
             host == Get(conn.request, "host")
  <2>1. GoodConn(conn, drawn) /\ conn.request # NoHeaders /\ conn.way \in Ways
    BY GoodAt DEF Sent, GoodConn
  <2>4. url.secure \in BOOLEAN /\ url.written \in Nat \cup {NoPort}
    BY BuilderAssumption DEF Inv, DrawnInv
  <2> HIDE DEF conn
  <2>2. /\ conn.port = Port(conn.way)
        /\ conn.secured \in BOOLEAN /\ (conn.secured <=> Wraps(conn.way))
        /\ conn.request["host"] = <<HostText(url.host, UrlPort)>>
    BY <2>1 DEF GoodConn, Route, Asking, conn
  <2>3. host = [name |-> url.host, port |-> IF UrlPort \in {80, 443} THEN NoPort ELSE UrlPort]
    <3>1. \A h, x : h["host"] = <<x>> => Get(h, "host") = x
      BY DEF Get
    <3> QED
      BY <2>2, <3>1 DEF HostText
  <2> DEFINE port == conn.port
             secured == conn.secured
             written == url.written
             own == Default(url.secure)
  <2>5. /\ written # own /\ written # NoPort => port = written /\ host.port =
              IF written \in {80, 443} THEN NoPort ELSE written
        /\ written = own \/ written = NoPort => port = Default(secured) /\ host.port = NoPort
    BY <2>1, <2>2, <2>3, <2>4 DEF Port, Wraps, UrlPort, Ways, NoPort
  <2>6. host.name = url.host
    BY <2>3
  <2> HIDE DEF host, port, secured, written
  <2>7. secured \in BOOLEAN /\ written \in Nat \cup {NoPort} /\ url.secure \in BOOLEAN
    BY <2>2, <2>4 DEF secured, written
  <2> QED
    BY <2>5, <2>6, <2>7 DEF Default, NoPort, port, secured, written, host, conn
<1> QED
  BY <1>1, BuilderInvariant, PTL

-----------------------------------------------------------------------------
(* The opening handshake of the blocking half: what the two sides send *)

Piece ==
    [part : {"start", "header", "blank", "bare", "opaque", "debug", "begin", "data"}, k : Nat]

HeadLists == ForeignHeads \cup {DebugHead}

\* What a side sends, by its place: the lines of its head, H, then data.
PieceAt(H, i) == IF i <= Len(H) THEN H[i] ELSE DataByte(i - Len(H))

\* q holds the pieces behind the first n, in order.
Run(q, n, H) == \A i \in 1..Len(q) : q[i] = PieceAt(H, n + i)

LEMMA Joined ==
    ASSUME NEW q \in Seq(Piece), NEW r \in Seq(Piece)
    PROVE  q \o r \in Seq(Piece) /\ Len(q \o r) = Len(q) + Len(r)
OBVIOUS

LEMMA HeadListsTyped ==
    ASSUME NEW H \in HeadLists
    PROVE  H \in Seq(Piece) /\ Len(H) \in 2..4
<1>1. \A part \in {"start", "header", "blank", "bare", "opaque", "debug"} : Line(part) \in Piece
  BY DEF Line, Piece
<1>2. WholeHead \in Seq(Piece) /\ Len(WholeHead) = 3
  BY <1>1 DEF WholeHead
<1>3. DebugHead \in Seq(Piece) /\ Len(DebugHead) = 2
  BY <1>1 DEF DebugHead
<1>4. <<Line("start"), Line("header"), Line("bare")>> \in Seq(Piece)
  BY <1>1
<1>5. <<Line("start"), Line("opaque"), Line("blank")>> \in Seq(Piece)
  BY <1>1
<1>6. <<Line("blank")>> \in Seq(Piece) /\ Len(<<Line("blank")>>) = 1
  BY <1>1
<1>7. <<Line("blank")>> \o WholeHead \in Seq(Piece) /\ Len(<<Line("blank")>> \o WholeHead) = 4
  <2> DEFINE q == <<Line("blank")>>
  <2>1. q \in Seq(Piece) /\ Len(q) = 1
    BY <1>6
  <2> HIDE DEF q
  <2>2. q \o WholeHead \in Seq(Piece) /\ Len(q \o WholeHead) = 1 + 3
    BY <1>2, <2>1, Joined
  <2> QED
    BY <2>2 DEF q
<1>8. /\ Len(<<Line("start"), Line("header"), Line("bare")>>) = 3
      /\ Len(<<Line("start"), Line("opaque"), Line("blank")>>) = 3
  OBVIOUS
<1>9. CASE H = WholeHead
  BY <1>2, <1>9
<1>10. CASE H = DebugHead
  BY <1>3, <1>10
<1>11. CASE H = <<Line("blank")>> \o WholeHead
  BY <1>7, <1>11
<1>12. CASE H = <<Line("start"), Line("header"), Line("bare")>>
  BY <1>4, <1>8, <1>12
<1>13. CASE H = <<Line("start"), Line("opaque"), Line("blank")>>
  BY <1>5, <1>8, <1>13
<1> QED
  BY <1>9, <1>10, <1>11, <1>12, <1>13 DEF HeadLists, ForeignHeads

\* Both ends of a sequence that is cut are in order.
LEMMA RunCut ==
    ASSUME NEW q \in Seq(Piece), NEW n \in Nat, NEW H, Run(q, n, H), NEW m \in 0..Len(q)
    PROVE  /\ SubSeq(q, 1, m) \in Seq(Piece) /\ Len(SubSeq(q, 1, m)) = m
           /\ Run(SubSeq(q, 1, m), n, H)
           /\ SubSeq(q, m + 1, Len(q)) \in Seq(Piece)
           /\ Len(SubSeq(q, m + 1, Len(q))) = Len(q) - m
           /\ Run(SubSeq(q, m + 1, Len(q)), n + m, H)
<1> DEFINE a == SubSeq(q, 1, m)
           b == SubSeq(q, m + 1, Len(q))
<1>1. a \in Seq(Piece) /\ Len(a) = m /\ \A i \in 1..m : a[i] = q[i]
  <2>1. a \in Seq(Piece) /\ Len(a) = m
    OBVIOUS
  <2>2. \A i \in 1..m : a[i] = q[i]
    OBVIOUS
  <2> QED
    BY <2>1, <2>2
<1>2. b \in Seq(Piece) /\ Len(b) = Len(q) - m /\ \A i \in 1..Len(b) : b[i] = q[m + i]
  <2>1. b \in Seq(Piece) /\ Len(b) = Len(q) - m
    OBVIOUS
  <2>2. \A i \in 1..(Len(q) - m) : b[i] = q[m + i]
    OBVIOUS
  <2> HIDE DEF b
  <2> QED
    BY <2>1, <2>2
<1> HIDE DEF a, b
<1>3. Run(a, n, H)
  <2> SUFFICES ASSUME NEW i \in 1..Len(a) PROVE a[i] = PieceAt(H, n + i)
    BY DEF Run
  <2>1. i \in 1..m /\ i \in 1..Len(q)
    BY <1>1
  <2> QED
    BY <1>1, <2>1 DEF Run
<1>4. ASSUME NEW i \in 1..Len(b) PROVE b[i] = PieceAt(H, (n + m) + i)
  <2>1. m + i \in 1..Len(q) /\ n + (m + i) = (n + m) + i
    BY <1>2
  <2>2. q[m + i] = PieceAt(H, n + (m + i))
    BY <2>1 DEF Run
  <2> QED
    BY <1>2, <2>1, <2>2
<1>5. Run(b, n + m, H)
  BY <1>4 DEF Run
<1> QED
  BY <1>1, <1>2, <1>3, <1>5, Zenon DEF a, b

\* What comes next can be put behind.
LEMMA RunJoin ==
    ASSUME NEW q \in Seq(Piece), NEW r \in Seq(Piece), NEW n \in Nat, NEW H,
           Run(q, n, H), Run(r, n + Len(q), H)
    PROVE  /\ q \o r \in Seq(Piece) /\ Len(q \o r) = Len(q) + Len(r)
           /\ Run(q \o r, n, H)
<1> DEFINE t == q \o r
<1>1. /\ t \in Seq(Piece) /\ Len(t) = Len(q) + Len(r)
      /\ \A i \in 1..Len(t) : t[i] = IF i <= Len(q) THEN q[i] ELSE r[i - Len(q)]
  OBVIOUS
<1> HIDE DEF t
<1>2. ASSUME NEW i \in 1..Len(t) PROVE t[i] = PieceAt(H, n + i)
  <2>1. CASE i <= Len(q)
    BY <1>1, <2>1 DEF Run
  <2>2. CASE i > Len(q)
    <3>1. i - Len(q) \in 1..Len(r) /\ (n + Len(q)) + (i - Len(q)) = n + i
      BY <1>1, <2>2
    <3> QED
      BY <1>1, <2>2, <3>1 DEF Run
  <2> QED
    BY <1>1, <2>1, <2>2
<1> QED
  BY <1>1, <1>2 DEF Run, t

LEMMA RunAppend ==
    ASSUME NEW q \in Seq(Piece), NEW n \in Nat, NEW H, Run(q, n, H), NEW b \in Piece,
           b = PieceAt(H, n + Len(q) + 1)
    PROVE  /\ Append(q, b) \in Seq(Piece) /\ Len(Append(q, b)) = Len(q) + 1
           /\ Run(Append(q, b), n, H)
<1> DEFINE t == Append(q, b)
<1>1. /\ t \in Seq(Piece) /\ Len(t) = Len(q) + 1
      /\ \A i \in 1..Len(t) : t[i] = IF i <= Len(q) THEN q[i] ELSE b
  OBVIOUS
<1> HIDE DEF t
<1>2. ASSUME NEW i \in 1..Len(t) PROVE t[i] = PieceAt(H, n + i)
  <2>1. CASE i <= Len(q)
    BY <1>1, <2>1 DEF Run
  <2>2. CASE i > Len(q)
    <3>1. i = Len(q) + 1 /\ n + i = n + Len(q) + 1
      BY <1>1, <2>2
    <3> QED
      BY <1>1, <2>2, <3>1
  <2> QED
    BY <1>1, <2>1, <2>2
<1> QED
  BY <1>1, <1>2 DEF Run, t

\* The first piece of a sequence is taken off.
LEMMA RunTail ==
    ASSUME NEW q \in Seq(Piece), NEW n \in Nat, NEW H, Run(q, n, H), q # <<>>
    PROVE  /\ q[1] \in Piece /\ q[1] = PieceAt(H, n + 1)
           /\ Tail(q) \in Seq(Piece) /\ Len(Tail(q)) = Len(q) - 1
           /\ Run(Tail(q), n + 1, H)
<1> DEFINE t == Tail(q)
<1>1. /\ 1 \in 1..Len(q) /\ q[1] \in Piece
      /\ t \in Seq(Piece) /\ Len(t) = Len(q) - 1 /\ \A i \in 1..Len(t) : t[i] = q[1 + i]
  OBVIOUS
<1> HIDE DEF t
<1>2. ASSUME NEW i \in 1..Len(t) PROVE t[i] = PieceAt(H, (n + 1) + i)
  <2>1. 1 + i \in 1..Len(q) /\ n + (1 + i) = (n + 1) + i
    BY <1>1
  <2> QED
    BY <1>1, <2>1 DEF Run
<1>3. q[1] = PieceAt(H, n + 1)
  BY <1>1 DEF Run
<1> QED
  BY <1>1, <1>2, <1>3 DEF Run, t

-----------------------------------------------------------------------------
(* One direction of the connection *)

\* What a sender has put out, total pieces of it, is in order in four places: taken by the
\* receiver, f, in its BufReader, b, on its way, n, and yet to be written, o. The first base
\* pieces, none or the three of a whole head, are behind the receiver.
Along(f, b, n, base, total, H) ==
    /\ base \in {0, 3}
    /\ Run(f, base, H) /\ Run(b, base + Len(f), H) /\ Run(n, base + Len(f) + Len(b), H)
    /\ base + Len(f) + Len(b) + Len(n) <= total

Whole(f, b, n, o, base, total, H) ==
    /\ Run(o, base + Len(f) + Len(b) + Len(n), H)
    /\ base + Len(f) + Len(b) + Len(n) + Len(o) = total

\* The sender writes a line.
LEMMA FlowWrite ==
    ASSUME NEW f \in Seq(Piece), NEW b \in Seq(Piece), NEW n \in Seq(Piece),
           NEW o \in Seq(Piece), NEW H \in HeadLists, NEW base, NEW total \in Nat,
           Along(f, b, n, base, total, H), Whole(f, b, n, o, base, total, H), o # <<>>
    PROVE  LET n1 == Append(n, o[1])
               o1 == Tail(o) IN
           /\ n1 \in Seq(Piece) /\ o1 \in Seq(Piece) /\ Len(o1) = Len(o) - 1
           /\ Along(f, b, n1, base, total, H) /\ Whole(f, b, n1, o1, base, total, H)
<1> DEFINE n1 == Append(n, o[1])
           o1 == Tail(o)
           k == base + Len(f) + Len(b)
<1>1. base \in Nat
  BY DEF Along
<1>2. Len(f) \in Nat /\ Len(b) \in Nat /\ Len(n) \in Nat /\ Len(o) \in Nat
      /\ k \in Nat /\ k + Len(n) \in Nat
  BY <1>1
<1>3. Run(n, k, H) /\ Run(o, k + Len(n), H) /\ k + Len(n) + Len(o) = total
  BY DEF Along, Whole
<1> HIDE DEF k
<1>4. /\ o[1] \in Piece /\ o[1] = PieceAt(H, k + Len(n) + 1)
      /\ o1 \in Seq(Piece) /\ Len(o1) = Len(o) - 1 /\ Run(o1, k + Len(n) + 1, H)
  BY <1>2, <1>3, RunTail
<1> HIDE DEF o1
<1>5. n1 \in Seq(Piece) /\ Len(n1) = Len(n) + 1 /\ Run(n1, k, H)
  BY <1>2, <1>3, <1>4, RunAppend
<1> HIDE DEF n1
<1> DEFINE ln == Len(n)
           lo == Len(o)
           ln1 == Len(n1)
           lo1 == Len(o1)
<1>6. /\ ln \in Nat /\ lo \in Nat /\ ln1 \in Nat /\ lo1 \in Nat /\ ln1 = ln + 1 /\ lo1 = lo - 1
      /\ k + ln + lo = total
  BY <1>2, <1>3, <1>4, <1>5
<1> HIDE DEF ln, lo, ln1, lo1
<1>7. k + ln1 = k + ln + 1 /\ k + ln1 + lo1 = total /\ k + ln1 <= total
  BY <1>2, <1>6
<1>8. Along(f, b, n1, base, total, H)
  BY <1>5, <1>7 DEF Along, k, ln1
<1>9. Whole(f, b, n1, o1, base, total, H)
  BY <1>4, <1>7 DEF Whole, k, ln, ln1, lo1
<1> QED
  BY <1>4, <1>5, <1>8, <1>9 DEF n1, o1

\* The BufReader of the receiver is filled, which it is only when empty.
LEMMA FlowFill ==
    ASSUME NEW f \in Seq(Piece), NEW b \in Seq(Piece), NEW n \in Seq(Piece),
           NEW o \in Seq(Piece), NEW H \in HeadLists, NEW base, NEW total \in Nat,
           Along(f, b, n, base, total, H), b = <<>>, NEW m \in 1..Len(n)
    PROVE  LET b1 == SubSeq(n, 1, m)
               n1 == SubSeq(n, m + 1, Len(n)) IN
           /\ b1 \in Seq(Piece) /\ n1 \in Seq(Piece)
           /\ Along(f, b1, n1, base, total, H)
           /\ Whole(f, b, n, o, base, total, H) => Whole(f, b1, n1, o, base, total, H)
<1> DEFINE b1 == SubSeq(n, 1, m)
           n1 == SubSeq(n, m + 1, Len(n))
           k == base + Len(f)
<1>1. base \in Nat
  BY DEF Along
<1>2. /\ Len(f) \in Nat /\ Len(b) = 0 /\ Len(n) \in Nat /\ Len(o) \in Nat /\ m \in 0..Len(n)
      /\ k \in Nat /\ k + Len(b) = k
  BY <1>1
<1>3. Run(n, k, H) /\ k + Len(n) <= total
  BY <1>2 DEF Along
<1> HIDE DEF k
<1>4. /\ b1 \in Seq(Piece) /\ Len(b1) = m /\ Run(b1, k, H)
      /\ n1 \in Seq(Piece) /\ Len(n1) = Len(n) - m /\ Run(n1, k + m, H)
  BY <1>2, <1>3, RunCut
<1> HIDE DEF b1, n1
<1> DEFINE lb == Len(b)
           ln == Len(n)
           lb1 == Len(b1)
           ln1 == Len(n1)
<1>5. /\ lb = 0 /\ ln \in Nat /\ lb1 \in Nat /\ ln1 \in Nat /\ lb1 = m /\ ln1 = ln - m
      /\ m \in Nat
  BY <1>2, <1>4
<1> HIDE DEF lb, ln, lb1, ln1
<1>6. k + lb1 = k + m /\ k + lb1 + ln1 = k + lb + ln /\ k + lb + ln = k + ln
  BY <1>2, <1>5
<1>7. Along(f, b1, n1, base, total, H)
  <2>1. k + lb1 + ln1 <= total
    BY <1>3, <1>6 DEF ln
  <2>2. base \in {0, 3} /\ Run(f, base, H)
    BY DEF Along
  <2> QED
    BY <1>4, <1>6, <2>1, <2>2 DEF Along, k, lb1, ln1
<1>8. ASSUME Whole(f, b, n, o, base, total, H) PROVE Whole(f, b1, n1, o, base, total, H)
  BY <1>6, <1>8 DEF Whole, k, lb, ln, lb1, ln1
<1> QED
  BY <1>4, <1>7, <1>8 DEF b1, n1

\* The receiver takes a piece out of its BufReader.
LEMMA FlowTake ==
    ASSUME NEW f \in Seq(Piece), NEW b \in Seq(Piece), NEW n \in Seq(Piece),
           NEW o \in Seq(Piece), NEW H \in HeadLists, NEW base, NEW total \in Nat,
           Along(f, b, n, base, total, H), b # <<>>
    PROVE  LET f1 == Append(f, b[1])
               b1 == Tail(b) IN
           /\ f1 \in Seq(Piece) /\ b1 \in Seq(Piece)
           /\ Along(f1, b1, n, base, total, H)
           /\ Whole(f, b, n, o, base, total, H) => Whole(f1, b1, n, o, base, total, H)
<1> DEFINE f1 == Append(f, b[1])
           b1 == Tail(b)
<1>1. base \in Nat
  BY DEF Along
<1>2. /\ Len(f) \in Nat /\ Len(b) \in Nat /\ Len(n) \in Nat /\ Len(o) \in Nat
      /\ base + Len(f) \in Nat
  BY <1>1
<1>3. Run(f, base, H) /\ Run(b, base + Len(f), H)
  BY DEF Along
<1>4. /\ b[1] \in Piece /\ b[1] = PieceAt(H, base + Len(f) + 1)
      /\ b1 \in Seq(Piece) /\ Len(b1) = Len(b) - 1 /\ Run(b1, base + Len(f) + 1, H)
  BY <1>2, <1>3, RunTail
<1> HIDE DEF b1
<1>5. f1 \in Seq(Piece) /\ Len(f1) = Len(f) + 1 /\ Run(f1, base, H)
  BY <1>1, <1>3, <1>4, RunAppend
<1> HIDE DEF f1
<1> DEFINE lf == Len(f)
           lb == Len(b)
           lf1 == Len(f1)
           lb1 == Len(b1)
<1>6. /\ lf \in Nat /\ lb \in Nat /\ lf1 \in Nat /\ lb1 \in Nat /\ lf1 = lf + 1 /\ lb1 = lb - 1
  BY <1>2, <1>4, <1>5
<1> HIDE DEF lf, lb, lf1, lb1
<1>7. base + lf1 = base + lf + 1 /\ base + lf1 + lb1 = base + lf + lb
  BY <1>1, <1>6
<1>8. Along(f1, b1, n, base, total, H)
  <2>1. Run(b1, base + lf1, H)
    BY <1>4, <1>7 DEF lf
  <2>2. /\ base \in {0, 3} /\ Run(n, base + lf + lb, H) /\ base + lf + lb + Len(n) <= total
    BY DEF Along, lf, lb
  <2> QED
    BY <1>5, <1>7, <2>1, <2>2 DEF Along, lf1, lb1
<1>9. ASSUME Whole(f, b, n, o, base, total, H) PROVE Whole(f1, b1, n, o, base, total, H)
  BY <1>7, <1>9 DEF Whole, lf, lb, lf1, lb1
<1> QED
  BY <1>4, <1>5, <1>8, <1>9 DEF f1, b1

\* The sender closes the connection, and the last pieces may be lost.
LEMMA FlowClose ==
    ASSUME NEW f \in Seq(Piece), NEW b \in Seq(Piece), NEW n \in Seq(Piece),
           NEW o \in Seq(Piece), NEW H \in HeadLists, NEW base, NEW total \in Nat,
           Along(f, b, n, base, total, H), NEW m \in 0..Len(n)
    PROVE  SubSeq(n, 1, m) \in Seq(Piece) /\ Along(f, b, SubSeq(n, 1, m), base, total, H)
<1> DEFINE n1 == SubSeq(n, 1, m)
           k == base + Len(f) + Len(b)
<1>1. base \in Nat
  BY DEF Along
<1>2. Len(f) \in Nat /\ Len(b) \in Nat /\ Len(n) \in Nat /\ k \in Nat
  BY <1>1
<1>3. Run(n, k, H) /\ k + Len(n) <= total
  BY DEF Along
<1> HIDE DEF k
<1>4. n1 \in Seq(Piece) /\ Len(n1) = m /\ Run(n1, k, H)
  BY <1>2, <1>3, RunCut
<1> HIDE DEF n1
<1>5. k + Len(n1) <= total
  BY <1>2, <1>3, <1>4
<1>6. Along(f, b, n1, base, total, H)
  BY <1>4, <1>5 DEF Along, k
<1> QED
  BY <1>4, <1>6 DEF n1

\* Before the head is sent there is nothing on the way.
LEMMA FlowStill ==
    ASSUME NEW f \in Seq(Piece), NEW b \in Seq(Piece), NEW n \in Seq(Piece),
           NEW o \in Seq(Piece), NEW H \in HeadLists, NEW base, Along(f, b, n, base, 0, H)
    PROVE  /\ base = 0 /\ Len(f) = 0 /\ Len(b) = 0 /\ Len(n) = 0
           /\ Whole(f, b, n, o, base, 0, H) => Len(o) = 0
<1> DEFINE lf == Len(f)
           lb == Len(b)
           ln == Len(n)
           lo == Len(o)
<1>1. lf \in Nat /\ lb \in Nat /\ ln \in Nat /\ lo \in Nat
  OBVIOUS
<1>2. base \in Nat /\ base + lf + lb + ln <= 0
  BY DEF Along
<1>3. Whole(f, b, n, o, base, 0, H) => base + lf + lb + ln + lo = 0
  BY DEF Whole
<1> HIDE DEF lf, lb, ln, lo
<1>4. base = 0 /\ lf = 0 /\ lb = 0 /\ ln = 0 /\ (base + lf + lb + ln + lo = 0 => lo = 0)
  BY <1>1, <1>2
<1> QED
  BY <1>3, <1>4 DEF lf, lb, ln, lo

LEMMA RunHead ==
    ASSUME NEW H \in HeadLists
    PROVE  H \in Seq(Piece) /\ Run(H, 0, H)
<1>1. H \in Seq(Piece) /\ Len(H) \in Nat
  BY HeadListsTyped
<1>2. ASSUME NEW i \in 1..Len(H) PROVE H[i] = PieceAt(H, 0 + i)
  BY <1>1 DEF PieceAt
<1> QED
  BY <1>1, <1>2 DEF Run

\* The head is put before a sender of this crate, or onto the way by another.
LEMMA FlowHead ==
    ASSUME NEW f \in Seq(Piece), NEW b \in Seq(Piece), NEW n \in Seq(Piece),
           NEW o \in Seq(Piece), NEW H \in HeadLists, NEW base,
           Along(f, b, n, base, 0, H), Whole(f, b, n, o, base, 0, H), NEW G \in HeadLists
    PROVE  LET n1 == n \o G IN
           /\ G \in Seq(Piece) /\ n1 \in Seq(Piece)
           /\ Along(f, b, n, base, Len(G), G) /\ Whole(f, b, n, G, base, Len(G), G)
           /\ Along(f, b, n1, base, Len(G), G) /\ Whole(f, b, n1, o, base, Len(G), G)
<1> DEFINE n1 == n \o G
<1>1. base = 0 /\ Len(f) = 0 /\ Len(b) = 0 /\ Len(n) = 0 /\ Len(o) = 0
  BY FlowStill
<1>2. G \in Seq(Piece) /\ Len(G) \in Nat /\ Run(G, 0, G)
  BY RunHead, HeadListsTyped
<1>3. n1 \in Seq(Piece) /\ Len(n1) = Len(G) /\ Run(n1, 0, G)
  <2>1. Run(n, 0, G) /\ 0 + Len(n) = 0
    BY <1>1 DEF Run
  <2>2. n1 \in Seq(Piece) /\ Len(n1) = Len(n) + Len(G) /\ Run(n1, 0, G)
    BY <1>2, <2>1, RunJoin
  <2> QED
    BY <1>1, <1>2, <2>2
<1> HIDE DEF n1
<1>4. Run(f, 0, G) /\ Run(b, 0, G) /\ Run(n, 0, G) /\ Run(o, Len(G), G)
  BY <1>1 DEF Run
<1>5. Along(f, b, n, base, Len(G), G) /\ Whole(f, b, n, G, base, Len(G), G)
  BY <1>1, <1>2, <1>4 DEF Along, Whole
<1>6. Along(f, b, n1, base, Len(G), G) /\ Whole(f, b, n1, o, base, Len(G), G)
  BY <1>1, <1>2, <1>3, <1>4 DEF Along, Whole
<1> QED
  BY <1>2, <1>3, <1>5, <1>6 DEF n1

\* A byte of data is sent.
LEMMA FlowData ==
    ASSUME NEW f \in Seq(Piece), NEW b \in Seq(Piece), NEW n \in Seq(Piece),
           NEW o \in Seq(Piece), NEW H \in HeadLists, NEW base, NEW d \in Nat,
           Along(f, b, n, base, Len(H) + d, H), Whole(f, b, n, o, base, Len(H) + d, H), o = <<>>
    PROVE  LET n1 == Append(n, DataByte(d + 1)) IN
           /\ n1 \in Seq(Piece)
           /\ Along(f, b, n1, base, Len(H) + (d + 1), H)
           /\ Whole(f, b, n1, o, base, Len(H) + (d + 1), H)
<1> DEFINE n1 == Append(n, DataByte(d + 1))
           k == base + Len(f) + Len(b)
<1>1. base \in Nat
  BY DEF Along
<1>2. /\ Len(f) \in Nat /\ Len(b) \in Nat /\ Len(n) \in Nat /\ k \in Nat /\ Len(o) = 0
      /\ Len(H) \in Nat
  BY <1>1, HeadListsTyped
<1>3. Run(n, k, H) /\ k + Len(n) + Len(o) = Len(H) + d
  BY DEF Along, Whole
<1> HIDE DEF k
<1> DEFINE h == Len(H)
           ln == Len(n)
<1>4. k + ln = h + d /\ h \in Nat /\ ln \in Nat /\ k \in Nat
  BY <1>2, <1>3
<1>5. DataByte(d + 1) = PieceAt(H, k + Len(n) + 1)
  <2> HIDE DEF h, ln
  <2>1. ~(k + ln + 1 <= h) /\ (k + ln + 1) - h = d + 1
    BY <1>4
  <2> QED
    BY <2>1 DEF PieceAt, h, ln
<1>6. DataByte(d + 1) \in Piece
  BY DEF DataByte, Piece
<1>7. n1 \in Seq(Piece) /\ Len(n1) = Len(n) + 1 /\ Run(n1, k, H)
  BY <1>2, <1>3, <1>5, <1>6, RunAppend
<1> HIDE DEF n1
<1> DEFINE ln1 == Len(n1)
<1>8. ln1 = ln + 1
  BY <1>7
<1>9. k + ln1 + 0 = h + (d + 1) /\ k + ln1 <= h + (d + 1)
  <2> HIDE DEF h, ln, ln1
  <2> QED
    BY <1>4, <1>8
<1>10. Run(o, k + Len(n1), H)
  BY <1>2 DEF Run
<1>11. Along(f, b, n1, base, Len(H) + (d + 1), H)
  BY <1>7, <1>9 DEF Along, k
<1>12. Whole(f, b, n1, o, base, Len(H) + (d + 1), H)
  BY <1>2, <1>9, <1>10 DEF Whole, k
<1> QED
  BY <1>7, <1>11, <1>12 DEF n1

\* All that has reached the receiver or is on its way to it.
LEMMA FlowCome ==
    ASSUME NEW f \in Seq(Piece), NEW b \in Seq(Piece), NEW n \in Seq(Piece),
           NEW o \in Seq(Piece), NEW H \in HeadLists, NEW base, NEW total \in Nat,
           Along(f, b, n, base, total, H)
    PROVE  LET come == f \o b \o n IN
           /\ come \in Seq(Piece) /\ Run(come, base, H)
           /\ base + Len(come) <= total
           /\ Whole(f, b, n, o, base, total, H) => base + Len(come) + Len(o) = total
<1> DEFINE a == f \o b
           come == a \o n
           lf == Len(f)
           lb == Len(b)
           ln == Len(n)
           la == Len(a)
           lc == Len(come)
<1>1. base \in Nat /\ lf \in Nat /\ lb \in Nat /\ ln \in Nat
  BY DEF Along
<1>2. /\ Run(f, base, H) /\ Run(b, base + Len(f), H) /\ Run(n, base + Len(f) + Len(b), H)
      /\ base + lf + lb + ln <= total
  BY DEF Along
<1>3. a \in Seq(Piece) /\ la = lf + lb /\ Run(a, base, H)
  BY <1>1, <1>2, RunJoin
<1> HIDE DEF a
<1>4. base + lf + lb = base + la
  <2> HIDE DEF lf, lb, la
  <2> QED
    BY <1>1, <1>3
<1>5. come \in Seq(Piece) /\ lc = la + ln /\ Run(come, base, H)
  BY <1>1, <1>2, <1>3, <1>4, RunJoin
<1> HIDE DEF come
<1>6. base + lc = base + lf + lb + ln
  <2> HIDE DEF lf, lb, ln, la, lc
  <2> QED
    BY <1>1, <1>3, <1>5
<1>7. ASSUME Whole(f, b, n, o, base, total, H) PROVE base + lc + Len(o) = total
  BY <1>6, <1>7 DEF Whole
<1> QED
  BY <1>2, <1>5, <1>6, <1>7 DEF come, a

\* Only a whole head with CRLF line ends is taken for one.
LEMMA HeadComplete ==
    ASSUME NEW H \in HeadLists, NEW q \in Seq(Piece), Run(q, 0, H), Complete(q)
    PROVE  H = WholeHead /\ Len(q) = 3
<1> DEFINE n == Len(q)
<1>1. H \in Seq(Piece) /\ Len(H) \in 2..4
  BY HeadListsTyped
<1>2. /\ n \in Nat /\ n >= 2 /\ q[1] = Line("start") /\ q[n] = Line("blank")
      /\ \A i \in 2..(n - 1) : q[i] = Line("header")
  BY DEF Complete, Last
<1>3. \A i \in 1..n : q[i] = PieceAt(H, i)
  BY DEF Run
<1> HIDE DEF n
<1>4. n <= Len(H)
  <2> SUFFICES ASSUME n > Len(H) PROVE FALSE
    BY <1>1, <1>2
  <2>1. q[n] = DataByte(n - Len(H))
    BY <1>1, <1>2, <1>3 DEF PieceAt
  <2> QED
    BY <1>2, <2>1 DEF Line, DataByte
<1>5. q[1] = H[1] /\ q[n] = H[n] /\ (n > 2 => q[2] = H[2])
  BY <1>1, <1>2, <1>3, <1>4 DEF PieceAt
<1>6. H[1].part = "start" /\ H[n].part = "blank" /\ (n > 2 => H[2].part = "header")
  BY <1>2, <1>5 DEF Line
<1>7. CASE H = WholeHead
  <2>1. Len(H) = 3 /\ H[2].part = "header"
    BY <1>7 DEF WholeHead, Line
  <2>2. n = 3
    BY <1>2, <1>4, <1>6, <2>1
  <2> QED
    BY <1>7, <2>2 DEF n
<1>8. CASE H = DebugHead
  <2>1. Len(H) = 2 /\ H[2].part = "debug"
    BY <1>8 DEF DebugHead, Line
  <2> QED
    BY <1>2, <1>4, <1>6, <2>1
<1>9. CASE H = <<Line("start"), Line("header"), Line("bare")>>
  <2>1. Len(H) = 3 /\ H[2].part = "header" /\ H[3].part = "bare"
    BY <1>9 DEF Line
  <2> QED
    BY <1>2, <1>4, <1>6, <2>1
<1>10. CASE H = <<Line("start"), Line("opaque"), Line("blank")>>
  <2>1. Len(H) = 3 /\ H[2].part = "opaque"
    BY <1>10 DEF Line
  <2> QED
    BY <1>2, <1>4, <1>6, <2>1
<1>11. CASE H = <<Line("blank")>> \o WholeHead
  <2>1. H[1] = Line("blank")
    BY <1>11 DEF WholeHead
  <2> QED
    BY <1>6, <2>1 DEF Line
<1> QED
  BY <1>7, <1>8, <1>9, <1>10, <1>11 DEF HeadLists, ForeignHeads

\* So is one read up to its blank line.
LEMMA HeadPrefix ==
    ASSUME NEW H \in HeadLists, NEW q \in Seq(Piece), Run(q, 0, H), IsPrefix(WholeHead, q)
    PROVE  H = WholeHead /\ Len(q) >= 3
<1>1. H \in Seq(Piece) /\ Len(H) \in 2..4
  BY HeadListsTyped
<1>2. Len(WholeHead) = 3 /\ Len(q) \in Nat /\ Len(q) >= 3
  BY DEF IsPrefix, WholeHead
<1>3. SubSeq(WholeHead, 1, 3) = SubSeq(q, 1, 3)
  BY <1>2 DEF IsPrefix
<1>4. \A i \in 1..3 : q[i] = WholeHead[i]
  <2>1. \A i \in 1..3 : SubSeq(q, 1, 3)[i] = q[i]
    BY <1>2
  <2>2. WholeHead \in Seq(Piece)
    BY HeadListsTyped DEF HeadLists, ForeignHeads
  <2>3. \A i \in 1..3 : SubSeq(WholeHead, 1, 3)[i] = WholeHead[i]
    BY <1>2, <2>2
  <2> QED
    BY <1>3, <2>1, <2>3
<1>5. q[1].part = "start" /\ q[2].part = "header" /\ q[3].part = "blank"
  BY <1>4 DEF WholeHead, Line
<1>6. \A i \in 1..3 : q[i] = PieceAt(H, i)
  BY <1>2 DEF Run
<1>7. \A i \in 1..Len(H) : i <= 3 => q[i] = H[i]
  BY <1>1, <1>6 DEF PieceAt
<1>8. CASE H = DebugHead
  <2>1. Len(H) = 2 /\ H[2].part = "debug"
    BY <1>8 DEF DebugHead, Line
  <2> QED
    BY <1>5, <1>7, <2>1
<1>9. CASE H = <<Line("start"), Line("header"), Line("bare")>>
  <2>1. Len(H) = 3 /\ H[3].part = "bare"
    BY <1>9 DEF Line
  <2> QED
    BY <1>5, <1>7, <2>1
<1>10. CASE H = <<Line("start"), Line("opaque"), Line("blank")>>
  <2>1. Len(H) = 3 /\ H[2].part = "opaque"
    BY <1>10 DEF Line
  <2> QED
    BY <1>5, <1>7, <2>1
<1>11. CASE H = <<Line("blank")>> \o WholeHead
  <2>1. H[1] = Line("blank")
    BY <1>11 DEF WholeHead
  <2>2. q[1] = H[1]
    BY <1>1, <1>7
  <2> QED
    BY <1>5, <2>1, <2>2 DEF Line
<1> QED
  BY <1>2, <1>8, <1>9, <1>10, <1>11 DEF HeadLists, ForeignHeads

\* The lines of a whole response are behind the receiver.
LEMMA FlowOpen ==
    ASSUME NEW f \in Seq(Piece), NEW b \in Seq(Piece), NEW n \in Seq(Piece),
           NEW o \in Seq(Piece), NEW H, NEW total \in Nat,
           Along(f, b, n, 0, total, H), Len(f) = 3
    PROVE  /\ Along(<<>>, b, n, 3, total, H)
           /\ Whole(f, b, n, o, 0, total, H) => Whole(<<>>, b, n, o, 3, total, H)
<1>1. Len(b) \in Nat /\ Len(n) \in Nat /\ Len(<<>>) = 0 /\ Run(<<>>, 3, H)
  BY DEF Run
<1>2. 0 + Len(f) = 3 + Len(<<>>)
  BY <1>1
<1> QED
  BY <1>1, <1>2 DEF Along, Whole

\* A whole request is read from the stream itself.
LEMMA FlowRequest ==
    ASSUME NEW n \in Seq(Piece), NEW o \in Seq(Piece), NEW H, NEW total \in Nat,
           Along(<<>>, <<>>, n, 0, total, H), Len(n) >= 3
    PROVE  LET n1 == SubSeq(n, 4, Len(n)) IN
           /\ n1 \in Seq(Piece) /\ Along(<<>>, <<>>, n1, 3, total, H)
           /\ Whole(<<>>, <<>>, n, o, 0, total, H) => Whole(<<>>, <<>>, n1, o, 3, total, H)
<1> DEFINE n1 == SubSeq(n, 4, Len(n))
           ln == Len(n)
           ln1 == Len(n1)
<1>1. Len(<<>>) = 0 /\ Run(<<>>, 3, H) /\ ln \in Nat /\ ln >= 3
  BY DEF Run
<1>2. Run(n, 0, H) /\ ln <= total
  BY <1>1 DEF Along
<1>3. n1 \in Seq(Piece) /\ ln1 = ln - 3 /\ Run(n1, 3, H)
  <2>1. SubSeq(n, 3 + 1, Len(n)) = n1 /\ 3 \in 0..Len(n)
    BY <1>1
  <2>2. /\ SubSeq(n, 3 + 1, Len(n)) \in Seq(Piece) /\ Len(SubSeq(n, 3 + 1, Len(n))) = Len(n) - 3
        /\ Run(SubSeq(n, 3 + 1, Len(n)), 0 + 3, H)
    BY <1>2, <2>1, RunCut
  <2> QED
    BY <2>1, <2>2
<1> HIDE DEF n1, ln, ln1
<1>4. 3 + ln1 = ln /\ ln \in Nat /\ ln1 \in Nat
  BY <1>1, <1>3
<1>5. 3 + 0 + 0 + ln1 = ln /\ 0 + 0 + 0 + ln = ln
  BY <1>4
<1>6. Along(<<>>, <<>>, n1, 3, total, H)
  BY <1>1, <1>2, <1>3, <1>5 DEF Along, ln1
<1>7. ASSUME Whole(<<>>, <<>>, n, o, 0, total, H) PROVE Whole(<<>>, <<>>, n1, o, 3, total, H)
  BY <1>1, <1>5, <1>7 DEF Whole, ln, ln1
<1> QED
  BY <1>3, <1>6, <1>7 DEF n1

-----------------------------------------------------------------------------
(* The invariants of the opening handshake *)

Heads == {NoHead} \cup Requests \cup Responses

ClientStates ==
    {"foreign", "start", "sending", "awaiting", "parsing", "spinning", "open", "closed",
     "failed", "panicked"}
ServerStates ==
    {"foreign", "reading", "paired", "upgraded", "accepting", "rejecting", "open", "closed",
     "rejected", "refused", "dropped", "panicked"}
States == ClientStates \cup ServerStates
StatesOf(s) == IF s = "client" THEN ClientStates ELSE ServerStates

OpeningTypes ==
    /\ foreign \subseteq Side /\ gone \subseteq Side
    /\ pc \in [Side -> States]
    /\ head \in [Side -> Heads]
    /\ sent \in [Side -> Nat]
    /\ out \in [Side -> Seq(Piece)] /\ net \in [Side -> Seq(Piece)]
    /\ ahead \in [Side -> Seq(Piece)] /\ got \in [Side -> Seq(Piece)]
    /\ text \in Seq(Piece)
    /\ parts \in [Side -> {"client", "split", "stream"}]

Sending == {"sending", "accepting", "rejecting"}
Ended   == {"closed", "failed", "panicked", "refused", "rejected", "dropped"}

\* A side before its Client is there, and one whose Client can still come to be or is there.
Opening == {"start", "sending", "awaiting", "parsing", "reading", "paired", "upgraded", "accepting"}
Live    == Opening \cup {"open"}

\* What a side's place in the handshake says of its head, its lines and its end.
Control(c) ==
    /\ pc[c] = "foreign" <=> c \in foreign
    /\ pc[c] \in StatesOf(c)
    /\ pc[c] \in Sending => out[c] # <<>> /\ sent[c] = 0
    /\ pc[c] \in (Opening \cup {"open", "foreign"}) \ Sending => out[c] = <<>>
    /\ head[c] = NoHead => sent[c] = 0
    /\ pc[c] \in {"start", "reading", "paired", "upgraded"} => head[c] = NoHead
    /\ pc[c] \in Sending \cup {"awaiting", "parsing", "open"} => head[c] # NoHead
    /\ pc[c] \in Opening => got[c] = <<>>
    /\ pc[c] = "reading" /\ route = "pair" => ahead[c] = <<>>
    /\ c = "server" /\ pc[c] \in {"paired", "upgraded", "accepting", "rejecting", "open"} =>
          route = "pair"
    /\ c \in gone => pc[c] \in Ended \cup {"foreign"}

\* How many pieces a side has put out when its head is H.
Total(p, H) == IF head[p] = NoHead THEN 0 ELSE Len(H) + sent[p]

\* Whether a side has the other's head behind it, and what it has taken since.
Before   == {"start", "sending", "awaiting", "parsing", "reading"}
Base(c)  == IF pc[c] \in Before THEN 0 ELSE 3
Taken(c) == IF c = "client" /\ pc[c] \in Before THEN text ELSE got[c]

\* What c has received of the other side's pieces and what is on its way, when the other
\* side's head is H: only behind a whole one does a Client start.
FlowOf(c, H) ==
    /\ Along(Taken(c), ahead[c], net[c], Base(c), Total(Peer[c], H), H)
    /\ Peer[c] \notin gone =>
          Whole(Taken(c), ahead[c], net[c], out[Peer[c]], Base(c), Total(Peer[c], H), H)
    /\ Base(c) = 3 => H = WholeHead
    /\ Peer[c] \notin foreign => H = DebugHead

\* No Client comes of a stream that into_ws is given.
Reaches(c) ==
    pc[c] \in Live /\ parts[c] = "client" /\ (c = "server" => route = "pair")

Flow(c) == Reaches(c) => \E H \in HeadLists : FlowOf(c, H)

-----------------------------------------------------------------------------
(* The steps of the opening handshake, by what they do *)

\* The disjuncts of OpeningNext, by the side that acts.
Acts(s) ==
    \/ Fills(s) \/ Writes(s)
    \/ SendsData(s) \/ TakesData(s) \/ TakesRaw(s) \/ TakeApart(s)
    \/ Leaves(s) \/ ForeignHead(s)
    \/ s = "client" /\ (Client \/ ForeignBegins)
    \/ s = "server" /\ (Server \/ GivesUp)

\* A side puts its head before it, to send it.
PutsHead(s) ==
    /\ \E h \in Requests \cup Responses : head' = [head EXCEPT ![s] = h]
    /\ out' = [out EXCEPT ![s] = DebugHead]
    /\ pc[s] \in {"start", "upgraded"} /\ pc'[s] \in Sending \cap StatesOf(s)
    /\ pc' = [pc EXCEPT ![s] = pc'[s]]
    /\ UNCHANGED <<foreign, route, text, link, data>>

\* A request that was read passes.
Passes(s) ==
    /\ s = "server" /\ pc[s] = "paired"
    /\ Enter(s, "upgraded")
    /\ UNCHANGED <<foreign, route, head, out, text, link, data>>

\* A side is done with the other, or spins; it may close the connection, and it may drop
\* a BufReader.
Finishes(s) ==
    /\ pc' = [pc EXCEPT ![s] = pc'[s]]
    /\ pc'[s] \in StatesOf(s) \ Live
    /\ pc'[s] = "foreign" <=> pc[s] = "foreign"
    /\ \/ Close(s) /\ pc'[s] \in Ended \cup {"foreign"}
       \/ UNCHANGED link /\ (pc'[s] \in Ended \/ pc[s] = "awaiting")
       \/ pc'[s] \in Ended /\ ahead' = [ahead EXCEPT ![s] = <<>>] /\ UNCHANGED <<net, gone>>
    /\ UNCHANGED <<foreign, route, head, out, text, data>>

\* What a step of a side does to the two directions.
Kinds(s) ==
    \/ Fills(s) \/ WriteLine(s) \/ PutsHead(s) \/ ForeignHead(s) \/ SendsData(s)
    \/ TakesData(s) \/ TakesRaw(s) \/ TakeApart(s)
    \/ s = "client" /\ (ReadLine \/ ResponseTaken \/ ForeignBegins)
    \/ s = "server" /\ (AppReads \/ ReadsBegin)
    \/ Passes(s) \/ Finishes(s)

LEMMA Sides ==
    /\ Side = {"client", "server"}
    /\ Peer["client"] = "server" /\ Peer["server"] = "client"
    /\ \A s \in Side : Peer[s] \in Side /\ Peer[s] # s /\ Peer[Peer[s]] = s
BY DEF Side, Peer

LEMMA Afters ==
    /\ DOMAIN After = {"sending", "accepting", "rejecting"}
    /\ After["sending"] = "awaiting" /\ After["accepting"] = "open"
    /\ After["rejecting"] = "rejected"
BY DEF After

\* Any program's head is a head, and not the lack of one.
LEMMA HeadsThere ==
    /\ \A h \in Requests \cup Responses : h # NoHead
    /\ BuiltRequests \subseteq Requests
    /\ ForeignRequests \subseteq Requests /\ ForeignResponses \subseteq Responses
    /\ BadRequest \in Responses
<1>1. \A h \in Requests \cup Responses : h # NoHead
  BY DEF Requests, Responses, NoHead
<1>2. ASSUME NEW h \in BuiltRequests PROVE h \in Requests
  <2>1. PICK key \in Keys \cup {Absent, Malformed}, version \in {Absent, "13", "other", Opaque} :
            h = BuildRequest(key, version)
    BY DEF BuiltRequests
  <2>2. {"websocket"} \in SUBSET Protocols \cup {{Opaque}}
        /\ {"upgrade"} \in SUBSET Options \cup {{Opaque}}
    BY DEF Protocols, Options
  <2> QED
    BY <2>1, <2>2 DEF BuildRequest, Requests
<1>3. BadRequest \in Responses
  BY DEF BadRequest, Responses
<1> QED
  BY <1>1, <1>2, <1>3, HeadAssumption

LEMMA AcceptedHead ==
    ASSUME NEW request, request.key \in Keys, NEW custom
    PROVE  PrepareHeaders(request, custom) \in Responses
<1>1. {"h2c"} \in SUBSET Protocols /\ {"websocket"} \in SUBSET Protocols
  BY DEF Protocols
<1> QED
  BY <1>1 DEF PrepareHeaders, Responses

\* Every action of a side is of one of these kinds.
LEMMA StepKinds ==
    ASSUME OpeningTypes, NEW s \in Side, Control(s), Acts(s)
    PROVE  Kinds(s)
<1> USE DEF Enter
<1>0. pc \in [Side -> States] /\ "client" \in Side /\ "server" \in Side
  BY Sides DEF OpeningTypes
<1>1. CASE Writes(s)
  <2>1. CASE WriteLine(s)
    BY <2>1 DEF Kinds
  <2>2. CASE WriteFails(s)
    <3>1. CASE s = "client"
      BY <1>0, <2>2, <3>1, Afters
         DEF WriteFails, Kinds, Finishes, StatesOf, ClientStates, Live, Opening, Ended
    <3>2. CASE s # "client"
      BY <1>0, <2>2, <3>2, Afters
         DEF WriteFails, Kinds, Finishes, StatesOf, ServerStates, Live, Opening, Ended
    <3> QED
      BY <3>1, <3>2
  <2> QED
    BY <1>1, <2>1, <2>2 DEF Writes
<1>2. CASE Leaves(s)
  <2>1. CASE pc[s] = "open"
    BY <1>0, <1>2, <2>1
       DEF Leaves, Kinds, Finishes, StatesOf, ClientStates, ServerStates, Live, Opening, Ended
  <2>2. CASE pc[s] # "open"
    BY <1>0, <1>2, <2>2
       DEF Leaves, Kinds, Finishes, StatesOf, ClientStates, ServerStates, Live, Opening, Ended
  <2> QED
    BY <2>1, <2>2
<1>3. CASE s = "client" /\ ConnectOn
  <2>1. \E h \in Requests \cup Responses : head' = [head EXCEPT ![s] = h]
    BY <1>3, HeadsThere DEF ConnectOn
  <2> QED
    BY <1>0, <1>3, <2>1
       DEF ConnectOn, Kinds, PutsHead, Sending, StatesOf, ClientStates
<1>4. CASE s = "client" /\ (ReadLinePanics \/ ReadAtEnd \/ ResponseRefused)
  <2>1. CASE ReadLinePanics
    BY <1>0, <1>4, <2>1
       DEF ReadLinePanics, Panic, Kinds, Finishes, StatesOf, ClientStates, Live, Opening, Ended
  <2>2. CASE ReadAtEnd
    BY <1>0, <1>4, <2>2
       DEF ReadAtEnd, Panic, Kinds, Finishes, StatesOf, ClientStates, Live, Opening, Ended
  <2>3. CASE ResponseRefused
    BY <1>0, <1>4, <2>3
       DEF ResponseRefused, Panic, Kinds, Finishes, StatesOf, ClientStates, Live, Opening, Ended
  <2> QED
    BY <1>4, <2>1, <2>2, <2>3
<1>5. CASE s = "server" /\ (IntoWs \/ AppGivesUp \/ PairPanics \/ AcceptPanics \/ Drop)
  <2> USE DEF Kinds, Finishes, StatesOf, ServerStates, Live, Opening, Ended
  <2>1. CASE IntoWs \/ AppGivesUp
    BY <1>0, <1>5, <2>1 DEF IntoWs, AppGivesUp
  <2>2. CASE PairPanics \/ AcceptPanics \/ Drop
    BY <1>0, <1>5, <2>2 DEF PairPanics, AcceptPanics, Drop, Panic
  <2> QED
    BY <1>5, <2>1, <2>2
<1>6. CASE s = "server" /\ PairIntoWs
  <2>1. CASE Valid(head["client"])
    BY <1>6, <2>1 DEF PairIntoWs, Kinds, Passes
  <2>2. CASE ~Valid(head["client"])
    BY <1>0, <1>6, <2>2
       DEF PairIntoWs, Kinds, Finishes, StatesOf, ServerStates, Live, Opening, Ended
  <2> QED
    BY <2>1, <2>2
<1>7. CASE s = "server" /\ (Accept \/ Reject)
  <2>1. \E h \in Requests \cup Responses : head' = [head EXCEPT ![s] = h]
    BY <1>7, HeadsThere, AcceptedHead DEF Accept, Reject, Answer
  <2> QED
    BY <1>0, <1>7, <2>1
       DEF Accept, Reject, Answer, Kinds, PutsHead, Sending, StatesOf, ServerStates
<1>8. CASE s = "server" /\ GivesUp
  <2>1. pc' = [pc EXCEPT ![s] = pc'[s]]
    BY <1>0, <1>8 DEF GivesUp
  <2> QED
    BY <1>0, <1>8, <2>1
       DEF GivesUp, Kinds, Finishes, StatesOf, ServerStates, Live, Opening, Ended
<1> QED
  BY <1>1, <1>2, <1>3, <1>4, <1>5, <1>6, <1>7, <1>8 DEF Acts, Client, Server, Kinds

LEMMA NextActs == OpeningNext => \E s \in Side : Acts(s)
BY Sides DEF OpeningNext, Acts

-----------------------------------------------------------------------------
(* Types, kept *)

LEMMA CloseTyped ==
    ASSUME OpeningTypes, NEW s \in Side, Close(s)
    PROVE  gone' \subseteq Side /\ net' \in [Side -> Seq(Piece)] /\ ahead' \in [Side -> Seq(Piece)]
<1>1. PICK n \in 0..Len(net[Peer[s]]) : net' = [net EXCEPT ![Peer[s]] = SubSeq(@, 1, n)]
  BY DEF Close
<1>2. Peer[s] \in Side /\ net[Peer[s]] \in Seq(Piece) /\ <<>> \in Seq(Piece)
  BY Sides DEF OpeningTypes
<1>3. SubSeq(net[Peer[s]], 1, n) \in Seq(Piece)
  BY <1>2
<1> QED
  BY <1>1, <1>2, <1>3 DEF Close, OpeningTypes

LEMMA OpeningInitTyped == OpeningInit => OpeningTypes
<1> SUFFICES ASSUME OpeningInit PROVE OpeningTypes
  OBVIOUS
<1>1. foreign \subseteq Side /\ gone \subseteq Side
  BY DEF OpeningInit, Side
<1>2. pc \in [Side -> States]
  BY DEF OpeningInit, States, ClientStates, ServerStates
<1>3. head \in [Side -> Heads] /\ sent \in [Side -> Nat]
  BY DEF OpeningInit, Heads
<1>4. [s \in Side |-> <<>>] \in [Side -> Seq(Piece)] /\ <<>> \in Seq(Piece)
  OBVIOUS
<1>5. parts \in [Side -> {"client", "split", "stream"}]
  BY DEF OpeningInit
<1> QED
  BY <1>1, <1>2, <1>3, <1>4, <1>5 DEF OpeningInit, OpeningTypes

LEMMA StatesIn ==
    /\ \A s : StatesOf(s) \subseteq States
    /\ {"awaiting", "parsing", "open", "rejected", "upgraded", "paired"} \subseteq States
BY DEF StatesOf, States, ClientStates, ServerStates

LEMMA OpeningKept ==
    ASSUME OpeningTypes, NEW s \in Side, Control(s), Kinds(s)
    PROVE  OpeningTypes'
<1>0. /\ Peer[s] \in Side /\ pc \in [Side -> States]
      /\ net[s] \in Seq(Piece) /\ ahead[s] \in Seq(Piece) /\ got[s] \in Seq(Piece)
      /\ out[s] \in Seq(Piece) /\ net[Peer[s]] \in Seq(Piece) /\ text \in Seq(Piece)
      /\ <<>> \in Seq(Piece)
  BY Sides DEF OpeningTypes
<1>1. ASSUME NEW n \in 1..Len(net[s]), FillBuf(s, n) PROVE OpeningTypes'
  <2>1. SubSeq(net[s], 1, n) \in Seq(Piece) /\ SubSeq(net[s], n + 1, Len(net[s])) \in Seq(Piece)
    BY <1>0
  <2> QED
    BY <1>1, <2>1 DEF FillBuf, OpeningTypes, data
<1>2. CASE WriteLine(s)
  <2>1. out[s] # <<>>
    BY <1>2, Afters DEF WriteLine, Control, Sending
  <2>2. Tail(out[s]) \in Seq(Piece) /\ Append(net[Peer[s]], out[s][1]) \in Seq(Piece)
    BY <1>0, <2>1
  <2>3. After[pc[s]] \in States /\ pc[s] \in States
    BY <1>0, <1>2, Afters, StatesIn DEF WriteLine
  <2>4. pc' \in [Side -> States]
    BY <1>0, <1>2, <2>3 DEF WriteLine, Enter
  <2> QED
    BY <1>0, <1>2, <2>2, <2>4 DEF WriteLine, OpeningTypes, data
<1>3. CASE PutsHead(s)
  <2>1. DebugHead \in Seq(Piece)
    BY HeadListsTyped DEF HeadLists
  <2>2. head' \in [Side -> Heads]
    BY <1>3 DEF PutsHead, OpeningTypes, Heads
  <2>3. pc' \in [Side -> States]
    BY <1>0, <1>3, StatesIn DEF PutsHead
  <2> QED
    BY <1>0, <1>3, <2>1, <2>2, <2>3 DEF PutsHead, OpeningTypes, link, data
<1>4. CASE ForeignHead(s)
  <2>1. PICK h \in ForeignRequests \cup ForeignResponses : head' = [head EXCEPT ![s] = h]
    BY <1>4 DEF ForeignHead
  <2>2. PICK lines \in HeadLists : net' = [net EXCEPT ![Peer[s]] = @ \o lines]
    BY <1>4 DEF ForeignHead, HeadLists, ForeignHeads
  <2>3. net[Peer[s]] \o lines \in Seq(Piece)
    BY <1>0, HeadListsTyped
  <2>4. head' \in [Side -> Heads]
    BY <2>1, HeadsThere DEF OpeningTypes, Heads
  <2> QED
    BY <1>0, <1>4, <2>2, <2>3, <2>4 DEF ForeignHead, OpeningTypes, data
<1>5. CASE SendsData(s)
  <2>1. DataByte(sent[s] + 1) \in Piece /\ sent' \in [Side -> Nat]
    BY <1>5 DEF SendsData, OpeningTypes, DataByte, Piece
  <2>2. Append(net[Peer[s]], DataByte(sent[s] + 1)) \in Seq(Piece)
    BY <1>0, <2>1
  <2> QED
    BY <1>0, <1>5, <2>1, <2>2 DEF SendsData, OpeningTypes
<1>6. CASE TakesData(s) \/ TakesRaw(s)
  <2>1. CASE TakesData(s)
    <3>1. Append(got[s], ahead[s][1]) \in Seq(Piece) /\ Tail(ahead[s]) \in Seq(Piece)
      BY <1>0, <2>1 DEF TakesData
    <3> QED
      BY <2>1, <3>1 DEF TakesData, OpeningTypes
  <2>2. CASE TakesRaw(s)
    <3>1. Append(got[s], net[s][1]) \in Seq(Piece) /\ Tail(net[s]) \in Seq(Piece)
      BY <1>0, <2>2 DEF TakesRaw
    <3> QED
      BY <2>2, <3>1 DEF TakesRaw, OpeningTypes
  <2> QED
    BY <1>6, <2>1, <2>2
<1>7. CASE TakeApart(s)
  BY <1>0, <1>7 DEF TakeApart, OpeningTypes
<1>8. CASE s = "client" /\ ReadLine
  <2>1. Append(text, ahead[s][1]) \in Seq(Piece) /\ Tail(ahead[s]) \in Seq(Piece)
    BY <1>0, <1>8 DEF ReadLine
  <2> QED
    BY <1>0, <1>8, <2>1, StatesIn DEF ReadLine, Enter, OpeningTypes, data
<1>9. CASE s = "client" /\ ResponseTaken
  BY <1>0, <1>9, StatesIn DEF ResponseTaken, Enter, OpeningTypes, link, data
<1>10. CASE s = "server" /\ AppReads
  <2>1. SubSeq(net[s], 4, Len(net[s])) \in Seq(Piece)
    BY <1>0
  <2> QED
    BY <1>0, <1>10, <2>1, StatesIn DEF AppReads, Enter, OpeningTypes, data
<1>11. CASE Passes(s)
  BY <1>0, <1>11, StatesIn DEF Passes, Enter, OpeningTypes, link, data
<1>12. CASE s = "client" /\ ForeignBegins
  <2>1. net["server"] \in Seq(Piece) /\ Line("begin") \in Piece
    BY Sides DEF OpeningTypes, Line, Piece
  <2>2. Append(net["server"], Line("begin")) \in Seq(Piece)
    BY <2>1
  <2> QED
    BY <1>0, <1>12, <2>2 DEF ForeignBegins, OpeningTypes, data
<1>13. CASE s = "server" /\ ReadsBegin
  <2>1. Tail(ahead[s]) \in Seq(Piece)
    BY <1>0, <1>13 DEF ReadsBegin
  <2> QED
    BY <1>0, <1>13, <2>1 DEF ReadsBegin, OpeningTypes, data
<1>14. CASE Finishes(s)
  <2>1. pc' \in [Side -> States]
    <3>1. pc' = [pc EXCEPT ![s] = pc'[s]] /\ pc'[s] \in States
      BY <1>14, StatesIn DEF Finishes
    <3> QED
      BY <1>0, <3>1
  <2>2. /\ gone' \subseteq Side /\ net' \in [Side -> Seq(Piece)]
        /\ ahead' \in [Side -> Seq(Piece)]
    <3>1. CASE Close(s)
      BY <3>1, CloseTyped
    <3>2. CASE ~Close(s)
      <4>1. net' = net /\ gone' = gone /\ (ahead' = ahead \/ ahead' = [ahead EXCEPT ![s] = <<>>])
        BY <1>14, <3>2 DEF Finishes, link
      <4> QED
        BY <1>0, <4>1 DEF OpeningTypes
    <3> QED
      BY <3>1, <3>2
  <2> QED
    BY <1>14, <2>1, <2>2 DEF Finishes, OpeningTypes, data
<1> QED
  BY <1>1, <1>2, <1>3, <1>4, <1>5, <1>6, <1>7, <1>8, <1>9, <1>10, <1>11, <1>12,
     <1>13, <1>14 DEF Kinds, Fills

-----------------------------------------------------------------------------
(* Control, kept *)

\* A step of one side leaves what the other keeps as it is.
LEMMA OnlyItsOwn ==
    ASSUME OpeningTypes, NEW s \in Side, Kinds(s), NEW c \in Side \ {s}
    PROVE  /\ pc'[c] = pc[c] /\ head'[c] = head[c] /\ sent'[c] = sent[c] /\ out'[c] = out[c]
           /\ ahead'[c] = ahead[c] /\ got'[c] = got[c] /\ parts'[c] = parts[c]
           /\ c = "client" => text' = text
           /\ c \in gone' <=> c \in gone
           /\ foreign' = foreign /\ route' = route
<1> USE DEF OpeningTypes, Enter, link, data
<1>1. CASE Fills(s) \/ WriteLine(s) \/ SendsData(s) \/ ForeignHead(s)
  BY <1>1 DEF Fills, FillBuf, WriteLine, SendsData, ForeignHead
<1>2. CASE PutsHead(s) \/ TakesData(s) \/ TakesRaw(s) \/ TakeApart(s)
  BY <1>2 DEF PutsHead, TakesData, TakesRaw, TakeApart
<1>3. CASE s = "client" /\ (ReadLine \/ ResponseTaken \/ ForeignBegins)
  BY <1>3 DEF ReadLine, ResponseTaken, ForeignBegins
<1>4. CASE (s = "server" /\ (AppReads \/ ReadsBegin)) \/ Passes(s)
  BY <1>4 DEF AppReads, ReadsBegin, Passes
<1>5. CASE Finishes(s)
  BY <1>5 DEF Finishes, Close
<1> QED
  BY <1>1, <1>2, <1>3, <1>4, <1>5 DEF Kinds

\* The last line of a head leaves none.
LEMMA LastLine ==
    ASSUME NEW q \in Seq(Piece), q # <<>>
    PROVE  Len(q) = 1 <=> Tail(q) = <<>>
<1> DEFINE t == Tail(q)
<1>1. t \in Seq(Piece) /\ Len(t) = Len(q) - 1 /\ Len(q) \in Nat
  OBVIOUS
<1> HIDE DEF t
<1>2. t = <<>> => Len(t) = 0
  OBVIOUS
<1>3. Len(t) = 0 => t = <<>>
  BY <1>1
<1>4. Len(q) = 1 <=> Len(t) = 0
  BY <1>1
<1> QED
  BY <1>2, <1>3, <1>4 DEF t

LEMMA OpeningInitControl == OpeningInit => \A c \in Side : Control(c)
<1> SUFFICES ASSUME OpeningInit, NEW c \in Side PROVE Control(c)
  OBVIOUS
<1>1. /\ out[c] = <<>> /\ got[c] = <<>> /\ ahead[c] = <<>> /\ sent[c] = 0 /\ head[c] = NoHead
      /\ gone = {} /\ foreign \subseteq Side
      /\ pc[c] = IF c \in foreign THEN "foreign" ELSE IF c = "client" THEN "start" ELSE "reading"
  BY DEF OpeningInit, Side
<1> QED
  BY <1>1 DEF Control, Sending, Opening, Ended, StatesOf, ClientStates, ServerStates

LEMMA ControlKept ==
    ASSUME OpeningTypes, NEW s \in Side, Control(s), Kinds(s)
    PROVE  Control(s)'
<1> USE DEF OpeningTypes, Enter, link, data
<1>1. CASE Fills(s)
  <2>1. ~(pc[s] = "reading" /\ route = "pair")
    BY <1>1 DEF Fills, FillBuf, Buffered
  <2> QED
    BY <1>1, <2>1 DEF Fills, FillBuf, Control
<1>2. CASE WriteLine(s)
  <2>1. /\ out'[s] = Tail(out[s]) /\ out[s] \in Seq(Piece) /\ out[s] # <<>>
        /\ pc[s] \in Sending /\ s \notin gone
    BY <1>2, Afters DEF WriteLine, Control, Sending, Ended
  <2>2. Len(out[s]) = 1 <=> out'[s] = <<>>
    BY <2>1, LastLine
  <2>3. /\ pc'[s] = IF Len(out[s]) = 1 THEN After[pc[s]] ELSE pc[s]
        /\ head' = head /\ sent' = sent /\ got' = got /\ gone' = gone /\ foreign' = foreign
        /\ route' = route
    BY <1>2 DEF WriteLine
  <2>4. CASE Len(out[s]) = 1
    BY <2>1, <2>2, <2>3, <2>4, Afters
       DEF Control, Sending, Opening, StatesOf, ClientStates, ServerStates
  <2>5. CASE Len(out[s]) # 1
    BY <2>1, <2>2, <2>3, <2>5 DEF Control, Sending, Opening
  <2> QED
    BY <2>4, <2>5
<1>3. CASE PutsHead(s)
  <2>1. head'[s] # NoHead
    BY <1>3, HeadsThere DEF PutsHead
  <2>2. out'[s] # <<>> /\ s \notin gone /\ sent[s] = 0 /\ got[s] = <<>>
    BY <1>3 DEF PutsHead, DebugHead, Control, Ended, Opening
  <2>3. s = "server" => route' = "pair"
    BY <1>3 DEF PutsHead, Control, StatesOf, ServerStates
  <2> QED
    BY <1>3, <2>1, <2>2, <2>3 DEF PutsHead, Control, Sending, Opening, Ended
<1>4. CASE ForeignHead(s)
  <2>1. head'[s] # NoHead
    BY <1>4, HeadsThere DEF ForeignHead
  <2> QED
    BY <1>4, <2>1 DEF ForeignHead, Control, Sending, Opening, Ended
<1>5. CASE SendsData(s)
  BY <1>5 DEF SendsData, Control, Sending, Opening, Ended
<1>6. CASE TakesData(s) \/ TakesRaw(s) \/ TakeApart(s)
  BY <1>6 DEF TakesData, TakesRaw, TakeApart, Control, Sending, Opening, Ended
<1>7. CASE s = "client" /\ (ReadLine \/ ResponseTaken \/ ForeignBegins)
  BY <1>7
     DEF ReadLine, ResponseTaken, ForeignBegins, Control, Sending, Opening, Ended, StatesOf,
         ClientStates
<1>8. CASE (s = "server" /\ (AppReads \/ ReadsBegin)) \/ Passes(s)
  BY <1>8 DEF AppReads, ReadsBegin, Passes, Control, Sending, Opening, Ended, StatesOf, ServerStates
<1>9. CASE Finishes(s)
  <2>1. s \in gone' => s \in gone \/ Close(s)
    BY <1>9 DEF Finishes
  <2> QED
    BY <1>9, <2>1
       DEF Finishes, Control, Live, Sending, Opening, Ended, StatesOf, ClientStates, ServerStates
<1> QED
  BY <1>1, <1>2, <1>3, <1>4, <1>5, <1>6, <1>7, <1>8, <1>9 DEF Kinds

LEMMA OpeningControl == OpeningSpec => [](OpeningTypes /\ \A c \in Side : Control(c))
<1>1. OpeningTypes /\ (\A c \in Side : Control(c)) /\ [OpeningNext]_openingVars
          => (OpeningTypes /\ \A c \in Side : Control(c))'
  <2> SUFFICES ASSUME OpeningTypes, \A c \in Side : Control(c), [OpeningNext]_openingVars
               PROVE  OpeningTypes' /\ (\A c \in Side : Control(c)')
    OBVIOUS
  <2>1. ASSUME NEW s \in Side, Acts(s) PROVE OpeningTypes' /\ (\A c \in Side : Control(c)')
    <3>1. Kinds(s)
      BY <2>1, StepKinds
    <3>2. OpeningTypes' /\ Control(s)'
      BY <3>1, OpeningKept, ControlKept
    <3>3. ASSUME NEW c \in Side \ {s} PROVE Control(c)'
      BY <3>1, OnlyItsOwn DEF Control
    <3> QED
      BY <3>2, <3>3
  <2>2. CASE UNCHANGED openingVars
    BY <2>2 DEF openingVars, OpeningTypes, Control
  <2> QED
    BY <2>1, <2>2, NextActs
<1> QED
  BY OpeningInitTyped, OpeningInitControl, <1>1, PTL DEF OpeningSpec

-----------------------------------------------------------------------------
(* Flow, kept *)

LEMMA PlacesTyped ==
    ASSUME OpeningTypes, NEW c \in Side
    PROVE  /\ Taken(c) \in Seq(Piece) /\ ahead[c] \in Seq(Piece) /\ net[c] \in Seq(Piece)
           /\ out[Peer[c]] \in Seq(Piece)
           /\ Peer[c] \in Side /\ Peer[c] # c /\ Peer[Peer[c]] = c
           /\ \A H \in HeadLists : Total(Peer[c], H) \in Nat
<1>1. Taken(c) \in Seq(Piece) /\ ahead[c] \in Seq(Piece) /\ net[c] \in Seq(Piece)
      /\ out[Peer[c]] \in Seq(Piece) /\ sent[Peer[c]] \in Nat
  BY Sides DEF OpeningTypes, Taken
<1> QED
  BY <1>1, Sides, HeadListsTyped DEF Total

\* A step of the receiver.
LEMMA ReceiverStep ==
    ASSUME OpeningTypes, NEW c \in Side, Control(c), Flow(c), Kinds(c)
    PROVE  Flow(c)'
<1> DEFINE p == Peer[c]
<1> SUFFICES ASSUME Reaches(c)'
             PROVE  \E H \in HeadLists : FlowOf(c, H)'
  BY DEF Flow
<1> USE DEF Enter, link, data
<1>0. pc'[c] \in Live /\ parts'[c] = "client" /\ (c = "server" => route' = "pair")
  BY DEF Reaches
<1>1. pc[c] \in Live /\ parts[c] = "client" /\ ~Finishes(c)
  <2>1. CASE Fills(c) \/ SendsData(c) \/ TakesData(c) \/ TakesRaw(c)
    BY <1>0, <2>1 DEF Fills, FillBuf, SendsData, TakesData, TakesRaw, Finishes, Live, Opening
  <2>2. CASE WriteLine(c)
    BY <1>0, <2>2, Afters DEF WriteLine, OpeningTypes, Finishes, Live, Opening
  <2>3. CASE PutsHead(c) \/ TakeApart(c)
    BY <1>0, <2>3 DEF PutsHead, TakeApart, Finishes, OpeningTypes, Live, Opening
  <2>4. CASE ForeignHead(c)
    BY <1>0, <2>4 DEF ForeignHead, Live, Opening
  <2>5. CASE c = "client" /\ (ReadLine \/ ResponseTaken \/ ForeignBegins)
    BY <1>0, <2>5 DEF ReadLine, ResponseTaken, ForeignBegins, Finishes, Live, Opening
  <2>6. CASE (c = "server" /\ (AppReads \/ ReadsBegin)) \/ Passes(c)
    BY <1>0, <2>6 DEF AppReads, ReadsBegin, Passes, Finishes, Live, Opening
  <2>7. ~Finishes(c)
    BY <1>0 DEF Finishes
  <2> QED
    BY <1>0, <2>1, <2>2, <2>3, <2>4, <2>5, <2>6, <2>7 DEF Kinds
<1>1a. route' = route /\ Reaches(c)
  <2>1. route' = route
    BY DEF Kinds, Fills, FillBuf, WriteLine, PutsHead, ForeignHead, SendsData, TakesData, TakesRaw,
           TakeApart, ReadLine, ResponseTaken, ForeignBegins, AppReads, ReadsBegin, Passes, Finishes
  <2> QED
    BY <1>0, <1>1, <2>1 DEF Reaches
<1>2. PICK H \in HeadLists : FlowOf(c, H)
  BY <1>1a DEF Flow
<1>3. /\ Taken(c) \in Seq(Piece) /\ ahead[c] \in Seq(Piece) /\ net[c] \in Seq(Piece)
      /\ out[p] \in Seq(Piece) /\ p \in Side /\ p # c /\ Total(p, H) \in Nat
  BY PlacesTyped
<1>4. /\ out'[p] = out[p] /\ Total(p, H)' = Total(p, H) /\ (p \in gone' <=> p \in gone)
      /\ foreign' = foreign
  BY <1>3, OnlyItsOwn DEF Total
<1>5. /\ Along(Taken(c), ahead[c], net[c], Base(c), Total(p, H), H)
      /\ p \notin gone => Whole(Taken(c), ahead[c], net[c], out[p], Base(c), Total(p, H), H)
      /\ Base(c) = 3 => H = WholeHead
      /\ p \notin foreign => H = DebugHead
  BY <1>2 DEF FlowOf
<1>6. ASSUME Along(Taken(c)', ahead'[c], net'[c], Base(c)', Total(p, H), H),
             p \notin gone =>
                Whole(Taken(c)', ahead'[c], net'[c], out[p], Base(c)', Total(p, H), H),
             Base(c)' = 3 => H = WholeHead
      PROVE  \E G \in HeadLists : FlowOf(c, G)'
  BY <1>4, <1>5, <1>6 DEF FlowOf
<1>7. ASSUME Taken(c)' = Taken(c), Base(c)' = Base(c), ahead'[c] = ahead[c], net'[c] = net[c]
      PROVE  \E G \in HeadLists : FlowOf(c, G)'
  BY <1>5, <1>6, <1>7
<1> HIDE DEF p
<1>8. ASSUME NEW m \in 1..Len(net[c]), FillBuf(c, m) PROVE \E G \in HeadLists : FlowOf(c, G)'
  <2>1. /\ ahead[c] = <<>> /\ ahead'[c] = SubSeq(net[c], 1, m)
        /\ net'[c] = SubSeq(net[c], m + 1, Len(net[c]))
        /\ Taken(c)' = Taken(c) /\ Base(c)' = Base(c)
    BY <1>8 DEF FillBuf, OpeningTypes, Taken, Base
  <2> DEFINE f == Taken(c)
             b == ahead[c]
             n == net[c]
             o == out[p]
             base == Base(c)
             total == Total(p, H)
  <2>2. /\ f \in Seq(Piece) /\ b \in Seq(Piece) /\ n \in Seq(Piece) /\ o \in Seq(Piece)
        /\ total \in Nat /\ b = <<>> /\ m \in 1..Len(n) /\ Along(f, b, n, base, total, H)
        /\ p \notin gone => Whole(f, b, n, o, base, total, H)
        /\ ahead'[c] = SubSeq(n, 1, m) /\ net'[c] = SubSeq(n, m + 1, Len(n))
    BY <1>3, <1>5, <1>8, <2>1
  <2> HIDE DEF f, b, n, o, base, total
  <2>3. /\ Along(f, ahead'[c], net'[c], base, total, H)
        /\ p \notin gone => Whole(f, ahead'[c], net'[c], o, base, total, H)
    <3>1. /\ Along(f, SubSeq(n, 1, m), SubSeq(n, m + 1, Len(n)), base, total, H)
          /\ Whole(f, b, n, o, base, total, H) =>
                Whole(f, SubSeq(n, 1, m), SubSeq(n, m + 1, Len(n)), o, base, total, H)
      BY <2>2, FlowFill
    <3> QED
      BY <2>2, <3>1
  <2> QED
    BY <1>5, <1>6, <2>1, <2>3 DEF f, o, base, total
<1>9. ASSUME ahead[c] # <<>>, Taken(c)' = Append(Taken(c), ahead[c][1]),
             ahead'[c] = Tail(ahead[c]), net'[c] = net[c], Base(c)' = Base(c)
      PROVE  \E G \in HeadLists : FlowOf(c, G)'
  <2> DEFINE f == Taken(c)
             b == ahead[c]
             n == net[c]
             o == out[p]
             base == Base(c)
             total == Total(p, H)
  <2>1. /\ f \in Seq(Piece) /\ b \in Seq(Piece) /\ n \in Seq(Piece) /\ o \in Seq(Piece)
        /\ total \in Nat /\ b # <<>> /\ Along(f, b, n, base, total, H)
        /\ p \notin gone => Whole(f, b, n, o, base, total, H)
        /\ Taken(c)' = Append(f, b[1]) /\ ahead'[c] = Tail(b)
    BY <1>3, <1>5, <1>9
  <2> HIDE DEF f, b, n, o, base, total
  <2>2. /\ Along(Taken(c)', ahead'[c], n, base, total, H)
        /\ p \notin gone => Whole(Taken(c)', ahead'[c], n, o, base, total, H)
    BY <2>1, FlowTake
  <2> QED
    BY <1>5, <1>6, <1>9, <2>2 DEF n, o, base, total
<1>10. CASE WriteLine(c)
  <2>1. ahead' = ahead /\ net'[c] = net[c] /\ text' = text /\ got' = got
    BY <1>3, <1>10 DEF WriteLine, OpeningTypes, p
  <2>2. \/ pc'[c] = pc[c]
        \/ pc[c] = "sending" /\ pc'[c] = "awaiting"
        \/ pc[c] = "accepting" /\ pc'[c] = "open"
    BY <1>10, <1>1, Afters DEF WriteLine, OpeningTypes, Live, Opening
  <2> QED
    BY <1>7, <2>1, <2>2 DEF Taken, Base, Before
<1>11. CASE PutsHead(c)
  <2>1. ahead' = ahead /\ net' = net /\ text' = text /\ got' = got
    BY <1>11 DEF PutsHead
  <2>2. \/ pc[c] = "start" /\ pc'[c] = "sending"
        \/ pc[c] = "upgraded" /\ pc'[c] = "accepting"
    BY <1>0, <1>11
       DEF PutsHead, Live, Opening, Sending, Control, StatesOf, ClientStates, ServerStates
  <2> QED
    BY <1>7, <2>1, <2>2 DEF Taken, Base, Before
<1>12. CASE SendsData(c)
  BY <1>3, <1>7, <1>12 DEF SendsData, OpeningTypes, Taken, Base, p
<1>13. CASE TakesData(c)
  <2>1. /\ pc[c] = "open" /\ pc' = pc /\ ahead[c] # <<>> /\ net' = net
        /\ got'[c] = Append(got[c], ahead[c][1]) /\ ahead'[c] = Tail(ahead[c])
    BY <1>13 DEF TakesData, OpeningTypes
  <2> QED
    BY <1>9, <2>1 DEF Taken, Base, Before
<1>14. CASE c = "client" /\ ReadLine
  <2>1. /\ pc[c] = "awaiting" /\ pc'[c] \in {"awaiting", "parsing"} /\ ahead[c] # <<>> /\ net' = net
        /\ text' = Append(text, ahead[c][1]) /\ ahead'[c] = Tail(ahead[c])
    BY <1>14 DEF ReadLine, OpeningTypes
  <2> QED
    BY <1>9, <1>14, <2>1 DEF Taken, Base, Before
<1>15. CASE c = "client" /\ ResponseTaken
  <2>1. /\ pc[c] = "parsing" /\ pc'[c] = "open" /\ ahead' = ahead /\ net' = net
        /\ got' = got /\ got[c] = <<>> /\ Complete(text)
    BY <1>15 DEF ResponseTaken, OpeningTypes, Control, Opening
  <2>2. Taken(c) = text /\ Base(c) = 0 /\ Taken(c)' = <<>> /\ Base(c)' = 3
    BY <1>15, <2>1 DEF Taken, Base, Before
  <2>3. Run(text, 0, H) /\ text \in Seq(Piece)
    BY <1>3, <1>5, <2>2 DEF Along
  <2>4. H = WholeHead /\ Len(text) = 3
    BY <2>1, <2>3, HeadComplete
  <2> DEFINE b == ahead[c]
             n == net[c]
             o == out[p]
             total == Total(p, H)
  <2>5. /\ b \in Seq(Piece) /\ n \in Seq(Piece) /\ o \in Seq(Piece) /\ total \in Nat
        /\ Along(text, b, n, 0, total, H)
        /\ p \notin gone => Whole(text, b, n, o, 0, total, H)
    BY <1>3, <1>5, <2>2
  <2> HIDE DEF b, n, o, total
  <2>6. /\ Along(<<>>, b, n, 3, total, H)
        /\ p \notin gone => Whole(<<>>, b, n, o, 3, total, H)
    BY <2>3, <2>4, <2>5, FlowOpen
  <2> QED
    BY <1>6, <2>1, <2>2, <2>4, <2>6 DEF b, n, o, total
<1>16. CASE c = "server" /\ AppReads
  <2>1. /\ pc[c] = "reading" /\ pc'[c] = "paired" /\ ahead' = ahead /\ ahead[c] = <<>>
        /\ net'[c] = SubSeq(net[c], 4, Len(net[c])) /\ IsPrefix(WholeHead, net[c])
        /\ got' = got /\ got[c] = <<>>
    BY <1>16 DEF AppReads, OpeningTypes, Control, Opening
  <2>2. Taken(c) = <<>> /\ Base(c) = 0 /\ Taken(c)' = <<>> /\ Base(c)' = 3
    BY <1>16, <2>1 DEF Taken, Base, Before
  <2>3. Run(net[c], 0, H)
    BY <1>5, <2>1, <2>2 DEF Along
  <2>4. H = WholeHead /\ Len(net[c]) >= 3
    BY <1>3, <2>1, <2>3, HeadPrefix
  <2> DEFINE n == net[c]
             o == out[p]
             total == Total(p, H)
  <2>5. /\ n \in Seq(Piece) /\ o \in Seq(Piece) /\ total \in Nat /\ Len(n) >= 3
        /\ Along(<<>>, <<>>, n, 0, total, H)
        /\ p \notin gone => Whole(<<>>, <<>>, n, o, 0, total, H)
        /\ net'[c] = SubSeq(n, 4, Len(n))
    BY <1>3, <1>5, <2>1, <2>2, <2>4
  <2> HIDE DEF n, o, total
  <2>6. /\ Along(<<>>, <<>>, net'[c], 3, total, H)
        /\ p \notin gone => Whole(<<>>, <<>>, net'[c], o, 3, total, H)
    BY <2>5, FlowRequest
  <2> QED
    BY <1>6, <2>1, <2>2, <2>4, <2>6 DEF o, total
<1>17. CASE Passes(c)
  <2>1. /\ pc[c] = "paired" /\ pc'[c] = "upgraded" /\ c = "server"
        /\ ahead' = ahead /\ net' = net /\ text' = text /\ got' = got
    BY <1>17 DEF Passes, OpeningTypes
  <2> QED
    BY <1>7, <2>1 DEF Taken, Base, Before
<1>18. ~TakesRaw(c) /\ ~TakeApart(c) /\ ~ForeignHead(c)
  BY <1>0, <1>1 DEF TakesRaw, TakeApart, ForeignHead, OpeningTypes, Live, Opening
<1>19. ~(c = "client" /\ ForeignBegins) /\ ~(c = "server" /\ ReadsBegin)
  BY <1>0, <1>1, <1>1a DEF ForeignBegins, ReadsBegin, Live, Opening
<1> QED
  BY <1>1, <1>8, <1>10, <1>11, <1>12, <1>13, <1>14, <1>15, <1>16, <1>17, <1>18, <1>19
     DEF Kinds, Fills

\* A step of the sender.
LEMMA SenderStep ==
    ASSUME OpeningTypes, NEW c \in Side, Control(Peer[c]), Flow(c), Kinds(Peer[c])
    PROVE  Flow(c)'
<1> DEFINE p == Peer[c]
           f == Taken(c)
           b == ahead[c]
           n == net[c]
           o == out[p]
           base == Base(c)
<1> USE DEF Enter, link, data
<1>1. /\ f \in Seq(Piece) /\ b \in Seq(Piece) /\ n \in Seq(Piece) /\ o \in Seq(Piece)
      /\ p \in Side /\ p # c /\ Peer[p] = c /\ (\A H \in HeadLists : Total(p, H) \in Nat)
  BY PlacesTyped
<1>2. /\ pc'[c] = pc[c] /\ parts'[c] = parts[c] /\ ahead'[c] = b /\ f' = f /\ base' = base
      /\ foreign' = foreign /\ route' = route
  <2>1. /\ pc'[c] = pc[c] /\ parts'[c] = parts[c] /\ ahead'[c] = b /\ got'[c] = got[c]
        /\ c = "client" => text' = text
        /\ foreign' = foreign /\ route' = route
    BY <1>1, OnlyItsOwn
  <2> QED
    BY <2>1 DEF Taken, Base
<1> SUFFICES ASSUME Reaches(c)
             PROVE  \E G \in HeadLists : FlowOf(c, G)'
  BY <1>2 DEF Flow, Reaches
<1>3. PICK H \in HeadLists : FlowOf(c, H)
  BY DEF Flow
<1> DEFINE total == Total(p, H)
<1>4. /\ Along(f, b, n, base, total, H)
      /\ p \notin gone => Whole(f, b, n, o, base, total, H)
      /\ base = 3 => H = WholeHead
      /\ p \notin foreign => H = DebugHead
      /\ Kinds(p) /\ Control(p) /\ total \in Nat
  BY <1>1, <1>3 DEF FlowOf
<1>5. ASSUME NEW G \in HeadLists, Along(f, b, net'[c], base, Total(p, G)', G),
             p \notin gone' => Whole(f, b, net'[c], out'[p], base, Total(p, G)', G),
             base = 3 => G = WholeHead, p \notin foreign => G = DebugHead
      PROVE  \E K \in HeadLists : FlowOf(c, K)'
  BY <1>2, <1>5 DEF FlowOf
<1> HIDE DEF p, f, b, n, o, base
<1>6. ASSUME total' = total, net'[c] = n, out'[p] = o, p \in gone => p \in gone'
      PROVE  \E K \in HeadLists : FlowOf(c, K)'
  BY <1>4, <1>5, <1>6
<1>7. CASE WriteLine(p)
  <2>1. o # <<>> /\ p \notin gone
    BY <1>4, <1>7, Afters DEF WriteLine, Control, Sending, Ended, o
  <2>2. net'[c] = Append(n, o[1]) /\ out'[p] = Tail(o) /\ total' = total
    BY <1>1, <1>7 DEF WriteLine, OpeningTypes, Total, n, o
  <2> HIDE DEF total
  <2>3. /\ Along(f, b, Append(n, o[1]), base, total, H)
        /\ Whole(f, b, Append(n, o[1]), Tail(o), base, total, H)
    BY <1>1, <1>4, <2>1, FlowWrite
  <2> QED
    BY <1>4, <1>5, <2>2, <2>3 DEF total
<1>8. CASE Finishes(p)
  <2>1. out'[p] = o /\ total' = total /\ (p \in gone => p \in gone')
    BY <1>8 DEF Finishes, Close, Total, o
  <2>2. CASE Close(p)
    <3>1. PICK m \in 0..Len(n) : net'[c] = SubSeq(n, 1, m)
      BY <1>1, <2>2 DEF Close, OpeningTypes, n
    <3>2. p \in gone'
      BY <2>2 DEF Close
    <3> HIDE DEF total
    <3>3. Along(f, b, net'[c], base, total, H)
      BY <1>1, <1>4, <3>1, FlowClose
    <3> QED
      BY <1>4, <1>5, <2>1, <3>2, <3>3 DEF total
  <2>3. CASE ~Close(p)
    <3>1. net'[c] = n
      BY <1>8, <2>3 DEF Finishes, n
    <3> QED
      BY <1>6, <2>1, <3>1
  <2> QED
    BY <2>2, <2>3
<1>9. CASE Fills(p) \/ TakesData(p) \/ TakesRaw(p) \/ TakeApart(p) \/ Passes(p)
  BY <1>1, <1>6, <1>9
     DEF Fills, FillBuf, TakesData, TakesRaw, TakeApart, Passes, OpeningTypes, Total, n, o
<1>10. CASE \/ p = "client" /\ (ReadLine \/ ResponseTaken)
            \/ p = "server" /\ (AppReads \/ ReadsBegin)
  BY <1>1, <1>6, <1>10
     DEF ReadLine, ResponseTaken, AppReads, ReadsBegin, OpeningTypes, Total, n, o
<1>15. ~(p = "client" /\ ForeignBegins)
  <2>1. p = "client" => c = "server"
    BY <1>1, Sides
  <2> QED
    BY <2>1 DEF Reaches, ForeignBegins
<1>11. CASE SendsData(p)
  <2>1. head[p] # NoHead /\ p \notin gone /\ o = <<>> /\ sent[p] \in Nat
    BY <1>1, <1>4, <1>11 DEF SendsData, Control, Sending, OpeningTypes, o
  <2> DEFINE d == sent[p]
             n1 == Append(n, DataByte(d + 1))
  <2>2. net'[c] = n1 /\ total = Len(H) + d /\ total' = Len(H) + (d + 1) /\ out'[p] = o
    BY <1>1, <1>11, <2>1 DEF SendsData, OpeningTypes, Total, n, o
  <2>3. d \in Nat /\ Along(f, b, n, base, Len(H) + d, H) /\ Whole(f, b, n, o, base, Len(H) + d, H)
    BY <1>4, <2>1, <2>2
  <2> HIDE DEF d, total
  <2>4. Along(f, b, n1, base, Len(H) + (d + 1), H) /\ Whole(f, b, n1, o, base, Len(H) + (d + 1), H)
    BY <1>1, <2>1, <2>3, FlowData
  <2> HIDE DEF n1
  <2> QED
    BY <1>4, <1>5, <2>2, <2>4 DEF total
<1>12. ASSUME NEW G \in HeadLists, head[p] = NoHead, head'[p] # NoHead, p \notin gone,
              sent'[p] = sent[p], p \notin foreign => G = DebugHead,
              \/ net'[c] = n \o G /\ out'[p] = o
              \/ net'[c] = n /\ out'[p] = G
       PROVE  \E K \in HeadLists : FlowOf(c, K)'
  <2>1. total = 0 /\ sent[p] = 0
    BY <1>4, <1>12 DEF Total, Control
  <2>2. Total(p, G)' = Len(G)
    <3>1. Len(G) \in Nat /\ Total(p, G)' = Len(G) + 0
      BY <1>12, <2>1, HeadListsTyped DEF Total
    <3> QED
      BY <3>1
  <2>3. Along(f, b, n, base, 0, H) /\ Whole(f, b, n, o, base, 0, H)
    BY <1>4, <1>12, <2>1
  <2>4. base = 0
    BY <1>1, <2>3, FlowStill
  <2>5. /\ Along(f, b, n, base, Len(G), G) /\ Whole(f, b, n, G, base, Len(G), G)
        /\ Along(f, b, n \o G, base, Len(G), G) /\ Whole(f, b, n \o G, o, base, Len(G), G)
    BY <1>1, <2>3, FlowHead
  <2>6. Along(f, b, net'[c], base, Total(p, G)', G)
    BY <1>12, <2>2, <2>5
  <2>7. Whole(f, b, net'[c], out'[p], base, Total(p, G)', G)
    BY <1>12, <2>2, <2>5
  <2>8. base # 3
    BY <2>4
  <2> QED
    BY <1>5, <1>12, <2>6, <2>7, <2>8
<1>13. CASE ForeignHead(p)
  <2>1. head[p] = NoHead /\ head'[p] # NoHead /\ p \notin gone /\ sent' = sent /\ out' = out
    BY <1>1, <1>13, HeadsThere DEF ForeignHead, OpeningTypes
  <2>2. p \in foreign
    BY <1>4, <1>13 DEF ForeignHead, Control
  <2>3. PICK G \in HeadLists : net' = [net EXCEPT ![c] = @ \o G]
    BY <1>1, <1>13 DEF ForeignHead, HeadLists, ForeignHeads
  <2>4. net'[c] = n \o G
    BY <2>3 DEF OpeningTypes, n
  <2> QED
    BY <1>12, <2>1, <2>2, <2>4 DEF o
<1>14. CASE PutsHead(p)
  <2>1. /\ head'[p] # NoHead /\ sent' = sent /\ net' = net /\ out'[p] = DebugHead
        /\ pc[p] \in {"start", "upgraded"}
    BY <1>1, <1>14, HeadsThere DEF PutsHead, OpeningTypes
  <2>2. head[p] = NoHead /\ p \notin gone
    BY <1>4, <2>1 DEF Control, Ended
  <2> QED
    BY <1>12, <2>1, <2>2 DEF HeadLists, n
<1> QED
  BY <1>4, <1>7, <1>8, <1>9, <1>10, <1>11, <1>13, <1>14, <1>15 DEF Kinds

LEMMA OpeningInitFlow == OpeningInit => \A c \in Side : Flow(c)
<1> SUFFICES ASSUME OpeningInit, NEW c \in Side, pc[c] \in Live
             PROVE  \E H \in HeadLists : FlowOf(c, H)
  BY DEF Flow, Reaches
<1>1. /\ got[c] = <<>> /\ text = <<>> /\ ahead[c] = <<>> /\ net[c] = <<>>
      /\ out[Peer[c]] = <<>> /\ head[Peer[c]] = NoHead
  BY Sides DEF OpeningInit
<1>2. pc[c] \in {"start", "reading"}
  BY Sides DEF OpeningInit, Live, Opening
<1>3. Taken(c) = <<>> /\ Base(c) = 0 /\ \A H : Total(Peer[c], H) = 0
  BY <1>1, <1>2 DEF Taken, Base, Before, Total
<1>4. FlowOf(c, DebugHead)
  BY <1>1, <1>3 DEF FlowOf, Along, Whole, Run
<1> QED
  BY <1>4 DEF HeadLists

LEMMA OpeningFlow == OpeningSpec => [](\A c \in Side : Flow(c))
<1>1. /\ OpeningTypes /\ (\A c \in Side : Control(c)) /\ (\A c \in Side : Flow(c))
      /\ [OpeningNext]_openingVars
      => (\A c \in Side : Flow(c))'
  <2> SUFFICES ASSUME OpeningTypes, \A c \in Side : Control(c), \A c \in Side : Flow(c),
                      [OpeningNext]_openingVars, NEW c \in Side
               PROVE  Flow(c)'
    OBVIOUS
  <2>1. ASSUME NEW s \in Side, Acts(s) PROVE Flow(c)'
    <3>1. Kinds(s)
      BY <2>1, StepKinds
    <3>2. CASE c = s
      BY <3>1, <3>2, ReceiverStep
    <3>3. CASE c # s
      <4>1. s = Peer[c]
        BY <3>3, Sides
      <4> QED
        BY <3>1, <4>1, SenderStep
    <3> QED
      BY <3>2, <3>3
  <2>2. CASE UNCHANGED openingVars
    BY <2>2 DEF openingVars, Flow, Reaches, FlowOf, Taken, Base, Total
  <2> QED
    BY <2>1, <2>2, NextActs
<1> QED
  BY OpeningInitFlow, OpeningControl, <1>1, PTL DEF OpeningSpec

\* What a Client receives until it is taken apart is the data its peer has sent, from the
\* first byte on, whichever way the lines came and whatever was read ahead of them: the
\* Client of connect_on goes on with the BufReader that read the response.
THEOREM ClientsReceiveData == OpeningSpec => []DataFollowsHead
<1>1. OpeningTypes /\ (\A c \in Side : Control(c)) /\ (\A c \in Side : Flow(c)) => DataFollowsHead
  <2> SUFFICES ASSUME OpeningTypes, \A s \in Side : Control(s), \A s \in Side : Flow(s),
                      NEW c \in Side, pc[c] = "open", parts[c] = "client"
               PROVE  LET all == got[c] \o ahead[c] \o net[c] IN
                      /\ IsPrefix(all, DataSent(Peer[c]))
                      /\ Peer[c] \notin gone => all = DataSent(Peer[c])
    BY DEF DataFollowsHead
  <2> DEFINE all == got[c] \o ahead[c] \o net[c]
             p == Peer[c]
             d == sent[p]
  <2>1. PICK H \in HeadLists : FlowOf(c, H)
    BY DEF Flow, Reaches, Live, Control
  <2>2. Base(c) = 3 /\ Taken(c) = got[c]
    BY DEF Base, Taken, Before
  <2>3. H = WholeHead /\ Len(H) = 3 /\ p \in foreign
    <3>1. H = WholeHead /\ (p \notin foreign => H = DebugHead)
      BY <2>1, <2>2 DEF FlowOf
    <3>2. Len(WholeHead) = 3 /\ Len(DebugHead) = 2
      BY DEF WholeHead, DebugHead
    <3> QED
      BY <3>1, <3>2
  <2>4. /\ p \in Side /\ Control(p) /\ d \in Nat
        /\ p \notin gone => out[p] = <<>>
    BY <2>3, Sides DEF Control, OpeningTypes, Sending
  <2>5. /\ all \in Seq(Piece) /\ Run(all, 3, H) /\ 3 + Len(all) <= Total(p, H)
        /\ p \notin gone => 3 + Len(all) + Len(out[p]) = Total(p, H)
    <3> DEFINE f == got[c]
               b == ahead[c]
               n == net[c]
               o == out[p]
               total == Total(p, H)
    <3>1. /\ f \in Seq(Piece) /\ b \in Seq(Piece) /\ n \in Seq(Piece) /\ o \in Seq(Piece)
          /\ total \in Nat /\ Along(f, b, n, 3, total, H)
          /\ p \notin gone => Whole(f, b, n, o, 3, total, H)
      BY <2>1, <2>2, PlacesTyped DEF FlowOf
    <3> HIDE DEF p, f, b, n, o, total
    <3>2. /\ f \o b \o n \in Seq(Piece) /\ Run(f \o b \o n, 3, H)
          /\ 3 + Len(f \o b \o n) <= total
          /\ Whole(f, b, n, o, 3, total, H) => 3 + Len(f \o b \o n) + Len(o) = total
      BY <3>1, FlowCome
    <3> QED
      BY <3>1, <3>2 DEF f, b, n, o, total
  <2> HIDE DEF all
  <2> DEFINE L == Len(all)
  <2>6. L \in Nat /\ \A i \in 1..L : all[i] = DataByte(i)
    <3>1. \A i \in 1..L : all[i] = PieceAt(H, 3 + i)
      BY <2>5 DEF Run
    <3>2. ASSUME NEW i \in 1..L PROVE PieceAt(H, 3 + i) = DataByte(i)
      <4>1. ~(3 + i <= 3) /\ (3 + i) - 3 = i
        OBVIOUS
      <4> QED
        BY <2>3, <4>1 DEF PieceAt
    <3> QED
      BY <2>5, <3>1, <3>2
  <2>7. L <= d /\ (p \notin gone => L = d)
    <3>1. Total(p, H) = IF head[p] = NoHead THEN 0 ELSE 3 + d
      BY <2>3 DEF Total
    <3>2. 3 + L <= Total(p, H)
      BY <2>5
    <3>3. p \notin gone => 3 + L + 0 = Total(p, H)
      BY <2>4, <2>5
    <3>4. L \in Nat /\ d \in Nat
      BY <2>4, <2>6
    <3> HIDE DEF L, d, p
    <3> QED
      BY <3>1, <3>2, <3>3, <3>4
  <2>8. /\ DataSent(p) \in Seq(Piece) /\ Len(DataSent(p)) = d
        /\ \A i \in 1..d : DataSent(p)[i] = DataByte(i)
    <3>1. \A k \in 1..d : DataByte(k) \in Piece
      BY DEF DataByte, Piece
    <3> QED
      BY <2>4, <3>1 DEF DataSent
  <2>9. IsPrefix(all, DataSent(p))
    <3> DEFINE t == DataSent(p)
    <3>1. /\ all \in Seq(Piece) /\ t \in Seq(Piece) /\ Len(all) <= Len(t)
          /\ \A i \in 1..Len(all) : all[i] = t[i]
      BY <2>4, <2>5, <2>6, <2>7, <2>8
    <3> HIDE DEF t, L, d
    <3>2. SubSeq(all, 1, Len(all)) = SubSeq(t, 1, Len(all))
      BY <3>1
    <3> QED
      BY <3>1, <3>2 DEF IsPrefix, t
  <2>10. ASSUME p \notin gone PROVE all = DataSent(p)
    <3> DEFINE t == DataSent(p)
    <3>1. /\ all \in Seq(Piece) /\ t \in Seq(Piece) /\ Len(all) = Len(t)
          /\ \A i \in 1..Len(all) : all[i] = t[i]
      BY <2>4, <2>5, <2>6, <2>7, <2>8, <2>10
    <3> HIDE DEF t, L, d
    <3>2. all = t
      BY <3>1
    <3> QED
      BY <3>2 DEF t
  <2> QED
    BY <2>9, <2>10 DEF all
<1> QED
  BY <1>1, OpeningControl, OpeningFlow, PTL

================================================================================
