----------------------------- MODULE SessionProofs -----------------------------
(***************************************************************************)
(* What the client programs promise for any messages of the peer, any      *)
(* number of them and of lines: a close is the last frame there is, and    *)
(* the answers and the lines come in order.                                *)
(***************************************************************************)
EXTENDS Session, FiniteSetTheorems, TLAPS

-----------------------------------------------------------------------------
(* Counting along a sequence *)

Total(ms, kinds) == Count(ms, kinds, Len(ms))

Positions(ms, kinds, i) == {k \in 1..i : ms[k].op \in kinds}

LEMMA CountIsNat ==
    ASSUME NEW ms, NEW kinds, NEW i \in Nat
    PROVE  /\ IsFiniteSet(Positions(ms, kinds, i))
           /\ Count(ms, kinds, i) = Cardinality(Positions(ms, kinds, i))
           /\ Count(ms, kinds, i) \in Nat
<1>1. IsFiniteSet(1..i)
  BY FS_Interval
<1>2. Positions(ms, kinds, i) \in SUBSET (1..i)
  BY DEF Positions
<1>3. IsFiniteSet(Positions(ms, kinds, i))
  BY <1>1, <1>2, FS_Subset
<1>4. Count(ms, kinds, i) = Cardinality(Positions(ms, kinds, i))
  BY DEF Count, Positions
<1> QED
  BY <1>3, <1>4, FS_CardinalityType

\* What comes behind does not count.
LEMMA CountSame ==
    ASSUME NEW s, NEW t, NEW kinds, NEW i \in Nat, \A k \in 1..i : s[k] = t[k]
    PROVE  Count(s, kinds, i) = Count(t, kinds, i)
<1>1. {k \in 1..i : s[k].op \in kinds} = {k \in 1..i : t[k].op \in kinds}
  OBVIOUS
<1> QED
  BY <1>1 DEF Count

LEMMA AppendIs ==
    ASSUME NEW S, NEW s \in Seq(S), NEW x
    PROVE  /\ Len(s) \in Nat /\ DOMAIN s = 1..Len(s)
           /\ Len(Append(s, x)) = Len(s) + 1 /\ DOMAIN Append(s, x) = 1..(Len(s) + 1)
           /\ Append(s, x)[Len(s) + 1] = x
           /\ \A k \in 1..Len(s) : Append(s, x)[k] = s[k]
<1> DEFINE T == S \cup {x}
<1>1. s \in Seq(T) /\ x \in T
  OBVIOUS
<1> HIDE DEF T
<1>2. /\ Len(s) \in Nat /\ DOMAIN s = 1..Len(s)
      /\ Append(s, x) \in Seq(T) /\ Len(Append(s, x)) = Len(s) + 1
      /\ DOMAIN Append(s, x) = 1..(Len(s) + 1)
      /\ Append(s, x)[Len(s) + 1] = x
      /\ \A k \in 1..Len(s) : Append(s, x)[k] = s[k]
  BY <1>1
<1> QED
  BY <1>2

LEMMA CountKept ==
    ASSUME NEW S, NEW s \in Seq(S), NEW x, NEW kinds, NEW i \in 1..Len(s)
    PROVE  Count(Append(s, x), kinds, i) = Count(s, kinds, i)
<1> DEFINE t == Append(s, x)
<1>1. i \in Nat /\ \A k \in 1..i : t[k] = s[k]
  BY AppendIs
<1> HIDE DEF t
<1>2. Count(t, kinds, i) = Count(s, kinds, i)
  BY <1>1, CountSame
<1> QED
  BY <1>2 DEF t

LEMMA TotalAppend ==
    ASSUME NEW S, NEW s \in Seq(S), NEW x, NEW kinds
    PROVE  Total(Append(s, x), kinds) =
              IF x.op \in kinds THEN Total(s, kinds) + 1 ELSE Total(s, kinds)
<1> DEFINE n == Len(s)
           t == Append(s, x)
           A == Positions(s, kinds, n)
           B == Positions(t, kinds, n + 1)
<1>1. /\ n \in Nat /\ Len(t) = n + 1 /\ t[n + 1] = x
      /\ \A k \in 1..n : t[k] = s[k]
  BY AppendIs
<1> HIDE DEF n, t
<1>2. IsFiniteSet(A) /\ n + 1 \notin A
  <2>1. IsFiniteSet(A)
    BY <1>1, CountIsNat
  <2>2. A \subseteq 1..n
    BY DEF Positions
  <2> QED
    BY <1>1, <2>1, <2>2
<1>3. B = IF x.op \in kinds THEN A \cup {n + 1} ELSE A
  BY <1>1 DEF Positions
<1>4. Cardinality(B) = IF x.op \in kinds THEN Cardinality(A) + 1 ELSE Cardinality(A)
  BY <1>2, <1>3, FS_AddElement
<1>5. Total(t, kinds) = Cardinality(B) /\ Total(s, kinds) = Cardinality(A)
  BY <1>1, CountIsNat DEF Total, n
<1> QED
  BY <1>4, <1>5 DEF n, t

-----------------------------------------------------------------------------
(* Sequences in order *)

\* As far along as each other.
Even(s, t, kinds) == InOrder(s, t, kinds) /\ Total(s, kinds) = Total(t, kinds)

\* More may become due.
LEMMA MoreDue ==
    ASSUME NEW S, NEW s \in Seq(S), NEW T, NEW t \in Seq(T), NEW kinds, NEW y,
           InOrder(s, t, kinds)
    PROVE  InOrder(s, Append(t, y), kinds)
<1> DEFINE u == Append(t, y)
           n == Len(t)
<1>1. /\ DOMAIN t = 1..n /\ DOMAIN u = 1..(n + 1) /\ n \in Nat
      /\ \A k \in 1..n : u[k] = t[k]
  BY AppendIs
<1>2. \A k \in 1..n : Count(u, kinds, k) = Count(t, kinds, k)
  BY CountKept
<1> HIDE DEF u, n
<1>3. ASSUME NEW i \in DOMAIN s, s[i].op \in kinds
      PROVE  \E j \in DOMAIN u : u[j] = s[i] /\ Count(u, kinds, j) = Count(s, kinds, i)
  <2>1. PICK j \in DOMAIN t : t[j] = s[i] /\ Count(t, kinds, j) = Count(s, kinds, i)
    BY <1>3 DEF InOrder
  <2>2. j \in DOMAIN u /\ u[j] = t[j] /\ Count(u, kinds, j) = Count(t, kinds, j)
    BY <1>1, <1>2
  <2> QED
    BY <2>1, <2>2
<1>4. InOrder(s, u, kinds)
  BY <1>3 DEF InOrder
<1> QED
  BY <1>4 DEF u

\* One more comes: of other kinds, or the next that is due.
LEMMA OneMore ==
    ASSUME NEW S, NEW s \in Seq(S), NEW t, NEW kinds, NEW x, InOrder(s, t, kinds),
           x.op \in kinds =>
              \E j \in DOMAIN t : t[j] = x /\ Count(t, kinds, j) = Total(s, kinds) + 1
    PROVE  InOrder(Append(s, x), t, kinds)
<1> DEFINE u == Append(s, x)
           n == Len(s)
<1>1. /\ n \in Nat /\ DOMAIN s = 1..n /\ DOMAIN u = 1..(n + 1) /\ Len(u) = n + 1
      /\ u[n + 1] = x /\ \A k \in 1..n : u[k] = s[k]
  BY AppendIs
<1>2. \A i \in 1..n : Count(u, kinds, i) = Count(s, kinds, i)
  BY CountKept
<1>3. x.op \in kinds => Count(u, kinds, n + 1) = Total(s, kinds) + 1
  BY <1>1, TotalAppend DEF Total
<1> HIDE DEF u, n
<1> SUFFICES ASSUME NEW i \in DOMAIN u, u[i].op \in kinds
             PROVE  \E j \in DOMAIN t : t[j] = u[i] /\ Count(t, kinds, j) = Count(u, kinds, i)
  BY DEF InOrder, u
<1>4. CASE i = n + 1
  BY <1>1, <1>3, <1>4
<1>5. CASE i \in 1..n
  BY <1>1, <1>2, <1>5 DEF InOrder
<1> QED
  BY <1>1, <1>4, <1>5

\* What is cut off at the end leaves the rest in order.
LEMMA CutOff ==
    ASSUME NEW S, NEW u \in Seq(S), NEW v \in Seq(S), NEW t, NEW kinds,
           InOrder(u \o v, t, kinds)
    PROVE  InOrder(u, t, kinds)
<1>1. /\ Len(u) \in Nat /\ DOMAIN u = 1..Len(u) /\ DOMAIN u \subseteq DOMAIN (u \o v)
      /\ \A k \in 1..Len(u) : (u \o v)[k] = u[k]
  OBVIOUS
<1>2. ASSUME NEW i \in 1..Len(u) PROVE Count(u \o v, kinds, i) = Count(u, kinds, i)
  <2> DEFINE w == u \o v
  <2>1. i \in Nat /\ \A k \in 1..i : w[k] = u[k]
    BY <1>1
  <2> HIDE DEF w
  <2>2. Count(w, kinds, i) = Count(u, kinds, i)
    BY <2>1, CountSame
  <2> QED
    BY <2>2 DEF w
<1> QED
  BY <1>1, <1>2 DEF InOrder

\* Even sequences stay even when one of other kinds comes in one of them, or the same
\* in both.
LEMMA EvenOther ==
    ASSUME NEW S, NEW s \in Seq(S), NEW T, NEW t \in Seq(T), NEW kinds, NEW x,
           x.op \notin kinds, Even(s, t, kinds)
    PROVE  Even(Append(s, x), t, kinds) /\ Even(s, Append(t, x), kinds)
<1>1. InOrder(Append(s, x), t, kinds)
  BY OneMore DEF Even
<1>2. InOrder(s, Append(t, x), kinds)
  BY MoreDue DEF Even
<1>3. Total(Append(s, x), kinds) = Total(s, kinds) /\ Total(Append(t, x), kinds) = Total(t, kinds)
  BY TotalAppend
<1> QED
  BY <1>1, <1>2, <1>3 DEF Even

LEMMA EvenBoth ==
    ASSUME NEW S, NEW s \in Seq(S), NEW T, NEW t \in Seq(T), NEW kinds, NEW x,
           Even(s, t, kinds)
    PROVE  Even(Append(s, x), Append(t, x), kinds)
<1> DEFINE t1 == Append(t, x)
           n == Len(t)
<1>1. InOrder(s, t1, kinds)
  BY MoreDue DEF Even
<1>2. /\ n \in Nat /\ Len(t1) = n + 1 /\ DOMAIN t1 = 1..(n + 1) /\ t1[n + 1] = x
  BY AppendIs
<1>3. Total(s, kinds) = Total(t, kinds)
  BY DEF Even
<1>4. /\ Total(Append(s, x), kinds) =
            (IF x.op \in kinds THEN Total(s, kinds) + 1 ELSE Total(s, kinds))
      /\ Total(t1, kinds) =
            (IF x.op \in kinds THEN Total(t, kinds) + 1 ELSE Total(t, kinds))
  BY TotalAppend
<1>5. x.op \in kinds =>
         \E j \in DOMAIN t1 : t1[j] = x /\ Count(t1, kinds, j) = Total(s, kinds) + 1
  BY <1>2, <1>3, <1>4 DEF Total
<1> HIDE DEF t1
<1>6. InOrder(Append(s, x), t1, kinds)
  BY <1>1, <1>5, OneMore
<1> QED
  BY <1>3, <1>4, <1>6 DEF Even, t1

-----------------------------------------------------------------------------
(* Messages and their frames *)

LEMMA FlattenOne == \A x : FlattenSeq(<<x>>) = x
<1> TAKE x
<1> DEFINE s == <<x>>
           f == [i \in 1..1 |-> x]
           Is(g) == g = [i \in 1..Len(s) |-> IF i = 1 THEN s[i] ELSE g[i - 1] \o s[i]]
<1>1. Len(s) = 1 /\ s[1] = x
  OBVIOUS
<1>2. FlattenSeq(s) = IF Len(s) = 0 THEN s ELSE (CHOOSE g : Is(g))[Len(s)]
  <2> HIDE DEF s
  <2> QED
    BY Zenon DEF FlattenSeq
<1> HIDE DEF s
<1>3. Is(f)
  BY <1>1
<1>4. Is(CHOOSE g : Is(g))
  BY <1>3, Zenon
<1>5. (CHOOSE g : Is(g))[1] = x
  BY <1>1, <1>4
<1>6. FlattenSeq(s) = x
  BY <1>1, <1>2, <1>5
<1> QED
  BY <1>6 DEF s

\* A text that is a String is valid UTF-8.
LEMMA NothingLossy ==
    ASSUME NEW s \in Seq(Byte), Lossy(s) = s
    PROVE  Utf8(s)
<1>1. \A i \in DOMAIN s : Lossy(s)[i] = s[i]
  OBVIOUS
<1>2. \A i \in DOMAIN s : s[i] # "replaced"
  BY DEF Byte
<1> QED
  BY <1>1, <1>2 DEF Lossy, Utf8

\* What the peer reads of a message's frame is the message.
LEMMA RoundTrip ==
    ASSUME NEW m, IsMessage(m), Owned(m) = m, m.op # Close
    PROVE  OwnedFrom(<<FrameOf(m, TRUE)>>) = m
<1> DEFINE f == FrameOf(m, TRUE)
           p == Payload(m)
<1>1. /\ m.op \in {Text, Binary, Close, Ping, Pong} /\ m.data \in Seq(Byte)
      /\ m.code = <<>> \/ m.code \in Byte \X Byte
      /\ m = [op |-> m.op, code |-> m.code, data |-> m.data]
  BY DEF IsMessage
<1>2. f.rsv = FALSE /\ f.op = m.op /\ f.data = p
  BY DEF FrameOf
<1> HIDE DEF f, p
<1>3. FromDataframes(<<f>>) = Assemble(m.op, p)
  <2>1. [i \in DOMAIN <<f>> |-> <<f>>[i].data] = <<p>>
    BY <1>2
  <2>2. FlattenSeq([i \in DOMAIN <<f>> |-> <<f>>[i].data]) = p
    BY <2>1, FlattenOne
  <2>3. \A i \in DOMAIN <<f>> : ~Misplaced(<<f>>, i) /\ ~<<f>>[i].rsv
    BY <1>2 DEF Misplaced
  <2>4. <<f>>[1].op = m.op
    BY <1>2
  <2> QED
    BY <2>2, <2>3, <2>4 DEF FromDataframes
<1>7. Assemble(m.op, p) = Msg(m.op, p) /\ MessageFrom(m.op, p) = m => OwnedFrom(<<f>>) = m
  <2>1. /\ Msg(m.op, p).kind # "error" /\ Msg(m.op, p).op = m.op
        /\ Msg(m.op, p).data = p
    BY DEF Msg
  <2> QED
    BY <1>3, <2>1 DEF OwnedFrom
<1> SUFFICES OwnedFrom(<<f>>) = m
  BY DEF f
<1>4. OwnedFrom(<<f>>) = m
  <2>1. m.code = <<>>
    BY <1>1 DEF Owned, TextMessage, Text, Close
  <2>2. p = m.data
    BY <1>1, <2>1 DEF Payload, p
  <2>3. m.op = Text => Utf8(m.data)
    <3>1. m.op = Text => Owned(m) = TextMessage(Lossy(m.data))
      BY DEF Owned, Text, Close
    <3>2. TextMessage(Lossy(m.data)).data = Lossy(m.data)
      BY DEF TextMessage
    <3> QED
      BY <1>1, <3>1, <3>2, NothingLossy
  <2>4. Assemble(m.op, p) = Msg(m.op, p)
    BY <1>1, <2>2, <2>3 DEF Assemble
  <2>5. MessageFrom(m.op, p) = m
    BY <1>1, <2>1, <2>2 DEF MessageFrom
  <2> QED
    BY <1>7, <2>4, <2>5
<1> QED
  BY <1>4

\* The code of a close is what it was, whatever has become of the reason.
LEMMA CodeKept ==
    ASSUME NEW c \in Byte \X Byte, NEW r \in Seq(Byte)
    PROVE  Bare(MessageFrom(Close, c \o r)) = CloseBecause(c, <<>>)
<1> DEFINE p == c \o r
<1>1. c \in Seq(Byte) /\ Len(c) = 2
  <2>1. PICK x \in Byte, y \in Byte : c = <<x, y>>
    OBVIOUS
  <2> QED
    BY <2>1
<1>2. Len(r) \in Nat /\ p \in Seq(Byte) /\ Len(p) = 2 + Len(r)
  <2>1. \A u, v \in Seq(Byte) :
           /\ Len(v) \in Nat /\ u \o v \in Seq(Byte)
           /\ Len(u \o v) = Len(u) + Len(v)
    OBVIOUS
  <2> QED
    BY <1>1, <2>1, Zenon
<1>3. \A i \in 1..2 : p[i] = c[i]
  BY <1>1, <1>2
<1> HIDE DEF p
<1>4. SubSeq(p, 1, 2) = c
  BY <1>1, <1>2, <1>3
<1>5. p # <<>>
  BY <1>2
<1>6. Bare(MessageFrom(Close, p)) = CloseBecause(c, <<>>)
  <2>1. MessageFrom(Close, p) = CloseBecause(c, SubSeq(p, 3, Len(p)))
    BY <1>4, <1>5 DEF MessageFrom
  <2>2. \A d : Bare(CloseBecause(c, d)) = CloseBecause(c, <<>>)
    BY DEF Bare, CloseBecause
  <2> QED
    BY <2>1, <2>2
<1> QED
  BY <1>6 DEF p

\* What the peer hears of a frame a message has become.
LEMMA HeardIs ==
    ASSUME NEW m, IsMessage(m), Owned(m) = m, NEW f \in FramesOf(m)
    PROVE  f.op = m.op /\ HeardOf(f) = IF IsClose(m) THEN Bare(m) ELSE m
<1>1. /\ m.op \in {Text, Binary, Close, Ping, Pong} /\ m.data \in Seq(Byte)
      /\ m.code = <<>> \/ m.code \in Byte \X Byte
      /\ m = [op |-> m.op, code |-> m.code, data |-> m.data]
  BY DEF IsMessage
<1>2. CASE m.op # Close
  <2>1. m.code = <<>>
    BY <1>1, <1>2 DEF Owned, TextMessage, Text, Close
  <2>2. f = FrameOf(m, TRUE)
    BY <2>1 DEF FramesOf
  <2> QED
    BY <1>2, <2>2, RoundTrip DEF HeardOf, FrameOf, IsClose
<1>3. CASE m.op = Close /\ m.code = <<>>
  <2>1. m.data = <<>>
    BY <1>1, <1>3 DEF Owned, CloseMessage, Close, Text
  <2>2. f.op = Close /\ f.data = <<>>
    BY <1>3, <2>1 DEF FramesOf, FrameOf, Payload
  <2>3. Bare(MessageFrom(Close, <<>>)) = Bare(m)
    BY <1>1, <1>3, <2>1 DEF MessageFrom, Bare
  <2> QED
    BY <1>3, <2>2, <2>3 DEF HeardOf, IsClose
<1>4. CASE m.op = Close /\ m.code \in Byte \X Byte
  <2>1. f.op = Close /\ \E r \in Seq(Byte) : f.data = m.code \o r
    <3>1. CASE f = FrameOf(m, TRUE)
      BY <1>1, <1>4, <3>1 DEF FrameOf, Payload
    <3>2. CASE \E r \in [DOMAIN m.data -> Byte] :
                  f = [FrameOf(m, TRUE) EXCEPT !.data = m.code \o r]
      <4>1. PICK r \in [DOMAIN m.data -> Byte] :
                    f = [FrameOf(m, TRUE) EXCEPT !.data = m.code \o r]
        BY <3>2
      <4>2. r \in Seq(Byte)
        BY <1>1
      <4>3. f.op = Close /\ f.data = m.code \o r
        BY <1>4, <4>1 DEF FrameOf
      <4> QED
        BY <4>2, <4>3
    <3> QED
      BY <3>1, <3>2 DEF FramesOf
  <2>2. PICK r \in Seq(Byte) : f.data = m.code \o r
    BY <2>1
  <2>3. HeardOf(f) = CloseBecause(m.code, <<>>)
    BY <1>4, <2>1, <2>2, CodeKept DEF HeardOf
  <2>4. Bare(m) = CloseBecause(m.code, <<>>)
    BY <1>1, <1>4 DEF Bare, CloseBecause
  <2> QED
    BY <1>4, <2>1, <2>3, <2>4 DEF IsClose
<1> QED
  BY <1>1, <1>2, <1>3, <1>4

-----------------------------------------------------------------------------
(* What the programs send *)

Users    == {MessageOf(line) : line \in Line}
Whole    == PeerMessages \cup {CloseMessage} \cup Users
                \cup {PongMessage(m.data) : m \in PeerMessages}
Frames   == UNION {FramesOf(m) : m \in Whole}

\* What the peer can be sure to hear of a message: of a close, its code.
Heard(m) == IF IsClose(m) THEN Bare(m) ELSE m
Sendable == {Heard(m) : m \in Whole}

\* The messages that are heard as they are sent: all but the answer to a close.
Plain == {m \in Whole : m.op # Close \/ m = CloseMessage}

LEMMA UsersAre == Users = {PingMessage(<<"a", "a">>), TextMessage(<<"a">>)}
BY DEF Users, Line, MessageOf

LEMMA WholeAre == \A m \in Whole : IsMessage(m) /\ Owned(m) = m
<1>1. \A m \in PeerMessages : IsMessage(m) /\ Owned(m) = m
  BY SessionAssumption
<1>2. IsMessage(CloseMessage) /\ Owned(CloseMessage) = CloseMessage
  BY DEF CloseMessage, IsMessage, Owned, Text, Binary, Close, Ping, Pong
<1>3. ASSUME NEW d \in Seq(Byte)
      PROVE  /\ IsMessage(PongMessage(d)) /\ Owned(PongMessage(d)) = PongMessage(d)
             /\ IsMessage(PingMessage(d)) /\ Owned(PingMessage(d)) = PingMessage(d)
             /\ IsMessage(TextMessage(d)) /\ Owned(TextMessage(d)) = TextMessage(Lossy(d))
  BY DEF PongMessage, PingMessage, TextMessage, IsMessage, Owned, Text, Binary, Close, Ping, Pong
<1>4. <<"a", "a">> \in Seq(Byte) /\ <<"a">> \in Seq(Byte) /\ Lossy(<<"a">>) = <<"a">>
  BY DEF Byte, Lossy
<1>5. \A m \in PeerMessages : m.data \in Seq(Byte)
  BY <1>1 DEF IsMessage
<1> QED
  BY <1>1, <1>2, <1>3, <1>4, <1>5, UsersAre DEF Whole

\* What the peer reads of the frames o, and is owed for the messages r.
ReadOf(o) == [i \in DOMAIN o |-> HeardOf(o[i])]
Owed(m)   == IF IsPing(m) THEN PongMessage(m.data) ELSE Error
OwedOf(r) == [i \in DOMAIN r |-> Owed(r[i])]

Typed == {Text, Ping}

LEMMA PlainIs ==
    /\ \A m \in Plain : m \in Whole /\ Heard(m) = m /\ m \in Sendable
    /\ \A s \in Seq(Plain) : s \in Seq(Sendable)
<1>1. IsClose(CloseMessage) /\ Bare(CloseMessage) = CloseMessage
  BY DEF CloseMessage, IsClose, Bare
<1>2. ASSUME NEW m \in Plain PROVE m \in Whole /\ Heard(m) = m /\ m \in Sendable
  <2>1. m \in Whole /\ Heard(m) = m
    BY <1>1 DEF Plain, Heard, IsClose
  <2> QED
    BY <2>1, Zenon DEF Sendable
<1>3. ASSUME NEW s \in Seq(Plain) PROVE s \in Seq(Sendable)
  BY <1>2
<1> QED
  BY <1>2, <1>3

LEMMA Kinds ==
    /\ \A m \in Users : m \in Plain \cap Sendable /\ m.op \in Typed /\ m.op # Close /\ m.op # Pong
    /\ \A m \in PeerMessages :
          /\ m \in Whole
          /\ ~IsClose(m) => m \in Plain \cap Sendable
          /\ IsPing(m) => Owed(m) \in Plain \cap Sendable /\ Owed(m).op = Pong
          /\ ~IsPing(m) => Owed(m) = Error
    /\ CloseMessage \in Plain \cap Sendable /\ IsClose(CloseMessage)
    /\ Bare(CloseMessage) = CloseMessage
    /\ Pong \notin Typed /\ Close \notin Typed \cup {Pong} /\ Error.op \notin Typed \cup {Pong}
<1>1. /\ \A m \in Users : m \in Whole
      /\ \A m \in PeerMessages : m \in Whole
      /\ CloseMessage \in Whole
  BY DEF Whole
<1>2. \A m \in Users : m.op \in Typed /\ m.op # Close /\ m.op # Pong
  BY UsersAre DEF Typed, PingMessage, TextMessage, Text, Ping, Pong, Close
<1>3. ASSUME NEW m \in PeerMessages, IsPing(m)
      PROVE  Owed(m) \in Whole /\ Owed(m).op = Pong
  <2>1. Owed(m) = PongMessage(m.data)
    BY <1>3 DEF Owed
  <2>2. PongMessage(m.data) \in {PongMessage(x.data) : x \in PeerMessages}
    BY Zenon
  <2>3. PongMessage(m.data).op = Pong
    BY DEF PongMessage
  <2> QED
    BY <2>1, <2>2, <2>3 DEF Whole
<1>4. \A m \in PeerMessages : ~IsPing(m) => Owed(m) = Error
  BY DEF Owed
<1>5. /\ IsClose(CloseMessage) /\ Bare(CloseMessage) = CloseMessage
      /\ Pong \notin Typed /\ Close \notin Typed \cup {Pong} /\ Error.op \notin Typed \cup {Pong}
      /\ Pong # Close
  BY DEF CloseMessage, IsClose, Bare, Error, Typed, Text, Ping, Pong, Close
<1>6. /\ \A m \in Users : m \in Plain
      /\ \A m \in PeerMessages : ~IsClose(m) => m \in Plain
      /\ \A m \in PeerMessages : IsPing(m) => Owed(m) \in Plain
      /\ CloseMessage \in Plain
  BY <1>1, <1>2, <1>3, <1>5, Zenon DEF Plain, IsClose
<1> QED
  BY <1>1, <1>2, <1>3, <1>4, <1>5, <1>6, PlainIs

LEMMA SameSequence ==
    ASSUME NEW S, NEW s \in Seq(S), NEW t \in Seq(S), Len(s) = Len(t),
           \A i \in 1..Len(s) : s[i] = t[i]
    PROVE  s = t
OBVIOUS

LEMMA ReadIs ==
    ASSUME NEW o \in Seq(Frames)
    PROVE  /\ ReadOf(o) \in Seq(Sendable) /\ Len(ReadOf(o)) = Len(o)
           /\ \A i \in 1..Len(o) : ReadOf(o)[i].op = o[i].op
<1>1. ASSUME NEW i \in 1..Len(o) PROVE \E m \in Whole : o[i] \in FramesOf(m)
  <2>1. o[i] \in Frames
    OBVIOUS
  <2> QED
    BY <2>1, Zenon DEF Frames
<1>2. ASSUME NEW i \in 1..Len(o)
      PROVE  ReadOf(o)[i] \in Sendable /\ ReadOf(o)[i].op = o[i].op
  <2>1. PICK m \in Whole : o[i] \in FramesOf(m)
    BY <1>1
  <2>2. ReadOf(o)[i] = Heard(m) /\ o[i].op = m.op
    BY <2>1, WholeAre, HeardIs DEF ReadOf, Heard
  <2>3. Heard(m).op = m.op
    BY WholeAre DEF Heard, Bare, IsMessage
  <2> QED
    BY <2>2, <2>3 DEF Sendable
<1>3. ReadOf(o) = [i \in 1..Len(o) |-> ReadOf(o)[i]] /\ Len(o) \in Nat
  BY DEF ReadOf
<1>4. ReadOf(o) \in Seq(Sendable) /\ Len(ReadOf(o)) = Len(o)
  <2> DEFINE r == ReadOf(o)
             n == Len(o)
  <2>1. n \in Nat /\ r = [i \in 1..n |-> r[i]] /\ \A i \in 1..n : r[i] \in Sendable
    BY <1>2, <1>3
  <2> HIDE DEF r, n
  <2>2. r \in Seq(Sendable) /\ Len(r) = n
    BY <2>1
  <2> QED
    BY <2>2 DEF r, n
<1> QED
  BY <1>2, <1>4

LEMMA ReadAppend ==
    ASSUME NEW o \in Seq(Frames), NEW x \in Whole, NEW f \in FramesOf(x)
    PROVE  /\ Append(o, f) \in Seq(Frames)
           /\ ReadOf(Append(o, f)) = Append(ReadOf(o), Heard(x))
<1> DEFINE m == Heard(x)
           p == Append(o, f)
           n == Len(o)
<1>1. f \in Frames /\ HeardOf(f) = m /\ m \in Sendable
  BY WholeAre, HeardIs DEF Frames, Heard, Sendable
<1> HIDE DEF m
<1>2. /\ p \in Seq(Frames) /\ n \in Nat /\ Len(p) = n + 1
      /\ p[n + 1] = f /\ \A i \in 1..n : p[i] = o[i]
  BY <1>1, AppendIs
<1>3. /\ ReadOf(o) \in Seq(Sendable) /\ Len(ReadOf(o)) = n
      /\ ReadOf(p) \in Seq(Sendable) /\ Len(ReadOf(p)) = n + 1
  BY <1>2, ReadIs
<1>4. /\ \A i \in 1..n : ReadOf(p)[i] = ReadOf(o)[i]
      /\ ReadOf(p)[n + 1] = m
  BY <1>1, <1>2 DEF ReadOf
<1> HIDE DEF p, n
<1> DEFINE q == Append(ReadOf(o), m)
<1>5. /\ q \in Seq(Sendable) /\ Len(q) = n + 1 /\ q[n + 1] = m
      /\ \A i \in 1..n : q[i] = ReadOf(o)[i]
  BY <1>1, <1>2, <1>3, AppendIs
<1> HIDE DEF q
<1>6. ReadOf(p) = q
  <2>1. \A i \in 1..(n + 1) : ReadOf(p)[i] = q[i]
    BY <1>2, <1>4, <1>5
  <2> QED
    BY <1>3, <1>5, <2>1, SameSequence
<1> QED
  BY <1>2, <1>6 DEF p, q, m

LEMMA OwedAppend ==
    ASSUME NEW r \in Seq(PeerMessages), NEW m \in PeerMessages
    PROVE  /\ OwedOf(r) \in Seq(Sendable \cup {Error})
           /\ OwedOf(Append(r, m)) = Append(OwedOf(r), Owed(m))
<1> DEFINE S == Sendable \cup {Error}
           p == Append(r, m)
           n == Len(r)
<1>1. \A x \in PeerMessages : Owed(x) \in S
  BY Kinds, PlainIs
<1>2. /\ p \in Seq(PeerMessages) /\ n \in Nat /\ Len(p) = n + 1
      /\ DOMAIN r = 1..n /\ DOMAIN p = 1..(n + 1)
      /\ p[n + 1] = m /\ \A i \in 1..n : p[i] = r[i]
  BY AppendIs
<1> HIDE DEF p, n, S
<1>3. \A i \in 1..n : r[i] \in PeerMessages
  BY <1>2
<1>4. /\ OwedOf(r) \in Seq(S) /\ Len(OwedOf(r)) = n
      /\ OwedOf(p) \in Seq(S) /\ Len(OwedOf(p)) = n + 1
  BY <1>1, <1>2, <1>3 DEF OwedOf
<1>5. /\ \A i \in 1..n : OwedOf(p)[i] = OwedOf(r)[i]
      /\ OwedOf(p)[n + 1] = Owed(m)
  BY <1>2 DEF OwedOf
<1> DEFINE q == Append(OwedOf(r), Owed(m))
<1>6. /\ q \in Seq(S) /\ Len(q) = n + 1 /\ q[n + 1] = Owed(m)
      /\ \A i \in 1..n : q[i] = OwedOf(r)[i]
  BY <1>1, <1>4, AppendIs
<1> HIDE DEF q
<1>7. OwedOf(p) = q
  <2>1. \A i \in 1..(n + 1) : OwedOf(p)[i] = q[i]
    BY <1>2, <1>5, <1>6
  <2> QED
    BY <1>4, <1>6, <2>1, SameSequence
<1> QED
  BY <1>4, <1>7 DEF p, q, S

-----------------------------------------------------------------------------
(* What is due, for the messages r read and the lines t typed *)

\* Everything that is due is in s, in order; or as much of it as could be sent.
Full(s, r, t) == Even(s, OwedOf(r), {Pong}) /\ Even(s, t, Typed)
Part(s, r, t) == InOrder(s, OwedOf(r), {Pong}) /\ InOrder(s, t, Typed)

Closing(s, r) ==
    \A i \in DOMAIN s : IsClose(s[i]) => \E m \in {CloseMessage} \cup ToSet(r) : s[i] = Bare(m)
NoClose(s)    == \A i \in DOMAIN s : s[i].op # Close
LastOnly(s)   == \A i \in 1..(Len(s) - 1) : s[i].op # Close

LEMMA ToSetAppend ==
    ASSUME NEW S, NEW r \in Seq(S), NEW m
    PROVE  ToSet(r) \subseteq ToSet(Append(r, m)) /\ m \in ToSet(Append(r, m))
<1> DEFINE p == Append(r, m)
<1>1. /\ Len(r) \in Nat /\ DOMAIN r = 1..Len(r) /\ DOMAIN p = 1..(Len(r) + 1)
      /\ p[Len(r) + 1] = m /\ \A k \in 1..Len(r) : p[k] = r[k]
  BY AppendIs
<1> HIDE DEF p
<1>2. ToSet(r) \subseteq ToSet(p) /\ m \in ToSet(p)
  BY <1>1 DEF ToSet
<1> QED
  BY <1>2 DEF p

LEMMA ClosingKept ==
    ASSUME NEW s \in Seq(Sendable), NEW r \in Seq(PeerMessages), Closing(s, r)
    PROVE  /\ \A x : \/ x.op # Close \/ x = CloseMessage
                     \/ \E m \in ToSet(r) : x = Bare(m)
                     => Closing(Append(s, x), r)
           /\ \A m \in PeerMessages : Closing(s, Append(r, m))
<1>1. ASSUME NEW x, x.op # Close \/ x = CloseMessage \/ \E m \in ToSet(r) : x = Bare(m)
      PROVE  Closing(Append(s, x), r)
  <2> DEFINE p == Append(s, x)
  <2>1. /\ Len(s) \in Nat /\ DOMAIN s = 1..Len(s) /\ DOMAIN p = 1..(Len(s) + 1)
        /\ p[Len(s) + 1] = x /\ \A k \in 1..Len(s) : p[k] = s[k]
    BY AppendIs
  <2> HIDE DEF p
  <2>2. Closing(p, r)
    BY <1>1, <2>1, Kinds DEF Closing, IsClose
  <2> QED
    BY <2>2 DEF p
<1>2. ASSUME NEW m \in PeerMessages PROVE Closing(s, Append(r, m))
  BY ToSetAppend DEF Closing
<1> QED
  BY <1>1, <1>2

\* A ping with its pong, another message read, a close, and a line typed.
LEMMA FullPing ==
    ASSUME NEW s \in Seq(Sendable), NEW r \in Seq(PeerMessages), NEW t \in Seq(Users),
           Full(s, r, t), NEW m \in PeerMessages, IsPing(m)
    PROVE  Full(Append(s, Owed(m)), Append(r, m), t)
<1>1. OwedOf(Append(r, m)) = Append(OwedOf(r), Owed(m)) /\ OwedOf(r) \in Seq(Sendable \cup {Error})
  BY OwedAppend
<1>2. Even(Append(s, Owed(m)), Append(OwedOf(r), Owed(m)), {Pong})
  BY <1>1, EvenBoth DEF Full
<1>3. Owed(m).op \notin Typed
  BY Kinds
<1>4. Even(Append(s, Owed(m)), t, Typed)
  BY <1>3, EvenOther DEF Full
<1> QED
  BY <1>1, <1>2, <1>4 DEF Full

LEMMA FullRead ==
    ASSUME NEW s \in Seq(Sendable), NEW r \in Seq(PeerMessages), NEW t \in Seq(Users),
           Full(s, r, t), NEW m \in PeerMessages, ~IsPing(m)
    PROVE  Full(s, Append(r, m), t)
<1>1. OwedOf(Append(r, m)) = Append(OwedOf(r), Error) /\ OwedOf(r) \in Seq(Sendable \cup {Error})
  BY OwedAppend, Kinds
<1>2. Error.op \notin {Pong}
  BY Kinds
<1>3. Even(s, Append(OwedOf(r), Error), {Pong})
  BY <1>1, <1>2, EvenOther DEF Full
<1> QED
  BY <1>1, <1>3 DEF Full

LEMMA FullClose ==
    ASSUME NEW s \in Seq(Sendable), NEW r \in Seq(PeerMessages), NEW t \in Seq(Users),
           Full(s, r, t), NEW x, IsClose(x)
    PROVE  Full(Append(s, x), r, t)
<1>1. x.op \notin {Pong} /\ x.op \notin Typed
  BY Kinds DEF IsClose
<1>2. OwedOf(r) \in Seq(Sendable \cup {Error})
  <2>1. \A i \in 1..Len(r) : Owed(r[i]) \in Sendable \cup {Error}
    BY Kinds, PlainIs
  <2> QED
    BY <2>1 DEF OwedOf
<1> QED
  BY <1>1, <1>2, EvenOther DEF Full

LEMMA FullLine ==
    ASSUME NEW s \in Seq(Sendable), NEW r \in Seq(PeerMessages), NEW t \in Seq(Users),
           Full(s, r, t), NEW x \in Users
    PROVE  Full(Append(s, x), r, Append(t, x))
<1>1. x.op \notin {Pong}
  BY Kinds
<1>2. OwedOf(r) \in Seq(Sendable \cup {Error})
  <2>1. \A i \in 1..Len(r) : Owed(r[i]) \in Sendable \cup {Error}
    BY Kinds, PlainIs
  <2> QED
    BY <2>1 DEF OwedOf
<1>3. Even(Append(s, x), OwedOf(r), {Pong})
  BY <1>1, <1>2, EvenOther DEF Full
<1>4. Even(Append(s, x), Append(t, x), Typed)
  BY EvenBoth DEF Full
<1> QED
  BY <1>3, <1>4 DEF Full

\* Once nothing more is sent but a close, more may become due.
LEMMA PartKept ==
    ASSUME NEW s \in Seq(Sendable), NEW r \in Seq(PeerMessages), NEW t \in Seq(Users),
           Part(s, r, t)
    PROVE  /\ \A m \in PeerMessages : Part(s, Append(r, m), t)
           /\ \A x \in Users : Part(s, r, Append(t, x))
           /\ \A x : IsClose(x) => Part(Append(s, x), r, t)
<1>1. ASSUME NEW m \in PeerMessages PROVE Part(s, Append(r, m), t)
  <2>1. /\ OwedOf(Append(r, m)) = Append(OwedOf(r), Owed(m))
        /\ OwedOf(r) \in Seq(Sendable \cup {Error})
    BY OwedAppend
  <2> QED
    BY <2>1, MoreDue DEF Part
<1>2. ASSUME NEW x \in Users PROVE Part(s, r, Append(t, x))
  BY MoreDue DEF Part
<1>3. ASSUME NEW x, IsClose(x) PROVE Part(Append(s, x), r, t)
  <2>1. x.op \notin {Pong} /\ x.op \notin Typed
    BY <1>3, Kinds DEF IsClose
  <2> QED
    BY <2>1, OneMore DEF Part
<1> QED
  BY <1>1, <1>2, <1>3

LEMMA FullIsPart ==
    ASSUME NEW u \in Seq(Sendable), NEW v \in Seq(Sendable), NEW r, NEW t
    PROVE  /\ Full(u \o v, r, t) => Part(u, r, t)
           /\ Closing(u \o v, r) => Closing(u, r)
           /\ Full(u, r, t) => Part(u, r, t)
<1>1. Full(u \o v, r, t) => Part(u, r, t)
  BY CutOff DEF Full, Part, Even
<1>2. /\ Len(u) \in Nat /\ DOMAIN u = 1..Len(u) /\ DOMAIN u \subseteq DOMAIN (u \o v)
      /\ \A k \in 1..Len(u) : (u \o v)[k] = u[k]
  OBVIOUS
<1>3. Closing(u \o v, r) => Closing(u, r)
  BY <1>2 DEF Closing
<1> QED
  BY <1>1, <1>3 DEF Full, Part, Even

-----------------------------------------------------------------------------
(* Closes, and what waits in a channel *)

LEMMA NoCloseAppend ==
    ASSUME NEW s \in Seq(Sendable), NEW x, NoClose(s)
    PROVE  /\ LastOnly(s) /\ LastOnly(Append(s, x))
           /\ x.op # Close => NoClose(Append(s, x))
<1> DEFINE p == Append(s, x)
           n == Len(s)
<1>1. /\ n \in Nat /\ DOMAIN s = 1..n /\ DOMAIN p = 1..(n + 1) /\ Len(p) = n + 1
      /\ p[n + 1] = x /\ \A k \in 1..n : p[k] = s[k]
  BY AppendIs
<1>2. \A k \in 1..n : s[k].op # Close
  BY <1>1 DEF NoClose
<1>3. LastOnly(s)
  <2> HIDE DEF p
  <2> QED
    BY <1>1, <1>2 DEF LastOnly, n
<1> HIDE DEF p, n
<1>4. LastOnly(p)
  BY <1>1, <1>2 DEF LastOnly
<1>5. x.op # Close => NoClose(p)
  BY <1>1, <1>2 DEF NoClose
<1> QED
  BY <1>3, <1>4, <1>5 DEF p

LEMMA JoinAppend ==
    ASSUME NEW S, NEW u \in Seq(S), NEW c \in Seq(S), NEW x \in S
    PROVE  u \o Append(c, x) = Append(u \o c, x)
OBVIOUS

LEMMA JoinTail ==
    ASSUME NEW S, NEW u \in Seq(S), NEW c \in Seq(S), c # <<>>
    PROVE  /\ Head(c) \in S /\ Tail(c) \in Seq(S)
           /\ u \o c = Append(u, Head(c)) \o Tail(c)
<1> DEFINE n == Len(c)
           t == Tail(c)
           h == Head(c)
<1>1. /\ n \in Nat \ {0} /\ h = c[1] /\ h \in S /\ t \in Seq(S) /\ Len(t) = n - 1
      /\ \A i \in 1..(n - 1) : t[i] = c[i + 1]
  OBVIOUS
<1> HIDE DEF n, t, h
<1> DEFINE v == Append(u, h)
           m == Len(u)
<1>2. /\ v \in Seq(S) /\ m \in Nat /\ Len(v) = m + 1 /\ v[m + 1] = h
      /\ \A i \in 1..m : v[i] = u[i]
  BY <1>1, AppendIs
<1> HIDE DEF v, m
<1> DEFINE a == u \o c
           b == v \o t
<1>3. /\ a \in Seq(S) /\ Len(a) = m + n
      /\ \A i \in 1..m : a[i] = u[i]
      /\ \A i \in 1..n : a[m + i] = c[i]
  BY <1>1, <1>2 DEF m, n
<1>4. /\ b \in Seq(S) /\ Len(b) = (m + 1) + (n - 1)
      /\ \A i \in 1..(m + 1) : b[i] = v[i]
      /\ \A i \in 1..(n - 1) : b[m + 1 + i] = t[i]
  <2>1. \A x, y \in Seq(S) :
           /\ x \o y \in Seq(S) /\ Len(x \o y) = Len(x) + Len(y)
           /\ \A i \in 1..Len(x) : (x \o y)[i] = x[i]
           /\ \A i \in 1..Len(y) : (x \o y)[Len(x) + i] = y[i]
    OBVIOUS
  <2>2. v \in Seq(S) /\ t \in Seq(S) /\ Len(v) = m + 1 /\ Len(t) = n - 1
    BY <1>1, <1>2
  <2>3. /\ b \in Seq(S) /\ Len(b) = Len(v) + Len(t)
        /\ \A i \in 1..Len(v) : b[i] = v[i]
        /\ \A i \in 1..Len(t) : b[Len(v) + i] = t[i]
    BY <2>1, <2>2, Zenon
  <2> QED
    BY <2>2, <2>3
<1> HIDE DEF a, b
<1>5. ASSUME NEW i \in 1..(m + n) PROVE a[i] = b[i]
  <2>1. CASE i \in 1..m
    BY <1>2, <1>3, <1>4, <2>1
  <2>2. CASE i = m + 1
    <3>1. a[m + 1] = c[1]
      BY <1>1, <1>3
    <3> QED
      BY <1>1, <1>2, <1>4, <2>2, <3>1
  <2>3. CASE i \in (m + 2)..(m + n)
    <3> DEFINE k == i - (m + 1)
    <3>1. k \in 1..(n - 1) /\ k + 1 \in 1..n /\ i = m + 1 + k /\ i = m + (k + 1)
      BY <1>1, <1>2, <2>3
    <3> HIDE DEF k
    <3>2. b[m + 1 + k] = t[k] /\ t[k] = c[k + 1] /\ a[m + (k + 1)] = c[k + 1]
      BY <1>1, <1>3, <1>4, <3>1
    <3> QED
      BY <3>1, <3>2
  <2>4. n \in Nat /\ m \in Nat
    BY <1>1, <1>2
  <2>5. i \in 1..m \/ i = m + 1 \/ i \in (m + 2)..(m + n)
    BY <2>4
  <2> QED
    BY <2>1, <2>2, <2>3, <2>5
<1>6. a = b
  <2>1. n \in Nat /\ m \in Nat
    BY <1>1, <1>2
  <2>2. (m + 1) + (n - 1) = m + n
    BY <2>1
  <2>3. Len(b) = Len(a) /\ \A i \in 1..Len(a) : a[i] = b[i]
    BY <1>3, <1>4, <1>5, <2>2
  <2> QED
    BY <1>3, <1>4, <2>3, SameSequence
<1> QED
  BY <1>1, <1>6 DEF a, b, v, t, h

LEMMA JoinNone == \A S : \A u \in Seq(S) : u \o <<>> = u
OBVIOUS

-----------------------------------------------------------------------------
(* What the actions do to the sequences *)

LEMMA PutsOne ==
    ASSUME out \in Seq(Frames), NEW m \in Whole, Puts(<<m>>)
    PROVE  out' \in Seq(Frames) /\ ReadOf(out') = Append(ReadOf(out), Heard(m))
<1>1. <<m>> # <<>> /\ Head(<<m>>) = m
  OBVIOUS
<1>2. PICK f \in FramesOf(m) : out' = Append(out, f)
  BY <1>1 DEF Puts
<1> QED
  BY <1>2, ReadAppend

\* All but the answer to a close is heard as it was sent.
LEMMA PutsHeard ==
    ASSUME out \in Seq(Frames), NEW m \in Plain, Puts(<<m>>)
    PROVE  out' \in Seq(Frames) /\ ReadOf(out') = Append(ReadOf(out), m)
BY PlainIs, PutsOne

LEMMA PutsNone ==
    ASSUME Puts(<<>>)
    PROVE  out' = out
BY DEF Puts

LEMMA TakesIs ==
    ASSUME arriving \in Seq(PeerMessages \cup {Error}), NEW m, Arrives(m), Takes
    PROVE  /\ arriving' \in Seq(PeerMessages \cup {Error})
           /\ \/ m = Error /\ read' = read
              \/ m \in PeerMessages /\ read' = Append(read, m)
<1>1. arriving # <<>> /\ m = Head(arriving)
  BY DEF Arrives
<1>2. m \in PeerMessages \cup {Error} /\ Tail(arriving) \in Seq(PeerMessages \cup {Error})
  <2> DEFINE S == PeerMessages \cup {Error}
  <2> HIDE DEF S
  <2>1. arriving \in Seq(S)
    BY DEF S
  <2>2. Head(arriving) \in S /\ Tail(arriving) \in Seq(S)
    BY <1>1, <2>1
  <2> QED
    BY <1>1, <2>2 DEF S
<1> QED
  BY <1>1, <1>2 DEF Takes

-----------------------------------------------------------------------------
(* The inductive invariant *)

Shape ==
    /\ program \in {"threads", "select", "echo"}
    /\ arriving \in Seq(PeerMessages \cup {Error}) /\ read \in Seq(PeerMessages)
    /\ typed \in Seq(Users) /\ channel \in Seq(Plain) /\ out \in Seq(Frames)

\* While the send loop is up, what has been sent and what waits in the channel are
\* together what is due; when it has returned, the frames are as much of it, and a
\* close in the end or none.
ThreadsInv ==
    IF sending = "up"
    THEN /\ Full(ReadOf(out) \o channel, read, typed) /\ Closing(ReadOf(out) \o channel, read)
         /\ NoClose(ReadOf(out))
    ELSE /\ Part(ReadOf(out), read, typed) /\ Closing(ReadOf(out), read)
         /\ LastOnly(ReadOf(out))

\* The task has sent what is due, but for the line in the channel.
Waits(t) ==
    \/ channel \in {<<>>, <<CloseMessage>>} /\ typed = t
    \/ \E x \in Users : channel = <<x>> /\ typed = Append(t, x)

SelectInv ==
    /\ Closing(ReadOf(out), read)
    /\ IF sending = "up" THEN \E t \in Seq(Users) : Full(ReadOf(out), read, t) /\ Waits(t)
       ELSE Part(ReadOf(out), read, typed)

\* The loop has answered what it has read; its close is the last.
Datas == {Text, Binary}

Echoed(s, r)     == Even(s, OwedOf(r), {Pong}) /\ Even(s, r, Datas)
PartEchoed(s, r) == InOrder(s, OwedOf(r), {Pong}) /\ InOrder(s, r, Datas)

EchoInv ==
    /\ Closing(ReadOf(out), read)
    /\ IF receiving = "up" THEN Echoed(ReadOf(out), read) /\ NoClose(ReadOf(out))
       ELSE PartEchoed(ReadOf(out), read) /\ LastOnly(ReadOf(out))

Inv ==
    /\ Shape
    /\ program = "threads" => ThreadsInv
    /\ program = "select"  => SelectInv
    /\ program = "echo"    => EchoInv

LEMMA QueueAppend ==
    ASSUME NEW S, NEW c \in Seq(S), NEW x \in S
    PROVE  c \o <<x>> = Append(c, x) /\ Append(c, x) \in Seq(S) /\ <<x>> \in Seq(S)
OBVIOUS

LEMMA TakesShape ==
    ASSUME Shape, (\E m : Arrives(m) /\ Takes) \/ UNCHANGED <<arriving, read>>
    PROVE  arriving' \in Seq(PeerMessages \cup {Error}) /\ read' \in Seq(PeerMessages)
<1>1. CASE \E m : Arrives(m) /\ Takes
  <2>1. PICK m : Arrives(m) /\ Takes
    BY <1>1
  <2>2. /\ arriving' \in Seq(PeerMessages \cup {Error})
        /\ \/ read' = read
           \/ m \in PeerMessages /\ read' = Append(read, m)
    BY <2>1, TakesIs DEF Shape
  <2> QED
    BY <2>2, QueueAppend DEF Shape
<1> QED
  BY <1>1 DEF Shape

LEMMA Lines == \A line \in Line : MessageOf(line) \in Users
BY DEF Users

LEMMA AnswersAre ==
    ASSUME NEW m \in PeerMessages
    PROVE  /\ IsPing(m) => PongTo(m) = <<Owed(m)>> /\ ~IsClose(m)
           /\ ~IsPing(m) => PongTo(m) = <<>>
BY DEF PongTo, Owed, IsPing, IsClose, Ping, Close

\* The sequences hold what they can.
LEMMA ShapeKept ==
    ASSUME Shape, [Next]_vars
    PROVE  Shape'
<1> USE DEF Shape
<1>1. CASE PeerSends
  BY <1>1 DEF PeerSends
<1>2. CASE PeerLeaves
  BY <1>2 DEF PeerLeaves
<1>3. CASE Types
  <2>1. PICK x \in Users \cup {CloseMessage} :
           /\ (x \in Users /\ typed' = Append(typed, x)) \/ UNCHANGED typed
           /\ channel' = Append(channel, x) \/ channel' = <<x>> \/ UNCHANGED channel
    BY <1>3, Lines DEF Types, MainSends, StdinSends
  <2>2. x \in Plain
    BY Kinds
  <2>3. typed' \in Seq(Users)
    BY <2>1, QueueAppend
  <2>4. channel' \in Seq(Plain)
    <3>1. Append(channel, x) \in Seq(Plain) /\ <<x>> \in Seq(Plain)
      BY <2>2, QueueAppend
    <3> QED
      BY <2>1, <3>1, Zenon
  <2> QED
    BY <1>3, <2>3, <2>4 DEF Types
<1>4. CASE SendLoop
  <2>1. Head(channel) \in Plain /\ Tail(channel) \in Seq(Plain)
    BY <1>4, JoinTail DEF SendLoop
  <2>2. \/ Puts(<<Head(channel)>>) \/ Puts(<<>>) \/ Puts(<<CloseMessage>>)
    BY <1>4, Zenon DEF SendLoop
  <2>3. out' \in Seq(Frames)
    BY <2>1, <2>2, Kinds, PutsHeard, PutsNone
  <2> QED
    BY <1>4, <2>1, <2>3 DEF SendLoop
<1>5. CASE ReceiveLoop
  <2>1. \/ \E m : Arrives(m) /\ Takes
        \/ UNCHANGED <<arriving, read>>
    BY <1>5, Zenon DEF ReceiveLoop
  <2>2. arriving' \in Seq(PeerMessages \cup {Error}) /\ read' \in Seq(PeerMessages)
    BY <2>1, TakesShape
  <2>3. \/ Passes(<<CloseMessage>>)
        \/ \E m \in PeerMessages : Passes(PongTo(m))
    <3>1. CASE \E m \in {Error, CloseMessage} \cup PeerMessages :
                  /\ Arrives(m) /\ Takes /\ m # Error /\ ~IsClose(m) /\ Passes(PongTo(m))
      <4>1. PICK m : Arrives(m) /\ Takes /\ m # Error /\ Passes(PongTo(m))
        BY <3>1, Zenon
      <4>2. m \in PeerMessages
        BY <4>1, TakesIs
      <4> QED
        BY <4>1, <4>2
    <3>2. CASE Passes(<<CloseMessage>>)
      BY <3>2
    <3> QED
      BY <1>5, <3>1, <3>2, Zenon DEF ReceiveLoop
  <2>4. \A ms : Passes(ms) => channel' \in {channel, channel \o ms}
    BY DEF Passes
  <2>5. \/ Passes(<<>>)
        \/ \E x \in Plain : Passes(<<x>>)
    BY <2>3, AnswersAre, Kinds
  <2>6. channel' \in Seq(Plain)
    <3>1. CASE Passes(<<>>)
      BY <2>4, <3>1, JoinNone
    <3>2. ASSUME NEW x \in Plain, Passes(<<x>>) PROVE channel' \in Seq(Plain)
      BY <2>4, <3>2, QueueAppend
    <3> QED
      BY <2>5, <3>1, <3>2
  <2> QED
    BY <1>5, <2>2, <2>6 DEF ReceiveLoop
<1>6. CASE RunnerReads
  <2>1. \/ \E m : Arrives(m) /\ Takes
        \/ UNCHANGED <<arriving, read>>
    BY <1>6, Zenon DEF RunnerReads
  <2>2. arriving' \in Seq(PeerMessages \cup {Error}) /\ read' \in Seq(PeerMessages)
    BY <2>1, TakesShape
  <2>3. \/ UNCHANGED out
        \/ \E m \in PeerMessages : Puts(Answer(m)) \/ Puts(<<>>)
    BY <1>6, Zenon DEF RunnerReads, Forwards
  <2>4. UNCHANGED out \/ Puts(<<>>) \/ \E x \in Whole : Puts(<<x>>)
    BY <2>3, AnswersAre, Kinds, PlainIs DEF Answer
  <2>5. out' \in Seq(Frames)
    BY <2>4, PutsOne, PutsNone
  <2> QED
    BY <1>6, <2>2, <2>5 DEF RunnerReads
<1>7. CASE RunnerTakesLine
  <2>1. Head(channel) \in Plain /\ Tail(channel) \in Seq(Plain)
    BY <1>7, JoinTail DEF RunnerTakesLine
  <2>2. Puts(<<Head(channel)>>) \/ Puts(<<>>)
    BY <1>7, Zenon DEF RunnerTakesLine, Forwards
  <2>3. out' \in Seq(Frames)
    BY <2>1, <2>2, PutsHeard, PutsNone
  <2> QED
    BY <1>7, <2>1, <2>3 DEF RunnerTakesLine
<1>8. CASE RunnerEnds
  BY <1>8 DEF RunnerEnds
<1>9. CASE EchoLoop
  <2>1. \/ \E m : Arrives(m) /\ Takes
        \/ UNCHANGED <<arriving, read>>
    BY <1>9, Zenon DEF EchoLoop
  <2>2. arriving' \in Seq(PeerMessages \cup {Error}) /\ read' \in Seq(PeerMessages)
    BY <2>1, TakesShape
  <2>3. Puts(<<>>) \/ \E x \in Plain : Puts(<<x>>)
    <3>1. CASE Puts(<<CloseMessage>>) \/ Puts(<<>>)
      BY <3>1, Kinds
    <3>2. CASE \E m \in {Error} \cup PeerMessages :
                  /\ Arrives(m) /\ Takes /\ m # Error
                  /\ Puts(IF IsData(m) THEN <<m>> ELSE PongTo(m))
      <4>1. PICK m : /\ Arrives(m) /\ Takes /\ m # Error
                     /\ Puts(IF IsData(m) THEN <<m>> ELSE PongTo(m))
        BY <3>2, Zenon
      <4>2. m \in PeerMessages
        BY <4>1, TakesIs
      <4>3. CASE IsData(m)
        <5>1. m \in Plain
          BY <4>2, <4>3, Kinds DEF IsData, IsControl, IsClose
        <5> QED
          BY <4>1, <4>3, <5>1
      <4>4. CASE ~IsData(m)
        <5>1. Puts(PongTo(m))
          BY <4>1, <4>4
        <5> QED
          BY <4>2, <5>1, AnswersAre, Kinds
      <4> QED
        BY <4>3, <4>4
    <3> QED
      BY <1>9, <3>1, <3>2, Zenon DEF EchoLoop
  <2>4. out' \in Seq(Frames)
    BY <2>3, PutsHeard, PutsNone
  <2> QED
    BY <1>9, <2>2, <2>4 DEF EchoLoop
<1>10. CASE Joins
  BY <1>10 DEF Joins
<1>11. CASE UNCHANGED vars
  BY <1>11 DEF vars
<1> QED
  BY <1>1, <1>2, <1>3, <1>4, <1>5, <1>6, <1>7, <1>8, <1>9, <1>10, <1>11 DEF Next

\* client.rs. w is what has been sent and what waits.
LEMMA ThreadsQueue ==
    ASSUME Shape
    PROVE  /\ ReadOf(out) \in Seq(Sendable) /\ ReadOf(out) \o channel \in Seq(Sendable)
           /\ \A x \in Sendable :
                 ReadOf(out) \o Append(channel, x) = Append(ReadOf(out) \o channel, x)
<1>1. ReadOf(out) \in Seq(Sendable) /\ channel \in Seq(Sendable)
  BY ReadIs, PlainIs DEF Shape
<1> QED
  BY <1>1, JoinAppend

LEMMA ThreadsType ==
    ASSUME Shape, ThreadsInv, program = "threads", Types
    PROVE  ThreadsInv'
<1> DEFINE R == ReadOf(out)
           W == R \o channel
<1>1. /\ R \in Seq(Sendable) /\ W \in Seq(Sendable)
      /\ \A x \in Sendable : R \o Append(channel, x) = Append(W, x)
      /\ read \in Seq(PeerMessages) /\ typed \in Seq(Users)
  BY ThreadsQueue DEF Shape
<1>2. UNCHANGED <<sending, out, read>>
  BY DEF Types
<1>3. PICK x : /\ \/ x \in Users /\ typed' = Append(typed, x)
                  \/ x = CloseMessage /\ typed' = typed
               /\ IF sending = "up" THEN channel' = Append(channel, x) ELSE UNCHANGED channel
  <2>1. CASE \E line \in Line : /\ typed' = Append(typed, MessageOf(line))
                                /\ \E next : MainSends(MessageOf(line), next)
    BY <2>1, Lines DEF MainSends
  <2>2. CASE UNCHANGED typed /\ \E next : MainSends(CloseMessage, next)
    BY <2>2 DEF MainSends
  <2> QED
    BY <2>1, <2>2, Zenon DEF Types
<1>4. x \in Sendable /\ (x = CloseMessage => IsClose(x)) /\ (x \in Users => x.op # Close)
  BY <1>3, Kinds
<1>5. CASE sending = "up"
  <2>1. Full(W, read, typed) /\ Closing(W, read) /\ NoClose(R)
    BY <1>5 DEF ThreadsInv
  <2>2. Full(Append(W, x), read, typed')
    BY <1>1, <1>3, <1>4, <2>1, FullLine, FullClose
  <2>3. Closing(Append(W, x), read)
    BY <1>1, <1>3, <1>4, <2>1, ClosingKept
  <2>4. R \o channel' = Append(W, x)
    BY <1>1, <1>3, <1>4, <1>5
  <2> HIDE DEF W
  <2> QED
    BY <1>2, <1>5, <2>1, <2>2, <2>3, <2>4 DEF ThreadsInv
<1>6. CASE sending # "up"
  <2>1. Part(R, read, typed) /\ Closing(R, read) /\ LastOnly(R)
    BY <1>6 DEF ThreadsInv
  <2>2. Part(R, read, typed')
    BY <1>1, <1>3, <2>1, PartKept
  <2> QED
    BY <1>2, <1>6, <2>1, <2>2 DEF ThreadsInv
<1> QED
  BY <1>5, <1>6

LEMMA ThreadsSend ==
    ASSUME Shape, ThreadsInv, SendLoop
    PROVE  ThreadsInv'
<1> DEFINE R == ReadOf(out)
           h == Head(channel)
           q == Tail(channel)
           S == Append(R, h)
<1>1. /\ R \in Seq(Sendable) /\ read \in Seq(PeerMessages) /\ typed \in Seq(Users)
      /\ channel \in Seq(Sendable) /\ channel # <<>> /\ out \in Seq(Frames)
      /\ h \in Plain
  <2>1. channel \in Seq(Plain) /\ channel # <<>>
    BY DEF Shape, SendLoop
  <2>2. h \in Plain
    BY <2>1, JoinTail
  <2> QED
    BY <2>1, <2>2, ThreadsQueue, PlainIs DEF Shape
<1>2. h \in Sendable /\ q \in Seq(Sendable) /\ R \o channel = S \o q
  BY <1>1, JoinTail
<1>3. /\ Full(S \o q, read, typed) /\ Closing(S \o q, read)
      /\ Full(R \o channel, read, typed) /\ Closing(R \o channel, read) /\ NoClose(R)
  BY <1>2 DEF ThreadsInv, SendLoop
<1>4. /\ UNCHANGED <<read, typed>> /\ channel' = q
      /\ \/ Puts(<<h>>) /\ sending' = (IF IsClose(h) THEN "done" ELSE "up")
         \/ Puts(<<>>) /\ sending' = "done"
         \/ Puts(<<CloseMessage>>) /\ sending' = "done"
  BY Zenon DEF SendLoop
<1> HIDE DEF h, q
<1>5. S \in Seq(Sendable)
  BY <1>1, <1>2, QueueAppend
<1>6. Part(R, read, typed) /\ Closing(R, read)
  BY <1>1, <1>3, FullIsPart
<1>7. Part(S, read, typed) /\ Closing(S, read)
  BY <1>2, <1>3, <1>5, FullIsPart
<1>8. LastOnly(R) /\ LastOnly(S) /\ (h.op # Close => NoClose(S))
  BY <1>1, <1>3, NoCloseAppend
<1>9. CASE Puts(<<h>>) /\ sending' = (IF IsClose(h) THEN "done" ELSE "up")
  <2>1. ReadOf(out') = S
    BY <1>1, <1>2, <1>9, PutsHeard
  <2> HIDE DEF S, R
  <2> QED
    BY <1>3, <1>4, <1>7, <1>8, <1>9, <2>1 DEF ThreadsInv, IsClose
<1>10. CASE Puts(<<>>) /\ sending' = "done"
  <2>1. out' = out
    BY <1>1, <1>10, PutsNone
  <2> QED
    BY <1>4, <1>6, <1>8, <1>10, <2>1 DEF ThreadsInv
<1>11. CASE Puts(<<CloseMessage>>) /\ sending' = "done"
  <2>1. CloseMessage \in Plain /\ IsClose(CloseMessage)
    BY Kinds
  <2> DEFINE C == Append(R, CloseMessage)
  <2>2. ReadOf(out') = C
    BY <1>1, <1>11, <2>1, PutsHeard
  <2>3. Part(C, read, typed) /\ Closing(C, read) /\ LastOnly(C)
    BY <1>1, <1>3, <1>6, <2>1, PartKept, ClosingKept, NoCloseAppend
  <2> HIDE DEF C
  <2> QED
    BY <1>4, <1>11, <2>2, <2>3 DEF ThreadsInv
<1> QED
  BY <1>4, <1>9, <1>10, <1>11

LEMMA ThreadsReceive ==
    ASSUME Shape, ThreadsInv, ReceiveLoop
    PROVE  ThreadsInv'
<1> DEFINE R == ReadOf(out)
           W == R \o channel
<1>1. /\ R \in Seq(Sendable) /\ W \in Seq(Sendable)
      /\ \A x \in Sendable : R \o Append(channel, x) = Append(W, x)
      /\ read \in Seq(PeerMessages) /\ typed \in Seq(Users) /\ channel \in Seq(Sendable)
  BY ThreadsQueue DEF Shape
<1>2. UNCHANGED <<sending, out, typed>>
  BY DEF ReceiveLoop
<1>3. CloseMessage \in Sendable /\ IsClose(CloseMessage)
  BY Kinds
\* What is read, and what is passed on for it.
<1>4. \/ UNCHANGED read /\ Passes(<<CloseMessage>>)
      \/ \E m \in PeerMessages :
            /\ read' = Append(read, m)
            /\ \/ IsClose(m) /\ Passes(<<CloseMessage>>)
               \/ IsPing(m) /\ Passes(<<Owed(m)>>)
               \/ ~IsClose(m) /\ ~IsPing(m) /\ Passes(<<>>)
  <2>1. CASE AtEnd /\ Passes(<<CloseMessage>>) /\ UNCHANGED <<arriving, read>>
    BY <2>1
  <2>2. CASE \E m : /\ Arrives(m) /\ Takes
                    /\ IF m = Error \/ IsClose(m) THEN Passes(<<CloseMessage>>)
                       ELSE Passes(PongTo(m))
    <3>1. PICK m : /\ Arrives(m) /\ Takes
                   /\ IF m = Error \/ IsClose(m) THEN Passes(<<CloseMessage>>)
                      ELSE Passes(PongTo(m))
      BY <2>2
    <3>2. \/ m = Error /\ read' = read
          \/ m \in PeerMessages /\ read' = Append(read, m)
      BY <3>1, TakesIs DEF Shape
    <3>3. CASE m = Error /\ read' = read
      BY <3>1, <3>3
    <3>4. CASE m \in PeerMessages /\ read' = Append(read, m)
      <4>1. m # Error
        BY <3>4, SessionAssumption DEF Error, IsMessage, Text, Binary, Close, Ping, Pong
      <4>2. IF IsClose(m) THEN Passes(<<CloseMessage>>) ELSE Passes(PongTo(m))
        BY <3>1, <4>1
      <4> QED
        BY <3>4, <4>2, AnswersAre
    <3> QED
      BY <3>2, <3>3, <3>4
  <2> QED
    BY <2>1, <2>2, Zenon DEF ReceiveLoop
<1>5. CASE sending = "up"
  <2>1. Full(W, read, typed) /\ Closing(W, read) /\ NoClose(R)
    BY <1>5 DEF ThreadsInv
  <2>2. /\ \A x \in Sendable : Passes(<<x>>) => R \o channel' = Append(W, x)
        /\ Passes(<<>>) => R \o channel' = W
    <3>1. /\ \A x \in Sendable : Passes(<<x>>) => channel' = Append(channel, x)
          /\ Passes(<<>>) => channel' = channel
      BY <1>1, <1>5, QueueAppend, JoinNone DEF Passes
    <3> HIDE DEF W
    <3>2. ASSUME NEW x \in Sendable, Passes(<<x>>) PROVE R \o channel' = Append(W, x)
      BY <1>1, <3>1, <3>2
    <3>3. Passes(<<>>) => R \o channel' = W
      BY <3>1 DEF W
    <3> QED
      BY <3>2, <3>3
  <2> HIDE DEF W
  <2>3. /\ Full(Append(W, CloseMessage), read, typed) /\ Closing(Append(W, CloseMessage), read)
    BY <1>1, <1>3, <2>1, FullClose, ClosingKept
  <2>4. Full(R \o channel', read', typed) /\ Closing(R \o channel', read')
    <3>1. CASE UNCHANGED read /\ Passes(<<CloseMessage>>)
      BY <1>3, <2>2, <2>3, <3>1
    <3>2. ASSUME NEW m \in PeerMessages, read' = Append(read, m),
                 \/ IsClose(m) /\ Passes(<<CloseMessage>>)
                 \/ IsPing(m) /\ Passes(<<Owed(m)>>)
                 \/ ~IsClose(m) /\ ~IsPing(m) /\ Passes(<<>>)
          PROVE  Full(R \o channel', read', typed) /\ Closing(R \o channel', read')
      <4>1. Closing(W, read') /\ read' \in Seq(PeerMessages)
        BY <1>1, <2>1, <3>2, ClosingKept, QueueAppend
      <4>2. CASE IsPing(m) /\ Passes(<<Owed(m)>>)
        <5>1. Owed(m) \in Sendable /\ Owed(m).op # Close
          BY <4>2, Kinds DEF Pong, Close
        <5>2. Full(Append(W, Owed(m)), read', typed)
          BY <1>1, <2>1, <3>2, <4>2, FullPing
        <5>3. Closing(Append(W, Owed(m)), read')
          BY <1>1, <4>1, <5>1, ClosingKept
        <5> QED
          BY <2>2, <4>2, <5>1, <5>2, <5>3
      <4>3. ~IsPing(m) => Full(W, read', typed)
        BY <1>1, <2>1, <3>2, FullRead
      <4>4. CASE ~IsClose(m) /\ ~IsPing(m) /\ Passes(<<>>)
        BY <2>2, <4>1, <4>3, <4>4
      <4>5. CASE IsClose(m) /\ Passes(<<CloseMessage>>)
        <5>1. ~IsPing(m)
          BY <4>5 DEF IsClose, IsPing, Close, Ping
        <5>2. Full(Append(W, CloseMessage), read', typed) /\ Closing(Append(W, CloseMessage), read')
          BY <1>1, <1>3, <4>1, <4>3, <5>1, FullClose, ClosingKept
        <5> QED
          BY <1>3, <2>2, <4>5, <5>2
      <4> QED
        BY <3>2, <4>2, <4>4, <4>5
    <3> QED
      BY <1>4, <3>1, <3>2, Zenon
  <2> QED
    BY <1>2, <1>5, <2>1, <2>4 DEF ThreadsInv
<1>6. CASE sending # "up"
  <2>1. Part(R, read, typed) /\ Closing(R, read) /\ LastOnly(R)
    BY <1>6 DEF ThreadsInv
  <2>2. Part(R, read', typed) /\ Closing(R, read')
    <3>1. CASE UNCHANGED read
      BY <2>1, <3>1
    <3>2. CASE \E m \in PeerMessages : read' = Append(read, m)
      BY <1>1, <2>1, <3>2, PartKept, ClosingKept
    <3> QED
      BY <1>4, <3>1, <3>2, Zenon
  <2> QED
    BY <1>2, <1>6, <2>1, <2>2 DEF ThreadsInv
<1> QED
  BY <1>5, <1>6

LEMMA ThreadsKept ==
    ASSUME Shape, program = "threads", ThreadsInv, [Next]_vars
    PROVE  ThreadsInv'
<1>1. CASE PeerSends
  BY <1>1 DEF PeerSends, ThreadsInv
<1>2. CASE PeerLeaves
  BY <1>2 DEF PeerLeaves, ThreadsInv
<1>3. CASE Joins
  BY <1>3 DEF Joins, ThreadsInv
<1>4. CASE UNCHANGED vars
  BY <1>4 DEF vars, ThreadsInv
<1>5. ~RunnerReads /\ ~RunnerTakesLine /\ ~RunnerEnds /\ ~EchoLoop
  BY DEF RunnerReads, RunnerTakesLine, RunnerEnds, EchoLoop
<1> QED
  BY <1>1, <1>2, <1>3, <1>4, <1>5, ThreadsType, ThreadsSend, ThreadsReceive DEF Next

\* async-client.rs and ssl-client.rs.
LEMMA WaitsPart ==
    ASSUME NEW s \in Seq(Sendable), NEW r \in Seq(PeerMessages), NEW t \in Seq(Users),
           Part(s, r, t), Waits(t)
    PROVE  Part(s, r, typed)
<1>1. typed = t \/ \E x \in Users : typed = Append(t, x)
  BY DEF Waits
<1> QED
  BY <1>1, PartKept

LEMMA SelectType ==
    ASSUME Shape, SelectInv, program = "select", Types
    PROVE  SelectInv'
<1> DEFINE R == ReadOf(out)
<1>1. R \in Seq(Sendable) /\ read \in Seq(PeerMessages) /\ typed \in Seq(Users)
  BY ReadIs DEF Shape
<1>2. UNCHANGED <<sending, out, read>> /\ Closing(R, read)
  BY DEF Types, SelectInv
<1>3. PICK x : /\ \/ x \in Users /\ typed' = Append(typed, x)
                  \/ x = CloseMessage /\ typed' = typed
               /\ channel = <<>> /\ channel' = <<x>>
  <2>1. CASE \E line \in Line : /\ typed' = Append(typed, MessageOf(line))
                                /\ \E next : StdinSends(MessageOf(line), next)
    BY <2>1, Lines DEF StdinSends
  <2>2. CASE UNCHANGED typed /\ \E next : StdinSends(CloseMessage, next)
    BY <2>2 DEF StdinSends
  <2> QED
    BY <2>1, <2>2, Zenon DEF Types
<1>4. CASE sending = "up"
  <2>1. PICK t \in Seq(Users) : Full(R, read, t) /\ Waits(t)
    BY <1>4 DEF SelectInv
  <2>2. \A y : <<y>> # <<>>
    OBVIOUS
  <2>3. typed = t
    BY <1>3, <2>1, <2>2, Zenon DEF Waits
  <2>4. Waits(t)'
    BY <1>3, <2>3 DEF Waits
  <2> QED
    BY <1>2, <1>4, <2>1, <2>4 DEF SelectInv
<1>5. CASE sending # "up"
  <2>1. Part(R, read, typed')
    BY <1>1, <1>3, <1>5, PartKept DEF SelectInv
  <2> QED
    BY <1>2, <1>5, <2>1 DEF SelectInv
<1> QED
  BY <1>4, <1>5

LEMMA SelectReads ==
    ASSUME Shape, SelectInv, RunnerReads
    PROVE  SelectInv'
<1> DEFINE R == ReadOf(out)
<1>1. /\ R \in Seq(Sendable) /\ read \in Seq(PeerMessages) /\ typed \in Seq(Users)
      /\ out \in Seq(Frames)
  BY ReadIs DEF Shape
<1>2. UNCHANGED <<channel, typed>> /\ sending = "up" /\ Closing(R, read)
  BY DEF RunnerReads, SelectInv
<1>3. PICK t \in Seq(Users) : Full(R, read, t) /\ Waits(t)
  BY <1>2 DEF SelectInv
<1>4. Waits(t)'
  BY <1>2, <1>3 DEF Waits
\* The sequences are as before, or a message has been read.
<1>5. \/ UNCHANGED <<read, out>> /\ sending' \in {"up", "done"}
      \/ \E m \in PeerMessages : read' = Append(read, m) /\ Forwards(Answer(m))
  <2>1. Error \notin PeerMessages
    BY SessionAssumption DEF Error, IsMessage, Text, Binary, Close, Ping, Pong
  <2>2. CASE Arrives(Error) /\ Takes /\ sending' = "done" /\ UNCHANGED out
    BY <2>1, <2>2, TakesIs DEF Shape
  <2>3. CASE \E m \in PeerMessages : Arrives(m) /\ Takes /\ Forwards(Answer(m))
    BY <2>1, <2>3, TakesIs DEF Shape
  <2>4. CASE /\ UNCHANGED sending \/ sending' = "done"
             /\ UNCHANGED <<arriving, read, out>>
    BY <1>2, <2>4
  <2> QED
    BY <2>2, <2>3, <2>4, Zenon DEF RunnerReads
<1>6. CASE UNCHANGED <<read, out>> /\ sending' \in {"up", "done"}
  <2>1. Part(R, read, typed)
    BY <1>1, <1>3, FullIsPart, WaitsPart
  <2> QED
    BY <1>2, <1>3, <1>4, <1>6, <2>1 DEF SelectInv
<1>7. ASSUME NEW m \in PeerMessages, read' = Append(read, m), Forwards(Answer(m))
      PROVE  SelectInv'
  <2>1. Closing(R, read') /\ read' \in Seq(PeerMessages) /\ m \in ToSet(read')
    BY <1>1, <1>2, <1>7, ClosingKept, QueueAppend, ToSetAppend
  <2>2. ~IsPing(m) => Full(R, read', t)
    BY <1>1, <1>3, <1>7, FullRead
  <2>3. CASE Puts(Answer(m)) /\ UNCHANGED sending
    <3>1. Full(ReadOf(out'), read', t) /\ Closing(ReadOf(out'), read')
      <4>1. CASE IsClose(m)
        <5>1. Puts(<<m>>) /\ m \in Whole /\ ~IsPing(m)
          BY <2>3, <4>1, Kinds, AnswersAre DEF Answer
        <5>2. Heard(m) = Bare(m) /\ IsClose(Bare(m))
          BY <4>1, <5>1, WholeAre DEF Heard, Bare, IsClose, IsMessage
        <5>3. ReadOf(out') = Append(R, Bare(m))
          BY <1>1, <5>1, <5>2, PutsOne
        <5>4. Full(Append(R, Bare(m)), read', t)
          BY <1>1, <2>1, <2>2, <5>1, <5>2, FullClose
        <5>5. Closing(Append(R, Bare(m)), read')
          BY <1>1, <2>1, ClosingKept
        <5> QED
          BY <5>3, <5>4, <5>5
      <4>2. CASE IsPing(m)
        <5>1. Puts(<<Owed(m)>>) /\ Owed(m) \in Plain /\ Owed(m).op # Close
          BY <2>3, <4>2, Kinds, AnswersAre DEF Answer, Pong, Close
        <5>2. ReadOf(out') = Append(R, Owed(m))
          BY <1>1, <5>1, PutsHeard
        <5>3. Full(Append(R, Owed(m)), read', t)
          BY <1>1, <1>3, <1>7, <4>2, FullPing
        <5>4. Closing(Append(R, Owed(m)), read')
          BY <1>1, <2>1, <5>1, ClosingKept
        <5> QED
          BY <5>2, <5>3, <5>4
      <4>3. CASE ~IsClose(m) /\ ~IsPing(m)
        <5>1. Puts(<<>>)
          BY <2>3, <4>3, AnswersAre DEF Answer
        <5>2. out' = out
          BY <1>1, <5>1, PutsNone
        <5> QED
          BY <2>1, <2>2, <4>3, <5>2
      <4> QED
        BY <4>1, <4>2, <4>3
    <3> QED
      BY <1>2, <1>4, <2>3, <3>1 DEF SelectInv
  <2>4. CASE Puts(<<>>) /\ sending' = "done"
    <3>1. out' = out
      BY <1>1, <2>4, PutsNone
    <3>2. Part(R, read', t)
      BY <1>1, <1>3, <1>7, FullIsPart, PartKept
    <3>3. Part(R, read', typed)
      BY <1>1, <1>3, <2>1, <3>2, WaitsPart
    <3> QED
      BY <1>2, <2>1, <2>4, <3>1, <3>3 DEF SelectInv
  <2> QED
    BY <1>7, <2>3, <2>4, Zenon DEF Forwards
<1> QED
  BY <1>5, <1>6, <1>7

LEMMA SelectTakesLine ==
    ASSUME Shape, SelectInv, RunnerTakesLine
    PROVE  SelectInv'
<1> DEFINE R == ReadOf(out)
<1>1. /\ R \in Seq(Sendable) /\ read \in Seq(PeerMessages) /\ typed \in Seq(Users)
      /\ out \in Seq(Frames)
  BY ReadIs DEF Shape
<1>2. /\ UNCHANGED <<read, typed>> /\ sending = "up" /\ Closing(R, read)
      /\ channel # <<>> /\ channel' = Tail(channel) /\ Forwards(<<Head(channel)>>)
  BY DEF RunnerTakesLine, SelectInv
<1>3. PICK t \in Seq(Users) : Full(R, read, t) /\ Waits(t)
  BY <1>2 DEF SelectInv
<1>4. PICK x : /\ channel = <<x>>
               /\ \/ x = CloseMessage /\ typed = t
                  \/ x \in Users /\ typed = Append(t, x)
  BY <1>2, <1>3, Zenon DEF Waits
<1>5. Head(channel) = x /\ channel' = <<>>
  BY <1>2, <1>4
<1>6. x \in Plain /\ (x = CloseMessage => IsClose(x)) /\ (x \in Users => x.op # Close)
  BY <1>4, Kinds
<1>7. CASE Puts(<<x>>) /\ UNCHANGED sending
  <2>1. ReadOf(out') = Append(R, x)
    BY <1>1, <1>6, <1>7, PutsHeard
  <2>2. Full(Append(R, x), read, typed)
    BY <1>1, <1>3, <1>4, <1>6, FullLine, FullClose
  <2>3. Closing(Append(R, x), read)
    BY <1>1, <1>2, <1>4, <1>6, ClosingKept
  <2>4. Waits(typed)'
    BY <1>2, <1>5 DEF Waits
  <2> QED
    BY <1>1, <1>2, <1>7, <2>1, <2>2, <2>3, <2>4 DEF SelectInv
<1>8. CASE Puts(<<>>) /\ sending' = "done"
  <2>1. out' = out
    BY <1>1, <1>8, PutsNone
  <2>2. Part(R, read, typed)
    BY <1>1, <1>3, FullIsPart, WaitsPart
  <2> QED
    BY <1>2, <1>8, <2>1, <2>2 DEF SelectInv
<1> QED
  BY <1>2, <1>5, <1>7, <1>8 DEF Forwards

LEMMA SelectKept ==
    ASSUME Shape, program = "select", SelectInv, [Next]_vars
    PROVE  SelectInv'
<1>1. CASE PeerSends
  BY <1>1 DEF PeerSends, SelectInv, Waits
<1>2. CASE PeerLeaves
  BY <1>2 DEF PeerLeaves, SelectInv, Waits
<1>3. CASE RunnerEnds
  <2>1. PICK t \in Seq(Users) : Full(ReadOf(out), read, t) /\ Waits(t)
    BY <1>3 DEF RunnerEnds, SelectInv
  <2>2. ReadOf(out) \in Seq(Sendable) /\ read \in Seq(PeerMessages)
    BY ReadIs DEF Shape
  <2>3. Part(ReadOf(out), read, typed)
    BY <2>1, <2>2, FullIsPart, WaitsPart
  <2> QED
    BY <1>3, <2>3 DEF RunnerEnds, SelectInv
<1>4. CASE Joins
  BY <1>4 DEF Joins, SelectInv, Waits
<1>5. CASE UNCHANGED vars
  BY <1>5 DEF vars, SelectInv, Waits
<1>6. ~SendLoop /\ ~ReceiveLoop /\ ~EchoLoop
  BY DEF SendLoop, ReceiveLoop, EchoLoop
<1> QED
  BY <1>1, <1>2, <1>3, <1>4, <1>5, <1>6, SelectType, SelectReads, SelectTakesLine DEF Next

\* autobahn-client.rs.
LEMMA EchoedRead ==
    ASSUME NEW s \in Seq(Sendable), NEW r \in Seq(PeerMessages), Echoed(s, r),
           NEW m \in PeerMessages
    PROVE  /\ IsData(m) => Echoed(Append(s, m), Append(r, m)) /\ m.op # Close /\ ~IsPing(m)
           /\ IsPing(m) => Echoed(Append(s, Owed(m)), Append(r, m))
           /\ ~IsData(m) /\ ~IsPing(m) => Echoed(s, Append(r, m))
           /\ PartEchoed(s, Append(r, m))
<1>1. /\ OwedOf(Append(r, m)) = Append(OwedOf(r), Owed(m))
      /\ OwedOf(r) \in Seq(Sendable \cup {Error})
      /\ Append(OwedOf(r), Owed(m)) \in Seq(Sendable \cup {Error})
  <2>1. Owed(m) \in Sendable \cup {Error}
    BY Kinds
  <2> QED
    BY <2>1, OwedAppend, QueueAppend
<1>2. Even(s, OwedOf(r), {Pong}) /\ Even(s, r, Datas)
  BY DEF Echoed
<1>3. m.op \in {Text, Binary, Close, Ping, Pong}
  BY SessionAssumption DEF IsMessage
<1>4. Pong \notin Datas /\ Error.op \notin {Pong}
  BY DEF Datas, Error, Text, Binary, Pong
<1>5. ~IsPing(m) => Even(s, Append(OwedOf(r), Owed(m)), {Pong})
  BY <1>1, <1>2, <1>4, Kinds, EvenOther
<1>6. ASSUME IsData(m) PROVE Echoed(Append(s, m), Append(r, m)) /\ m.op # Close /\ ~IsPing(m)
  <2>1. m.op \notin {Pong} /\ ~IsPing(m) /\ m.op # Close
    BY <1>6 DEF IsData, IsControl, IsPing
  <2>2. Even(Append(s, m), Append(OwedOf(r), Owed(m)), {Pong})
    BY <1>1, <1>5, <2>1, EvenOther
  <2>3. Even(Append(s, m), Append(r, m), Datas)
    BY <1>2, EvenBoth
  <2> QED
    BY <1>1, <2>1, <2>2, <2>3 DEF Echoed
<1>7. ~IsData(m) => m.op \notin Datas
  BY <1>3 DEF IsData, IsControl, Datas, Text, Binary, Close, Ping, Pong
<1>8. ~IsData(m) => Even(s, Append(r, m), Datas)
  BY <1>2, <1>7, EvenOther
<1>9. ASSUME IsPing(m) PROVE Echoed(Append(s, Owed(m)), Append(r, m))
  <2>1. Even(Append(s, Owed(m)), Append(OwedOf(r), Owed(m)), {Pong})
    BY <1>1, <1>2, EvenBoth
  <2>2. ~IsData(m) /\ Owed(m).op \notin Datas
    BY <1>4, <1>9, Kinds DEF IsData, IsControl, IsPing
  <2>3. Append(r, m) \in Seq(PeerMessages)
    BY QueueAppend
  <2>4. Even(Append(s, Owed(m)), Append(r, m), Datas)
    BY <1>8, <2>2, <2>3, EvenOther
  <2> QED
    BY <1>1, <2>1, <2>2, <2>4 DEF Echoed
<1>10. PartEchoed(s, Append(r, m))
  BY <1>1, <1>2, MoreDue DEF PartEchoed, Even
<1>11. ~IsData(m) /\ ~IsPing(m) => Echoed(s, Append(r, m))
  BY <1>1, <1>5, <1>8 DEF Echoed
<1> QED
  BY <1>6, <1>9, <1>10, <1>11

LEMMA EchoedEnds ==
    ASSUME NEW s \in Seq(Sendable), NEW r \in Seq(PeerMessages)
    PROVE  /\ Echoed(s, r) => PartEchoed(s, r)
           /\ PartEchoed(s, r) => PartEchoed(Append(s, CloseMessage), r)
<1>1. CloseMessage.op \notin {Pong} /\ CloseMessage.op \notin Datas
  BY DEF CloseMessage, Datas, Close, Pong, Text, Binary
<1>2. PartEchoed(s, r) => PartEchoed(Append(s, CloseMessage), r)
  BY <1>1, OneMore DEF PartEchoed
<1> QED
  BY <1>2 DEF Echoed, PartEchoed, Even

LEMMA EchoAnswers ==
    ASSUME Shape, EchoInv, EchoLoop
    PROVE  EchoInv'
<1> DEFINE R == ReadOf(out)
<1>1. R \in Seq(Sendable) /\ read \in Seq(PeerMessages) /\ out \in Seq(Frames)
  BY ReadIs DEF Shape
<1>2. Closing(R, read) /\ Echoed(R, read) /\ NoClose(R) /\ receiving = "up"
  BY DEF EchoInv, EchoLoop
\* The last turn of the loop, or a turn that answers a message.
<1>3. \/ /\ receiving' = "done" /\ (Puts(<<>>) \/ Puts(<<CloseMessage>>))
         /\ UNCHANGED read \/ \E m \in PeerMessages : read' = Append(read, m)
      \/ /\ receiving' = "up"
         /\ \E m \in PeerMessages :
               /\ read' = Append(read, m) /\ ~IsClose(m)
               /\ Puts(IF IsData(m) THEN <<m>> ELSE PongTo(m))
  <2>1. CASE /\ receiving' = "done" /\ (Puts(<<>>) \/ Puts(<<CloseMessage>>))
             /\ UNCHANGED <<arriving, read>>
    BY <2>1
  <2>2. CASE \E m : /\ Arrives(m) /\ Takes
                    /\ receiving' = "done" /\ (Puts(<<>>) \/ Puts(<<CloseMessage>>))
    BY <2>2, TakesIs DEF Shape
  <2>3. CASE \E m : /\ Arrives(m) /\ Takes /\ m # Error /\ ~IsClose(m)
                    /\ Puts(IF IsData(m) THEN <<m>> ELSE PongTo(m)) /\ UNCHANGED receiving
    BY <1>2, <2>3, TakesIs DEF Shape
  <2> QED
    BY <2>1, <2>2, <2>3, Zenon DEF EchoLoop
<1>4. CASE /\ receiving' = "done" /\ (Puts(<<>>) \/ Puts(<<CloseMessage>>))
           /\ UNCHANGED read \/ \E m \in PeerMessages : read' = Append(read, m)
  <2>1. /\ read' \in Seq(PeerMessages)
        /\ Closing(R, read') /\ PartEchoed(R, read')
    <3>1. CASE UNCHANGED read
      BY <1>1, <1>2, <3>1, EchoedEnds
    <3>2. CASE \E m \in PeerMessages : read' = Append(read, m)
      BY <1>1, <1>2, <3>2, ClosingKept, EchoedRead, QueueAppend
    <3> QED
      BY <1>4, <3>1, <3>2
  <2>2. CASE Puts(<<>>)
    <3>1. out' = out /\ LastOnly(R)
      BY <1>1, <1>2, <2>2, PutsNone, NoCloseAppend
    <3> QED
      BY <1>4, <2>1, <3>1 DEF EchoInv
  <2>3. CASE Puts(<<CloseMessage>>)
    <3> DEFINE C == Append(R, CloseMessage)
    <3>1. ReadOf(out') = C
      BY <1>1, <2>3, Kinds, PutsHeard
    <3>2. LastOnly(C) /\ Closing(C, read') /\ PartEchoed(C, read')
      BY <1>1, <1>2, <2>1, NoCloseAppend, ClosingKept, EchoedEnds
    <3> HIDE DEF C
    <3> QED
      BY <1>4, <3>1, <3>2 DEF EchoInv
  <2> QED
    BY <1>4, <2>2, <2>3
<1>5. ASSUME receiving' = "up", NEW m \in PeerMessages, read' = Append(read, m), ~IsClose(m),
             Puts(IF IsData(m) THEN <<m>> ELSE PongTo(m))
      PROVE  EchoInv'
  <2>1. Closing(R, read') /\ read' \in Seq(PeerMessages)
    BY <1>1, <1>2, <1>5, ClosingKept, QueueAppend
  <2>2. CASE \E x \in Plain : x.op # Close /\ Puts(<<x>>) /\ Echoed(Append(R, x), read')
    <3>1. PICK x \in Plain : x.op # Close /\ Puts(<<x>>) /\ Echoed(Append(R, x), read')
      BY <2>2
    <3>2. ReadOf(out') = Append(R, x)
      BY <1>1, <3>1, PutsHeard
    <3>3. NoClose(Append(R, x)) /\ Closing(Append(R, x), read')
      BY <1>1, <1>2, <2>1, <3>1, NoCloseAppend, ClosingKept
    <3> QED
      BY <1>5, <3>1, <3>2, <3>3 DEF EchoInv
  <2>3. CASE Puts(<<>>) /\ Echoed(R, read')
    <3>1. out' = out
      BY <1>1, <2>3, PutsNone
    <3> QED
      BY <1>2, <1>5, <2>1, <2>3, <3>1 DEF EchoInv
  <2>4. CASE IsData(m)
    <3>1. m \in Plain /\ m.op # Close /\ Puts(<<m>>) /\ Echoed(Append(R, m), read')
      BY <1>1, <1>2, <1>5, <2>4, Kinds, EchoedRead
    <3> QED
      BY <2>2, <3>1
  <2>5. CASE IsPing(m)
    <3>1. /\ Owed(m) \in Plain /\ Owed(m).op # Close /\ Puts(<<Owed(m)>>)
          /\ Echoed(Append(R, Owed(m)), read')
      <4>1. ~IsData(m) /\ Echoed(Append(R, Owed(m)), read')
        BY <1>1, <1>2, <1>5, <2>5, EchoedRead
      <4>2. Owed(m) \in Plain /\ Owed(m).op # Close
        BY <2>5, Kinds DEF Pong, Close
      <4> QED
        BY <1>5, <2>5, <4>1, <4>2, AnswersAre
    <3> QED
      BY <2>2, <3>1
  <2>6. CASE ~IsData(m) /\ ~IsPing(m)
    <3>1. Puts(<<>>) /\ Echoed(R, read')
      BY <1>1, <1>2, <1>5, <2>6, AnswersAre, EchoedRead
    <3> QED
      BY <2>3, <3>1
  <2> QED
    BY <2>4, <2>5, <2>6
<1> QED
  BY <1>3, <1>4, <1>5, Zenon

LEMMA EchoKept ==
    ASSUME Shape, program = "echo", EchoInv, [Next]_vars
    PROVE  EchoInv'
<1>1. CASE PeerSends
  BY <1>1 DEF PeerSends, EchoInv
<1>2. CASE PeerLeaves
  BY <1>2 DEF PeerLeaves, EchoInv
<1>3. CASE Joins
  BY <1>3 DEF Joins, EchoInv
<1>4. CASE UNCHANGED vars
  BY <1>4 DEF vars, EchoInv
<1>5. /\ ~Types /\ ~SendLoop /\ ~ReceiveLoop
      /\ ~RunnerReads /\ ~RunnerTakesLine /\ ~RunnerEnds
  BY DEF Types, SendLoop, ReceiveLoop, RunnerReads, RunnerTakesLine, RunnerEnds
<1> QED
  BY <1>1, <1>2, <1>3, <1>4, <1>5, EchoAnswers DEF Next

-----------------------------------------------------------------------------
(* The theorems *)

LEMMA InvInit == Init => Inv
<1> SUFFICES ASSUME Init PROVE Inv
  OBVIOUS
<1>1. /\ program \in {"threads", "select", "echo"}
      /\ channel = <<>> /\ arriving = <<>> /\ out = <<>> /\ typed = <<>> /\ read = <<>>
      /\ receiving = "up" /\ sending = IF program = "echo" THEN "done" ELSE "up"
  BY SessionAssumption DEF Init
<1>2. ReadOf(<<>>) = <<>> /\ OwedOf(<<>>) = <<>> /\ <<>> \o <<>> = <<>>
  BY DEF ReadOf, OwedOf
<1>3. \A r, kinds : InOrder(<<>>, r, kinds)
  BY DEF InOrder
<1>4. \A r : Closing(<<>>, r) /\ NoClose(<<>>)
  BY DEF Closing, NoClose
<1>5. \A kinds : Even(<<>>, <<>>, kinds)
  BY <1>3 DEF Even
<1>6. Full(<<>>, <<>>, <<>>) /\ Echoed(<<>>, <<>>)
  BY <1>2, <1>5 DEF Full, Echoed
<1>7. Shape
  BY <1>1 DEF Shape
<1>8. program = "threads" => ThreadsInv
  BY <1>1, <1>2, <1>4, <1>6 DEF ThreadsInv
<1>9. program = "select" => SelectInv
  <2>1. Waits(<<>>) /\ <<>> \in Seq(Users)
    BY <1>1 DEF Waits
  <2> QED
    BY <1>1, <1>2, <1>4, <1>6, <2>1 DEF SelectInv
<1>10. program = "echo" => EchoInv
  BY <1>1, <1>2, <1>4, <1>6 DEF EchoInv
<1> QED
  BY <1>7, <1>8, <1>9, <1>10 DEF Inv

LEMMA InvKept ==
    ASSUME Inv, [Next]_vars
    PROVE  Inv'
<1>1. UNCHANGED program
  BY DEF Next, vars, PeerSends, PeerLeaves, Types, SendLoop, ReceiveLoop, RunnerReads,
         RunnerTakesLine, RunnerEnds, EchoLoop, Joins
<1>2. Shape'
  BY ShapeKept DEF Inv
<1> QED
  BY <1>1, <1>2, ThreadsKept, SelectKept, EchoKept DEF Inv

\* The counts of what is sent and what is due, in step in each of the programs.
THEOREM SessionInvariant == Spec => []Inv
<1>1. Init => Inv
  BY InvInit
<1>2. Inv /\ [Next]_vars => Inv'
  BY InvKept
<1> QED
  BY <1>1, <1>2, PTL DEF Spec

\* Whoever asks for a close, and however often, none of client.rs and
\* autobahn-client.rs sends a frame behind it.
THEOREM ClosesAreLast == Spec => []NothingAfterClose
<1>1. Inv => NothingAfterClose
  <2> SUFFICES ASSUME Inv, program # "select" PROVE \A i \in 1..(Len(out) - 1) : out[i].op # Close
    BY DEF NothingAfterClose
  <2>1. /\ ReadOf(out) \in Seq(Sendable) /\ Len(ReadOf(out)) = Len(out) /\ Len(out) \in Nat
        /\ \A i \in 1..Len(out) : ReadOf(out)[i].op = out[i].op
    BY ReadIs DEF Inv, Shape
  <2>2. LastOnly(ReadOf(out)) \/ NoClose(ReadOf(out))
    BY DEF Inv, Shape, ThreadsInv, EchoInv
  <2>3. LastOnly(ReadOf(out))
    BY <2>1, <2>2, NoCloseAppend
  <2> QED
    BY <2>1, <2>3 DEF LastOnly
<1> QED
  BY <1>1, SessionInvariant, PTL

\* The pongs, the echoes and the lines come in order, whatever the three programs
\* interleave with them, and a close is the program's own or has the code of one that
\* was read, whatever the masked send makes of its reason.
THEOREM AnswersOrdered == Spec => []AnswersInOrder
<1>1. Inv => AnswersInOrder
  <2> SUFFICES ASSUME Inv PROVE AnswersInOrder
    OBVIOUS
  <2> DEFINE R == ReadOf(out)
  <2>1. SentMessages = R /\ Pongs = OwedOf(read)
    BY DEF SentMessages, Pongs, ReadOf, OwedOf, Owed
  <2>2. /\ R \in Seq(Sendable) /\ Len(R) = Len(out) /\ DOMAIN R = DOMAIN out
        /\ read \in Seq(PeerMessages) /\ typed \in Seq(Users) /\ channel \in Seq(Sendable)
        /\ program \in {"threads", "select", "echo"}
    BY ReadIs, PlainIs DEF Inv, Shape, ReadOf
  <2>3. CASE program = "threads"
    <3>1. Part(R, read, typed) /\ Closing(R, read)
      BY <2>2, <2>3, FullIsPart DEF Inv, ThreadsInv
    <3> QED
      BY <2>1, <2>2, <2>3, <3>1 DEF AnswersInOrder, Part, Closing, Typed
  <2>4. CASE program = "select"
    <3>1. ASSUME sending = "up" PROVE Part(R, read, typed)
      <4>1. PICK t \in Seq(Users) : Full(R, read, t) /\ Waits(t)
        BY <2>4, <3>1 DEF Inv, SelectInv
      <4>2. Part(R, read, t)
        BY <2>2, <4>1, FullIsPart
      <4> QED
        BY <2>2, <4>1, <4>2, WaitsPart
    <3>2. Part(R, read, typed) /\ Closing(R, read)
      BY <2>4, <3>1 DEF Inv, SelectInv
    <3> QED
      BY <2>1, <2>2, <2>4, <3>2 DEF AnswersInOrder, Part, Closing, Typed
  <2>5. CASE program = "echo"
    <3>1. PartEchoed(R, read) /\ Closing(R, read)
      BY <2>2, <2>5, EchoedEnds DEF Inv, EchoInv
    <3> QED
      BY <2>1, <2>2, <2>5, <3>1 DEF AnswersInOrder, PartEchoed, Closing, Datas
  <2> QED
    BY <2>2, <2>3, <2>4, <2>5
<1> QED
  BY <1>1, SessionInvariant, PTL

=============================================================================
