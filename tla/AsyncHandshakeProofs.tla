------------------------- MODULE AsyncHandshakeProofs -------------------------
(***************************************************************************)
(* Theorems about AsyncHandshake: its types, that no byte behind a head is *)
(* lost on its way to the message codec, and that two ends of this crate   *)
(* agree on what the handshake has come to.                                *)
(***************************************************************************)
EXTENDS AsyncHandshake, TLAPS

ByteRecord == [part : {"head", "data"}, k : Nat]

\* The bytes a side sends, by their place: those of its head, then data.
ByteAt(i) == IF i <= HeadLen THEN [part |-> "head", k |-> i] ELSE DataByte(i - HeadLen)

\* q holds the bytes behind the first n, in order.
Run(q, n) == \A i \in 1..Len(q) : q[i] = ByteAt(n + i)

-----------------------------------------------------------------------------
(* Bytes in order *)

LEMMA HeadLength == HeadLen \in Nat /\ HeadLen > 1
BY HandshakeAssumption

LEMMA Bytes == \A i \in Nat \ {0} : ByteAt(i) \in ByteRecord
<1> SUFFICES ASSUME NEW i \in Nat \ {0} PROVE ByteAt(i) \in ByteRecord
  OBVIOUS
<1>1. i > HeadLen => i - HeadLen \in Nat
  BY HeadLength
<1> QED
  BY <1>1, HeadLength DEF ByteAt, DataByte, ByteRecord

\* Both ends of a sequence that is cut are in order.
LEMMA RunCut ==
    ASSUME NEW q \in Seq(ByteRecord), NEW n \in Nat, Run(q, n), NEW m \in 0..Len(q)
    PROVE  /\ SubSeq(q, 1, m) \in Seq(ByteRecord) /\ Len(SubSeq(q, 1, m)) = m
           /\ Run(SubSeq(q, 1, m), n)
           /\ SubSeq(q, m + 1, Len(q)) \in Seq(ByteRecord)
           /\ Len(SubSeq(q, m + 1, Len(q))) = Len(q) - m
           /\ Run(SubSeq(q, m + 1, Len(q)), n + m)
<1> DEFINE a == SubSeq(q, 1, m)
           b == SubSeq(q, m + 1, Len(q))
<1>1. a \in Seq(ByteRecord) /\ Len(a) = m /\ \A i \in 1..m : a[i] = q[i]
  OBVIOUS
<1>2. b \in Seq(ByteRecord) /\ Len(b) = Len(q) - m /\ \A i \in 1..Len(b) : b[i] = q[m + i]
  OBVIOUS
<1> HIDE DEF a, b
<1>3. Run(a, n)
  BY <1>1 DEF Run
<1>4. ASSUME NEW i \in 1..Len(b) PROVE b[i] = ByteAt((n + m) + i)
  <2>1. m + i \in 1..Len(q) /\ n + (m + i) = (n + m) + i
    BY <1>2
  <2>2. q[m + i] = ByteAt(n + (m + i))
    BY <2>1 DEF Run
  <2> QED
    BY <1>2, <2>1, <2>2
<1> QED
  BY <1>1, <1>2, <1>3, <1>4 DEF Run, a, b

\* What comes next can be put behind.
LEMMA RunJoin ==
    ASSUME NEW q \in Seq(ByteRecord), NEW r \in Seq(ByteRecord), NEW n \in Nat,
           Run(q, n), Run(r, n + Len(q))
    PROVE  /\ q \o r \in Seq(ByteRecord) /\ Len(q \o r) = Len(q) + Len(r)
           /\ Run(q \o r, n)
<1> DEFINE t == q \o r
<1>1. /\ t \in Seq(ByteRecord) /\ Len(t) = Len(q) + Len(r)
      /\ \A i \in 1..Len(t) : t[i] = IF i <= Len(q) THEN q[i] ELSE r[i - Len(q)]
  OBVIOUS
<1> HIDE DEF t
<1>2. ASSUME NEW i \in 1..Len(t) PROVE t[i] = ByteAt(n + i)
  <2>1. CASE i <= Len(q)
    BY <1>1, <2>1 DEF Run
  <2>2. CASE i > Len(q)
    <3>1. i - Len(q) \in 1..Len(r) /\ (n + Len(q)) + (i - Len(q)) = n + i
      BY <1>1, <2>2
    <3> QED
      BY <1>1, <2>2, <3>1 DEF Run
  <2> QED
    BY <1>1, <2>1, <2>2
<1> QED
  BY <1>1, <1>2 DEF Run, t

LEMMA RunAppend ==
    ASSUME NEW q \in Seq(ByteRecord), NEW n \in Nat, Run(q, n), NEW b,
           b = ByteAt(n + Len(q) + 1)
    PROVE  /\ Append(q, b) \in Seq(ByteRecord) /\ Len(Append(q, b)) = Len(q) + 1
           /\ Run(Append(q, b), n)
<1>1. b \in ByteRecord
  BY Bytes
<1> DEFINE t == Append(q, b)
<1>2. /\ t \in Seq(ByteRecord) /\ Len(t) = Len(q) + 1
      /\ \A i \in 1..Len(t) : t[i] = IF i <= Len(q) THEN q[i] ELSE b
  BY <1>1
<1> HIDE DEF t
<1>3. ASSUME NEW i \in 1..Len(t) PROVE t[i] = ByteAt(n + i)
  <2>1. CASE i <= Len(q)
    BY <1>2, <2>1 DEF Run
  <2>2. CASE i > Len(q)
    <3>1. i = Len(q) + 1 /\ n + i = n + Len(q) + 1
      BY <1>2, <2>2
    <3> QED
      BY <1>2, <2>2, <3>1
  <2> QED
    BY <1>2, <2>1, <2>2
<1> QED
  BY <1>2, <1>3 DEF Run, t

LEMMA RunHead == HeadBytes \in Seq(ByteRecord) /\ Len(HeadBytes) = HeadLen /\ Run(HeadBytes, 0)
<1>1. \A k \in 1..HeadLen : [part |-> "head", k |-> k] \in ByteRecord
  BY HeadLength DEF ByteRecord
<1>2. HeadBytes \in Seq(ByteRecord) /\ Len(HeadBytes) = HeadLen
  BY <1>1, HeadLength DEF HeadBytes
<1>3. ASSUME NEW i \in 1..HeadLen PROVE HeadBytes[i] = ByteAt(0 + i)
  BY <1>3, HeadLength DEF HeadBytes, ByteAt
<1> QED
  BY <1>2, <1>3 DEF Run

LEMMA RunEmpty == \A n \in Nat : <<>> \in Seq(ByteRecord) /\ Len(<<>>) = 0 /\ Run(<<>>, n)
BY DEF Run

-----------------------------------------------------------------------------
(* One direction of the connection *)

\* How many bytes may have been split off: none, the empty lines, the whole head.
Bases == {0, 1, HeadLen}

LEMMA BasesAre == Bases \subseteq Nat /\ 0 \in Bases /\ 1 \in Bases /\ HeadLen \in Bases
BY HeadLength DEF Bases

\* The bytes a sender has put out, total of them, are in order in four places: got by the
\* receiver, g, in its buffer, b, on their way, n, and in the sender's buffer, o, behind
\* the base bytes that have been split off. What is along the way is in order; the whole of
\* it is there unless the sender has closed the connection.
Along(g, b, n, base, total) ==
    /\ base \in Bases /\ (base # HeadLen => Len(g) = 0)
    /\ Run(g, base) /\ Run(b, base + Len(g)) /\ Run(n, base + Len(g) + Len(b))
    /\ base + Len(g) + Len(b) + Len(n) <= total

Whole(g, b, n, o, base, total) ==
    /\ Run(o, base + Len(g) + Len(b) + Len(n))
    /\ base + Len(g) + Len(b) + Len(n) + Len(o) = total

\* What the sender has in its buffer goes out.
LEMMA FlowFlush ==
    ASSUME NEW g \in Seq(ByteRecord), NEW b \in Seq(ByteRecord),
           NEW n \in Seq(ByteRecord), NEW o \in Seq(ByteRecord), NEW base, NEW total \in Nat,
           Along(g, b, n, base, total), Whole(g, b, n, o, base, total), NEW m \in 1..Len(o)
    PROVE  LET n1 == n \o SubSeq(o, 1, m)
               o1 == SubSeq(o, m + 1, Len(o)) IN
           /\ n1 \in Seq(ByteRecord) /\ o1 \in Seq(ByteRecord) /\ Len(o1) = Len(o) - m
           /\ Along(g, b, n1, base, total) /\ Whole(g, b, n1, o1, base, total)
<1> DEFINE a == SubSeq(o, 1, m)
           n1 == n \o a
           o1 == SubSeq(o, m + 1, Len(o))
           k == base + Len(g) + Len(b)
<1>1. base \in Nat
  BY BasesAre DEF Along
<1>2. /\ Len(g) \in Nat /\ Len(b) \in Nat /\ Len(n) \in Nat /\ Len(o) \in Nat /\ m \in 0..Len(o)
      /\ k \in Nat /\ k + Len(n) \in Nat
  BY <1>1
<1>3. Run(n, k) /\ Run(o, k + Len(n)) /\ k + Len(n) + Len(o) = total
  BY DEF Along, Whole
<1> HIDE DEF k
<1>4. /\ a \in Seq(ByteRecord) /\ Len(a) = m /\ Run(a, k + Len(n))
      /\ o1 \in Seq(ByteRecord) /\ Len(o1) = Len(o) - m /\ Run(o1, k + Len(n) + m)
  BY <1>2, <1>3, RunCut
<1> HIDE DEF a, o1
<1>5. n1 \in Seq(ByteRecord) /\ Len(n1) = Len(n) + m /\ Run(n1, k)
  BY <1>2, <1>3, <1>4, RunJoin
<1> HIDE DEF n1
<1>6. k + Len(n1) = k + Len(n) + m
  BY <1>2, <1>5
<1>7. k + Len(n1) + Len(o1) = total /\ k + Len(n1) <= total
  <2>1. Len(o1) = Len(o) - m /\ Len(n1) = Len(n) + m /\ k + Len(n) + Len(o) = total
    BY <1>3, <1>4, <1>5
  <2>2. Len(o1) \in Nat /\ Len(n1) \in Nat
    BY <1>4, <1>5
  <2> QED
    <3>1. k + Len(n1) + Len(o1) = k + Len(n) + Len(o)
      BY <1>2, <2>1
    <3>2. k + Len(n1) <= k + Len(n1) + Len(o1)
      BY <1>2, <2>2
    <3> QED
      BY <2>1, <3>1, <3>2
<1>8. Along(g, b, n1, base, total) /\ Whole(g, b, n1, o1, base, total)
  BY <1>4, <1>5, <1>6, <1>7 DEF Along, Whole, k
<1> QED
  BY <1>4, <1>5, <1>8 DEF n1, a, o1

\* The receiver reads.
LEMMA FlowRead ==
    ASSUME NEW g \in Seq(ByteRecord), NEW b \in Seq(ByteRecord),
           NEW n \in Seq(ByteRecord), NEW o \in Seq(ByteRecord), NEW base, NEW total \in Nat,
           Along(g, b, n, base, total), NEW m \in 1..Len(n)
    PROVE  LET b1 == b \o SubSeq(n, 1, m)
               n1 == SubSeq(n, m + 1, Len(n)) IN
           /\ b1 \in Seq(ByteRecord) /\ n1 \in Seq(ByteRecord)
           /\ Along(g, b1, n1, base, total)
           /\ Whole(g, b, n, o, base, total) => Whole(g, b1, n1, o, base, total)
<1> DEFINE a == SubSeq(n, 1, m)
           b1 == b \o a
           n1 == SubSeq(n, m + 1, Len(n))
           k == base + Len(g)
<1>1. base \in Nat
  BY BasesAre DEF Along
<1>2. /\ Len(g) \in Nat /\ Len(b) \in Nat /\ Len(n) \in Nat /\ Len(o) \in Nat /\ m \in 0..Len(n)
      /\ k \in Nat /\ k + Len(b) \in Nat
  BY <1>1
<1>3. Run(b, k) /\ Run(n, k + Len(b)) /\ k + Len(b) + Len(n) <= total
  BY DEF Along
<1> HIDE DEF k
<1>4. /\ a \in Seq(ByteRecord) /\ Len(a) = m /\ Run(a, k + Len(b))
      /\ n1 \in Seq(ByteRecord) /\ Len(n1) = Len(n) - m /\ Run(n1, k + Len(b) + m)
  BY <1>2, <1>3, RunCut
<1> HIDE DEF a, n1
<1>5. b1 \in Seq(ByteRecord) /\ Len(b1) = Len(b) + m /\ Run(b1, k)
  BY <1>2, <1>3, <1>4, RunJoin
<1> HIDE DEF b1
<1>6. k + Len(b1) = k + Len(b) + m /\ k + Len(b1) + Len(n1) = k + Len(b) + Len(n)
  BY <1>2, <1>4, <1>5
<1>7. Run(n1, k + Len(b1)) /\ k + Len(b1) + Len(n1) <= total
  BY <1>3, <1>4, <1>6
<1>8. Along(g, b1, n1, base, total)
  BY <1>5, <1>7 DEF Along, k
<1>9. ASSUME Whole(g, b, n, o, base, total) PROVE Whole(g, b1, n1, o, base, total)
  BY <1>6, <1>9 DEF Whole, k
<1> QED
  BY <1>4, <1>5, <1>8, <1>9 DEF b1, a, n1

\* The receiver splits what comes before the next base off its buffer.
LEMMA FlowSplit ==
    ASSUME NEW g \in Seq(ByteRecord), NEW b \in Seq(ByteRecord),
           NEW n \in Seq(ByteRecord), NEW o \in Seq(ByteRecord), NEW base, NEW total \in Nat,
           Along(g, b, n, base, total), base # HeadLen, NEW next \in Bases,
           NEW m \in 0..Len(b), base + m = next
    PROVE  LET b1 == SubSeq(b, m + 1, Len(b)) IN
           /\ b1 \in Seq(ByteRecord)
           /\ Along(g, b1, n, next, total)
           /\ Whole(g, b, n, o, base, total) => Whole(g, b1, n, o, next, total)
<1> DEFINE b1 == SubSeq(b, m + 1, Len(b))
<1>1. /\ Len(g) = 0 /\ Len(b) \in Nat /\ Len(n) \in Nat /\ Len(o) \in Nat
      /\ base \in Nat /\ next \in Nat /\ m \in Nat
  BY BasesAre DEF Along
<1>2. Run(b, base)
  BY <1>1 DEF Along
<1>3. b1 \in Seq(ByteRecord) /\ Len(b1) = Len(b) - m /\ Run(b1, next)
  BY <1>1, <1>2, RunCut
<1> HIDE DEF b1
<1>4. next + Len(g) = next /\ next + Len(g) + Len(b1) = base + Len(g) + Len(b)
  BY <1>1, <1>3
<1>5. Run(g, next)
  BY <1>1 DEF Run
<1>6. Along(g, b1, n, next, total)
  BY <1>1, <1>3, <1>4, <1>5 DEF Along
<1>7. ASSUME Whole(g, b, n, o, base, total) PROVE Whole(g, b1, n, o, next, total)
  BY <1>4, <1>7 DEF Whole
<1> QED
  BY <1>3, <1>6, <1>7 DEF b1

\* The receiver takes a byte of data.
LEMMA FlowTake ==
    ASSUME NEW g \in Seq(ByteRecord), NEW b \in Seq(ByteRecord),
           NEW n \in Seq(ByteRecord), NEW o \in Seq(ByteRecord), NEW total \in Nat,
           Along(g, b, n, HeadLen, total), b # <<>>
    PROVE  LET g1 == Append(g, b[1])
               b1 == Tail(b) IN
           /\ g1 \in Seq(ByteRecord) /\ b1 \in Seq(ByteRecord)
           /\ Along(g1, b1, n, HeadLen, total)
           /\ Whole(g, b, n, o, HeadLen, total) => Whole(g1, b1, n, o, HeadLen, total)
<1> DEFINE g1 == Append(g, b[1])
           b1 == Tail(b)
           k == HeadLen + Len(g)
<1>1. /\ Len(g) \in Nat /\ Len(b) \in Nat /\ Len(n) \in Nat /\ Len(o) \in Nat
      /\ 1 \in 1..Len(b) /\ HeadLen \in Nat /\ HeadLen > 0 /\ k \in Nat
      /\ HeadLen \in Bases
  BY HeadLength, BasesAre
<1>2. Run(g, HeadLen) /\ Run(b, k)
  BY DEF Along
<1>3. b[1] = ByteAt(HeadLen + Len(g) + 1)
  BY <1>1, <1>2 DEF Run
<1>4. g1 \in Seq(ByteRecord) /\ Len(g1) = Len(g) + 1 /\ Run(g1, HeadLen)
  BY <1>1, <1>2, <1>3, RunAppend
<1>5. b1 \in Seq(ByteRecord) /\ Len(b1) = Len(b) - 1 /\ \A i \in 1..Len(b1) : b1[i] = b[1 + i]
  BY <1>1
<1> HIDE DEF g1, b1
<1>6. Run(b1, HeadLen + Len(g1))
  <2> SUFFICES ASSUME NEW i \in 1..Len(b1) PROVE b1[i] = ByteAt((HeadLen + Len(g1)) + i)
    BY DEF Run
  <2>1. 1 + i \in 1..Len(b) /\ k + (1 + i) = (HeadLen + Len(g1)) + i
    BY <1>1, <1>4, <1>5
  <2> QED
    BY <1>2, <1>5, <2>1 DEF Run
<1>7. HeadLen + Len(g1) + Len(b1) = HeadLen + Len(g) + Len(b)
  BY <1>1, <1>4, <1>5
<1>8. Along(g1, b1, n, HeadLen, total)
  BY <1>1, <1>4, <1>6, <1>7 DEF Along
<1>9. ASSUME Whole(g, b, n, o, HeadLen, total) PROVE Whole(g1, b1, n, o, HeadLen, total)
  BY <1>7, <1>9 DEF Whole
<1> QED
  BY <1>4, <1>5, <1>8, <1>9 DEF g1, b1

\* The sender closes the connection, and the last bytes may be lost.
LEMMA FlowClose ==
    ASSUME NEW g \in Seq(ByteRecord), NEW b \in Seq(ByteRecord),
           NEW n \in Seq(ByteRecord), NEW o \in Seq(ByteRecord), NEW base, NEW total \in Nat,
           Along(g, b, n, base, total), NEW m \in 0..Len(n)
    PROVE  SubSeq(n, 1, m) \in Seq(ByteRecord) /\ Along(g, b, SubSeq(n, 1, m), base, total)
<1> DEFINE n1 == SubSeq(n, 1, m)
           k == base + Len(g) + Len(b)
<1>1. base \in Nat
  BY BasesAre DEF Along
<1>2. Len(g) \in Nat /\ Len(b) \in Nat /\ Len(n) \in Nat /\ k \in Nat
  BY <1>1
<1>3. Run(n, k) /\ k + Len(n) <= total
  BY DEF Along
<1> HIDE DEF k
<1>4. n1 \in Seq(ByteRecord) /\ Len(n1) = m /\ Run(n1, k)
  BY <1>2, <1>3, RunCut
<1> HIDE DEF n1
<1>5. k + Len(n1) <= total
  BY <1>2, <1>3, <1>4
<1>6. Along(g, b, n1, base, total)
  BY <1>4, <1>5 DEF Along, k
<1> QED
  BY <1>4, <1>6 DEF n1

\* Before the head is sent there is nothing on the way.
LEMMA FlowStill ==
    ASSUME NEW g \in Seq(ByteRecord), NEW b \in Seq(ByteRecord),
           NEW n \in Seq(ByteRecord), NEW o \in Seq(ByteRecord), NEW base, Along(g, b, n, base, 0)
    PROVE  /\ base = 0 /\ Len(g) = 0 /\ Len(b) = 0 /\ Len(n) = 0
           /\ Whole(g, b, n, o, base, 0) => Len(o) = 0
<1>1. /\ Len(g) \in Nat /\ Len(b) \in Nat /\ Len(n) \in Nat /\ Len(o) \in Nat /\ base \in Nat
  BY BasesAre DEF Along
<1>2. base + Len(g) + Len(b) + Len(n) <= 0
  BY DEF Along
<1>3. Whole(g, b, n, o, base, 0) => base + Len(g) + Len(b) + Len(n) + Len(o) = 0
  BY DEF Whole
<1> QED
  BY <1>1, <1>2, <1>3

\* The head is put into the buffer of a sender of this crate, or onto the way by another.
LEMMA FlowHead ==
    ASSUME NEW g \in Seq(ByteRecord), NEW b \in Seq(ByteRecord),
           NEW n \in Seq(ByteRecord), NEW o \in Seq(ByteRecord), NEW base,
           Along(g, b, n, base, 0), Whole(g, b, n, o, base, 0)
    PROVE  LET n1 == n \o HeadBytes IN
           /\ HeadBytes \in Seq(ByteRecord) /\ n1 \in Seq(ByteRecord)
           /\ Along(g, b, n, base, HeadLen) /\ Whole(g, b, n, HeadBytes, base, HeadLen)
           /\ Along(g, b, n1, base, HeadLen) /\ Whole(g, b, n1, o, base, HeadLen)
<1> DEFINE n1 == n \o HeadBytes
<1>1. base = 0 /\ Len(g) = 0 /\ Len(b) = 0 /\ Len(n) = 0 /\ Len(o) = 0
  BY FlowStill
<1>2. HeadBytes \in Seq(ByteRecord) /\ Len(HeadBytes) = HeadLen /\ Run(HeadBytes, 0)
  BY RunHead
<1>3. n1 \in Seq(ByteRecord) /\ Len(n1) = HeadLen /\ Run(n1, 0)
  <2>1. Run(n, 0) /\ 0 + Len(n) = 0
    BY <1>1 DEF Run
  <2>2. n1 \in Seq(ByteRecord) /\ Len(n1) = Len(n) + Len(HeadBytes) /\ Run(n1, 0)
    BY <1>2, <2>1, RunJoin
  <2> QED
    BY <1>1, <1>2, <2>2, HeadLength
<1> HIDE DEF n1
<1>4. Run(g, 0) /\ Run(b, 0) /\ Run(n, 0) /\ Run(o, HeadLen)
  BY <1>1 DEF Run
<1>5. Along(g, b, n, base, HeadLen) /\ Whole(g, b, n, HeadBytes, base, HeadLen)
  BY <1>1, <1>2, <1>4, HeadLength DEF Along, Whole
<1>6. Along(g, b, n1, base, HeadLen) /\ Whole(g, b, n1, o, base, HeadLen)
  BY <1>1, <1>3, <1>4, HeadLength DEF Along, Whole
<1> QED
  BY <1>2, <1>3, <1>5, <1>6 DEF n1

\* A byte of data is sent.
LEMMA FlowData ==
    ASSUME NEW g \in Seq(ByteRecord), NEW b \in Seq(ByteRecord),
           NEW n \in Seq(ByteRecord), NEW o \in Seq(ByteRecord), NEW base, NEW d \in Nat,
           Along(g, b, n, base, HeadLen + d), Whole(g, b, n, o, base, HeadLen + d), o = <<>>
    PROVE  LET n1 == Append(n, DataByte(d + 1)) IN
           /\ n1 \in Seq(ByteRecord)
           /\ Along(g, b, n1, base, HeadLen + (d + 1))
           /\ Whole(g, b, n1, o, base, HeadLen + (d + 1))
<1> DEFINE n1 == Append(n, DataByte(d + 1))
           k == base + Len(g) + Len(b)
<1>1. base \in Nat
  BY BasesAre DEF Along
<1>2. /\ Len(g) \in Nat /\ Len(b) \in Nat /\ Len(n) \in Nat /\ k \in Nat /\ Len(o) = 0
      /\ HeadLen \in Nat
  BY <1>1, HeadLength
<1>3. Run(n, k) /\ k + Len(n) + Len(o) = HeadLen + d
  BY DEF Along, Whole
<1> HIDE DEF k
<1>4. DataByte(d + 1) = ByteAt(k + Len(n) + 1)
  <2>1. k + Len(n) + 1 > HeadLen /\ (k + Len(n) + 1) - HeadLen = d + 1
    <3>1. k \in Nat /\ Len(n) \in Nat /\ HeadLen \in Nat /\ k + Len(n) = HeadLen + d
      BY <1>2, <1>3
    <3> QED
      BY <3>1
  <2> QED
    BY <1>2, <2>1 DEF ByteAt
<1>5. n1 \in Seq(ByteRecord) /\ Len(n1) = Len(n) + 1 /\ Run(n1, k)
  BY <1>2, <1>3, <1>4, RunAppend
<1> HIDE DEF n1
<1>6. /\ k + Len(n1) + Len(o) = HeadLen + (d + 1) /\ k + Len(n1) <= HeadLen + (d + 1)
      /\ Run(o, k + Len(n1))
  BY <1>2, <1>3, <1>5 DEF Run
<1>7. Along(g, b, n1, base, HeadLen + (d + 1)) /\ Whole(g, b, n1, o, base, HeadLen + (d + 1))
  BY <1>5, <1>6 DEF Along, Whole, k
<1> QED
  BY <1>5, <1>7 DEF n1

\* All that has reached the receiver or is on its way to it.
LEMMA FlowCome ==
    ASSUME NEW g \in Seq(ByteRecord), NEW b \in Seq(ByteRecord),
           NEW n \in Seq(ByteRecord), NEW o \in Seq(ByteRecord), NEW base, NEW total \in Nat,
           Along(g, b, n, base, total)
    PROVE  LET come == g \o b \o n IN
           /\ come \in Seq(ByteRecord) /\ Run(come, base)
           /\ base + Len(come) <= total /\ base + Len(b) <= total
           /\ Whole(g, b, n, o, base, total) =>
                 base + Len(come) + Len(o) = total /\ base + Len(b) + Len(o) <= total
<1> DEFINE a == g \o b
           come == a \o n
<1>1. base \in Nat
  BY BasesAre DEF Along
<1>2. Len(g) \in Nat /\ Len(b) \in Nat /\ Len(n) \in Nat /\ Len(o) \in Nat
  OBVIOUS
<1>3. /\ Run(g, base) /\ Run(b, base + Len(g)) /\ Run(n, base + Len(g) + Len(b))
      /\ base + Len(g) + Len(b) + Len(n) <= total
  BY DEF Along
<1>4. a \in Seq(ByteRecord) /\ Len(a) = Len(g) + Len(b) /\ Run(a, base)
  BY <1>1, <1>3, RunJoin
<1> HIDE DEF a
<1>5. base + Len(g) + Len(b) = base + Len(a)
  BY <1>1, <1>2, <1>4
<1>6. come \in Seq(ByteRecord) /\ Len(come) = Len(a) + Len(n) /\ Run(come, base)
  BY <1>1, <1>3, <1>4, <1>5, RunJoin
<1> HIDE DEF come
<1>7. base + Len(come) = base + Len(g) + Len(b) + Len(n)
  BY <1>1, <1>2, <1>4, <1>6
<1>8. base + Len(b) <= base + Len(g) + Len(b) + Len(n)
  BY <1>1, <1>2
<1>9. base + Len(b) <= total
  BY <1>1, <1>2, <1>3, <1>8
<1>10. ASSUME Whole(g, b, n, o, base, total)
       PROVE  base + Len(come) + Len(o) = total /\ base + Len(b) + Len(o) <= total
  <2>1. base + Len(g) + Len(b) + Len(n) + Len(o) = total
    BY <1>10 DEF Whole
  <2>2. base + Len(b) + Len(o) <= base + Len(g) + Len(b) + Len(n) + Len(o)
    BY <1>1, <1>2
  <2> QED
    BY <1>7, <2>1, <2>2
<1> QED
  BY <1>3, <1>6, <1>7, <1>9, <1>10 DEF come, a

\* It is what is left of the head, then data, when d bytes of data have been sent.
LEMMA ComeInOrder ==
    ASSUME NEW come \in Seq(ByteRecord), NEW base \in Bases, Run(come, base),
           NEW d \in Nat
    PROVE  LET h == HeadLen - base IN
           /\ h \in {0, HeadLen - 1, HeadLen} /\ (base = HeadLen => h = 0)
           /\ \A i \in DOMAIN come :
                 come[i] = IF i <= h THEN HeadBytes[HeadLen - h + i] ELSE DataByte(i - h)
           /\ base + Len(come) <= HeadLen + d => Len(come) <= h + d
           /\ base + Len(come) = HeadLen + d => Len(come) = h + d
<1> DEFINE h == HeadLen - base
<1>1. /\ h \in {0, HeadLen - 1, HeadLen} /\ HeadLen \in Nat /\ base \in Nat /\ h \in Nat
      /\ h + base = HeadLen /\ HeadLen - h = base
  BY HeadLength DEF Bases
<1> HIDE DEF h
<1>2. Len(come) \in Nat /\ DOMAIN come = 1..Len(come)
  OBVIOUS
<1>3. ASSUME NEW i \in 1..Len(come)
      PROVE  come[i] = IF i <= h THEN HeadBytes[HeadLen - h + i] ELSE DataByte(i - h)
  <2>1. come[i] = ByteAt(base + i) /\ i \in Nat /\ i > 0
    BY <1>2 DEF Run
  <2>2. CASE i <= h
    <3>1. base + i \in 1..HeadLen /\ HeadLen - h + i = base + i
      BY <1>1, <2>1, <2>2
    <3> QED
      BY <1>1, <2>1, <2>2, <3>1 DEF ByteAt, HeadBytes
  <2>3. CASE i > h
    <3>1. base + i > HeadLen /\ (base + i) - HeadLen = i - h
      BY <1>1, <2>1, <2>3
    <3> QED
      BY <1>1, <2>1, <2>3, <3>1 DEF ByteAt
  <2> QED
    BY <1>1, <2>1, <2>2, <2>3
<1>4. /\ base + Len(come) <= HeadLen + d => Len(come) <= h + d
      /\ base + Len(come) = HeadLen + d => Len(come) = h + d
  <2> DEFINE L == Len(come)
  <2>1. L \in Nat /\ h \in Nat /\ base \in Nat /\ HeadLen = h + base
    BY <1>1, <1>2
  <2> HIDE DEF L
  <2>2. base + L <= HeadLen + d => L <= h + d
    BY <2>1
  <2>3. base + L = HeadLen + d => L = h + d
    BY <2>1
  <2> QED
    BY <2>2, <2>3 DEF L
<1>5. base = HeadLen => h = 0
  BY <1>1
<1> QED
  BY <1>1, <1>2, <1>3, <1>4, <1>5 DEF h

-----------------------------------------------------------------------------
(* Types *)

Heads == {NoHead} \cup Requests \cup Responses

ClientStates ==
    {"foreign", "start", "sending", "waiting", "open", "closed", "failed", "panicked"}
ServerStates ==
    {"foreign", "reading", "parked", "upgraded", "accepting", "rejecting", "open", "closed",
     "rejected", "refused", "dropped", "failed", "panicked"}
States == ClientStates \cup ServerStates

Types ==
    /\ foreign \subseteq Side /\ gone \subseteq Side
    /\ pc \in [Side -> States]
    /\ head \in [Side -> Heads]
    /\ sent \in [Side -> Nat]
    /\ out \in [Side -> Seq(ByteRecord)] /\ net \in [Side -> Seq(ByteRecord)]
    /\ buf \in [Side -> Seq(ByteRecord)] /\ got \in [Side -> Seq(ByteRecord)]

\* Any program's head is a head, and not the lack of one.
LEMMA HeadsThere ==
    /\ \A h \in Requests \cup Responses : h # NoHead
    /\ BuiltRequests \subseteq Requests
    /\ ForeignRequests \subseteq Requests /\ ForeignResponses \subseteq Responses
    /\ BadRequest \in Responses
<1>1. \A h \in Requests \cup Responses : h # NoHead
  BY DEF Requests, Responses, NoHead
<1>2. ASSUME NEW h \in BuiltRequests PROVE h \in Requests
  <2>1. PICK key \in Keys \cup {Absent, Malformed}, version \in {Absent, "13", "other", Opaque} :
            h = BuildRequest(key, version)
    BY DEF BuiltRequests
  <2>2. {"websocket"} \in SUBSET Protocols \cup {{Opaque}}
        /\ {"upgrade"} \in SUBSET Options \cup {{Opaque}}
    BY DEF Protocols, Options
  <2> QED
    BY <2>1, <2>2 DEF BuildRequest, Requests
<1>3. BadRequest \in Responses
  BY DEF BadRequest, Responses
<1> QED
  BY <1>1, <1>2, <1>3, HeadAssumption

LEMMA AcceptedHead ==
    ASSUME NEW request, request.key \in Keys, NEW custom
    PROVE  PrepareHeaders(request, custom) \in Responses
<1>1. {"h2c"} \in SUBSET Protocols /\ {"websocket"} \in SUBSET Protocols
  BY DEF Protocols
<1> QED
  BY <1>1 DEF PrepareHeaders, Responses

LEMMA Sides ==
    /\ Side = {"client", "server"}
    /\ Peer["client"] = "server" /\ Peer["server"] = "client"
    /\ \A s \in Side : Peer[s] \in Side /\ Peer[s] # s /\ Peer[Peer[s]] = s
BY DEF Side, Peer

LEMMA Afters ==
    /\ DOMAIN After = {"sending", "accepting", "rejecting"}
    /\ After["sending"] = "waiting" /\ After["accepting"] = "open"
    /\ After["rejecting"] = "rejected"
BY DEF After

LEMMA CloseTyped ==
    ASSUME Types, NEW s \in Side, Close(s)
    PROVE  gone' \subseteq Side /\ net' \in [Side -> Seq(ByteRecord)]
<1>1. PICK n \in 0..Len(net[Peer[s]]) : net' = [net EXCEPT ![Peer[s]] = SubSeq(@, 1, n)]
  BY DEF Close
<1>2. Peer[s] \in Side /\ net[Peer[s]] \in Seq(ByteRecord)
  BY Sides DEF Types
<1>3. SubSeq(net[Peer[s]], 1, n) \in Seq(ByteRecord)
  BY <1>2
<1> QED
  BY <1>1, <1>2, <1>3 DEF Close, Types

LEMMA EncodeTyped ==
    ASSUME Types, NEW s \in Side, NEW h \in Heads, Encode(s, h)
    PROVE  head' \in [Side -> Heads] /\ out' \in [Side -> Seq(ByteRecord)]
BY RunHead DEF Encode, Types

LEMMA SplitTyped ==
    ASSUME Types, NEW s \in Side, SplitHead(s), HasHead(s)
    PROVE  buf' \in [Side -> Seq(ByteRecord)]
<1>1. buf[s] \in Seq(ByteRecord) /\ Left(s) \in Nat /\ Left(s) <= Len(buf[s])
  BY HeadLength DEF Types, HasHead, Left
<1>2. SubSeq(buf[s], Left(s) + 1, Len(buf[s])) \in Seq(ByteRecord)
  BY <1>1
<1> QED
  BY <1>2 DEF SplitHead, Types

LEMMA InitTyped == Init => Types
<1> SUFFICES ASSUME Init PROVE Types
  OBVIOUS
<1>1. foreign \subseteq Side /\ gone \subseteq Side
  BY DEF Init, Side
<1>2. pc \in [Side -> States]
  BY DEF Init, States, ClientStates, ServerStates
<1>3. head \in [Side -> Heads] /\ sent \in [Side -> Nat]
  BY DEF Init, Heads
<1>4. [s \in Side |-> <<>>] \in [Side -> Seq(ByteRecord)]
  OBVIOUS
<1> QED
  BY <1>1, <1>2, <1>3, <1>4 DEF Init, Types

LEMMA StateSet ==
    /\ \A s \in Side : Types => pc[s] \in States
    /\ {"foreign", "start", "sending", "waiting", "open", "closed", "failed", "panicked",
        "reading", "parked", "upgraded", "accepting", "rejecting", "rejected", "refused",
        "dropped"} = States
BY DEF Types, States, ClientStates, ServerStates

LEMMA WorksTyped ==
    ASSUME Types, NEW s \in Side,
           Works(s) \/ SendsData(s) \/ GivesUp(s) \/ Leaves(s) \/ ForeignHead(s)
    PROVE  Types'
<1>1. ASSUME NEW n \in 1..Len(out[s]), Flush(s, n) PROVE Types'
  <2>1. out[s] \in Seq(ByteRecord) /\ net[Peer[s]] \in Seq(ByteRecord) /\ Peer[s] \in Side
    BY Sides DEF Types
  <2>2. SubSeq(out[s], n + 1, Len(out[s])) \in Seq(ByteRecord)
        /\ net[Peer[s]] \o SubSeq(out[s], 1, n) \in Seq(ByteRecord)
    BY <2>1
  <2>3. After[pc[s]] \in States
    BY <1>1, Afters, StateSet DEF Flush
  <2> QED
    BY <1>1, <2>1, <2>2, <2>3 DEF Flush, Types
<1>2. ASSUME NEW n \in 1..Len(net[s]), Read(s, n) PROVE Types'
  <2>1. net[s] \in Seq(ByteRecord) /\ buf[s] \in Seq(ByteRecord)
    BY DEF Types
  <2>2. SubSeq(net[s], n + 1, Len(net[s])) \in Seq(ByteRecord)
        /\ buf[s] \o SubSeq(net[s], 1, n) \in Seq(ByteRecord)
    BY <2>1
  <2>3. pc' \in [Side -> States]
    BY <1>2, StateSet DEF Read, Types
  <2> QED
    BY <1>2, <2>2, <2>3 DEF Read, Types
<1>3. CASE SendFails(s) \/ ReadEof(s) \/ GivesUp(s) \/ Leaves(s)
  <2>1. /\ pc' \in [Side -> States]
    BY <1>3, StateSet DEF SendFails, ReadEof, GivesUp, Leaves, Types
  <2>2. Close(s) \/ UNCHANGED <<net, gone>>
    BY <1>3 DEF SendFails, ReadEof, GivesUp, Leaves
  <2>3. gone' \subseteq Side /\ net' \in [Side -> Seq(ByteRecord)]
    BY <2>2, CloseTyped DEF Types
  <2>4. UNCHANGED <<foreign, head, out, buf, sent, got>>
    BY <1>3 DEF SendFails, ReadEof, GivesUp, Leaves
  <2> QED
    BY <2>1, <2>3, <2>4 DEF Types
<1>4. CASE TakesData(s)
  <2>1. buf[s] \in Seq(ByteRecord) /\ buf[s] # <<>> /\ got[s] \in Seq(ByteRecord)
    BY <1>4 DEF TakesData, Types
  <2>2. Append(got[s], buf[s][1]) \in Seq(ByteRecord) /\ Tail(buf[s]) \in Seq(ByteRecord)
    BY <2>1
  <2> QED
    BY <1>4, <2>2 DEF TakesData, Types
<1>5. CASE SendsData(s)
  <2>1. Append(net[Peer[s]], DataByte(sent[s] + 1)) \in Seq(ByteRecord)
    <3>1. DataByte(sent[s] + 1) \in ByteRecord
      BY DEF Types, DataByte, ByteRecord
    <3>2. net[Peer[s]] \in Seq(ByteRecord)
      BY Sides DEF Types
    <3> QED
      BY <3>1, <3>2
  <2>2. net' \in [Side -> Seq(ByteRecord)]
    BY <1>5, <2>1, Sides DEF SendsData, Types
  <2>3. sent' \in [Side -> Nat]
    BY <1>5 DEF SendsData, Types
  <2> QED
    BY <1>5, <2>2, <2>3 DEF SendsData, Types
<1>6. CASE ForeignHead(s)
  <2>1. PICK h \in ForeignRequests \cup ForeignResponses : head' = [head EXCEPT ![s] = h]
    BY <1>6 DEF ForeignHead
  <2>2. net[Peer[s]] \o HeadBytes \in Seq(ByteRecord) /\ Peer[s] \in Side
    BY Sides, RunHead DEF Types
  <2> QED
    BY <1>6, <2>1, <2>2, HeadsThere DEF ForeignHead, Types, Heads
<1> QED
  BY <1>1, <1>2, <1>3, <1>4, <1>5, <1>6 DEF Works

LEMMA HandshakeTyped ==
    ASSUME Types, Handshake
    PROVE  Types'
<1>0. "client" \in Side /\ "server" \in Side
  BY Sides
<1>1. CASE AsyncConnectOn
  <2>1. ASSUME NEW request \in BuiltRequests, Encode("client", request), UNCHANGED <<net, gone>>
        PROVE  Types'
    <3>1. head' \in [Side -> Heads] /\ out' \in [Side -> Seq(ByteRecord)]
      BY <1>0, <2>1, HeadsThere, EncodeTyped DEF Heads
    <3> QED
      BY <1>1, <2>1, <3>1, StateSet DEF AsyncConnectOn, Types
  <2>2. ASSUME Close("client"), UNCHANGED <<head, out>> PROVE Types'
    <3>1. gone' \subseteq Side /\ net' \in [Side -> Seq(ByteRecord)]
      BY <1>0, <2>2, CloseTyped
    <3> QED
      BY <1>1, <2>2, <3>1, StateSet DEF AsyncConnectOn, Types
  <2> QED
    BY <1>1, <2>1, <2>2 DEF AsyncConnectOn
<1>2. CASE ClientGetsResponse
  <2>1. gone' \subseteq Side /\ net' \in [Side -> Seq(ByteRecord)]
    BY <1>0, <1>2, CloseTyped DEF ClientGetsResponse, Types
  <2>2. buf' \in [Side -> Seq(ByteRecord)]
    BY <1>0, <1>2, SplitTyped DEF ClientGetsResponse
  <2> QED
    BY <1>2, <2>1, <2>2, StateSet DEF ClientGetsResponse, Types
<1>3. CASE IntoWs \/ RefuseRequest \/ IntoWsPanics
  <2>1. gone' \subseteq Side /\ net' \in [Side -> Seq(ByteRecord)]
    BY <1>0, <1>3, CloseTyped DEF IntoWs, RefuseRequest, IntoWsPanics, Panic, Types
  <2>2. buf' \in [Side -> Seq(ByteRecord)]
    BY <1>0, <1>3, SplitTyped DEF IntoWs, RefuseRequest, IntoWsPanics
  <2> QED
    BY <1>3, <2>1, <2>2, StateSet DEF IntoWs, RefuseRequest, IntoWsPanics, Panic, Types
<1>4. ASSUME NEW custom, Accept(custom) PROVE Types'
  <2>1. CASE head["client"].key \in Keys
    <3>1. head' \in [Side -> Heads] /\ out' \in [Side -> Seq(ByteRecord)]
      BY <1>0, <1>4, <2>1, AcceptedHead, EncodeTyped DEF Accept, Heads
    <3> QED
      BY <1>4, <2>1, <3>1, StateSet DEF Accept, Types
  <2>2. CASE head["client"].key \notin Keys
    <3>1. gone' \subseteq Side /\ net' \in [Side -> Seq(ByteRecord)]
      BY <1>0, <1>4, <2>2, CloseTyped DEF Accept, Panic
    <3> QED
      BY <1>4, <2>2, <3>1, StateSet DEF Accept, Panic, Types
  <2> QED
    BY <2>1, <2>2
<1>5. CASE Reject
  <2>1. head' \in [Side -> Heads] /\ out' \in [Side -> Seq(ByteRecord)]
    BY <1>0, <1>5, HeadsThere, EncodeTyped DEF Reject, Heads
  <2> QED
    BY <1>5, <2>1, StateSet DEF Reject, Types
<1>6. CASE Drop
  <2>1. gone' \subseteq Side /\ net' \in [Side -> Seq(ByteRecord)]
    BY <1>0, <1>6, CloseTyped DEF Drop
  <2> QED
    BY <1>6, <2>1, StateSet DEF Drop, Types
<1>7. CASE SkipsEmptyLines
  <2>1. buf["server"] \in Seq(ByteRecord) /\ buf["server"] # <<>>
    BY <1>0, <1>7 DEF SkipsEmptyLines, EmptyLinesFirst, Types
  <2>2. SubSeq(buf["server"], 2, Len(buf["server"])) \in Seq(ByteRecord)
    BY <2>1
  <2> QED
    BY <1>7, <2>2, StateSet DEF SkipsEmptyLines, Types
<1>8. CASE ParkedEof
  BY <1>8, StateSet DEF ParkedEof, Types
<1> QED
  BY <1>1, <1>2, <1>3, <1>4, <1>5, <1>6, <1>7, <1>8 DEF Handshake, Decide

\* The state keeps its types.
THEOREM HandshakeTypes == Spec => []Types
<1>1. Types /\ [Next]_vars => Types'
  BY WorksTyped, HandshakeTyped DEF Next, vars, Types
<1> QED
  BY InitTyped, <1>1, PTL DEF Spec

-----------------------------------------------------------------------------
(* Each side on its own *)

Acts(s) ==
    \/ Works(s) \/ SendsData(s) \/ GivesUp(s) \/ Leaves(s) \/ ForeignHead(s)
    \/ s = "client" /\ (AsyncConnectOn \/ ClientGetsResponse)
    \/ s = "server" /\ (SkipsEmptyLines \/ ParkedEof)
    \/ s = "server" /\ (IntoWs \/ RefuseRequest \/ IntoWsPanics \/ Decide)

LEMMA NextActs == Next => \E s \in Side : Acts(s)
BY Sides DEF Next, Handshake, Acts

\* A step of one side leaves what the other keeps as it is.
LEMMA OnlyItsOwn ==
    ASSUME Types, NEW s \in Side, Acts(s), NEW c \in Side \ {s}
    PROVE  /\ pc'[c] = pc[c] /\ head'[c] = head[c] /\ sent'[c] = sent[c] /\ out'[c] = out[c]
           /\ buf'[c] = buf[c] /\ got'[c] = got[c]
           /\ c \in gone' <=> c \in gone
           /\ foreign' = foreign
<1>1. CASE Works(s)
  BY <1>1 DEF Works, Flush, SendFails, Read, ReadEof, TakesData, Close, Types
<1>2. CASE SendsData(s) \/ GivesUp(s) \/ Leaves(s) \/ ForeignHead(s)
  BY <1>2 DEF SendsData, GivesUp, Leaves, ForeignHead, Close, Types
<1>3. CASE s = "client" /\ (AsyncConnectOn \/ ClientGetsResponse)
  BY <1>3 DEF AsyncConnectOn, ClientGetsResponse, Close, Encode, SplitHead, Types
<1>4. CASE s = "server" /\ (IntoWs \/ RefuseRequest \/ IntoWsPanics \/ Decide)
  BY <1>4 DEF IntoWs, RefuseRequest, IntoWsPanics, Decide, Accept, Reject, Drop, Panic, Close,
              Encode, SplitHead, Types
<1>5. CASE s = "server" /\ (SkipsEmptyLines \/ ParkedEof)
  BY <1>5 DEF SkipsEmptyLines, ParkedEof, Types
<1> QED
  BY <1>1, <1>2, <1>3, <1>4, <1>5 DEF Acts

Sending == {"sending", "accepting", "rejecting"}
Ended   == {"closed", "failed", "panicked", "refused", "rejected", "dropped"}

\* What a side's place in the handshake says of its head, its buffer and its end.
Control(c) ==
    /\ pc[c] = "foreign" <=> c \in foreign
    /\ pc[c] \in IF c = "client" THEN ClientStates ELSE ServerStates
    /\ pc[c] \in Sending => out[c] # <<>> /\ sent[c] = 0
    /\ pc[c] \notin Sending /\ c \notin gone => out[c] = <<>>
    /\ head[c] = NoHead => sent[c] = 0
    /\ pc[c] \in {"start", "reading", "parked", "upgraded"} => head[c] = NoHead
    /\ pc[c] \in Sending \cup {"waiting", "open"} => head[c] # NoHead
    /\ c \in gone => pc[c] \in Ended \cup {"foreign"}

LEMMA InitControl == Init => \A c \in Side : Control(c)
BY DEF Init, Control, Side, Sending, Ended, ClientStates, ServerStates

\* A side that closes goes to one of the ends; one that sends its head, to sending it.
LEMMA ControlKept ==
    ASSUME Types, NEW s \in Side, Control(s), Acts(s)
    PROVE  Control(s)'
<1> DEFINE mine == IF s = "client" THEN ClientStates ELSE ServerStates
<1>1. ASSUME NEW n \in 1..Len(out[s]), Flush(s, n) PROVE Control(s)'
  <2>1. out[s] \in Seq(ByteRecord) /\ out'[s] = SubSeq(out[s], n + 1, Len(out[s]))
    BY <1>1 DEF Flush, Types
  <2>2. out'[s] = <<>> <=> n = Len(out[s])
    <3> DEFINE o1 == SubSeq(out[s], n + 1, Len(out[s]))
    <3>1. o1 \in Seq(ByteRecord) /\ Len(o1) = Len(out[s]) - n
      BY <2>1
    <3> HIDE DEF o1
    <3>2. o1 = <<>> <=> Len(o1) = 0
      BY <3>1
    <3>3. Len(o1) = 0 <=> n = Len(out[s])
      BY <2>1, <3>1
    <3> QED
      BY <2>1, <3>2, <3>3 DEF o1
  <2>3. pc[s] \in Sending /\ s \notin gone /\ pc[s] \notin Ended
    BY <1>1, Afters DEF Flush, Control, Sending, Ended
  <2>4. pc'[s] = IF n = Len(out[s]) THEN After[pc[s]] ELSE pc[s]
    BY <1>1 DEF Flush, Types
  <2>5. head'[s] = head[s] /\ sent'[s] = sent[s] /\ gone' = gone /\ foreign' = foreign
    BY <1>1 DEF Flush
  <2>6. CASE n = Len(out[s])
    <3>1. pc'[s] = After[pc[s]] /\ out'[s] = <<>>
      BY <2>2, <2>4, <2>6
    <3>2. pc'[s] \in {"waiting", "open", "rejected"} /\ pc'[s] \in mine
      BY <2>3, <3>1, Afters DEF Control, Sending, ClientStates, ServerStates
    <3> QED
      BY <2>3, <2>5, <3>1, <3>2 DEF Control, Sending
  <2>7. CASE n # Len(out[s])
    BY <2>2, <2>3, <2>4, <2>5, <2>7 DEF Control
  <2> QED
    BY <2>6, <2>7
<1>2. CASE SendFails(s) \/ ReadEof(s)
  BY <1>2, Afters
     DEF SendFails, ReadEof, Idle, Close, Control, Sending, Ended, ClientStates, ServerStates,
         Types
<1>3. CASE GivesUp(s) \/ Leaves(s)
  BY <1>3 DEF GivesUp, Leaves, Close, Control, Sending, Ended, ClientStates, ServerStates, Types
<1>4. ASSUME NEW n, Read(s, n) \/ TakesData(s) PROVE Control(s)'
  <2>1. pc'[s] = pc[s] \/ (pc[s] = "parked" /\ pc'[s] = "reading")
    BY <1>4 DEF Read, TakesData, Types
  <2>2. UNCHANGED <<foreign, head, out, sent, gone>>
    BY <1>4 DEF Read, TakesData
  <2> QED
    BY <2>1, <2>2 DEF Control, Sending, Ended, ClientStates, ServerStates
<1>5. CASE SendsData(s)
  BY <1>5 DEF SendsData, Control, Sending, Types
<1>6. CASE ForeignHead(s)
  <2>1. PICK h \in ForeignRequests \cup ForeignResponses : head' = [head EXCEPT ![s] = h]
    BY <1>6 DEF ForeignHead
  <2>2. head'[s] # NoHead
    BY <2>1, HeadsThere DEF Types
  <2> QED
    BY <1>6, <2>2 DEF ForeignHead, Control, Sending
<1>7. CASE s = "client" /\ AsyncConnectOn
  <2>1. ASSUME NEW request \in BuiltRequests, Encode("client", request), gone' = gone,
               pc' = [pc EXCEPT !["client"] = "sending"]
        PROVE  Control(s)'
    <3>1. head'[s] # NoHead /\ out'[s] = HeadBytes /\ HeadBytes # <<>>
      BY <1>7, <2>1, HeadsThere, RunHead, HeadLength DEF Encode, Types
    <3>2. sent[s] = 0 /\ s \notin gone
      BY <1>7 DEF AsyncConnectOn, Control, Ended
    <3> QED
      BY <1>7, <2>1, <3>1, <3>2 DEF AsyncConnectOn, Control, Sending, ClientStates, Types
  <2>2. ASSUME Close("client"), head' = head, out' = out,
               pc' = [pc EXCEPT !["client"] = "panicked"]
        PROVE  Control(s)'
    BY <1>7, <2>2 DEF AsyncConnectOn, Close, Control, Sending, Ended, ClientStates, Types
  <2> QED
    BY <1>7, <2>1, <2>2 DEF AsyncConnectOn
<1>8. CASE s = "client" /\ ClientGetsResponse
  BY <1>8 DEF ClientGetsResponse, Close, Control, Sending, Ended, ClientStates, Types
<1>9. CASE s = "server" /\ (IntoWs \/ RefuseRequest \/ IntoWsPanics)
  BY <1>9 DEF IntoWs, RefuseRequest, IntoWsPanics, Panic, Close, Control, Sending, Ended,
              ServerStates, Types
<1>10. CASE s = "server" /\ Decide
  <2>1. ASSUME NEW custom, Accept(custom) PROVE Control(s)'
    <3>1. CASE head["client"].key \in Keys
      <4>1. head'[s] # NoHead /\ out'[s] = HeadBytes /\ HeadBytes # <<>>
        <5>1. PrepareHeaders(head["client"], custom) # NoHead
          BY <3>1, AcceptedHead, HeadsThere
        <5> QED
          BY <1>10, <2>1, <3>1, <5>1, RunHead, HeadLength DEF Accept, Encode, Types
      <4>2. sent[s] = 0 /\ s \notin gone
        BY <1>10, <2>1 DEF Accept, Control, Ended
      <4> QED
        BY <1>10, <2>1, <3>1, <4>1, <4>2 DEF Accept, Control, Sending, ServerStates, Types
    <3>2. CASE head["client"].key \notin Keys
      BY <1>10, <2>1, <3>2 DEF Accept, Panic, Close, Control, Sending, Ended, ServerStates, Types
    <3> QED
      BY <3>1, <3>2
  <2>2. CASE Reject
    <3>1. head'[s] # NoHead /\ out'[s] = HeadBytes /\ HeadBytes # <<>>
      BY <1>10, <2>2, HeadsThere, RunHead, HeadLength DEF Reject, Encode, Types
    <3>2. sent[s] = 0 /\ s \notin gone
      BY <1>10, <2>2 DEF Reject, Control, Ended
    <3> QED
      BY <1>10, <2>2, <3>1, <3>2 DEF Reject, Control, Sending, ServerStates, Types
  <2>3. CASE Drop
    BY <1>10, <2>3 DEF Drop, Close, Control, Sending, Ended, ServerStates, Types
  <2> QED
    BY <1>10, <2>1, <2>2, <2>3 DEF Decide
<1>11. CASE s = "server" /\ (SkipsEmptyLines \/ ParkedEof)
  BY <1>11 DEF SkipsEmptyLines, ParkedEof, Control, Sending, Ended, ServerStates, Types
<1> QED
  BY <1>1, <1>2, <1>3, <1>4, <1>5, <1>6, <1>7, <1>8, <1>9, <1>10, <1>11 DEF Acts, Works

LEMMA ControlInvariant == Spec => [](\A c \in Side : Control(c))
<1>1. Types /\ (\A c \in Side : Control(c)) /\ [Next]_vars => (\A c \in Side : Control(c))'
  <2> SUFFICES ASSUME Types, \A c \in Side : Control(c), [Next]_vars, NEW c \in Side
               PROVE  Control(c)'
    OBVIOUS
  <2>1. ASSUME NEW s \in Side, Acts(s) PROVE Control(c)'
    <3>1. CASE c = s
      BY <2>1, <3>1, ControlKept
    <3>2. CASE c # s
      BY <2>1, <3>2, OnlyItsOwn DEF Control
    <3> QED
      BY <3>1, <3>2
  <2>2. CASE UNCHANGED vars
    BY <2>2 DEF vars, Control
  <2> QED
    BY <2>1, <2>2, NextActs
<1> QED
  BY InitControl, HandshakeTypes, <1>1, PTL DEF Spec

-----------------------------------------------------------------------------
(* The bytes between the two sides *)

\* How many bytes a side has put out.
Total(p) == IF head[p] = NoHead THEN 0 ELSE HeadLen + sent[p]

Before == {"foreign", "start", "sending", "waiting", "reading", "parked"}
Behind == {"upgraded", "accepting", "open"}

\* What c has received of the other side's bytes and what is on its way, when the first
\* base bytes have been split off.
FlowAt(c, base) ==
    /\ Along(got[c], buf[c], net[c], base, Total(Peer[c]))
    /\ Peer[c] \notin gone =>
          Whole(got[c], buf[c], net[c], out[Peer[c]], base, Total(Peer[c]))
    /\ pc[c] \in Before => base # HeadLen
    /\ pc[c] \in Behind => base = HeadLen

Flow(c) == \E base \in Bases : FlowAt(c, base)

\* The byte at the front of the buffer tells how much has been split off.
LEMMA FrontIs ==
    ASSUME NEW c \in Side, buf[c] \in Seq(ByteRecord), buf[c] # <<>>, NEW base \in Bases,
           FlowAt(c, base), pc[c] \in Before
    PROVE  /\ buf[c][1] = HeadBytes[1] <=> base = 0
           /\ Left(c) = HeadLen - base
<1>1. base \in {0, 1} /\ base + 1 <= HeadLen
  BY HeadLength DEF FlowAt, Bases
<1>2. buf[c][1] = ByteAt(base + 1)
  <2>1. Len(got[c]) = 0
    BY DEF FlowAt, Along
  <2>2. Run(buf[c], base) /\ 1 \in 1..Len(buf[c])
    BY <1>1, <2>1 DEF FlowAt, Along
  <2> QED
    BY <2>2 DEF Run
<1>3. buf[c][1] = [part |-> "head", k |-> base + 1] /\ HeadBytes[1] = [part |-> "head", k |-> 1]
  BY <1>1, <1>2, HeadLength DEF ByteAt, HeadBytes
<1>4. buf[c][1] = HeadBytes[1] <=> base = 0
  BY <1>1, <1>3
<1> QED
  BY <1>1, <1>4, HeadLength DEF Left

LEMMA TotalTyped == Types => \A p \in Side : Total(p) \in Nat
BY HeadLength DEF Types, Total

LEMMA PlacesTyped ==
    ASSUME Types, NEW c \in Side
    PROVE  /\ got[c] \in Seq(ByteRecord) /\ buf[c] \in Seq(ByteRecord)
           /\ net[c] \in Seq(ByteRecord) /\ out[Peer[c]] \in Seq(ByteRecord)
           /\ Peer[c] \in Side /\ Peer[c] # c /\ Total(Peer[c]) \in Nat
BY Sides, TotalTyped DEF Types

\* A step of the receiver.
LEMMA ReceiverStep ==
    ASSUME Types, NEW c \in Side, Control(c), Flow(c), Acts(c)
    PROVE  Flow(c)'
<1> DEFINE p == Peer[c]
<1>1. PICK base \in Bases : FlowAt(c, base)
  BY DEF Flow
<1>2. /\ got[c] \in Seq(ByteRecord) /\ buf[c] \in Seq(ByteRecord)
      /\ net[c] \in Seq(ByteRecord) /\ out[p] \in Seq(ByteRecord)
      /\ p \in Side /\ p # c /\ Total(p) \in Nat
  BY PlacesTyped
<1>3. out'[p] = out[p] /\ Total(p)' = Total(p) /\ (p \in gone' <=> p \in gone)
  BY <1>2, OnlyItsOwn DEF Total
<1> HIDE DEF p
<1>4. ASSUME NEW m \in 1..Len(net[c]), Read(c, m) PROVE Flow(c)'
  <2>1. /\ buf'[c] = buf[c] \o SubSeq(net[c], 1, m)
        /\ net'[c] = SubSeq(net[c], m + 1, Len(net[c]))
        /\ got' = got /\ (pc'[c] = pc[c] \/ (pc[c] = "parked" /\ pc'[c] = "reading"))
    BY <1>4 DEF Read, Types
  <2>1a. /\ Along(got[c], buf[c], net[c], base, Total(p))
         /\ p \notin gone => Whole(got[c], buf[c], net[c], out[p], base, Total(p))
    BY <1>1 DEF FlowAt, p
  <2>1b. /\ Along(got[c], buf'[c], net'[c], base, Total(p))
         /\ Whole(got[c], buf[c], net[c], out[p], base, Total(p))
               => Whole(got[c], buf'[c], net'[c], out[p], base, Total(p))
    <3> DEFINE total == Total(p)
               g == got[c]
               b == buf[c]
               n == net[c]
               o == out[p]
    <3>1. /\ g \in Seq(ByteRecord) /\ b \in Seq(ByteRecord) /\ n \in Seq(ByteRecord)
          /\ o \in Seq(ByteRecord) /\ total \in Nat /\ m \in 1..Len(n)
          /\ Along(g, b, n, base, total)
          /\ buf'[c] = b \o SubSeq(n, 1, m) /\ net'[c] = SubSeq(n, m + 1, Len(n))
      BY <1>2, <2>1, <2>1a
    <3> HIDE DEF total, g, b, n, o
    <3> DEFINE b1 == b \o SubSeq(n, 1, m)
               n1 == SubSeq(n, m + 1, Len(n))
    <3>2. /\ Along(g, b1, n1, base, total)
          /\ Whole(g, b, n, o, base, total) => Whole(g, b1, n1, o, base, total)
      BY <3>1, FlowRead
    <3>3. buf'[c] = b1 /\ net'[c] = n1
      BY <3>1
    <3> QED
      BY <3>2, <3>3 DEF total, g, b, n, o
  <2>2. Along(got[c], buf'[c], net'[c], base, Total(p))
    BY <2>1b
  <2>3. p \notin gone => Whole(got[c], buf'[c], net'[c], out[p], base, Total(p))
    BY <2>1a, <2>1b
  <2>4. (pc'[c] \in Before => pc[c] \in Before) /\ (pc'[c] \in Behind => pc[c] \in Behind)
    BY <2>1 DEF Before, Behind
  <2> QED
    BY <1>1, <1>3, <2>1, <2>2, <2>3, <2>4 DEF Flow, FlowAt, p
<1>5. CASE TakesData(c)
  <2>1. /\ got'[c] = Append(got[c], buf[c][1]) /\ buf'[c] = Tail(buf[c]) /\ buf[c] # <<>>
        /\ net' = net /\ pc' = pc /\ pc[c] = "open"
    BY <1>5 DEF TakesData, Types
  <2>2. base = HeadLen
    BY <1>1, <2>1 DEF FlowAt, Behind
  <2>3. Along(got'[c], buf'[c], net[c], HeadLen, Total(p))
    BY <1>1, <1>2, <2>1, <2>2, FlowTake DEF FlowAt, p
  <2>4. p \notin gone => Whole(got'[c], buf'[c], net[c], out[p], HeadLen, Total(p))
    BY <1>1, <1>2, <2>1, <2>2, FlowTake DEF FlowAt, p
  <2> QED
    BY <1>1, <1>3, <2>1, <2>2, <2>3, <2>4 DEF Flow, FlowAt, p
<1>6. ASSUME NEW next \in Bases, NEW m \in 0..Len(buf[c]), base + m = next,
             buf'[c] = SubSeq(buf[c], m + 1, Len(buf[c])), pc[c] \in Before,
             net'[c] = net[c], got'[c] = got[c],
             pc'[c] \in Before => next # HeadLen, pc'[c] \in Behind => next = HeadLen
      PROVE  Flow(c)'
  <2>1. base # HeadLen
    BY <1>1, <1>6 DEF FlowAt
  <2>2. Along(got[c], buf'[c], net[c], next, Total(p))
    BY <1>1, <1>2, <1>6, <2>1, FlowSplit DEF FlowAt, p
  <2>3. p \notin gone => Whole(got[c], buf'[c], net[c], out[p], next, Total(p))
    BY <1>1, <1>2, <1>6, <2>1, FlowSplit DEF FlowAt, p
  <2>4. FlowAt(c, next)'
    BY <1>3, <1>6, <2>2, <2>3 DEF FlowAt, p
  <2> QED
    BY <2>4 DEF Flow
<1>6a. ASSUME SplitHead(c), HasHead(c), pc[c] \in Before, net'[c] = net[c], got'[c] = got[c],
              pc'[c] \notin Before
       PROVE  Flow(c)'
  <2>1. buf[c] # <<>> /\ Len(buf[c]) >= Left(c) /\ Left(c) = HeadLen - base
    BY <1>1, <1>2, <1>6a, FrontIs DEF HasHead
  <2>2. base \in Nat /\ HeadLen \in Nat /\ base <= HeadLen /\ HeadLen \in Bases
    BY HeadLength DEF Bases
  <2>3. Left(c) \in 0..Len(buf[c]) /\ base + Left(c) = HeadLen
    BY <1>2, <2>1, <2>2
  <2>4. buf'[c] = SubSeq(buf[c], Left(c) + 1, Len(buf[c]))
    BY <1>6a DEF SplitHead, Types
  <2> QED
    BY <1>6, <1>6a, <2>2, <2>3, <2>4
<1>7. ASSUME got'[c] = got[c], buf'[c] = buf[c], net'[c] = net[c],
             pc'[c] \in Before => pc[c] \in Before, pc'[c] \in Behind => pc[c] \in Behind
      PROVE  Flow(c)'
  BY <1>1, <1>3, <1>7 DEF Flow, FlowAt, p
<1>8. ASSUME NEW m, Flush(c, m) PROVE Flow(c)'
  <2>1. got' = got /\ buf' = buf /\ net'[c] = net[c]
    BY <1>2, <1>8 DEF Flush, Types, p
  <2>2. pc'[c] = pc[c] \/ (pc[c] \in Sending /\ pc'[c] = After[pc[c]])
    BY <1>8, Afters DEF Flush, Types, Sending
  <2> QED
    BY <1>7, <2>1, <2>2, Afters DEF Before, Behind, Sending
<1>9. CASE SendFails(c) \/ ReadEof(c) \/ GivesUp(c) \/ Leaves(c) \/ SendsData(c) \/ ForeignHead(c)
  <2>1. got' = got /\ buf' = buf /\ net'[c] = net[c]
    BY <1>2, <1>9 DEF SendFails, ReadEof, GivesUp, Leaves, SendsData, ForeignHead, Close, Types, p
  <2>2. pc'[c] = pc[c] \/ pc'[c] \in {"failed", "refused", "closed"}
    BY <1>9 DEF SendFails, ReadEof, GivesUp, Leaves, SendsData, ForeignHead, Types
  <2> QED
    BY <1>7, <2>1, <2>2 DEF Before, Behind
<1>10. CASE c = "client" /\ AsyncConnectOn
  <2>1. got' = got /\ buf' = buf /\ net'[c] = net[c]
    BY <1>2, <1>10 DEF AsyncConnectOn, Close, Types, p
  <2>2. pc[c] = "start" /\ pc'[c] \in {"sending", "panicked"}
    BY <1>10 DEF AsyncConnectOn, Types
  <2> QED
    BY <1>7, <2>1, <2>2 DEF Before, Behind
<1>11. CASE c = "client" /\ ClientGetsResponse
  <2>1. /\ SplitHead(c) /\ HasHead(c) /\ pc[c] \in Before /\ got' = got
        /\ pc'[c] \in {"open", "panicked", "failed"}
    BY <1>11 DEF ClientGetsResponse, Before, Types
  <2>2. net'[c] = net[c]
    BY <1>2, <1>11 DEF ClientGetsResponse, Close, Types, p
  <2> QED
    BY <1>6a, <2>1, <2>2 DEF Before
<1>12. CASE c = "server" /\ (IntoWs \/ RefuseRequest \/ IntoWsPanics)
  <2>1. /\ SplitHead(c) /\ HasHead(c) /\ pc[c] \in Before /\ got' = got
        /\ pc'[c] \in {"upgraded", "refused", "panicked"}
    BY <1>12 DEF IntoWs, RefuseRequest, IntoWsPanics, Panic, Before, Types
  <2>2. net'[c] = net[c]
    BY <1>2, <1>12 DEF IntoWs, RefuseRequest, IntoWsPanics, Panic, Close, Types, p
  <2> QED
    BY <1>6a, <2>1, <2>2 DEF Before
<1>13. CASE c = "server" /\ Decide
  <2>1. got' = got /\ buf' = buf /\ net'[c] = net[c]
    BY <1>2, <1>13 DEF Decide, Accept, Reject, Drop, Panic, Close, Types, p
  <2>2. pc[c] = "upgraded" /\ pc'[c] \in {"accepting", "panicked", "rejecting", "dropped"}
    BY <1>13 DEF Decide, Accept, Reject, Drop, Panic, Types
  <2> QED
    BY <1>7, <2>1, <2>2 DEF Before, Behind
<1>14. CASE c = "server" /\ SkipsEmptyLines
  <2>1. /\ buf[c] # <<>> /\ buf[c][1] = HeadBytes[1] /\ pc[c] \in Before
        /\ buf'[c] = SubSeq(buf[c], 1 + 1, Len(buf[c]))
        /\ got' = got /\ net' = net /\ pc'[c] = "parked"
    BY <1>14 DEF SkipsEmptyLines, EmptyLinesFirst, Before, Types
  <2>2. base = 0
    BY <1>1, <1>2, <2>1, FrontIs
  <2>3. 1 \in 0..Len(buf[c]) /\ base + 1 = 1 /\ 1 # HeadLen /\ 1 \in Bases
    BY <1>2, <2>1, <2>2, HeadLength, BasesAre
  <2>4. pc'[c] \notin Behind
    BY <2>1 DEF Behind
  <2> QED
    BY <1>6, <2>1, <2>3, <2>4
<1>15. CASE c = "server" /\ ParkedEof
  BY <1>7, <1>15 DEF ParkedEof, Before, Behind, Types
<1> QED
  BY <1>4, <1>5, <1>8, <1>9, <1>10, <1>11, <1>12, <1>13, <1>14, <1>15 DEF Acts, Works

\* A step of the sender.
LEMMA SenderStep ==
    ASSUME Types, NEW c \in Side, Control(Peer[c]), Flow(c), Acts(Peer[c])
    PROVE  Flow(c)'
<1> DEFINE p == Peer[c]
<1>1. PICK base \in Bases : FlowAt(c, base)
  BY DEF Flow
<1>2. /\ got[c] \in Seq(ByteRecord) /\ buf[c] \in Seq(ByteRecord)
      /\ net[c] \in Seq(ByteRecord) /\ out[p] \in Seq(ByteRecord)
      /\ p \in Side /\ p # c /\ Total(p) \in Nat /\ Peer[p] = c
  BY PlacesTyped, Sides
<1>3. got'[c] = got[c] /\ buf'[c] = buf[c] /\ pc'[c] = pc[c]
  BY <1>2, OnlyItsOwn DEF p
<1>4. /\ Along(got[c], buf[c], net[c], base, Total(p))
      /\ p \notin gone => Whole(got[c], buf[c], net[c], out[p], base, Total(p))
      /\ Acts(p) /\ Control(p)
  BY <1>1 DEF FlowAt
<1>5. ASSUME Along(got[c], buf[c], net'[c], base, Total(p)'),
             p \notin gone' => Whole(got[c], buf[c], net'[c], out'[p], base, Total(p)')
      PROVE  Flow(c)'
  BY <1>1, <1>3, <1>5 DEF Flow, FlowAt
<1> HIDE DEF p
<1>6. ASSUME NEW m \in 1..Len(out[p]), Flush(p, m) PROVE Flow(c)'
  <2>1. /\ net'[c] = net[c] \o SubSeq(out[p], 1, m)
        /\ out'[p] = SubSeq(out[p], m + 1, Len(out[p]))
        /\ Total(p)' = Total(p)
    BY <1>2, <1>6 DEF Flush, Types, Total
  <2>2. p \notin gone
    BY <1>4, <1>6, Afters DEF Flush, Control, Ended
  <2>3. /\ Along(got[c], buf[c], net[c] \o SubSeq(out[p], 1, m), base, Total(p))
        /\ Whole(got[c], buf[c], net[c] \o SubSeq(out[p], 1, m),
                 SubSeq(out[p], m + 1, Len(out[p])), base, Total(p))
    BY <1>2, <1>4, <2>2, FlowFlush
  <2> QED
    BY <1>5, <2>1, <2>3
<1>7. ASSUME Close(p), head' = head, sent' = sent PROVE Flow(c)'
  <2>1. PICK m \in 0..Len(net[c]) : net'[c] = SubSeq(net[c], 1, m)
    BY <1>2, <1>7 DEF Close, Types
  <2>2. p \in gone' /\ Total(p)' = Total(p)
    BY <1>7 DEF Close, Total
  <2>3. Along(got[c], buf[c], net'[c], base, Total(p))
    BY <1>2, <1>4, <2>1, FlowClose
  <2> QED
    BY <1>5, <2>2, <2>3
<1>8. ASSUME head' = head, sent' = sent, net'[c] = net[c], out' = out, gone' = gone PROVE Flow(c)'
  BY <1>4, <1>5, <1>8 DEF Total
<1>9. CASE \/ SendFails(p) \/ ReadEof(p) \/ GivesUp(p) \/ Leaves(p)
           \/ p = "client" /\ ClientGetsResponse
  <2>1. /\ head' = head /\ sent' = sent /\ out' = out
        /\ Close(p) \/ UNCHANGED <<net, gone>>
    BY <1>9 DEF SendFails, ReadEof, GivesUp, Leaves, ClientGetsResponse
  <2> QED
    BY <1>7, <1>8, <2>1
<1>10. ASSUME NEW m, Read(p, m) \/ TakesData(p) PROVE Flow(c)'
  BY <1>2, <1>8, <1>10 DEF Read, TakesData, Types
<1>11. CASE SendsData(p)
  <2>1. head[p] # NoHead /\ p \notin gone /\ out[p] = <<>>
    BY <1>4, <1>11, Sides DEF SendsData, Control, Sending
  <2>2. /\ net'[c] = Append(net[c], DataByte(sent[p] + 1)) /\ sent[p] \in Nat
        /\ Total(p) = HeadLen + sent[p] /\ Total(p)' = HeadLen + (sent[p] + 1) /\ out' = out
    BY <1>2, <1>11, <2>1 DEF SendsData, Types, Total
  <2>3. /\ Along(got[c], buf[c], net[c], base, HeadLen + sent[p])
        /\ Whole(got[c], buf[c], net[c], out[p], base, HeadLen + sent[p])
    BY <1>4, <2>1, <2>2
  <2> DEFINE n1 == Append(net[c], DataByte(sent[p] + 1))
  <2>4. /\ Along(got[c], buf[c], n1, base, HeadLen + (sent[p] + 1))
        /\ Whole(got[c], buf[c], n1, out[p], base, HeadLen + (sent[p] + 1))
    <3>1. sent[p] \in Nat /\ out[p] = <<>>
      BY <2>1, <2>2
    <3> QED
      BY <1>2, <2>3, <3>1, FlowData
  <2> QED
    BY <1>5, <2>2, <2>4
<1>12. CASE ForeignHead(p)
  <2>1. PICK h \in ForeignRequests \cup ForeignResponses : head' = [head EXCEPT ![p] = h]
    BY <1>12 DEF ForeignHead
  <2>2. head'[p] # NoHead /\ head[p] = NoHead /\ p \notin gone
    BY <1>2, <1>12, <2>1, HeadsThere DEF ForeignHead, Types
  <2>3. Total(p) = 0 /\ Total(p)' = HeadLen
    BY <1>4, <1>12, <2>2, HeadLength DEF Total, Control, ForeignHead
  <2>4. net'[c] = net[c] \o HeadBytes /\ out' = out
    BY <1>2, <1>12 DEF ForeignHead, Types
  <2>5. Along(got[c], buf[c], net[c], base, 0) /\ Whole(got[c], buf[c], net[c], out[p], base, 0)
    BY <1>4, <2>2, <2>3
  <2>6. /\ Along(got[c], buf[c], net'[c], base, HeadLen)
        /\ Whole(got[c], buf[c], net'[c], out[p], base, HeadLen)
    BY <1>2, <2>4, <2>5, FlowHead
  <2> QED
    BY <1>5, <2>3, <2>4, <2>6
<1>13. ASSUME NEW h \in Requests \cup Responses, Encode(p, h),
              head[p] = NoHead, p \notin gone, net' = net, sent' = sent, gone' = gone
       PROVE  Flow(c)'
  <2>1. head'[p] # NoHead /\ out'[p] = HeadBytes
    BY <1>2, <1>13, HeadsThere DEF Encode, Types
  <2>2. Total(p) = 0 /\ Total(p)' = HeadLen
    BY <1>4, <1>13, <2>1, HeadLength DEF Total, Control
  <2>3. Along(got[c], buf[c], net[c], base, 0) /\ Whole(got[c], buf[c], net[c], out[p], base, 0)
    BY <1>4, <1>13, <2>2
  <2>4. /\ Along(got[c], buf[c], net[c], base, HeadLen)
        /\ Whole(got[c], buf[c], net[c], HeadBytes, base, HeadLen)
    BY <1>2, <2>3, FlowHead
  <2> QED
    BY <1>5, <1>13, <2>1, <2>2, <2>4
<1>14. CASE p = "client" /\ AsyncConnectOn
  <2>1. ASSUME NEW request \in BuiltRequests, Encode(p, request), UNCHANGED <<net, gone>>
        PROVE  Flow(c)'
    <3>1. head[p] = NoHead /\ p \notin gone
      BY <1>4, <1>14 DEF AsyncConnectOn, Control, Ended
    <3> QED
      BY <1>13, <1>14, <2>1, <3>1, HeadsThere DEF AsyncConnectOn
  <2>2. ASSUME Close(p), head' = head PROVE Flow(c)'
    BY <1>7, <1>14, <2>2 DEF AsyncConnectOn
  <2> QED
    BY <1>14, <2>1, <2>2 DEF AsyncConnectOn
<1>15. CASE p = "server" /\ (IntoWs \/ RefuseRequest \/ IntoWsPanics)
  <2>1. /\ head' = head /\ sent' = sent /\ out' = out
        /\ Close(p) \/ UNCHANGED <<net, gone>>
    BY <1>15 DEF IntoWs, RefuseRequest, IntoWsPanics, Panic
  <2> QED
    BY <1>7, <1>8, <2>1
<1>16. CASE p = "server" /\ Decide
  <2>1. head[p] = NoHead /\ p \notin gone
    BY <1>4, <1>16 DEF Decide, Accept, Reject, Drop, Control, Ended
  <2>2. ASSUME NEW custom, Accept(custom) PROVE Flow(c)'
    <3>1. CASE head["client"].key \in Keys
      <4>1. PrepareHeaders(head["client"], custom) \in Responses
        BY <3>1, AcceptedHead
      <4> QED
        BY <1>13, <1>16, <2>1, <2>2, <3>1, <4>1 DEF Accept
    <3>2. CASE head["client"].key \notin Keys
      BY <1>7, <1>16, <2>2, <3>2 DEF Accept, Panic
    <3> QED
      BY <3>1, <3>2
  <2>3. CASE Reject
    BY <1>13, <1>16, <2>1, <2>3, HeadsThere DEF Reject
  <2>4. CASE Drop
    BY <1>7, <1>16, <2>4 DEF Drop
  <2> QED
    BY <1>16, <2>2, <2>3, <2>4 DEF Decide
<1>17. CASE p = "server" /\ (SkipsEmptyLines \/ ParkedEof)
  BY <1>8, <1>17 DEF SkipsEmptyLines, ParkedEof
<1> QED
  BY <1>4, <1>6, <1>9, <1>10, <1>11, <1>12, <1>14, <1>15, <1>16, <1>17 DEF Acts, Works

LEMMA InitFlow == Init => \A c \in Side : Flow(c)
<1> SUFFICES ASSUME Init, NEW c \in Side PROVE FlowAt(c, 0)
  BY BasesAre DEF Flow
<1>1. got[c] = <<>> /\ buf[c] = <<>> /\ net[c] = <<>> /\ out[Peer[c]] = <<>>
  BY Sides DEF Init
<1>2. Total(Peer[c]) = 0 /\ pc[c] \notin Behind
  BY Sides DEF Init, Total, Behind
<1> QED
  BY <1>1, <1>2, HeadLength, BasesAre DEF FlowAt, Along, Whole, Run

LEMMA FlowInvariant == Spec => [](\A c \in Side : Flow(c))
<1>1. Types /\ (\A c \in Side : Control(c)) /\ (\A c \in Side : Flow(c)) /\ [Next]_vars
          => (\A c \in Side : Flow(c))'
  <2> SUFFICES ASSUME Types, \A c \in Side : Control(c), \A c \in Side : Flow(c), [Next]_vars,
                      NEW c \in Side
               PROVE  Flow(c)'
    OBVIOUS
  <2>1. ASSUME NEW s \in Side, Acts(s) PROVE Flow(c)'
    <3>1. CASE c = s
      BY <2>1, <3>1, ReceiverStep
    <3>2. CASE c # s
      <4>1. s = Peer[c]
        BY <3>2, Sides
      <4> QED
        BY <2>1, <4>1, SenderStep
    <3> QED
      BY <3>1, <3>2
  <2>2. CASE UNCHANGED vars
    BY <2>2 DEF vars, Flow, FlowAt, Total
  <2> QED
    BY <2>1, <2>2, NextActs
<1> QED
  BY InitFlow, HandshakeTypes, ControlInvariant, <1>1, PTL DEF Spec

\* No byte behind a head is lost on its way to the message codec, nor one of a head taken
\* for a message, whatever the bytes come in.
THEOREM HandoverExact == Spec => []HandoverIsExact
<1>1. Types /\ (\A c \in Side : Control(c)) /\ (\A c \in Side : Flow(c)) => HandoverIsExact
  <2> SUFFICES ASSUME Types, NEW c \in Side \ (foreign \cup gone), Control(c),
                      Control(Peer[c]), Flow(c)
               PROVE  LET come == got[c] \o buf[c] \o net[c] IN
                      \E h \in {0, HeadLen - 1, HeadLen} :
                         /\ pc[c] = "open" => h = 0
                         /\ \A i \in DOMAIN come :
                               come[i] = IF i <= h THEN HeadBytes[HeadLen - h + i]
                                         ELSE DataByte(i - h)
                         /\ Len(come) <= h + sent[Peer[c]]
                         /\ sent[Peer[c]] > 0 /\ Peer[c] \notin gone =>
                               Len(come) = h + sent[Peer[c]]
    BY Sides DEF HandoverIsExact
  <2> DEFINE come == got[c] \o buf[c] \o net[c]
             p == Peer[c]
  <2>1. PICK base \in Bases : FlowAt(c, base)
    BY DEF Flow
  <2>2. /\ got[c] \in Seq(ByteRecord) /\ buf[c] \in Seq(ByteRecord)
        /\ net[c] \in Seq(ByteRecord) /\ out[p] \in Seq(ByteRecord) /\ p \in Side
    BY PlacesTyped
  <2>3. /\ come \in Seq(ByteRecord) /\ Run(come, base)
        /\ base + Len(come) <= Total(p)
        /\ p \notin gone => base + Len(come) + Len(out[p]) = Total(p)
    <3>1. /\ Along(got[c], buf[c], net[c], base, Total(p)) /\ Total(p) \in Nat
          /\ p \notin gone => Whole(got[c], buf[c], net[c], out[p], base, Total(p))
      BY <2>1, PlacesTyped DEF FlowAt
    <3>2. come \in Seq(ByteRecord) /\ Run(come, base) /\ base + Len(come) <= Total(p)
      BY <2>2, <3>1, FlowCome
    <3>3. ASSUME p \notin gone PROVE base + Len(come) + Len(out[p]) = Total(p)
      <4>1. /\ Along(got[c], buf[c], net[c], base, Total(p)) /\ Total(p) \in Nat
            /\ Whole(got[c], buf[c], net[c], out[p], base, Total(p))
        BY <3>1, <3>3
      <4> DEFINE g == got[c]
                 b == buf[c]
                 n == net[c]
                 o == out[p]
                 total == Total(p)
      <4>2. /\ g \in Seq(ByteRecord) /\ b \in Seq(ByteRecord) /\ n \in Seq(ByteRecord)
            /\ o \in Seq(ByteRecord) /\ total \in Nat
            /\ Along(g, b, n, base, total) /\ Whole(g, b, n, o, base, total)
        BY <2>2, <4>1
      <4> HIDE DEF g, b, n, o, total
      <4>3. base + Len(g \o b \o n) + Len(o) = total
        BY <4>2, FlowCome
      <4> QED
        BY <4>3 DEF g, b, n, o, total
    <3> QED
      BY <3>2, <3>3
  <2>4. sent[p] \in Nat /\ (sent[p] > 0 => Total(p) = HeadLen + sent[p])
        /\ Total(p) \in Nat /\ Total(p) <= HeadLen + sent[p]
    <3>1. sent[p] \in Nat
      BY <2>2 DEF Types
    <3>2. Total(p) = IF head[p] = NoHead THEN 0 ELSE HeadLen + sent[p]
      BY DEF Total
    <3>3. head[p] = NoHead => sent[p] = 0
      BY <2>2 DEF Control
    <3> HIDE DEF p
    <3> QED
      BY <3>1, <3>2, <3>3, HeadLength
  <2>5. sent[p] > 0 /\ p \notin gone => Len(out[p]) = 0
    BY <2>2, <2>4 DEF Control
  <2>6. pc[c] = "open" => base = HeadLen
    BY <2>1 DEF FlowAt, Behind
  <2> HIDE DEF come, p
  <2>7. base + Len(come) <= HeadLen + sent[p]
    <3> DEFINE L == Len(come)
    <3>1. L \in Nat /\ base \in Nat /\ HeadLen \in Nat /\ base + L <= Total(p)
      BY <2>3, HeadLength, BasesAre
    <3> HIDE DEF L
    <3>2. base + L <= HeadLen + sent[p]
      BY <2>4, <3>1
    <3> QED
      BY <3>2 DEF L
  <2>8. sent[p] > 0 /\ p \notin gone => base + Len(come) = HeadLen + sent[p]
    <3> DEFINE L == Len(come)
    <3>1. L \in Nat /\ base \in Nat
      BY <2>3, BasesAre
    <3>2. sent[p] > 0 /\ p \notin gone => base + L + 0 = Total(p)
      BY <2>3, <2>5
    <3> HIDE DEF L
    <3> QED
      BY <2>4, <3>1, <3>2 DEF L
  <2> DEFINE h == HeadLen - base
  <2>9. /\ h \in {0, HeadLen - 1, HeadLen} /\ (pc[c] = "open" => h = 0)
        /\ \A i \in DOMAIN come :
              come[i] = IF i <= h THEN HeadBytes[HeadLen - h + i] ELSE DataByte(i - h)
        /\ Len(come) <= h + sent[p]
        /\ sent[p] > 0 /\ p \notin gone => Len(come) = h + sent[p]
    <3>1. /\ come \in Seq(ByteRecord) /\ Run(come, base) /\ sent[p] \in Nat
          /\ base + Len(come) <= HeadLen + sent[p]
      BY <2>3, <2>4, <2>7
    <3>2. /\ h \in {0, HeadLen - 1, HeadLen} /\ (base = HeadLen => h = 0)
          /\ \A i \in DOMAIN come :
                come[i] = IF i <= h THEN HeadBytes[HeadLen - h + i] ELSE DataByte(i - h)
          /\ Len(come) <= h + sent[p]
          /\ base + Len(come) = HeadLen + sent[p] => Len(come) = h + sent[p]
      BY <3>1, ComeInOrder
    <3> HIDE DEF h
    <3> QED
      BY <2>6, <2>8, <3>2
  <2> QED
    BY <2>9 DEF come, p
<1> QED
  BY <1>1, HandshakeTypes, ControlInvariant, FlowInvariant, PTL DEF Spec

-----------------------------------------------------------------------------
(* Two ends of this crate *)

ServerAccepted ==
    /\ head["client"] \in BuiltRequests /\ Valid(head["client"])
    /\ head["client"].key \in Keys
    /\ \E custom \in SUBSET {"accept", "upgrade"} :
          head["server"] = PrepareHeaders(head["client"], custom)

\* What the two heads are at each place of the handshake.
Agreement ==
    /\ head["client"] = NoHead => pc["client"] \in {"start", "panicked"}
    /\ head["client"] # NoHead => head["client"] \in BuiltRequests
    /\ pc["server"] \in {"reading", "parked", "upgraded", "refused", "panicked", "dropped"} =>
          head["server"] = NoHead
    /\ pc["server"] = "upgraded" => head["client"] \in BuiltRequests /\ Valid(head["client"])
    /\ pc["server"] \in {"accepting", "open", "closed"} => ServerAccepted
    /\ pc["server"] \in {"rejecting", "rejected"} => head["server"] = BadRequest
    /\ pc["server"] = "failed" => "client" \in gone
    /\ pc["client"] = "open" => /\ Validate(head["server"], head["client"])
                                /\ pc["server"] \in {"open", "closed"}
    /\ pc["client"] \in {"failed", "panicked"} =>
          \/ head["client"] = NoHead \/ "server" \in gone
          \/ head["server"] # NoHead /\ ~Validate(head["server"], head["client"])

\* A side that finds a whole head in its buffer has been sent one, all of it.
LEMMA HeadWasSent ==
    ASSUME Types, NEW c \in Side, Control(Peer[c]), Flow(c), HasHead(c), pc[c] \in Before
    PROVE  head[Peer[c]] # NoHead /\ pc[Peer[c]] \notin Sending
<1> DEFINE p == Peer[c]
<1>1. PICK base \in Bases : FlowAt(c, base)
  BY DEF Flow
<1>2. /\ base + Len(buf[c]) <= Total(p)
      /\ p \notin gone => base + Len(buf[c]) + Len(out[p]) <= Total(p)
  <2>1. /\ got[c] \in Seq(ByteRecord) /\ buf[c] \in Seq(ByteRecord)
        /\ net[c] \in Seq(ByteRecord) /\ out[p] \in Seq(ByteRecord) /\ Total(p) \in Nat
    BY PlacesTyped
  <2>2. /\ Along(got[c], buf[c], net[c], base, Total(p))
        /\ p \notin gone => Whole(got[c], buf[c], net[c], out[p], base, Total(p))
    BY <1>1 DEF FlowAt
  <2> QED
    BY <2>1, <2>2, FlowCome
<1>3. /\ Len(buf[c]) \in Nat /\ Len(out[p]) \in Nat /\ out[p] \in Seq(ByteRecord)
      /\ HeadLen \in Nat /\ HeadLen > 0 /\ base \in Nat /\ base + Len(buf[c]) >= HeadLen
  <2>1. buf[c] \in Seq(ByteRecord) /\ out[p] \in Seq(ByteRecord)
    BY PlacesTyped
  <2>2. Len(buf[c]) >= HeadLen - base
    BY <1>1, <2>1, FrontIs DEF HasHead
  <2> QED
    BY <2>1, <2>2, HeadLength, BasesAre
<1> HIDE DEF p
<1>4. head[p] # NoHead
  BY <1>2, <1>3 DEF Total
<1>5. ASSUME pc[p] \in Sending PROVE FALSE
  <2>1. p \notin gone /\ sent[p] = 0 /\ out[p] # <<>>
    BY <1>5 DEF Control, Sending, Ended, p
  <2>2. Total(p) = HeadLen
    BY <1>3, <1>4, <2>1 DEF Total
  <2> DEFINE B == base + Len(buf[c])
             O == Len(out[p])
  <2>3. O > 0 /\ O \in Nat /\ B \in Nat /\ B >= HeadLen /\ HeadLen \in Nat
    BY <1>3, <2>1
  <2>4. B + O <= HeadLen
    BY <1>2, <2>1, <2>2
  <2> HIDE DEF B, O
  <2> QED
    BY <2>3, <2>4
<1> QED
  BY <1>4, <1>5 DEF p

LEMMA InitAgreement == Init /\ foreign = {} => Agreement
BY DEF Init, Agreement, Side

\* A step that leaves the heads alone, and takes its side to a place that says no more.
LEMMA AgreementQuiet ==
    ASSUME Types, Agreement, NEW s \in Side, head' = head, gone \subseteq gone',
           pc' = [pc EXCEPT ![s] = pc'[s]],
           \/ pc'[s] = pc[s]
           \/ s = "client" /\ pc[s] \notin {"start", "panicked"} /\ pc'[s] \in {"waiting", "closed"}
           \/ s = "client" /\ pc[s] \notin {"start", "panicked"} /\ pc'[s] = "failed" /\ "server" \in gone
           \/ s = "server" /\ pc[s] = "accepting" /\ pc'[s] = "open"
           \/ s = "server" /\ pc[s] = "rejecting" /\ pc'[s] = "rejected"
           \/ s = "server" /\ pc[s] = "open" /\ pc'[s] = "closed"
           \/ s = "server" /\ pc[s] \in Sending /\ pc'[s] = "failed" /\ "client" \in gone
           \/ s = "server" /\ pc[s] \in {"reading", "parked", "upgraded"}
                           /\ pc'[s] \in {"reading", "parked", "refused", "panicked", "dropped"}
    PROVE  Agreement'
<1>1. CASE s = "client"
  <2>1. pc'["server"] = pc["server"]
    BY <1>1, Sides DEF Types
  <2>2. CASE pc'["client"] = pc["client"]
    BY <1>1, <2>1, <2>2 DEF Agreement, ServerAccepted
  <2>3. CASE pc["client"] \notin {"start", "panicked"} /\ pc'["client"] \in {"waiting", "closed"}
    BY <1>1, <2>1, <2>3 DEF Agreement, ServerAccepted
  <2>4. CASE pc["client"] \notin {"start", "panicked"} /\ pc'["client"] = "failed" /\ "server" \in gone
    BY <1>1, <2>1, <2>4 DEF Agreement, ServerAccepted
  <2> QED
    BY <1>1, <2>2, <2>3, <2>4
<1>2. CASE s = "server"
  <2>1. pc'["client"] = pc["client"]
    BY <1>2, Sides DEF Types
  <2> QED
    BY <1>2, <2>1 DEF Agreement, ServerAccepted, Sending
<1> QED
  BY <1>1, <1>2, Sides

LEMMA AgreementKept ==
    ASSUME Types, \A c \in Side : Control(c), \A c \in Side : Flow(c), foreign = {}, Agreement,
           NEW s \in Side, Acts(s)
    PROVE  Agreement'
<1>0. /\ "client" \in Side /\ "server" \in Side /\ Side = {"client", "server"}
      /\ Peer["client"] = "server" /\ Peer["server"] = "client"
  BY Sides
<1>1. \A c \in Side : pc[c] # "foreign" /\ (c \in gone => pc[c] \in Ended)
  BY DEF Control
<1>2. ASSUME NEW n, Flush(s, n) PROVE Agreement'
  <2>1. /\ head' = head /\ gone' = gone /\ pc' = [pc EXCEPT ![s] = pc'[s]]
        /\ pc'[s] = pc[s] \/ (pc[s] \in Sending /\ pc'[s] = After[pc[s]])
    BY <1>2, Afters DEF Flush, Types, Sending
  <2>2. CASE pc'[s] = pc[s]
    BY <2>1, <2>2, AgreementQuiet
  <2>3. CASE pc[s] \in Sending /\ pc'[s] = After[pc[s]]
    <3>1. pc[s] \in IF s = "client" THEN ClientStates ELSE ServerStates
      BY DEF Control
    <3>2. \/ s = "client" /\ pc[s] \notin {"start", "panicked"} /\ pc'[s] = "waiting"
          \/ s = "server" /\ pc[s] = "accepting" /\ pc'[s] = "open"
          \/ s = "server" /\ pc[s] = "rejecting" /\ pc'[s] = "rejected"
      BY <1>0, <2>3, <3>1, Afters DEF Sending, ClientStates, ServerStates
    <3> QED
      BY <2>1, <3>2, AgreementQuiet
  <2> QED
    BY <2>1, <2>2, <2>3
<1>3. CASE SendFails(s)
  <2>1. /\ head' = head /\ gone \subseteq gone' /\ pc' = [pc EXCEPT ![s] = pc'[s]]
        /\ pc[s] \in Sending /\ pc'[s] = "failed" /\ Peer[s] \in gone
    BY <1>3, Afters DEF SendFails, Close, Types, Sending
  <2>2. \/ s = "client" /\ pc[s] \notin {"start", "panicked"} /\ pc'[s] = "failed" /\ "server" \in gone
        \/ s = "server" /\ pc[s] \in Sending /\ pc'[s] = "failed" /\ "client" \in gone
    BY <1>0, <2>1 DEF Sending
  <2> QED
    BY <2>1, <2>2, AgreementQuiet
<1>4. CASE ReadEof(s)
  <2>1. /\ head' = head /\ gone \subseteq gone' /\ pc' = [pc EXCEPT ![s] = pc'[s]]
        /\ pc[s] \in {"waiting", "reading", "parked"} /\ Peer[s] \in gone
        /\ pc'[s] = IF s = "server" THEN "refused" ELSE "failed"
    BY <1>4 DEF ReadEof, Idle, Close, Types
  <2>2. pc[s] \in IF s = "client" THEN ClientStates ELSE ServerStates
    BY DEF Control
  <2>3. \/ s = "client" /\ pc[s] \notin {"start", "panicked"} /\ pc'[s] = "failed" /\ "server" \in gone
        \/ s = "server" /\ pc[s] \in {"reading", "parked"} /\ pc'[s] = "refused"
    BY <1>0, <2>1, <2>2 DEF ClientStates, ServerStates
  <2> QED
    BY <2>1, <2>3, AgreementQuiet
<1>5. CASE Leaves(s)
  <2>1. /\ head' = head /\ gone \subseteq gone' /\ pc' = [pc EXCEPT ![s] = pc'[s]]
        /\ pc[s] = "open" /\ pc'[s] = "closed"
    BY <1>1, <1>5 DEF Leaves, Close, Types
  <2>2. \/ s = "client" /\ pc[s] \notin {"start", "panicked"} /\ pc'[s] = "closed"
        \/ s = "server" /\ pc[s] = "open" /\ pc'[s] = "closed"
    BY <1>0, <2>1
  <2> QED
    BY <2>1, <2>2, AgreementQuiet
<1>6. ASSUME NEW n, Read(s, n) \/ TakesData(s) \/ SendsData(s) \/ GivesUp(s) PROVE Agreement'
  <2>1. /\ head' = head /\ gone \subseteq gone' /\ pc' = [pc EXCEPT ![s] = pc'[s]]
        /\ pc'[s] = pc[s] \/ (pc[s] = "parked" /\ pc'[s] = "reading")
    BY <1>6 DEF Read, TakesData, SendsData, GivesUp, Close, Types
  <2>2. pc[s] = "parked" => s = "server"
    BY <1>0 DEF Control, ClientStates
  <2> QED
    BY <2>1, <2>2, AgreementQuiet
<1>7. ~ForeignHead(s)
  BY <1>1 DEF ForeignHead
<1>8. CASE s = "client" /\ AsyncConnectOn
  <2>1. head["client"] = NoHead /\ pc["client"] = "start" /\ pc'["server"] = pc["server"]
    BY <1>0, <1>8 DEF AsyncConnectOn, Control, Types
  <2>2. head["client"] \notin BuiltRequests
    BY <2>1, HeadsThere
  <2>3. pc["server"] \notin {"upgraded", "accepting", "open", "closed"}
    BY <2>2 DEF Agreement, ServerAccepted
  <2>4. ASSUME NEW request \in BuiltRequests, Encode("client", request), gone' = gone,
               pc' = [pc EXCEPT !["client"] = "sending"]
        PROVE  Agreement'
    <3>1. /\ head'["client"] = request /\ head'["server"] = head["server"]
          /\ pc'["client"] = "sending" /\ request # NoHead
      BY <1>0, <2>4, HeadsThere DEF Encode, Types
    <3> QED
      BY <2>1, <2>3, <2>4, <3>1 DEF Agreement
  <2>5. ASSUME Close("client"), head' = head, pc' = [pc EXCEPT !["client"] = "panicked"]
        PROVE  Agreement'
    <3>1. gone \subseteq gone' /\ pc'["client"] = "panicked"
      BY <1>0, <2>5 DEF Close, Types
    <3> QED
      BY <2>1, <2>3, <2>5, <3>1 DEF Agreement
  <2> QED
    BY <1>8, <2>4, <2>5 DEF AsyncConnectOn
<1>9. CASE s = "client" /\ ClientGetsResponse
  <2>1. /\ head' = head /\ gone \subseteq gone' /\ pc["client"] = "waiting"
        /\ pc'["server"] = pc["server"] /\ HasHead("client")
    BY <1>0, <1>9 DEF ClientGetsResponse, Close, Types
  <2>2. head["server"] # NoHead /\ pc["server"] \notin Sending
    BY <1>0, <2>1, HeadWasSent DEF Before
  <2>3. CASE Validate(head["server"], head["client"])
    <3>1. pc'["client"] = "open"
      BY <1>0, <1>9, <2>3 DEF ClientGetsResponse, Types
    <3>2. head["server"] # BadRequest
      BY <2>3 DEF Validate, BadRequest
    <3>3. "client" \notin gone
      BY <1>0, <1>1, <2>1 DEF Ended
    <3>4. pc["server"] \in ServerStates /\ pc["server"] # "foreign"
      BY <1>0, <1>1 DEF Control
    <3>5. pc["server"] \in {"open", "closed"}
      BY <2>2, <3>2, <3>3, <3>4 DEF Agreement, ServerStates, Sending
    <3> QED
      BY <2>1, <2>2, <2>3, <3>1, <3>5 DEF Agreement, ServerAccepted
  <2>4. CASE ~Validate(head["server"], head["client"])
    <3>1. pc'["client"] \in {"failed", "panicked"}
      BY <1>0, <1>9, <2>4 DEF ClientGetsResponse, Types
    <3> QED
      BY <2>1, <2>2, <2>4, <3>1 DEF Agreement, ServerAccepted
  <2> QED
    BY <2>3, <2>4
<1>10. CASE s = "server" /\ IntoWs
  <2>1. /\ head' = head /\ gone' = gone /\ pc["server"] = "reading" /\ HasHead("server")
        /\ pc'["client"] = pc["client"] /\ pc'["server"] = "upgraded" /\ Valid(head["client"])
    BY <1>0, <1>10 DEF IntoWs, Types
  <2>2. head["client"] # NoHead
    BY <1>0, <2>1, HeadWasSent DEF Before
  <2> QED
    BY <2>1, <2>2 DEF Agreement
<1>11. CASE s = "server" /\ (RefuseRequest \/ IntoWsPanics)
  <2>1. /\ head' = head /\ gone \subseteq gone' /\ pc' = [pc EXCEPT ![s] = pc'[s]]
        /\ pc[s] = "reading" /\ pc'[s] \in {"refused", "panicked"}
    BY <1>0, <1>11 DEF RefuseRequest, IntoWsPanics, Panic, Close, Types
  <2> QED
    BY <1>11, <2>1, AgreementQuiet
<1>12. ASSUME pc["server"] = "upgraded"
       PROVE  /\ head["server"] = NoHead /\ "server" \notin gone
              /\ pc["client"] \notin {"open", "failed", "panicked"}
  <2>1. head["client"] # NoHead /\ head["server"] = NoHead /\ "server" \notin gone
    BY <1>0, <1>1, <1>12, HeadsThere DEF Agreement, Ended
  <2> QED
    BY <1>12, <2>1 DEF Agreement
<1>13. ASSUME s = "server", NEW custom \in SUBSET {"accept", "upgrade"}, Accept(custom)
       PROVE  Agreement'
  <2>1. pc["server"] = "upgraded"
    BY <1>13 DEF Accept
  <2>2. CASE head["client"].key \in Keys
    <3>1. /\ head'["client"] = head["client"] /\ gone' = gone
          /\ head'["server"] = PrepareHeaders(head["client"], custom)
          /\ pc'["client"] = pc["client"] /\ pc'["server"] = "accepting"
      BY <1>0, <1>13, <2>2 DEF Accept, Encode, Types
    <3>2. ServerAccepted'
      BY <2>1, <2>2, <3>1 DEF Agreement, ServerAccepted
    <3> QED
      BY <1>12, <2>1, <3>1, <3>2 DEF Agreement
  <2>3. CASE head["client"].key \notin Keys
    <3>1. /\ head' = head /\ gone \subseteq gone' /\ pc' = [pc EXCEPT ![s] = pc'[s]]
          /\ pc[s] = "upgraded" /\ pc'[s] = "panicked"
      BY <1>0, <1>13, <2>3 DEF Accept, Panic, Close, Types
    <3> QED
      BY <1>13, <3>1, AgreementQuiet
  <2> QED
    BY <2>2, <2>3
<1>14. CASE s = "server" /\ Reject
  <2>1. /\ head'["client"] = head["client"] /\ head'["server"] = BadRequest /\ gone' = gone
        /\ pc'["client"] = pc["client"] /\ pc'["server"] = "rejecting"
        /\ pc["server"] = "upgraded"
    BY <1>0, <1>14 DEF Reject, Encode, Types
  <2> QED
    BY <1>12, <2>1 DEF Agreement
<1>15. CASE s = "server" /\ Drop
  <2>1. /\ head' = head /\ gone \subseteq gone' /\ pc' = [pc EXCEPT ![s] = pc'[s]]
        /\ pc[s] = "upgraded" /\ pc'[s] = "dropped"
    BY <1>0, <1>15 DEF Drop, Close, Types
  <2> QED
    BY <1>15, <2>1, AgreementQuiet
<1>16. CASE s = "server" /\ (SkipsEmptyLines \/ ParkedEof)
  <2>1. /\ head' = head /\ gone' = gone /\ pc' = [pc EXCEPT ![s] = pc'[s]]
        /\ pc[s] \in {"reading", "parked"} /\ pc'[s] \in {"reading", "parked"}
    BY <1>0, <1>16 DEF SkipsEmptyLines, ParkedEof, Types
  <2> QED
    BY <1>16, <2>1, AgreementQuiet
<1> QED
  BY <1>2, <1>3, <1>4, <1>5, <1>6, <1>7, <1>8, <1>9, <1>10, <1>11, <1>13, <1>14, <1>15, <1>16
  DEF Acts, Works, Decide

Agreed == foreign = {} => Agreement

LEMMA AgreementInvariant == Spec => []Agreed
<1>1. Init => Agreed
  BY InitAgreement DEF Agreed
<1>2. Types /\ (\A c \in Side : Control(c)) /\ (\A c \in Side : Flow(c)) /\ Agreed /\ [Next]_vars
          => Agreed'
  <2> SUFFICES ASSUME Types, \A c \in Side : Control(c), \A c \in Side : Flow(c), Agreed,
                      [Next]_vars
               PROVE  Agreed'
    OBVIOUS
  <2>1. ASSUME NEW s \in Side, Acts(s) PROVE Agreed'
    <3>1. Peer[s] \in Side \ {s}
      BY Sides
    <3>2. foreign' = foreign
      BY <2>1, <3>1, OnlyItsOwn
    <3>3. foreign = {} => Agreement'
      BY <2>1, AgreementKept DEF Agreed
    <3> QED
      BY <3>2, <3>3 DEF Agreed
  <2>2. CASE UNCHANGED vars
    BY <2>2 DEF vars, Agreed, Agreement, ServerAccepted
  <2> QED
    BY <2>1, <2>2, NextActs
<1> QED
  BY <1>1, <1>2, HandshakeTypes, ControlInvariant, FlowInvariant, PTL DEF Spec

\* Between two ends of this crate the client is open only if the server has accepted this
\* client's own request, with its key.
THEOREM OpenMeansAccepted == Spec => []ClientOpenMeansAccepted
<1>1. Agreed => ClientOpenMeansAccepted
  BY DEF Agreed, Agreement, ServerAccepted, ClientOpenMeansAccepted, Validate
<1> QED
  BY <1>1, AgreementInvariant, PTL

\* Between two ends of this crate an acceptance is refused only for what its custom headers
\* put before the required ones.
THEOREM AcceptanceTaken == Spec => []AcceptanceIsTaken
<1>1. (\A c \in Side : Control(c)) /\ Agreed => AcceptanceIsTaken
  <2> SUFFICES ASSUME \A c \in Side : Control(c), Agreement, pc["server"] = "open",
                      pc["client"] \in {"failed", "panicked"}
               PROVE  head["server"].accept = "custom" \/ head["server"].upgrade = {"h2c"}
    BY DEF AcceptanceIsTaken, Agreed
  <2>1. "server" \notin gone
    BY Sides DEF Control, Ended
  <2>2. ~Validate(head["server"], head["client"])
    BY <2>1, HeadsThere DEF Agreement, ServerAccepted
  <2>3. PICK custom \in SUBSET {"accept", "upgrade"} :
            head["server"] = PrepareHeaders(head["client"], custom)
    BY DEF Agreement, ServerAccepted
  <2>4. head["client"].key \in Keys
    BY DEF Agreement, ServerAccepted
  <2>5. /\ head["server"].status = "101"
        /\ head["server"].accept \in {"custom", head["client"].key}
        /\ head["server"].upgrade \in {{"h2c"}, {"websocket"}}
    BY <2>3 DEF PrepareHeaders
  <2> QED
    BY <2>2, <2>4, <2>5 DEF Validate
<1> QED
  BY <1>1, ControlInvariant, AgreementInvariant, PTL

=============================================================================
