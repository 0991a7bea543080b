--------------------------- MODULE AcceptLoopProofs ---------------------------
(***************************************************************************)
(* What AcceptLoop guarantees for any connections, any number of handles   *)
(* and any requests: nobody is refused for nothing.                        *)
(***************************************************************************)
EXTENDS AcceptLoop, TLAPS

Results == {"upgrade", "refused", "panicked"}

\* A call ends, one way or another, with what it was busy with.
Ended(h) ==
    /\ pc[h] \in {"tls", "upgrading"}
    /\ \E result \in Results, next \in {"idle", "dead"} : Ends(h, result, next)

\* A call begins, or fails before it has a connection.
Turns(h) == Call(h) \/ ListenerFails(h)

\* A handle is turned asynchronous, or a setting of the socket changed.
Sets(h) == IntoAsync(h) \/ \E value \in BOOLEAN : SetNonblocking(h, value)

\* A peer that is waiting for its answer speaks, or leaves.
PeerActs(c) == SaysHello(c) \/ SendsHead(c) \/ SaysMore(c) \/ Leaves(c)

\* The steps, by what they do to the connections.
LEMMA StepCases ==
    ASSUME Next
    PROVE  \/ \E c \in Conns : Connects(c) \/ PeerActs(c)
           \/ \E h \in Handles : Turns(h) \/ Sets(h) \/ Listen(h) \/ TlsAccept(h)
           \/ \E h \in Handles : TlsFails(h) \/ TooEarly(h) \/ IntoWs(h) \/ IntoWsEof(h)
BY DEF Next, PeerActs, Turns, Sets, Works, WouldBlock

LEMMA EndedCases ==
    ASSUME NEW h, TlsFails(h) \/ TooEarly(h) \/ IntoWs(h) \/ IntoWsEof(h)
    PROVE  Ended(h)
<1>1. CASE TlsFails(h) \/ TooEarly(h) \/ IntoWsEof(h)
  BY <1>1 DEF TlsFails, TooEarly, IntoWsEof, Return, Ended, Results
<1>2. CASE IntoWs(h)
  BY <1>2 DEF IntoWs, Return, Ended, Results
<1> QED
  BY <1>1, <1>2

-----------------------------------------------------------------------------
(* Types *)

LEMMA TypesInit == Init => TypeOK
<1> SUFFICES ASSUME Init PROVE TypeOK
  OBVIOUS
<1>1. backlog \in Seq(Conns) /\ <<>> \in Seq(Answers)
  BY DEF Init
<1>2. answers \in [Conns -> Seq(Answers)]
  BY <1>1 DEF Init
<1> QED
  BY <1>1, <1>2 DEF Init, TypeOK

LEMMA TypesKept ==
    ASSUME TypeOK, [Next]_vars
    PROVE  TypeOK'
<1> USE DEF TypeOK, settings, peers
<1>1. ASSUME NEW c \in Conns, Connects(c) PROVE TypeOK'
  BY <1>1 DEF Connects
<1>2. ASSUME NEW c \in Conns, PeerActs(c) PROVE TypeOK'
  <2>1. CASE SaysHello(c)
    BY <2>1 DEF SaysHello
  <2>2. CASE SendsHead(c)
    BY <2>2 DEF SendsHead
  <2>3. CASE SaysMore(c)
    BY <2>3 DEF SaysMore
  <2>4. CASE Leaves(c)
    BY <2>4 DEF Leaves
  <2> QED
    BY <1>2, <2>1, <2>2, <2>3, <2>4 DEF PeerActs
<1>3. ASSUME NEW h \in Handles, Turns(h) PROVE TypeOK'
  BY <1>3 DEF Turns, Call, ListenerFails
<1>4. ASSUME NEW h \in Handles, Sets(h) PROVE TypeOK'
  BY <1>4 DEF Sets, IntoAsync, SetNonblocking
<1>5. ASSUME NEW h \in Handles, Listen(h) PROVE TypeOK'
  <2>1. /\ Head(backlog) \in Conns /\ Tail(backlog) \in Seq(Conns)
        /\ Head(backlog) # NoConn
    BY <1>5, AcceptAssumption DEF Listen
  <2> QED
    BY <1>5, <2>1 DEF Listen
<1>6. ASSUME NEW h \in Handles, TlsAccept(h) PROVE TypeOK'
  BY <1>6 DEF TlsAccept
<1>7. ASSUME NEW h \in Handles, Ended(h) PROVE TypeOK'
  <2>1. PICK result \in Results, next \in {"idle", "dead"} : Ends(h, result, next)
    BY <1>7 DEF Ended
  <2> DEFINE a == [result |-> result, half |-> half[h]]
  <2>2. conn[h] \in Conns /\ a \in Answers
    BY <1>7 DEF Ended, Answers, Results
  <2> HIDE DEF a
  <2>3. answers' = [answers EXCEPT ![conn[h]] = Append(@, a)]
    BY <2>1 DEF Ends, a
  <2>4. answers' \in [Conns -> Seq(Answers)]
    BY <2>2, <2>3
  <2> QED
    BY <2>1, <2>4 DEF Ends
<1>8. CASE UNCHANGED vars
  BY <1>8 DEF vars
<1>9. ASSUME NEW h \in Handles, TlsFails(h) \/ TooEarly(h) \/ IntoWs(h) \/ IntoWsEof(h)
      PROVE  TypeOK'
  BY <1>7, <1>9, EndedCases
<1> QED
  BY <1>1, <1>2, <1>3, <1>4, <1>5, <1>6, <1>8, <1>9, StepCases

\* The state of the server is what it should be: a call is busy with a connection from
\* the moment it has taken it off the backlog until it returns, and not otherwise.
THEOREM AcceptTypes == Spec => []TypeOK
<1>1. Init => TypeOK
  BY TypesInit
<1>2. TypeOK /\ [Next]_vars => TypeOK'
  BY TypesKept
<1> QED
  BY <1>1, <1>2, PTL DEF Spec

-----------------------------------------------------------------------------
(* Causes *)

\* A call is behind TLS only with a peer that has done its part, and has found
\* O_NONBLOCK only on a blocking handle, where some handle has set it, and with a
\* connection only where connections inherit it.
HandleInv(h) ==
    /\ pc[h] = "tls" => tls
    /\ pc[h] = "upgrading" /\ tls => conn[h] \in hello
    /\ mode[h] => half[h] = "sync" /\ unblocked /\ pc[h] \in {"accepting", "tls", "upgrading"}
    /\ mode[h] /\ pc[h] \in {"tls", "upgrading"} => inherits

CauseInv ==
    /\ nonblocking => unblocked
    /\ \A h \in Handles : HandleInv(h)

LEMMA CauseInvariant == Spec => []CauseInv
<1>1. Init => CauseInv
  BY DEF Init, CauseInv, HandleInv
<1>2. TypeOK /\ CauseInv /\ [Next]_vars => CauseInv'
  <2> SUFFICES ASSUME TypeOK, CauseInv, [Next]_vars PROVE CauseInv'
    OBVIOUS
  <2> USE DEF TypeOK, settings, peers, CauseInv, HandleInv
  <2>1. ASSUME NEW c \in Conns, Connects(c) PROVE CauseInv'
    BY <2>1 DEF Connects
  <2>2. ASSUME NEW c \in Conns, PeerActs(c) PROVE CauseInv'
    BY <2>2 DEF PeerActs, SaysHello, SendsHead, SaysMore, Leaves
  <2>3. ASSUME NEW h \in Handles, Turns(h) PROVE CauseInv'
    BY <2>3 DEF Turns, Call, ListenerFails
  <2>4. ASSUME NEW h \in Handles, Sets(h) PROVE CauseInv'
    BY <2>4 DEF Sets, IntoAsync, SetNonblocking
  <2>5. ASSUME NEW h \in Handles, Listen(h) PROVE CauseInv'
    BY <2>5 DEF Listen
  <2>6. ASSUME NEW h \in Handles, TlsAccept(h) PROVE CauseInv'
    BY <2>6 DEF TlsAccept
  <2>7. ASSUME NEW h \in Handles, TlsFails(h) \/ TooEarly(h) \/ IntoWs(h) \/ IntoWsEof(h)
        PROVE  CauseInv'
    <3>1. Ended(h)
      BY <2>7, EndedCases
    <3>2. PICK result \in Results, next \in {"idle", "dead"} : Ends(h, result, next)
      BY <3>1 DEF Ended
    <3> QED
      BY <3>2 DEF Ends
  <2>8. CASE UNCHANGED vars
    BY <2>8 DEF vars
  <2> QED
    BY <2>1, <2>2, <2>3, <2>4, <2>5, <2>6, <2>7, <2>8, StepCases
<1> QED
  BY <1>1, <1>2, AcceptTypes, PTL DEF Spec

\* What a call returns has its cause.
LEMMA EndsForCause ==
    ASSUME TypeOK, CauseInv, NEW h \in Handles,
           TlsFails(h) \/ TooEarly(h) \/ IntoWs(h) \/ IntoWsEof(h)
    PROVE  /\ conn[h] \in Conns
           /\ \E a \in Answers : /\ answers' = [answers EXCEPT ![conn[h]] = Append(@, a)]
                                /\ Cause(conn[h], a)
           /\ UNCHANGED <<settings, peers>>
<1> DEFINE c == conn[h]
           With(result, next) ==
               Ends(h, result, next) /\ Cause(c, [result |-> result, half |-> half[h]])
<1>1. pc[h] \in {"tls", "upgrading"} /\ c \in Conns /\ half[h] \in {"sync", "async"}
  BY DEF TlsFails, TooEarly, IntoWs, IntoWsEof, TypeOK
<1>2. HandleInv(h)
  BY DEF CauseInv
<1>3. CASE TlsFails(h)
  <2>1. With("refused", "idle")
    BY <1>2, <1>3 DEF TlsFails, Return, Cause, Spoke, HandleInv
  <2> QED
    BY <1>1, <2>1 DEF Ends, Answers
<1>4. CASE TooEarly(h)
  <2>1. With("refused", "idle")
    BY <1>2, <1>4 DEF TooEarly, Return, Cause, HandleInv
  <2> QED
    BY <1>1, <2>1 DEF Ends, Answers
<1>5. CASE IntoWsEof(h)
  <2>1. With("refused", "idle")
    BY <1>5 DEF IntoWsEof, Return, Cause
  <2> QED
    BY <1>1, <2>1 DEF Ends, Answers
<1>6. CASE IntoWs(h)
  <2> DEFINE r == head[c]
  <2>1. pc[h] = "upgrading" /\ Spoke(c) /\ (tls => c \in hello)
    BY <1>2, <1>6 DEF IntoWs, Spoke, HandleInv
  <2>2. CASE half[h] = "async" /\ r.parses /\ ValidatePanics(r) /\ Ends(h, "panicked", "dead")
    <3>1. With("panicked", "dead")
      BY <2>1, <2>2 DEF Cause
    <3> QED
      BY <1>1, <3>1 DEF Ends, Answers
  <2>3. CASE half[h] = "async" /\ r.parses /\ Valid(r) /\ Return(h, "upgrade")
    <3>1. With("upgrade", "idle")
      BY <2>1, <2>3 DEF Cause, Return
    <3> QED
      BY <1>1, <3>1 DEF Ends, Answers
  <2>4. CASE /\ ~(half[h] = "async" /\ r.parses /\ (ValidatePanics(r) \/ Valid(r)))
             /\ Return(h, "refused")
    <3>1. With("refused", "idle")
      BY <1>1, <2>1, <2>4 DEF Cause, Return
    <3> QED
      BY <1>1, <3>1 DEF Ends, Answers
  <2> QED
    BY <1>6, <2>2, <2>3, <2>4 DEF IntoWs
<1> QED
  BY <1>3, <1>4, <1>5, <1>6

\* A peer that has left stays away, and one that has been answered is not listened to.
Settled(c) ==
    /\ peer[c] = "gone" => peer'[c] = "gone"
    /\ head'[c] = head[c]
    /\ c \in hello' <=> c \in hello

\* A cause lasts: what has been done to the socket has been done.
LEMMA CauseLasts ==
    ASSUME NEW c \in Conns, NEW a,
           UNCHANGED <<tls, inherits>>, unblocked => unblocked',
           Settled(c), Cause(c, a)
    PROVE  Cause(c, a)'
BY DEF Cause, Spoke, Settled

LEMMA CausesKept ==
    ASSUME TypeOK, CauseInv, AnsweredForCause, [Next]_vars
    PROVE  AnsweredForCause'
<1>1. ASSUME UNCHANGED <<answers, tls, inherits>>, unblocked => unblocked',
             \A c \in Conns : Answered(c) => Settled(c)
      PROVE  AnsweredForCause'
  <2> SUFFICES ASSUME NEW c \in Conns, NEW i \in DOMAIN (answers[c])'
               PROVE  Cause(c, answers[c][i])'
    BY DEF AnsweredForCause
  <2>1. Settled(c) /\ Cause(c, answers[c][i])
    BY <1>1 DEF AnsweredForCause, Answered
  <2> QED
    BY <1>1, <2>1 DEF Cause, Spoke, Settled
<1> USE DEF TypeOK, settings, peers
<1>2. ASSUME NEW c \in Conns, Connects(c) PROVE AnsweredForCause'
  <2>1. ASSUME NEW d \in Conns PROVE Settled(d)
    BY <1>2 DEF Connects, Settled
  <2> QED
    BY <1>1, <1>2, <2>1 DEF Connects
<1>3. ASSUME NEW c \in Conns, PeerActs(c) PROVE AnsweredForCause'
  <2>1. ASSUME NEW d \in Conns, Answered(d) PROVE Settled(d)
    BY <1>3, <2>1 DEF PeerActs, SaysHello, SendsHead, SaysMore, Leaves, Settled
  <2> QED
    BY <1>1, <1>3, <2>1 DEF PeerActs, SaysHello, SendsHead, SaysMore, Leaves
<1>4. ASSUME NEW h \in Handles, Turns(h) PROVE AnsweredForCause'
  BY <1>1, <1>4 DEF Turns, Call, ListenerFails, Settled
<1>5. ASSUME NEW h \in Handles, Sets(h) PROVE AnsweredForCause'
  BY <1>1, <1>5 DEF Sets, IntoAsync, SetNonblocking, Settled
<1>6. ASSUME NEW h \in Handles, Listen(h) \/ TlsAccept(h) PROVE AnsweredForCause'
  BY <1>1, <1>6 DEF Listen, TlsAccept, Settled
<1>7. CASE UNCHANGED vars
  BY <1>1, <1>7 DEF vars, Settled
<1>8. ASSUME NEW h \in Handles, TlsFails(h) \/ TooEarly(h) \/ IntoWs(h) \/ IntoWsEof(h)
      PROVE  AnsweredForCause'
  <2>1. PICK a \in Answers :
           /\ conn[h] \in Conns
           /\ answers' = [answers EXCEPT ![conn[h]] = Append(@, a)]
           /\ Cause(conn[h], a)
           /\ UNCHANGED <<settings, peers>>
    BY <1>8, EndsForCause
  <2> SUFFICES ASSUME NEW c \in Conns, NEW i \in DOMAIN (answers[c])'
               PROVE  Cause(c, answers[c][i])'
    BY DEF AnsweredForCause
  <2>2. PICK x : x = answers'[c][i]
    OBVIOUS
  <2>3. Cause(c, x)
    <3>1. CASE c # conn[h]
      <4>1. answers'[c] = answers[c]
        BY <2>1, <3>1
      <4> QED
        BY <2>2, <4>1 DEF AnsweredForCause
    <3>2. CASE c = conn[h]
      <4>1. answers[c] \in Seq(Answers) /\ answers'[c] = Append(answers[c], a)
        BY <2>1, <3>2
      <4>2. x = a \/ (i \in DOMAIN answers[c] /\ x = answers[c][i])
        BY <2>2, <4>1
      <4> QED
        BY <2>1, <3>2, <4>2 DEF AnsweredForCause
    <3> QED
      BY <3>1, <3>2
  <2>4. Cause(c, x)'
    BY <2>1, <2>3, CauseLasts DEF Settled
  <2> QED
    BY <2>2, <2>4 DEF Cause, Spoke
<1> QED
  BY <1>2, <1>3, <1>4, <1>5, <1>6, <1>7, <1>8, StepCases

\* However many handles share a socket, whichever of them are asynchronous and whatever
\* is set on it meanwhile, nobody is refused, upgraded or panicked about without a cause
\* of its own (accept, incoming and into_ws).
THEOREM NobodyRefusedForNothing == Spec => []AnsweredForCause
<1>1. Init => AnsweredForCause
  BY DEF Init, AnsweredForCause
<1> QED
  BY <1>1, CausesKept, AcceptTypes, CauseInvariant, PTL DEF Spec

=============================================================================
