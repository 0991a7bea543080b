------------------------------ MODULE AcceptLoop ------------------------------
(***************************************************************************)
(* The accept loop of a server: accept of server/sync.rs and incoming of   *)
(* server/async.rs. A server may have several handles on one listening     *)
(* socket (try_clone), each used by a thread that calls accept again and   *)
(* again, or turned into an asynchronous server (into_async) that is       *)
(* polled again and again. A call takes a connection off the backlog of    *)
(* the socket and stays with it through TLS and into_ws: a peer that is    *)
(* silent keeps the handle to itself.                                      *)
(*                                                                         *)
(* O_NONBLOCK belongs to the socket, so set_nonblocking on one handle is   *)
(* seen by all. Whether an accepted connection inherits it depends on the  *)
(* platform.                                                               *)
(***************************************************************************)
EXTENDS Handshake

CONSTANTS
    Conns,     \* the connections that are made
    Handles,   \* the handles on the listening socket
    Preceded   \* bound: the requests that may come with two empty lines before them

VARIABLES
    tls,          \* the server has a TlsAcceptor
    inherits,     \* accepted connections inherit O_NONBLOCK
    nonblocking,  \* O_NONBLOCK of the listening socket
    half,         \* "sync" or "async", for each handle
    pc,           \* where the call on each handle is
    conn,         \* the connection each handle is busy with
    mode,         \* the call under way on a blocking handle has found O_NONBLOCK: on the
                  \* socket, then on the connection
    peer,         \* where the other end of each connection is
    hello,        \* the connections whose peer has done its part of TLS
    head,         \* the request each peer has sent
    behind,       \* the connections whose request came together with two empty lines
                  \* before it, and nothing since
    backlog,      \* connections made and not yet accepted
    answers,      \* what has become of each connection, and on which half (a history)
    unblocked     \* some handle has made the socket nonblocking (a history)

vars == <<tls, inherits, nonblocking, half, pc, conn, mode, peer, hello, head, behind,
          backlog, answers, unblocked>>
peers == <<peer, hello, head, behind>>
settings == <<tls, inherits, nonblocking, half, unblocked>>

NoConn == "none"

ASSUME AcceptAssumption == NoConn \notin Conns

Init ==
    /\ tls \in BOOLEAN /\ inherits \in BOOLEAN
    /\ nonblocking = FALSE
    /\ half = [h \in Handles |-> "sync"]
    /\ pc = [h \in Handles |-> "idle"]
    /\ conn = [h \in Handles |-> NoConn]
    /\ mode = [h \in Handles |-> FALSE]
    /\ peer = [c \in Conns |-> "away"]
    /\ hello = {}
    /\ head = [c \in Conns |-> NoHead]
    /\ behind = {}
    /\ unblocked = FALSE
    /\ backlog = <<>>
    /\ answers = [c \in Conns |-> <<>>]

Answered(c) == answers[c] # <<>>

-----------------------------------------------------------------------------
(* The peers. What one says after its connection was answered is not for the   *)
(* accept loop.                                                                *)

Connects(c) ==
    /\ peer[c] = "away"
    /\ peer' = [peer EXCEPT ![c] = "here"]
    /\ backlog' = Append(backlog, c)
    /\ UNCHANGED <<settings, pc, conn, mode, hello, head, behind, answers>>

SaysHello(c) ==
    /\ peer[c] = "here" /\ ~Answered(c)
    /\ tls /\ c \notin hello /\ head[c] = NoHead
    /\ hello' = hello \cup {c}
    /\ UNCHANGED <<settings, pc, conn, mode, peer, head, behind, backlog, answers>>

SendsHead(c) ==
    /\ peer[c] = "here" /\ ~Answered(c)
    /\ head[c] = NoHead
    /\ \E r \in ForeignRequests :
          /\ head' = [head EXCEPT ![c] = r]
          /\ \/ UNCHANGED behind
             \/ r \in Preceded /\ behind' = behind \cup {c}
    /\ UNCHANGED <<settings, pc, conn, mode, peer, hello, backlog, answers>>

SaysMore(c) ==
    /\ peer[c] = "here" /\ ~Answered(c)
    /\ c \in behind
    /\ behind' = behind \ {c}
    /\ UNCHANGED <<settings, pc, conn, mode, peer, hello, head, backlog, answers>>

Leaves(c) ==
    /\ peer[c] = "here" /\ ~Answered(c)
    /\ peer' = [peer EXCEPT ![c] = "gone"]
    /\ UNCHANGED <<settings, pc, conn, mode, hello, head, behind, backlog, answers>>

-----------------------------------------------------------------------------
(* The calls *)

\* A call of accept, or a poll of incoming.
Call(h) ==
    /\ pc[h] = "idle"
    /\ pc' = [pc EXCEPT ![h] = "accepting"]
    /\ mode' = [mode EXCEPT ![h] = half[h] = "sync" /\ nonblocking]
    /\ UNCHANGED <<settings, conn, peers, backlog, answers>>

Listen(h) ==
    /\ pc[h] = "accepting" /\ backlog # <<>>
    /\ conn' = [conn EXCEPT ![h] = Head(backlog)]
    /\ backlog' = Tail(backlog)
    /\ mode' = [mode EXCEPT ![h] = half[h] = "sync" /\ inherits /\ nonblocking]
    /\ pc' = [pc EXCEPT ![h] = IF tls THEN "tls" ELSE "upgrading"]
    /\ UNCHANGED <<settings, peers, answers>>

\* The listener has an error for the call: it had nothing to accept and the call
\* found it nonblocking, or it fails as any system call can.
ListenerFails(h) ==
    /\ pc[h] = "accepting"
    /\ pc' = [pc EXCEPT ![h] = "idle"]
    /\ mode' = [mode EXCEPT ![h] = FALSE]
    /\ UNCHANGED <<settings, conn, peers, backlog, answers>>

WouldBlock(h) ==
    /\ mode[h] /\ backlog = <<>>
    /\ ListenerFails(h)

\* The call ends, and with it what it had to do with its connection.
Ends(h, result, next) ==
    /\ answers' = [answers EXCEPT ![conn[h]] = Append(@, [result |-> result, half |-> half[h]])]
    /\ pc' = [pc EXCEPT ![h] = next]
    /\ conn' = [conn EXCEPT ![h] = NoConn]
    /\ mode' = [mode EXCEPT ![h] = FALSE]
    /\ UNCHANGED <<settings, peers, backlog>>

Return(h, result) == Ends(h, result, "idle")

TlsAccept(h) ==
    /\ pc[h] = "tls"
    /\ conn[h] \in hello
    /\ pc' = [pc EXCEPT ![h] = "upgrading"]
    /\ UNCHANGED <<settings, conn, mode, peers, backlog, answers>>

\* Mutant: only a peer that has left fails TLS, not one that speaks HTTP.
TlsFailsAtEof(h) ==
    /\ pc[h] = "tls"
    /\ peer[conn[h]] = "gone"
    /\ Return(h, "refused")

\* The peer does not speak TLS or has left; the stream is dropped.
TlsFails(h) ==
    /\ pc[h] = "tls"
    /\ \/ conn[h] \notin hello /\ head[conn[h]] # NoHead
       \/ peer[conn[h]] = "gone"
    /\ Return(h, "refused")

\* The decoder of the asynchronous half splits two empty lines off, finds no request
\* in them and waits for more: it does not look at what has come with them.
Overlooked(h) == half[h] = "async" /\ conn[h] \in behind

\* The peer owes what the call is waiting for.
Silent(h) ==
    /\ conn[h] # NoConn /\ peer[conn[h]] = "here"
    /\ IF pc[h] = "tls" THEN conn[h] \notin hello /\ head[conn[h]] = NoHead
       ELSE head[conn[h]] = NoHead \/ Overlooked(h)

\* Mutant: a connection with nothing to read is an error for either half.
TooEarlyEither(h) ==
    /\ pc[h] \in {"tls", "upgrading"}
    /\ half[h] = "async" \/ mode[h]
    /\ Silent(h)
    /\ Return(h, "refused")

\* A nonblocking connection has nothing to read yet, which is an error for the
\* blocking half.
TooEarly(h) ==
    /\ pc[h] \in {"tls", "upgrading"}
    /\ mode[h]
    /\ Silent(h)
    /\ Return(h, "refused")

\* into_ws, when it has the head. The blocking one refuses whatever it reads
\* (BlockingHandshake). The asynchronous one may panic: its task goes with it, and the
\* handle and the connection with the task. Where the peer has left, the end of the
\* stream makes the decoder look again.
IntoWs(h) ==
    LET r == head[conn[h]]
    IN  /\ pc[h] = "upgrading" /\ r # NoHead
        /\ Overlooked(h) => peer[conn[h]] = "gone"
        /\ \/ half[h] = "async" /\ r.parses /\ ValidatePanics(r) /\ Ends(h, "panicked", "dead")
           \/ half[h] = "async" /\ r.parses /\ Valid(r) /\ Return(h, "upgrade")
           \/ ~(half[h] = "async" /\ r.parses /\ (ValidatePanics(r) \/ Valid(r)))
              /\ Return(h, "refused")

IntoWsEof(h) ==
    /\ pc[h] = "upgrading"
    /\ peer[conn[h]] = "gone"
    /\ Return(h, "refused")

-----------------------------------------------------------------------------
(* The settings *)

SetNonblocking(h, value) ==
    /\ half[h] = "sync" /\ pc[h] = "idle"
    /\ nonblocking' = value
    /\ unblocked' = (unblocked \/ value)
    /\ UNCHANGED <<tls, inherits, half, pc, conn, mode, peers, backlog, answers>>

\* The listener of the asynchronous half makes its socket nonblocking.
IntoAsync(h) ==
    /\ half[h] = "sync" /\ pc[h] = "idle"
    /\ half' = [half EXCEPT ![h] = "async"]
    /\ nonblocking' = TRUE
    /\ unblocked' = TRUE
    /\ UNCHANGED <<tls, inherits, pc, conn, mode, peers, backlog, answers>>

-----------------------------------------------------------------------------
Works(h) ==
    \/ Listen(h) \/ WouldBlock(h)
    \/ TlsAccept(h) \/ TlsFails(h) \/ TooEarly(h)
    \/ IntoWs(h) \/ IntoWsEof(h)

Next ==
    \/ \E c \in Conns : Connects(c) \/ SaysHello(c) \/ SendsHead(c) \/ SaysMore(c) \/ Leaves(c)
    \/ \E h \in Handles :
          \/ Call(h) \/ Works(h) \/ ListenerFails(h) \/ IntoAsync(h)
          \/ \E value \in BOOLEAN : SetNonblocking(h, value)

Spec == Init /\ [][Next]_vars

\* The threads and the executor run the calls, the application calls again after
\* each, and a listener does not fail for ever. Nothing is assumed of the peers.
FairSpec ==
    /\ Spec
    /\ \A h \in Handles : WF_vars(Call(h)) /\ WF_vars(Works(h)) /\ SF_vars(Listen(h))

-----------------------------------------------------------------------------
(* Properties *)

Answers == [result : {"upgrade", "refused", "panicked"}, half : {"sync", "async"}]

TypeOK ==
    /\ tls \in BOOLEAN /\ inherits \in BOOLEAN /\ nonblocking \in BOOLEAN
    /\ unblocked \in BOOLEAN
    /\ half \in [Handles -> {"sync", "async"}]
    /\ pc \in [Handles -> {"idle", "accepting", "tls", "upgrading", "dead"}]
    /\ conn \in [Handles -> Conns \cup {NoConn}]
    /\ \A h \in Handles : conn[h] = NoConn <=> pc[h] \in {"idle", "accepting", "dead"}
    /\ mode \in [Handles -> BOOLEAN]
    /\ peer \in [Conns -> {"away", "here", "gone"}]
    /\ hello \subseteq Conns /\ behind \subseteq Conns
    /\ head \in [Conns -> ForeignRequests \cup {NoHead}]
    /\ backlog \in Seq(Conns)
    /\ answers \in [Conns -> Seq(Answers)]

\* Nobody is refused for nothing. An asynchronous handle refuses only a peer that has
\* left, has sent no TLS where it should, or has sent a request that is not valid; it
\* never takes for an error that nothing has come yet. A blocking one, which refuses
\* every request, refuses a peer that has said nothing only where the connection can
\* have taken O_NONBLOCK from a socket that some handle, not always its own, has made
\* nonblocking. And nobody is upgraded, or makes a handle panic, but by a request.
Spoke(c) == head[c] # NoHead

Cause(c, a) ==
    CASE a.result = "refused" ->
            \/ peer[c] = "gone"
            \/ tls /\ c \notin hello /\ Spoke(c)
            \/ a.half = "async" /\ Spoke(c) /\ ~(head[c].parses /\ Valid(head[c]))
            \/ a.half = "sync" /\ (Spoke(c) \/ (inherits /\ unblocked))
      [] OTHER ->
            /\ a.half = "async" /\ (tls => c \in hello)
            /\ Spoke(c) /\ head[c].parses
            /\ IF a.result = "upgrade" THEN Valid(head[c]) ELSE ValidatePanics(head[c])

AnsweredForCause ==
    \A c \in Conns : \A i \in DOMAIN answers[c] : Cause(c, answers[c][i])

\* A server that goes on accepting answers every connection whose peer has sent its
\* request or has left, whatever the other peers do and whichever requests it has
\* refused, unless from some point on each handle is kept by a peer that owes it
\* something or lost to a panic.
Heard(c) == peer[c] = "gone" \/ (Spoke(c) /\ c \notin behind)
Kept(h)  == pc[h] = "dead" \/ Silent(h)

EveryoneIsAnswered ==
    \A c \in Conns :
        \/ Heard(c) ~> Answered(c)
        \/ <>[](\A h \in Handles : Kept(h))

=============================================================================
