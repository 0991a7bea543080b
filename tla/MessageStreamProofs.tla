------------------------- MODULE MessageStreamProofs -------------------------
(***************************************************************************)
(* What MessageStream guarantees for every set of frames, every length of  *)
(* the stream and both roles, and what those who implement it need to know *)
(* of the bytes of the frames.                                             *)
(***************************************************************************)
EXTENDS MessageStream, TLAPS

(* What from_dataframes returns *)

\* The content checks either hand over the payload under its opcode or fail in one of
\* three ways.
LEMMA AssembleResults ==
    ASSUME NEW op, NEW data
    PROVE  Assemble(op, data) \in
              {Msg(op, data), Err("Utf8"), Err("NoDataAvailable"),
               Err("UnsupportedOpcode")}
BY DEF Assemble

\* An error record has the fields it was made with.
LEMMA ErrFields == \A e : Err(e).kind = "error" /\ Err(e).error = e
BY DEF Err

\* A message record has the fields it was made with.
LEMMA MsgFields == \A op, data : Msg(op, data).kind = "message" /\ Msg(op, data).op = op
BY DEF Msg

\* A message that is delivered has the opcode of its first frame.
LEMMA MessageOpcode ==
    ASSUME NEW fs, FromDataframes(fs).kind = "message"
    PROVE  FromDataframes(fs).op = fs[1].op
<1> DEFINE data == FlattenSeq([i \in DOMAIN fs |-> fs[i].data])
<1>1. FromDataframes(fs) = Assemble(fs[1].op, data)
  BY ErrFields DEF FromDataframes
<1> HIDE DEF data
<1> QED
  BY <1>1, ErrFields, MsgFields, AssembleResults

\* Frames that continue as they should are never refused for not continuing.
LEMMA ContinuationsAccepted ==
    ASSUME NEW fs, \A k \in DOMAIN fs : ~Misplaced(fs, k)
    PROVE  FromDataframes(fs) # Err("NonContinuation")
<1>1. \A op, data : Assemble(op, data) # Err("NonContinuation")
  BY ErrFields, MsgFields, AssembleResults
<1>2. Err("ReservedBits") # Err("NonContinuation")
  BY ErrFields
<1> QED
  BY <1>1, <1>2 DEF FromDataframes

-----------------------------------------------------------------------------
(* Type correctness *)

\* The ways a step can change the state, the many kinds of refusal and the raw frame
\* taken together.
EmptyResult ==
    /\ \E out \in {Unknown} \cup {Err(e) : e \in HeaderFaults \cup ReadFaults},
          cut \in BOOLEAN :
             results' = Append(results, Result(out, <<>>, cut))
    /\ UNCHANGED <<wire, consumed, buffer>>

Refusals ==
    HeaderFaults \cup
    {"ExpectedMasked", "ExpectedUnmasked", "UnexpectedContinuation", "UnexpectedOpcode"}

\* What a frame that is taken by itself is answered with, but for control frames.
LoneAnswers == {RawFrameOut} \cup {Err(e) : e \in Refusals}

TakenAlone == consumed < Len(wire) /\ \E out \in LoneAnswers : TakeAlone(out)

\* read_header refuses a header in one of three ways or not at all.
LEMMA HeaderFaultRange == \A f : HeaderFault(f) \in HeaderFaults \cup {"none"}
BY DEF HeaderFault, HeaderFaults

\* Every step sends, returns without a frame, answers a frame by itself, or takes one
\* into a message.
LEMMA StepCases ==
    ASSUME Next
    PROVE  \/ \E f \in Frames : PeerSends(f)
           \/ EmptyResult
           \/ TakenAlone
           \/ ControlFrame
           \/ Fragment
           \/ FinishMessage
<1>1. ASSUME WrongMask PROVE TakenAlone
  <2>1. MaskFault(NextFrame, ShouldBeMasked) \in Refusals
    BY <1>1 DEF WrongMask, MaskFits, MaskFault, Refusals
  <2> QED
    BY <1>1, <2>1 DEF WrongMask, FrameReady, TakenAlone, LoneAnswers, Refuse
<1>2. ASSUME OrphanContinuation PROVE TakenAlone
  BY <1>2 DEF OrphanContinuation, FrameReady, TakenAlone, LoneAnswers, Refuse, Refusals
<1>3. ASSUME UnexpectedDataFrame PROVE TakenAlone
  BY <1>3 DEF UnexpectedDataFrame, FrameReady, TakenAlone, LoneAnswers, Refuse, Refusals
<1>4. ASSUME BadHeader PROVE TakenAlone \/ EmptyResult
  <2>1. HeaderFault(NextFrame) \in HeaderFaults
    BY <1>4, HeaderFaultRange DEF BadHeader
  <2> QED
    BY <1>4, <2>1 DEF BadHeader, TakenAlone, LoneAnswers, Refuse, Refusals, EmptyResult
<1>5. ASSUME Interrupted \/ Unspecified PROVE EmptyResult
  BY <1>5 DEF Interrupted, Unspecified, EmptyResult
<1>6. ASSUME RawFrame PROVE TakenAlone
  BY <1>6 DEF RawFrame, FrameReady, TakenAlone, LoneAnswers
<1> QED
  BY <1>1, <1>2, <1>3, <1>4, <1>5, <1>6 DEF Next, TakeFrame

\* Append to a sequence whose new element is of any kind.
LEMMA AppendAny ==
    ASSUME NEW S, NEW s \in Seq(S), NEW x
    PROVE  /\ Append(s, x) \in Seq(ToSet(Append(s, x)))
           /\ Len(s) \in Nat /\ Len(Append(s, x)) = Len(s) + 1
           /\ DOMAIN s = 1..Len(s) /\ DOMAIN Append(s, x) = 1..(Len(s) + 1)
           /\ \A i \in 1..Len(s) : Append(s, x)[i] = s[i]
           /\ Append(s, x)[Len(s) + 1] = x
<1>1. Append(s, x) \in Seq(S \cup {x})
  OBVIOUS
<1>2. \A i \in 1..(Len(s) + 1) : Append(s, x)[i] \in ToSet(Append(s, x))
  BY <1>1 DEF ToSet
<1> QED
  BY <1>1, <1>2

\* Indices of the first n frames are indices of the first n + 1.
LEMMA WiderSeq ==
    ASSUME NEW n \in Nat, NEW s \in Seq(1..n)
    PROVE  s \in Seq(1..(n + 1)) /\ Append(s, n + 1) \in Seq(1..(n + 1))
OBVIOUS

\* Results over n frames are results over n + 1 frames.
LEMMA ResultsWider ==
    ASSUME NEW n \in Nat, NEW rs, ResultsTyped(n, rs)
    PROVE  ResultsTyped(n + 1, rs)
BY WiderSeq DEF ResultsTyped

\* One more result leaves the results typed.
LEMMA ResultAdded ==
    ASSUME NEW n \in Nat, NEW m \in {n, n + 1}, NEW rs, ResultsTyped(n, rs),
           NEW out, NEW from \in Seq(1..m), NEW cut \in BOOLEAN
    PROVE  ResultsTyped(m, Append(rs, Result(out, from, cut)))
<1> DEFINE new == Result(out, from, cut)
           rs2 == Append(rs, new)
<1>1. new.out = out /\ new.from = from /\ new.cut = cut
  BY DEF Result
<1>2. /\ rs2 \in Seq(ToSet(rs2))
      /\ DOMAIN rs2 = 1..(Len(rs) + 1)
      /\ \A i \in 1..Len(rs) : rs2[i] = rs[i]
      /\ rs2[Len(rs) + 1] = new
      /\ DOMAIN rs = 1..Len(rs) /\ Len(rs) \in Nat
  BY AppendAny DEF ResultsTyped
<1> HIDE DEF rs2, new
<1>3. ASSUME NEW r \in 1..Len(rs)
      PROVE  /\ rs2[r] = Result(rs2[r].out, rs2[r].from, rs2[r].cut)
             /\ rs2[r].from \in Seq(1..m)
             /\ rs2[r].cut \in BOOLEAN
  BY <1>2, WiderSeq DEF ResultsTyped
<1>4. new = Result(new.out, new.from, new.cut)
  BY <1>1 DEF new
<1> QED
  BY <1>1, <1>2, <1>3, <1>4 DEF ResultsTyped, rs2

\* The state of a receiving side is what it should be: the frames taken have been sent,
\* the message in progress and the results are made of frames that have been taken.
THEOREM TypeCorrect == Spec => []TypeOK
<1>1. Init => TypeOK
  BY DEF Init, TypeOK, ResultsTyped, ToSet
<1>2. TypeOK /\ [Next]_vars => TypeOK'
  <2> SUFFICES ASSUME TypeOK, [Next]_vars PROVE TypeOK'
    OBVIOUS
  <2> USE DEF TypeOK
  <2>1. CASE \E f \in Frames : PeerSends(f)
    BY <2>1 DEF PeerSends
  <2>0. /\ consumed \in Nat /\ Len(wire) \in Nat
        /\ <<consumed + 1>> \in Seq(1..(consumed + 1))
        /\ Append(buffer, consumed + 1) \in Seq(1..(consumed + 1))
        /\ buffer \in Seq(1..(consumed + 1))
    <3>1. consumed \in Nat /\ Len(wire) \in Nat
      OBVIOUS
    <3>2. <<consumed + 1>> \in Seq(1..(consumed + 1))
      BY <3>1
    <3> QED
      BY <3>1, <3>2, WiderSeq
  <2>2. CASE EmptyResult
    <3>1. PICK out, cut : /\ cut \in BOOLEAN
                          /\ results' = Append(results, Result(out, <<>>, cut))
      BY <2>2 DEF EmptyResult
    <3>2. wire' = wire /\ consumed' = consumed /\ buffer' = buffer
      BY <2>2 DEF EmptyResult
    <3>3. <<>> \in Seq(1..consumed)
      OBVIOUS
    <3>4. ResultsTyped(consumed, Append(results, Result(out, <<>>, cut)))
      BY <2>0, <3>1, <3>3, ResultAdded
    <3>5. ResultsTyped(consumed', results')
      BY <3>1, <3>2, <3>4
    <3> QED
      BY <3>2, <3>5
  <2>3. CASE TakenAlone
    <3>1. /\ consumed < Len(wire) /\ consumed' = consumed + 1
          /\ wire' = wire /\ buffer' = buffer
          /\ \E out : results' = Append(results, Result(out, <<consumed + 1>>, FALSE))
      BY <2>3 DEF TakenAlone, TakeAlone
    <3>2. ResultsTyped(consumed, results) /\ FALSE \in BOOLEAN
      OBVIOUS
    <3>3. ResultsTyped(consumed + 1, results')
      BY <2>0, <3>1, <3>2, ResultAdded
    <3>4. ResultsTyped(consumed', results')
      BY <3>1, <3>3
    <3>5. wire' \in Seq(Frames) /\ consumed' \in 0..Len(wire')
      BY <2>0, <3>1
    <3>6. buffer' \in Seq(1..consumed')
      BY <2>0, <3>1
    <3> QED
      BY <3>4, <3>5, <3>6
  <2>4. CASE ControlFrame
    <3>1. /\ consumed < Len(wire) /\ consumed' = consumed + 1
          /\ wire' = wire /\ buffer' = buffer
          /\ \E out : results' = Append(results, Result(out, <<consumed + 1>>, FALSE))
      BY <2>4 DEF ControlFrame, Deliver, FrameReady
    <3>2. ResultsTyped(consumed, results) /\ FALSE \in BOOLEAN
      OBVIOUS
    <3>3. ResultsTyped(consumed + 1, results')
      BY <2>0, <3>1, <3>2, ResultAdded
    <3>4. ResultsTyped(consumed', results')
      BY <3>1, <3>3
    <3>5. wire' \in Seq(Frames) /\ consumed' \in 0..Len(wire')
      BY <2>0, <3>1
    <3>6. buffer' \in Seq(1..consumed')
      BY <2>0, <3>1
    <3> QED
      BY <3>4, <3>5, <3>6
  <2>5. CASE Fragment
    <3>1. /\ consumed < Len(wire) /\ consumed' = consumed + 1
          /\ wire' = wire /\ buffer' = Append(buffer, consumed + 1)
          /\ results' = results
      BY <2>5 DEF Fragment, FrameReady
    <3> QED
      BY <2>0, <3>1, ResultsWider
  <2>6. CASE FinishMessage
    <3>1. /\ consumed < Len(wire) /\ consumed' = consumed + 1
          /\ wire' = wire /\ buffer' = <<>>
          /\ \E out : results' = Append(results,
                                  Result(out, Append(buffer, consumed + 1), FALSE))
      BY <2>6 DEF FinishMessage, Deliver, FrameReady
    <3>2. ResultsTyped(consumed, results) /\ FALSE \in BOOLEAN
      OBVIOUS
    <3>3. ResultsTyped(consumed + 1, results')
      BY <2>0, <3>1, <3>2, ResultAdded
    <3>4. ResultsTyped(consumed', results')
      BY <3>1, <3>3
    <3>5. wire' \in Seq(Frames) /\ consumed' \in 0..Len(wire')
      BY <2>0, <3>1
    <3>6. buffer' \in Seq(1..consumed')
      BY <2>0, <3>1
    <3> QED
      BY <3>4, <3>5, <3>6
  <2>7. CASE UNCHANGED vars
    BY <2>7 DEF vars
  <2> QED
    BY <2>1, <2>2, <2>3, <2>4, <2>5, <2>6, <2>7, StepCases
<1> QED
  BY <1>1, <1>2, PTL DEF Spec

-----------------------------------------------------------------------------
(* Delivered messages are whole *)

\* The fragments in the buffer are the beginning of one message.
OpenMessage(w, b) ==
    /\ b # <<>> => w[b[1]].op \in DataOps
    /\ \A k \in 2..Len(b) : w[b[k]].op = Continuation
    /\ \A k \in 1..Len(b) : ~w[b[k]].fin

\* These frames are all the frames of one message.
WholeMessage(w, from) ==
    /\ from # <<>>
    /\ \A k \in 2..Len(from) : w[from[k]].op = Continuation
    /\ \A k \in 1..Len(from) : w[from[k]].fin <=> k = Len(from)

\* A message that was delivered is made of the frames of one message.
WholeResult(w, res) ==
    /\ res.out # Err("NonContinuation")
    /\ res.out.kind = "message" =>
          WholeMessage(w, res.from) /\ res.out.op = w[res.from[1]].op

\* The buffer must be known to hold the beginning of one message for the message
\* that ends it to be known whole.
WholeInv ==
    /\ OpenMessage(wire, buffer)
    /\ \A r \in DOMAIN results : WholeResult(wire, results[r])

\* What is on the wire stays there.
LEMMA WireKept ==
    ASSUME TypeOK, [Next]_vars
    PROVE  \A i \in 1..Len(wire) : wire'[i] = wire[i]
<1>1. CASE \E f \in Frames : PeerSends(f)
  BY <1>1 DEF PeerSends, TypeOK
<1>2. CASE wire' = wire
  BY <1>2
<1> QED
  BY <1>1, <1>2, StepCases
     DEF EmptyResult, TakenAlone, TakeAlone, ControlFrame, Deliver, Fragment, FinishMessage, vars

\* An error is no message, so nothing is asked of its frames.
LEMMA ErrorWhole ==
    ASSUME NEW w, NEW out, NEW from, NEW cut,
           out \in {Unknown} \cup LoneAnswers \cup {Err(e) : e \in HeaderFaults \cup ReadFaults}
    PROVE  WholeResult(w, Result(out, from, cut))
<1>1. Result(out, from, cut).out = out
  BY DEF Result
<1>2. Unknown.kind = "unknown"
  BY DEF Unknown
<1>3. out.kind # "message" /\ out # Err("NonContinuation")
  BY <1>2, ErrFields DEF HeaderFaults, ReadFaults, Refusals, LoneAnswers, RawFrameOut
<1> QED
  BY <1>1, <1>3 DEF WholeResult

\* What from_dataframes makes of the frames of a whole message is whole.
LEMMA MessageWhole ==
    ASSUME NEW w, NEW n \in Nat, NEW from \in Seq(1..n), NEW cut,
           WholeMessage(w, from)
    PROVE  WholeResult(w, Result(FromDataframes([k \in DOMAIN from |-> w[from[k]]]),
                                 from, cut))
<1> DEFINE fs  == [k \in DOMAIN from |-> w[from[k]]]
           res == Result(FromDataframes(fs), from, cut)
<1>1. res.out = FromDataframes(fs) /\ res.from = from
  BY DEF Result
<1>2. DOMAIN from = 1..Len(from) /\ Len(from) \in Nat /\ Len(from) >= 1
  BY DEF WholeMessage
<1>3. \A k \in 1..Len(from) : fs[k] = w[from[k]]
  BY <1>2
<1>4. \A k \in DOMAIN fs : ~Misplaced(fs, k)
  <2>1. DOMAIN fs = 1..Len(from)
    BY <1>2
  <2> HIDE DEF fs
  <2>2. ASSUME NEW k \in 1..Len(from), k > 1 PROVE fs[k].op = Continuation
    <3>1. k \in 2..Len(from)
      BY <1>2, <2>2
    <3> QED
      BY <1>3, <3>1 DEF WholeMessage
  <2> QED
    BY <2>1, <2>2 DEF Misplaced
<1>5. FromDataframes(fs) # Err("NonContinuation")
  <2> HIDE DEF fs
  <2> QED
    BY <1>4, ContinuationsAccepted
<1>6. FromDataframes(fs).kind = "message" => FromDataframes(fs).op = w[from[1]].op
  <2>1. 1 \in 1..Len(from)
    BY <1>2
  <2> HIDE DEF fs
  <2>2. fs[1] = w[from[1]]
    BY <1>3, <2>1
  <2> QED
    BY <2>2, MessageOpcode
<1> HIDE DEF fs, res
<1>7. WholeResult(w, res)
  BY <1>1, <1>5, <1>6 DEF WholeResult
<1> QED
  BY <1>7 DEF res, fs

\* A result that was whole stays so while the wire grows.
LEMMA WholeKept ==
    ASSUME NEW n \in Nat, NEW m \in Nat, n <= m, NEW w, NEW v,
           \A i \in 1..m : v[i] = w[i],
           NEW res, res.from \in Seq(1..n), WholeResult(w, res)
    PROVE  WholeResult(v, res)
<1>1. \A k \in 1..Len(res.from) : v[res.from[k]] = w[res.from[k]]
  OBVIOUS
<1>2. Len(res.from) \in Nat /\ (res.from # <<>> => Len(res.from) >= 1)
  OBVIOUS
<1>3. ASSUME WholeMessage(w, res.from) PROVE WholeMessage(v, res.from)
  <2>1. /\ res.from # <<>>
        /\ \A k \in 2..Len(res.from) : w[res.from[k]].op = Continuation
        /\ \A k \in 1..Len(res.from) : w[res.from[k]].fin <=> k = Len(res.from)
    BY <1>3 DEF WholeMessage
  <2>2. 2..Len(res.from) \subseteq 1..Len(res.from)
    BY <1>2
  <2>3. \A k \in 2..Len(res.from) : v[res.from[k]].op = Continuation
    BY <1>1, <2>1, <2>2, Zenon
  <2>4. \A k \in 1..Len(res.from) : v[res.from[k]].fin <=> k = Len(res.from)
    BY <1>1, <2>1, Zenon
  <2> QED
    BY <2>1, <2>3, <2>4, Zenon DEF WholeMessage
<1>4. ASSUME res.from # <<>> PROVE v[res.from[1]] = w[res.from[1]]
  BY <1>1, <1>2, <1>4
<1> QED
  BY <1>3, <1>4 DEF WholeResult, WholeMessage

\* A message in progress stays one when more frames are sent.
LEMMA OpenKept ==
    ASSUME NEW n \in Nat, NEW m \in Nat, n <= m, NEW w, NEW v,
           \A i \in 1..m : v[i] = w[i],
           NEW b \in Seq(1..n), OpenMessage(w, b)
    PROVE  OpenMessage(v, b)
<1>1. \A k \in 1..Len(b) : v[b[k]] = w[b[k]]
  OBVIOUS
<1>2. Len(b) \in Nat /\ (b # <<>> => Len(b) >= 1)
  OBVIOUS
<1>3. \A k \in 1..Len(b) : ~v[b[k]].fin
  BY <1>1, <1>2 DEF OpenMessage
<1>4. \A k \in 2..Len(b) : v[b[k]].op = Continuation
  BY <1>1, <1>2 DEF OpenMessage
<1>5. b # <<>> => v[b[1]].op \in DataOps
  BY <1>1, <1>2 DEF OpenMessage
<1> QED
  BY <1>3, <1>4, <1>5 DEF OpenMessage

\* What holds of the results so far holds after a step, if it holds of the new one.
LEMMA WholeResultsKept ==
    ASSUME TypeOK, [Next]_vars, WholeInv
    PROVE  \A r \in DOMAIN results : WholeResult(wire', results[r])
<1>1. /\ consumed \in Nat /\ Len(wire) \in Nat /\ consumed <= Len(wire)
      /\ \A r \in DOMAIN results : results[r].from \in Seq(1..consumed)
  BY DEF TypeOK, ResultsTyped
<1>2. \A i \in 1..Len(wire) : wire'[i] = wire[i]
  BY WireKept
<1> QED
  BY <1>1, <1>2, WholeKept DEF WholeInv

\* A step that adds a whole result to whole results leaves all of them whole.
LEMMA WholeResultAdded ==
    ASSUME TypeOK, [Next]_vars, WholeInv, NEW res,
           results' = Append(results, res), WholeResult(wire', res)
    PROVE  \A r \in DOMAIN results' : WholeResult(wire', results'[r])
<1>1. results \in Seq(ToSet(results))
  BY DEF TypeOK, ResultsTyped
<1>2. /\ DOMAIN results = 1..Len(results) /\ Len(results) \in Nat
      /\ DOMAIN results' = 1..(Len(results) + 1)
      /\ \A r \in 1..Len(results) : results'[r] = results[r]
      /\ results'[Len(results) + 1] = res
  BY <1>1, AppendAny
<1>3. \A r \in 1..Len(results) : WholeResult(wire', results[r])
  BY <1>2, WholeResultsKept
<1> QED
  BY <1>2, <1>3

\* A step that leaves the buffer alone leaves the message in progress open.
LEMMA OpenMessageKept ==
    ASSUME TypeOK, [Next]_vars, WholeInv
    PROVE  OpenMessage(wire', buffer)
<1>1. /\ consumed \in Nat /\ Len(wire) \in Nat /\ consumed <= Len(wire)
      /\ buffer \in Seq(1..consumed)
  BY DEF TypeOK
<1> QED
  BY <1>1, WireKept, OpenKept DEF WholeInv

\* Every result is whole, and the buffer holds the start of one message.
LEMMA WholeInvariant == Spec => []WholeInv
<1>1. Init => WholeInv
  BY DEF Init, WholeInv, OpenMessage
<1>2. TypeOK /\ WholeInv /\ [Next]_vars => WholeInv'
  <2> SUFFICES ASSUME TypeOK, WholeInv, [Next]_vars PROVE WholeInv'
    OBVIOUS
  <2> DEFINE n == consumed + 1
  <2>0. /\ consumed \in Nat /\ Len(wire) \in Nat
        /\ buffer \in Seq(1..consumed) /\ n \in Nat
        /\ Len(buffer) \in Nat
    BY DEF TypeOK
  <2>1. CASE \E f \in Frames : PeerSends(f)
    <3>1. results' = results /\ buffer' = buffer
      BY <2>1 DEF PeerSends
    <3> QED
      BY <3>1, WholeResultsKept, OpenMessageKept DEF WholeInv
  <2>2. CASE EmptyResult
    <3>1. /\ buffer' = buffer
          /\ \E out \in {Unknown} \cup {Err(e) : e \in HeaderFaults \cup ReadFaults} : \E cut :
                results' = Append(results, Result(out, <<>>, cut))
      BY <2>2 DEF EmptyResult
    <3>2. \A r \in DOMAIN results' : WholeResult(wire', results'[r])
      BY <3>1, ErrorWhole, WholeResultAdded
    <3> QED
      BY <3>1, <3>2, OpenMessageKept DEF WholeInv
  <2>3. CASE TakenAlone
    <3>1. /\ buffer' = buffer
          /\ \E out \in LoneAnswers :
                results' = Append(results, Result(out, <<consumed + 1>>, FALSE))
      BY <2>3 DEF TakenAlone, TakeAlone
    <3>2. \A r \in DOMAIN results' : WholeResult(wire', results'[r])
      BY <3>1, ErrorWhole, WholeResultAdded
    <3> QED
      BY <3>1, <3>2, OpenMessageKept DEF WholeInv
  <2>4. CASE ControlFrame
    <3>1. /\ buffer' = buffer /\ wire' = wire
          /\ results' = Append(results, Result(FromDataframes(FramesOf(<<n>>)), <<n>>, FALSE))
      BY <2>4 DEF ControlFrame, Deliver
    <3>2. wire[n].fin
      BY <2>4 DEF ControlFrame, FrameReady, NextFrame, HeaderFault
    <3>3. WholeMessage(wire, <<n>>)
      BY <2>0, <3>2 DEF WholeMessage
    <3>4. <<n>> \in Seq(1..n)
      BY <2>0
    <3>5. WholeResult(wire', Result(FromDataframes(FramesOf(<<n>>)), <<n>>, FALSE))
      BY <2>0, <3>1, <3>3, <3>4, MessageWhole DEF FramesOf
    <3>6. \A r \in DOMAIN results' : WholeResult(wire', results'[r])
      BY <3>1, <3>5, WholeResultAdded
    <3> QED
      BY <3>1, <3>6, OpenMessageKept DEF WholeInv
  <2>5. CASE Fragment
    <3>1. /\ buffer' = Append(buffer, n) /\ wire' = wire /\ results' = results
          /\ ~wire[n].fin
          /\ IF buffer = <<>> THEN wire[n].op \in DataOps ELSE wire[n].op = Continuation
      BY <2>5 DEF Fragment, Fits, NextFrame
    <3>2. OpenMessage(wire, Append(buffer, n))
      <4>1. /\ Len(Append(buffer, n)) = Len(buffer) + 1
            /\ Append(buffer, n)[Len(buffer) + 1] = n
            /\ \A k \in 1..Len(buffer) : Append(buffer, n)[k] = buffer[k]
            /\ buffer = <<>> <=> Len(buffer) = 0
        BY <2>0
      <4>2. OpenMessage(wire, buffer)
        BY DEF WholeInv
      <4> DEFINE b == Append(buffer, n)
      <4>3. \A k \in 1..Len(b) : k \in 1..Len(buffer) \/ k = Len(buffer) + 1
        BY <2>0, <4>1
      <4> HIDE DEF n, b
      <4>4. \A k \in 1..Len(b) : ~wire[b[k]].fin
        BY <3>1, <4>1, <4>2, <4>3 DEF OpenMessage, b
      <4>5. ASSUME NEW k \in 2..Len(b) PROVE wire[b[k]].op = Continuation
        <5>1. CASE k \in 2..Len(buffer)
          BY <4>1, <4>2, <5>1 DEF OpenMessage, b
        <5>2. CASE k = Len(buffer) + 1
          BY <3>1, <4>1, <5>2 DEF b
        <5> QED
          BY <2>0, <4>1, <5>1, <5>2 DEF b
      <4>6. wire[b[1]].op \in DataOps
        <5>1. CASE buffer = <<>>
          BY <3>1, <4>1, <5>1 DEF b
        <5>2. CASE buffer # <<>>
          <6>1. 1 \in 1..Len(buffer)
            BY <2>0, <4>1, <5>2
          <6> QED
            BY <4>1, <4>2, <5>2, <6>1 DEF OpenMessage, b
        <5> QED
          BY <5>1, <5>2
      <4> QED
        BY <4>4, <4>5, <4>6 DEF OpenMessage, b
    <3> QED
      BY <3>1, <3>2, WholeResultsKept DEF WholeInv
  <2>6. CASE FinishMessage
    <3>1. /\ buffer' = <<>> /\ wire' = wire
          /\ results' = Append(results,
                Result(FromDataframes(FramesOf(Append(buffer, n))), Append(buffer, n), FALSE))
          /\ wire[n].fin
          /\ buffer # <<>> => wire[n].op = Continuation
      BY <2>6 DEF FinishMessage, Deliver, Fits, NextFrame
    <3>2. WholeMessage(wire, Append(buffer, n))
      <4>1. /\ Len(Append(buffer, n)) = Len(buffer) + 1
            /\ Append(buffer, n)[Len(buffer) + 1] = n
            /\ \A k \in 1..Len(buffer) : Append(buffer, n)[k] = buffer[k]
            /\ buffer = <<>> <=> Len(buffer) = 0
            /\ Append(buffer, n) # <<>>
        BY <2>0
      <4>2. OpenMessage(wire, buffer)
        BY DEF WholeInv
      <4> DEFINE b == Append(buffer, n)
      <4>3. \A k \in 1..Len(b) : k \in 1..Len(buffer) \/ k = Len(buffer) + 1
        BY <2>0, <4>1
      <4> HIDE DEF n, b
      <4>4. ASSUME NEW k \in 1..Len(b) PROVE wire[b[k]].fin <=> k = Len(b)
        <5>1. CASE k \in 1..Len(buffer)
          <6>1. k # Len(b)
            BY <2>0, <4>1, <5>1 DEF b
          <6> QED
            BY <4>1, <4>2, <5>1, <6>1 DEF OpenMessage, b
        <5>2. CASE k = Len(buffer) + 1
          BY <3>1, <4>1, <5>2 DEF b
        <5> QED
          BY <4>3, <5>1, <5>2
      <4>5. ASSUME NEW k \in 2..Len(b) PROVE wire[b[k]].op = Continuation
        <5>1. CASE k \in 2..Len(buffer)
          BY <4>1, <4>2, <5>1 DEF OpenMessage, b
        <5>2. CASE k = Len(buffer) + 1
          <6>1. buffer # <<>>
            BY <2>0, <4>1, <5>2
          <6> QED
            BY <3>1, <4>1, <5>2, <6>1 DEF b
        <5> QED
          BY <2>0, <4>1, <5>1, <5>2 DEF b
      <4> QED
        BY <4>1, <4>4, <4>5 DEF WholeMessage, b
    <3>3. Append(buffer, n) \in Seq(1..n)
      BY <2>0, WiderSeq
    <3>4. WholeResult(wire', Result(FromDataframes(FramesOf(Append(buffer, n))),
                                    Append(buffer, n), FALSE))
      BY <2>0, <3>1, <3>2, <3>3, MessageWhole DEF FramesOf
    <3>5. \A r \in DOMAIN results' : WholeResult(wire', results'[r])
      BY <3>1, <3>4, WholeResultAdded
    <3>6. OpenMessage(wire', buffer')
      BY <3>1 DEF OpenMessage
    <3> QED
      BY <3>5, <3>6 DEF WholeInv
  <2>7. CASE UNCHANGED vars
    BY <2>7 DEF vars, WholeInv
  <2> QED
    BY <2>1, <2>2, <2>3, <2>4, <2>5, <2>6, <2>7, StepCases
<1> QED
  BY <1>1, <1>2, TypeCorrect, PTL DEF Spec

\* Every text or binary message that is delivered is one whole message as it was
\* sent, whatever the peer does and wherever the calls are interrupted.
THEOREM MessagesAreWhole == Spec => []WholeMessages
<1>1. TypeOK /\ WholeInv => WholeMessages
  <2> SUFFICES ASSUME TypeOK, WholeInv, NEW r \in DOMAIN results, DataMessage(r)
               PROVE  LET fs == FramesOf(results[r].from) IN
                      /\ results[r].out.op = fs[1].op
                      /\ \A k \in 2..Len(fs) : fs[k].op = Continuation
                      /\ \A k \in DOMAIN fs : fs[k].fin <=> k = Len(fs)
    BY DEF WholeMessages
  <2> DEFINE from == results[r].from
             fs   == FramesOf(from)
  <2>1. /\ from \in Seq(1..consumed) /\ consumed \in Nat
        /\ WholeMessage(wire, from)
        /\ results[r].out.op = wire[from[1]].op
    BY DEF TypeOK, ResultsTyped, WholeInv, WholeResult, DataMessage
  <2> HIDE DEF from
  <2>2. /\ Len(from) \in Nat /\ Len(from) >= 1 /\ DOMAIN from = 1..Len(from)
    BY <2>1 DEF WholeMessage
  <2>3. /\ DOMAIN fs = 1..Len(from)
        /\ \A k \in 1..Len(from) : fs[k] = wire[from[k]]
    BY <2>2 DEF FramesOf
  <2>4. Len(fs) = Len(from)
    BY <2>2, <2>3
  <2> HIDE DEF fs
  <2>5. results[r].out.op = fs[1].op
    BY <2>1, <2>2, <2>3
  <2>6. \A k \in 2..Len(from) : k \in 1..Len(from)
    BY <2>2
  <2>7. \A k \in 2..Len(from) : fs[k].op = Continuation
    BY <2>1, <2>3, <2>6 DEF WholeMessage
  <2>8. \A k \in 1..Len(from) : fs[k].fin <=> k = Len(from)
    BY <2>1, <2>3 DEF WholeMessage
  <2> QED
    BY <2>3, <2>4, <2>5, <2>7, <2>8 DEF fs, from
<1> QED
  BY <1>1, TypeCorrect, WholeInvariant, PTL

\* The check of from_dataframes for a frame that does not continue the message never
\* fails on what the receiving sides pass it.
THEOREM NeverRefusedLate == Spec => []NoLateRefusal
<1>1. WholeInv => NoLateRefusal
  BY DEF WholeInv, WholeResult, NoLateRefusal
<1> QED
  BY <1>1, WholeInvariant, PTL

-----------------------------------------------------------------------------
(* No fragment is lost *)

\* The result a step adds is the last one.
LEMMA LastResult ==
    ASSUME TypeOK, NEW res, results' = Append(results, res)
    PROVE  Len(results') = Len(results) + 1 /\ results'[Len(results')] = res
BY AppendAny DEF TypeOK, ResultsTyped

\* No error, no control frame and no interrupted call loses a fragment of the
\* message in progress: it grows by the frame taken or is handed over whole.
THEOREM FragmentsNeverLost == Spec => FragmentsKept
<1> DEFINE Kept == buffer' # buffer =>
              \/ buffer' = Append(buffer, consumed') /\ results' = results
              \/ /\ buffer' = <<>>
                 /\ Len(results') = Len(results) + 1
                 /\ results'[Len(results')].from = Append(buffer, consumed')
<1>1. TypeOK /\ [Next]_vars => [Kept]_vars
  <2> SUFFICES ASSUME TypeOK, Next, buffer' # buffer
               PROVE  \/ buffer' = Append(buffer, consumed') /\ results' = results
                      \/ /\ buffer' = <<>>
                         /\ Len(results') = Len(results) + 1
                         /\ results'[Len(results')].from = Append(buffer, consumed')
    OBVIOUS
  <2>1. Fragment \/ FinishMessage
    BY StepCases DEF PeerSends, EmptyResult, TakenAlone, TakeAlone, ControlFrame
  <2>2. CASE Fragment
    BY <2>2 DEF Fragment
  <2>3. CASE FinishMessage
    <3>1. PICK out : results' = Append(results, Result(out, Append(buffer, consumed'), FALSE))
      BY <2>3 DEF FinishMessage, Deliver
    <3>2. Result(out, Append(buffer, consumed'), FALSE).from = Append(buffer, consumed')
      BY DEF Result
    <3>3. /\ Len(results') = Len(results) + 1
          /\ results'[Len(results')] = Result(out, Append(buffer, consumed'), FALSE)
      BY <3>1, LastResult
    <3>4. buffer' = <<>>
      BY <2>3 DEF FinishMessage
    <3> QED
      BY <3>2, <3>3, <3>4
  <2> QED
    BY <2>1, <2>2, <2>3
<1> QED
  BY <1>1, TypeCorrect, PTL DEF Spec, FragmentsKept

-----------------------------------------------------------------------------
(* Every frame is accounted for once *)

\* Frame i is in the buffer, or in exactly one result.
Accounted(i, b, rs) ==
    \/ /\ i \in ToSet(b)
       /\ \A r \in DOMAIN rs : i \notin ToSet(rs[r].from)
    \/ /\ i \notin ToSet(b)
       /\ \E r \in DOMAIN rs :
             /\ i \in ToSet(rs[r].from)
             /\ \A q \in DOMAIN rs \ {r} : i \notin ToSet(rs[q].from)

\* The elements of the sequences the steps build.
LEMMA ToSetFacts ==
    /\ \A S : \A s \in Seq(S) : ToSet(s) \subseteq S
    /\ ToSet(<<>>) = {}
    /\ \A x : ToSet(<<x>>) = {x}
    /\ \A S : \A s \in Seq(S), x \in S : ToSet(Append(s, x)) = ToSet(s) \cup {x}
<1>1. \A S : \A s \in Seq(S) : ToSet(s) \subseteq S
  BY DEF ToSet
<1>2. ToSet(<<>>) = {} /\ \A x : ToSet(<<x>>) = {x}
  BY DEF ToSet
<1>3. ASSUME NEW S, NEW s \in Seq(S), NEW x \in S
      PROVE  ToSet(Append(s, x)) = ToSet(s) \cup {x}
  <2>1. /\ DOMAIN s = 1..Len(s) /\ Len(s) \in Nat
        /\ DOMAIN Append(s, x) = 1..(Len(s) + 1)
        /\ \A k \in 1..Len(s) : Append(s, x)[k] = s[k]
        /\ Append(s, x)[Len(s) + 1] = x
    OBVIOUS
  <2> DEFINE t == Append(s, x)
  <2> HIDE DEF t
  <2>2. ASSUME NEW y \in ToSet(t) PROVE y \in ToSet(s) \cup {x}
    BY <2>1 DEF ToSet, t
  <2>3. ASSUME NEW y \in ToSet(s) \cup {x} PROVE y \in ToSet(t)
    BY <2>1 DEF ToSet, t
  <2> QED
    BY <2>2, <2>3 DEF t
<1> QED
  BY <1>1, <1>2, <1>3

\* A frame stays accounted for while its place in the buffer and the results stay.
LEMMA AccountedSame ==
    ASSUME NEW i, NEW b, NEW c, NEW rs,
           i \in ToSet(c) <=> i \in ToSet(b), Accounted(i, b, rs)
    PROVE  Accounted(i, c, rs)
BY DEF Accounted

\* A result added to the others keeps every frame accounted for, when the frames it
\* takes are those that leave the buffer or have just been read.
LEMMA AccountedAdded ==
    ASSUME NEW n \in Nat, NEW m \in {n, n + 1}, NEW rs, ResultsTyped(n, rs),
           NEW b \in Seq(1..n), NEW c, NEW res,
           \A i \in 1..n : Accounted(i, b, rs),
           ToSet(c) \cap ToSet(res.from) = {},
           ToSet(c) \cup ToSet(res.from) = ToSet(b) \cup ((n + 1)..m)
    PROVE  \A i \in 1..m : Accounted(i, c, Append(rs, res))
<1> DEFINE rs2 == Append(rs, res)
<1>1. /\ DOMAIN rs = 1..Len(rs) /\ Len(rs) \in Nat
      /\ DOMAIN rs2 = 1..(Len(rs) + 1)
      /\ \A r \in 1..Len(rs) : rs2[r] = rs[r]
      /\ rs2[Len(rs) + 1] = res
  BY AppendAny DEF ResultsTyped
<1>2. \A r \in DOMAIN rs : ToSet(rs[r].from) \subseteq 1..n
  BY ToSetFacts DEF ResultsTyped
<1>3. ToSet(b) \subseteq 1..n
  BY ToSetFacts
<1> SUFFICES ASSUME NEW i \in 1..m PROVE Accounted(i, c, rs2)
  OBVIOUS
<1> HIDE DEF rs2
<1>4. CASE i \in ToSet(b) \cup ((n + 1)..m)
  <2>1. \A r \in DOMAIN rs : i \notin ToSet(rs[r].from)
    <3>1. CASE i \in ToSet(b)
      <4>1. Accounted(i, b, rs)
        BY <1>3, <3>1
      <4> QED
        BY <3>1, <4>1 DEF Accounted
    <3>2. CASE i \in (n + 1)..m
      <4>1. i \notin 1..n
        BY <3>2
      <4> QED
        BY <1>2, <4>1
    <3> QED
      BY <1>4, <3>1, <3>2
  <2>2. CASE i \in ToSet(c)
    BY <1>1, <2>1, <2>2 DEF Accounted
  <2>3. CASE i \in ToSet(res.from)
    <3>1. i \notin ToSet(c)
      BY <2>3
    <3>2. \A q \in DOMAIN rs2 \ {Len(rs) + 1} : i \notin ToSet(rs2[q].from)
      BY <1>1, <2>1
    <3> QED
      BY <1>1, <2>3, <3>1, <3>2 DEF Accounted
  <2> QED
    BY <1>4, <2>2, <2>3
<1>5. CASE i \notin ToSet(b) \cup ((n + 1)..m)
  <2>1. i \in 1..n /\ i \notin ToSet(b) /\ i \notin ToSet(c) /\ i \notin ToSet(res.from)
    BY <1>5
  <2>2. PICK r \in DOMAIN rs : /\ i \in ToSet(rs[r].from)
                               /\ \A q \in DOMAIN rs \ {r} : i \notin ToSet(rs[q].from)
    BY <2>1 DEF Accounted
  <2>3. r \in DOMAIN rs2 /\ i \in ToSet(rs2[r].from)
    BY <1>1, <2>2
  <2>4. \A q \in DOMAIN rs2 \ {r} : i \notin ToSet(rs2[q].from)
    BY <1>1, <2>1, <2>2
  <2> QED
    BY <2>1, <2>3, <2>4 DEF Accounted
<1> QED
  BY <1>4, <1>5

\* Every frame taken from the stream is accounted for once, by one result or by the
\* message in progress: none is lost and none is delivered twice.
THEOREM FramesAccounted == Spec => []FramesAccountedFor
<1> DEFINE Inv == \A i \in 1..consumed : Accounted(i, buffer, results)
<1>0. FramesAccountedFor <=> Inv
  BY DEF FramesAccountedFor, Accounted
<1>1. Init => Inv
  BY DEF Init
<1>2. TypeOK /\ Inv /\ [Next]_vars => Inv'
  <2> SUFFICES ASSUME TypeOK, Inv, [Next]_vars PROVE Inv'
    OBVIOUS
  <2> DEFINE n == consumed + 1
  <2>0. /\ consumed \in Nat /\ buffer \in Seq(1..consumed)
        /\ ResultsTyped(consumed, results)
        /\ \A i \in 1..consumed : Accounted(i, buffer, results)
        /\ ToSet(buffer) \subseteq 1..consumed
        /\ ToSet(Append(buffer, n)) = ToSet(buffer) \cup {n}
    <3>1. /\ consumed \in Nat /\ buffer \in Seq(1..consumed)
          /\ ResultsTyped(consumed, results)
          /\ \A i \in 1..consumed : Accounted(i, buffer, results)
      BY DEF TypeOK
    <3>2. buffer \in Seq(1..n) /\ n \in 1..n
      BY <3>1, WiderSeq
    <3> QED
      BY <3>1, <3>2, ToSetFacts
  <2>1. CASE \E f \in Frames : PeerSends(f)
    BY <2>0, <2>1 DEF PeerSends
  <2>2. CASE EmptyResult
    <3>1. PICK out, cut : results' = Append(results, Result(out, <<>>, cut))
      BY <2>2 DEF EmptyResult
    <3>2. buffer' = buffer /\ consumed' = consumed
      BY <2>2 DEF EmptyResult
    <3>3. ToSet(Result(out, <<>>, cut).from) = {}
      BY ToSetFacts DEF Result
    <3>4. (consumed + 1)..consumed = {}
      BY <2>0
    <3>5. \A i \in 1..consumed : Accounted(i, buffer, results')
      BY <2>0, <3>1, <3>3, <3>4, AccountedAdded
    <3> QED
      BY <3>2, <3>5
  <2>3. CASE TakenAlone \/ ControlFrame
    <3>1. PICK out : results' = Append(results, Result(out, <<n>>, FALSE))
      BY <2>3 DEF TakenAlone, TakeAlone, ControlFrame, Deliver
    <3>2. buffer' = buffer /\ consumed' = n
      BY <2>3 DEF TakenAlone, TakeAlone, ControlFrame, Deliver
    <3>3. ToSet(Result(out, <<n>>, FALSE).from) = {n}
      BY ToSetFacts DEF Result
    <3>4. (consumed + 1)..n = {n} /\ n \in Nat /\ n \notin 1..consumed /\ n \in {consumed, consumed + 1}
      BY <2>0
    <3> DEFINE res == Result(out, <<n>>, FALSE)
    <3>4a. ToSet(buffer) \cap ToSet(res.from) = {}
      BY <2>0, <3>3, <3>4, Zenon
    <3>4b. ToSet(buffer) \cup ToSet(res.from) = ToSet(buffer) \cup ((consumed + 1)..n)
      BY <3>3, <3>4, Zenon
    <3> HIDE DEF res, n
    <3>5. \A i \in 1..n : Accounted(i, buffer, results')
      BY <2>0, <3>1, <3>4, <3>4a, <3>4b, AccountedAdded DEF res
    <3> QED
      BY <3>2, <3>5
  <2>4. CASE Fragment
    <3>1. buffer' = Append(buffer, n) /\ consumed' = n /\ results' = results
      BY <2>4 DEF Fragment
    <3>2. \A r \in DOMAIN results : ToSet(results[r].from) \subseteq 1..consumed
      BY <2>0, ToSetFacts DEF ResultsTyped
    <3>3. ASSUME NEW i \in 1..n PROVE Accounted(i, Append(buffer, n), results)
      <4>1. CASE i = n
        <5>1. i \in ToSet(Append(buffer, n)) /\ i \notin 1..consumed
          BY <2>0, <4>1
        <5>2. \A r \in DOMAIN results : i \notin ToSet(results[r].from)
          BY <3>2, <5>1
        <5> QED
          BY <5>1, <5>2 DEF Accounted
      <4>2. CASE i # n
        <5>1. i \in 1..consumed
          BY <2>0, <4>2
        <5>2. Accounted(i, buffer, results)
          BY <2>0, <5>1
        <5>3. i \in ToSet(Append(buffer, n)) <=> i \in ToSet(buffer)
          BY <2>0, <4>2
        <5> QED
          BY <5>2, <5>3, AccountedSame
      <4> QED
        BY <4>1, <4>2
    <3> QED
      BY <3>1, <3>3
  <2>5. CASE FinishMessage
    <3>1. PICK out : results' = Append(results, Result(out, Append(buffer, n), FALSE))
      BY <2>5 DEF FinishMessage, Deliver
    <3>2. buffer' = <<>> /\ consumed' = n
      BY <2>5 DEF FinishMessage, Deliver
    <3>3. /\ ToSet(Result(out, Append(buffer, n), FALSE).from) = ToSet(buffer) \cup {n}
          /\ ToSet(<<>>) = {}
      BY <2>0, ToSetFacts DEF Result
    <3>4. (consumed + 1)..n = {n} /\ n \in Nat
      BY <2>0
    <3>5. \A i \in 1..n : Accounted(i, <<>>, results')
      BY <2>0, <3>1, <3>3, <3>4, AccountedAdded
    <3> QED
      BY <3>2, <3>5
  <2>6. CASE UNCHANGED vars
    BY <2>0, <2>6 DEF vars
  <2> QED
    BY <2>1, <2>2, <2>3, <2>4, <2>5, <2>6, StepCases
<1> QED
  BY <1>0, <1>1, <1>2, TypeCorrect, PTL DEF Spec

-----------------------------------------------------------------------------
(* Results come in order *)

LastOf(res) == res.from[Len(res.from)]
Data(res)   == res.out.kind = "message" /\ res.out.op \in DataOps

\* q comes before r: it was completed first, and data messages do not interleave.
Precedes(q, r) ==
    q.from # <<>> /\ r.from # <<>> =>
        /\ LastOf(q) < LastOf(r)
        /\ Data(q) /\ Data(r) => LastOf(q) < r.from[1]

InOrder(rs) == \A q, r \in DOMAIN rs : q < r => Precedes(rs[q], rs[r])

\* The message in progress began after the last data message was delivered.
BeganAfter(rs, b) ==
    b # <<>> => \A r \in DOMAIN rs :
                    Data(rs[r]) /\ rs[r].from # <<>> => LastOf(rs[r]) < b[1]

OrderInv == InOrder(results) /\ BeganAfter(results, buffer)

\* The frame that completes a result has been taken.
LEMMA LastBound ==
    ASSUME NEW n \in Nat, NEW rs, ResultsTyped(n, rs)
    PROVE  \A r \in DOMAIN rs : rs[r].from # <<>> => LastOf(rs[r]) \in 1..n
<1> SUFFICES ASSUME NEW r \in DOMAIN rs, rs[r].from # <<>> PROVE LastOf(rs[r]) \in 1..n
  OBVIOUS
<1> DEFINE from == rs[r].from
<1>1. from \in Seq(1..n) /\ from # <<>>
  BY DEF ResultsTyped
<1> HIDE DEF from
<1>2. from[Len(from)] \in 1..n
  BY <1>1
<1> QED
  BY <1>2 DEF LastOf, from

\* Results stay in order when the one added comes after all of them.
LEMMA InOrderAdded ==
    ASSUME NEW n \in Nat, NEW rs, ResultsTyped(n, rs), NEW res, InOrder(rs),
           \A q \in DOMAIN rs : Precedes(rs[q], res)
    PROVE  InOrder(Append(rs, res))
<1>1. /\ DOMAIN rs = 1..Len(rs) /\ Len(rs) \in Nat
      /\ DOMAIN Append(rs, res) = 1..(Len(rs) + 1)
      /\ \A r \in 1..Len(rs) : Append(rs, res)[r] = rs[r]
      /\ Append(rs, res)[Len(rs) + 1] = res
  BY AppendAny DEF ResultsTyped
<1> SUFFICES ASSUME NEW q \in 1..(Len(rs) + 1), NEW r \in 1..(Len(rs) + 1), q < r
             PROVE  Precedes(Append(rs, res)[q], Append(rs, res)[r])
  BY <1>1 DEF InOrder
<1>2. q \in 1..Len(rs)
  BY <1>1
<1>3. CASE r = Len(rs) + 1
  BY <1>1, <1>2, <1>3
<1>4. CASE r # Len(rs) + 1
  <2>1. r \in 1..Len(rs)
    BY <1>1, <1>4
  <2> QED
    BY <1>1, <1>2, <2>1 DEF InOrder
<1> QED
  BY <1>3, <1>4

\* A result that is no data message does not move the start of the one in progress.
LEMMA BeganAfterAdded ==
    ASSUME NEW n \in Nat, NEW rs, ResultsTyped(n, rs), NEW res, NEW b,
           BeganAfter(rs, b), ~Data(res)
    PROVE  BeganAfter(Append(rs, res), b)
<1>1. /\ DOMAIN rs = 1..Len(rs) /\ Len(rs) \in Nat
      /\ DOMAIN Append(rs, res) = 1..(Len(rs) + 1)
      /\ \A r \in 1..Len(rs) : Append(rs, res)[r] = rs[r]
      /\ Append(rs, res)[Len(rs) + 1] = res
  BY AppendAny DEF ResultsTyped
<1> QED
  BY <1>1 DEF BeganAfter

\* A result made of the next frame alone follows all the others, unless it is a data
\* message.
LEMMA NextPrecedes ==
    ASSUME NEW n \in Nat, NEW rs, ResultsTyped(n, rs), NEW out, ~Data(Result(out, <<n + 1>>, FALSE))
    PROVE  \A q \in DOMAIN rs : Precedes(rs[q], Result(out, <<n + 1>>, FALSE))
<1> DEFINE res == Result(out, <<n + 1>>, FALSE)
<1>1. res.from = <<n + 1>>
  BY DEF Result
<1> HIDE DEF res
<1>2. LastOf(res) = n + 1
  BY <1>1 DEF LastOf
<1>3. \A q \in DOMAIN rs : rs[q].from # <<>> => LastOf(rs[q]) < LastOf(res)
  BY <1>2, LastBound
<1>4. ~Data(res)
  BY DEF res
<1>5. \A q \in DOMAIN rs : Precedes(rs[q], res)
  BY <1>3, <1>4 DEF Precedes
<1> QED
  BY <1>5 DEF res

\* An error is no data message.
LEMMA ErrorNotData ==
    ASSUME NEW out, NEW from, NEW cut,
           out \in {Unknown} \cup LoneAnswers \cup {Err(e) : e \in HeaderFaults \cup ReadFaults}
    PROVE  ~Data(Result(out, from, cut))
<1>1. Result(out, from, cut).out = out
  BY DEF Result
<1>2. out.kind # "message"
  BY ErrFields DEF Unknown, LoneAnswers, RawFrameOut
<1> QED
  BY <1>1, <1>2 DEF Data

\* A control frame is delivered as no data message.
LEMMA ControlNotData ==
    ASSUME NEW w, NEW n, w[n].op \in ControlOps, NEW cut
    PROVE  ~Data(Result(FromDataframes([k \in DOMAIN <<n>> |-> w[<<n>>[k]]]), <<n>>, cut))
<1> DEFINE fs == [k \in DOMAIN <<n>> |-> w[<<n>>[k]]]
<1>1. fs[1] = w[n]
  OBVIOUS
<1> HIDE DEF fs
<1>2. Result(FromDataframes(fs), <<n>>, cut).out = FromDataframes(fs)
  BY DEF Result
<1>3. FromDataframes(fs).kind = "message" => FromDataframes(fs).op \notin DataOps
  BY <1>1, MessageOpcode DEF ControlOps, DataOps
<1>4. ~Data(Result(FromDataframes(fs), <<n>>, cut))
  BY <1>2, <1>3 DEF Data
<1> QED
  BY <1>4 DEF fs

\* The results are in order, and the message in progress began after the last data
\* message delivered.
LEMMA OrderInvariant == Spec => []OrderInv
<1>1. Init => OrderInv
  BY DEF Init, OrderInv, InOrder, BeganAfter
<1>2. TypeOK /\ OrderInv /\ [Next]_vars => OrderInv'
  <2> SUFFICES ASSUME TypeOK, OrderInv, [Next]_vars PROVE OrderInv'
    OBVIOUS
  <2> DEFINE n == consumed + 1
  <2>0. /\ consumed \in Nat /\ buffer \in Seq(1..consumed)
        /\ ResultsTyped(consumed, results)
        /\ InOrder(results) /\ BeganAfter(results, buffer)
    BY DEF TypeOK, OrderInv
  <2>1. CASE \E f \in Frames : PeerSends(f)
    BY <2>0, <2>1 DEF PeerSends, OrderInv
  <2>2. CASE EmptyResult
    <3>1. PICK out \in {Unknown} \cup {Err(e) : e \in HeaderFaults \cup ReadFaults},
               cut \in BOOLEAN : results' = Append(results, Result(out, <<>>, cut))
      BY <2>2 DEF EmptyResult
    <3>2. buffer' = buffer
      BY <2>2 DEF EmptyResult
    <3>3. \A q \in DOMAIN results : Precedes(results[q], Result(out, <<>>, cut))
      BY DEF Precedes, Result
    <3>4. ~Data(Result(out, <<>>, cut))
      BY ErrorNotData
    <3>5. InOrder(results')
      BY <2>0, <3>1, <3>3, InOrderAdded
    <3>6. BeganAfter(results', buffer)
      BY <2>0, <3>1, <3>4, BeganAfterAdded
    <3> QED
      BY <3>2, <3>5, <3>6 DEF OrderInv
  <2>3. CASE TakenAlone \/ ControlFrame
    <3>1. PICK out : /\ results' = Append(results, Result(out, <<n>>, FALSE))
                     /\ ~Data(Result(out, <<n>>, FALSE))
      <4>1. CASE TakenAlone
        BY <4>1, ErrorNotData DEF TakenAlone, TakeAlone
      <4>2. CASE ControlFrame
        <5>1. wire[n].op \in ControlOps
          BY <4>2 DEF ControlFrame, NextFrame
        <5>2. ~Data(Result(FromDataframes(FramesOf(<<n>>)), <<n>>, FALSE))
          BY <5>1, ControlNotData DEF FramesOf
        <5> QED
          BY <4>2, <5>2 DEF ControlFrame, Deliver
      <4> QED
        BY <2>3, <4>1, <4>2
    <3>2. buffer' = buffer
      BY <2>3 DEF TakenAlone, TakeAlone, ControlFrame
    <3>3. InOrder(results')
      BY <2>0, <3>1, NextPrecedes, InOrderAdded
    <3>4. BeganAfter(results', buffer)
      BY <2>0, <3>1, BeganAfterAdded
    <3> QED
      BY <3>2, <3>3, <3>4 DEF OrderInv
  <2>4. CASE Fragment
    <3>1. buffer' = Append(buffer, n) /\ results' = results
      BY <2>4 DEF Fragment
    <3>2. BeganAfter(results, Append(buffer, n))
      <4>1. CASE buffer = <<>>
        <5>1. Append(buffer, n)[1] = n
          BY <4>1
        <5>2. \A r \in DOMAIN results : results[r].from # <<>> => LastOf(results[r]) < n
          BY <2>0, LastBound
        <5> QED
          BY <5>1, <5>2 DEF BeganAfter
      <4>2. CASE buffer # <<>>
        <5>1. Append(buffer, n)[1] = buffer[1]
          BY <2>0, <4>2
        <5> QED
          BY <2>0, <4>2, <5>1 DEF BeganAfter
      <4> QED
        BY <4>1, <4>2
    <3> QED
      BY <2>0, <3>1, <3>2 DEF OrderInv
  <2>5. CASE FinishMessage
    <3>1. PICK out : results' = Append(results, Result(out, Append(buffer, n), FALSE))
      BY <2>5 DEF FinishMessage, Deliver
    <3> DEFINE res == Result(out, Append(buffer, n), FALSE)
    <3>2. buffer' = <<>>
      BY <2>5 DEF FinishMessage
    <3>3. res.from = Append(buffer, n)
      BY DEF Result
    <3> HIDE DEF res
    <3>4. LastOf(res) = n
      BY <2>0, <3>3 DEF LastOf
    <3>5. \A q \in DOMAIN results : results[q].from # <<>> => LastOf(results[q]) < n
      BY <2>0, LastBound
    <3>6. \A q \in DOMAIN results :
              results[q].from # <<>> /\ Data(results[q]) => LastOf(results[q]) < res.from[1]
      <4>1. CASE buffer = <<>>
        <5>1. res.from[1] = n
          BY <3>3, <4>1
        <5> QED
          BY <3>5, <5>1
      <4>2. CASE buffer # <<>>
        <5>1. res.from[1] = buffer[1]
          BY <2>0, <3>3, <4>2
        <5> QED
          BY <2>0, <4>2, <5>1 DEF BeganAfter
      <4> QED
        BY <4>1, <4>2
    <3>7. \A q \in DOMAIN results : Precedes(results[q], res)
      BY <3>4, <3>5, <3>6 DEF Precedes
    <3>8. InOrder(results')
      BY <2>0, <3>1, <3>7, InOrderAdded DEF res
    <3>9. BeganAfter(results', <<>>)
      BY DEF BeganAfter
    <3> QED
      BY <3>2, <3>8, <3>9 DEF OrderInv
  <2>6. CASE UNCHANGED vars
    BY <2>0, <2>6 DEF vars, OrderInv
  <2> QED
    BY <2>1, <2>2, <2>3, <2>4, <2>5, <2>6, StepCases
<1> QED
  BY <1>1, <1>2, TypeCorrect, PTL DEF Spec

\* Results come in the order of the frames that complete them, and two text or binary
\* messages never interleave.
THEOREM ResultsComeInOrder == Spec => []ResultsInOrder
<1>1. OrderInv => ResultsInOrder
  BY DEF OrderInv, InOrder, Precedes, LastOf, Data, ResultsInOrder, Completes, DataMessage
<1> QED
  BY <1>1, OrderInvariant, PTL

-----------------------------------------------------------------------------
(* No message has a silent gap *)

\* Frame i is one of these, is a control frame, or one of the first k results told
\* the caller of it, as an error or as a raw frame.
Explained(w, i, from, rs, k) ==
    \/ i \in ToSet(from)
    \/ w[i].op \in ControlOps
    \/ \E q \in 1..k : rs[q].from = <<i>> /\ rs[q].out.kind \in {"error", "frame"}

NoGap(w, from, last, rs, k) ==
    from # <<>> => \A i \in from[1]..last : Explained(w, i, from, rs, k)

\* The message in progress has no silent gap either.
GapInv ==
    /\ NoGap(wire, buffer, consumed, results, Len(results))
    /\ \A r \in DOMAIN results :
          NoGap(wire, results[r].from, LastOf(results[r]), results, r - 1)

\* A gap once explained stays explained when frames and results are added.
LEMMA NoGapKept ==
    ASSUME NEW n \in Nat, NEW from \in Seq(1..n), NEW last \in 0..n,
           NEW w, NEW v, \A i \in 1..n : v[i] = w[i],
           NEW k \in Nat, NEW rs, NEW rs2, \A q \in 1..k : rs2[q] = rs[q],
           NoGap(w, from, last, rs, k)
    PROVE  NoGap(v, from, last, rs2, k)
<1> SUFFICES ASSUME from # <<>>, NEW i \in from[1]..last
             PROVE  Explained(v, i, from, rs2, k)
  BY DEF NoGap
<1>1. from[1] \in 1..n
  OBVIOUS
<1>2. i \in 1..n
  BY <1>1
<1>3. Explained(w, i, from, rs, k)
  BY DEF NoGap
<1> QED
  BY <1>2, <1>3 DEF Explained

\* One more frame, and perhaps one more result.
LEMMA NoGapNext ==
    ASSUME NEW c \in Nat, NEW from \in Seq(1..c), NEW w, NEW rs,
           NEW k \in Nat, NEW l \in {k, k + 1},
           NoGap(w, from, c, rs, k), Explained(w, c + 1, from, rs, l)
    PROVE  NoGap(w, from, c + 1, rs, l)
<1> SUFFICES ASSUME from # <<>>, NEW i \in from[1]..(c + 1), i # c + 1
             PROVE  Explained(w, i, from, rs, l)
  BY DEF NoGap
<1>1. from[1] \in 1..c
  OBVIOUS
<1>2. i \in from[1]..c
  BY <1>1
<1>3. Explained(w, i, from, rs, k)
  BY <1>2 DEF NoGap
<1>4. \A q \in 1..k : q \in 1..l
  OBVIOUS
<1> QED
  BY <1>3, <1>4 DEF Explained

\* What was explained stays so, while the wire and the results grow.
LEMMA GapsKept ==
    ASSUME TypeOK, GapInv, [Next]_vars,
           \/ results' = results
           \/ \E res : results' = Append(results, res)
    PROVE  /\ NoGap(wire', buffer, consumed, results', Len(results))
           /\ \A r \in DOMAIN results :
                 /\ results'[r] = results[r]
                 /\ NoGap(wire', results[r].from, LastOf(results[r]), results', r - 1)
<1>1. /\ consumed \in Nat /\ Len(wire) \in Nat /\ consumed <= Len(wire)
      /\ buffer \in Seq(1..consumed) /\ ResultsTyped(consumed, results)
      /\ results \in Seq(ToSet(results))
      /\ DOMAIN results = 1..Len(results) /\ Len(results) \in Nat
  BY DEF TypeOK, ResultsTyped
<1>2. \A i \in 1..consumed : wire'[i] = wire[i]
  BY <1>1, WireKept
<1>3. \A r \in 1..Len(results) : results'[r] = results[r]
  BY <1>1, AppendAny
<1>4. NoGap(wire', buffer, consumed, results', Len(results))
  <2>1. consumed \in 0..consumed
    BY <1>1
  <2>2. NoGap(wire, buffer, consumed, results, Len(results))
    BY DEF GapInv
  <2> QED
    BY <1>1, <1>2, <1>3, <2>1, <2>2, NoGapKept
<1>5. ASSUME NEW r \in DOMAIN results
      PROVE  NoGap(wire', results[r].from, LastOf(results[r]), results', r - 1)
  <2>1. results[r].from \in Seq(1..consumed) /\ r - 1 \in Nat
    BY <1>1 DEF ResultsTyped
  <2>2. \A q \in 1..(r - 1) : results'[q] = results[q]
    BY <1>1, <1>3
  <2>3. CASE results[r].from = <<>>
    BY <2>3 DEF NoGap
  <2>4. CASE results[r].from # <<>>
    <3>1. LastOf(results[r]) \in 1..consumed
      BY <1>1, <2>4, LastBound
    <3>2. NoGap(wire, results[r].from, LastOf(results[r]), results, r - 1)
      BY DEF GapInv
    <3>3. LastOf(results[r]) \in 0..consumed
      BY <1>1, <3>1
    <3> DEFINE from == results[r].from
               last == LastOf(results[r])
               k    == r - 1
    <3>4. /\ consumed \in Nat /\ from \in Seq(1..consumed) /\ last \in 0..consumed
          /\ k \in Nat /\ \A q \in 1..k : results'[q] = results[q]
          /\ NoGap(wire, from, last, results, k)
      BY <1>1, <2>1, <2>2, <3>2, <3>3
    <3> HIDE DEF from, last, k
    <3>5. NoGap(wire', from, last, results', k)
      BY <1>2, <3>4, NoGapKept
    <3> QED
      BY <3>5 DEF from, last, k
  <2> QED
    BY <2>3, <2>4
<1> QED
  BY <1>1, <1>3, <1>4, <1>5

\* A step that adds an explained result to explained results leaves all explained.
LEMMA GapAdded ==
    ASSUME TypeOK, GapInv, [Next]_vars, NEW res, results' = Append(results, res),
           NoGap(wire', res.from, LastOf(res), results', Len(results))
    PROVE  \A r \in DOMAIN results' :
              NoGap(wire', results'[r].from, LastOf(results'[r]), results', r - 1)
<1>1. /\ DOMAIN results = 1..Len(results) /\ Len(results) \in Nat
      /\ DOMAIN results' = 1..(Len(results) + 1)
      /\ results'[Len(results) + 1] = res
  BY AppendAny DEF TypeOK, ResultsTyped
<1> SUFFICES ASSUME NEW r \in 1..(Len(results) + 1)
             PROVE  NoGap(wire', results'[r].from, LastOf(results'[r]), results', r - 1)
  BY <1>1
<1>2. CASE r \in 1..Len(results)
  BY <1>1, <1>2, GapsKept
<1>3. CASE r = Len(results) + 1
  <2>1. r - 1 = Len(results)
    BY <1>1, <1>3
  <2>2. results'[r] = res
    BY <1>1, <1>3
  <2> QED
    BY <2>1, <2>2
<1> QED
  BY <1>1, <1>2, <1>3

\* A gap explained by k results is explained by one more.
LEMMA NoGapMoreResults ==
    ASSUME NEW w, NEW from, NEW last, NEW rs, NEW k \in Nat, NoGap(w, from, last, rs, k)
    PROVE  NoGap(w, from, last, rs, k + 1)
<1>1. \A q \in 1..k : q \in 1..(k + 1)
  OBVIOUS
<1> QED
  BY <1>1 DEF NoGap, Explained

\* The message in progress has no gap after it takes the next frame.
LEMMA AppendNoGap ==
    ASSUME NEW c \in Nat, NEW b \in Seq(1..c), NEW w, NEW rs, NEW k,
           NoGap(w, b, c, rs, k)
    PROVE  NoGap(w, Append(b, c + 1), c + 1, rs, k)
<1> DEFINE n == c + 1
           d == Append(b, n)
<1>1. /\ n \in Nat /\ b \in Seq(1..n) /\ n \in 1..n
      /\ b # <<>> => d[1] = b[1] /\ b[1] \in 1..c
      /\ b = <<>> => d[1] = n
  BY WiderSeq
<1>2. ToSet(d) = ToSet(b) \cup {n}
  BY <1>1, ToSetFacts
<1> HIDE DEF d
<1> SUFFICES ASSUME NEW i \in d[1]..n PROVE Explained(w, i, d, rs, k)
  BY DEF NoGap, d
<1>3. CASE i = n
  BY <1>2, <1>3 DEF Explained
<1>4. CASE i # n
  <2>1. b # <<>> /\ i \in b[1]..c
    BY <1>1, <1>4
  <2>2. Explained(w, i, b, rs, k)
    BY <2>1 DEF NoGap
  <2> QED
    BY <1>2, <2>2 DEF Explained
<1> QED
  BY <1>3, <1>4

\* A result for one frame has no gap.
LEMMA LoneFrameNoGap ==
    ASSUME NEW n \in Nat, NEW w, NEW out, NEW rs, NEW k
    PROVE  LET res == Result(out, <<n>>, FALSE) IN NoGap(w, res.from, LastOf(res), rs, k)
<1> DEFINE res == Result(out, <<n>>, FALSE)
<1>1. res.from = <<n>>
  BY DEF Result
<1>2. LastOf(res) = n
  <2> HIDE DEF res
  <2> QED
    BY <1>1 DEF LastOf
<1>3. \A i \in n..n : i \in ToSet(<<n>>)
  BY ToSetFacts
<1>4. <<n>>[1] = n
  OBVIOUS
<1> HIDE DEF res
<1>5. NoGap(w, res.from, LastOf(res), rs, k)
  <2>1. \A i \in res.from[1]..LastOf(res) : i \in ToSet(res.from)
    BY <1>1, <1>2, <1>3, <1>4
  <2> QED
    BY <2>1 DEF NoGap, Explained
<1> QED
  BY <1>5 DEF res

\* No delivered message and no message in progress has a silent gap.
LEMMA GapInvariant == Spec => []GapInv
<1>1. Init => GapInv
  BY DEF Init, GapInv, NoGap
<1>2. TypeOK /\ GapInv /\ [Next]_vars => GapInv'
  <2> SUFFICES ASSUME TypeOK, GapInv, [Next]_vars PROVE GapInv'
    OBVIOUS
  <2> DEFINE n == consumed + 1
             l == Len(results) + 1
  <2>0. /\ consumed \in Nat /\ n \in Nat /\ Len(results) \in Nat
        /\ buffer \in Seq(1..consumed)
        /\ buffer \in Seq(1..n) /\ n \in 1..n
    BY WiderSeq DEF TypeOK, ResultsTyped
  <2>1. CASE \E f \in Frames : PeerSends(f)
    <3>1. results' = results /\ buffer' = buffer /\ consumed' = consumed
      BY <2>1 DEF PeerSends
    <3> QED
      BY <3>1, GapsKept DEF GapInv
  <2>2. CASE EmptyResult
    <3>1. PICK out, cut : results' = Append(results, Result(out, <<>>, cut))
      BY <2>2 DEF EmptyResult
    <3>2. buffer' = buffer /\ consumed' = consumed /\ wire' = wire
      BY <2>2 DEF EmptyResult
    <3>3. NoGap(wire', Result(out, <<>>, cut).from, LastOf(Result(out, <<>>, cut)),
                results', Len(results))
      BY DEF NoGap, Result
    <3>4. \A r \in DOMAIN results' :
              NoGap(wire', results'[r].from, LastOf(results'[r]), results', r - 1)
      BY <3>1, <3>3, GapAdded
    <3>5. NoGap(wire', buffer, consumed, results', Len(results))
      BY <3>1, GapsKept
    <3>6. Len(results') = Len(results) + 1
      BY <3>1, LastResult
    <3>7. NoGap(wire', buffer, consumed, results', Len(results'))
      BY <2>0, <3>5, <3>6, NoGapMoreResults
    <3> QED
      BY <3>2, <3>4, <3>7 DEF GapInv
  <2>3. CASE TakenAlone \/ ControlFrame
    <3>1. PICK out : /\ results' = Append(results, Result(out, <<n>>, FALSE))
                     /\ out.kind \in {"error", "frame"} \/ wire[n].op \in ControlOps
      <4>1. \A out \in LoneAnswers : out.kind \in {"error", "frame"}
        BY ErrFields DEF LoneAnswers, RawFrameOut
      <4>2. CASE TakenAlone
        BY <4>1, <4>2 DEF TakenAlone, TakeAlone
      <4>3. CASE ControlFrame
        BY <4>3 DEF ControlFrame, Deliver, NextFrame
      <4> QED
        BY <2>3, <4>2, <4>3
    <3>2. buffer' = buffer /\ consumed' = n /\ wire' = wire
      BY <2>3 DEF TakenAlone, TakeAlone, ControlFrame, Deliver
    <3>3. LET res == Result(out, <<n>>, FALSE) IN
          NoGap(wire', res.from, LastOf(res), results', Len(results))
      BY <2>0, LoneFrameNoGap
    <3>4. \A r \in DOMAIN results' :
              NoGap(wire', results'[r].from, LastOf(results'[r]), results', r - 1)
      BY <3>1, <3>3, GapAdded
    <3>5. NoGap(wire', buffer, consumed, results', Len(results))
      BY <3>1, GapsKept
    <3>6. Len(results') = l /\ results'[l] = Result(out, <<n>>, FALSE)
      BY <3>1, LastResult
    <3>7. Explained(wire', n, buffer, results', l)
      <4>1. CASE wire[n].op \in ControlOps
        BY <3>2, <4>1 DEF Explained
      <4>2. CASE out.kind \in {"error", "frame"}
        <5>1. results'[l].from = <<n>> /\ results'[l].out.kind \in {"error", "frame"} /\ l \in 1..l
          BY <2>0, <3>6, <4>2 DEF Result
        <5> QED
          BY <5>1 DEF Explained
      <4> QED
        BY <3>1, <4>1, <4>2
    <3>8. NoGap(wire', buffer, n, results', l)
      BY <2>0, <3>5, <3>7, NoGapNext
    <3> QED
      BY <3>2, <3>4, <3>6, <3>8 DEF GapInv
  <2>4. CASE Fragment
    <3>1. /\ buffer' = Append(buffer, n) /\ consumed' = n /\ wire' = wire
          /\ results' = results
      BY <2>4 DEF Fragment
    <3>2. NoGap(wire', buffer, consumed, results', Len(results))
      BY <3>1, GapsKept
    <3>3. NoGap(wire', Append(buffer, n), n, results', Len(results))
      BY <2>0, <3>2, AppendNoGap
    <3> QED
      BY <3>1, <3>3, GapsKept DEF GapInv
  <2>5. CASE FinishMessage
    <3>1. PICK out : results' = Append(results, Result(out, Append(buffer, n), FALSE))
      BY <2>5 DEF FinishMessage, Deliver
    <3> DEFINE res == Result(out, Append(buffer, n), FALSE)
    <3>2. buffer' = <<>>
      BY <2>5 DEF FinishMessage
    <3>3. res.from = Append(buffer, n)
      BY DEF Result
    <3> HIDE DEF res
    <3>4. LastOf(res) = n
      BY <2>0, <3>3 DEF LastOf
    <3>5. NoGap(wire', buffer, consumed, results', Len(results))
      BY <3>1, GapsKept
    <3>6. NoGap(wire', Append(buffer, n), n, results', Len(results))
      BY <2>0, <3>5, AppendNoGap
    <3>7. results' = Append(results, res)
      BY <3>1 DEF res
    <3>8. \A r \in DOMAIN results' :
              NoGap(wire', results'[r].from, LastOf(results'[r]), results', r - 1)
      BY <3>3, <3>4, <3>6, <3>7, GapAdded
    <3>9. NoGap(wire', <<>>, consumed', results', Len(results'))
      BY DEF NoGap
    <3> QED
      BY <3>2, <3>8, <3>9 DEF GapInv
  <2>6. CASE UNCHANGED vars
    BY <2>6 DEF vars, GapInv
  <2> QED
    BY <2>1, <2>2, <2>3, <2>4, <2>5, <2>6, StepCases
<1> QED
  BY <1>1, <1>2, TypeCorrect, PTL DEF Spec

\* Between the first and the last frame of a message there are only its own frames,
\* control frames and frames that were reported before, as errors or raw.
THEOREM GapsAreReported == Spec => []NoSilentGap
<1>1. TypeOK /\ GapInv => NoSilentGap
  <2> SUFFICES ASSUME TypeOK, GapInv, NEW r \in DOMAIN results, results[r].from # <<>>,
                      NEW i \in results[r].from[1]..Completes(r)
               PROVE  \/ i \in ToSet(results[r].from)
                      \/ wire[i].op \in ControlOps
                      \/ \E q \in 1..(r - 1) :
                            results[q].from = <<i>> /\ results[q].out.kind \in {"error", "frame"}
    BY DEF NoSilentGap
  <2>1. NoGap(wire, results[r].from, LastOf(results[r]), results, r - 1)
    BY DEF GapInv
  <2> QED
    BY <2>1 DEF NoGap, Explained, LastOf, Completes
<1> QED
  BY <1>1, TypeCorrect, GapInvariant, PTL

-----------------------------------------------------------------------------
(* What is looked up on the wire: a peer that keeps the rules of            *)
(* fragmentation has every message it finishes delivered, whatever it sends *)
(* between the fragments.                                                  *)

\* The latest index of a set is the one that no other exceeds.
LEMMA LatestIs ==
    ASSUME NEW S \in SUBSET Int, NEW l \in S, \A k \in S : k <= l
    PROVE  Latest(S) = l
<1>1. \E j \in S : \A k \in S : k <= j
  <2> WITNESS l \in S
  <2> QED
    OBVIOUS
<1>2. Latest(S) \in S /\ \A k \in S : k <= Latest(S)
  BY <1>1, Zenon DEF Latest
<1>3. l <= Latest(S) /\ Latest(S) <= l
  BY <1>2, Zenon
<1>4. l \in Int /\ Latest(S) \in Int
  BY <1>2
<1> QED
  BY <1>3, <1>4

\* There is a latest data frame before any place of the wire, unless there is none.
HasLatest(i) ==
    DataBefore(i) = {} \/ \E l \in DataBefore(i) : \A k \in DataBefore(i) : k <= l

LatestInv == \A i \in 1..(Len(wire) + 1) : HasLatest(i)

\* What has been sent does not change, nor do the data frames before a place of the wire.
LEMMA DataBeforeKept ==
    ASSUME TypeOK, [Next]_vars, NEW i \in 1..(Len(wire) + 1)
    PROVE  /\ Len(wire) \in Nat
           /\ \A j \in 1..Len(wire) : wire'[j] = wire[j]
           /\ DataBefore(i)' = DataBefore(i)
<1>1. Len(wire) \in Nat
  BY DEF TypeOK
<1>2. \A j \in 1..Len(wire) : wire'[j] = wire[j]
  BY WireKept
<1> QED
  BY <1>1, <1>2 DEF DataBefore

\* Every step keeps the wire or adds one frame to it.
LEMMA WireGrows ==
    ASSUME TypeOK, [Next]_vars
    PROVE  Len(wire') \in {Len(wire), Len(wire) + 1}
<1>1. CASE \E f \in Frames : PeerSends(f)
  BY <1>1 DEF PeerSends, TypeOK
<1>2. CASE wire' = wire
  BY <1>2
<1> QED
  BY <1>1, <1>2, StepCases
     DEF EmptyResult, TakenAlone, TakeAlone, ControlFrame, Deliver, Fragment, FinishMessage, vars

\* A set of smaller numbers, and perhaps one more.
LEMMA LatestNext ==
    ASSUME NEW n \in Nat \ {0}, NEW S \in SUBSET (1..(n - 1)), NEW T \in {S, S \cup {n}},
           S = {} \/ \E l \in S : \A k \in S : k <= l
    PROVE  T = {} \/ \E l \in T : \A k \in T : k <= l
<1>1. CASE T = S
  BY <1>1
<1>2. CASE T = S \cup {n}
  <2>1. n \in T /\ \A k \in T : k <= n
    BY <1>2
  <2> QED
    BY <2>1, Zenon
<1> QED
  BY <1>1, <1>2

\* The latest data frame before a new place of the wire is the one there or the latest
\* before it.
LEMMA LatestInvariant == Spec => []LatestInv
<1>1. Init => LatestInv
  <2> SUFFICES ASSUME Init, NEW i \in 1..(Len(wire) + 1) PROVE HasLatest(i)
    BY DEF LatestInv
  <2>1. i = 1
    BY DEF Init
  <2> QED
    BY <2>1 DEF HasLatest, DataBefore
<1>2. TypeOK /\ LatestInv /\ [Next]_vars => LatestInv'
  <2> SUFFICES ASSUME TypeOK, LatestInv, [Next]_vars, NEW i \in 1..(Len(wire') + 1)
               PROVE  HasLatest(i)'
    BY DEF LatestInv
  <2>0. Len(wire) \in Nat /\ Len(wire) + 1 \in 1..(Len(wire) + 1)
    BY DEF TypeOK
  <2>1. CASE i \in 1..(Len(wire) + 1)
    <3>1. DataBefore(i)' = DataBefore(i)
      BY <2>1, DataBeforeKept
    <3>2. HasLatest(i)
      BY <2>1 DEF LatestInv
    <3> QED
      BY <3>1, <3>2 DEF HasLatest
  <2>2. CASE i \notin 1..(Len(wire) + 1)
    <3>1. PICK n \in Nat \ {0} : n = Len(wire) + 1
      BY <2>0
    <3>2. i = n + 1
      BY <2>0, <2>2, <3>1, WireGrows
    <3>3. /\ DataBefore(n)' = DataBefore(n)
          /\ HasLatest(n)
      BY <2>0, <3>1, DataBeforeKept DEF LatestInv
    <3>4. DataBefore(n)' \in SUBSET (1..(n - 1))
      BY DEF DataBefore
    <3>5. DataBefore(n + 1)' \in {DataBefore(n)', DataBefore(n)' \cup {n}}
      <4>1. n + 1 - 1 = n /\ 1..n = 1..(n - 1) \cup {n}
        OBVIOUS
      <4>2. CASE wire'[n].op \notin ControlOps
        BY <4>1, <4>2 DEF DataBefore
      <4>3. CASE wire'[n].op \in ControlOps
        BY <4>1, <4>3 DEF DataBefore
      <4> QED
        BY <4>2, <4>3
    <3>6. \/ DataBefore(n)' = {}
          \/ \E l \in DataBefore(n)' : \A k \in DataBefore(n)' : k <= l
      BY <3>3 DEF HasLatest
    <3>7. \/ DataBefore(n + 1)' = {}
          \/ \E l \in DataBefore(n + 1)' : \A k \in DataBefore(n + 1)' : k <= l
      BY <3>4, <3>5, <3>6, LatestNext
    <3> QED
      BY <3>2, <3>7 DEF HasLatest
  <2> QED
    BY <2>1, <2>2
<1> QED
  BY <1>1, <1>2, TypeCorrect, PTL DEF Spec

\* The message that a frame ends has a first frame.
HasStart(i) ==
    wire[i].op \notin ControlOps =>
        \E l \in 1..i : /\ wire[l].op \in DataOps
                        /\ \A k \in 1..i : wire[k].op \in DataOps => k <= l

\* The frames of a message, when its first frame is known.
LEMMA EndingAt ==
    ASSUME NEW w, NEW i \in Nat, NEW l \in 1..i, w[l].op \in DataOps,
           \A k \in 1..i : w[k].op \in DataOps => k <= l
    PROVE  Latest({j \in 1..i : w[j].op \in DataOps}) = l
<1>1. {j \in 1..i : w[j].op \in DataOps} \in SUBSET Int
  OBVIOUS
<1> QED
  BY <1>1, LatestIs

\* What a frame means for the rules and for its message does not change.
LEMMA MeaningKept ==
    ASSUME TypeOK, LatestInv, [Next]_vars, NEW i \in 1..Len(wire)
    PROVE  /\ wire'[i] = wire[i]
           /\ KeepsRules(i)' <=> KeepsRules(i)
           /\ HasStart(i) => HasStart(i)' /\ MessageEndingAt(i)' = MessageEndingAt(i)
<1>0. Len(wire) \in Nat /\ i \in 1..(Len(wire) + 1)
  BY DEF TypeOK
<1>1. /\ \A j \in 1..Len(wire) : wire'[j] = wire[j]
      /\ DataBefore(i)' = DataBefore(i)
  BY <1>0, DataBeforeKept
<1>2. wire'[i] = wire[i] /\ \A j \in 1..i : wire'[j] = wire[j]
  BY <1>0, <1>1
<1>3. OpenBefore(i)' <=> OpenBefore(i)
  <2>1. CASE DataBefore(i) = {}
    BY <1>1, <2>1 DEF OpenBefore
  <2>2. CASE \E l \in DataBefore(i) : \A k \in DataBefore(i) : k <= l
    <3>1. PICK l \in DataBefore(i) : \A k \in DataBefore(i) : k <= l
      BY <2>2
    <3>2. DataBefore(i) \in SUBSET Int
      BY DEF DataBefore
    <3>3. Latest(DataBefore(i)) = l
      BY <3>1, <3>2, LatestIs
    <3>4. l \in 1..i
      BY <1>0, <3>1 DEF DataBefore
    <3>5. /\ Latest(DataBefore(i)') = l /\ wire'[l] = wire[l]
          /\ DataBefore(i) # {} /\ DataBefore(i)' # {}
      BY <1>1, <1>2, <3>1, <3>3, <3>4
    <3> QED
      BY <3>3, <3>5 DEF OpenBefore, Latest
  <2> QED
    BY <1>0, <2>1, <2>2 DEF LatestInv, HasLatest
<1>4. KeepsRules(i)' <=> KeepsRules(i)
  BY <1>2, <1>3 DEF KeepsRules, HeaderFault, MaskFault
<1>5. ASSUME HasStart(i) PROVE HasStart(i)' /\ MessageEndingAt(i)' = MessageEndingAt(i)
  <2>1. HasStart(i)'
    BY <1>2, <1>5 DEF HasStart
  <2>2. CASE wire[i].op \in ControlOps
    BY <1>2, <2>1, <2>2 DEF MessageEndingAt
  <2>3. CASE wire[i].op \notin ControlOps
    <3>1. PICK l \in 1..i : /\ wire[l].op \in DataOps
                            /\ \A k \in 1..i : wire[k].op \in DataOps => k <= l
      BY <1>5, <2>3 DEF HasStart
    <3>2. i \in Nat /\ \A k \in 1..i : wire'[k].op \in DataOps => k <= l
      BY <1>0, <1>2, <3>1
    <3>3. wire'[l].op \in DataOps
      BY <1>2, <3>1
    <3>5. Latest({j \in 1..i : wire[j].op \in DataOps}) = l
      BY <3>1, <3>2, EndingAt
    <3>6. Latest({j \in 1..i : wire'[j].op \in DataOps}) = l
      BY <3>2, <3>3, EndingAt
    <3>4. {j \in l..i : wire'[j].op \notin ControlOps}
            = {j \in l..i : wire[j].op \notin ControlOps}
      BY <1>0, <1>2, <3>1
    <3>7. MessageEndingAt(i) = {j \in l..i : wire[j].op \notin ControlOps}
      BY <2>3, <3>5 DEF MessageEndingAt
    <3>8. MessageEndingAt(i)' = {j \in l..i : wire'[j].op \notin ControlOps}
      BY <1>2, <2>3, <3>6 DEF MessageEndingAt
    <3> QED
      BY <2>1, <3>4, <3>7, <3>8
  <2> QED
    BY <2>1, <2>2, <2>3
<1> QED
  BY <1>2, <1>4, <1>5

-----------------------------------------------------------------------------
(* A peer that keeps the rules *)

Rules ==
    /\ \A i \in 1..consumed : KeepsRules(i)
    /\ \A r \in DOMAIN results : results[r].out # RawFrameOut

\* The latest data frame ends a message if and only if none is in progress.
LatestData(w, n, b) ==
    \/ b = <<>> /\ \A j \in 1..n : w[j].op \in ControlOps
    \/ \E l \in 1..n : /\ w[l].op \notin ControlOps
                       /\ \A j \in (l + 1)..n : w[j].op \in ControlOps
                       /\ w[l].fin <=> b = <<>>

\* The message in progress is all there is since its first frame, but for controls.
InProgress(w, n, b) ==
    b # <<>> =>
        /\ w[b[1]].op \in DataOps
        /\ \A j \in (b[1] + 1)..n : w[j].op \notin DataOps
        /\ ToSet(b) = {j \in b[1]..n : w[j].op \notin ControlOps}

Good(out) == out.kind = "message" \/ out \in {Err("Utf8"), Err("NoDataAvailable")}

Delivered(i) ==
    /\ HasStart(i)
    /\ \E r \in DOMAIN results :
          ToSet(results[r].from) = MessageEndingAt(i) /\ Good(results[r].out)

\* RulesKeptMeansDelivered says nothing of the message in progress, which is what the
\* next one is made of.
DeliveryInv ==
    Rules =>
        /\ LatestData(wire, consumed, buffer)
        /\ InProgress(wire, consumed, buffer)
        /\ \A i \in 1..consumed : wire[i].fin => Delivered(i)

\* Under these rules a continuation is expected if and only if a message is in progress.
LEMMA OpenIffBuffer ==
    ASSUME TypeOK, LatestData(wire, consumed, buffer)
    PROVE  OpenBefore(consumed + 1) <=> buffer # <<>>
<1>0. /\ consumed \in Nat
      /\ DataBefore(consumed + 1) = {j \in 1..consumed : wire[j].op \notin ControlOps}
  BY DEF TypeOK, DataBefore
<1>1. CASE buffer = <<>> /\ \A j \in 1..consumed : wire[j].op \in ControlOps
  BY <1>0, <1>1 DEF OpenBefore
<1>2. ASSUME NEW l \in 1..consumed, wire[l].op \notin ControlOps,
             \A j \in (l + 1)..consumed : wire[j].op \in ControlOps,
             wire[l].fin <=> buffer = <<>>
      PROVE  OpenBefore(consumed + 1) <=> buffer # <<>>
  <2>1. /\ l \in DataBefore(consumed + 1)
        /\ DataBefore(consumed + 1) \in SUBSET Int
        /\ \A k \in DataBefore(consumed + 1) : k <= l
    BY <1>0, <1>2
  <2>2. Latest(DataBefore(consumed + 1)) = l /\ DataBefore(consumed + 1) # {}
    BY <2>1, LatestIs
  <2> QED
    BY <1>2, <2>2 DEF OpenBefore
<1> QED
  BY <1>1, <1>2 DEF LatestData

\* What from_dataframes makes of frames that keep the rules.
LEMMA GoodOut ==
    ASSUME NEW fs, \A k \in DOMAIN fs : ~Misplaced(fs, k) /\ ~fs[k].rsv,
           fs[1].op \in {Text, Binary, Close, Ping, Pong}
    PROVE  Good(FromDataframes(fs))
<1>1. \A op \in {Text, Binary, Close, Ping, Pong} : \A data : Good(Assemble(op, data))
  BY ErrFields, MsgFields DEF Assemble, Good
<1>2. FromDataframes(fs)
        = Assemble(fs[1].op, FlattenSeq([i \in DOMAIN fs |-> fs[i].data]))
  BY DEF FromDataframes
<1> QED
  BY <1>1, <1>2

\* What calls have returned stays returned, and frames are taken one at a time.
LEMMA HistoryKept ==
    ASSUME TypeOK, [Next]_vars
    PROVE  /\ consumed' \in {consumed, consumed + 1} /\ consumed' <= Len(wire)
           /\ DOMAIN results \subseteq DOMAIN results'
           /\ \A r \in DOMAIN results : results'[r] = results[r]
<1>1. /\ consumed \in Nat /\ Len(wire) \in Nat /\ consumed <= Len(wire)
      /\ results \in Seq(ToSet(results))
  BY DEF TypeOK, ResultsTyped
<1>2. ASSUME NEW x, results' = Append(results, x)
      PROVE  /\ DOMAIN results \subseteq DOMAIN results'
             /\ \A r \in DOMAIN results : results'[r] = results[r]
  BY <1>1, <1>2, AppendAny
<1>3. CASE \E f \in Frames : PeerSends(f)
  BY <1>1, <1>3 DEF PeerSends
<1>4. CASE EmptyResult
  BY <1>1, <1>2, <1>4 DEF EmptyResult
<1>5. CASE TakenAlone
  <2>1. /\ \E x : results' = Append(results, x)
        /\ consumed' = consumed + 1 /\ consumed < Len(wire)
    BY <1>5 DEF TakenAlone, TakeAlone
  <2>2. /\ DOMAIN results \subseteq DOMAIN results'
        /\ \A r \in DOMAIN results : results'[r] = results[r]
    BY <1>2, <2>1
  <2> QED
    BY <1>1, <2>1, <2>2
<1>6. CASE ControlFrame \/ FinishMessage
  <2>1. /\ \E x : results' = Append(results, x)
        /\ consumed' = consumed + 1 /\ consumed < Len(wire)
    BY <1>6 DEF ControlFrame, FinishMessage, FrameReady, Deliver
  <2>2. /\ DOMAIN results \subseteq DOMAIN results'
        /\ \A r \in DOMAIN results : results'[r] = results[r]
    BY <1>2, <2>1
  <2> QED
    BY <1>1, <2>1, <2>2
<1>7. CASE Fragment
  BY <1>1, <1>7 DEF Fragment, FrameReady
<1>8. CASE UNCHANGED vars
  BY <1>1, <1>8 DEF vars
<1> QED
  BY <1>3, <1>4, <1>5, <1>6, <1>7, <1>8, StepCases

\* Rules that are kept now have been kept before, and by the frame a step takes.
LEMMA RulesBefore ==
    ASSUME TypeOK, LatestInv, [Next]_vars, Rules'
    PROVE  /\ Rules
           /\ consumed' = consumed + 1 => KeepsRules(consumed + 1)
<1>1. /\ consumed \in Nat /\ Len(wire) \in Nat
      /\ consumed' \in {consumed, consumed + 1} /\ consumed' <= Len(wire)
      /\ DOMAIN results \subseteq DOMAIN results'
      /\ \A r \in DOMAIN results : results'[r] = results[r]
  BY HistoryKept DEF TypeOK
<1>2. ASSUME NEW i \in 1..consumed' PROVE KeepsRules(i)
  <2>1. KeepsRules(i)' /\ i \in 1..Len(wire)
    BY <1>1, <1>2 DEF Rules
  <2> QED
    BY <2>1, MeaningKept
<1>3. \A r \in DOMAIN results : results[r].out # RawFrameOut
  BY <1>1 DEF Rules
<1>4. /\ \A i \in 1..consumed : i \in 1..consumed'
      /\ consumed' = consumed + 1 => consumed + 1 \in 1..consumed'
  BY <1>1
<1> QED
  BY <1>2, <1>3, <1>4 DEF Rules

\* A message that was delivered stays delivered.
LEMMA DeliveredKept ==
    ASSUME TypeOK, LatestInv, [Next]_vars, NEW i \in 1..Len(wire), Delivered(i)
    PROVE  Delivered(i)'
<1>1. HasStart(i)' /\ MessageEndingAt(i)' = MessageEndingAt(i)
  BY MeaningKept DEF Delivered
<1>2. PICK r \in DOMAIN results :
         ToSet(results[r].from) = MessageEndingAt(i) /\ Good(results[r].out)
  BY DEF Delivered
<1>3. r \in DOMAIN results' /\ results'[r] = results[r]
  BY HistoryKept
<1>4. ToSet(results'[r].from) = MessageEndingAt(i)' /\ Good(results'[r].out)
  BY <1>1, <1>2, <1>3
<1> QED
  BY <1>1, <1>3, <1>4 DEF Delivered

\* A step that returns the frames of a message delivers it.
LEMMA DeliveredNow ==
    ASSUME TypeOK, LatestInv, [Next]_vars, NEW n \in 1..Len(wire),
           NEW out, NEW from, results' = Append(results, Result(out, from, FALSE)),
           HasStart(n), ToSet(from) = MessageEndingAt(n), Good(out)
    PROVE  Delivered(n)'
<1>1. HasStart(n)' /\ MessageEndingAt(n)' = MessageEndingAt(n)
  BY MeaningKept
<1> DEFINE r == Len(results) + 1
<1>2. r \in DOMAIN results' /\ results'[r] = Result(out, from, FALSE)
  <2>1. results \in Seq(ToSet(results))
    BY DEF TypeOK, ResultsTyped
  <2>2. DOMAIN results' = 1..r /\ results'[r] = Result(out, from, FALSE)
    BY <2>1, AppendAny
  <2>3. r \in 1..r
    BY <2>1
  <2> HIDE DEF r
  <2> QED
    BY <2>2, <2>3
<1>3. results'[r].from = from /\ results'[r].out = out
  BY <1>2 DEF Result
<1> HIDE DEF r
<1>4. ToSet(results'[r].from) = MessageEndingAt(n)' /\ Good(results'[r].out)
  BY <1>1, <1>3
<1> QED
  BY <1>1, <1>2, <1>4 DEF Delivered

\* No step refuses a frame that keeps the rules.
LEMMA NoRefusal ==
    ASSUME TypeOK, LatestInv, DeliveryInv, Next, Rules'
    PROVE  \/ \E f \in Frames : PeerSends(f)
           \/ EmptyResult \/ ControlFrame \/ Fragment \/ FinishMessage
<1> DEFINE n == consumed + 1
<1>1. /\ Rules
      /\ consumed' = n => KeepsRules(n)
  BY RulesBefore
<1>2. OpenBefore(n) <=> buffer # <<>>
  BY <1>1, OpenIffBuffer DEF DeliveryInv
<1>3. Continuation \notin ControlOps /\ Continuation \notin DataOps
      /\ \A op \in DataOps : op \notin ControlOps
  BY DEF Continuation, ControlOps, DataOps
<1> HIDE DEF n
<1>4. ASSUME WrongMask PROVE FALSE
  BY <1>1, <1>4 DEF WrongMask, Refuse, TakeAlone, MaskFits, NextFrame, KeepsRules, n
<1>5. ASSUME OrphanContinuation PROVE FALSE
  BY <1>1, <1>2, <1>3, <1>5
     DEF OrphanContinuation, Refuse, TakeAlone, NextFrame, KeepsRules, n
<1>6. ASSUME UnexpectedDataFrame PROVE FALSE
  BY <1>1, <1>2, <1>3, <1>6
     DEF UnexpectedDataFrame, Refuse, TakeAlone, NextFrame, KeepsRules, n
<1>7. ASSUME BadHeader PROVE EmptyResult
  <2>1. CASE Refuse(HeaderFault(NextFrame))
    BY <1>1, <1>7, <2>1 DEF BadHeader, Refuse, TakeAlone, NextFrame, KeepsRules, n
  <2>2. HeaderFault(NextFrame) \in HeaderFaults
    BY <1>7, HeaderFaultRange DEF BadHeader
  <2> QED
    BY <1>7, <2>1, <2>2 DEF BadHeader, EmptyResult
<1>8. ASSUME RawFrame PROVE FALSE
  <2>1. results' = Append(results, Result(RawFrameOut, <<consumed + 1>>, FALSE))
    BY <1>8 DEF RawFrame, TakeAlone
  <2>2. results \in Seq(ToSet(results))
    BY DEF TypeOK, ResultsTyped
  <2>3. /\ DOMAIN results' = 1..(Len(results) + 1)
        /\ results'[Len(results) + 1] = Result(RawFrameOut, <<consumed + 1>>, FALSE)
    BY <2>1, <2>2, AppendAny
  <2>4. Len(results) + 1 \in 1..(Len(results) + 1)
    BY <2>2
  <2>5. results'[Len(results) + 1].out = RawFrameOut
    BY <2>3 DEF Result
  <2> QED
    BY <2>3, <2>4, <2>5 DEF Rules
<1>9. ASSUME Interrupted \/ Unspecified PROVE EmptyResult
  BY <1>9 DEF Interrupted, Unspecified, EmptyResult
<1> QED
  BY <1>4, <1>5, <1>6, <1>7, <1>8, <1>9 DEF Next, TakeFrame

\* A control frame changes nothing of the message it interrupts.
LEMMA ControlBetween ==
    ASSUME NEW w, NEW n \in Nat, NEW b \in Seq(1..n), w[n + 1].op \in ControlOps,
           LatestData(w, n, b), InProgress(w, n, b)
    PROVE  LatestData(w, n + 1, b) /\ InProgress(w, n + 1, b)
<1>0. 1..(n + 1) = 1..n \cup {n + 1}
  OBVIOUS
<1>1. LatestData(w, n + 1, b)
  <2>1. CASE b = <<>> /\ \A j \in 1..n : w[j].op \in ControlOps
    BY <1>0, <2>1 DEF LatestData
  <2>2. ASSUME NEW l \in 1..n, w[l].op \notin ControlOps,
               \A j \in (l + 1)..n : w[j].op \in ControlOps, w[l].fin <=> b = <<>>
        PROVE  LatestData(w, n + 1, b)
    <3>1. l \in 1..(n + 1) /\ \A j \in (l + 1)..(n + 1) : w[j].op \in ControlOps
      BY <2>2
    <3> QED
      BY <2>2, <3>1 DEF LatestData
  <2> QED
    BY <2>1, <2>2 DEF LatestData
<1>2. ASSUME b # <<>> PROVE InProgress(w, n + 1, b)
  <2>1. b[1] \in 1..n
    BY <1>2
  <2>2. w[n + 1].op \notin DataOps
    <3>1. \A op \in ControlOps : op \notin DataOps
      BY DEF ControlOps, DataOps
    <3> QED
      BY <3>1
  <2>3. \A j \in (b[1] + 1)..(n + 1) : w[j].op \notin DataOps
    BY <1>2, <2>1, <2>2 DEF InProgress
  <2>4. {j \in b[1]..(n + 1) : w[j].op \notin ControlOps}
          = {j \in b[1]..n : w[j].op \notin ControlOps}
    BY <2>1
  <2> QED
    BY <1>2, <2>3, <2>4 DEF InProgress
<1> QED
  BY <1>1, <1>2 DEF InProgress

\* A data frame is the latest one.
LEMMA DataIsLatest ==
    ASSUME NEW w, NEW n \in Nat, NEW b, w[n + 1].op \notin ControlOps,
           w[n + 1].fin <=> b = <<>>
    PROVE  LatestData(w, n + 1, b)
<1>1. n + 1 \in 1..(n + 1) /\ \A j \in (n + 1 + 1)..(n + 1) : w[j].op \in ControlOps
  OBVIOUS
<1> QED
  BY <1>1 DEF LatestData

\* The frames of a message with one more, which begins it or continues it.
LEMMA OneMore ==
    ASSUME NEW w, NEW n \in Nat, NEW b \in Seq(1..n), InProgress(w, n, b),
           IF b = <<>> THEN w[n + 1].op \in DataOps ELSE w[n + 1].op = Continuation
    PROVE  /\ w[n + 1].op \notin ControlOps
           /\ InProgress(w, n + 1, Append(b, n + 1))
           /\ Append(b, n + 1) \in Seq(1..(n + 1)) /\ Append(b, n + 1) # <<>>
<1>0. /\ \A op \in DataOps : op \notin ControlOps
      /\ Continuation \notin ControlOps /\ Continuation \notin DataOps
  BY DEF DataOps, ControlOps, Continuation
<1>1. w[n + 1].op \notin ControlOps
  BY <1>0
<1>2. /\ Append(b, n + 1) \in Seq(1..(n + 1)) /\ Append(b, n + 1) # <<>>
      /\ b = <<>> => Append(b, n + 1)[1] = n + 1
      /\ b # <<>> => Append(b, n + 1)[1] = b[1] /\ b[1] \in 1..n
  BY WiderSeq
<1>3. ToSet(Append(b, n + 1)) = ToSet(b) \cup {n + 1}
  <2>1. b \in Seq(1..(n + 1)) /\ n + 1 \in 1..(n + 1)
    BY WiderSeq
  <2> QED
    BY <2>1, ToSetFacts
<1> DEFINE a == Append(b, n + 1)
<1> HIDE DEF a
<1>4. CASE b = <<>>
  <2>1. a[1] = n + 1 /\ ToSet(a) = {n + 1} /\ w[n + 1].op \in DataOps
    BY <1>2, <1>3, <1>4, ToSetFacts DEF a
  <2>2. {j \in (n + 1)..(n + 1) : w[j].op \notin ControlOps} = {n + 1}
    BY <1>1
  <2>3. \A j \in (n + 1 + 1)..(n + 1) : w[j].op \notin DataOps
    OBVIOUS
  <2> QED
    BY <1>1, <1>2, <2>1, <2>2, <2>3 DEF InProgress, a
<1>5. CASE b # <<>>
  <2>1. a[1] = b[1] /\ b[1] \in 1..n /\ ToSet(a) = ToSet(b) \cup {n + 1}
    BY <1>2, <1>3, <1>5 DEF a
  <2>2. w[n + 1].op \notin DataOps
    BY <1>0, <1>5
  <2>3. ASSUME NEW j \in (b[1] + 1)..(n + 1) PROVE w[j].op \notin DataOps
    <3>1. CASE j = n + 1
      BY <2>2, <3>1
    <3>2. CASE j \in (b[1] + 1)..n
      BY <1>5, <3>2 DEF InProgress
    <3> QED
      BY <2>1, <3>1, <3>2
  <2>4. {j \in b[1]..(n + 1) : w[j].op \notin ControlOps}
          = {j \in b[1]..n : w[j].op \notin ControlOps} \cup {n + 1}
    BY <1>1, <2>1
  <2>5. ToSet(a) = {j \in b[1]..(n + 1) : w[j].op \notin ControlOps} /\ w[b[1]].op \in DataOps
    BY <1>5, <2>1, <2>4 DEF InProgress
  <2> QED
    BY <1>1, <1>2, <2>1, <2>3, <2>5 DEF InProgress, a
<1> QED
  BY <1>4, <1>5

\* A message in progress that its last frame completes is the one ending there.
LEMMA EndsHere ==
    ASSUME NEW n \in Nat, NEW a \in Seq(1..n), a # <<>>, InProgress(wire, n, a),
           wire[n].op \notin ControlOps
    PROVE  HasStart(n) /\ ToSet(a) = MessageEndingAt(n)
<1> DEFINE l == a[1]
<1>1. /\ l \in 1..n /\ wire[l].op \in DataOps
      /\ \A j \in (l + 1)..n : wire[j].op \notin DataOps
      /\ ToSet(a) = {j \in l..n : wire[j].op \notin ControlOps}
  BY DEF InProgress
<1> HIDE DEF l
<1>2. \A k \in 1..n : wire[k].op \in DataOps => k <= l
  <2> SUFFICES ASSUME NEW k \in 1..n, ~(k <= l) PROVE wire[k].op \notin DataOps
    OBVIOUS
  <2>1. k \in (l + 1)..n
    BY <1>1
  <2> QED
    BY <1>1, <2>1
<1>3. Latest({j \in 1..n : wire[j].op \in DataOps}) = l
  BY <1>1, <1>2, EndingAt
<1>4. HasStart(n)
  BY <1>1, <1>2 DEF HasStart
<1> QED
  BY <1>1, <1>3, <1>4 DEF MessageEndingAt

\* What is said of the frames of a message depends on these frames alone.
LEMMA SameData ==
    ASSUME NEW w, NEW v, NEW n, NEW b, \A j \in 1..n : v[j] = w[j], LatestData(w, n, b),
           n \in Nat
    PROVE  LatestData(v, n, b)
<1>1. CASE b = <<>> /\ \A j \in 1..n : w[j].op \in ControlOps
  BY <1>1 DEF LatestData
<1>2. ASSUME NEW l \in 1..n, w[l].op \notin ControlOps,
             \A j \in (l + 1)..n : w[j].op \in ControlOps, w[l].fin <=> b = <<>>
      PROVE  LatestData(v, n, b)
  <2>1. \A j \in (l + 1)..n : v[j] = w[j]
    BY <1>2
  <2>2. /\ v[l].op \notin ControlOps /\ (v[l].fin <=> b = <<>>)
        /\ \A j \in (l + 1)..n : v[j].op \in ControlOps
    BY <1>2, <2>1
  <2> QED
    BY <2>2 DEF LatestData
<1> QED
  BY <1>1, <1>2 DEF LatestData

\* Likewise of the message in progress.
LEMMA SameProgress ==
    ASSUME NEW w, NEW v, NEW n \in Nat, NEW b \in Seq(1..n), \A j \in 1..n : v[j] = w[j],
           InProgress(w, n, b)
    PROVE  InProgress(v, n, b)
<1> SUFFICES ASSUME b # <<>> PROVE InProgress(v, n, b)
  BY DEF InProgress
<1>1. b[1] \in 1..n
  OBVIOUS
<1>2. \A j \in b[1]..n : v[j] = w[j]
  BY <1>1
<1>3. {j \in b[1]..n : v[j].op \notin ControlOps} = {j \in b[1]..n : w[j].op \notin ControlOps}
  BY <1>2
<1>4. \A j \in (b[1] + 1)..n : v[j].op \notin DataOps
  BY <1>1, <1>2 DEF InProgress
<1>5. v[b[1]].op \in DataOps
  BY <1>1 DEF InProgress
<1> QED
  BY <1>3, <1>4, <1>5 DEF InProgress

\* The frames of the buffer and the next one make a good message.
LEMMA GoodMessage ==
    ASSUME TypeOK, WholeInv, Rules, NEW n \in Nat, n = consumed + 1, n \in 1..Len(wire),
           KeepsRules(n), NEW a \in Seq(1..n), a # <<>>,
           \A k \in 2..Len(a) : wire[a[k]].op = Continuation,
           wire[a[1]].op # Continuation
    PROVE  Good(FromDataframes(FramesOf(a)))
<1> DEFINE fs == FramesOf(a)
<1>0. consumed \in Nat /\ Len(a) \in Nat \ {0} /\ DOMAIN a = 1..Len(a)
  BY DEF TypeOK
<1>1. DOMAIN fs = DOMAIN a /\ \A k \in DOMAIN a : fs[k] = wire[a[k]]
  BY DEF FramesOf
<1>2. ASSUME NEW i \in 1..n PROVE KeepsRules(i)
  <2>1. CASE i = n
    BY <2>1
  <2>2. CASE i \in 1..consumed
    BY <2>2 DEF Rules
  <2> QED
    BY <1>0, <2>1, <2>2
<1>3. \A k \in DOMAIN a : a[k] \in 1..n
  OBVIOUS
<1>4. ASSUME NEW k \in DOMAIN a PROVE ~wire[a[k]].rsv
  BY <1>2, <1>3 DEF KeepsRules
<1>5. 1 \in DOMAIN a
  BY <1>0
<1>6. wire[a[1]].op \in {Text, Binary, Close, Ping, Pong}
  <2>1. wire[a[1]].op \in {Continuation, Text, Binary, Close, Ping, Pong}
    BY <1>2, <1>3, <1>5 DEF KeepsRules
  <2> QED
    BY <2>1
<1> HIDE DEF fs
<1>7. ASSUME NEW k \in DOMAIN fs PROVE ~Misplaced(fs, k)
  <2>1. k \in 1..Len(a) /\ fs[k] = wire[a[k]]
    BY <1>0, <1>1, <1>7
  <2>2. CASE k > 1
    BY <1>0, <2>1, <2>2 DEF Misplaced
  <2> QED
    BY <2>2 DEF Misplaced
<1>8. \A k \in DOMAIN fs : ~fs[k].rsv
  BY <1>1, <1>4
<1>9. fs[1].op \in {Text, Binary, Close, Ping, Pong}
  BY <1>1, <1>5, <1>6
<1>10. Good(FromDataframes(fs))
  BY <1>7, <1>8, <1>9, GoodOut
<1> QED
  BY <1>10 DEF fs

\* Each step of the next lemma is one a frame that keeps the rules can be taken by.
LEMMA DeliveryStep ==
    ASSUME TypeOK, WholeInv, LatestInv, DeliveryInv, Next, Rules'
    PROVE  /\ LatestData(wire', consumed', buffer')
           /\ InProgress(wire', consumed', buffer')
           /\ \A i \in 1..consumed' : wire'[i].fin => Delivered(i)'
<1>0. /\ consumed \in Nat /\ Len(wire) \in Nat /\ consumed <= Len(wire)
      /\ buffer \in Seq(1..consumed)
  BY DEF TypeOK
<1>1. /\ Rules
      /\ consumed' = consumed + 1 => KeepsRules(consumed + 1)
  BY RulesBefore
<1>2. /\ LatestData(wire, consumed, buffer)
      /\ InProgress(wire, consumed, buffer)
      /\ \A i \in 1..consumed : wire[i].fin => Delivered(i)
  BY <1>1 DEF DeliveryInv
<1>3. ASSUME NEW i \in 1..consumed, wire'[i].fin PROVE Delivered(i)'
  <2>1. i \in 1..Len(wire)
    BY <1>0
  <2>2. wire'[i] = wire[i]
    BY <2>1, WireKept
  <2>3. Delivered(i)
    BY <1>2, <1>3, <2>2
  <2> QED
    BY <2>1, <2>3, DeliveredKept
<1>4. CASE \E f \in Frames : PeerSends(f)
  <2>1. consumed' = consumed /\ buffer' = buffer
    BY <1>4 DEF PeerSends
  <2>2. \A j \in 1..consumed : wire'[j] = wire[j]
    BY <1>0, WireKept
  <2>3. LatestData(wire', consumed, buffer)
    BY <1>0, <1>2, <2>2, SameData
  <2>4. InProgress(wire', consumed, buffer)
    BY <1>0, <1>2, <2>2, SameProgress
  <2> QED
    BY <1>3, <2>1, <2>3, <2>4
<1>5. CASE EmptyResult
  <2>1. consumed' = consumed /\ buffer' = buffer /\ wire' = wire
    BY <1>5 DEF EmptyResult
  <2> QED
    BY <1>2, <1>3, <2>1
<1>6. PICK n \in Nat \ {0} : n = consumed + 1
  BY <1>0
<1>7. ASSUME consumed' = n, n <= Len(wire), wire' = wire, wire'[n].fin => Delivered(n)'
      PROVE  \A i \in 1..consumed' : wire'[i].fin => Delivered(i)'
  <2> SUFFICES ASSUME NEW i \in 1..n, wire'[i].fin PROVE Delivered(i)'
    BY <1>7
  <2>1. CASE i = n
    BY <1>7, <2>1
  <2>2. CASE i \in 1..consumed
    BY <1>3, <2>2
  <2> QED
    BY <1>0, <1>6, <2>1, <2>2
<1>8. CASE ControlFrame
  <2>1. /\ wire' = wire /\ consumed' = n /\ buffer' = buffer /\ n \in 1..Len(wire)
        /\ results' = Append(results, Result(FromDataframes(FramesOf(<<n>>)), <<n>>, FALSE))
        /\ wire[n].op \in ControlOps
    BY <1>0, <1>6, <1>8 DEF ControlFrame, FrameReady, Deliver, NextFrame
  <2>2. LatestData(wire, n, buffer) /\ InProgress(wire, n, buffer)
    BY <1>0, <1>2, <1>6, <2>1, ControlBetween
  <2>3. HasStart(n) /\ ToSet(<<n>>) = MessageEndingAt(n)
    BY <2>1, ToSetFacts DEF HasStart, MessageEndingAt
  <2>4. Good(FromDataframes(FramesOf(<<n>>)))
    <3>1. <<n>> \in Seq(1..n) /\ <<n>> # <<>> /\ <<n>>[1] = n /\ Len(<<n>>) = 1
      BY <2>1
    <3>2. wire[n].op # Continuation /\ KeepsRules(n)
      BY <1>1, <1>6, <2>1 DEF ControlOps, Continuation
    <3> DEFINE a == <<n>>
    <3>3. /\ a \in Seq(1..n) /\ a # <<>> /\ wire[a[1]].op # Continuation
          /\ \A k \in 2..Len(a) : wire[a[k]].op = Continuation
      BY <3>1, <3>2
    <3> HIDE DEF a
    <3>4. Good(FromDataframes(FramesOf(a)))
      BY <1>1, <1>6, <2>1, <3>2, <3>3, GoodMessage
    <3> QED
      BY <3>4 DEF a
  <2>5. Delivered(n)'
    BY <2>1, <2>3, <2>4, DeliveredNow
  <2> QED
    BY <1>7, <2>1, <2>2, <2>5
<1>9. ASSUME FrameReady, Fits, wire' = wire, consumed' = n
      PROVE  /\ n \in 1..Len(wire)
             /\ wire[n].op \notin ControlOps
             /\ InProgress(wire, n, Append(buffer, n))
             /\ Append(buffer, n) \in Seq(1..n) /\ Append(buffer, n) # <<>>
  <2>1. /\ n \in 1..Len(wire)
        /\ IF buffer = <<>> THEN wire[n].op \in DataOps ELSE wire[n].op = Continuation
    BY <1>0, <1>6, <1>9 DEF FrameReady, Fits, NextFrame
  <2> QED
    BY <1>0, <1>2, <1>6, <2>1, OneMore
<1>10. CASE Fragment
  <2>1. /\ FrameReady /\ Fits /\ wire' = wire /\ consumed' = n
        /\ buffer' = Append(buffer, n) /\ ~wire[n].fin
    BY <1>6, <1>10 DEF Fragment, NextFrame
  <2>2. /\ wire[n].op \notin ControlOps /\ InProgress(wire, n, buffer')
        /\ n \in 1..Len(wire) /\ buffer' # <<>>
    BY <1>9, <2>1
  <2>3. LatestData(wire, n, buffer')
    BY <1>0, <1>6, <2>1, <2>2, DataIsLatest
  <2> QED
    BY <1>7, <2>1, <2>2, <2>3
<1>11. CASE FinishMessage
  <2> DEFINE a == Append(buffer, n)
  <2>1. /\ FrameReady /\ Fits /\ wire' = wire /\ consumed' = n /\ buffer' = <<>>
        /\ wire[n].fin
        /\ results' = Append(results, Result(FromDataframes(FramesOf(a)), a, FALSE))
    BY <1>6, <1>11 DEF FinishMessage, Deliver, NextFrame
  <2>2. /\ wire[n].op \notin ControlOps /\ InProgress(wire, n, a)
        /\ a \in Seq(1..n) /\ a # <<>> /\ n \in 1..Len(wire)
    BY <1>9, <2>1
  <2>3. LatestData(wire, n, <<>>) /\ InProgress(wire, n, <<>>)
    <3>1. LatestData(wire, n, <<>>)
      BY <1>0, <1>6, <2>1, <2>2, DataIsLatest
    <3> QED
      BY <3>1 DEF InProgress
  <2>4. HasStart(n) /\ ToSet(a) = MessageEndingAt(n)
    <3> HIDE DEF a
    <3> QED
      BY <2>2, EndsHere
  <2>5. Good(FromDataframes(FramesOf(a)))
    <3>1. /\ \A k \in 2..Len(a) : wire[a[k]].op = Continuation
          /\ wire[a[1]].op # Continuation
      <4>1. /\ \A k \in 2..Len(buffer) : wire[buffer[k]].op = Continuation
            /\ buffer # <<>> => wire[n].op = Continuation
        BY <1>6, <2>1 DEF WholeInv, OpenMessage, Fits, NextFrame
      <4>2. /\ Len(a) = Len(buffer) + 1 /\ a[Len(buffer) + 1] = n /\ Len(buffer) \in Nat
            /\ \A k \in 1..Len(buffer) : a[k] = buffer[k]
            /\ buffer = <<>> <=> Len(buffer) = 0
        BY <1>0
      <4>3. wire[a[1]].op # Continuation
        BY <2>2 DEF InProgress, DataOps, Continuation
      <4> HIDE DEF a
      <4>4. ASSUME NEW k \in 2..Len(a) PROVE wire[a[k]].op = Continuation
        <5>1. CASE k = Len(buffer) + 1
          BY <4>1, <4>2, <5>1
        <5>2. CASE k \in 2..Len(buffer)
          BY <4>1, <4>2, <5>2
        <5> QED
          BY <4>2, <5>1, <5>2
      <4> QED
        BY <4>3, <4>4
    <3> HIDE DEF a
    <3> QED
      BY <1>1, <1>6, <2>1, <2>2, <3>1, GoodMessage
  <2>6. Delivered(n)'
    <3> HIDE DEF a
    <3> QED
      BY <2>1, <2>2, <2>4, <2>5, DeliveredNow
  <2> QED
    BY <1>7, <2>1, <2>2, <2>3, <2>6
<1> QED
  BY <1>4, <1>5, <1>8, <1>10, <1>11, NoRefusal

\* Peers that keep the rules, and what they have been delivered.
LEMMA DeliveryInvariant == Spec => []DeliveryInv
<1>1. Init => DeliveryInv
  BY DEF Init, DeliveryInv, LatestData, InProgress
<1>2. TypeOK /\ WholeInv /\ LatestInv /\ DeliveryInv /\ [Next]_vars => DeliveryInv'
  <2>1. ASSUME TypeOK, WholeInv, LatestInv, DeliveryInv, Next PROVE DeliveryInv'
    <3> SUFFICES ASSUME Rules' PROVE /\ LatestData(wire', consumed', buffer')
                                     /\ InProgress(wire', consumed', buffer')
                                     /\ \A i \in 1..consumed' : wire'[i].fin => Delivered(i)'
      BY DEF DeliveryInv
    <3> QED
      BY <2>1, DeliveryStep
  <2>2. ASSUME DeliveryInv, UNCHANGED vars PROVE DeliveryInv'
    <3>1. wire' = wire /\ consumed' = consumed /\ buffer' = buffer /\ results' = results
      BY <2>2 DEF vars
    <3>2. Rules' <=> Rules
      BY <3>1 DEF Rules, KeepsRules, OpenBefore, DataBefore
    <3>3. ASSUME NEW i PROVE Delivered(i)' <=> Delivered(i)
      BY <3>1 DEF Delivered, HasStart, MessageEndingAt
    <3> QED
      BY <2>2, <3>1, <3>2, <3>3 DEF DeliveryInv
  <2> QED
    BY <2>1, <2>2
<1> QED
  BY <1>1, <1>2, TypeCorrect, WholeInvariant, LatestInvariant, PTL DEF Spec

\* A peer that keeps the rules of fragmentation, in whatever order it sends controls and
\* fragments, has every message it has finished returned whole, and no error but for
\* content that is no text or no close code (recv_message and MessageCodec::decode).
THEOREM RulesKeptDelivers == Spec => []RulesKeptMeansDelivered
<1>1. DeliveryInv => RulesKeptMeansDelivered
  BY DEF DeliveryInv, Rules, Delivered, Good, RulesKeptMeansDelivered
<1> QED
  BY <1>1, DeliveryInvariant, PTL

-----------------------------------------------------------------------------
(* The bytes of a list of frames on their way to a reader: what is sent is  *)
(* added behind them, what is read is taken off in front, and in between    *)
(* they stay in line. Receiver and MessageCodec both read such a stream.    *)

ByteAt(i, k) == [frame |-> i, k |-> k]
ByteRecord   == [frame : Nat, k : Nat]

\* The frames of a list that has been sent.
Sendable(w) == \A i \in 1..Len(w) : IsFrame(w[i])

\* How many bytes of its frame come behind a byte.
Behind(b, w) == WireLen(w[b.frame]) - b.k

\* Each byte of s is one of a frame of w, and is followed by the rest of its frame and
\* by the first byte of the next.
InLine(s, w) ==
    /\ \A j \in 1..Len(s) :
          s[j].frame \in 1..Len(w) /\ s[j].k \in 1..WireLen(w[s[j].frame])
    /\ \A j, i \in 1..Len(s) :
          /\ j <= i /\ i - j <= Behind(s[j], w) =>
                s[i] = ByteAt(s[j].frame, s[j].k + (i - j))
          /\ i - j = Behind(s[j], w) + 1 => s[i] = ByteAt(s[j].frame + 1, 1)

\* The byte s begins with, when c frames have been read and p bytes of the next.
Begins(s, w, c, p) ==
    Len(s) > 0 =>
        s[1] = IF p > 0 /\ p = WireLen(w[c + 1]) THEN ByteAt(c + 2, 1) ELSE ByteAt(c + 1, p + 1)

\* All that has been sent and not read is in s.
AllThere(s, w, c, p) ==
    IF Len(s) > 0 THEN s[Len(s)] = ByteAt(Len(w), WireLen(w[Len(w)]))
    ELSE \/ c = Len(w) /\ p = 0
         \/ c + 1 = Len(w) /\ p = WireLen(w[c + 1])

\* A frame has at least the two bytes of its header.
LEMMA FrameLengths ==
    ASSUME NEW f, IsFrame(f)
    PROVE  /\ ExtLen(f.form) \in {0, 2, 8} /\ KeyLen(f.masked) \in {0, 4}
           /\ Len(f.data) \in Nat
           /\ HeaderLen(f) \in Nat /\ HeaderLen(f) >= 2
           /\ WireLen(f) \in Nat /\ WireLen(f) >= HeaderLen(f)
<1>1. ExtLen(f.form) \in {0, 2, 8}
  BY DEF IsFrame, Form, ExtLen
<1>2. KeyLen(f.masked) \in {0, 4}
  BY DEF KeyLen
<1>3. Len(f.data) \in Nat
  BY DEF IsFrame
<1> QED
  BY <1>1, <1>2, <1>3 DEF HeaderLen, WireLen

\* The length of a frame that has been sent.
LEMMA SentLengths ==
    ASSUME NEW w, Sendable(w), NEW i \in 1..Len(w)
    PROVE  WireLen(w[i]) \in Nat /\ WireLen(w[i]) >= 2
BY FrameLengths DEF Sendable

\* What is in the middle of a line of bytes is in line.
LEMMA InLineWindow ==
    ASSUME NEW w, Sendable(w), NEW s, NEW t, Len(s) \in Nat, Len(t) \in Nat,
           NEW n \in Nat, n + Len(t) <= Len(s), \A j \in 1..Len(t) : t[j] = s[n + j],
           InLine(s, w)
    PROVE  InLine(t, w)
<1>1. \A j \in 1..Len(t) : n + j \in 1..Len(s)
  OBVIOUS
<1>2. ASSUME NEW j \in 1..Len(t)
      PROVE  t[j].frame \in 1..Len(w) /\ t[j].k \in 1..WireLen(w[t[j].frame])
  BY <1>1 DEF InLine
<1>3. ASSUME NEW j \in 1..Len(t), NEW i \in 1..Len(t)
      PROVE  /\ j <= i /\ i - j <= Behind(t[j], w) =>
                  t[i] = ByteAt(t[j].frame, t[j].k + (i - j))
             /\ i - j = Behind(t[j], w) + 1 => t[i] = ByteAt(t[j].frame + 1, 1)
  <2>1. PICK a \in 1..Len(s), b \in 1..Len(s) :
            a = n + j /\ b = n + i /\ t[j] = s[a] /\ t[i] = s[b]
    BY <1>1
  <2>2. b - a = i - j /\ (a <= b <=> j <= i)
    BY <2>1
  <2> QED
    BY <2>1, <2>2 DEF InLine
<1> QED
  BY <1>2, <1>3 DEF InLine

\* Reading n bytes of the next frame.
LEMMA BytesRead ==
    ASSUME NEW w, Sendable(w), NEW s \in Seq(ByteRecord), InLine(s, w),
           NEW c \in Nat, c + 1 <= Len(w), Len(w) \in Nat,
           NEW p \in Nat, NEW n \in Nat, p + n <= WireLen(w[c + 1]), n <= Len(s),
           Begins(s, w, c, p)
    PROVE  LET t == SubSeq(s, n + 1, Len(s)) IN
           /\ t \in Seq(ByteRecord) /\ Len(t) = Len(s) - n
           /\ InLine(t, w)
           /\ Begins(t, w, c, p + n)
           /\ AllThere(s, w, c, p) => AllThere(t, w, c, p + n)
<1> DEFINE t == SubSeq(s, n + 1, Len(s))
           L == WireLen(w[c + 1])
<1>1. Len(s) \in Nat /\ t \in Seq(ByteRecord) /\ Len(t) = Len(s) - n
  OBVIOUS
<1>2. \A j \in 1..Len(t) : t[j] = s[n + j]
  BY <1>1
<1>3. L \in Nat /\ L >= 2
  BY SentLengths
<1> HIDE DEF t, L
<1>4. InLine(t, w)
  <2>1. n + Len(t) <= Len(s) /\ Len(t) \in Nat
    BY <1>1
  <2> QED
    BY <1>1, <1>2, <2>1, InLineWindow
<1>5. ASSUME n > 0
      PROVE  /\ p < L /\ s[1] = ByteAt(c + 1, p + 1)
             /\ Behind(s[1], w) = L - p - 1
             /\ s[n] = ByteAt(c + 1, p + n)
             /\ n < Len(s) => s[n + 1] = IF p + n = L THEN ByteAt(c + 2, 1)
                                         ELSE ByteAt(c + 1, p + n + 1)
  <2>1. p < L /\ 1 \in 1..Len(s)
    BY <1>1, <1>3, <1>5 DEF L
  <2>2. s[1] = ByteAt(c + 1, p + 1)
    BY <2>1, <1>1, <1>3 DEF Begins, L
  <2>3. Behind(s[1], w) = L - p - 1 /\ s[1].frame = c + 1 /\ s[1].k = p + 1
    BY <2>2, <1>3 DEF Behind, ByteAt, L
  <2>4. s[n] = ByteAt(c + 1, p + n)
    <3>1. n \in 1..Len(s) /\ 1 <= n /\ n - 1 <= L - p - 1
      BY <1>1, <1>3, <1>5 DEF L
    <3>2. s[n] = ByteAt(s[1].frame, s[1].k + (n - 1))
      BY <2>1, <2>3, <3>1 DEF InLine
    <3>3. s[1].k + (n - 1) = p + n
      BY <2>3
    <3> QED
      BY <2>3, <3>2, <3>3
  <2>5. ASSUME n < Len(s), p + n = L PROVE s[n + 1] = ByteAt(c + 2, 1)
    <3>1. n + 1 \in 1..Len(s) /\ (n + 1) - 1 = Behind(s[1], w) + 1
      BY <1>1, <1>3, <2>3, <2>5
    <3>2. s[n + 1] = ByteAt(s[1].frame + 1, 1)
      BY <2>1, <3>1 DEF InLine
    <3> QED
      BY <2>3, <3>2
  <2>6. ASSUME n < Len(s), p + n # L PROVE s[n + 1] = ByteAt(c + 1, p + n + 1)
    <3>0. p + n < L /\ (n + 1) - 1 = n
      BY <1>3, <2>6 DEF L
    <3> DEFINE b == Behind(s[1], w)
    <3>1. b = L - p - 1
      BY <2>3
    <3> HIDE DEF b
    <3>2. n + 1 \in 1..Len(s) /\ 1 <= n + 1
      BY <1>1, <2>6
    <3>3. (n + 1) - 1 <= b
      BY <1>3, <3>0, <3>1
    <3>4. n + 1 \in 1..Len(s) /\ 1 <= n + 1 /\ (n + 1) - 1 <= Behind(s[1], w)
      BY <3>2, <3>3 DEF b
    <3>5. s[n + 1] = ByteAt(s[1].frame, s[1].k + ((n + 1) - 1))
      BY <2>1, <3>4 DEF InLine
    <3>6. s[1].k + ((n + 1) - 1) = p + n + 1
      BY <2>3
    <3> QED
      BY <2>3, <3>5, <3>6
  <2> QED
    BY <2>1, <2>2, <2>3, <2>4, <2>5, <2>6
<1>6. Begins(t, w, c, p + n)
  <2>1. CASE n = 0
    <3>1. p + n = p /\ Len(t) = Len(s) /\ (Len(t) > 0 => t[1] = s[1])
      BY <1>1, <1>2, <2>1
    <3> QED
      BY <3>1 DEF Begins
  <2>2. CASE n > 0
    <3>1. Len(t) > 0 => n < Len(s) /\ t[1] = s[n + 1]
      BY <1>1, <1>2
    <3>2. p + n > 0
      BY <2>2
    <3> QED
      BY <1>5, <2>2, <3>1, <3>2 DEF Begins, L
  <2> QED
    BY <2>1, <2>2
<1>7. ASSUME AllThere(s, w, c, p) PROVE AllThere(t, w, c, p + n)
  <2>1. CASE Len(t) > 0
    <3>1. Len(s) > 0 /\ t[Len(t)] = s[Len(s)]
      <4>1. Len(t) \in 1..Len(t) /\ n + Len(t) = Len(s) /\ Len(s) > 0
        BY <1>1, <2>1
      <4>2. t[Len(t)] = s[n + Len(t)]
        BY <1>2, <4>1
      <4> QED
        BY <4>1, <4>2
    <3> QED
      BY <1>7, <2>1, <3>1 DEF AllThere
  <2>2. CASE Len(t) = 0 /\ n = 0
    BY <1>1, <1>7, <2>2 DEF AllThere
  <2>3. CASE Len(t) = 0 /\ n > 0
    <3>1. s[n] = ByteAt(c + 1, p + n) /\ s[n] = ByteAt(Len(w), WireLen(w[Len(w)])) /\ n = Len(s)
      BY <1>1, <1>5, <1>7, <2>3 DEF AllThere
    <3>2. c + 1 = Len(w) /\ p + n = WireLen(w[Len(w)])
      BY <3>1 DEF ByteAt
    <3> QED
      BY <2>3, <3>2 DEF AllThere
  <2> QED
    BY <1>1, <2>1, <2>2, <2>3
<1> QED
  BY <1>1, <1>4, <1>6, <1>7 DEF t

\* A frame that is read whole is one more frame read.
LEMMA FrameRead ==
    ASSUME NEW w, Sendable(w), NEW s, NEW c \in Nat, c + 1 <= Len(w), Len(w) \in Nat,
           Begins(s, w, c, WireLen(w[c + 1]))
    PROVE  /\ Begins(s, w, c + 1, 0)
           /\ AllThere(s, w, c, WireLen(w[c + 1])) => AllThere(s, w, c + 1, 0)
<1>1. WireLen(w[c + 1]) \in Nat /\ WireLen(w[c + 1]) >= 2
  BY SentLengths
<1>2. (c + 1) + 1 = c + 2 /\ 0 + 1 = 1
  OBVIOUS
<1> QED
  BY <1>1, <1>2 DEF Begins, AllThere

\* Two sequences with the same elements are the same.
LEMMA SameSeq ==
    ASSUME NEW s \in Seq(ByteRecord), NEW t \in Seq(ByteRecord), Len(s) = Len(t),
           \A j \in 1..Len(s) : s[j] = t[j]
    PROVE  s = t
OBVIOUS

\* A history of results is whole until one is added that says the stream is cut.
LEMMA AppendResult ==
    ASSUME NEW rs, rs \in Seq(ToSet(rs)), NEW r
    PROVE  /\ Append(rs, r) \in Seq(ToSet(Append(rs, r)))
           /\ (\A i \in DOMAIN Append(rs, r) : ~Append(rs, r)[i].cut) <=>
              (\A i \in DOMAIN rs : ~rs[i].cut) /\ ~r.cut
<1> DEFINE q == Append(rs, r)
<1>1. /\ q \in Seq(ToSet(q))
      /\ Len(rs) \in Nat
      /\ DOMAIN rs = 1..Len(rs) /\ DOMAIN q = 1..(Len(rs) + 1)
      /\ \A i \in 1..Len(rs) : q[i] = rs[i]
      /\ q[Len(rs) + 1] = r
  BY AppendAny
<1> HIDE DEF q
<1>2. (\A i \in 1..(Len(rs) + 1) : ~q[i].cut) <=> (\A i \in 1..Len(rs) : ~rs[i].cut) /\ ~r.cut
  BY <1>1
<1> QED
  BY <1>1, <1>2 DEF q

\* One sequence of bytes behind another.
LEMMA Concatenated ==
    ASSUME NEW s \in Seq(ByteRecord), NEW u \in Seq(ByteRecord)
    PROVE  /\ s \o u \in Seq(ByteRecord)
           /\ Len(s) \in Nat /\ Len(u) \in Nat /\ Len(s \o u) = Len(s) + Len(u)
           /\ \A j \in 1..Len(s) : (s \o u)[j] = s[j]
           /\ \A k \in 1..Len(u) : (s \o u)[Len(s) + k] = u[k]
<1>1. Len(s) \in Nat /\ Len(u) \in Nat /\ s \o u \in Seq(ByteRecord)
  OBVIOUS
<1>2. Len(s \o u) = Len(s) + Len(u)
  OBVIOUS
<1>3. \A j \in 1..Len(s) : (s \o u)[j] = s[j]
  OBVIOUS
<1>4. ASSUME NEW k \in 1..Len(u) PROVE (s \o u)[Len(s) + k] = u[k]
  <2>1. Len(s) + k \in 1..(Len(s) + Len(u)) /\ ~(Len(s) + k <= Len(s)) /\ (Len(s) + k) - Len(s) = k
    BY <1>1
  <2> QED
    BY <1>1, <2>1
<1> QED
  BY <1>1, <1>2, <1>3, <1>4

\* Bytes added in two steps, and bytes taken in two parts.
LEMMA Associative ==
    ASSUME NEW s \in Seq(ByteRecord), NEW t \in Seq(ByteRecord), NEW u \in Seq(ByteRecord)
    PROVE  (s \o t) \o u = s \o (t \o u)
OBVIOUS

\* A sequence is what it begins with and the rest.
LEMMA Split ==
    ASSUME NEW s \in Seq(ByteRecord), NEW n \in 1..Len(s)
    PROVE  SubSeq(s, 1, n) \o SubSeq(s, n + 1, Len(s)) = s
OBVIOUS

\* Another frame is sent.
LEMMA FrameSent ==
    ASSUME NEW F, NEW w \in Seq(F), Sendable(w), NEW f \in F, IsFrame(f),
           NEW s \in Seq(ByteRecord), InLine(s, w),
           NEW c \in 0..Len(w), NEW p \in Nat, p > 0 => c + 1 <= Len(w),
           Begins(s, w, c, p), AllThere(s, w, c, p)
    PROVE  LET v == Append(w, f)
               t == s \o [k \in 1..WireLen(f) |-> [frame |-> Len(w) + 1, k |-> k]]
           IN  /\ Sendable(v)
               /\ t \in Seq(ByteRecord)
               /\ InLine(t, v) /\ Begins(t, v, c, p) /\ AllThere(t, v, c, p)
<1> DEFINE v == Append(w, f)
           L == WireLen(f)
           m == Len(w) + 1
           u == [k \in 1..L |-> [frame |-> m, k |-> k]]
           t == s \o u
<1>1. /\ Len(w) \in Nat /\ v \in Seq(F) /\ Len(v) = m /\ v[m] = f /\ m \in Nat
      /\ \A i \in 1..Len(w) : v[i] = w[i]
  OBVIOUS
<1>2. L \in Nat /\ L >= 2
  BY FrameLengths
<1>3. /\ u \in Seq(ByteRecord) /\ Len(u) = L
      /\ \A k \in 1..L : u[k] = ByteAt(m, k)
  <2>1. \A k \in 1..L : [frame |-> m, k |-> k] \in ByteRecord
    BY <1>1 DEF ByteRecord
  <2> HIDE DEF L, m
  <2> QED
    BY <1>2, <2>1 DEF ByteAt
<1> HIDE DEF v, L, m, u
<1>4. /\ t \in Seq(ByteRecord) /\ Len(s) \in Nat /\ Len(t) = Len(s) + L
      /\ \A j \in 1..Len(s) : t[j] = s[j]
      /\ \A k \in 1..L : t[Len(s) + k] = ByteAt(m, k)
  BY <1>2, <1>3, Concatenated
<1> HIDE DEF t
<1>5. Sendable(v)
  BY <1>1 DEF Sendable, m
<1>6. \A i \in 1..Len(w) : WireLen(v[i]) = WireLen(w[i]) /\ WireLen(v[m]) = L
  BY <1>1 DEF L
<1>6a. WireLen(v[m]) = L
  BY <1>1 DEF L
<1>7. ASSUME NEW j \in 1..Len(t), j > Len(s)
      PROVE  /\ j - Len(s) \in 1..L /\ t[j] = ByteAt(m, j - Len(s))
             /\ t[j].frame = m /\ t[j].k = j - Len(s)
             /\ Behind(t[j], v) = L - (j - Len(s))
  <2>1. j - Len(s) \in 1..L /\ Len(s) + (j - Len(s)) = j
    BY <1>2, <1>4, <1>7
  <2>2. t[j] = ByteAt(m, j - Len(s))
    BY <1>4, <2>1
  <2> QED
    BY <1>6a, <2>1, <2>2 DEF ByteAt, Behind
<1>8. ASSUME NEW j \in 1..Len(s)
      PROVE  /\ j \in 1..Len(t) /\ t[j] = s[j]
             /\ s[j].frame \in 1..Len(w) /\ s[j].k \in 1..WireLen(w[s[j].frame])
             /\ Behind(t[j], v) = Behind(s[j], w) /\ Behind(s[j], w) \in Nat
  <2>1. s[j].frame \in 1..Len(w) /\ s[j].k \in 1..WireLen(w[s[j].frame])
    BY DEF InLine
  <2>2. WireLen(w[s[j].frame]) \in Nat
    BY <2>1, SentLengths
  <2> QED
    BY <1>2, <1>4, <1>6, <2>1, <2>2 DEF Behind
\* The last byte of s is the last of its frame, and that frame is the last of w.
<1>9. ASSUME NEW j \in 1..Len(s)
      PROVE  /\ j + Behind(s[j], w) <= Len(s)
             /\ j + Behind(s[j], w) = Len(s) => s[j].frame = Len(w)
  <2>1. s[Len(s)] = ByteAt(Len(w), WireLen(w[Len(w)])) /\ Len(s) \in 1..Len(s)
    BY <1>4 DEF AllThere
  <2>2. ASSUME Len(s) - j <= Behind(s[j], w)
        PROVE  s[j].frame = Len(w) /\ s[j].k + (Len(s) - j) = WireLen(w[Len(w)])
    <3>1. s[Len(s)] = ByteAt(s[j].frame, s[j].k + (Len(s) - j))
      <4>1. j <= Len(s)
        BY <1>4
      <4> QED
        BY <2>1, <2>2, <4>1 DEF InLine
    <3> QED
      BY <2>1, <3>1 DEF ByteAt
  <2>0. Len(s) \in Nat /\ j \in Nat /\ Behind(s[j], w) \in Nat
    BY <1>4, <1>8
  <2>3. CASE Len(s) - j <= Behind(s[j], w)
    <3>0. s[j].frame = Len(w) /\ s[j].k + (Len(s) - j) = WireLen(w[Len(w)])
      BY <2>2, <2>3
    <3>1. Behind(s[j], w) = Len(s) - j
      <4>1. s[j].k \in Int /\ WireLen(w[Len(w)]) \in Int
        BY <1>8, <3>0, SentLengths
      <4> QED
        BY <2>0, <3>0, <4>1 DEF Behind
    <3> QED
      BY <2>0, <3>0, <3>1
  <2>4. CASE ~(Len(s) - j <= Behind(s[j], w))
    BY <2>0, <2>4
  <2> QED
    BY <2>3, <2>4
<1>10. InLine(t, v)
  <2>1. ASSUME NEW j \in 1..Len(t)
        PROVE  t[j].frame \in 1..Len(v) /\ t[j].k \in 1..WireLen(v[t[j].frame])
    <3>1. CASE j <= Len(s)
      <4>1. j \in 1..Len(s)
        BY <1>4, <3>1
      <4>2. t[j] = s[j] /\ s[j].frame \in 1..Len(w) /\ s[j].k \in 1..WireLen(w[s[j].frame])
        BY <4>1, <1>8
      <4> QED
        BY <1>1, <1>6, <4>2 DEF m
    <3>2. CASE j > Len(s)
      <4>1. t[j].frame = m /\ t[j].k \in 1..L
        BY <3>2, <1>7
      <4>2. m \in 1..Len(v)
        BY <1>1 DEF m
      <4> QED
        BY <4>1, <4>2, <1>6a
    <3> QED
      BY <1>4, <3>1, <3>2
  <2>2. ASSUME NEW j \in 1..Len(t), NEW i \in 1..Len(t), j <= i, i - j <= Behind(t[j], v)
        PROVE  t[i] = ByteAt(t[j].frame, t[j].k + (i - j))
    <3>1. CASE j <= Len(s)
      <4>1. j \in 1..Len(s)
        BY <1>4, <3>1
      <4>1a. /\ t[j] = s[j] /\ Behind(t[j], v) = Behind(s[j], w) /\ Behind(s[j], w) \in Nat
             /\ j + Behind(s[j], w) <= Len(s)
        BY <4>1, <1>8, <1>9
      <4>2. i <= Len(s)
        BY <2>2, <4>1a, <1>4
      <4>3. i \in 1..Len(s)
        BY <1>4, <4>2
      <4> QED
        BY <2>2, <4>1, <4>3, <1>8 DEF InLine
    <3>2. CASE j > Len(s)
      <4>1. i > Len(s) /\ (j - Len(s)) + (i - j) = i - Len(s)
        BY <2>2, <3>2, <1>4
      <4> QED
        BY <3>2, <4>1, <1>7
    <3> QED
      BY <1>4, <3>1, <3>2
  <2>3. ASSUME NEW j \in 1..Len(t), NEW i \in 1..Len(t), i - j = Behind(t[j], v) + 1
        PROVE  t[i] = ByteAt(t[j].frame + 1, 1)
    <3>1. CASE j <= Len(s)
      <4>1. j \in 1..Len(s)
        BY <1>4, <3>1
      <4>2. Behind(t[j], v) = Behind(s[j], w) /\ t[j] = s[j] /\ Behind(s[j], w) \in Nat
        BY <4>1, <1>8
      <4>3. CASE i <= Len(s)
        <5>1. i \in 1..Len(s)
          BY <1>4, <4>3
        <5> QED
          BY <2>3, <4>1, <4>2, <5>1, <1>8 DEF InLine
      <4>4. CASE i > Len(s)
        <5>1. i = Len(s) + 1 /\ j + Behind(s[j], w) = Len(s)
          <6>1. PICK b \in Nat : b = Behind(s[j], w) /\ j + b <= Len(s)
            BY <4>1, <4>2, <1>9
          <6>2. i - j = b + 1
            BY <2>3, <4>2, <6>1
          <6>3. i \in Nat /\ j \in Nat /\ Len(s) \in Nat
            BY <1>4
          <6>4. i = j + b + 1
            BY <6>2, <6>3
          <6>5. j + b = Len(s)
            BY <4>4, <6>1, <6>3, <6>4
          <6> QED
            BY <6>1, <6>3, <6>4, <6>5
        <5>2. s[j].frame = Len(w)
          BY <4>1, <5>1, <1>9
        <5>3. t[i] = ByteAt(m, 1)
          BY <1>2, <1>4, <5>1
        <5> QED
          BY <4>2, <5>2, <5>3 DEF m
      <4> QED
        BY <1>4, <4>3, <4>4
    <3>2. CASE j > Len(s)
      <4>1. Behind(t[j], v) = L - (j - Len(s))
        BY <3>2, <1>7
      <4>2. i = Len(s) + L + 1
        BY <2>3, <4>1, <1>2, <1>4
      <4> QED
        BY <4>2, <1>4
    <3> QED
      BY <1>4, <3>1, <3>2
  <2> QED
    BY <2>1, <2>2, <2>3 DEF InLine
<1>11. Begins(t, v, c, p)
  <2>1. p > 0 => WireLen(v[c + 1]) = WireLen(w[c + 1])
    BY <1>1, <1>6
  <2>2. CASE Len(s) > 0
    <3>1. t[1] = s[1]
      BY <2>2, <1>4
    <3> QED
      BY <2>1, <2>2, <3>1 DEF Begins
  <2>3. CASE Len(s) = 0
    <3>1. t[1] = ByteAt(m, 1)
      BY <2>3, <1>2, <1>4
    <3>2. CASE c = Len(w) /\ p = 0
      BY <3>1, <3>2, <1>1 DEF Begins, m
    <3>3. CASE c + 1 = Len(w) /\ p = WireLen(w[c + 1])
      <4>1. p > 0 /\ c + 2 = m
        <5>1. c + 1 \in 1..Len(w)
          BY <3>3, <1>1
        <5>2. WireLen(w[c + 1]) \in Nat /\ WireLen(w[c + 1]) >= 2
          BY <5>1, SentLengths
        <5> QED
          BY <3>3, <5>2, <1>1 DEF m
      <4> QED
        BY <2>1, <3>1, <3>3, <4>1 DEF Begins
    <3> QED
      BY <2>3, <3>2, <3>3 DEF AllThere
  <2> QED
    BY <1>4, <2>2, <2>3
<1>12. AllThere(t, v, c, p)
  <2>1. Len(t) > 0 /\ Len(t) \in 1..Len(t) /\ Len(t) > Len(s) /\ Len(t) - Len(s) = L
    BY <1>2, <1>4
  <2>2. t[Len(t)] = ByteAt(m, L)
    BY <2>1, <1>7
  <2> QED
    BY <2>1, <2>2, <1>1, <1>6a DEF AllThere
<1> QED
  BY <1>4, <1>5, <1>10, <1>11, <1>12 DEF v, t, u, m, L

\* Taking bytes off the front of what has come takes them off the front of all that is
\* on its way.
LEMMA FrontOff ==
    ASSUME NEW s \in Seq(ByteRecord), NEW u \in Seq(ByteRecord), NEW n \in Nat, n <= Len(s)
    PROVE  LET t == SubSeq(s, n + 1, Len(s)) IN
           /\ t \in Seq(ByteRecord) /\ Len(t) = Len(s) - n
           /\ \A j \in 1..(Len(s) - n) : t[j] = s[n + j]
           /\ t \o u = SubSeq(s \o u, n + 1, Len(s \o u))
<1> DEFINE t == SubSeq(s, n + 1, Len(s))
           a == s \o u
           b == t \o u
           v == SubSeq(a, n + 1, Len(a))
<1>1. /\ t \in Seq(ByteRecord) /\ Len(t) = Len(s) - n /\ Len(s) \in Nat /\ Len(t) \in Nat
      /\ \A j \in 1..(Len(s) - n) : t[j] = s[n + j]
  OBVIOUS
<1> HIDE DEF t
<1>2. /\ b \in Seq(ByteRecord) /\ a \in Seq(ByteRecord) /\ Len(u) \in Nat
      /\ Len(b) = Len(t) + Len(u) /\ Len(a) = Len(s) + Len(u)
      /\ \A j \in 1..Len(t) : b[j] = t[j]
      /\ \A j \in 1..Len(s) : a[j] = s[j]
      /\ \A k \in 1..Len(u) : b[Len(t) + k] = u[k]
      /\ \A k \in 1..Len(u) : a[Len(s) + k] = u[k]
  BY <1>1, Concatenated
<1> HIDE DEF a, b
<1>3. /\ v \in Seq(ByteRecord) /\ Len(v) = Len(a) - n
      /\ \A j \in 1..(Len(a) - n) : v[j] = a[n + j]
  BY <1>1, <1>2
<1> HIDE DEF v
<1>4. Len(b) = Len(v) /\ Len(b) \in Nat
  BY <1>1, <1>2, <1>3
<1>5. ASSUME NEW j \in 1..Len(b) PROVE b[j] = v[j]
  <2>1. v[j] = a[n + j]
    BY <1>3, <1>4
  <2>2. CASE j <= Len(t)
    <3>1. j \in 1..Len(t) /\ n + j \in 1..Len(s) /\ j \in 1..(Len(s) - n)
      BY <1>1, <1>2, <2>2
    <3> QED
      BY <1>1, <1>2, <2>1, <3>1
  <2>3. CASE j > Len(t)
    <3>0. Len(t) \in Nat /\ Len(u) \in Nat /\ Len(b) = Len(t) + Len(u) /\ j \in 1..Len(b)
      BY <1>1, <1>2
    <3>1. PICK k \in 1..Len(u) : j = Len(t) + k
      <4>1. j - Len(t) \in 1..Len(u) /\ j = Len(t) + (j - Len(t))
        BY <2>3, <3>0
      <4> QED
        BY <4>1
    <3>2. n + j = Len(s) + k
      <4>1. Len(t) = Len(s) - n /\ Len(s) \in Nat
        BY <1>1
      <4> QED
        BY <3>0, <3>1, <4>1
    <3> QED
      BY <1>2, <2>1, <3>1, <3>2
  <2> QED
    BY <1>1, <1>2, <2>2, <2>3
<1>6. b = v
  BY <1>2, <1>3, <1>4, <1>5, SameSeq
<1> QED
  BY <1>1, <1>6 DEF a, b, t, v

\* Bytes that come in change nothing in all that is on its way.
LEMMA Moved ==
    ASSUME NEW s \in Seq(ByteRecord), NEW u \in Seq(ByteRecord), NEW n \in 1..Len(u)
    PROVE  LET a == SubSeq(u, 1, n)
               b == SubSeq(u, n + 1, Len(u))
           IN  /\ s \o a \in Seq(ByteRecord) /\ b \in Seq(ByteRecord)
               /\ (s \o a) \o b = s \o u
<1> DEFINE a == SubSeq(u, 1, n)
           b == SubSeq(u, n + 1, Len(u))
<1>1. a \in Seq(ByteRecord) /\ b \in Seq(ByteRecord)
  OBVIOUS
<1>2. a \o b = u
  BY Split
<1> HIDE DEF a, b
<1>3. (s \o a) \o b = s \o (a \o b)
  BY <1>1, Associative
<1>4. s \o a \in Seq(ByteRecord)
  BY <1>1, Concatenated
<1> QED
  BY <1>1, <1>2, <1>3, <1>4 DEF a, b

\* Bytes that are cut off at the end leave the others in line.
LEMMA CutOff ==
    ASSUME NEW w, Sendable(w), NEW s \in Seq(ByteRecord), NEW u \in Seq(ByteRecord),
           NEW t \in Seq(ByteRecord), Len(t) <= Len(u), \A j \in 1..Len(t) : t[j] = u[j],
           NEW c, NEW p, InLine(s \o u, w), Begins(s \o u, w, c, p)
    PROVE  InLine(s \o t, w) /\ Begins(s \o t, w, c, p)
<1> DEFINE a == s \o u
           b == s \o t
<1>1. /\ Len(s) \in Nat /\ Len(u) \in Nat /\ Len(t) \in Nat
      /\ Len(a) = Len(s) + Len(u) /\ Len(b) = Len(s) + Len(t)
      /\ \A j \in 1..Len(s) : b[j] = s[j] /\ a[j] = s[j]
      /\ \A k \in 1..Len(t) : b[Len(s) + k] = t[k]
      /\ \A k \in 1..Len(u) : a[Len(s) + k] = u[k]
  BY Concatenated
<1>2. InLine(a, w) /\ Begins(a, w, c, p)
  OBVIOUS
<1> HIDE DEF a, b
<1>3. ASSUME NEW j \in 1..Len(b) PROVE b[j] = a[j]
  <2>1. CASE j <= Len(s)
    BY <1>1, <2>1
  <2>2. CASE j > Len(s)
    <3>1. PICK k \in 1..Len(t) : j = Len(s) + k
      <4>1. j - Len(s) \in 1..Len(t) /\ j = Len(s) + (j - Len(s))
        BY <1>1, <2>2
      <4> QED
        BY <4>1
    <3>2. k \in 1..Len(u)
      BY <1>1
    <3> QED
      BY <1>1, <3>1, <3>2
  <2> QED
    BY <1>1, <2>1, <2>2
<1>4. InLine(b, w)
  <2>1. \A j \in 1..Len(b) : b[j] = a[0 + j]
    BY <1>3
  <2>2. 0 + Len(b) <= Len(a) /\ 0 \in Nat /\ Len(a) \in Nat /\ Len(b) \in Nat
    BY <1>1
  <2> QED
    BY <1>2, <2>1, <2>2, InLineWindow
<1>5. Begins(b, w, c, p)
  <2>1. Len(b) > 0 => Len(a) > 0 /\ b[1] = a[1]
    BY <1>1, <1>3
  <2> QED
    BY <1>2, <2>1 DEF Begins
<1> QED
  BY <1>4, <1>5 DEF b

=============================================================================
