--------------------------- MODULE ProtoQueue_proofs --------------------------
(* The frames in the ring, and the queue of messages they are, for every    *)
(* ring size and every set of messages.                                     *)
EXTENDS ProtoQueue, WellFoundedInduction, SequenceTheorems, TLAPS

(* A parser is in use only while a Gets runs.                               *)
ParserIdle == phase # "gets" => parser = NewParser

(* Every end mark in the ring is followed by a begin mark, and a frame that *)
(* is being put is not ended yet.                                           *)
MarksAlternate ==
  /\ \A i \in 1 .. Len(q) - 1 : q[i] = END => q[i + 1] = BEGIN
  /\ phase \in {"body", "flip"} => q # <<>> /\ q[Len(q)] # END
  /\ phase = "flip" => msg[pos] \in Special

FrameInv == TypeOK /\ ParserIdle /\ MarksAlternate /\ ParserSynchronised

LEMMA FlipByte == \A b \in Byte : Flip(b) \in Byte
BY QueueConstantsOK DEF Flip

LEMMA FlipIsOrdinary == \A b \in Special : Flip(b) \notin Special
BY DEF Special, ESC, BEGIN, END, Flip

LEMMA MarkBytes == ESC \in Byte /\ BEGIN \in Byte /\ END \in Byte
BY QueueConstantsOK DEF ESC, BEGIN, END

LEMMA FrameInit == Init => FrameInv
BY FifoConstantsOK, QueueConstantsOK
   DEF Init, FifoInit, FrameInv, TypeOK, FifoTypeOK, ParserIdle, MarksAlternate,
       ParserSynchronised, Ops, Phases, Results, Parser, NewParser

(* What Put does to the ring.                                               *)
LEMMA PutFacts ==
  ASSUME FifoTypeOK, NEW c \in Byte, Put(c)
  PROVE  /\ FifoTypeOK'
         /\ \/ /\ rc' = 0 /\ q' \in Seq(Byte) /\ Len(q') = Len(q) + 1
               /\ \A i \in 1 .. Len(q) : q'[i] = q[i]
               /\ q'[Len(q) + 1] = c
            \/ rc' = -1 /\ q' = q
BY FifoConstantsOK DEF FifoTypeOK, Put

(* A byte put after the ones in the ring keeps the marks alternating if it  *)
(* is not an end mark, and a begin mark wherever a frame begins.            *)
LEMMA PutMarks ==
  ASSUME FifoTypeOK, NEW c \in Byte, Put(c), rc' = 0,
         \A i \in 1 .. Len(q) - 1 : q[i] = END => q[i + 1] = BEGIN,
         c = BEGIN \/ (q # <<>> /\ q[Len(q)] # END)
  PROVE  /\ \A i \in 1 .. Len(q') - 1 : q'[i] = END => q'[i + 1] = BEGIN
         /\ q' # <<>> /\ q'[Len(q')] = c
         /\ (q # <<>> => q[1] = BEGIN) => q'[1] = BEGIN
<1>1. /\ q \in Seq(Byte) /\ Len(q) \in Nat /\ Len(q') = Len(q) + 1 /\ q' \in Seq(Byte)
      /\ \A i \in 1 .. Len(q) : q'[i] = q[i]
      /\ q'[Len(q) + 1] = c
  BY PutFacts DEF FifoTypeOK
<1>2. ASSUME NEW i \in 1 .. Len(q') - 1, q'[i] = END PROVE q'[i + 1] = BEGIN
  <2>1. CASE i < Len(q)
    BY <1>1, <1>2, <2>1
  <2>2. CASE i = Len(q)
    BY <1>1, <1>2, <2>2
  <2>. QED  BY <1>1, <2>1, <2>2
<1>3. q' # <<>> /\ q'[Len(q')] = c
  BY <1>1
<1>4. (q # <<>> => q[1] = BEGIN) => q'[1] = BEGIN
  <2>1. CASE q = <<>>
    BY <1>1, <2>1
  <2>2. CASE q # <<>>
    BY <1>1, <2>2
  <2>. QED  BY <2>1, <2>2
<1>. QED  BY <1>2, <1>3, <1>4

LEMMA GetFacts ==
  ASSUME FifoTypeOK, Get
  PROVE  /\ FifoTypeOK'
         /\ \/ /\ q # <<>> /\ rc' = 0 /\ out' = q[1] /\ Len(q') = Len(q) - 1
               /\ \A i \in 1 .. Len(q) - 1 : q'[i] = q[i + 1]
            \/ q = <<>> /\ rc' = -1 /\ q' = q
BY FifoConstantsOK DEF FifoTypeOK, Get

LEMMA GetMarks ==
  ASSUME FifoTypeOK, Get,
         \A i \in 1 .. Len(q) - 1 : q[i] = END => q[i + 1] = BEGIN
  PROVE  /\ \A i \in 1 .. Len(q') - 1 : q'[i] = END => q'[i + 1] = BEGIN
         /\ rc' = 0 /\ out' = END => (q' # <<>> => q'[1] = BEGIN)
<1>1. CASE q = <<>>
  BY <1>1 DEF Get
<1>2. CASE q # <<>>
  <2>1. /\ q \in Seq(Byte) /\ Len(q) \in Nat \ {0} /\ q' \in Seq(Byte)
        /\ rc' = 0 /\ out' = q[1] /\ Len(q') = Len(q) - 1
        /\ \A i \in 1 .. Len(q) - 1 : q'[i] = q[i + 1]
    BY <1>2, GetFacts, EmptySeq DEF FifoTypeOK
  <2>2. \A i \in 1 .. Len(q') - 1 : q'[i] = END => q'[i + 1] = BEGIN
    BY <2>1
  <2>3. out' = END => (q' # <<>> => q'[1] = BEGIN)
    <3>1. q' # <<>> => Len(q') >= 1
      BY <2>1, EmptySeq
    <3>2. ASSUME out' = END, q' # <<>> PROVE q'[1] = BEGIN
      <4>1. 1 \in 1 .. Len(q) - 1
        BY <2>1, <3>1, <3>2
      <4>2. q'[1] = q[2] /\ q[1] = END
        BY <2>1, <3>2, <4>1
      <4>. QED  BY <4>1, <4>2
    <3>. QED  BY <3>2
  <2>. QED  BY <2>1, <2>2, <2>3
<1>. QED  BY <1>1, <1>2

LEMMA ParserFields ==
  /\ \A p \in Parser, s \in Seq(Byte) :
       [p EXCEPT !.buf = s] \in Parser /\ [p EXCEPT !.buf = s].buf = s
  /\ \A p \in Parser, e \in BOOLEAN :
       [p EXCEPT !.isEsc = e] \in Parser /\ [p EXCEPT !.isEsc = e].buf = p.buf
  /\ \A p \in Parser, v \in {"yes", "no"} :
       [p EXCEPT !.isBegin = v] \in Parser /\ [p EXCEPT !.isBegin = v].buf = p.buf
<1>1. ASSUME NEW p \in Parser, NEW s \in Seq(Byte)
      PROVE  [p EXCEPT !.buf = s] \in Parser /\ [p EXCEPT !.buf = s].buf = s
  BY DEF Parser
<1>2. ASSUME NEW p \in Parser, NEW e \in BOOLEAN
      PROVE  [p EXCEPT !.isEsc = e] \in Parser /\ [p EXCEPT !.isEsc = e].buf = p.buf
  BY DEF Parser
<1>3. ASSUME NEW p \in Parser, NEW v \in {"yes", "no"}
      PROVE  [p EXCEPT !.isBegin = v] \in Parser /\ [p EXCEPT !.isBegin = v].buf = p.buf
  BY DEF Parser
<1>. QED  BY <1>1, <1>2, <1>3

LEMMA ParseByteType ==
  ASSUME NEW p \in Parser, Len(p.buf) <= BufSize, NEW b \in Byte, b # END
  PROVE  /\ ParseByte(p, b) \in Parser
         /\ Len(ParseByte(p, b).buf) <= BufSize
<1>1. CASE b = ESC
  <2>1. ParseByte(p, b) = [p EXCEPT !.isEsc = TRUE]
    BY <1>1 DEF ParseByte, ESC, BEGIN, END, Special
  <2>. QED  BY <2>1, ParserFields
<1>2. CASE b = BEGIN
  BY <1>2, QueueConstantsOK, FifoConstantsOK DEF ParseByte, Parser, ESC, BEGIN, END, Special
<1>3. CASE b \notin Special /\ p.isBegin = "no"
  BY <1>3 DEF ParseByte, Parser, ESC, BEGIN, END, Special
<1>4. CASE b \notin Special /\ p.isBegin # "no"
  <2>. DEFINE c == IF p.isEsc THEN Flip(b) ELSE b
              r == [p EXCEPT !.isEsc = FALSE]
  <2>1. c \in Byte
    BY FlipByte
  <2>2. r \in Parser /\ r.buf = p.buf
    BY DEF Parser
  <2>3. ParseByte(p, b) = Store(r, c)
    BY <1>4 DEF ParseByte, Special
  <2>4. Store(r, c) \in Parser /\ Len(Store(r, c).buf) <= BufSize
    <3>1. CASE Len(r.buf) < BufSize
      <4>1. Store(r, c) = [r EXCEPT !.buf = Append(r.buf, c)]
        BY <3>1 DEF Store
      <4>2. Append(r.buf, c) \in Seq(Byte) /\ Len(Append(r.buf, c)) = Len(r.buf) + 1
        BY <2>1, <2>2 DEF Parser
      <4>3. Len(r.buf) \in Nat
        BY <2>2 DEF Parser
      <4>4. /\ [r EXCEPT !.buf = Append(r.buf, c)] \in Parser
            /\ [r EXCEPT !.buf = Append(r.buf, c)].buf = Append(r.buf, c)
        BY <2>2, <4>2, ParserFields
      <4>5. Store(r, c) \in Parser /\ Store(r, c).buf = Append(r.buf, c)
        BY <4>1, <4>4
      <4>. QED  BY <3>1, <4>2, <4>3, <4>5, QueueConstantsOK
    <3>2. CASE ~(Len(r.buf) < BufSize)
      BY <2>2, <3>2 DEF Store
    <3>. QED  BY <3>1, <3>2
  <2>. QED  BY <2>3, <2>4
<1>. QED  BY <1>1, <1>2, <1>3, <1>4 DEF Special

------------------------------------------------------------------------------
(* The invariant, step by step.                                             *)

LEMMA PutsFailsInv ==
  ASSUME FrameInv, phase \in {"begin", "body", "flip"}, PutsFails, q' = q, FifoTypeOK'
  PROVE  FrameInv'
<1>1. parser' = NewParser /\ parser = NewParser /\ phase' \in {"gets", "idle"}
  BY DEF PutsFails, StartGets, Return, FrameInv, ParserIdle
<1>2. NewParser \in Parser /\ Len(NewParser.buf) <= BufSize
  BY QueueConstantsOK, FifoConstantsOK DEF NewParser, Parser
<1>3. ASSUME op = "publish", StartGets, UNCHANGED <<op, msg, result, taken>> PROVE TypeOK'
  BY <1>2, <1>3 DEF StartGets, FrameInv, TypeOK, Phases
<1>4. ASSUME op = "respond", Return("refused"), UNCHANGED taken PROVE TypeOK'
  BY <1>2, <1>4 DEF Return, TypeOK, Ops, Phases, Results
<1>5. TypeOK'
  BY <1>3, <1>4 DEF PutsFails
<1>. QED  BY <1>1, <1>5 DEF FrameInv, ParserIdle, MarksAlternate, ParserSynchronised

(* A byte was put that leaves its frame open.                               *)
LEMMA AdvanceInv ==
  ASSUME FrameInv, phase \in {"begin", "body", "flip"}, NEW c \in Byte, c # END, Put(c),
         c = BEGIN \/ phase \in {"body", "flip"},
         NEW next \in {"body", "flip"}, NEW n \in Nat, Advance(next, n),
         next = "body" => n \in 1 .. Len(msg) + 1,
         next = "flip" => n \in 1 .. Len(msg) /\ msg[n] \in Special
  PROVE  FrameInv'
<1>0. FifoTypeOK /\ FifoTypeOK'
  BY PutFacts DEF FrameInv, TypeOK
<1>1. CASE rc' = -1
  <2>1. q' = q
    BY <1>0, <1>1, PutFacts
  <2>2. PutsFails
    BY <1>1 DEF Advance
  <2>. QED  BY <1>0, <2>1, <2>2, PutsFailsInv
<1>2. CASE rc' = 0
  <2>1. /\ phase' = next /\ pos' = n
        /\ UNCHANGED <<op, msg, parser, taken, result>>
    BY <1>2 DEF Advance
  <2>2. TypeOK'
    BY <1>0, <2>1 DEF FrameInv, TypeOK, Phases
  <2>3. parser = NewParser
    BY DEF FrameInv, ParserIdle
  <2>4. (q # <<>> => Head(q) = BEGIN) /\ q \in Seq(Byte)
    BY <1>0, <2>3 DEF FrameInv, ParserSynchronised, NewParser, FifoTypeOK
  <2>5. c = BEGIN \/ (q # <<>> /\ q[Len(q)] # END)
    BY DEF FrameInv, MarksAlternate
  <2>6. q # <<>> => q[1] = BEGIN
    BY <2>4
  <2>7. /\ \A i \in 1 .. Len(q') - 1 : q'[i] = END => q'[i + 1] = BEGIN
        /\ q' # <<>> /\ q'[Len(q')] = c /\ q'[1] = BEGIN
    BY <1>0, <1>2, <2>5, <2>6, PutMarks DEF FrameInv, MarksAlternate
  <2>8. MarksAlternate'
    BY <2>1, <2>7 DEF MarksAlternate
  <2>9. ParserSynchronised' /\ ParserIdle'
    <3>1. Head(q') = q'[1]
      BY <1>0, <2>7 DEF FifoTypeOK
    <3>. QED  BY <2>1, <2>3, <2>7, <3>1 DEF ParserSynchronised, ParserIdle
  <2>. QED  BY <2>2, <2>8, <2>9 DEF FrameInv
<1>. QED  BY <1>0, <1>1, <1>2 DEF FifoTypeOK

LEMMA MsgByte ==
  ASSUME TypeOK, msg # NoMessage, NEW i \in 1 .. Len(msg)
  PROVE  msg[i] \in Byte /\ Len(msg) \in Nat
<1>1. msg \in Seq(Byte)
  BY QueueConstantsOK DEF TypeOK
<1>. QED  BY <1>1, ElementOfSeq, LenProperties

LEMMA PutBeginInv == ASSUME FrameInv, PutBegin PROVE FrameInv'
<1>1. /\ phase = "begin" /\ Put(BEGIN) /\ Advance("body", 1) /\ BEGIN \in Byte /\ BEGIN # END
      /\ msg \in Seq(Byte)
  BY MarkBytes, QueueConstantsOK DEF PutBegin, FrameInv, TypeOK, BEGIN, END
<1>2. Len(msg) \in Nat /\ 1 \in 1 .. Len(msg) + 1
  BY <1>1
<1>. QED  BY <1>1, <1>2, AdvanceInv

LEMMA PutMiddleInv ==
  ASSUME FrameInv, PutPlain \/ PutEscape \/ PutFlipped PROVE FrameInv'
<1>1. /\ phase \in {"body", "flip"} /\ pos \in 1 .. Len(msg)
      /\ msg # NoMessage
  BY DEF PutPlain, PutEscape, PutFlipped, FrameInv, TypeOK
<1>2. msg[pos] \in Byte /\ Len(msg) \in Nat /\ pos \in Nat
  BY <1>1, MsgByte DEF FrameInv, TypeOK
<1>3. pos \in 1 .. Len(msg) + 1 /\ pos + 1 \in 1 .. Len(msg) + 1
  BY <1>1, <1>2
<1>4. CASE PutPlain
  <2>1. msg[pos] # END
    BY <1>4 DEF PutPlain, Special
  <2>. QED  BY <1>1, <1>2, <1>3, <1>4, <2>1, AdvanceInv DEF PutPlain
<1>5. CASE PutEscape
  <2>1. ESC \in Byte /\ ESC # END
    BY MarkBytes DEF ESC, END
  <2>. QED  BY <1>1, <1>2, <1>3, <1>5, <2>1, AdvanceInv DEF PutEscape
<1>6. CASE PutFlipped /\ Flip(msg[pos]) # END
  BY <1>1, <1>2, <1>3, <1>6, FlipByte, AdvanceInv DEF PutFlipped
<1>7. PutFlipped => Flip(msg[pos]) # END
  BY FlipIsOrdinary DEF PutFlipped, FrameInv, MarksAlternate, Special
<1>. QED  BY <1>4, <1>5, <1>6, <1>7

LEMMA NewParserType == NewParser \in Parser /\ Len(NewParser.buf) <= BufSize
BY QueueConstantsOK, FifoConstantsOK DEF NewParser, Parser

LEMMA ReturnType ==
  ASSUME FifoTypeOK', NEW r \in Results, Return(r) PROVE TypeOK'
BY NewParserType DEF Return, TypeOK, Ops, Phases

LEMMA PutEndInv == ASSUME FrameInv, PutEnd PROVE FrameInv'
<1>0. /\ FifoTypeOK /\ FifoTypeOK' /\ END \in Byte /\ Put(END) /\ phase = "body"
  BY PutFacts, MarkBytes DEF PutEnd, FrameInv, TypeOK
<1>1. CASE rc' = -1
  <2>1. q' = q
    BY <1>0, <1>1, PutFacts
  <2>2. PutsFails
    BY <1>1 DEF PutEnd
  <2>. QED  BY <1>0, <2>1, <2>2, PutsFailsInv
<1>2. CASE rc' = 0
  <2>1. Return("queued")
    BY <1>2 DEF PutEnd
  <2>2. TypeOK'
    BY <1>0, <2>1, ReturnType DEF Results
  <2>3. parser = NewParser /\ q # <<>> /\ q[Len(q)] # END
    BY <1>0 DEF FrameInv, ParserIdle, MarksAlternate
  <2>4. Head(q) = BEGIN
    BY <2>3 DEF FrameInv, ParserSynchronised, NewParser
  <2>5. q # <<>> => q[1] = BEGIN
    BY <1>0, <2>4 DEF FifoTypeOK
  <2>6. /\ \A i \in 1 .. Len(q') - 1 : q'[i] = END => q'[i + 1] = BEGIN
        /\ q' # <<>> /\ q'[1] = BEGIN
    BY <1>0, <1>2, <2>3, <2>5, PutMarks DEF FrameInv, MarksAlternate
  <2>7. MarksAlternate'
    BY <2>1, <2>6 DEF MarksAlternate, Return
  <2>8. Head(q') = q'[1]
    BY <1>0, <2>6 DEF FifoTypeOK
  <2>. QED  BY <2>1, <2>2, <2>6, <2>7, <2>8
            DEF FrameInv, ParserSynchronised, ParserIdle, Return
<1>. QED  BY <1>0, <1>1, <1>2 DEF FifoTypeOK

(* The first byte that is read is a begin mark, and from then on isBegin    *)
(* has been written.                                                        *)
LEMMA GetsByteInv == ASSUME FrameInv, GetsByte PROVE FrameInv'
<1>0. /\ FifoTypeOK /\ FifoTypeOK' /\ Get /\ phase = "gets" /\ rc' = 0 /\ out' # END
      /\ q # <<>> /\ out' = Head(q) /\ out' \in Byte
  BY GetFacts DEF GetsByte, FrameInv, TypeOK, Get, FifoTypeOK
<1>1. PICK p \in Read(parser) : parser' = ParseByte(p, out')
  BY DEF GetsByte
<1>2. p \in Parser /\ Len(p.buf) <= BufSize /\ p.isBegin \in {"yes", "no"}
  <2>1. CASE parser.isBegin = "unset"
    BY <1>1, <2>1, ParserFields DEF Read, FrameInv, TypeOK, Parser
  <2>2. CASE parser.isBegin # "unset"
    BY <1>1, <2>2 DEF Read, FrameInv, TypeOK, Parser
  <2>. QED  BY <2>1, <2>2
<1>3. parser' \in Parser /\ Len(parser'.buf) <= BufSize
  BY <1>0, <1>1, <1>2, ParseByteType
<1>4. parser'.isBegin # "unset"
  <2>1. CASE out' = ESC
    <3>1. parser' = [p EXCEPT !.isEsc = TRUE]
      BY <1>1, <2>1 DEF ParseByte, ESC, BEGIN, Special
    <3>. QED  BY <1>2, <3>1 DEF Parser
  <2>2. CASE out' = BEGIN
    BY <1>1, <2>2 DEF ParseByte, ESC, BEGIN, Special
  <2>3. CASE out' \notin Special /\ p.isBegin = "no"
    BY <1>1, <2>3 DEF ParseByte, ESC, BEGIN, Special
  <2>4. CASE out' \notin Special /\ p.isBegin # "no"
    <3>1. \E b \in Byte : parser' = Store([p EXCEPT !.isEsc = FALSE], b)
      BY <1>0, <1>1, <2>4, FlipByte DEF ParseByte, Special
    <3>2. [p EXCEPT !.isEsc = FALSE].isBegin = p.isBegin /\ [p EXCEPT !.isEsc = FALSE] \in Parser
      BY <1>2 DEF Parser
    <3>3. \A r \in Parser, b \in Byte : Store(r, b).isBegin = r.isBegin
      BY DEF Store, Parser
    <3>. QED  BY <1>2, <3>1, <3>2, <3>3
  <2>. QED  BY <1>0, <2>1, <2>2, <2>3, <2>4 DEF Special
<1>5. TypeOK'
  BY <1>0, <1>3 DEF GetsByte, FrameInv, TypeOK
<1>6. MarksAlternate'
  BY <1>0, GetMarks DEF GetsByte, FrameInv, MarksAlternate
<1>. QED  BY <1>0, <1>4, <1>5, <1>6 DEF GetsByte, FrameInv, ParserIdle, ParserSynchronised

LEMMA GetsDoneInv == ASSUME FrameInv, GetsDone PROVE FrameInv'
<1>0. /\ FifoTypeOK' /\ FifoTypeOK /\ Get /\ rc' = 0 /\ out' = END
  BY GetFacts DEF GetsDone, FrameInv, TypeOK
<1>1. /\ \A i \in 1 .. Len(q') - 1 : q'[i] = END => q'[i + 1] = BEGIN
      /\ q' # <<>> => q'[1] = BEGIN
  BY <1>0, GetMarks DEF FrameInv, MarksAlternate
<1>2. q' # <<>> => Head(q') = BEGIN
  BY <1>0, <1>1 DEF FifoTypeOK
<1>3. parser' = NewParser /\ phase' \in {"idle", "begin"}
  BY DEF GetsDone, Return, RetryPuts, StartPuts
<1>4. TypeOK'
  <2>1. CASE Return("taken")
    BY <1>0, <2>1, ReturnType DEF Results
  <2>2. CASE op = "publish" /\ RetryPuts /\ UNCHANGED <<op, msg, taken, result>>
    BY <1>0, <2>2, NewParserType DEF RetryPuts, StartPuts, FrameInv, TypeOK, Phases
  <2>. QED  BY <2>1, <2>2 DEF GetsDone
<1>. QED  BY <1>1, <1>2, <1>3, <1>4 DEF FrameInv, MarksAlternate, ParserSynchronised, ParserIdle

LEMMA GetsFailsInv == ASSUME FrameInv, GetsFails PROVE FrameInv'
<1>0. /\ FifoTypeOK' /\ FifoTypeOK /\ q' = <<>>
  BY GetFacts DEF GetsFails, FrameInv, TypeOK, Get
<1>1. PICK r \in {"nothing", "failed"} : Return(r)
  BY DEF GetsFails
<1>2. TypeOK'
  BY <1>0, <1>1, ReturnType DEF Results
<1>3. parser' = NewParser /\ phase' = "idle"
  BY <1>1 DEF Return
<1>. QED  BY <1>0, <1>2, <1>3 DEF FrameInv, MarksAlternate, ParserSynchronised, ParserIdle

LEMMA CallerInv ==
  ASSUME FrameInv, TaskTakes \/ \E m \in Messages : Publish(m) \/ Respond(m)
  PROVE  FrameInv'
<1>1. /\ phase = "idle" /\ parser' = NewParser /\ parser = NewParser
      /\ UNCHANGED fifoVars /\ phase' \in {"begin", "gets"}
  BY DEF TaskTakes, Publish, Respond, StartPuts, StartGets, FrameInv, ParserIdle
<1>2. FifoTypeOK'
  BY <1>1 DEF fifoVars, FifoTypeOK, FrameInv, TypeOK
<1>3. ASSUME TaskTakes PROVE TypeOK'
  BY <1>2, <1>3, NewParserType
     DEF TaskTakes, StartGets, FrameInv, TypeOK, Ops, Phases, Results
<1>4. ASSUME \E m \in Messages : Publish(m) \/ Respond(m) PROVE TypeOK'
  BY <1>2, <1>4, NewParserType, QueueConstantsOK
     DEF Publish, Respond, StartPuts, FrameInv, TypeOK, Ops, Phases, Results
<1>. QED  BY <1>1, <1>3, <1>4
          DEF FrameInv, MarksAlternate, ParserSynchronised, ParserIdle, fifoVars

LEMMA FrameNext == ASSUME FrameInv, [Next]_vars PROVE FrameInv'
<1>1. CASE CallStep
  BY <1>1, PutBeginInv, PutMiddleInv, PutEndInv, GetsByteInv, GetsDoneInv, GetsFailsInv
     DEF CallStep
<1>2. CASE TaskTakes \/ \E m \in Messages : Publish(m) \/ Respond(m)
  BY <1>2, CallerInv
<1>3. CASE UNCHANGED vars
  BY <1>3 DEF vars, callVars, fifoVars, FrameInv, TypeOK, FifoTypeOK, ParserIdle,
              MarksAlternate, ParserSynchronised
<1>. QED  BY <1>1, <1>2, <1>3 DEF Next

(* In every reachable state the first byte of the ring begins a frame when  *)
(* a Gets starts to read, for every ring size, message and refusal.         *)
THEOREM ParserAlwaysSynchronised == Spec => []ParserSynchronised
<1>1. FrameInv => ParserSynchronised
  BY DEF FrameInv
<1>. QED  BY <1>1, FrameInit, FrameNext, PTL DEF Spec

(* The queue never writes outside the ring, a message or the buffer a       *)
(* message is got into.                                                     *)
THEOREM QueueTypeCorrect == Spec => []TypeOK
<1>1. FrameInv => TypeOK
  BY DEF FrameInv
<1>. QED  BY <1>1, FrameInit, FrameNext, PTL DEF Spec

------------------------------------------------------------------------------
(* Every set of numbers that is not empty has a least one: a proof by      *)
(* induction looks at the least counterexample.                            *)
LEMMA LeastNumber ==
  ASSUME NEW S \in SUBSET Nat, S # {}
  PROVE  \E m \in S : \A k \in S : m <= k
<1> DEFINE R == OpToRel(<, Nat)
<1>1. IsWellFoundedOn(R, Nat) BY NatLessThanWellFounded
<1>2. \A x, y \in Nat : x < y => <<x, y>> \in R BY DEF OpToRel
<1> HIDE DEF R
<1>3. PICK m \in S : \A k \in S : ~(<<k, m>> \in R) BY <1>1, WFMin
<1>4. ASSUME NEW k \in S PROVE m <= k
  <2>1. m \in Nat /\ k \in Nat OBVIOUS
  <2>2. ~(k < m) BY <1>2, <1>3, <2>1, Zenon
  <2>3. QED BY <2>1, <2>2
<1>5. QED BY <1>4

LEMMA NumberInduction ==
  ASSUME NEW S \in SUBSET Nat, 0 \in S, \A n \in S : n + 1 \in S
  PROVE  S = Nat
<1>1. SUFFICES ASSUME Nat \ S # {} PROVE FALSE OBVIOUS
<1>2. PICK m \in Nat \ S : \A k \in Nat \ S : m <= k BY <1>1, LeastNumber
<1>3. m # 0 /\ m - 1 \in Nat /\ m - 1 \in S BY <1>2
<1>4. m - 1 + 1 \in S BY <1>3
<1>5. QED BY <1>4

(* A function that is defined by recursion exists, and has its type.       *)
LEMMA RecursionIsFunction ==
  ASSUME NEW V, NEW b \in V, NEW N \in Nat, NEW G \in [1..N -> [V -> V]]
  PROVE  \E f \in [0..N -> V] : f[0] = b /\ \A n \in 1..N : f[n] = G[n][f[n - 1]]
<1> DEFINE S == {k \in Nat : k <= N =>
                  \E f \in [0..k -> V] : f[0] = b /\ \A n \in 1..k : f[n] = G[n][f[n - 1]]}
<1>1. 0 \in S
  <2> DEFINE f == [i \in 0..0 |-> b]
  <2>1. f \in [0..0 -> V] /\ f[0] = b OBVIOUS
  <2> HIDE DEF f
  <2>2. \A n \in 1..0 : f[n] = G[n][f[n - 1]] OBVIOUS
  <2>3. \E h \in [0..0 -> V] : h[0] = b /\ \A n \in 1..0 : h[n] = G[n][h[n - 1]]
    BY <2>1, <2>2
  <2>4. QED BY <2>3
<1>2. ASSUME NEW k \in S PROVE k + 1 \in S
  <2>1. SUFFICES ASSUME k + 1 <= N
                 PROVE  \E f \in [0..(k + 1) -> V] :
                          f[0] = b /\ \A n \in 1..(k + 1) : f[n] = G[n][f[n - 1]]
    OBVIOUS
  <2>2. PICK g \in [0..k -> V] : g[0] = b /\ \A n \in 1..k : g[n] = G[n][g[n - 1]]
    BY <2>1
  <2> DEFINE f == [n \in 0..(k + 1) |-> IF n = k + 1 THEN G[k + 1][g[k]] ELSE g[n]]
  <2>3. f \in [0..(k + 1) -> V] BY <2>1
  <2>4. f[0] = b BY <2>2
  <2>5. \A n \in 1..(k + 1) : f[n] = G[n][f[n - 1]] BY <2>2
  <2>6. QED BY <2>3, <2>4, <2>5
<1>3. S = Nat
  <2> HIDE DEF S
  <2>1. S \in SUBSET Nat BY DEF S
  <2>2. QED BY <1>1, <1>2, <2>1, NumberInduction
<1>4. QED BY <1>3

------------------------------------------------------------------------------
(* What is in the ring is a queue of messages.                              *)
Parsers == {p \in Parser : Len(p.buf) <= BufSize}
Decodes == [p : Parsers, msgs : Seq(Seq(Byte))]

LEMMA NewParserParses == NewParser \in Parsers /\ NewParser.buf = <<>>
BY NewParserType DEF Parsers, NewParser

LEMMA DecodedType ==
  ASSUME NEW s \in Decodes, NEW b \in Byte
  PROVE  Decoded(s, b) \in Decodes
<1>1. s.p \in Parsers /\ s.msgs \in Seq(Seq(Byte)) BY DEF Decodes
<1>2. CASE b = END
  <2>1. s.p.buf \in Seq(Byte) BY <1>1 DEF Parsers, Parser
  <2>2. Append(s.msgs, s.p.buf) \in Seq(Seq(Byte)) BY <1>1, <2>1, AppendProperties
  <2>3. QED BY <1>2, <2>2, NewParserParses DEF Decoded, Decodes
<1>3. CASE b # END
  <2>1. s.p \in Parser /\ Len(s.p.buf) <= BufSize BY <1>1 DEF Parsers
  <2>2. ParseByte(s.p, b) \in Parsers BY <1>3, <2>1, ParseByteType DEF Parsers
  <2>3. QED BY <1>1, <1>3, <2>2 DEF Decoded, Decodes
<1>4. QED BY <1>2, <1>3

AreDecoded(d, p, bytes) ==
  /\ d \in [0..Len(bytes) -> Decodes]
  /\ d[0] = [p |-> p, msgs |-> <<>>]
  /\ \A n \in 1..Len(bytes) : d[n] = Decoded(d[n - 1], bytes[n])

LEMMA DecodesRecursion ==
  ASSUME NEW z \in Decodes, NEW N \in Nat, NEW G \in [1..N -> [Decodes -> Decodes]]
  PROVE  \E f \in [0..N -> Decodes] : f[0] = z /\ \A n \in 1..N : f[n] = G[n][f[n - 1]]
BY RecursionIsFunction

LEMMA DecodingIs ==
  ASSUME NEW p \in Parsers, NEW bytes \in Seq(Byte)
  PROVE  AreDecoded(Decoding(p, bytes), p, bytes)
<1> DEFINE N == Len(bytes)
           z == [p |-> p, msgs |-> <<>>]
           G == [n \in 1..N |-> [s \in Decodes |-> Decoded(s, bytes[n])]]
           body(h) == [n \in 0..N |-> IF n = 0 THEN z ELSE Decoded(h[n - 1], bytes[n])]
           d == CHOOSE decoding : decoding = body(decoding)
<1>1. Decoding(p, bytes) = d BY DEF Decoding
<1>2. N \in Nat OBVIOUS
<1>3. \A n \in 1..N : bytes[n] \in Byte BY ElementOfSeq
<1>4. z \in Decodes BY DEF Decodes
<1> HIDE DEF z, N
<1>5. PICK f \in [0..N -> Decodes] : f[0] = z /\ \A n \in 1..N : f[n] = G[n][f[n - 1]]
  <2>1. G \in [1..N -> [Decodes -> Decodes]] BY <1>3, DecodedType
  <2> HIDE DEF G
  <2>2. QED BY <1>2, <1>4, <2>1, DecodesRecursion
<1>6. ASSUME NEW n \in 1..N PROVE f[n] = Decoded(f[n - 1], bytes[n])
  <2>1. f[n - 1] \in Decodes BY <1>2
  <2>2. QED BY <1>5, <2>1
<1>7. f = body(f)
  <2>1. ASSUME NEW n \in 0..N
        PROVE  f[n] = IF n = 0 THEN z ELSE Decoded(f[n - 1], bytes[n])
    <3>1. CASE n = 0 BY <1>5, <3>1
    <3>2. CASE n # 0
      <4>1. n \in 1..N BY <1>2, <3>2
      <4>2. QED BY <1>6, <3>2, <4>1
    <3>3. QED BY <3>1, <3>2
  <2>2. f = [n \in 0..N |-> f[n]] BY <1>5
  <2>3. QED BY <2>1, <2>2, Zenon
<1>8. d = body(d) BY <1>7, Zenon
<1>9. ASSUME NEW n \in 0..N
      PROVE  d[n] = IF n = 0 THEN z ELSE Decoded(d[n - 1], bytes[n])
  <2> HIDE DEF d
  <2>1. QED BY <1>8, Zenon
<1> HIDE DEF d, G
<1>10. ASSUME NEW n \in 0..N PROVE d[n] \in Decodes
  <2> DEFINE S == {k \in Nat : k <= N => d[k] \in Decodes}
  <2>1. 0 \in S
    <3>1. 0 \in 0..N BY <1>2
    <3>2. d[0] = z BY <1>9, <3>1
    <3>3. QED BY <1>4, <3>2
  <2>2. ASSUME NEW k \in S PROVE k + 1 \in S
    <3>1. SUFFICES ASSUME k + 1 <= N PROVE d[k + 1] \in Decodes OBVIOUS
    <3>2. k + 1 \in 0..N /\ k + 1 \in 1..N /\ k + 1 # 0 /\ k + 1 - 1 = k /\ d[k] \in Decodes
      BY <1>2, <3>1
    <3>3. d[k + 1] = Decoded(d[k], bytes[k + 1]) BY <1>9, <3>2
    <3>4. bytes[k + 1] \in Byte BY <1>3, <3>2
    <3>5. QED BY <3>2, <3>3, <3>4, DecodedType
  <2>3. S = Nat
    <3> HIDE DEF S
    <3>1. S \in SUBSET Nat BY DEF S
    <3>2. QED BY <2>1, <2>2, <3>1, NumberInduction
  <2> HIDE DEF S
  <2>4. n \in S /\ n <= N BY <1>2, <2>3
  <2>5. QED BY <2>4 DEF S
<1>11. AreDecoded(d, p, bytes)
  <2>1. d = [n \in 0..N |-> d[n]] BY <1>8, Zenon
  <2>2. d \in [0..N -> Decodes] BY <1>10, <2>1
  <2>3. d[0] = z
    <3>1. 0 \in 0..N BY <1>2
    <3>2. QED BY <1>9, <3>1
  <2>4. ASSUME NEW n \in 1..N PROVE d[n] = Decoded(d[n - 1], bytes[n])
    <3>1. n \in 0..N /\ n # 0 BY <1>2
    <3>2. QED BY <1>9, <3>1
  <2>5. QED BY <2>2, <2>3, <2>4 DEF AreDecoded, z, N
<1>12. QED BY <1>1, <1>11

(* What has become of all bytes.                                            *)
AllDecoded(p, bytes) == Decoding(p, bytes)[Len(bytes)]

LEMMA AllDecodedType ==
  ASSUME NEW p \in Parsers, NEW bytes \in Seq(Byte)
  PROVE  /\ AllDecoded(p, bytes) \in Decodes
         /\ AllDecoded(p, <<>>) = [p |-> p, msgs |-> <<>>]
         /\ Decode(p, bytes) = AllDecoded(p, bytes).msgs
<1>1. Len(bytes) \in 0..Len(bytes) OBVIOUS
<1>2. AllDecoded(p, bytes) \in Decodes BY <1>1, DecodingIs DEF AreDecoded, AllDecoded
<1>3. AllDecoded(p, <<>>) = [p |-> p, msgs |-> <<>>]
  <2>1. <<>> \in Seq(Byte) /\ Len(<<>>) = 0 OBVIOUS
  <2>2. Decoding(p, <<>>)[0] = [p |-> p, msgs |-> <<>>] BY <2>1, DecodingIs DEF AreDecoded
  <2>3. QED BY <2>1, <2>2 DEF AllDecoded
<1>4. QED BY <1>2, <1>3 DEF Decode, AllDecoded

(* A byte that is put behind the others is decoded last.                    *)
LEMMA PutDecoded ==
  ASSUME NEW p \in Parsers, NEW bytes \in Seq(Byte), NEW b \in Byte
  PROVE  AllDecoded(p, Append(bytes, b)) = Decoded(AllDecoded(p, bytes), b)
<1> DEFINE N == Len(bytes)
           more == Append(bytes, b)
           c == Decoding(p, bytes)
           d == Decoding(p, more)
<1>1. N \in Nat /\ more \in Seq(Byte) /\ Len(more) = N + 1 /\ more[N + 1] = b
      /\ \A n \in 1..N : more[n] = bytes[n]
  BY AppendProperties
<1>2. AreDecoded(c, p, bytes) BY DecodingIs
<1>3. AreDecoded(d, p, more) BY <1>1, DecodingIs
<1> HIDE DEF more, c, d
<1>4. /\ c[0] = d[0]
      /\ \A n \in 1..N : c[n] = Decoded(c[n - 1], bytes[n])
      /\ \A n \in 1..(N + 1) : d[n] = Decoded(d[n - 1], more[n])
  BY <1>1, <1>2, <1>3 DEF AreDecoded
<1> HIDE DEF N
<1> DEFINE S == {k \in Nat : k <= N => c[k] = d[k]}
<1>5. 0 \in S BY <1>4
<1>6. ASSUME NEW k \in S PROVE k + 1 \in S
  <2>1. SUFFICES ASSUME k + 1 <= N PROVE c[k + 1] = d[k + 1] OBVIOUS
  <2>2. k + 1 \in 1..N /\ k + 1 \in 1..(N + 1) /\ k + 1 - 1 = k /\ c[k] = d[k] BY <1>1, <2>1
  <2>3. c[k + 1] = Decoded(c[k], bytes[k + 1]) BY <1>4, <2>2
  <2>4. d[k + 1] = Decoded(d[k], more[k + 1]) BY <1>4, <2>2
  <2>5. QED BY <1>1, <2>2, <2>3, <2>4
<1>7. S = Nat
  <2> HIDE DEF S
  <2>1. S \in SUBSET Nat BY DEF S
  <2>2. QED BY <1>5, <1>6, <2>1, NumberInduction
<1>8. c[N] = d[N]
  <2> HIDE DEF S
  <2>1. N \in S /\ N <= N BY <1>1, <1>7
  <2>2. QED BY <2>1 DEF S
<1>9. d[N + 1] = Decoded(d[N], b)
  <2>1. ASSUME NEW k \in Nat, k <= N PROVE d[k + 1] = Decoded(d[k], more[k + 1])
    <3>1. k + 1 \in 1..(N + 1) /\ k + 1 - 1 = k BY <1>1, <2>1
    <3>2. QED BY <1>4, <3>1
  <2>2. d[N + 1] = Decoded(d[N], more[N + 1]) BY <1>1, <2>1
  <2>3. QED BY <1>1, <2>2
<1>10. QED BY <1>1, <1>8, <1>9 DEF AllDecoded, c, d, more, N

LEMMA MessageAppended ==
  ASSUME NEW s \in Seq(Seq(Byte)), NEW t \in Seq(Seq(Byte)), NEW e \in Seq(Byte)
  PROVE  Append(s \o t, e) = s \o Append(t, e)
<1> DEFINE V == Seq(Byte)
<1> HIDE DEF V
<1>0. s \in Seq(V) /\ t \in Seq(V) /\ e \in V BY DEF V
<1> DEFINE M == Len(s)
           N == Len(t)
           l == Append(s \o t, e)
           r == s \o Append(t, e)
<1>1. M \in Nat /\ N \in Nat /\ s \o t \in Seq(V) /\ Append(t, e) \in Seq(V)
  BY <1>0, AppendProperties, ConcatProperties
<1>2. l \in Seq(V) /\ r \in Seq(V) BY <1>0, <1>1, AppendProperties, ConcatProperties
<1>3. Len(s \o t) = M + N /\ Len(Append(t, e)) = N + 1
  BY <1>0, AppendProperties, ConcatProperties
<1>4. Len(l) = M + N + 1 /\ Len(r) = M + (N + 1)
  BY <1>0, <1>1, <1>3, AppendProperties, ConcatProperties
<1>5. ASSUME NEW i \in 1..Len(l) PROVE l[i] = r[i]
  <2>1. CASE i <= M
    <3>1. l[i] = (s \o t)[i] BY <1>0, <1>1, <1>3, <1>4, <2>1, AppendProperties
    <3>2. (s \o t)[i] = s[i] BY <1>0, <1>1, <1>3, <2>1, ConcatProperties
    <3>3. r[i] = s[i] BY <1>0, <1>1, <1>3, <1>4, <2>1, ConcatProperties
    <3>4. QED BY <3>1, <3>2, <3>3
  <2>2. CASE i > M /\ i <= M + N
    <3>1. l[i] = (s \o t)[i] BY <1>0, <1>1, <1>3, <1>4, <2>2, AppendProperties
    <3>2. (s \o t)[i] = t[i - M] BY <1>0, <1>1, <1>3, <2>2, ConcatProperties
    <3>3. r[i] = Append(t, e)[i - M] BY <1>0, <1>1, <1>3, <1>4, <2>2, ConcatProperties
    <3>4. Append(t, e)[i - M] = t[i - M] BY <1>0, <1>1, <2>2, AppendProperties
    <3>5. QED BY <3>1, <3>2, <3>3, <3>4
  <2>3. CASE i = M + N + 1
    <3>1. l[i] = e BY <1>0, <1>1, <1>3, <2>3, AppendProperties
    <3>2. i - M = N + 1 /\ ~(i <= M) BY <1>1, <2>3
    <3>3. r[i] = Append(t, e)[i - M] BY <1>0, <1>1, <1>3, <1>4, <2>3, ConcatProperties
    <3>4. Append(t, e)[N + 1] = e BY <1>0, AppendProperties
    <3>5. QED BY <3>1, <3>2, <3>3, <3>4
  <2> HIDE DEF M, N, l, r
  <2>4. QED BY <1>1, <1>4, <2>1, <2>2, <2>3
<1>6. QED
  <2> HIDE DEF l, r
  <2>1. Len(l) = Len(r) BY <1>1, <1>4
  <2>2. QED BY <1>2, <1>5, <2>1, SeqEqual DEF l, r

(* The decoding of what is left when the first byte has been got.           *)
LEMMA GetDecoded ==
  ASSUME NEW p \in Parsers, NEW bytes \in Seq(Byte), bytes # <<>>
  PROVE  LET s == Decoded([p |-> p, msgs |-> <<>>], Head(bytes))
         IN  AllDecoded(p, bytes).msgs = s.msgs \o AllDecoded(s.p, Tail(bytes)).msgs
<1> DEFINE rest == Tail(bytes)
           N == Len(rest)
           s == Decoded([p |-> p, msgs |-> <<>>], Head(bytes))
           c == Decoding(s.p, rest)
           d == Decoding(p, bytes)
<1>1. /\ N \in Nat /\ rest \in Seq(Byte) /\ Len(bytes) = N + 1 /\ Head(bytes) \in Byte
      /\ bytes[1] = Head(bytes) /\ \A n \in 1..N : rest[n] = bytes[n + 1]
  OBVIOUS
<1>2. s \in Decodes
  <2>1. [p |-> p, msgs |-> <<>>] \in Decodes BY DEF Decodes
  <2>2. QED BY <1>1, <2>1, DecodedType
<1>3. s.p \in Parsers /\ s.msgs \in Seq(Seq(Byte)) BY <1>2 DEF Decodes
<1>4. AreDecoded(c, s.p, rest) BY <1>1, <1>3, DecodingIs
<1>5. AreDecoded(d, p, bytes) BY DecodingIs
<1>6. d[0] = [p |-> p, msgs |-> <<>>] BY <1>5 DEF AreDecoded
<1> HIDE DEF rest, c, d
<1>7. /\ c[0] = [p |-> s.p, msgs |-> <<>>]
      /\ \A n \in 1..N : c[n] = Decoded(c[n - 1], rest[n])
      /\ \A n \in 0..N : c[n] \in Decodes
      /\ \A n \in 1..(N + 1) : d[n] = Decoded(d[n - 1], bytes[n])
  BY <1>1, <1>4, <1>5 DEF AreDecoded
<1>8. d[1] = s
  <2>1. 1 \in 1..(N + 1) /\ 1 - 1 = 0 BY <1>1
  <2>2. d[1] = Decoded(d[0], bytes[1]) BY <1>7, <2>1
  <2>3. QED BY <1>1, <1>6, <2>2
<1> HIDE DEF N, s
<1> DEFINE Same(k) == d[k + 1] = [p |-> c[k].p, msgs |-> s.msgs \o c[k].msgs]
           S == {k \in Nat : k <= N => Same(k)}
<1>9. 0 \in S
  <2>1. c[0].p = s.p /\ c[0].msgs = <<>> BY <1>7
  <2>2. s.msgs \o <<>> = s.msgs BY <1>3, ConcatEmptySeq
  <2>3. s = [p |-> s.p, msgs |-> s.msgs] BY <1>2 DEF Decodes
  <2>4. Same(0) BY <1>8, <2>1, <2>2, <2>3
  <2>5. QED BY <2>4
<1>10. ASSUME NEW k \in S PROVE k + 1 \in S
  <2>1. SUFFICES ASSUME k + 1 <= N PROVE Same(k + 1) OBVIOUS
  <2>2. k + 1 \in 1..N /\ k + 1 + 1 \in 1..(N + 1) /\ k + 1 - 1 = k /\ k + 1 + 1 - 1 = k + 1
        /\ Same(k) /\ k \in 0..N
    BY <1>1, <2>1
  <2> DEFINE b == rest[k + 1]
             m == s.msgs
  <2>3. c[k] \in Decodes /\ c[k].p \in Parsers /\ c[k].msgs \in Seq(Seq(Byte))
    BY <1>7, <2>2 DEF Decodes
  <2>4. c[k + 1] = Decoded(c[k], b) BY <1>7, <2>2
  <2>5. bytes[k + 1 + 1] = b BY <1>1, <2>2
  <2>6. d[k + 1 + 1] = Decoded(d[k + 1], b) BY <1>7, <2>2, <2>5
  <2> HIDE DEF b, m
  <2>7. d[k + 1].p = c[k].p /\ d[k + 1].msgs = m \o c[k].msgs
    <3>1. d[k + 1] = [p |-> c[k].p, msgs |-> m \o c[k].msgs] BY <2>2 DEF m
    <3> DEFINE x == d[k + 1]
               y == m \o c[k].msgs
    <3>2. x = [p |-> c[k].p, msgs |-> y] BY <3>1
    <3> HIDE DEF x, y
    <3>3. x.p = c[k].p /\ x.msgs = y BY <3>2
    <3>4. QED BY <3>3 DEF x, y
  <2>8. CASE b = END
    <3> DEFINE u == c[k].msgs
               v == c[k].p.buf
    <3>1. c[k + 1].p = NewParser /\ c[k + 1].msgs = Append(u, v) BY <2>4, <2>8 DEF Decoded
    <3>2. d[k + 1 + 1] = [p |-> NewParser, msgs |-> Append(m \o u, v)]
      BY <2>6, <2>7, <2>8 DEF Decoded
    <3>3. u \in Seq(Seq(Byte)) /\ v \in Seq(Byte) /\ m \in Seq(Seq(Byte))
      BY <1>3, <2>3 DEF Parsers, Parser, m
    <3> HIDE DEF u, v
    <3>4. Append(m \o u, v) = m \o Append(u, v)
      BY <3>3, MessageAppended
    <3>5. QED BY <3>1, <3>2, <3>4 DEF m
  <2>9. CASE b # END
    <3>1. c[k + 1].p = ParseByte(c[k].p, b) /\ c[k + 1].msgs = c[k].msgs
      BY <2>4, <2>9 DEF Decoded
    <3>2. d[k + 1 + 1] = [p |-> ParseByte(c[k].p, b), msgs |-> m \o c[k].msgs]
      BY <2>6, <2>7, <2>9 DEF Decoded
    <3>3. QED BY <3>1, <3>2 DEF m
  <2>10. QED BY <2>8, <2>9
<1>11. S = Nat
  <2> HIDE DEF S
  <2>1. S \in SUBSET Nat BY DEF S
  <2>2. QED BY <1>9, <1>10, <2>1, NumberInduction
<1>12. Same(N)
  <2> HIDE DEF S, Same
  <2>1. N \in S /\ N <= N BY <1>1, <1>11
  <2>2. QED BY <2>1 DEF S
<1>13. d[N + 1].msgs = s.msgs \o c[N].msgs
  <2>1. d[N + 1] = [p |-> c[N].p, msgs |-> s.msgs \o c[N].msgs] BY <1>12
  <2> DEFINE x == d[N + 1]
             y == s.msgs \o c[N].msgs
  <2>2. x = [p |-> c[N].p, msgs |-> y] BY <2>1
  <2> HIDE DEF x, y
  <2>3. x.msgs = y BY <2>2
  <2>4. QED BY <2>3 DEF x, y
<1>14. QED BY <1>1, <1>13 DEF AllDecoded, c, d, rest, N, s

------------------------------------------------------------------------------
(* The frame that is being put, as it will be parsed.                       *)
Opened == AllDecoded(NewParser, q).p

(* No call that runs has its answer yet. What is in the ring of the frame   *)
(* that is being put will be parsed as the bytes of the message before      *)
(* "pos", and there is a byte in the ring for each of them and a begin mark.*)
OpenFrame ==
  /\ phase # "idle" => result = "none"
  /\ phase \in {"body", "flip"} =>
       /\ Opened.isBegin = "yes" /\ (Opened.isEsc <=> phase = "flip")
       /\ Len(Opened.buf) = pos - 1 /\ \A i \in 1..(pos - 1) : Opened.buf[i] = msg[i]
       /\ pos <= Len(q) /\ (phase = "flip" => pos < Len(q))

QueueInv == FrameInv /\ OpenFrame

LEMMA ParsesBegin ==
  \A p : ParseByte(p, BEGIN) = [buf |-> <<>>, isEsc |-> FALSE, isBegin |-> "yes"]
BY DEF ParseByte, ESC, BEGIN, END, Special

LEMMA ParsesEscape ==
  ASSUME NEW p \in Parser
  PROVE  LET r == ParseByte(p, ESC)
         IN  r.buf = p.buf /\ r.isEsc = TRUE /\ r.isBegin = p.isBegin
<1>1. ParseByte(p, ESC) = [p EXCEPT !.isEsc = TRUE]
  BY DEF ParseByte, ESC, BEGIN, END, Special
<1>2. QED BY <1>1 DEF Parser

LEMMA ParsesByte ==
  ASSUME NEW p \in Parser, NEW b \in Byte \ Special, p.isBegin = "yes", Len(p.buf) < BufSize
  PROVE  LET r == ParseByte(p, b)
         IN  /\ r.buf = Append(p.buf, IF p.isEsc THEN Flip(b) ELSE b)
             /\ r.isEsc = FALSE /\ r.isBegin = "yes"
<1> DEFINE c == IF p.isEsc THEN Flip(b) ELSE b
           r == [p EXCEPT !.isEsc = FALSE]
<1>1. ParseByte(p, b) = Store(r, c)
  BY DEF ParseByte, ESC, BEGIN, END, Special
<1>2. r \in Parser /\ r.buf = p.buf /\ r.isEsc = FALSE /\ r.isBegin = "yes" BY DEF Parser
<1> HIDE DEF r, c
<1>3. Store(r, c) = [r EXCEPT !.buf = Append(r.buf, c)] BY <1>2 DEF Store
<1>4. QED BY <1>1, <1>2, <1>3 DEF Parser, c

LEMMA FlipsBack == \A b \in Special : Flip(Flip(b)) = b
BY DEF Special, ESC, BEGIN, END, Flip

LEMMA OpenedParses ==
  ASSUME FrameInv
  PROVE  /\ AllDecoded(NewParser, q) \in Decodes /\ Opened \in Parser
         /\ Opened.buf \in Seq(Byte) /\ Opened.isEsc \in BOOLEAN
<1>1. q \in Seq(Byte) BY DEF FrameInv, TypeOK, FifoTypeOK
<1>2. AllDecoded(NewParser, q) \in Decodes BY <1>1, NewParserParses, AllDecodedType
<1>3. Opened \in Parsers BY <1>2 DEF Opened, Decodes
<1>4. QED BY <1>2, <1>3 DEF Parsers, Parser

(* A byte is put that is not an end mark.                                   *)
LEMMA PutOpens ==
  ASSUME FrameInv, phase \in {"begin", "body", "flip"}, NEW c \in Byte, c # END, Put(c), rc' = 0,
         UNCHANGED parser
  PROVE  /\ Opened' = ParseByte(Opened, c)
         /\ Decode(parser', q') = Decode(parser, q)
         /\ Len(q) \in Nat /\ Len(q') = Len(q) + 1 /\ Len(q) < BufSize
<1>1. q \in Seq(Byte) /\ parser = NewParser /\ FifoTypeOK
  BY DEF FrameInv, TypeOK, FifoTypeOK, ParserIdle
<1>2. q' = Append(q, c) /\ q' \in Seq(Byte) /\ Len(q) < Size
  BY <1>1, AppendProperties DEF Put
<1>3. AllDecoded(NewParser, q') = Decoded(AllDecoded(NewParser, q), c)
  BY <1>1, <1>2, NewParserParses, PutDecoded
<1>4. Decoded(AllDecoded(NewParser, q), c)
        = [p |-> ParseByte(Opened, c), msgs |-> AllDecoded(NewParser, q).msgs]
  BY DEF Decoded, Opened
<1>5. Opened' = ParseByte(Opened, c) BY <1>3, <1>4 DEF Opened
<1>6. Decode(NewParser, q) = AllDecoded(NewParser, q).msgs
      /\ Decode(NewParser, q') = AllDecoded(NewParser, q').msgs
  BY <1>1, <1>2, NewParserParses, AllDecodedType
<1>7. Decode(NewParser, q') = Decode(NewParser, q) BY <1>3, <1>4, <1>6
<1>8. Len(q) \in Nat /\ Len(q') = Len(q) + 1 /\ Len(q) < BufSize
  BY <1>1, <1>2, FifoConstantsOK, QueueConstantsOK
<1>9. QED BY <1>1, <1>5, <1>7, <1>8

(* One more byte of the message is in the frame.                            *)
LEMMA ByteIsOpened ==
  ASSUME NEW s \in Seq(Byte), NEW m, NEW n \in Nat, n >= 1, Len(s) = n - 1, m[n] \in Byte,
         \A i \in 1..(n - 1) : s[i] = m[i]
  PROVE  LET t == Append(s, m[n])
         IN  Len(t) = n + 1 - 1 /\ \A i \in 1..(n + 1 - 1) : t[i] = m[i]
<1> DEFINE b == m[n]
           t == Append(s, b)
<1>1. b \in Byte OBVIOUS
<1> HIDE DEF b
<1>2. /\ Len(t) = Len(s) + 1 /\ \A i \in 1..Len(s) : t[i] = s[i]
      /\ t[Len(s) + 1] = b
  BY <1>1, AppendProperties
<1> HIDE DEF t
<1>3. Len(t) = n + 1 - 1 BY <1>2
<1>4. ASSUME NEW i \in 1..(n + 1 - 1) PROVE t[i] = m[i]
  <2>1. CASE i = n BY <1>2, <2>1 DEF b
  <2>2. CASE i # n
    <3>1. i \in 1..(n - 1) /\ i \in 1..Len(s) BY <2>2
    <3>2. QED BY <1>2, <3>1
  <2>3. QED BY <2>1, <2>2
<1>5. QED BY <1>3, <1>4 DEF t, b

------------------------------------------------------------------------------
(* Every step is a step of the queue, or none.                              *)
QueueStep == Queue!QueueNext \/ UNCHANGED <<Decode(parser, q), taken, result>>

LEMMA PutsFailsRefines ==
  ASSUME QueueInv, phase \in {"begin", "body", "flip"}, PutsFails, q' = q
  PROVE  QueueStep /\ OpenFrame'
<1>1. parser = NewParser /\ parser' = NewParser /\ result = "none"
  BY DEF PutsFails, StartGets, Return, QueueInv, OpenFrame, FrameInv, ParserIdle
<1>2. Decode(parser', q') = Decode(parser, q) BY <1>1
<1>3. CASE op = "publish" /\ StartGets /\ UNCHANGED <<op, msg, result, taken>>
  BY <1>1, <1>2, <1>3 DEF QueueStep, OpenFrame, StartGets
<1>4. CASE op = "respond" /\ Return("refused") /\ UNCHANGED taken
  <2>1. Queue!Refuse BY <1>1, <1>2, <1>4 DEF Queue!Refuse, Return
  <2>2. QED BY <2>1, <1>4 DEF QueueStep, OpenFrame, Return, Queue!QueueNext
<1>5. QED BY <1>3, <1>4 DEF PutsFails

LEMMA PutBeginRefines ==
  ASSUME QueueInv, PutBegin PROVE QueueStep /\ OpenFrame'
<1>1. /\ FrameInv /\ phase = "begin" /\ pos = 1 /\ result = "none" /\ FifoTypeOK
      /\ Put(BEGIN) /\ Advance("body", pos) /\ BEGIN # END
  BY DEF PutBegin, QueueInv, OpenFrame, FrameInv, TypeOK, BEGIN, END
<1>2. CASE rc' = -1
  <2>1. q' = q BY <1>1, <1>2, MarkBytes, PutFacts
  <2>2. PutsFails BY <1>1, <1>2 DEF Advance
  <2>3. QED BY <1>1, <2>1, <2>2, PutsFailsRefines
<1>3. CASE rc' = 0
  <2>1. phase' = "body" /\ pos' = 1 /\ UNCHANGED <<op, msg, parser, taken, result>>
    BY <1>1, <1>3 DEF Advance
  <2>2. /\ Opened' = ParseByte(Opened, BEGIN) /\ Decode(parser', q') = Decode(parser, q)
        /\ Len(q) \in Nat /\ Len(q') = Len(q) + 1
    BY <1>1, <1>3, <2>1, MarkBytes, PutOpens
  <2>3. Opened' = [buf |-> <<>>, isEsc |-> FALSE, isBegin |-> "yes"] BY <2>2, ParsesBegin
  <2>4. Opened'.buf = <<>> /\ Opened'.isEsc = FALSE /\ Opened'.isBegin = "yes" BY <2>3
  <2>5. OpenFrame' BY <1>1, <2>1, <2>2, <2>4 DEF OpenFrame
  <2>6. QED BY <2>1, <2>2, <2>5 DEF QueueStep
<1>4. QED BY <1>1, <1>2, <1>3 DEF Advance

(* What holds while the bytes of a message are put.                         *)
LEMMA InTheMessage ==
  ASSUME QueueInv, phase \in {"body", "flip"}, pos \in 1..Len(msg)
  PROVE  /\ FrameInv /\ result = "none" /\ FifoTypeOK
         /\ pos \in Nat /\ pos >= 1 /\ msg[pos] \in Byte
         /\ Opened \in Parser /\ Opened.buf \in Seq(Byte) /\ Opened.isBegin = "yes"
         /\ Len(Opened.buf) = pos - 1 /\ \A i \in 1..(pos - 1) : Opened.buf[i] = msg[i]
         /\ pos <= Len(q)
<1>1. FrameInv /\ TypeOK /\ OpenFrame BY DEF QueueInv, FrameInv
<1>2. msg # NoMessage BY <1>1 DEF TypeOK
<1>3. msg[pos] \in Byte BY <1>1, <1>2, MsgByte
<1>4. QED BY <1>1, <1>3, OpenedParses DEF TypeOK, OpenFrame

LEMMA PutMiddleRefines ==
  ASSUME QueueInv, phase \in {"body", "flip"}, pos \in 1..Len(msg),
         NEW c \in Byte, c # END, Put(c),
         NEW next \in {"body", "flip"}, NEW n \in Nat, Advance(next, n),
         rc' = 0 => /\ ParseByte(Opened, c).isBegin = "yes"
                    /\ ParseByte(Opened, c).isEsc <=> next = "flip"
                    /\ Len(ParseByte(Opened, c).buf) = n - 1
                    /\ \A i \in 1..(n - 1) : ParseByte(Opened, c).buf[i] = msg[i]
                    /\ n <= Len(q) + 1 /\ (next = "flip" => n < Len(q) + 1)
  PROVE  QueueStep /\ OpenFrame'
<1>1. FrameInv /\ result = "none" /\ FifoTypeOK BY InTheMessage
<1>2. CASE rc' = -1
  <2>1. q' = q BY <1>1, <1>2, PutFacts
  <2>2. PutsFails BY <1>2 DEF Advance
  <2>3. QED BY <2>1, <2>2, PutsFailsRefines
<1>3. CASE rc' = 0
  <2>1. phase' = next /\ pos' = n /\ UNCHANGED <<op, msg, parser, taken, result>>
    BY <1>3 DEF Advance
  <2>2. /\ Opened' = ParseByte(Opened, c) /\ Decode(parser', q') = Decode(parser, q)
        /\ Len(q') = Len(q) + 1
    BY <1>1, <1>3, <2>1, PutOpens
  <2>3. OpenFrame' BY <1>1, <1>3, <2>1, <2>2 DEF OpenFrame
  <2>4. QED BY <2>1, <2>2, <2>3 DEF QueueStep
<1>4. QED BY <1>2, <1>3 DEF Advance

LEMMA PutPlainRefines ==
  ASSUME QueueInv, PutPlain PROVE QueueStep /\ OpenFrame'
<1> DEFINE b == msg[pos]
           t == ParseByte(Opened, b)
<1>1. /\ phase = "body" /\ pos \in 1..Len(msg) /\ Put(b) /\ Advance("body", pos + 1)
      /\ b \notin Special
  BY DEF PutPlain, QueueInv, FrameInv, TypeOK
<1>2. /\ b \in Byte \ Special /\ pos \in Nat /\ pos >= 1 /\ FrameInv /\ FifoTypeOK
      /\ Opened \in Parser /\ Opened.buf \in Seq(Byte) /\ Opened.isBegin = "yes"
      /\ Len(Opened.buf) = pos - 1 /\ \A i \in 1..(pos - 1) : Opened.buf[i] = msg[i]
      /\ pos <= Len(q)
  BY <1>1, InTheMessage
<1>3. Opened.isEsc = FALSE BY <1>1, <1>2, OpenedParses DEF QueueInv, OpenFrame
<1>4. ASSUME rc' = 0
      PROVE  /\ t.isBegin = "yes" /\ (t.isEsc <=> "body" = "flip")
             /\ Len(t.buf) = pos + 1 - 1 /\ \A i \in 1..(pos + 1 - 1) : t.buf[i] = msg[i]
             /\ pos + 1 <= Len(q) + 1
  <2>1. Len(q) < BufSize /\ Len(q) \in Nat /\ BufSize \in Nat
    BY <1>1, <1>2, <1>4, FifoConstantsOK, QueueConstantsOK DEF Put, FifoTypeOK
  <2>2. Len(Opened.buf) < BufSize BY <1>2, <2>1
  <2>3. t.buf = Append(Opened.buf, b) /\ t.isEsc = FALSE /\ t.isBegin = "yes"
    BY <1>2, <1>3, <2>2, ParsesByte
  <2>4. /\ Len(Append(Opened.buf, b)) = pos + 1 - 1
        /\ \A i \in 1..(pos + 1 - 1) : Append(Opened.buf, b)[i] = msg[i]
    BY <1>2, ByteIsOpened
  <2>5. QED BY <1>2, <2>1, <2>3, <2>4
<1>5. b # END /\ b \in Byte /\ pos + 1 \in Nat BY <1>2 DEF Special
<1> HIDE DEF b
<1>6. QED BY <1>1, <1>4, <1>5, PutMiddleRefines

LEMMA PutEscapeRefines ==
  ASSUME QueueInv, PutEscape PROVE QueueStep /\ OpenFrame'
<1> DEFINE t == ParseByte(Opened, ESC)
<1>1. phase = "body" /\ pos \in 1..Len(msg) /\ Put(ESC) /\ Advance("flip", pos)
  BY DEF PutEscape, QueueInv, FrameInv, TypeOK
<1>2. /\ pos \in Nat /\ pos >= 1
      /\ Opened \in Parser /\ Opened.buf \in Seq(Byte) /\ Opened.isBegin = "yes"
      /\ Len(Opened.buf) = pos - 1 /\ \A i \in 1..(pos - 1) : Opened.buf[i] = msg[i]
      /\ pos <= Len(q) /\ q \in Seq(Byte)
  BY <1>1, InTheMessage DEF FifoTypeOK
<1>3. t.buf = Opened.buf /\ t.isEsc = TRUE /\ t.isBegin = "yes" BY <1>2, ParsesEscape
<1>4. pos <= Len(q) + 1 /\ pos < Len(q) + 1 BY <1>2
<1>5. ESC \in Byte /\ ESC # END BY MarkBytes DEF ESC, END
<1>6. QED BY <1>1, <1>2, <1>3, <1>4, <1>5, PutMiddleRefines

LEMMA PutFlippedRefines ==
  ASSUME QueueInv, PutFlipped PROVE QueueStep /\ OpenFrame'
<1> DEFINE m == msg[pos]
           b == Flip(m)
           t == ParseByte(Opened, b)
<1>1. phase = "flip" /\ pos \in 1..Len(msg) /\ Put(b) /\ Advance("body", pos + 1) /\ m \in Special
  BY DEF PutFlipped, QueueInv, FrameInv, TypeOK, MarksAlternate
<1>2. /\ m \in Byte /\ pos \in Nat /\ pos >= 1 /\ FrameInv /\ FifoTypeOK
      /\ Opened \in Parser /\ Opened.buf \in Seq(Byte) /\ Opened.isBegin = "yes"
      /\ Len(Opened.buf) = pos - 1 /\ \A i \in 1..(pos - 1) : Opened.buf[i] = msg[i]
      /\ pos <= Len(q)
  BY <1>1, InTheMessage
<1>3. Opened.isEsc = TRUE /\ pos < Len(q)
  BY <1>1, <1>2, OpenedParses DEF QueueInv, OpenFrame
<1>4. b \in Byte \ Special /\ Flip(b) = m
  BY <1>1, <1>2, FlipByte, FlipIsOrdinary, FlipsBack
<1>5. ASSUME rc' = 0
      PROVE  /\ t.isBegin = "yes" /\ (t.isEsc <=> "body" = "flip")
             /\ Len(t.buf) = pos + 1 - 1 /\ \A i \in 1..(pos + 1 - 1) : t.buf[i] = msg[i]
             /\ pos + 1 <= Len(q) + 1
  <2>1. Len(q) < BufSize /\ Len(q) \in Nat /\ BufSize \in Nat
    BY <1>1, <1>2, <1>5, FifoConstantsOK, QueueConstantsOK DEF Put, FifoTypeOK
  <2>2. Len(Opened.buf) < BufSize BY <1>2, <2>1
  <2> HIDE DEF b
  <2>3. t.buf = Append(Opened.buf, Flip(b)) /\ t.isEsc = FALSE /\ t.isBegin = "yes"
    BY <1>2, <1>3, <1>4, <2>2, ParsesByte
  <2>4. /\ Len(Append(Opened.buf, m)) = pos + 1 - 1
        /\ \A i \in 1..(pos + 1 - 1) : Append(Opened.buf, m)[i] = msg[i]
    BY <1>2, ByteIsOpened
  <2>5. QED BY <1>2, <1>4, <2>1, <2>3, <2>4
<1>6. b # END /\ b \in Byte /\ pos + 1 \in Nat BY <1>2, <1>4 DEF Special
<1> HIDE DEF b
<1>7. QED BY <1>1, <1>5, <1>6, PutMiddleRefines

LEMMA PutEndRefines ==
  ASSUME QueueInv, PutEnd PROVE QueueStep /\ OpenFrame'
<1>1. /\ FrameInv /\ TypeOK /\ FifoTypeOK /\ OpenFrame /\ phase = "body" /\ pos > Len(msg)
      /\ Put(END) /\ result = "none" /\ END \in Byte /\ parser = NewParser
  BY MarkBytes DEF PutEnd, QueueInv, FrameInv, OpenFrame, TypeOK, ParserIdle
<1>2. CASE rc' = -1
  <2>1. q' = q BY <1>1, <1>2, PutFacts
  <2>2. PutsFails BY <1>2 DEF PutEnd
  <2>3. QED BY <1>1, <2>1, <2>2, PutsFailsRefines
<1>3. CASE rc' = 0
  <2>1. Return("queued") /\ UNCHANGED taken BY <1>3 DEF PutEnd
  <2>2. q \in Seq(Byte) /\ q' = Append(q, END) /\ q' \in Seq(Byte)
    BY <1>1, <1>3, AppendProperties DEF Put, FifoTypeOK
  <2>3. msg \in Messages /\ msg \in Seq(Byte) BY <1>1, QueueConstantsOK DEF TypeOK
  <2>4. Opened.buf = msg
    <3>1. pos \in 1 .. Len(msg) + 1 /\ Len(msg) \in Nat BY <1>1, <2>3 DEF TypeOK
    <3>2. pos = Len(msg) + 1 BY <1>1, <3>1
    <3>3. Len(Opened.buf) = Len(msg) /\ \A i \in 1..Len(msg) : Opened.buf[i] = msg[i]
      BY <1>1, <3>1, <3>2 DEF OpenFrame
    <3>4. Opened.buf \in Seq(Byte) BY <1>1, OpenedParses
    <3>5. QED BY <2>3, <3>3, <3>4, SeqEqual
  <2>5. AllDecoded(NewParser, q') = Decoded(AllDecoded(NewParser, q), END)
    BY <1>1, <2>2, NewParserParses, PutDecoded
  <2>6. Decoded(AllDecoded(NewParser, q), END)
          = [p |-> NewParser, msgs |-> Append(AllDecoded(NewParser, q).msgs, msg)]
    BY <2>4 DEF Decoded, Opened
  <2>7. Decode(NewParser, q) = AllDecoded(NewParser, q).msgs
        /\ Decode(NewParser, q') = AllDecoded(NewParser, q').msgs
    BY <2>2, NewParserParses, AllDecodedType
  <2>8. Decode(NewParser, q') = Append(Decode(NewParser, q), msg) BY <2>5, <2>6, <2>7
  <2>9. parser' = NewParser /\ result' = "queued" /\ phase' = "idle" BY <2>1 DEF Return
  <2>10. Queue!Accept(msg) BY <1>1, <2>1, <2>8, <2>9 DEF Queue!Accept
  <2>11. QED BY <2>3, <2>9, <2>10 DEF QueueStep, Queue!QueueNext, OpenFrame
<1>4. QED BY <1>1, <1>2, <1>3 DEF PutEnd

(* What becomes of the messages in the ring when its first byte is got.     *)
LEMMA GetsTheFirst ==
  ASSUME FrameInv, Get, rc' = 0
  PROVE  LET s == Decoded([p |-> parser, msgs |-> <<>>], out')
         IN  /\ q \in Seq(Byte) /\ q # <<>> /\ out' = Head(q) /\ q' = Tail(q) /\ q' \in Seq(Byte)
             /\ parser \in Parsers /\ s.p \in Parsers
             /\ Decode(parser, q) = s.msgs \o Decode(s.p, q')
<1> DEFINE s == Decoded([p |-> parser, msgs |-> <<>>], Head(q))
<1>1. /\ q \in Seq(Byte) /\ q # <<>> /\ out' = Head(q) /\ q' = Tail(q) /\ q' \in Seq(Byte)
      /\ Head(q) \in Byte
  BY DEF Get, FrameInv, TypeOK, FifoTypeOK
<1>2. parser \in Parsers BY DEF FrameInv, TypeOK, Parsers
<1>3. s \in Decodes
  <2>1. [p |-> parser, msgs |-> <<>>] \in Decodes BY <1>2 DEF Decodes
  <2>2. QED BY <1>1, <2>1, DecodedType
<1>4. s.p \in Parsers BY <1>3 DEF Decodes
<1>5. AllDecoded(parser, q).msgs = s.msgs \o AllDecoded(s.p, Tail(q)).msgs
  BY <1>1, <1>2, GetDecoded
<1> HIDE DEF s
<1>6. Decode(parser, q) = s.msgs \o Decode(s.p, q') BY <1>1, <1>2, <1>4, <1>5, AllDecodedType
<1>7. QED BY <1>1, <1>2, <1>4, <1>6 DEF s

LEMMA GetsByteRefines ==
  ASSUME QueueInv, GetsByte PROVE QueueStep /\ OpenFrame'
<1> DEFINE r == ParseByte(parser, out')
           s == Decoded([p |-> parser, msgs |-> <<>>], out')
<1>1. /\ FrameInv /\ Get /\ rc' = 0 /\ out' # END /\ phase = "gets"
      /\ UNCHANGED <<phase, taken, result>>
  BY DEF QueueInv, GetsByte
<1>2. /\ q \in Seq(Byte) /\ q # <<>> /\ out' = Head(q) /\ q' \in Seq(Byte)
      /\ s.p \in Parsers /\ Decode(parser, q) = s.msgs \o Decode(s.p, q')
  BY <1>1, GetsTheFirst
<1>3. s = [p |-> r, msgs |-> <<>>] BY <1>1 DEF Decoded
<1>4. parser' = r
  <2>1. PICK p \in Read(parser) : parser' = ParseByte(p, out') BY DEF GetsByte
  <2>2. CASE parser.isBegin = "unset"
    <3>1. out' = BEGIN BY <1>1, <1>2, <2>2 DEF FrameInv, ParserSynchronised
    <3>2. QED BY <2>1, <3>1, ParsesBegin
  <2>3. CASE parser.isBegin # "unset" BY <2>1, <2>3 DEF Read
  <2>4. QED BY <2>2, <2>3
<1> HIDE DEF r, s
<1>5. s.p = r /\ s.msgs = <<>> BY <1>3
<1>6. Decode(r, q') \in Seq(Seq(Byte)) BY <1>2, <1>5, AllDecodedType DEF Decodes
<1>7. <<>> \o Decode(r, q') = Decode(r, q') BY <1>6, ConcatEmptySeq
<1>8. Decode(parser', q') = Decode(parser, q) BY <1>2, <1>4, <1>5, <1>7
<1>9. QED BY <1>1, <1>8 DEF QueueStep, OpenFrame, QueueInv

(* The first message, and the others.                                       *)
LEMMA HeadAndTail ==
  ASSUME NEW b \in Seq(Byte), NEW M \in Seq(Seq(Byte))
  PROVE  Head(<<b>> \o M) = b /\ Tail(<<b>> \o M) = M /\ <<b>> \o M # <<>>
<1> DEFINE V == Seq(Byte)
           u == <<b>>
           l == u \o M
<1>1. u \in Seq(V) /\ M \in Seq(V) /\ Len(u) = 1 /\ u[1] = b OBVIOUS
<1> HIDE DEF V, u
<1>2. /\ l \in Seq(V) /\ Len(l) = Len(u) + Len(M)
      /\ \A i \in 1..(Len(u) + Len(M)) : l[i] = IF i <= Len(u) THEN u[i] ELSE M[i - Len(u)]
  BY <1>1, ConcatProperties
<1> HIDE DEF l
<1>3. Len(M) \in Nat /\ Len(u) \in Nat BY <1>1
<1>4. Len(l) >= 1 /\ l # <<>> BY <1>1, <1>2, <1>3
<1>5. l[1] = b
  <2>1. 1 \in 1..(Len(u) + Len(M)) /\ 1 <= Len(u) BY <1>1, <1>3
  <2>2. QED BY <1>1, <1>2, <2>1
<1>6. Head(l) = b BY <1>2, <1>4, <1>5
<1>7. Tail(l) \in Seq(V) /\ Len(Tail(l)) = Len(l) - 1
      /\ \A i \in 1..Len(Tail(l)) : Tail(l)[i] = l[i + 1]
  BY <1>2, <1>4, HeadTailProperties
<1>8. Len(Tail(l)) = Len(M) BY <1>1, <1>2, <1>3, <1>7
<1>9. ASSUME NEW i \in 1..Len(Tail(l)) PROVE Tail(l)[i] = M[i]
  <2>1. /\ i + 1 \in 1..(Len(u) + Len(M)) /\ ~(i + 1 <= Len(u)) /\ i + 1 - Len(u) = i
    BY <1>1, <1>3, <1>8
  <2>2. l[i + 1] = M[i] BY <1>2, <2>1
  <2>3. QED BY <1>7, <2>2
<1>10. Tail(l) = M BY <1>1, <1>7, <1>8, <1>9, SeqEqual
<1>11. QED BY <1>4, <1>6, <1>10 DEF l, u

LEMMA GetsDoneRefines ==
  ASSUME QueueInv, GetsDone PROVE QueueStep /\ OpenFrame'
<1> DEFINE b == parser.buf
           s == Decoded([p |-> parser, msgs |-> <<>>], out')
           M == Decode(NewParser, q')
<1>1. /\ FrameInv /\ Get /\ rc' = 0 /\ out' = END /\ phase = "gets" /\ result = "none"
  BY DEF QueueInv, GetsDone, OpenFrame
<1>2. /\ q' \in Seq(Byte) /\ parser \in Parsers
      /\ s.p \in Parsers /\ Decode(parser, q) = s.msgs \o Decode(s.p, q')
  BY <1>1, GetsTheFirst
<1>3. s = [p |-> NewParser, msgs |-> Append(<<>>, b)] BY <1>1 DEF Decoded
<1> HIDE DEF s
<1>4. s.p = NewParser /\ s.msgs = <<b>> BY <1>3
<1>5. b \in Seq(Byte) BY <1>2 DEF Parsers, Parser
<1>6. M \in Seq(Seq(Byte)) BY <1>2, <1>4, AllDecodedType DEF Decodes
<1>7. Decode(parser, q) = <<b>> \o M BY <1>2, <1>4
<1> HIDE DEF b, M
<1>8. Head(<<b>> \o M) = b /\ Tail(<<b>> \o M) = M /\ <<b>> \o M # <<>>
  BY <1>5, <1>6, HeadAndTail
<1>9. parser' = NewParser BY DEF GetsDone, Return, RetryPuts, StartPuts
<1>10. Decode(parser', q') = M BY <1>9 DEF M
<1>11. CASE op = "task" /\ taken' = parser.buf /\ Return("taken")
  <2>1. Queue!Take BY <1>1, <1>7, <1>8, <1>10, <1>11 DEF Queue!Take, Return, b
  <2>2. QED BY <2>1, <1>11 DEF QueueStep, Queue!QueueNext, OpenFrame, Return
<1>12. CASE op = "publish" /\ RetryPuts /\ UNCHANGED <<op, msg, taken, result>>
  <2>1. Queue!DropOldest BY <1>1, <1>7, <1>8, <1>10, <1>12 DEF Queue!DropOldest
  <2>2. QED BY <1>1, <2>1, <1>12 DEF QueueStep, Queue!QueueNext, OpenFrame, RetryPuts, StartPuts
<1>13. QED BY <1>11, <1>12 DEF GetsDone

LEMMA GetsFailsRefines ==
  ASSUME QueueInv, GetsFails PROVE QueueStep /\ OpenFrame'
<1>1. /\ q = <<>> /\ q' = <<>> /\ result = "none" /\ UNCHANGED taken
      /\ parser \in Parsers /\ result' \in {"nothing", "failed"}
      /\ parser' = NewParser /\ phase' = "idle"
  BY DEF GetsFails, Get, QueueInv, OpenFrame, Return, FrameInv, TypeOK, Parsers
<1>2. ASSUME NEW p \in Parsers PROVE Decode(p, <<>>) = <<>>
  <2>1. <<>> \in Seq(Byte) OBVIOUS
  <2>2. AllDecoded(p, <<>>) = [p |-> p, msgs |-> <<>>] /\ Decode(p, <<>>) = AllDecoded(p, <<>>).msgs
    BY <2>1, AllDecodedType
  <2>3. QED BY <2>2
<1>3. Decode(parser, q) = <<>> /\ Decode(parser', q') = <<>> BY <1>1, <1>2, NewParserParses
<1>4. Queue!FindNothing \/ Queue!GiveUp BY <1>1, <1>3 DEF Queue!FindNothing, Queue!GiveUp
<1>5. QED BY <1>1, <1>4 DEF QueueStep, Queue!QueueNext, OpenFrame

LEMMA CallerRefines ==
  ASSUME QueueInv, TaskTakes \/ \E m \in Messages : Publish(m) \/ Respond(m)
  PROVE  QueueStep /\ OpenFrame'
<1>1. /\ parser = NewParser /\ parser' = NewParser /\ q' = q /\ UNCHANGED taken
      /\ result' = "none" /\ phase' \in {"begin", "gets"}
  BY DEF TaskTakes, Publish, Respond, StartPuts, StartGets, QueueInv, FrameInv, ParserIdle,
         fifoVars
<1>2. Queue!Call BY <1>1 DEF Queue!Call
<1>3. QED BY <1>1, <1>2 DEF QueueStep, Queue!QueueNext, OpenFrame

LEMMA QueueInitial == Init => QueueInv /\ Queue!QueueInit
<1>1. SUFFICES ASSUME Init PROVE QueueInv /\ Queue!QueueInit OBVIOUS
<1>2. /\ q = <<>> /\ parser = NewParser /\ taken = NoMessage /\ result = "none"
      /\ phase = "idle"
  BY <1>1 DEF Init, FifoInit
<1>3. <<>> \in Seq(Byte) OBVIOUS
<1>4. AllDecoded(NewParser, <<>>) = [p |-> NewParser, msgs |-> <<>>]
      /\ Decode(NewParser, <<>>) = AllDecoded(NewParser, <<>>).msgs
  BY <1>3, NewParserParses, AllDecodedType
<1>5. Decode(parser, q) = <<>> BY <1>2, <1>4
<1>6. QED BY <1>1, <1>2, <1>5, FrameInit DEF QueueInv, OpenFrame, Queue!QueueInit

LEMMA QueueStepwise ==
  QueueInv /\ [Next]_vars => QueueInv' /\ [Queue!QueueNext]_(Queue!queueVars)
<1>1. SUFFICES ASSUME QueueInv, [Next]_vars
               PROVE  QueueInv' /\ QueueStep
  BY DEF QueueStep, Queue!queueVars
<1>2. FrameInv' BY <1>1, FrameNext DEF QueueInv
<1>3. CASE CallStep
  <2>1. CASE PutBegin BY <1>1, <1>2, <2>1, PutBeginRefines DEF QueueInv
  <2>2. CASE PutPlain BY <1>1, <1>2, <2>2, PutPlainRefines DEF QueueInv
  <2>3. CASE PutEscape BY <1>1, <1>2, <2>3, PutEscapeRefines DEF QueueInv
  <2>4. CASE PutFlipped BY <1>1, <1>2, <2>4, PutFlippedRefines DEF QueueInv
  <2>5. CASE PutEnd BY <1>1, <1>2, <2>5, PutEndRefines DEF QueueInv
  <2>6. CASE GetsByte BY <1>1, <1>2, <2>6, GetsByteRefines DEF QueueInv
  <2>7. CASE GetsDone BY <1>1, <1>2, <2>7, GetsDoneRefines DEF QueueInv
  <2>8. CASE GetsFails BY <1>1, <1>2, <2>8, GetsFailsRefines DEF QueueInv
  <2>9. QED BY <1>3, <2>1, <2>2, <2>3, <2>4, <2>5, <2>6, <2>7, <2>8 DEF CallStep
<1>4. CASE TaskTakes \/ \E m \in Messages : Publish(m) \/ Respond(m)
  BY <1>1, <1>2, <1>4, CallerRefines DEF QueueInv
<1>5. CASE UNCHANGED vars
  <2>1. UNCHANGED <<parser, q, taken, result, phase, pos, msg>>
    BY <1>5 DEF vars, callVars, fifoVars
  <2>2. OpenFrame' BY <1>1, <2>1 DEF QueueInv, OpenFrame, Opened
  <2>3. QED BY <1>2, <2>1, <2>2 DEF QueueInv, QueueStep
<1>6. QED BY <1>1, <1>3, <1>4, <1>5 DEF Next

(* For every ring, every message and every mix of calls, the bytes in the   *)
(* ring are a queue of whole messages: a refused Puts leaves the first      *)
(* bytes of its frame behind, and yet what MQTT_Task takes is what was      *)
(* accepted, whole and in order, and a publisher gives its message up only  *)
(* when it has dropped all others.                                          *)
THEOREM QueueKeepsItsPromise == Spec => RefinesQueue
<1>1. Init => QueueInv /\ Queue!QueueInit BY QueueInitial
<1>2. QueueInv /\ [Next]_vars => QueueInv' /\ [Queue!QueueNext]_(Queue!queueVars)
  BY QueueStepwise
<1>3. QED BY <1>1, <1>2, PTL DEF Spec, RefinesQueue, Queue!QueueSpec
==============================================================================
