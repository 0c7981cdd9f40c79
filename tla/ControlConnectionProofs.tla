---------------------- MODULE ControlConnectionProofs ----------------------
(* Proofs about ControlConnection, for any set of callers and any bounds.  *)
EXTENDS ControlConnection, TLAPS

-----------------------------------------------------------------------------
(* Lines and parse threads.                                                *)

\* A line in front of others.
LEMMA Prepended ==
  ASSUME NEW S, NEW s \in Seq(S), NEW x \in S
  PROVE  /\ <<x>> \o s \in Seq(S) /\ Len(<<x>> \o s) = Len(s) + 1
         /\ (<<x>> \o s)[1] = x
         /\ \A i \in 1..Len(s) : (<<x>> \o s)[i + 1] = s[i]
  OBVIOUS

\* A sequence behind another.
LEMMA Joint ==
  ASSUME NEW S, NEW s \in Seq(S), NEW t \in Seq(S)
  PROVE  /\ s \o t \in Seq(S) /\ Len(s \o t) = Len(s) + Len(t)
         /\ \A i \in 1..Len(s) : (s \o t)[i] = s[i]
         /\ \A i \in 1..Len(t) : (s \o t)[Len(s) + i] = t[i]
  OBVIOUS

\* What is left of a sequence whose head was taken.
LEMMA Taken ==
  ASSUME NEW S, NEW s \in Seq(S), s # <<>>
  PROVE  /\ Head(s) = s[1] /\ s[1] \in S /\ 1 \in 1..Len(s)
         /\ Tail(s) \in Seq(S) /\ Len(Tail(s)) = Len(s) - 1
         /\ \A i \in 1..Len(Tail(s)) : i + 1 \in 1..Len(s) /\ Tail(s)[i] = s[i + 1]
  OBVIOUS

\* A reply of Tor: its last line, and no other, ends it, and every line is what
\* readReply expects after the one before.
LEMMA LinesTyped ==
  ASSUME NEW shape \in Shapes, NEW command \in Command
  PROVE  /\ Lines(shape, command) \in Seq(Line)
         /\ Len(Lines(shape, command)) = Len(shape) /\ Len(shape) \in {1, 2, 4}
         /\ \A i \in 1..Len(shape) :
              /\ Lines(shape, command)[i].kind = shape[i]
              /\ Lines(shape, command)[i].cmd  = command.id
              /\ Lines(shape, command)[i].halt = command.halt
              /\ shape[i] # "stub" /\ (shape[i] = "end" <=> i = Len(shape))
         /\ shape[1] \in Expected("idle")
         /\ \A i \in 2..Len(shape) : shape[i] \in Expected(After(shape[i - 1]))
<1>1. /\ shape \in Seq(Kinds) /\ Len(shape) \in {1, 2, 4}
      /\ \A i \in 1..Len(shape) : shape[i] # "stub" /\ (shape[i] = "end" <=> i = Len(shape))
  <2>1. CASE shape = <<"end">>
    BY <2>1 DEF Kinds
  <2>2. CASE shape = <<"mid", "end">>
    BY <2>2 DEF Kinds
  <2>3. CASE shape = <<"plus", "text", "dot", "end">>
    <3>1. Len(shape) = 4 /\ shape \in Seq(Kinds)
      BY <2>3 DEF Kinds
    <3> QED  BY <2>3, <3>1
  <2> QED  BY <2>1, <2>2, <2>3 DEF Shapes
<1>2. shape[1] \in Expected("idle")
  BY DEF Shapes, Expected
<1>3. \A i \in 2..Len(shape) : shape[i] \in Expected(After(shape[i - 1]))
  <2>1. CASE shape = <<"end">>
    BY <2>1
  <2>2. CASE shape = <<"mid", "end">>
    BY <2>2 DEF Expected, After
  <2>3. CASE shape = <<"plus", "text", "dot", "end">>
    BY <2>3 DEF Expected, After
  <2> QED  BY <2>1, <2>2, <2>3 DEF Shapes
<1>4. /\ command.id \in Nat /\ command.halt \in BOOLEAN
  BY DEF Command
<1>5. \A i \in 1..Len(shape) :
        [kind |-> shape[i], cmd |-> command.id, halt |-> command.halt] \in Line
  BY <1>1, <1>4 DEF Line
<1>6. Lines(shape, command) \in Seq(Line)
      /\ Len(Lines(shape, command)) = Len(shape)
  BY <1>1, <1>5 DEF Lines
<1> QED  BY <1>1, <1>2, <1>3, <1>6 DEF Lines

\* A parse thread moves, and the others stay where they are.
LEMMA Moved ==
  ASSUME parsers \in Seq(Parser), NEW p \in 1..Len(parsers), NEW at \in Stages,
         NEW STATE line, line \in Line, Becomes(p, at, line)
  PROVE  /\ parsers' \in Seq(Parser) /\ Len(parsers') = Len(parsers)
         /\ parsers'[p] = [at |-> at, line |-> line]
<1>1. [at |-> at, line |-> line] \in Parser
  BY DEF Parser
<1> QED  BY <1>1 DEF Becomes

LEMMA NoLineTyped == NoLine \in Line /\ Fresh \in Parser /\ Stub \in Line
<1>1. NoLine \in Line /\ Stub \in Line
  <2>1. FALSE \in BOOLEAN
    OBVIOUS
  <2> QED  BY <2>1 DEF NoLine, Stub, Line, Kinds
<1>2. "idle" \in Stages
  BY DEF Stages
<1> QED  BY <1>1, <1>2 DEF Fresh, Parser

\* A line that readReply has read, and what it becomes of the reply.
LEMMA ReadTyped ==
  ASSUME TypeOK, NEW p, NEW stages, NEW kinds, Reads(p, stages, kinds)
  PROVE  /\ p \in 1..Len(parsers) /\ parsers[p] \in Parser
         /\ parsers[p].at \in Stages /\ parsers[p].line \in Line
         /\ Head(fromTor) \in Line /\ fromTor' \in Seq(Line)
         /\ Len(parsers) \in Nat
<1>1. parsers \in Seq(Parser) /\ fromTor \in Seq(Line) /\ fromTor # <<>>
      /\ p \in 1..Len(parsers) /\ fromTor' = Tail(fromTor)
  BY DEF Reads, TypeOK
<1>2. parsers[p] \in Parser /\ Len(parsers) \in Nat
  BY <1>1
<1>3. Head(fromTor) \in Line /\ fromTor' \in Seq(Line)
  BY <1>1
<1> QED  BY <1>1, <1>2, <1>3 DEF Parser

LEMMA JoinedTyped ==
  ASSUME Head(fromTor) \in Line, NEW p, parsers[p].line \in Line,
         NEW first \in Kinds \cup {"misread"}
  PROVE  /\ Joined(p, first) \in Line
         /\ Joined(p, first).cmd = Head(fromTor).cmd
         /\ Joined(p, first).halt = Head(fromTor).halt
         /\ Joined(p, first).kind = IF parsers[p].at = "idle" THEN first
                                    ELSE parsers[p].line.kind
<1>1. PICK k \in Kinds \cup {"misread"} :
        k = IF parsers[p].at = "idle" THEN first ELSE parsers[p].line.kind
  BY DEF Line
<1>2. Joined(p, first) = [Head(fromTor) EXCEPT !.kind = k]
  BY <1>1 DEF Joined
<1> QED  BY <1>1, <1>2 DEF Line

\* TypeOK is inductive by itself.
THEOREM TypeCorrect == Spec => []TypeOK
<1>1. Init => TypeOK
  <2> SUFFICES ASSUME Init PROVE TypeOK
    OBVIOUS
  <2>1. /\ waiters \in Seq(Nat) /\ toTor \in Seq(Command) /\ fromTor \in Seq(Line)
        /\ parsers \in Seq(Parser)
    BY DEF Init
  <2> QED  BY <2>1 DEF Init, TypeOK
<1>2. TypeOK /\ [Next]_vars => TypeOK'
  <2> SUFFICES ASSUME TypeOK, [Next]_vars PROVE TypeOK'
    OBVIOUS
  <2> USE DEF TypeOK, caller, wire
  <2>1. ASSUME NEW c \in Callers, Enter(c) PROVE TypeOK'
    <3>1. parsers' \in Seq(Parser)
      BY <2>1, NoLineTyped DEF Enter
    <3> QED  BY <2>1, <3>1 DEF Enter
  <2>2. ASSUME NEW c \in Callers, Write(c) PROVE TypeOK'
    <3>1. [id |-> sent + 1, halt |-> FALSE] \in Command
      BY DEF Command
    <3>2. toTor' \in Seq(Command)
      BY <2>2, <3>1 DEF Write
    <3> QED  BY <2>2, <3>2 DEF Write
  <2>3. ASSUME NEW c \in Callers, WriteFails(c) PROVE TypeOK'
    BY <2>3 DEF WriteFails, Leave
  <2>4. ASSUME NEW c \in Callers, Queue(c) PROVE TypeOK'
    BY <2>4 DEF Queue
  <2>5. ASSUME NEW c \in Callers, Return(c) PROVE TypeOK'
    BY <2>5 DEF Return, Leave
  <2>6. ASSUME NEW c \in Callers, Interrupt(c) PROVE TypeOK'
    BY <2>6 DEF Interrupt, Leave
  <2>7. CASE ShutdownTor
    <3>1. [id |-> sent + 1, halt |-> TRUE] \in Command
      BY DEF Command
    <3>2. toTor' \in Seq(Command)
      BY <2>7, <3>1 DEF ShutdownTor
    <3> QED  BY <2>7, <3>2 DEF ShutdownTor
  <2>8. CASE LaunchThread
    BY <2>8, NoLineTyped DEF LaunchThread
  <2>r. ASSUME parsers' \in Seq(Parser), fromTor' \in Seq(Line),
               UNCHANGED <<caller, lock, waiters, responses, sent, toTor, emitted, tor>>
        PROVE  TypeOK'
    BY <2>r
  <2>9. ASSUME NEW p, ReadStatusLine(p) PROVE TypeOK'
    <3> DEFINE stage == CASE Head(fromTor).kind = "mid"  -> "half"
                          [] Head(fromTor).kind = "plus" -> "block"
                          [] OTHER                       -> "full"
               first == IF Head(fromTor).kind = "event" THEN "event" ELSE "end"
    <3>1. Reads(p, {"idle", "half"}, {"mid", "plus", "end", "event"})
          /\ Becomes(p, stage, Joined(p, first))
      BY <2>9 DEF ReadStatusLine
    <3>2. PICK at \in Stages : at = stage
      BY DEF Stages
    <3>3. PICK f \in Kinds \cup {"misread"} : f = first
      BY DEF Kinds
    <3>4. Joined(p, f) \in Line
      BY <3>1, ReadTyped, JoinedTyped
    <3>5. parsers' \in Seq(Parser)
      BY <3>1, <3>2, <3>3, <3>4, ReadTyped, Moved
    <3> QED  BY <3>1, <3>5, <2>r, ReadTyped DEF Reads
  <2>10. ASSUME NEW p, ReadDataLine(p) PROVE TypeOK'
    <3>1. Reads(p, {"block"}, Kinds)
      BY <2>10 DEF ReadDataLine
    <3>2. PICK at \in Stages :
            at = IF Head(fromTor).kind = "dot" THEN "half" ELSE "block"
      BY DEF Stages
    <3>3. Becomes(p, at, parsers[p].line)
      BY <2>10, <3>2 DEF ReadDataLine
    <3>4. parsers' \in Seq(Parser)
      BY <3>1, <3>3, ReadTyped, Moved
    <3> QED  BY <3>1, <3>4, <2>r, ReadTyped DEF Reads
  <2>11. ASSUME NEW p, ReadShortLine(p) PROVE TypeOK'
    <3>1. Reads(p, {"idle", "half"}, {"dot", "stub"}) /\ Becomes(p, "failed", NoLine)
      BY <2>11 DEF ReadShortLine
    <3>2. "failed" \in Stages
      BY DEF Stages
    <3>3. parsers' \in Seq(Parser)
      BY <3>1, <3>2, NoLineTyped, ReadTyped, Moved
    <3> QED  BY <3>1, <3>3, <2>r, ReadTyped DEF Reads
  <2>12. ASSUME NEW p, MisreadDataLine(p) PROVE TypeOK'
    <3>1. Reads(p, {"idle", "half"}, {"text"})
      BY <2>12 DEF MisreadDataLine
    <3>2. parsers' \in Seq(Parser)
      <4>1. CASE Becomes(p, "failed", NoLine)
        <5>1. "failed" \in Stages
          BY DEF Stages
        <5> QED  BY <3>1, <4>1, <5>1, NoLineTyped, ReadTyped, Moved
      <4>2. ASSUME NEW at \in {"half", "block", "full"}, NEW first \in {"end", "misread"},
                   Becomes(p, at, Joined(p, first))
            PROVE  parsers' \in Seq(Parser)
        <5>1. at \in Stages /\ first \in Kinds \cup {"misread"}
          BY DEF Stages, Kinds
        <5>2. Joined(p, first) \in Line
          BY <3>1, <5>1, ReadTyped, JoinedTyped
        <5> QED  BY <3>1, <4>2, <5>1, <5>2, ReadTyped, Moved
      <4> QED  BY <2>12, <4>1, <4>2 DEF MisreadDataLine
    <3> QED  BY <3>1, <3>2, <2>r, ReadTyped DEF Reads
  <2>13. ASSUME NEW p, HandleEvent(p) PROVE TypeOK'
    <3>1. "idle" \in Stages /\ "crashed" \in Stages
      BY DEF Stages
    <3>2. p \in 1..Len(parsers)
          /\ (Becomes(p, "idle", NoLine) \/ Becomes(p, "crashed", NoLine))
      BY <2>13 DEF HandleEvent
    <3>3. parsers' \in Seq(Parser)
      BY <3>1, <3>2, NoLineTyped, Moved
    <3> QED  BY <2>13, <3>3 DEF HandleEvent
  <2>14. ASSUME NEW p, HandOver(p) PROVE TypeOK'
    <3>1. "idle" \in Stages
      BY DEF Stages
    <3>2. p \in 1..Len(parsers) /\ Becomes(p, "idle", NoLine)
      BY <2>14 DEF HandOver
    <3>3. parsers' \in Seq(Parser)
      BY <3>1, <3>2, NoLineTyped, Moved
    <3>4. parsers[p] \in Parser
      BY <3>2
    <3>5. waiters # <<>> => Given(Head(waiters), parsers[p].line) \in Reply
      <4>1. parsers[p].line \in Line
        BY <3>4 DEF Parser
      <4>2. waiters # <<>> => Head(waiters) \in Nat
        OBVIOUS
      <4> QED  BY <4>1, <4>2 DEF Given, Reply, Line
    <3>6. waiters' \in Seq(Nat) /\ responses' \subseteq Reply
      <4>1. CASE waiters = <<>>
        BY <2>14, <4>1 DEF HandOver
      <4>2. CASE waiters # <<>>
        <5>1. /\ waiters' = Tail(waiters)
              /\ responses' = responses \cup {Given(Head(waiters), parsers[p].line)}
          BY <2>14, <4>2 DEF HandOver
        <5>2. waiters' \in Seq(Nat)
          BY <4>2, <5>1
        <5> QED  BY <3>5, <4>2, <5>1, <5>2
      <4> QED  BY <4>1, <4>2
    <3> QED  BY <2>14, <3>3, <3>6 DEF HandOver
  <2>15. ASSUME NEW p, EndOfStream(p) PROVE TypeOK'
    <3>1. PICK at : Becomes(p, at, NoLine) /\ at \in {"ended", "failed", "crashed"}
      BY <2>15 DEF EndOfStream
    <3>2. at \in Stages /\ p \in 1..Len(parsers)
      BY <2>15, <3>1 DEF EndOfStream, Stages
    <3>3. parsers' \in Seq(Parser)
      BY <3>1, <3>2, NoLineTyped, Moved
    <3> QED  BY <2>15, <3>3 DEF EndOfStream
  <2>16. CASE TorAnswers
    <3>1. PICK shape \in Shapes : fromTor' = fromTor \o Lines(shape, Head(toTor))
      BY <2>16 DEF TorAnswers
    <3>2. Head(toTor) \in Command /\ toTor' \in Seq(Command)
      BY <2>16 DEF TorAnswers
    <3>3. fromTor' \in Seq(Line)
      BY <3>1, <3>2, LinesTyped, Joint
    <3> QED  BY <2>16, <3>2, <3>3 DEF TorAnswers
  <2>17. CASE TorHalts
    <3>1. <<"end">> \in Shapes
      BY DEF Shapes
    <3>2. Head(toTor) \in Command
      BY <2>17 DEF TorHalts
    <3>3. fromTor' \in Seq(Line)
      BY <2>17, <3>1, <3>2, LinesTyped, Joint DEF TorHalts
    <3> QED  BY <2>17, <3>3 DEF TorHalts
  <2>18. CASE TorEmits
    BY <2>18, NoLineTyped DEF TorEmits
  <2>19. CASE TorDies
    <3>1. PICK n \in 0..Len(fromTor) :
            fromTor' \in {SubSeq(fromTor, 1, n), Append(SubSeq(fromTor, 1, n), Stub)}
      BY <2>19 DEF TorDies
    <3>2. SubSeq(fromTor, 1, n) \in Seq(Line)
      OBVIOUS
    <3>4. Append(SubSeq(fromTor, 1, n), Stub) \in Seq(Line)
      BY <3>2, NoLineTyped
    <3>3. fromTor' \in Seq(Line)
      BY <3>1, <3>2, <3>4
    <3> QED  BY <2>19, <3>3 DEF TorDies
  <2>20. CASE UNCHANGED vars
    BY <2>20 DEF vars
  <2> QED
    BY <2>1, <2>2, <2>3, <2>4, <2>5, <2>6, <2>7, <2>8, <2>9, <2>10, <2>11, <2>12,
       <2>13, <2>14, <2>15, <2>16, <2>17, <2>18, <2>19, <2>20
       DEF Next, Call, Parse, Tor
<1> QED  BY <1>1, <1>2, PTL DEF Spec

-----------------------------------------------------------------------------
(* What react has yet to see, and how a step changes it.                   *)

Full == Len(parsers) = 1 /\ parsers[1].at = "full"

UnreadFacts ==
  /\ Unread \in Seq(Line) /\ Len(Unread) \in Nat
  /\ \A i \in 1..Len(Unread) : Unread[i] \in Line
  /\ Full => /\ Len(Unread) = Len(fromTor) + 1 /\ Unread[1] = parsers[1].line
             /\ \A i \in 1..Len(fromTor) : Unread[i + 1] = fromTor[i]
  /\ ~ Full => Unread = fromTor

LEMMA UnreadTyped == TypeOK => UnreadFacts
<1> SUFFICES ASSUME TypeOK PROVE UnreadFacts
  OBVIOUS
<1>1. fromTor \in Seq(Line) /\ parsers \in Seq(Parser)
  BY DEF TypeOK
<1>2. CASE Full
  <2>1. Unread = <<parsers[1].line>> \o fromTor
    BY <1>2 DEF Unread, Full
  <2>2. parsers[1] \in Parser
    <3>1. 1 \in 1..Len(parsers)
      BY <1>2 DEF Full
    <3> QED  BY <1>1, <3>1
  <2>3. parsers[1].line \in Line
    BY <2>2 DEF Parser
  <2>4. /\ Unread \in Seq(Line) /\ Len(Unread) = Len(fromTor) + 1
        /\ Unread[1] = parsers[1].line
        /\ \A i \in 1..Len(fromTor) : Unread[i + 1] = fromTor[i]
    BY <1>1, <2>1, <2>3, Prepended
  <2>5. Len(Unread) \in Nat /\ \A i \in 1..Len(Unread) : Unread[i] \in Line
    BY ONLY <2>4
  <2> QED  BY <1>2, <2>4, <2>5 DEF UnreadFacts
<1>3. CASE ~ Full
  <2>1. Unread = fromTor
    BY <1>3 DEF Unread, Full
  <2>2. Len(Unread) \in Nat /\ \A i \in 1..Len(Unread) : Unread[i] \in Line
    BY <1>1, <2>1
  <2> QED  BY <1>1, <1>3, <2>1, <2>2 DEF UnreadFacts
<1> QED  BY <1>2, <1>3

LEMMA UnreadTypedNext == TypeOK' => UnreadFacts'
  BY UnreadTyped, PTL

\* What the invariant needs to know of the types.
LEMMA Types ==
  ASSUME TypeOK
  PROVE  /\ sent \in Nat
         /\ Len(waiters) \in Nat /\ Len(toTor) \in Nat /\ Len(Unread) \in Nat
         /\ \A i \in 1..Len(waiters) : waiters[i] \in Nat
         /\ \A i \in 1..Len(toTor) : toTor[i].id \in Nat
         /\ \A i \in 1..Len(Unread) : Unread[i].cmd \in Nat
         /\ \A r \in responses : r.waiter \in Nat
<1>1. /\ sent \in Nat /\ waiters \in Seq(Nat) /\ responses \subseteq Reply
      /\ toTor \in Seq(Command) /\ UnreadFacts
  BY UnreadTyped DEF TypeOK
<1>2. Len(waiters) \in Nat /\ \A i \in 1..Len(waiters) : waiters[i] \in Nat
  BY <1>1
<1>3. Len(toTor) \in Nat /\ \A i \in 1..Len(toTor) : toTor[i] \in Command
  BY <1>1
<1>4. Len(Unread) \in Nat /\ \A i \in 1..Len(Unread) : Unread[i] \in Line
  BY <1>1 DEF UnreadFacts
<1> QED  BY <1>1, <1>2, <1>3, <1>4 DEF Command, Line, Reply

\* Nothing of it moves; its head is taken; lines join it.
Same    == /\ Len(Unread') = Len(Unread)
           /\ \A i \in 1..Len(Unread) : Unread'[i] = Unread[i]
Shifted == /\ Len(Unread) >= 1 /\ Len(Unread') = Len(Unread) - 1
           /\ \A i \in 1..Len(Unread') : Unread'[i] = Unread[i + 1]
Grown(ls) == /\ Len(Unread') = Len(Unread) + Len(ls)
             /\ \A i \in 1..Len(Unread) : Unread'[i] = Unread[i]
             /\ \A i \in 1..Len(ls) : Unread'[Len(Unread) + i] = ls[i]

LEMMA UnreadGrows ==
  ASSUME TypeOK, TypeOK', UNCHANGED parsers, NEW ls \in Seq(Line),
         fromTor' = fromTor \o ls
  PROVE  Grown(ls)
<1>1. UnreadFacts /\ UnreadFacts' /\ (Full' <=> Full)
  BY UnreadTyped, UnreadTypedNext DEF Full
<1>2. /\ Len(fromTor') = Len(fromTor) + Len(ls)
      /\ \A i \in 1..Len(fromTor) : fromTor'[i] = fromTor[i]
      /\ \A i \in 1..Len(ls) : fromTor'[Len(fromTor) + i] = ls[i]
      /\ Len(fromTor) \in Nat /\ Len(ls) \in Nat
  BY Joint DEF TypeOK
<1>3. CASE ~ Full
  BY <1>1, <1>2, <1>3 DEF UnreadFacts, Grown
<1>4. CASE Full
  <2>1. /\ Len(Unread) = Len(fromTor) + 1 /\ Len(Unread') = Len(fromTor') + 1
        /\ Unread[1] = Unread'[1]
        /\ \A i \in 1..Len(fromTor) : Unread[i + 1] = fromTor[i]
        /\ \A i \in 1..Len(fromTor') : Unread'[i + 1] = fromTor'[i]
    BY <1>1, <1>4 DEF UnreadFacts
  <2>2. ASSUME NEW i \in 1..Len(Unread) PROVE Unread'[i] = Unread[i]
    <3>1. CASE i = 1
      BY <2>1, <3>1
    <3>2. CASE i # 1
      <4>1. PICK j \in 1..Len(fromTor) : i = j + 1
        BY <2>1, <3>2, <1>2
      <4>2. j \in 1..Len(fromTor')
        BY <1>2
      <4> QED  BY <2>1, <4>1, <4>2, <1>2
    <3> QED  BY <3>1, <3>2
  <2>3. ASSUME NEW i \in 1..Len(ls) PROVE Unread'[Len(Unread) + i] = ls[i]
    <3>1. PICK j \in 1..Len(fromTor') : j = Len(fromTor) + i
      BY <1>2
    <3>2. Len(Unread) + i = j + 1
      BY <2>1, <3>1, <1>2
    <3> QED  BY <2>1, <3>1, <3>2, <1>2
  <2> QED  BY <1>2, <2>1, <2>2, <2>3 DEF Grown
<1> QED  BY <1>3, <1>4

\* A thread that is alone reads a line of an unfinished reply, or the last one.
LEMMA UnreadRead ==
  ASSUME TypeOK, TypeOK', ~ Doubled, NEW stages, NEW kinds, ~ ("full" \in stages),
         Reads(1, stages, kinds), Len(parsers') = Len(parsers)
  PROVE  /\ ~ Full /\ Unread = fromTor /\ fromTor # <<>> /\ Head(fromTor) = fromTor[1]
         /\ parsers'[1].at # "full" => Shifted
         /\ parsers'[1] = [at |-> "full", line |-> Head(fromTor)] => Same
<1>1. /\ UnreadFacts /\ UnreadFacts' /\ fromTor \in Seq(Line) /\ fromTor # <<>>
      /\ fromTor' = Tail(fromTor) /\ ~ Full
  BY UnreadTyped, UnreadTypedNext DEF TypeOK, Reads, Full
<1>2. /\ Head(fromTor) = fromTor[1] /\ Len(fromTor') = Len(fromTor) - 1
      /\ \A i \in 1..Len(fromTor') : i + 1 \in 1..Len(fromTor)
                                     /\ fromTor'[i] = fromTor[i + 1]
      /\ Len(fromTor) \in Nat /\ Len(fromTor) >= 1
  BY <1>1, Taken
<1>3. ASSUME parsers'[1].at # "full" PROVE Shifted
  BY <1>1, <1>2, <1>3 DEF Full, UnreadFacts, Shifted
<1>4. ASSUME parsers'[1] = [at |-> "full", line |-> Head(fromTor)] PROVE Same
  <2>1. Len(parsers) = 1
    BY DEF Reads, Doubled, TypeOK
  <2>2. Full' /\ parsers'[1].line = Head(fromTor)
    BY <1>4, <2>1 DEF Full
  <2>3. ASSUME NEW i \in 1..Len(fromTor) PROVE Unread'[i] = fromTor[i]
    <3>1. CASE i = 1
      BY <1>1, <1>2, <2>2, <3>1 DEF UnreadFacts
    <3>2. CASE i # 1
      <4>1. PICK j \in 1..Len(fromTor') : i = j + 1
        BY <1>2, <3>2
      <4> QED  BY <1>1, <1>2, <2>2, <4>1 DEF UnreadFacts
    <3> QED  BY <3>1, <3>2
  <2> QED  BY <1>1, <1>2, <2>2, <2>3 DEF UnreadFacts, Same
<1> QED  BY <1>1, <1>2, <1>3, <1>4 DEF UnreadFacts

\* It leaves react, with what it had read.
LEMMA UnreadLeaves ==
  ASSUME TypeOK, TypeOK', Full, ~ Full', UNCHANGED fromTor
  PROVE  Shifted /\ Unread[1] = parsers[1].line
<1>1. UnreadFacts /\ UnreadFacts' /\ fromTor \in Seq(Line)
  BY UnreadTyped, UnreadTypedNext DEF TypeOK
<1>2. Len(fromTor) \in Nat
  BY <1>1
<1> QED  BY <1>1, <1>2 DEF UnreadFacts, Shifted

\* What no step but a parse thread's reads or hands over leaves as it is.
LEMMA UnreadSame ==
  ASSUME TypeOK, TypeOK', ~ Full, ~ Full', UNCHANGED fromTor
  PROVE  Same
  BY UnreadTyped, UnreadTypedNext DEF UnreadFacts, Same

-----------------------------------------------------------------------------
(* What holds however many threads parse: the order of the callers.        *)

\* Nobody enters or leaves synchronized (waiters), and nobody is answered.
LEMMA OrderKept ==
  ASSUME IInv, UNCHANGED <<lock, waiters, responses, sent>>,
         \A c \in Callers : pc'[c] = "written" <=> pc[c] = "written",
         \A c \in Callers : pc[c] = "written" => waiterOf'[c] = waiterOf[c]
  PROVE  /\ LockInv' /\ WaitersOrdered' /\ AnswerInv'
         /\ \A x : Awaited(x)' <=> Awaited(x)
<1>1. lock # None => waiterOf'[lock] = waiterOf[lock]
  BY DEF IInv, TypeOK, LockInv
<1>2. LockInv'
  BY DEF LockInv, IInv
<1>3. WaitersOrdered'
  BY <1>1 DEF WaitersOrdered, IInv
<1>4. AnswerInv'
  BY DEF AnswerInv, OldestFirst, IInv
<1>5. \A x : Awaited(x)' <=> Awaited(x)
  BY <1>1 DEF Awaited
<1> QED  BY <1>2, <1>3, <1>4, <1>5

\* A caller that is outside synchronized (waiters) before and after.
LEMMA CallerOutside ==
  ASSUME TypeOK, NEW c \in Callers,
         Enter(c) \/ WriteFails(c) \/ Return(c) \/ Interrupt(c)
  PROVE  /\ UNCHANGED <<lock, waiters, responses, sent, toTor, fromTor, emitted, tor>>
         /\ \A d \in Callers : pc'[d] = "written" <=> pc[d] = "written"
         /\ \A d \in Callers : pc[d] = "written" => waiterOf'[d] = waiterOf[d]
         /\ ~ Enter(c) => UNCHANGED parsers
<1>1. CASE Enter(c)
  BY <1>1 DEF Enter, TypeOK, wire
<1>2. CASE ~ Enter(c)
  <2>1. /\ UNCHANGED <<lock, waiters, responses, sent, toTor, fromTor, emitted, tor,
                       parsers>>
        /\ pc[c] # "written" /\ Leave(c)
    BY <1>2 DEF WriteFails, Return, Interrupt, wire
  <2> QED  BY <2>1 DEF Leave, TypeOK
<1> QED  BY <1>1, <1>2

\* Writing a command: it is the youngest, and its writer holds `waiters'.
LEMMA WriteOrder ==
  ASSUME IInv, NEW c \in Callers, Write(c)
  PROVE  /\ LockInv' /\ WaitersOrdered' /\ AnswerInv'
         /\ lock = None /\ sent' = sent + 1
         /\ \A x \in Nat : Awaited(x)' <=> Awaited(x) \/ x = sent + 1
<1>s. sent \in Nat /\ Len(waiters) \in Nat
  BY Types DEF IInv
<1>c. /\ sent' = sent + 1 /\ lock = None /\ lock' = c /\ c # None
      /\ waiterOf'[c] = sent + 1
      /\ UNCHANGED <<waiters, responses>>
  BY NoneAssumption DEF Write, TypeOK, IInv
<1>1. LockInv'
  <2>1. \A d \in Callers : pc'[d] = IF d = c THEN "written" ELSE pc[d]
    BY DEF Write, TypeOK, IInv
  <2>2. \A d \in Callers : pc[d] # "written" /\ d # None
    BY <1>c, NoneAssumption DEF LockInv, IInv
  <2> QED  BY <2>1, <2>2, <1>c DEF LockInv
<1>2. WaitersOrdered'
  <2>1. \A i \in 1..Len(waiters) : waiters[i] \in Nat /\ waiters[i] <= sent
    BY Types DEF WaitersOrdered, IInv
  <2>2. \A i \in 1..Len(waiters) : waiters[i] < sent + 1 /\ waiters[i] <= sent + 1
    BY <2>1, <1>s
  <2> QED  BY <2>2, <1>c DEF WaitersOrdered, IInv
<1>3. AnswerInv'
  BY <1>c, <1>s, Types DEF AnswerInv, OldestFirst, IInv
<1>4. \A x \in Nat : Awaited(x)' <=> Awaited(x) \/ x = sent + 1
  BY <1>c DEF Awaited
<1> QED  BY <1>1, <1>2, <1>3, <1>4, <1>c

\* Queueing the waiter: who was about to be queued now is.
LEMMA QueueOrder ==
  ASSUME IInv, NEW c \in Callers, Queue(c)
  PROVE  /\ LockInv' /\ WaitersOrdered' /\ AnswerInv'
         /\ \A x : Awaited(x)' <=> Awaited(x)
<1>s. sent \in Nat /\ Len(waiters) \in Nat /\ waiters \in Seq(Nat)
  BY Types DEF IInv, TypeOK
<1>c. /\ lock = c /\ lock' = None /\ c # None /\ waiterOf[c] = sent
      /\ UNCHANGED <<sent, waiterOf, responses>>
  BY NoneAssumption DEF Queue, wire, IInv, WaitersOrdered
<1>a. /\ Len(waiters') = Len(waiters) + 1
      /\ \A i \in 1..Len(waiters) : waiters'[i] = waiters[i]
      /\ waiters'[Len(waiters) + 1] = sent
  BY <1>s, <1>c DEF Queue
<1>1. LockInv'
  <2>1. \A d \in Callers : pc'[d] = IF d = c THEN "waiting" ELSE pc[d]
    BY DEF Queue, TypeOK, IInv
  <2>2. \A d \in Callers : d # None /\ (d # c => pc[d] # "written")
    BY <1>c, NoneAssumption DEF LockInv, IInv
  <2> QED  BY <2>1, <2>2, <1>c DEF LockInv
<1>2. WaitersOrdered'
  <2>1. \A i \in 1..Len(waiters) : waiters[i] \in Nat /\ waiters[i] < sent
    BY <1>c, Types DEF WaitersOrdered, IInv
  <2>2. \A i, j \in 1..Len(waiters) : i < j => waiters[i] < waiters[j]
    BY DEF WaitersOrdered, IInv
  <2>3. \A i \in 1..Len(waiters') : waiters'[i] <= sent
    BY <2>1, <1>a, <1>s
  <2>4. \A i, j \in 1..Len(waiters') : i < j => waiters'[i] < waiters'[j]
    BY <2>1, <2>2, <1>a, <1>s
  <2> QED  BY <2>3, <2>4, <1>c DEF WaitersOrdered
<1>3. \A x : Awaited(x)' <=> Awaited(x)
  BY <1>s, <1>c, <1>a DEF Awaited
<1>4. AnswerInv'
  BY SMTT(20), <1>s, <1>c, <1>a, Types DEF AnswerInv, OldestFirst, IInv
<1> QED  BY <1>1, <1>2, <1>3, <1>4

\* shutdownTor: a command that nobody awaits.
LEMMA ShutdownOrder ==
  ASSUME IInv, ShutdownTor
  PROVE  /\ LockInv' /\ WaitersOrdered' /\ AnswerInv'
         /\ lock = None /\ sent' = sent + 1
         /\ \A x : Awaited(x)' <=> Awaited(x)
<1>s. sent \in Nat /\ Len(waiters) \in Nat
  BY Types DEF IInv
<1>c. /\ sent' = sent + 1 /\ lock = None
      /\ UNCHANGED <<pc, lock, waiterOf, waiters, responses>>
  BY DEF ShutdownTor, caller
<1>1. LockInv'
  BY <1>c DEF LockInv, IInv
<1>2. WaitersOrdered'
  BY <1>s, <1>c, Types DEF WaitersOrdered, IInv
<1>3. AnswerInv'
  BY <1>c, <1>s, Types DEF AnswerInv, OldestFirst, IInv
<1>4. \A x : Awaited(x)' <=> Awaited(x)
  BY <1>c DEF Awaited
<1> QED  BY <1>1, <1>2, <1>3, <1>4, <1>c

\* What a reply handed over does to the list and to the responses.
Answered(new) ==
  /\ waiters # <<>> /\ responses' = responses \cup {new}
  /\ new.waiter = Head(waiters)
  /\ Head(waiters) = waiters[1] /\ 1 \in 1..Len(waiters)
  /\ Len(waiters') = Len(waiters) - 1
  /\ \A i \in 1..Len(waiters') : i + 1 \in 1..Len(waiters) /\ waiters'[i] = waiters[i + 1]
  /\ \A i \in 2..Len(waiters) : i - 1 \in 1..Len(waiters') /\ waiters[i] = waiters'[i - 1]

LEMMA HandedOver ==
  ASSUME TypeOK, NEW p, HandOver(p)
  PROVE  /\ lock = None /\ UNCHANGED <<pc, lock, waiterOf, sent, toTor, fromTor, tor>>
         /\ \/ UNCHANGED <<waiters, responses>> /\ waiters = <<>>
            \/ Answered(Given(Head(waiters), parsers[p].line))
<1>1. lock = None /\ UNCHANGED <<pc, lock, waiterOf, sent, toTor, fromTor, tor>>
  BY DEF HandOver, caller, wire
<1>2. CASE waiters = <<>>
  BY <1>1, <1>2 DEF HandOver
<1>3. CASE waiters # <<>>
  <2> DEFINE new == Given(Head(waiters), parsers[p].line)
  <2>1. waiters' = Tail(waiters) /\ responses' = responses \cup {new}
    BY <1>3 DEF HandOver
  <2>2. new.waiter = Head(waiters)
    BY DEF Given
  <2>3. /\ Head(waiters) = waiters[1] /\ 1 \in 1..Len(waiters)
        /\ Len(waiters') = Len(waiters) - 1
        /\ \A i \in 1..Len(waiters') : i + 1 \in 1..Len(waiters)
                                       /\ waiters'[i] = waiters[i + 1]
        /\ Len(waiters) \in Nat
    BY <1>3, <2>1, Taken DEF TypeOK
  <2>4. \A i \in 2..Len(waiters) : i - 1 \in 1..Len(waiters')
                                   /\ waiters[i] = waiters'[i - 1]
    BY <2>3
  <2> HIDE DEF new
  <2>5. Answered(new)
    BY <1>3, <2>1, <2>2, <2>3, <2>4 DEF Answered
  <2> QED  BY <1>1, <2>5 DEF new
<1> QED  BY <1>2, <1>3

\* The oldest waiter leaves the list, whatever it is given.
LEMMA AnswerOrder ==
  ASSUME IInv, lock = None, NEW STATE new, Answered(new), UNCHANGED <<pc, lock, waiterOf, sent>>
  PROVE  /\ LockInv' /\ WaitersOrdered' /\ AnswerInv'
         /\ \A x \in Nat : Awaited(x)' <=> Awaited(x) /\ x # waiters[1]
<1>s. Len(waiters) \in Nat /\ sent \in Nat /\ 1 \in 1..Len(waiters) /\ waiters # <<>>
  BY Types DEF IInv, Answered
<1>w. /\ \A i \in 1..Len(waiters') : i + 1 \in 1..Len(waiters)
                                     /\ waiters'[i] = waiters[i + 1]
      /\ \A i \in 2..Len(waiters) : i - 1 \in 1..Len(waiters')
                                     /\ waiters[i] = waiters'[i - 1]
      /\ Len(waiters') = Len(waiters) - 1
      /\ new.waiter = waiters[1] /\ responses' = responses \cup {new}
  BY DEF Answered
<1>1. LockInv'
  BY DEF LockInv, IInv
<1>2. WaitersOrdered'
  <2>1. \A i \in 1..Len(waiters') : waiters'[i] <= sent
    BY <1>w DEF WaitersOrdered, IInv
  <2>2. \A i, j \in 1..Len(waiters') : i < j => waiters'[i] < waiters'[j]
    BY <1>w, <1>s DEF WaitersOrdered, IInv
  <2> QED  BY <2>1, <2>2 DEF WaitersOrdered
<1>3. AnswerInv'
  <2>1. \A r \in responses' : r \in responses \/ r = new
    BY <1>w
  <2>2. \A r \in responses : r.waiter < new.waiter /\ r.waiter \in Nat
    BY <1>w, <1>s, Types DEF AnswerInv, OldestFirst, IInv
  <2>3. new.waiter \in Nat /\ new.waiter <= sent
    BY <1>w, <1>s, Types DEF WaitersOrdered, IInv
  <2>4. ASSUME NEW i \in 1..Len(waiters')
        PROVE  new.waiter < waiters'[i] /\ waiters'[i] \in Nat
    <3>1. i + 1 \in 1..Len(waiters) /\ waiters'[i] = waiters[i + 1] /\ 1 < i + 1
      BY <1>w, <1>s
    <3> QED  BY <3>1, <1>w, <1>s, Types DEF WaitersOrdered, IInv
  <2>5. OldestFirst'
    BY <2>1, <2>2, <2>3, <2>4 DEF OldestFirst
  <2>6. \A r, s \in responses' : r.waiter = s.waiter => r = s
    BY <2>1, <2>2, <2>3 DEF AnswerInv, IInv
  <2>7. \A r \in responses' : r.waiter <= sent'
    BY <2>1, <2>3 DEF AnswerInv, IInv
  <2> QED  BY <2>5, <2>6, <2>7 DEF AnswerInv
<1>4. ASSUME NEW x \in Nat PROVE Awaited(x)' <=> Awaited(x) /\ x # waiters[1]
  <2>1. Awaited(x)' => Awaited(x) /\ x # waiters[1]
    <3> SUFFICES ASSUME NEW i \in 1..Len(waiters'), waiters'[i] = x
                 PROVE  Awaited(x) /\ x # waiters[1]
      BY DEF Awaited
    <3>1. i + 1 \in 1..Len(waiters) /\ x = waiters[i + 1] /\ 1 < i + 1
      BY <1>w, <1>s
    <3> QED  BY <3>1, <1>s, Types DEF Awaited, WaitersOrdered, IInv
  <2>2. Awaited(x) /\ x # waiters[1] => Awaited(x)'
    <3> SUFFICES ASSUME NEW i \in 1..Len(waiters), waiters[i] = x, x # waiters[1]
                 PROVE  Awaited(x)'
      BY DEF Awaited
    <3>1. i \in 2..Len(waiters)
      BY <1>s
    <3>2. i - 1 \in 1..Len(waiters') /\ waiters'[i - 1] = x
      BY <3>1, <1>w
    <3> QED  BY <3>2 DEF Awaited
  <2> QED  BY <2>1, <2>2
<1> QED  BY <1>1, <1>2, <1>3, <1>4

-----------------------------------------------------------------------------
(* One parse thread: the queues of commands, replies and waiters stay       *)
(* lined up.                                                               *)

Core == CommandsOrdered /\ RepliesOrdered /\ MatchInv /\ HaltInv

Alone == IInv /\ ~ Doubled

LEMMA AloneFacts ==
  ASSUME Alone
  PROVE  /\ TypeOK /\ LockInv /\ WaitersOrdered /\ AnswerInv /\ Core
         /\ StreamInv /\ ParserInv
         /\ \A r \in responses : r.cmd = r.waiter \/ (r.halt /\ tor = "down")
         /\ Len(parsers) \in {0, 1} /\ (parsers = <<>> <=> Len(parsers) = 0)
<1>1. Len(parsers) \in Nat /\ (parsers = <<>> <=> Len(parsers) = 0)
  BY DEF Alone, IInv, TypeOK
<1>2. Len(parsers) \in {0, 1}
  <2>1. ~ (Len(parsers) > 1)
    BY DEF Alone, Doubled
  <2>2. \A n \in Nat : n > 1 \/ n \in {0, 1}
    OBVIOUS
  <2> QED  BY <1>1, <2>1, <2>2
<1> QED  BY <1>1, <1>2 DEF Alone, IInv, LinedUp, Core, ReplyMatches

\* A step that leaves the wire, the list and the responses alone.
LEMMA CoreQuiet ==
  ASSUME Alone, Same, UNCHANGED <<responses, sent, toTor, tor>>,
         \A x \in Nat : Awaited(x)' <=> Awaited(x)
  PROVE  Core' /\ ReplyMatches'
<1>s. sent \in Nat /\ Len(Unread) \in Nat
  BY AloneFacts, Types
<1>r. \A i : IsReply(i)' <=> IsReply(i)
  BY DEF Same, IsReply
<1>1. CommandsOrdered' /\ RepliesOrdered'
  BY <1>r, AloneFacts DEF Core, CommandsOrdered, RepliesOrdered, Same
<1>2. MatchInv'
  <2>1. ASSUME NEW x \in Nat PROVE Pending(x)' <=> Pending(x)
    BY <1>r DEF Pending, Same, IsReply
  <2> QED  BY <2>1, <1>s, AloneFacts DEF Core, MatchInv
<1>3. HaltInv'
  BY <1>s, AloneFacts DEF Core, HaltInv, Same
<1>4. ReplyMatches'
  BY AloneFacts DEF ReplyMatches
<1> QED  BY <1>1, <1>2, <1>3, <1>4 DEF Core

\* The next id is fresh while nobody is inside synchronized (waiters).
LEMMA FreshId ==
  ASSUME Alone, lock = None
  PROVE  ~ Awaited(sent + 1) /\ ~ Pending(sent + 1)
<1>1. ~ Awaited(sent + 1)
  BY AloneFacts, Types DEF Awaited, WaitersOrdered
<1>2. ~ Pending(sent + 1)
  BY AloneFacts, Types DEF Pending, IsReply, Core, CommandsOrdered, RepliesOrdered
<1> QED  BY <1>1, <1>2

\* A command put on the wire, to Tor or into the void, awaited or not.
LEMMA CoreCommand ==
  ASSUME Alone, NEW h \in BOOLEAN, lock = None, sent' = sent + 1, Same,
         UNCHANGED <<responses, tor>>,
         toTor' = IF tor = "up" THEN Append(toTor, [id |-> sent + 1, halt |-> h])
                                ELSE toTor,
         \A x \in Nat : Awaited(x)' <=> Awaited(x) \/ (~ h /\ x = sent + 1)
  PROVE  Core' /\ ReplyMatches'
<1>s. sent \in Nat /\ Len(toTor) \in Nat /\ toTor \in Seq(Command) /\ Len(Unread) \in Nat
  BY AloneFacts, Types DEF TypeOK
<1>r. \A i : IsReply(i)' <=> IsReply(i)
  BY DEF Same, IsReply
<1>t. /\ CommandsOrdered' /\ RepliesOrdered'
      /\ \A x \in Nat : Pending(x)' <=> Pending(x) \/ (tor = "up" /\ ~ h /\ x = sent + 1)
  <2>1. CASE tor # "up"
    BY <1>r, <2>1, <1>s, AloneFacts, Types
       DEF Core, CommandsOrdered, RepliesOrdered, Pending, IsReply, Same
  <2>2. CASE tor = "up"
    <3>1. [id |-> sent + 1, halt |-> h] \in Command
      BY <1>s DEF Command
    <3>2. /\ Len(toTor') = Len(toTor) + 1
          /\ \A i \in 1..Len(toTor) : toTor'[i] = toTor[i]
          /\ toTor'[Len(toTor) + 1].id = sent + 1
          /\ toTor'[Len(toTor) + 1].halt = h
      BY <2>2, <3>1, <1>s
    <3>3. CommandsOrdered'
      BY <3>2, <1>s, AloneFacts, Types DEF Core, CommandsOrdered
    <3>4. RepliesOrdered'
      <4>1. \A i \in 1..Len(Unread) :
              IsReply(i) => Unread[i].cmd \in Nat /\ Unread[i].cmd <= sent
        BY AloneFacts, Types DEF Core, RepliesOrdered
      <4>2. \A i \in 1..Len(Unread), j \in 1..Len(toTor') :
              IsReply(i) => Unread[i].cmd < toTor'[j].id
        BY <3>2, <4>1, <1>s, AloneFacts DEF Core, RepliesOrdered
      <4> QED  BY <4>1, <4>2, <1>s, <1>r, AloneFacts DEF Core, RepliesOrdered, Same
    <3>5. ASSUME NEW x \in Nat
          PROVE  Pending(x)' <=> Pending(x) \/ (~ h /\ x = sent + 1)
      <4>1. (\E i \in 1..Len(toTor') : ~ toTor'[i].halt /\ toTor'[i].id = x)
              <=> \/ \E i \in 1..Len(toTor) : ~ toTor[i].halt /\ toTor[i].id = x
                  \/ ~ h /\ x = sent + 1
        BY <3>2, <1>s
      <4> QED  BY <4>1, <1>r DEF Pending, Same, IsReply
    <3> QED  BY <2>2, <3>3, <3>4, <3>5
  <2> QED  BY <2>1, <2>2
<1>1. MatchInv'
  BY <1>t, <1>s, FreshId, AloneFacts DEF Core, MatchInv
<1>2. HaltInv'
  BY <1>s, AloneFacts, AloneFacts DEF Core, HaltInv, Same, TypeOK
<1>3. ReplyMatches'
  BY AloneFacts DEF ReplyMatches
<1> QED  BY <1>t, <1>1, <1>2, <1>3 DEF Core

\* The invariant at work: the oldest unread reply belongs to the oldest waiter,
\* because a younger owner would leave the oldest waiter awaiting in vain.
LEMMA HeadMatches ==
  ASSUME Alone, lock = None, Len(Unread) >= 1, Unread[1].kind = "end", ~ Unread[1].halt
  PROVE  waiters # <<>> /\ Head(waiters) = Unread[1].cmd
<1>1. waiters \in Seq(Nat) /\ 1 \in 1..Len(Unread)
  BY AloneFacts, Types DEF TypeOK
<1> DEFINE h == Unread[1].cmd
<1>2. IsReply(1) /\ Pending(h) /\ h \in 0..sent
  BY <1>1, AloneFacts, Types DEF IsReply, Pending, Core, RepliesOrdered
<1>3. PICK k \in 1..Len(waiters) : waiters[k] = h
  BY <1>2, AloneFacts DEF Core, MatchInv, Awaited
<1>4. waiters # <<>> /\ Head(waiters) = waiters[1] /\ 1 \in 1..Len(waiters)
  BY <1>1, <1>3
<1>5. ASSUME waiters[1] # h PROVE FALSE
  <2>1. waiters[1] < h /\ waiters[1] \in 0..sent
    BY <1>3, <1>4, <1>5, AloneFacts, Types DEF WaitersOrdered
  <2>2. Awaited(waiters[1])
    BY <1>4 DEF Awaited
  <2>3. Pending(waiters[1])
    BY <1>2, <2>1, <2>2, AloneFacts DEF Core, MatchInv
  <2>4. \A i \in 1..Len(Unread) : IsReply(i) => h <= Unread[i].cmd
    BY <1>1, <1>2, AloneFacts, Types DEF Core, RepliesOrdered
  <2>5. \A i \in 1..Len(toTor) : h < toTor[i].id
    BY <1>1, <1>2, AloneFacts, Types DEF Core, RepliesOrdered
  <2>6. \A i \in 1..Len(Unread) : IsReply(i) => Unread[i].cmd # waiters[1]
    BY <2>1, <2>4, <1>2, AloneFacts, Types
  <2>7. \A i \in 1..Len(toTor) : toTor[i].id # waiters[1]
    BY <2>1, <2>5, <1>2, AloneFacts, Types
  <2> QED  BY <2>3, <2>6, <2>7 DEF Pending
<1> QED  BY <1>1, <1>4, <1>5

\* The parse thread is done with the oldest unread line.
LEMMA LineTaken ==
  ASSUME Alone, Shifted, UNCHANGED <<sent, toTor, tor>>
  PROVE  /\ CommandsOrdered' /\ RepliesOrdered'
         /\ \A i \in 1..Len(Unread') : i + 1 \in 1..Len(Unread) /\ Unread'[i] = Unread[i + 1]
         /\ \A i \in 2..Len(Unread) : i - 1 \in 1..Len(Unread') /\ Unread[i] = Unread'[i - 1]
         /\ \A i \in 1..Len(Unread') : IsReply(i)' <=> IsReply(i + 1)
         /\ \A i \in 2..Len(Unread) : IsReply(i) <=> IsReply(i - 1)'
         /\ Len(Unread) \in Nat /\ 1 \in 1..Len(Unread) /\ Len(Unread') = Len(Unread) - 1
         /\ ((\A r \in responses' : ~ r.halt) => HaltInv')
<1>1. Len(Unread) \in Nat /\ 1 \in 1..Len(Unread) /\ Len(Unread') = Len(Unread) - 1
  BY AloneFacts, Types DEF Shifted
<1>2. \A i \in 1..Len(Unread') : i + 1 \in 1..Len(Unread) /\ Unread'[i] = Unread[i + 1]
  BY <1>1 DEF Shifted
<1>3. \A i \in 2..Len(Unread) : i - 1 \in 1..Len(Unread') /\ Unread[i] = Unread'[i - 1]
  BY <1>1, <1>2
<1>4. \A i \in 1..Len(Unread') : IsReply(i)' <=> IsReply(i + 1)
  BY <1>2 DEF IsReply
<1>5. \A i \in 2..Len(Unread) : IsReply(i) <=> IsReply(i - 1)'
  BY <1>3 DEF IsReply
<1>6. CommandsOrdered'
  BY AloneFacts DEF Core, CommandsOrdered
<1>7. RepliesOrdered'
  <2>1. \A i \in 1..Len(Unread') : IsReply(i)' => Unread'[i].cmd <= sent
    BY <1>2, <1>4, AloneFacts DEF Core, RepliesOrdered
  <2>2. ASSUME NEW i \in 1..Len(Unread'), NEW j \in 1..Len(Unread'),
               IsReply(i)', IsReply(j)', i < j
        PROVE  Unread'[i].cmd < Unread'[j].cmd
    <3>1. IsReply(i + 1) /\ IsReply(j + 1) /\ i + 1 < j + 1
      BY <2>2, <1>4
    <3> QED  BY <3>1, <1>2, AloneFacts DEF Core, RepliesOrdered
  <2>3. \A i \in 1..Len(Unread'), j \in 1..Len(toTor) :
          IsReply(i)' => Unread'[i].cmd < toTor[j].id
    BY <1>2, <1>4, AloneFacts DEF Core, RepliesOrdered
  <2> QED  BY <2>1, <2>2, <2>3 DEF RepliesOrdered
<1>8. ASSUME \A r \in responses' : ~ r.halt PROVE HaltInv'
  <2>1. ASSUME NEW i \in 1..Len(Unread'), Unread'[i].kind = "end", Unread'[i].halt
        PROVE  tor' = "down" /\ i = Len(Unread')
    <3>1. Unread[i + 1].kind = "end" /\ Unread[i + 1].halt /\ i + 1 \in 1..Len(Unread)
      BY <2>1, <1>2
    <3>2. tor = "down" /\ i + 1 = Len(Unread)
      BY <3>1, AloneFacts DEF Core, HaltInv
    <3> QED  BY <3>2, <1>1
  <2> QED  BY <1>8, <2>1, AloneFacts DEF Core, HaltInv
<1> QED  BY <1>1, <1>2, <1>3, <1>4, <1>5, <1>6, <1>7, <1>8

\* A line that ends no reply, or an event handled: the replies keep their order.
LEMMA CoreTaken ==
  ASSUME Alone, Shifted, Unread[1].kind # "end",
         UNCHANGED <<responses, sent, toTor, tor>>,
         \A x \in Nat : Awaited(x)' <=> Awaited(x)
  PROVE  Core' /\ ReplyMatches'
<1>s. Len(Unread) \in Nat /\ Len(Unread) >= 1 /\ sent \in Nat
  BY AloneFacts, Types DEF Shifted
<1>1. MatchInv'
  <2>1. ASSUME NEW x \in Nat PROVE Pending(x)' <=> Pending(x)
    <3>1. ASSUME Pending(x) PROVE Pending(x)'
      <4>1. CASE \E i \in 1..Len(toTor) : ~ toTor[i].halt /\ toTor[i].id = x
        BY <4>1 DEF Pending
      <4>2. ASSUME NEW i \in 1..Len(Unread), IsReply(i), ~ Unread[i].halt,
                   Unread[i].cmd = x
            PROVE  Pending(x)'
        <5>1. i \in 2..Len(Unread)
          BY <4>2, <1>s DEF IsReply
        <5> QED  BY <5>1, <4>2, LineTaken DEF Pending
      <4> QED  BY <4>1, <4>2, <3>1 DEF Pending
    <3>2. Pending(x)' => Pending(x)
      BY LineTaken DEF Pending
    <3> QED  BY <3>1, <3>2
  <2> QED  BY <2>1, <1>s, AloneFacts DEF Core, MatchInv
<1>2. HaltInv'
  <2>1. \A r \in responses' : ~ r.halt
    BY <1>s, AloneFacts DEF Core, HaltInv
  <2> QED  BY <2>1, LineTaken
<1>3. ReplyMatches'
  BY AloneFacts DEF ReplyMatches
<1> QED  BY <1>1, <1>2, <1>3, LineTaken DEF Core

\* Handing over a reply.  Either it is the reply to HALT, the last line there will
\* ever be, or it is the oldest waiter's own.
LEMMA CoreHandOver ==
  ASSUME Alone, NEW p, HandOver(p), Shifted, Unread[1] = parsers[p].line,
         Unread[1].kind = "end"
  PROVE  Core' /\ ReplyMatches'
<1>c. lock = None /\ UNCHANGED <<pc, lock, waiterOf, sent, toTor, fromTor, tor>>
  BY HandedOver, AloneFacts
<1>s. /\ Len(Unread) \in Nat /\ Len(Unread) >= 1 /\ 1 \in 1..Len(Unread)
      /\ sent \in Nat
  BY AloneFacts, Types DEF Shifted
<1>1. CASE Unread[1].halt
  <2>1. tor = "down" /\ toTor = <<>> /\ Len(Unread) = 1
    BY <1>1, <1>s, AloneFacts DEF Core, HaltInv
  <2>2. Len(Unread') = 0
    BY <2>1, <1>s DEF Shifted
  <2>3. MatchInv'
    <3>1. \A x \in 0..sent : ~ Pending(x)'
      BY <2>1, <2>2, <1>c DEF Pending
    <3> QED  BY <3>1, <2>1, <1>c DEF MatchInv
  <2>4. HaltInv'
    BY <2>1, <2>2, <1>c DEF HaltInv
  <2>5. ReplyMatches'
    <3>1. \A r \in responses' : r \in responses \/ r = Given(Head(waiters), parsers[p].line)
      BY HandedOver, AloneFacts DEF Answered
    <3>2. Given(Head(waiters), parsers[p].line).halt
      BY <1>1 DEF Given
    <3> QED  BY <2>1, <3>1, <3>2, <1>c, AloneFacts DEF ReplyMatches
  <2> QED  BY <1>c, <2>3, <2>4, <2>5, LineTaken DEF Core
<1>2. CASE ~ Unread[1].halt
  <2> DEFINE new == Given(Head(waiters), parsers[p].line)
  <2>1. waiters # <<>> /\ Head(waiters) = Unread[1].cmd
    BY <1>2, <1>c, <1>s, HeadMatches
  <2>a. Answered(new)
    BY <2>1, HandedOver, AloneFacts
  <2>n. new.waiter = waiters[1] /\ new.cmd = waiters[1] /\ ~ new.halt
    <3>1. new.cmd = Unread[1].cmd /\ new.halt = Unread[1].halt
      BY DEF Given
    <3> QED  BY <3>1, <2>1, <2>a, <1>2 DEF Answered
  <2>b. waiters[1] = Unread[1].cmd
    BY <2>1, <2>a DEF Answered
  <2> HIDE DEF new
  <2>w. \A x \in Nat : Awaited(x)' <=> Awaited(x) /\ x # waiters[1]
    BY <2>a, <1>c, AnswerOrder DEF Alone
  <2>2. ASSUME NEW x \in Nat PROVE Pending(x)' <=> Pending(x) /\ x # waiters[1]
    <3>1. Pending(x)' => Pending(x)
      BY LineTaken, <1>c DEF Pending
    <3>r. IsReply(1)
      BY <1>s DEF IsReply
    <3>2. Pending(x)' => x # waiters[1]
      <4>1. ASSUME NEW i \in 1..Len(Unread'), IsReply(i)' PROVE Unread'[i].cmd # waiters[1]
        <5>1. /\ i + 1 \in 1..Len(Unread) /\ Unread'[i] = Unread[i + 1]
              /\ IsReply(i + 1) /\ 1 < i + 1
          BY <4>1, <1>c, LineTaken
        <5>2. Unread[1].cmd < Unread[i + 1].cmd
          BY <5>1, <3>r, <1>s, AloneFacts DEF Core, RepliesOrdered
        <5> QED  BY <5>1, <5>2, <2>b, <1>s, AloneFacts, Types
      <4>2. \A i \in 1..Len(toTor) : toTor[i].id # waiters[1]
        BY <2>b, <3>r, <1>s, AloneFacts, Types DEF Core, RepliesOrdered
      <4> QED  BY <4>1, <4>2, <1>c DEF Pending
    <3>3. ASSUME Pending(x), x # waiters[1] PROVE Pending(x)'
      <4>1. CASE \E i \in 1..Len(toTor) : ~ toTor[i].halt /\ toTor[i].id = x
        BY <4>1, <1>c DEF Pending
      <4>2. ASSUME NEW i \in 1..Len(Unread), IsReply(i), ~ Unread[i].halt,
                   Unread[i].cmd = x
            PROVE  Pending(x)'
        <5>1. i \in 2..Len(Unread)
          BY <4>2, <3>3, <2>b, <1>s
        <5> QED  BY <5>1, <4>2, <1>c, LineTaken DEF Pending
      <4> QED  BY <4>1, <4>2, <3>3 DEF Pending
    <3> QED  BY <3>1, <3>2, <3>3
  <2>3. MatchInv'
    BY <2>w, <2>2, <1>c, <1>s, AloneFacts DEF Core, MatchInv
  <2>r. \A r \in responses' : r \in responses \/ r = new
    BY <2>a DEF Answered
  <2>4. HaltInv'
    <3>1. \A r \in responses : ~ r.halt
      BY <1>s, AloneFacts DEF Core, HaltInv
    <3>2. \A r \in responses' : ~ r.halt
      BY <3>1, <2>n, <2>r
    <3> QED  BY <3>2, <1>c, LineTaken
  <2>5. ReplyMatches'
    BY <2>n, <2>r, <1>c, AloneFacts DEF ReplyMatches
  <2> QED  BY <1>c, <2>3, <2>4, <2>5, LineTaken DEF Core
<1> QED  BY <1>1, <1>2

\* Tor writes lines none of which ends a reply: no reply and no command moves.
LEMMA CoreEmits ==
  ASSUME Alone, tor = "up", NEW ls \in Seq(Line), Grown(ls),
         \A i \in 1..Len(ls) : ls[i].kind # "end",
         UNCHANGED <<pc, lock, waiterOf, waiters, responses, sent, toTor, tor>>
  PROVE  Core' /\ ReplyMatches'
<1>s. Len(Unread) \in Nat /\ Len(ls) \in Nat /\ sent \in Nat
  BY AloneFacts, Types
<1>1. ASSUME NEW i \in 1..Len(Unread'), Unread'[i].kind = "end"
      PROVE  i \in 1..Len(Unread) /\ Unread'[i] = Unread[i] /\ IsReply(i)
  <2>1. i \in 1..Len(Unread)
    <3>1. ASSUME ~ (i \in 1..Len(Unread)) PROVE FALSE
      <4>1. i - Len(Unread) \in 1..Len(ls) /\ i = Len(Unread) + (i - Len(Unread))
        BY <3>1, <1>s DEF Grown
      <4> QED  BY <4>1, <1>1 DEF Grown
    <3> QED  BY <3>1
  <2> QED  BY <2>1, <1>1 DEF Grown, IsReply
<1>2. \A i \in 1..Len(Unread) : IsReply(i) => i \in 1..Len(Unread') /\ IsReply(i)'
  BY <1>s DEF Grown, IsReply
<1>3. CommandsOrdered' /\ RepliesOrdered'
  <2>1. CommandsOrdered'
    BY AloneFacts DEF Core, CommandsOrdered
  <2> QED  BY <2>1, <1>1, AloneFacts DEF Core, RepliesOrdered, IsReply
<1>4. MatchInv'
  <2>1. ASSUME NEW x \in 0..sent
        PROVE  (Awaited(x)' <=> Awaited(x)) /\ (Pending(x)' <=> Pending(x))
    <3>1. Awaited(x)' <=> Awaited(x)
      BY DEF Awaited
    <3>2. Pending(x)' => Pending(x)
      BY <1>1 DEF Pending, IsReply
    <3>3. Pending(x) => Pending(x)'
      BY <1>2 DEF Pending, Grown
    <3> QED  BY <3>1, <3>2, <3>3
  <2> QED  BY <2>1, AloneFacts DEF Core, MatchInv
<1>5. HaltInv'
  BY <1>1, AloneFacts DEF Core, HaltInv
<1>6. ReplyMatches'
  BY AloneFacts DEF ReplyMatches
<1> QED  BY <1>3, <1>4, <1>5, <1>6 DEF Core

\* A reply joins what is unread: q's, and its last line is the last of all.
Replied(q, h) ==
  /\ Len(Unread') \in Nat /\ Len(Unread') > Len(Unread)
  /\ \A i \in 1..Len(Unread) : /\ i \in 1..Len(Unread') /\ i < Len(Unread')
                               /\ Unread'[i] = Unread[i] /\ (IsReply(i)' <=> IsReply(i))
  /\ IsReply(Len(Unread))' /\ Len(Unread') \in 1..Len(Unread')
  /\ Unread'[Len(Unread')].cmd = q /\ Unread'[Len(Unread')].halt = h
  /\ \A i \in 1..Len(Unread') :
       Unread'[i].kind = "end" => i = Len(Unread') \/ i \in 1..Len(Unread)

LEMMA ReplyWritten ==
  ASSUME Alone, TypeOK', UNCHANGED parsers, NEW shape \in Shapes,
         NEW STATE command, command \in Command,
         fromTor' = fromTor \o Lines(shape, command)
  PROVE  Replied(command.id, command.halt)
<1>1. PICK ls \in Seq(Line) :
        /\ fromTor' = fromTor \o ls /\ Len(ls) = Len(shape) /\ Len(shape) \in {1, 2, 4}
        /\ \A i \in 1..Len(shape) : /\ ls[i].kind = shape[i] /\ ls[i].cmd = command.id
                                    /\ ls[i].halt = command.halt
                                    /\ (shape[i] = "end" <=> i = Len(shape))
  BY LinesTyped
<1>2. Grown(ls)
  BY <1>1, UnreadGrows, AloneFacts
<1>3. Len(Unread) \in Nat /\ Len(ls) \in {1, 2, 4}
  BY <1>1, AloneFacts, Types
<1>4. /\ Len(Unread') = Len(Unread) + Len(ls)
      /\ \A i \in 1..Len(Unread) : Unread'[i] = Unread[i]
      /\ \A i \in 1..Len(ls) : Unread'[Len(Unread) + i] = ls[i]
  BY <1>2 DEF Grown
<1>u. PICK u \in Nat : u = Len(Unread)
  BY <1>3
<1>l. PICK l \in {1, 2, 4} : l = Len(ls)
  BY <1>3
<1>v. Len(Unread') = u + l /\ l \in 1..l
  BY <1>4, <1>u, <1>l
<1>5. /\ Len(Unread') \in Nat /\ Len(Unread') > Len(Unread)
      /\ Len(Unread') \in 1..Len(Unread')
      /\ \A i \in 1..Len(Unread) : i \in 1..Len(Unread') /\ i < Len(Unread')
  BY <1>u, <1>v
<1>6. Unread'[Len(Unread')] = ls[Len(ls)] /\ Len(ls) \in 1..Len(ls)
  BY <1>4, <1>u, <1>v, <1>l
<1>7. ASSUME NEW i \in 1..Len(Unread'), Unread'[i].kind = "end"
      PROVE  i = Len(Unread') \/ i \in 1..Len(Unread)
  <2>1. ASSUME ~ (i \in 1..Len(Unread)) PROVE i = Len(Unread')
    <3>1. i - Len(Unread) \in 1..Len(ls) /\ i = Len(Unread) + (i - Len(Unread))
      BY <2>1, <1>3, <1>4
    <3>2. ls[i - Len(Unread)].kind = "end"
      BY <3>1, <1>4, <1>7
    <3>3. i - Len(Unread) = Len(ls)
      BY <3>1, <3>2, <1>1
    <3> QED  BY <3>1, <3>3, <1>4
  <2> QED  BY <2>1
<1>8. \A i \in 1..Len(Unread) : IsReply(i)' <=> IsReply(i)
  BY <1>4, <1>5 DEF IsReply
<1>9. IsReply(Len(Unread))' /\ Unread'[Len(Unread')].cmd = command.id
      /\ Unread'[Len(Unread')].halt = command.halt
  BY <1>1, <1>5, <1>6 DEF IsReply
<1> QED  BY <1>4, <1>5, <1>7, <1>8, <1>9 DEF Replied

\* Tor answers its oldest command: what was the oldest unread command is the
\* youngest unread reply.
LEMMA CoreAnswer ==
  ASSUME Alone, TypeOK', TorAnswers
  PROVE  Core' /\ ReplyMatches'
<1>c. /\ tor = "up" /\ toTor # <<>> /\ toTor' = Tail(toTor) /\ ~ toTor[1].halt
      /\ Head(toTor) = toTor[1] /\ toTor[1] \in Command /\ toTor \in Seq(Command)
      /\ UNCHANGED <<pc, lock, waiterOf, waiters, responses, sent, tor, parsers>>
  BY AloneFacts DEF TorAnswers, caller, TypeOK
<1>d. PICK q \in Nat : q = toTor[1].id
  BY <1>c DEF Command
<1>r. Replied(q, toTor[1].halt)
  <2>1. PICK shape \in Shapes : fromTor' = fromTor \o Lines(shape, toTor[1])
    BY <1>c DEF TorAnswers
  <2> QED  BY <2>1, <1>c, <1>d, ReplyWritten
<1>s. Len(Unread) \in Nat /\ sent \in Nat
  BY AloneFacts, Types
<1>q. /\ Len(toTor) \in Nat /\ 1 \in 1..Len(toTor)
      /\ Len(toTor') = Len(toTor) - 1
      /\ \A i \in 1..Len(toTor') : i + 1 \in 1..Len(toTor) /\ 1 < i + 1
                                   /\ toTor'[i] = toTor[i + 1]
  BY <1>c
<1>p. \A i \in 2..Len(toTor) : i - 1 \in 1..Len(toTor') /\ toTor[i] = toTor'[i - 1]
  BY <1>q
<1>2. CommandsOrdered'
  BY <1>c, <1>q, AloneFacts, Types DEF Core, CommandsOrdered
<1>3. q <= sent /\ \A i \in 1..Len(toTor') : q < toTor'[i].id /\ toTor'[i].id \in Nat
  BY <1>d, <1>q, AloneFacts, Types DEF Core, CommandsOrdered
<1>4. RepliesOrdered'
  <2>1. \A i \in 1..Len(Unread) : IsReply(i) => Unread[i].cmd < q /\ Unread[i].cmd \in Nat
    BY <1>d, <1>q, AloneFacts, Types DEF Core, RepliesOrdered
  <2>2. ASSUME NEW i \in 1..Len(Unread'), IsReply(i)'
        PROVE  \/ i \in 1..Len(Unread) /\ Unread'[i] = Unread[i] /\ IsReply(i)
                  /\ i < Len(Unread')
               \/ i = Len(Unread') /\ Unread'[i].cmd = q
    BY <2>2, <1>r DEF Replied, IsReply
  <2>3. \A i \in 1..Len(Unread') : IsReply(i)' => Unread'[i].cmd <= q
                                                  /\ Unread'[i].cmd \in Nat
    BY <2>1, <2>2, <1>d
  <2>4. ASSUME NEW i \in 1..Len(Unread'), NEW j \in 1..Len(Unread'),
               IsReply(i)', IsReply(j)', i < j
        PROVE  Unread'[i].cmd < Unread'[j].cmd
    <3>1. i \in 1..Len(Unread) /\ Unread'[i] = Unread[i] /\ IsReply(i)
      BY <2>2, <2>4, <1>r DEF Replied
    <3>2. CASE j = Len(Unread') /\ Unread'[j].cmd = q
      BY <3>1, <3>2, <2>1
    <3>3. CASE j \in 1..Len(Unread) /\ Unread'[j] = Unread[j] /\ IsReply(j)
      BY <3>1, <3>3, <2>4, AloneFacts DEF Core, RepliesOrdered
    <3> QED  BY <3>2, <3>3, <2>2, <2>4
  <2>5. \A i \in 1..Len(Unread') : IsReply(i)' => Unread'[i].cmd <= sent'
    BY <2>3, <1>3, <1>c, <1>s, <1>d
  <2>6. ASSUME NEW i \in 1..Len(Unread'), NEW j \in 1..Len(toTor'), IsReply(i)'
        PROVE  Unread'[i].cmd < toTor'[j].id
    BY <2>3, <2>6, <1>3, <1>d
  <2> QED  BY <2>4, <2>5, <2>6 DEF RepliesOrdered
<1>5. MatchInv'
  <2>1. ASSUME NEW x \in 0..sent
        PROVE  (Awaited(x)' <=> Awaited(x)) /\ (Pending(x)' <=> Pending(x))
    <3>1. Awaited(x)' <=> Awaited(x)
      BY <1>c DEF Awaited
    <3>2. Pending(q)
      BY <1>c, <1>d, <1>q DEF Pending
    <3>3. Pending(q)'
      <4>1. PICK n \in 1..Len(Unread') : n = Len(Unread')
        BY <1>r DEF Replied
      <4>2. IsReply(n)' /\ ~ Unread'[n].halt /\ Unread'[n].cmd = q
        BY <4>1, <1>r, <1>c DEF Replied, IsReply
      <4> QED  BY <4>2 DEF Pending
    <3>4. ASSUME x # q, Pending(x) PROVE Pending(x)'
      <4>1. ASSUME NEW i \in 1..Len(toTor), ~ toTor[i].halt, toTor[i].id = x
            PROVE  Pending(x)'
        <5>1. i \in 2..Len(toTor)
          BY <3>4, <4>1, <1>d, <1>q
        <5> QED  BY <5>1, <4>1, <1>p DEF Pending
      <4>2. ASSUME NEW i \in 1..Len(Unread), IsReply(i), ~ Unread[i].halt,
                   Unread[i].cmd = x
            PROVE  Pending(x)'
        BY <4>2, <1>r DEF Pending, Replied
      <4> QED  BY <3>4, <4>1, <4>2 DEF Pending
    <3>5. ASSUME x # q, Pending(x)' PROVE Pending(x)
      <4>1. ASSUME NEW i \in 1..Len(toTor'), ~ toTor'[i].halt, toTor'[i].id = x
            PROVE  Pending(x)
        BY <4>1, <1>q DEF Pending
      <4>2. ASSUME NEW i \in 1..Len(Unread'), IsReply(i)', Unread'[i].cmd = x,
                   ~ Unread'[i].halt
            PROVE  Pending(x)
        <5>1. i \in 1..Len(Unread)
          BY <3>5, <4>2, <1>r DEF Replied, IsReply
        <5> QED  BY <5>1, <4>2, <1>r DEF Pending, Replied
      <4> QED  BY <3>5, <4>1, <4>2 DEF Pending
    <3> QED  BY <3>1, <3>2, <3>3, <3>4, <3>5
  <2> QED  BY <2>1, <1>c, AloneFacts DEF Core, MatchInv
<1>6. HaltInv'
  <2>1. \A i \in 1..Len(Unread) : Unread[i].kind = "end" => ~ Unread[i].halt
    BY <1>c, AloneFacts DEF Core, HaltInv
  <2>2. \A i \in 1..Len(Unread') : Unread'[i].kind = "end" => ~ Unread'[i].halt
    BY <2>1, <1>r, <1>c DEF Replied
  <2> QED  BY <2>2, <1>c, AloneFacts DEF Core, HaltInv
<1>7. ReplyMatches'
  BY <1>c, AloneFacts DEF ReplyMatches
<1> QED  BY <1>2, <1>4, <1>5, <1>6, <1>7 DEF Core

\* Tor obeys HALT: its reply is the last line.
LEMMA CoreHalt ==
  ASSUME Alone, TypeOK', TorHalts
  PROVE  Core' /\ ReplyMatches'
<1>c. /\ tor = "up" /\ tor' = "down" /\ toTor # <<>> /\ toTor' = <<>>
      /\ Head(toTor) = toTor[1] /\ 1 \in 1..Len(toTor) /\ toTor[1].halt
      /\ toTor[1] \in Command /\ toTor \in Seq(Command)
      /\ UNCHANGED <<pc, lock, waiterOf, waiters, responses, sent, parsers>>
  BY AloneFacts DEF TorHalts, caller, TypeOK
<1>d. PICK q \in Nat : q = toTor[1].id
  BY <1>c DEF Command
<1>r. Replied(q, toTor[1].halt)
  <2>1. <<"end">> \in Shapes /\ fromTor' = fromTor \o Lines(<<"end">>, toTor[1])
    BY <1>c DEF TorHalts, Shapes
  <2> QED  BY <2>1, <1>c, <1>d, ReplyWritten
<1>s. Len(Unread) \in Nat /\ sent \in Nat
  BY AloneFacts, Types
<1>2. CommandsOrdered'
  BY <1>c DEF CommandsOrdered
<1>3. \A r \in responses : ~ r.halt
  BY <1>c, AloneFacts DEF Core, HaltInv
<1>4. ReplyMatches'
  BY <1>c, <1>3, AloneFacts DEF ReplyMatches
<1>5. RepliesOrdered'
  <2>1. \A i \in 1..Len(Unread) : IsReply(i) => Unread[i].cmd < q
    BY <1>c, <1>d, AloneFacts DEF Core, RepliesOrdered
  <2>2. ASSUME NEW i \in 1..Len(Unread'), IsReply(i)'
        PROVE  \/ i \in 1..Len(Unread) /\ Unread'[i] = Unread[i] /\ IsReply(i)
                  /\ i < Len(Unread')
               \/ i = Len(Unread') /\ Unread'[i].cmd = q
    BY <2>2, <1>r DEF Replied, IsReply
  <2>3. ASSUME NEW i \in 1..Len(Unread'), NEW j \in 1..Len(Unread'),
               IsReply(i)', IsReply(j)', i < j
        PROVE  Unread'[i].cmd < Unread'[j].cmd
    <3>1. i \in 1..Len(Unread) /\ Unread'[i] = Unread[i] /\ IsReply(i)
      BY <2>2, <2>3, <1>r DEF Replied
    <3>2. CASE j = Len(Unread') /\ Unread'[j].cmd = q
      BY <3>1, <3>2, <2>1
    <3>3. CASE j \in 1..Len(Unread) /\ Unread'[j] = Unread[j] /\ IsReply(j)
      BY <3>1, <3>3, <2>3, AloneFacts DEF Core, RepliesOrdered
    <3> QED  BY <3>2, <3>3, <2>2, <2>3
  <2>4. q <= sent
    BY <1>c, <1>d, AloneFacts DEF Core, CommandsOrdered
  <2>5. \A i \in 1..Len(Unread') : IsReply(i)' => Unread'[i].cmd <= sent'
    BY <2>2, <2>4, <1>c, AloneFacts DEF Core, RepliesOrdered
  <2> QED  BY <2>3, <2>5, <1>c DEF RepliesOrdered
<1>6. MatchInv'
  <2>1. ASSUME NEW x \in 0..sent PROVE Awaited(x)' <=> Awaited(x)
    BY <1>c DEF Awaited
  <2>2. ASSUME NEW x \in 0..sent
        PROVE  Pending(x)' <=> \E i \in 1..Len(Unread) :
                                 IsReply(i) /\ ~ Unread[i].halt /\ Unread[i].cmd = x
    <3>1. ASSUME Pending(x)'
          PROVE  \E i \in 1..Len(Unread) :
                   IsReply(i) /\ ~ Unread[i].halt /\ Unread[i].cmd = x
      <4>1. PICK i \in 1..Len(Unread') :
              IsReply(i)' /\ ~ Unread'[i].halt /\ Unread'[i].cmd = x
        BY <3>1, <1>c DEF Pending
      <4>2. i \in 1..Len(Unread)
        BY <4>1, <1>r, <1>c DEF Replied, IsReply
      <4> QED  BY <4>1, <4>2, <1>r DEF Replied
    <3>2. ASSUME NEW i \in 1..Len(Unread), IsReply(i), ~ Unread[i].halt,
                 Unread[i].cmd = x
          PROVE  Pending(x)'
      BY <3>2, <1>r DEF Pending, Replied
    <3> QED  BY <3>1, <3>2
  <2>3. ASSUME NEW x \in 0..sent, NEW y \in 0..sent, Awaited(x), Pending(y)', x < y
        PROVE  Pending(x)'
    <3>1. PICK i \in 1..Len(Unread) :
            IsReply(i) /\ ~ Unread[i].halt /\ Unread[i].cmd = y
      BY <2>2, <2>3
    <3>2. Pending(y)
      BY <3>1 DEF Pending
    <3>3. Pending(x)
      BY <2>3, <3>2, AloneFacts DEF Core, MatchInv
    <3>4. \A j \in 1..Len(toTor) : y < toTor[j].id
      BY <3>1, AloneFacts DEF Core, RepliesOrdered
    <3>5. \A j \in 1..Len(toTor) : toTor[j].id # x
      BY <3>4, <2>3, AloneFacts, Types
    <3> QED  BY <2>2, <3>3, <3>5 DEF Pending
  <2>4. ASSUME NEW x \in 0..sent, Pending(x)' PROVE Pending(x)
    BY <2>2, <2>4 DEF Pending
  <2> QED  BY <2>1, <2>3, <2>4, <1>c, AloneFacts DEF Core, MatchInv
<1>7. HaltInv'
  <2>1. \A i \in 1..Len(Unread) : Unread[i].kind = "end" => ~ Unread[i].halt
    BY <1>c, AloneFacts DEF Core, HaltInv
  <2>2. \A i \in 1..Len(Unread') :
          Unread'[i].kind = "end" /\ Unread'[i].halt => i = Len(Unread')
    BY <2>1, <1>r DEF Replied
  <2> QED  BY <2>2, <1>3, <1>c DEF HaltInv
<1> QED  BY <1>2, <1>4, <1>5, <1>6, <1>7 DEF Core

\* Tor dies: a prefix of the unread lines survives, with the stub of one perhaps, and
\* its replies belong to the oldest waiters as all of them did.
LEMMA CoreDie ==
  ASSUME Alone, tor = "up", tor' = "down", toTor' = <<>>,
         UNCHANGED <<pc, lock, waiterOf, waiters, responses, sent>>,
         NEW n \in Nat, n <= Len(Unread),
         \A i \in 1..Len(Unread') : IsReply(i)' => i \in 1..n,
         \A i \in 1..n : i \in 1..Len(Unread') /\ Unread'[i] = Unread[i]
  PROVE  Core' /\ ReplyMatches'
<1>s. Len(Unread) \in Nat
  BY AloneFacts, Types
<1>r. /\ \A i \in 1..Len(Unread') :
           IsReply(i)' => i \in 1..Len(Unread) /\ Unread'[i] = Unread[i] /\ IsReply(i)
      /\ \A i \in 1..n : i \in 1..Len(Unread) /\ (IsReply(i)' <=> IsReply(i))
  BY <1>s DEF IsReply
<1>2. CommandsOrdered' /\ RepliesOrdered'
  <2>1. CommandsOrdered'
    BY DEF CommandsOrdered
  <2> QED  BY <2>1, <1>r, AloneFacts DEF Core, RepliesOrdered
<1>3. \A i \in 1..Len(Unread) : Unread[i].kind = "end" => ~ Unread[i].halt
  BY AloneFacts DEF Core, HaltInv
<1>4. \A r \in responses : ~ r.halt
  BY AloneFacts DEF Core, HaltInv
<1>5. ReplyMatches'
  BY <1>4, AloneFacts DEF ReplyMatches
<1>6. HaltInv'
  <2>1. \A i \in 1..Len(Unread') : Unread'[i].kind = "end" => ~ Unread'[i].halt
    BY <1>3, <1>r DEF IsReply
  <2> QED  BY <2>1, <1>4 DEF HaltInv
<1>7. MatchInv'
  <2>1. ASSUME NEW x \in 0..sent PROVE Awaited(x)' <=> Awaited(x)
    BY DEF Awaited
  <2>2. ASSUME NEW x \in 0..sent, Pending(x)' PROVE Pending(x)
    BY <2>2, <1>r DEF Pending
  <2>3. ASSUME NEW x \in 0..sent, NEW y \in 0..sent, Awaited(x), Pending(y)', x < y
        PROVE  Pending(x)'
    <3>1. PICK j \in 1..n : IsReply(j) /\ Unread[j].cmd = y
      BY <2>3, <1>r DEF Pending
    <3>2. Pending(x)
      BY <2>2, <2>3, AloneFacts DEF Core, MatchInv
    <3>3. \A k \in 1..Len(toTor) : toTor[k].id # x
      BY <3>1, <2>3, <1>r, AloneFacts, Types DEF Core, RepliesOrdered
    <3>4. PICK i \in 1..Len(Unread) : IsReply(i) /\ Unread[i].cmd = x /\ ~ Unread[i].halt
      BY <3>2, <3>3 DEF Pending
    <3>5. ~ (j < i) /\ i # j
      BY <3>1, <3>4, <2>3, <1>r, AloneFacts, Types DEF Core, RepliesOrdered
    <3>6. i \in 1..n
      BY <3>1, <3>4, <3>5, <1>s
    <3> QED  BY <3>4, <3>6, <1>r DEF Pending
  <2> QED  BY <2>1, <2>2, <2>3, AloneFacts DEF Core, MatchInv
<1> QED  BY <1>2, <1>5, <1>6, <1>7 DEF Core

-----------------------------------------------------------------------------
(* One parse thread: it is where the stream is.                            *)

LEMMA StreamSame ==
  ASSUME StreamInv, UNCHANGED <<fromTor, tor>>, Mode' = Mode
  PROVE  StreamInv'
<1>1. \A i : ModeAt(i)' = ModeAt(i)
  BY DEF ModeAt
<1> QED  BY <1>1 DEF StreamInv

\* A line is read, and the thread goes where it leads.
LEMMA StreamRead ==
  ASSUME Alone, fromTor # <<>>, fromTor' = Tail(fromTor), tor' = tor,
         Mode' = After(fromTor[1].kind) \/ fromTor[1].kind = "stub"
  PROVE  StreamInv'
<1>1. /\ Len(fromTor) \in Nat /\ 1 \in 1..Len(fromTor) /\ Len(fromTor') = Len(fromTor) - 1
      /\ \A i \in 1..Len(fromTor') : i + 1 \in 1..Len(fromTor)
                                     /\ fromTor'[i] = fromTor[i + 1]
  BY AloneFacts, Taken DEF TypeOK
<1>2. CASE fromTor[1].kind = "stub"
  <2>1. tor = "down" /\ Len(fromTor) = 1
    BY <1>1, <1>2, AloneFacts DEF StreamInv
  <2> QED  BY <1>1, <2>1 DEF StreamInv
<1>3. CASE Mode' = After(fromTor[1].kind)
  <2>1. ASSUME NEW i \in 1..(Len(fromTor') + 1) PROVE ModeAt(i)' = ModeAt(i + 1)
    <3>1. CASE i = 1
      BY <1>3, <3>1 DEF ModeAt
    <3>2. CASE i # 1
      <4>1. i - 1 \in 1..Len(fromTor') /\ i + 1 # 1 /\ (i + 1) - 1 = i /\ (i - 1) + 1 = i
        BY <1>1, <3>2
      <4>2. fromTor'[i - 1] = fromTor[i]
        BY <1>1, <4>1
      <4> QED  BY <3>2, <4>1, <4>2 DEF ModeAt
    <3> QED  BY <3>1, <3>2
  <2>l. PICK l \in Nat : Len(fromTor) = l + 1 /\ Len(fromTor') = l
    <3>1. \A k \in Nat : 1 \in 1..k => k - 1 \in Nat /\ k = (k - 1) + 1
      OBVIOUS
    <3> QED  BY <3>1, <1>1
  <2>2. ASSUME NEW i \in 1..Len(fromTor')
        PROVE  fromTor'[i].kind \in Expected(ModeAt(i)')
    <3>1. i + 1 \in 1..Len(fromTor) /\ fromTor'[i] = fromTor[i + 1]
      BY <1>1
    <3>2. ModeAt(i)' = ModeAt(i + 1)
      BY <2>1, <2>l
    <3>3. fromTor[i + 1].kind \in Expected(ModeAt(i + 1))
      BY <3>1, AloneFacts DEF StreamInv
    <3> QED  BY <3>1, <3>2, <3>3
  <2>3. ASSUME NEW i \in 1..Len(fromTor'), fromTor'[i].kind = "stub"
        PROVE  tor' = "down" /\ i = Len(fromTor')
    <3>1. i + 1 \in 1..Len(fromTor) /\ fromTor[i + 1].kind = "stub"
      BY <1>1, <2>3
    <3>2. tor = "down" /\ i + 1 = Len(fromTor)
      BY <3>1, AloneFacts DEF StreamInv
    <3> QED  BY <3>2, <2>l
  <2>4. tor' = "up" => ModeAt(Len(fromTor) + 1)' = "idle"
    <3>1. PICK m \in 1..(Len(fromTor') + 1) : m = Len(fromTor') + 1 /\ m + 1 = Len(fromTor) + 1
      BY <2>l
    <3>2. ModeAt(m)' = ModeAt(m + 1)
      BY <2>1
    <3>3. ModeAt(Len(fromTor) + 1)' = ModeAt(m)'
      BY <3>1 DEF ModeAt
    <3> QED  BY <3>1, <3>2, <3>3, AloneFacts DEF StreamInv
  <2>5. \A i : Expected(ModeAt(i))' = Expected(ModeAt(i)')
    BY DEF Expected
  <2> QED  BY <2>2, <2>3, <2>4, <2>5 DEF StreamInv
<1> QED  BY <1>2, <1>3

\* Tor writes a whole reply or event.
LEMMA StreamGrows ==
  ASSUME Alone, tor = "up", UNCHANGED parsers, NEW ls \in Seq(Line),
         fromTor' = fromTor \o ls, Len(ls) >= 1,
         ls[1].kind \in Expected("idle"),
         \A i \in 2..Len(ls) : ls[i].kind \in Expected(After(ls[i - 1].kind)),
         \A i \in 1..Len(ls) : ls[i].kind # "stub",
         After(ls[Len(ls)].kind) = "idle"
  PROVE  StreamInv'
<1>1. /\ Len(fromTor) \in Nat /\ Len(ls) \in Nat
      /\ Len(fromTor') = Len(fromTor) + Len(ls)
      /\ \A i \in 1..Len(fromTor) : fromTor'[i] = fromTor[i]
      /\ \A i \in 1..Len(ls) : fromTor'[Len(fromTor) + i] = ls[i]
  <2>1. fromTor \in Seq(Line)
    BY AloneFacts DEF TypeOK
  <2>2. Len(fromTor) \in Nat /\ Len(ls) \in Nat
    BY <2>1
  <2> QED  BY <2>1, <2>2, Joint
<1>2. PICK f \in Nat, l \in Nat : f = Len(fromTor) /\ l = Len(ls) /\ l >= 1
  BY <1>1
<1>m. Mode' = Mode
  BY DEF Mode
<1>3. ASSUME NEW i \in 1..(f + 1) PROVE ModeAt(i)' = ModeAt(i)
  <2>1. CASE i = 1
    BY <2>1, <1>m DEF ModeAt
  <2>2. CASE i # 1
    <3>1. i - 1 \in 1..Len(fromTor)
      BY <2>2, <1>2
    <3> QED  BY <2>2, <3>1, <1>1 DEF ModeAt
  <2> QED  BY <2>1, <2>2
<1>4. ASSUME NEW i \in 1..(l + 1), i # 1 PROVE ModeAt(f + i)' = After(ls[i - 1].kind)
  <2>1. i - 1 \in 1..Len(ls) /\ f + i # 1 /\ (f + i) - 1 = f + (i - 1)
    BY <1>2, <1>4
  <2>2. fromTor'[f + (i - 1)] = ls[i - 1]
    BY <2>1, <1>1, <1>2
  <2> QED  BY <2>1, <2>2 DEF ModeAt
<1>5. ModeAt(f + 1) = "idle"
  BY <1>2, AloneFacts DEF StreamInv
<1>6. ASSUME NEW i \in 1..Len(fromTor')
      PROVE  fromTor'[i].kind \in Expected(ModeAt(i)') /\ fromTor'[i].kind # "stub"
  <2>1. CASE i \in 1..f
    <3>1. fromTor'[i] = fromTor[i] /\ ModeAt(i)' = ModeAt(i) /\ i \in 1..Len(fromTor)
      BY <2>1, <1>1, <1>2, <1>3
    <3> QED  BY <3>1, AloneFacts DEF StreamInv
  <2>2. CASE ~ (i \in 1..f)
    <3>1. PICK j \in 1..l : i = f + j
      <4>1. i - f \in 1..l /\ i = f + (i - f)
        BY <2>2, <1>1, <1>2
      <4> QED  BY <4>1
    <3>2. fromTor'[i] = ls[j]
      BY <3>1, <1>1, <1>2
    <3>3. CASE j = 1
      BY <3>1, <3>2, <3>3, <1>2, <1>3, <1>5
    <3>4. CASE j # 1
      <4>1. ModeAt(i)' = After(ls[j - 1].kind) /\ j \in 2..Len(ls)
        BY <3>1, <3>4, <1>2, <1>4
      <4> QED  BY <3>2, <4>1
    <3> QED  BY <3>3, <3>4
  <2> QED  BY <2>1, <2>2
<1>7. ModeAt(Len(fromTor) + 1)' = "idle"
  <2>1. ModeAt(f + (l + 1))' = After(ls[(l + 1) - 1].kind) /\ (l + 1) - 1 = l
    BY <1>2, <1>4
  <2>2. ModeAt(Len(fromTor) + 1)' = ModeAt(f + (l + 1))'
    <3>1. Len(fromTor') + 1 = f + (l + 1)
      BY <1>1, <1>2
    <3> QED  BY <3>1 DEF ModeAt
  <2> QED  BY <2>1, <2>2, <1>2
<1>8. \A i : Expected(ModeAt(i))' = Expected(ModeAt(i)')
  BY DEF Expected
<1> QED  BY <1>6, <1>7, <1>8 DEF StreamInv

\* Tor's death cuts the stream.
LEMMA StreamCut ==
  ASSUME Alone, UNCHANGED parsers, tor' = "down", NEW n \in Nat,
         Len(fromTor') \in Nat, n <= Len(fromTor), n <= Len(fromTor'), Len(fromTor') <= n + 1,
         \A i \in 1..n : fromTor'[i] = fromTor[i],
         \A i \in 1..Len(fromTor') : i > n => fromTor'[i].kind = "stub",
         tor = "up"
  PROVE  StreamInv'
<1>1. Len(fromTor) \in Nat
  BY AloneFacts DEF TypeOK
<1>m. Mode' = Mode
  BY DEF Mode
<1>2. ASSUME NEW i \in 1..n PROVE fromTor'[i].kind \in Expected(ModeAt(i)')
                                  /\ fromTor'[i].kind # "stub"
  <2>1. ModeAt(i)' = ModeAt(i)
    <3>1. CASE i = 1
      BY <3>1, <1>m DEF ModeAt
    <3>2. CASE i # 1
      <4>1. i - 1 \in 1..n
        BY <3>2
      <4> QED  BY <3>2, <4>1 DEF ModeAt
    <3> QED  BY <3>1, <3>2
  <2> QED  BY <2>1, <1>1, AloneFacts DEF StreamInv
<1>3. ASSUME NEW i \in 1..Len(fromTor'), i > n
      PROVE  fromTor'[i].kind \in Expected(ModeAt(i)') /\ i = Len(fromTor')
  BY <1>3 DEF Expected
<1>4. \A i : Expected(ModeAt(i))' = Expected(ModeAt(i)')
  BY DEF Expected
<1>5. \A i \in 1..Len(fromTor') : i \in 1..n \/ i > n
  OBVIOUS
<1> QED  BY <1>2, <1>3, <1>4, <1>5 DEF StreamInv

-----------------------------------------------------------------------------
(* One parse thread: every step but the launch of a second one.            *)

Lined == LinedUp' /\ ReplyMatches'

LEMMA Assembled ==
  ASSUME Core', ReplyMatches', StreamInv', ParserInv'
  PROVE  Lined
  BY DEF Lined, LinedUp, Core

LEMMA ParsersKept ==
  ASSUME Alone, UNCHANGED <<parsers, fromTor, tor>>
  PROVE  Same /\ StreamInv' /\ ParserInv'
<1>1. Same
  BY DEF Same, Unread
<1>2. Mode' = Mode
  BY DEF Mode
<1> QED  BY <1>1, <1>2, StreamSame, AloneFacts DEF ParserInv

LEMMA FirstParser ==
  ASSUME Alone, TypeOK', parsers = <<>>, parsers' = <<Fresh>>, UNCHANGED <<fromTor, tor>>
  PROVE  Same /\ StreamInv' /\ ParserInv'
<1>1. Len(parsers) = 0 /\ Len(parsers') = 1 /\ parsers'[1].at = "idle"
  BY DEF Fresh
<1>2. Same
  BY <1>1, UnreadSame, AloneFacts DEF Full
<1>3. Mode' = Mode
  BY <1>1 DEF Mode
<1>4. ParserInv'
  BY <1>1 DEF ParserInv
<1> QED  BY <1>2, <1>3, <1>4, StreamSame, AloneFacts

LEMMA CallerStep ==
  ASSUME Alone, TypeOK', NEW c \in Callers,
         Enter(c) \/ WriteFails(c) \/ Return(c) \/ Interrupt(c)
  PROVE  Lined
<1>1. Same /\ StreamInv' /\ ParserInv'
  <2>1. CASE parsers' = parsers
    BY <2>1, CallerOutside, ParsersKept, AloneFacts
  <2>2. CASE parsers' # parsers
    <3>1. parsers = <<>> /\ parsers' = <<Fresh>>
      BY <2>2, CallerOutside, AloneFacts DEF Enter
    <3> QED  BY <3>1, CallerOutside, FirstParser, AloneFacts
  <2> QED  BY <2>1, <2>2
<1>2. \A x : Awaited(x)' <=> Awaited(x)
  BY CallerOutside, OrderKept, AloneFacts DEF Alone
<1>3. UNCHANGED <<responses, sent, toTor, tor>>
  BY CallerOutside, AloneFacts
<1> QED  BY <1>1, <1>2, <1>3, CoreQuiet, Assembled

LEMMA WriteStep ==
  ASSUME Alone, TypeOK', NEW c \in Callers, Write(c)
  PROVE  Lined
<1>1. /\ UNCHANGED <<responses, parsers, fromTor, tor>>
      /\ toTor' = IF tor = "up" THEN Append(toTor, [id |-> sent + 1, halt |-> FALSE])
                  ELSE toTor
  BY DEF Write
<1>2. Same /\ StreamInv' /\ ParserInv'
  BY <1>1, ParsersKept
<1>3. /\ lock = None /\ sent' = sent + 1
      /\ \A x \in Nat : Awaited(x)' <=> Awaited(x) \/ x = sent + 1
  BY WriteOrder DEF Alone
<1>4. Core' /\ ReplyMatches'
  BY <1>1, <1>2, <1>3, CoreCommand
<1> QED  BY <1>2, <1>4, Assembled

LEMMA QueueStep ==
  ASSUME Alone, TypeOK', NEW c \in Callers, Queue(c)
  PROVE  Lined
<1>1. UNCHANGED <<responses, sent, parsers, toTor, fromTor, tor>>
  BY DEF Queue, wire
<1>2. Same /\ StreamInv' /\ ParserInv'
  BY <1>1, ParsersKept
<1>3. \A x : Awaited(x)' <=> Awaited(x)
  BY QueueOrder DEF Alone
<1> QED  BY <1>1, <1>2, <1>3, CoreQuiet, Assembled

LEMMA ShutdownStep ==
  ASSUME Alone, TypeOK', ShutdownTor
  PROVE  Lined
<1>1. /\ UNCHANGED <<responses, parsers, fromTor, tor>>
      /\ toTor' = IF tor = "up" THEN Append(toTor, [id |-> sent + 1, halt |-> TRUE])
                  ELSE toTor
  BY DEF ShutdownTor
<1>2. Same /\ StreamInv' /\ ParserInv'
  BY <1>1, ParsersKept
<1>3. /\ lock = None /\ sent' = sent + 1
      /\ \A x : Awaited(x)' <=> Awaited(x)
  BY ShutdownOrder DEF Alone
<1>4. Core' /\ ReplyMatches'
  BY <1>1, <1>2, <1>3, CoreCommand
<1> QED  BY <1>2, <1>4, Assembled

LEMMA LaunchStep ==
  ASSUME Alone, TypeOK', LaunchThread, ~ Doubled'
  PROVE  Lined
<1>1. /\ UNCHANGED <<pc, lock, waiterOf, waiters, responses, sent, toTor, fromTor, tor>>
      /\ parsers' = Append(parsers, Fresh) /\ parsers \in Seq(Parser)
  BY AloneFacts DEF LaunchThread, caller, wire, TypeOK
<1>2. parsers = <<>>
  <2>1. Len(parsers') = Len(parsers) + 1
    BY <1>1, NoLineTyped
  <2> QED  BY <2>1, AloneFacts DEF Doubled
<1>3. parsers' = <<Fresh>>
  BY <1>1, <1>2
<1>4. Same /\ StreamInv' /\ ParserInv'
  BY <1>1, <1>2, <1>3, FirstParser
<1>5. \A x : Awaited(x)' <=> Awaited(x)
  BY <1>1 DEF Awaited
<1> QED  BY <1>1, <1>4, <1>5, CoreQuiet, Assembled

\* What a step of the thread that is alone leaves alone, and where it takes it.
LEMMA ParserAlone ==
  ASSUME Alone, NEW p, p \in 1..Len(parsers)
  PROVE  p = 1 /\ Len(parsers) = 1 /\ parsers # <<>> /\ parsers[1] \in Parser
         /\ parsers[1].line \in Line /\ parsers[1].at \in Stages
<1>1. p = 1 /\ Len(parsers) = 1 /\ parsers # <<>>
  <2>1. PICK n \in {0, 1} : n = Len(parsers) /\ (parsers = <<>> <=> n = 0)
    BY AloneFacts
  <2>2. p \in 1..n
    BY <2>1
  <2> QED  BY <2>1, <2>2
<1>2. parsers \in Seq(Parser)
  BY AloneFacts DEF TypeOK
<1>3. parsers[1] \in Parser
  BY <1>1, <1>2
<1> QED  BY <1>1, <1>3 DEF Parser

LEMMA LineRead ==
  ASSUME Alone, TypeOK', NEW p, NEW stages, NEW kinds, Reads(p, stages, kinds),
         stages \subseteq {"idle", "half", "block"}
  PROVE  /\ p = 1 /\ Len(parsers) = 1 /\ parsers[1].at \in stages
         /\ parsers[1].line \in Line
         /\ Reads(1, stages, kinds) /\ fromTor[1].kind \in kinds /\ Head(fromTor) = fromTor[1]
         /\ fromTor[1] \in Line /\ fromTor # <<>> /\ fromTor' = Tail(fromTor)
         /\ fromTor[1].kind \in Expected(parsers[1].at)
         /\ parsers[1].at # "idle" => parsers[1].line.kind = "end"
         /\ ~ ("full" \in stages)
         /\ UNCHANGED <<responses, sent, toTor, tor>>
         /\ \A x : Awaited(x)' <=> Awaited(x)
<1>1. /\ p \in 1..Len(parsers) /\ parsers[p].at \in stages
      /\ fromTor # <<>> /\ Head(fromTor).kind \in kinds /\ fromTor' = Tail(fromTor)
      /\ UNCHANGED <<pc, waiterOf, lock, waiters, responses, sent, toTor, tor>>
  BY DEF Reads, caller
<1>2. p = 1 /\ Len(parsers) = 1 /\ parsers # <<>> /\ parsers[1].line \in Line
  BY <1>1, ParserAlone
<1>3. Head(fromTor) = fromTor[1] /\ fromTor[1] \in Line /\ 1 \in 1..Len(fromTor)
  BY <1>1, AloneFacts, Taken DEF TypeOK
<1>4. parsers[1].at = Mode
  BY <1>1, <1>2 DEF Mode
<1>5. fromTor[1].kind \in Expected(ModeAt(1)) /\ ModeAt(1) = Mode
  BY <1>3, AloneFacts DEF StreamInv, ModeAt
<1>6. parsers[1].at # "idle" => parsers[1].line.kind = "end"
  BY <1>1, <1>2, AloneFacts DEF ParserInv
<1>7. \A x : Awaited(x)' <=> Awaited(x)
  BY <1>1 DEF Awaited
<1> QED  BY <1>1, <1>2, <1>3, <1>4, <1>5, <1>6, <1>7

\* A line that leaves the reply unfinished.
LEMMA UnfinishedStep ==
  ASSUME Alone, TypeOK', NEW stages, NEW kinds, Reads(1, stages, kinds),
         stages \subseteq {"idle", "half", "block"},
         NEW at \in {"half", "block", "failed"}, NEW STATE line, line \in Line,
         Becomes(1, at, line), line.kind = "end" \/ at = "failed",
         fromTor[1].kind # "end",
         at = After(fromTor[1].kind) \/ fromTor[1].kind = "stub",
         at = "failed" => tor = "down"
  PROVE  Lined
<1>1. /\ Len(parsers) = 1 /\ fromTor # <<>> /\ fromTor' = Tail(fromTor)
      /\ UNCHANGED <<responses, sent, toTor, tor>>
      /\ \A x : Awaited(x)' <=> Awaited(x)
      /\ ~ ("full" \in stages) /\ parsers \in Seq(Parser) /\ TypeOK /\ ~ Doubled
  BY LineRead, AloneFacts DEF TypeOK, Alone
<1>2. Len(parsers') = 1 /\ parsers'[1] = [at |-> at, line |-> line]
  <2>1. at \in Stages
    BY DEF Stages
  <2> QED  BY <1>1, <2>1, Moved
<1>3. parsers'[1].at = at /\ parsers'[1].line = line
  BY <1>2
<1>4. Shifted /\ Unread = fromTor
  <2>1. parsers'[1].at # "full"
    BY <1>3
  <2> QED  BY <1>1, <1>2, <2>1, UnreadRead
<1>5. Core' /\ ReplyMatches'
  BY <1>1, <1>4, CoreTaken
<1>6. Mode' = After(fromTor[1].kind) \/ fromTor[1].kind = "stub"
  <2>1. CASE at = "failed"
    <3>1. After(fromTor[1].kind) \in {"idle", "half", "block"}
      BY DEF After
    <3> QED  BY <2>1, <3>1
  <2>2. CASE at # "failed"
    BY <2>2, <1>2, <1>3 DEF Mode
  <2> QED  BY <2>1, <2>2
<1>7. StreamInv'
  BY <1>1, <1>6, StreamRead
<1>8. ParserInv'
  BY <1>1, <1>3 DEF ParserInv
<1> QED  BY <1>5, <1>7, <1>8, Assembled

\* The line that finishes a reply or is an event.
LEMMA FinishedStep ==
  ASSUME Alone, TypeOK', NEW stages, NEW kinds, Reads(1, stages, kinds),
         stages \subseteq {"idle", "half", "block"},
         Becomes(1, "full", Head(fromTor)), fromTor[1].kind \in {"end", "event"}
  PROVE  Lined
<1>1. /\ Len(parsers) = 1 /\ fromTor # <<>> /\ fromTor' = Tail(fromTor)
      /\ UNCHANGED <<responses, sent, toTor, tor>>
      /\ \A x : Awaited(x)' <=> Awaited(x)
      /\ ~ ("full" \in stages) /\ parsers \in Seq(Parser) /\ TypeOK /\ ~ Doubled
      /\ Head(fromTor) = fromTor[1] /\ fromTor[1] \in Line
  BY LineRead, AloneFacts DEF TypeOK, Alone
<1>2. Len(parsers') = 1 /\ parsers'[1] = [at |-> "full", line |-> Head(fromTor)]
  <2>1. "full" \in Stages
    BY DEF Stages
  <2> QED  BY <1>1, <2>1, Moved
<1>3. parsers'[1].at = "full" /\ parsers'[1].line = fromTor[1]
  BY <1>1, <1>2
<1>4. Same
  BY <1>1, <1>2, UnreadRead
<1>5. Core' /\ ReplyMatches'
  BY <1>1, <1>4, CoreQuiet
<1>6. Mode' = "idle" /\ After(fromTor[1].kind) = "idle"
  BY <1>2, <1>3 DEF Mode, After
<1>7. StreamInv'
  BY <1>1, <1>6, StreamRead
<1>8. ParserInv'
  BY <1>1, <1>3 DEF ParserInv
<1> QED  BY <1>5, <1>7, <1>8, Assembled

LEMMA StatusLineStep ==
  ASSUME Alone, TypeOK', NEW p, ReadStatusLine(p)
  PROVE  Lined
<1> DEFINE k == fromTor[1].kind
           S == {"idle", "half"}
           K == {"mid", "plus", "end", "event"}
<1>1. Reads(p, S, K)
  BY DEF ReadStatusLine
<1>2. /\ p = 1 /\ Reads(1, S, K) /\ k \in K /\ Head(fromTor) = fromTor[1] /\ fromTor[1] \in Line
      /\ parsers[1].at \in S /\ parsers[1].line \in Line /\ k \in Expected(parsers[1].at)
      /\ parsers[1].at # "idle" => parsers[1].line.kind = "end"
  BY <1>1, LineRead
<1>3. PICK first \in Kinds \cup {"misread"} :
        first = (IF k = "event" THEN "event" ELSE "end")
  BY DEF Kinds
<1>4. /\ Joined(1, first) \in Line
      /\ Joined(1, first).kind = IF parsers[1].at = "idle" THEN first
                                 ELSE parsers[1].line.kind
  BY <1>2, JoinedTyped
<1>5. Becomes(1, CASE k = "mid" -> "half" [] k = "plus" -> "block" [] OTHER -> "full",
              Joined(1, first))
  BY <1>2, <1>3 DEF ReadStatusLine
<1>6. CASE k = "mid"
  <2>1. Becomes(1, "half", Joined(1, first)) /\ Joined(1, first).kind = "end"
        /\ After(k) = "half"
    BY <1>2, <1>3, <1>4, <1>5, <1>6 DEF After
  <2> QED  BY <1>2, <1>4, <1>6, <2>1, UnfinishedStep
<1>7. CASE k = "plus"
  <2>1. Becomes(1, "block", Joined(1, first)) /\ Joined(1, first).kind = "end"
        /\ After(k) = "block"
    BY <1>2, <1>3, <1>4, <1>5, <1>7 DEF After
  <2> QED  BY <1>2, <1>4, <1>7, <2>1, UnfinishedStep
<1>8. CASE k \in {"end", "event"}
  <2>1. Becomes(1, "full", Joined(1, first))
    BY <1>5, <1>8
  <2>2. (IF parsers[1].at = "idle" THEN first ELSE parsers[1].line.kind) = k
    BY <1>2, <1>3, <1>8 DEF Expected
  <2>3. Joined(1, first) = [Head(fromTor) EXCEPT !.kind = fromTor[1].kind]
    BY <2>2 DEF Joined
  <2>4. Joined(1, first) = Head(fromTor)
    BY <1>2, <2>3 DEF Line
  <2>5. Becomes(1, "full", Head(fromTor))
    BY <2>1, <2>4
  <2> QED  BY <1>2, <1>8, <2>5, FinishedStep
<1> QED  BY <1>2, <1>6, <1>7, <1>8

LEMMA DataLineStep ==
  ASSUME Alone, TypeOK', NEW p, ReadDataLine(p)
  PROVE  Lined
<1>1. Reads(p, {"block"}, Kinds)
  BY DEF ReadDataLine
<1>2. /\ p = 1 /\ Reads(1, {"block"}, Kinds) /\ Head(fromTor) = fromTor[1]
      /\ parsers[1].line \in Line /\ parsers[1].line.kind = "end"
      /\ fromTor[1].kind \in {"text", "dot", "stub"}
  BY <1>1, LineRead DEF Expected
<1>3. PICK at \in {"half", "block"} : at = IF fromTor[1].kind = "dot" THEN "half" ELSE "block"
  OBVIOUS
<1>4. Becomes(1, at, parsers[1].line)
  BY <1>2, <1>3 DEF ReadDataLine
<1>5. at = After(fromTor[1].kind) \/ fromTor[1].kind = "stub"
  BY <1>2, <1>3 DEF After
<1> QED  BY <1>2, <1>4, <1>5, UnfinishedStep

LEMMA ShortLineStep ==
  ASSUME Alone, TypeOK', NEW p, ReadShortLine(p)
  PROVE  Lined
<1>1. Reads(p, {"idle", "half"}, {"dot", "stub"}) /\ Becomes(p, "failed", NoLine)
  BY DEF ReadShortLine
<1>2. /\ p = 1 /\ Reads(1, {"idle", "half"}, {"dot", "stub"}) /\ fromTor[1].kind = "stub"
      /\ fromTor # <<>>
  BY <1>1, LineRead DEF Expected
<1>3. tor = "down"
  <2>1. 1 \in 1..Len(fromTor)
    BY <1>2, AloneFacts, Taken DEF TypeOK
  <2> QED  BY <1>2, <2>1, AloneFacts DEF StreamInv
<1> QED  BY <1>1, <1>2, <1>3, NoLineTyped, UnfinishedStep

LEMMA MisreadStep ==
  ASSUME Alone, TypeOK', NEW p, MisreadDataLine(p)
  PROVE  FALSE
<1>1. Reads(p, {"idle", "half"}, {"text"})
  BY DEF MisreadDataLine
<1> QED  BY <1>1, LineRead DEF Expected

\* react has done with a reply.
LEMMA DoneStep ==
  ASSUME Alone, TypeOK', NEW p, p \in 1..Len(parsers), parsers[p].at = "full",
         Becomes(p, "idle", NoLine), UNCHANGED <<fromTor, tor>>
  PROVE  /\ p = 1 /\ Shifted /\ Unread[1] = parsers[p].line
         /\ Unread[1].kind \in {"end", "event"}
         /\ StreamInv' /\ ParserInv'
<1>1. p = 1 /\ Len(parsers) = 1 /\ parsers # <<>>
  BY ParserAlone
<1>2. Len(parsers') = 1 /\ parsers'[1] = [at |-> "idle", line |-> NoLine]
  <2>1. "idle" \in Stages /\ parsers \in Seq(Parser)
    BY AloneFacts DEF Stages, TypeOK
  <2> QED  BY <1>1, <2>1, NoLineTyped, Moved
<1>3. parsers'[1].at = "idle"
  BY <1>2
<1>4. Full /\ ~ Full' /\ Mode = "idle" /\ Mode' = "idle"
  BY <1>1, <1>2, <1>3 DEF Full, Mode
<1>5. Shifted /\ Unread[1] = parsers[p].line
  BY <1>1, <1>4, UnreadLeaves, AloneFacts
<1>6. parsers[1].line.kind \in {"end", "event"}
  BY <1>1, AloneFacts DEF ParserInv
<1>7. ParserInv'
  BY <1>3 DEF ParserInv
<1> QED  BY <1>1, <1>4, <1>5, <1>6, <1>7, StreamSame, AloneFacts

LEMMA EventStep ==
  ASSUME Alone, TypeOK', NEW p, HandleEvent(p)
  PROVE  Lined
<1>1. /\ p \in 1..Len(parsers) /\ parsers[p].at = "full" /\ parsers[p].line.kind # "end"
      /\ UNCHANGED <<pc, waiterOf, lock, waiters, responses, sent, toTor, fromTor, tor>>
  BY DEF HandleEvent, caller, wire
<1>2. p = 1 /\ parsers[1].line.kind \in {"end", "event"}
  BY <1>1, ParserAlone, AloneFacts DEF ParserInv
<1>3. Becomes(p, "idle", NoLine)
  BY <1>2 DEF HandleEvent
<1>4. Shifted /\ Unread[1].kind # "end" /\ StreamInv' /\ ParserInv'
  BY <1>1, <1>3, DoneStep
<1>5. \A x : Awaited(x)' <=> Awaited(x)
  BY <1>1 DEF Awaited
<1> QED  BY <1>1, <1>4, <1>5, CoreTaken, Assembled

LEMMA HandOverStep ==
  ASSUME Alone, TypeOK', NEW p, HandOver(p)
  PROVE  Lined
<1>1. /\ p \in 1..Len(parsers) /\ parsers[p].at = "full" /\ parsers[p].line.kind = "end"
      /\ Becomes(p, "idle", NoLine) /\ UNCHANGED <<fromTor, tor>>
  BY DEF HandOver, wire
<1>2. Shifted /\ Unread[1] = parsers[p].line /\ StreamInv' /\ ParserInv'
  BY <1>1, DoneStep
<1>3. Core' /\ ReplyMatches'
  BY <1>1, <1>2, CoreHandOver
<1> QED  BY <1>2, <1>3, Assembled

LEMMA EndStep ==
  ASSUME Alone, TypeOK', NEW p, EndOfStream(p)
  PROVE  Lined
<1>1. /\ p \in 1..Len(parsers) /\ parsers[p].at \in {"idle", "half", "block"}
      /\ fromTor = <<>> /\ tor = "down"
      /\ UNCHANGED <<pc, waiterOf, lock, waiters, responses, sent, toTor, fromTor, tor>>
  BY DEF EndOfStream, caller, wire
<1>2. p = 1 /\ Len(parsers) = 1 /\ parsers # <<>> /\ parsers \in Seq(Parser)
  BY <1>1, ParserAlone, AloneFacts DEF TypeOK
<1>3. PICK at : Becomes(1, at, NoLine) /\ at \in {"ended", "failed", "crashed"}
  BY <1>1, <1>2 DEF EndOfStream
<1>4. Len(parsers') = 1 /\ parsers'[1] = [at |-> at, line |-> NoLine]
  <2>1. at \in Stages
    BY <1>3 DEF Stages
  <2> QED  BY <1>2, <1>3, <2>1, NoLineTyped, Moved
<1>5. parsers'[1].at = at
  BY <1>4
<1>6. Same
  BY <1>1, <1>2, <1>3, <1>5, UnreadSame, AloneFacts DEF Full
<1>7. \A x : Awaited(x)' <=> Awaited(x)
  BY <1>1 DEF Awaited
<1>8. StreamInv'
  BY <1>1 DEF StreamInv
<1>9. ParserInv'
  BY <1>1, <1>3, <1>5 DEF ParserInv
<1> QED  BY <1>1, <1>6, <1>7, <1>8, <1>9, CoreQuiet, Assembled

\* The stream after a whole reply of Tor.
LEMMA ReplyFramed ==
  ASSUME Alone, tor = "up", UNCHANGED parsers, NEW shape \in Shapes,
         NEW STATE command, command \in Command,
         fromTor' = fromTor \o Lines(shape, command)
  PROVE  StreamInv'
<1>1. PICK ls \in Seq(Line) :
        /\ fromTor' = fromTor \o ls /\ Len(ls) = Len(shape) /\ Len(shape) \in {1, 2, 4}
        /\ \A i \in 1..Len(shape) : /\ ls[i].kind = shape[i] /\ shape[i] # "stub"
                                    /\ (shape[i] = "end" <=> i = Len(shape))
  BY LinesTyped
<1>2. /\ shape[1] \in Expected("idle")
      /\ \A i \in 2..Len(shape) : shape[i] \in Expected(After(shape[i - 1]))
  <2>1. PICK c \in Command : TRUE
    OBVIOUS
  <2> QED  BY <2>1, LinesTyped
<1>3. ls[1].kind \in Expected("idle") /\ Len(ls) >= 1
  BY <1>1, <1>2
<1>4. \A i \in 2..Len(ls) : ls[i].kind \in Expected(After(ls[i - 1].kind))
  <2> SUFFICES ASSUME NEW i \in 2..Len(ls)
               PROVE  ls[i].kind \in Expected(After(ls[i - 1].kind))
    OBVIOUS
  <2>1. i \in 1..Len(shape) /\ i - 1 \in 1..Len(shape)
    BY <1>1
  <2> QED  BY <2>1, <1>1, <1>2
<1>5. After(ls[Len(ls)].kind) = "idle"
  <2>1. ls[Len(ls)].kind = "end"
    BY <1>1
  <2> QED  BY <2>1 DEF After
<1> QED  BY <1>1, <1>3, <1>4, <1>5, StreamGrows

LEMMA TorStep ==
  ASSUME Alone, TypeOK', TorAnswers \/ TorHalts
  PROVE  Lined
<1>1. tor = "up" /\ UNCHANGED parsers /\ toTor # <<>>
  BY DEF TorAnswers, TorHalts
<1>2. Head(toTor) \in Command
  BY <1>1, AloneFacts DEF TypeOK
<1>3. PICK shape \in Shapes : fromTor' = fromTor \o Lines(shape, Head(toTor))
  BY DEF TorAnswers, TorHalts, Shapes
<1>4. StreamInv'
  BY <1>1, <1>2, <1>3, ReplyFramed
<1>5. ParserInv'
  BY <1>1, AloneFacts DEF ParserInv
<1> QED  BY <1>4, <1>5, CoreAnswer, CoreHalt, Assembled

LEMMA EmitStep ==
  ASSUME Alone, TypeOK', TorEmits
  PROVE  Lined
<1>1. /\ tor = "up"
      /\ UNCHANGED <<pc, lock, waiterOf, waiters, responses, sent, toTor, tor, parsers>>
  BY DEF TorEmits, caller
<1>2. PICK ls \in Seq(Line) : Len(ls) = 1 /\ ls[1] = NoLine /\ fromTor' = fromTor \o ls
  <2>1. <<NoLine>> \in Seq(Line) /\ Len(<<NoLine>>) = 1 /\ <<NoLine>>[1] = NoLine
    BY NoLineTyped
  <2>2. fromTor' = fromTor \o <<NoLine>>
    <3>1. fromTor \in Seq(Line) /\ fromTor' = Append(fromTor, NoLine)
      BY AloneFacts DEF TypeOK, TorEmits
    <3> QED  BY <3>1, NoLineTyped
  <2> QED  BY <2>1, <2>2
<1>3. NoLine.kind = "event"
  BY DEF NoLine
<1>4. Core' /\ ReplyMatches'
  <2>1. Grown(ls)
    BY <1>1, <1>2, UnreadGrows, AloneFacts
  <2>2. \A i \in 1..Len(ls) : ls[i].kind # "end"
    BY <1>2, <1>3
  <2> QED  BY <1>1, <2>1, <2>2, CoreEmits
<1>5. StreamInv'
  <2>1. ls[1].kind \in Expected("idle") /\ After(ls[1].kind) = "idle"
    BY <1>2, <1>3 DEF Expected, After
  <2>2. \A i \in 1..Len(ls) : ls[i].kind # "stub"
    BY <1>2, <1>3
  <2>3. \A i \in 2..Len(ls) : ls[i].kind \in Expected(After(ls[i - 1].kind))
    BY <1>2
  <2> QED  BY <1>1, <1>2, <2>1, <2>2, <2>3, StreamGrows
<1>6. ParserInv'
  BY <1>1, AloneFacts DEF ParserInv
<1> QED  BY <1>4, <1>5, <1>6, Assembled

LEMMA DieStep ==
  ASSUME Alone, TypeOK', TorDies
  PROVE  Lined
<1>1. /\ tor = "up" /\ tor' = "down" /\ toTor' = <<>>
      /\ UNCHANGED <<pc, lock, waiterOf, waiters, responses, sent, parsers>>
  BY DEF TorDies, caller
<1>2. PICK n \in 0..Len(fromTor) :
        fromTor' \in {SubSeq(fromTor, 1, n), Append(SubSeq(fromTor, 1, n), Stub)}
  BY DEF TorDies
<1>3. /\ Len(fromTor) \in Nat /\ fromTor \in Seq(Line)
      /\ n \in Nat /\ n <= Len(fromTor)
      /\ SubSeq(fromTor, 1, n) \in Seq(Line) /\ Len(SubSeq(fromTor, 1, n)) = n
      /\ \A i \in 1..n : SubSeq(fromTor, 1, n)[i] = fromTor[i]
  <2>1. fromTor \in Seq(Line)
    BY AloneFacts DEF TypeOK
  <2> QED  BY <2>1
<1>4. /\ Len(fromTor') \in Nat /\ n <= Len(fromTor') /\ Len(fromTor') <= n + 1
      /\ \A i \in 1..n : fromTor'[i] = fromTor[i]
      /\ \A i \in 1..Len(fromTor') : i > n => fromTor'[i] = Stub
  <2>1. CASE fromTor' = SubSeq(fromTor, 1, n)
    BY <2>1, <1>3
  <2>2. CASE fromTor' = Append(SubSeq(fromTor, 1, n), Stub)
    BY <2>2, <1>3, NoLineTyped
  <2> QED  BY <2>1, <2>2, <1>2
<1>5. Stub.kind = "stub"
  BY DEF Stub
<1>6. StreamInv'
  BY <1>1, <1>3, <1>4, <1>5, StreamCut
<1>7. ParserInv'
  BY <1>1, AloneFacts DEF ParserInv
<1>8. Core' /\ ReplyMatches'
  <2>1. UnreadFacts /\ UnreadFacts' /\ (Full' <=> Full)
    BY <1>1, UnreadTyped, UnreadTypedNext, AloneFacts DEF Full
  <2>2. CASE ~ Full
    <3>1. Unread = fromTor /\ Unread' = fromTor'
      BY <2>1, <2>2 DEF UnreadFacts
    <3>2. \A i \in 1..Len(Unread') : IsReply(i)' => i \in 1..n
      BY <3>1, <1>3, <1>4, <1>5 DEF IsReply
    <3>3. \A i \in 1..n : i \in 1..Len(Unread') /\ Unread'[i] = Unread[i]
      BY <3>1, <1>3, <1>4
    <3> QED  BY <1>1, <1>3, <3>1, <3>2, <3>3, CoreDie
  <2>3. CASE Full
    <3>1. /\ Len(Unread) = Len(fromTor) + 1 /\ Len(Unread') = Len(fromTor') + 1
          /\ Unread[1] = parsers[1].line /\ Unread'[1] = parsers'[1].line
          /\ \A i \in 1..Len(fromTor) : Unread[i + 1] = fromTor[i]
          /\ \A i \in 1..Len(fromTor') : Unread'[i + 1] = fromTor'[i]
      BY <2>1, <2>3 DEF UnreadFacts
    <3>2. n + 1 \in Nat /\ n + 1 <= Len(Unread)
      BY <3>1, <1>3
    <3>3. ASSUME NEW i \in 1..(n + 1)
          PROVE  i \in 1..Len(Unread') /\ Unread'[i] = Unread[i]
      <4>1. i \in 1..Len(Unread')
        BY <3>1, <1>3, <1>4
      <4>2. CASE i = 1
        BY <4>1, <4>2, <3>1, <1>1
      <4>3. CASE i # 1
        <5>1. i - 1 \in 1..n /\ (i - 1) + 1 = i
          BY <4>3, <1>3
        <5>2. i - 1 \in 1..Len(fromTor) /\ i - 1 \in 1..Len(fromTor')
          BY <5>1, <1>3, <1>4
        <5> QED  BY <4>1, <5>1, <5>2, <3>1, <1>4
      <4> QED  BY <4>2, <4>3
    <3>4. ASSUME NEW i \in 1..Len(Unread'), ~ (i \in 1..(n + 1)) PROVE ~ IsReply(i)'
      <4>1. i - 1 \in 1..Len(fromTor') /\ i - 1 > n /\ (i - 1) + 1 = i
        BY <3>4, <3>1, <1>3, <1>4
      <4>2. Unread'[i].kind = "stub"
        BY <4>1, <3>1, <1>4, <1>5
      <4> QED  BY <4>2 DEF IsReply
    <3> QED  BY <1>1, <3>2, <3>3, <3>4, CoreDie
  <2> QED  BY <2>2, <2>3
<1> QED  BY <1>6, <1>7, <1>8, Assembled

-----------------------------------------------------------------------------
\* A second parse thread never goes away.
LEMMA DoubledStays ==
  ASSUME TypeOK, [Next]_vars, Doubled
  PROVE  Doubled'
<1>0. parsers \in Seq(Parser) /\ Len(parsers) \in Nat /\ Len(parsers) > 1
  BY DEF TypeOK, Doubled
<1>1. ASSUME Len(parsers') >= Len(parsers), Len(parsers') \in Nat PROVE Doubled'
  BY <1>0, <1>1 DEF Doubled
<1>2. CASE UNCHANGED parsers
  BY <1>0, <1>1, <1>2
<1>3. CASE LaunchThread
  <2>1. Len(parsers') = Len(parsers) + 1
    BY <1>0, <1>3, NoLineTyped DEF LaunchThread
  <2> QED  BY <1>0, <1>1, <2>1
<1>4. ASSUME NEW p, NEW at, NEW STATE line, Becomes(p, at, line) PROVE Doubled'
  <2>1. Len(parsers') = Len(parsers)
    BY <1>0, <1>4 DEF Becomes
  <2> QED  BY <1>0, <1>1, <2>1
<1>5. ASSUME NEW p, Parse(p) PROVE Doubled'
  <2>1. CASE ReadStatusLine(p)
    BY <2>1, <1>4 DEF ReadStatusLine
  <2>2. CASE ReadDataLine(p)
    BY <2>2, <1>4 DEF ReadDataLine
  <2>3. CASE ReadShortLine(p)
    BY <2>3, <1>4 DEF ReadShortLine
  <2>4. CASE MisreadDataLine(p)
    BY <2>4, <1>4 DEF MisreadDataLine
  <2>5. CASE HandleEvent(p)
    BY <2>5, <1>4 DEF HandleEvent
  <2>6. CASE HandOver(p)
    BY <2>6, <1>4 DEF HandOver
  <2>7. CASE EndOfStream(p)
    BY <2>7, <1>4 DEF EndOfStream
  <2> QED  BY <1>5, <2>1, <2>2, <2>3, <2>4, <2>5, <2>6, <2>7 DEF Parse
<1>6. CASE \E c \in Callers : Call(c)
  <2>1. parsers # <<>>
    BY <1>0
  <2>2. UNCHANGED parsers
    BY <1>6, <2>1 DEF Call, Enter, Write, WriteFails, Queue, Return, Interrupt
  <2> QED  BY <2>2, <1>2
<1>7. CASE ShutdownTor \/ Tor
  <2>1. UNCHANGED parsers
    BY <1>7 DEF ShutdownTor, Tor, TorAnswers, TorHalts, TorEmits, TorDies
  <2> QED  BY <2>1, <1>2
<1> QED  BY <1>2, <1>3, <1>5, <1>6, <1>7 DEF Next, vars

\* The part of the invariant that any number of threads preserves.
LEMMA OrderStep ==
  ASSUME IInv, TypeOK', [Next]_vars
  PROVE  LockInv' /\ WaitersOrdered' /\ AnswerInv'
<1>1. CASE UNCHANGED <<pc, lock, waiterOf, waiters, responses, sent>>
  BY <1>1, OrderKept
<1>2. ASSUME NEW c \in Callers,
             Enter(c) \/ WriteFails(c) \/ Return(c) \/ Interrupt(c)
      PROVE  LockInv' /\ WaitersOrdered' /\ AnswerInv'
  BY <1>2, CallerOutside, OrderKept DEF IInv
<1>3. ASSUME NEW p, HandOver(p) PROVE LockInv' /\ WaitersOrdered' /\ AnswerInv'
  <2>1. lock = None /\ UNCHANGED <<pc, lock, waiterOf, sent>> /\ TypeOK
    BY <1>3, HandedOver DEF IInv
  <2>2. CASE UNCHANGED <<waiters, responses>>
    BY <2>1, <2>2, <1>1
  <2>3. CASE Answered(Given(Head(waiters), parsers[p].line))
    BY <2>1, <2>3, AnswerOrder
  <2> QED  BY <1>3, <2>1, <2>2, <2>3, HandedOver
<1>4. ASSUME NEW p, Parse(p), ~ HandOver(p)
      PROVE  UNCHANGED <<pc, lock, waiterOf, waiters, responses, sent>>
  BY <1>4 DEF Parse, ReadStatusLine, ReadDataLine, ReadShortLine, MisreadDataLine, Reads,
     HandleEvent, EndOfStream, caller
<1>5. CASE LaunchThread \/ Tor \/ UNCHANGED vars
  BY <1>1, <1>5 DEF LaunchThread, Tor, TorAnswers, TorHalts, TorEmits, TorDies, caller, vars
<1> QED
  BY <1>1, <1>2, <1>3, <1>4, <1>5, WriteOrder, QueueOrder, ShutdownOrder DEF Next, Call

\* The part that is lost with a second one.
LEMMA LinedStep ==
  ASSUME IInv, TypeOK', [Next]_vars
  PROVE  Doubled' \/ Lined
<1> SUFFICES ASSUME ~ Doubled' PROVE Lined
  OBVIOUS
<1>a. Alone
  BY DoubledStays DEF Alone, IInv
<1>1. CASE UNCHANGED vars
  <2>1. UNCHANGED <<responses, sent, parsers, toTor, fromTor, tor>>
        /\ \A x : Awaited(x)' <=> Awaited(x)
    BY <1>1 DEF vars, Awaited
  <2>2. Same /\ StreamInv' /\ ParserInv'
    BY <1>a, <2>1, ParsersKept
  <2> QED  BY <1>a, <2>1, <2>2, CoreQuiet, Assembled
<1>2. ASSUME NEW p, Parse(p) PROVE Lined
  BY <1>a, <1>2, StatusLineStep, DataLineStep, ShortLineStep, MisreadStep, EventStep,
     HandOverStep, EndStep DEF Parse
<1>3. ASSUME NEW c \in Callers, Call(c) PROVE Lined
  BY <1>a, <1>3, CallerStep, WriteStep, QueueStep DEF Call
<1>4. CASE Tor
  BY <1>a, <1>4, TorStep, EmitStep, DieStep DEF Tor
<1> QED  BY <1>a, <1>1, <1>2, <1>3, <1>4, ShutdownStep, LaunchStep DEF Next

-----------------------------------------------------------------------------
\* However many threads parse, the calls are answered in their order; while one does,
\* the queues of commands, replies and waiters stay lined up in every reachable state.
THEOREM Invariance == Spec => []IInv
<1>1. Init => IInv
  <2> SUFFICES ASSUME Init PROVE IInv
    OBVIOUS
  <2>1. TypeOK
    <3>1. /\ waiters \in Seq(Nat) /\ toTor \in Seq(Command) /\ fromTor \in Seq(Line)
          /\ parsers \in Seq(Parser)
      BY DEF Init
    <3> QED  BY <3>1 DEF Init, TypeOK
  <2>2. Len(parsers) = 0 /\ Len(fromTor) = 0
    BY DEF Init
  <2>3. Unread = <<>> /\ Len(Unread) = 0 /\ ModeAt(Len(fromTor) + 1) = "idle"
    BY <2>2 DEF Init, Unread, ModeAt, Mode
  <2>4. LockInv /\ WaitersOrdered /\ AnswerInv /\ ReplyMatches
    BY NoneAssumption
       DEF Init, LockInv, WaitersOrdered, AnswerInv, OldestFirst, ReplyMatches
  <2>5. CommandsOrdered /\ RepliesOrdered /\ HaltInv /\ StreamInv /\ ParserInv
    BY <2>2, <2>3 DEF Init, CommandsOrdered, RepliesOrdered, HaltInv, StreamInv, ParserInv
  <2>6. MatchInv
    BY <2>3 DEF Init, MatchInv, Pending, Awaited
  <2> QED  BY <2>1, <2>4, <2>5, <2>6 DEF IInv, LinedUp
<1>2. TypeOK' /\ IInv /\ [Next]_vars => IInv'
  <2> SUFFICES ASSUME TypeOK', IInv, [Next]_vars PROVE IInv'
    OBVIOUS
  <2>1. Doubled' => ReplyMatches'
    BY DEF ReplyMatches
  <2> QED  BY <2>1, OrderStep, LinedStep DEF IInv, Lined
<1> QED  BY <1>1, <1>2, TypeCorrect, PTL DEF Spec

\* While one thread parses, react never drops or misdelivers the reply to a command
\* somebody waits for, whatever the interleaving of callers, parse thread, Tor and its
\* death.
THEOREM RepliesFindTheirWaiters == Spec => []HeadReplyFindsItsWaiter
<1>1. IInv => HeadReplyFindsItsWaiter
  <2> SUFFICES ASSUME IInv, ~ Doubled, lock = None, parsers # <<>>, parsers[1].at = "full",
                      parsers[1].line.kind = "end", ~ parsers[1].line.halt
               PROVE  waiters # <<>> /\ Head(waiters) = parsers[1].line.cmd
    BY DEF HeadReplyFindsItsWaiter
  <2>1. Alone
    BY DEF Alone
  <2>2. Len(parsers) = 1 /\ UnreadFacts
    BY <2>1, AloneFacts, UnreadTyped
  <2>3. Unread[1] = parsers[1].line /\ Len(Unread) = Len(fromTor) + 1
    BY <2>2 DEF UnreadFacts, Full
  <2>4. Len(fromTor) \in Nat
    BY DEF IInv, TypeOK
  <2> QED  BY <2>1, <2>3, <2>4, HeadMatches
<1> QED  BY <1>1, Invariance, PTL

\* While one thread parses, a caller is told the outcome of its own command, HALT's
\* reply excepted.
THEOREM RepliesMatch == Spec => []ReplyMatches
<1>1. IInv => ReplyMatches
  BY DEF IInv
<1> QED  BY <1>1, Invariance, PTL

\* However many threads parse, setResponse never overwrites, and an answered waiter
\* has left the list.
THEOREM WaitersAnsweredOnce == Spec => []AnsweredOnce
<1>1. IInv => AnsweredOnce
  BY Types DEF IInv, AnsweredOnce, AnswerInv, OldestFirst
<1> QED  BY <1>1, Invariance, PTL

-----------------------------------------------------------------------------
(* The refinement: every step of the connection is a step of ReplyChannel  *)
(* or changes nothing a caller can see.                                    *)

\* Write and shutdownTor issue, Queue submits, HandOver answers, the death of Tor
\* closes the channel, the second launchThread doubles it; everything else stutters.
LEMMA ChannelStep ==
  ASSUME IInv, TypeOK', [Next]_vars
  PROVE  [Channel!Next]_(Channel!vars)
<1> USE DEF Channel!Next, Channel!vars
<1>d. UNCHANGED parsers => Doubled' = Doubled
  BY DEF Doubled
<1>0. TypeOK /\ parsers \in Seq(Parser)
  BY DEF IInv, TypeOK
<1>1. ASSUME NEW c \in Callers,
             Enter(c) \/ WriteFails(c) \/ Return(c) \/ Interrupt(c)
      PROVE  UNCHANGED Channel!vars
  <2>1. UNCHANGED <<sent, waiters, responses, tor>>
    BY <1>1, <1>0, CallerOutside
  <2>2. Doubled' = Doubled
    <3>1. CASE UNCHANGED parsers
      BY <3>1, <1>d
    <3>2. CASE parsers = <<>> /\ parsers' = <<Fresh>>
      <4>1. Len(parsers) = 0 /\ Len(parsers') = 1
        BY <3>2
      <4> QED  BY <4>1 DEF Doubled
    <3> QED  BY <1>1, <3>1, <3>2 DEF Enter, WriteFails, Return, Interrupt
  <2> QED  BY <2>1, <2>2
<1>2. ASSUME NEW c \in Callers, Write(c) PROVE Channel!Issue
  BY <1>2, <1>d DEF Write, Channel!Issue
<1>3. ASSUME NEW c \in Callers, Queue(c) PROVE Channel!Submit
  <2>1. /\ waiterOf[c] = sent /\ lock = c /\ waiters' = Append(waiters, waiterOf[c])
        /\ c # None /\ UNCHANGED <<sent, responses, tor, parsers>>
    BY <1>3, NoneAssumption DEF Queue, wire, IInv, WaitersOrdered
  <2>2. /\ \A i \in 1..Len(waiters) : waiters[i] < sent
        /\ \A a \in responses : a.waiter < sent
    BY <2>1 DEF IInv, WaitersOrdered, AnswerInv
  <2> QED  BY <2>1, <2>2, <1>0, <1>d, Types DEF Channel!Submit
<1>4. CASE ShutdownTor
  BY <1>4, <1>d DEF ShutdownTor, Channel!Issue
<1>5. CASE LaunchThread
  <2>1. UNCHANGED <<sent, waiters, responses, tor>>
    BY <1>5 DEF LaunchThread, wire
  <2>2. Len(parsers') = Len(parsers) + 1 /\ Len(parsers) \in Nat
    BY <1>0, <1>5, NoLineTyped DEF LaunchThread
  <2>3. Doubled' = Doubled \/ Doubled' = TRUE
    BY <2>2 DEF Doubled
  <2> QED  BY <2>1, <2>3 DEF Channel!Double
<1>6. CASE TorHalts \/ TorDies
  BY <1>6, <1>d DEF TorHalts, TorDies, Channel!Close
<1>7. CASE TorAnswers \/ TorEmits \/ UNCHANGED vars
  BY <1>7, <1>d DEF TorAnswers, TorEmits, vars
<1>b. ASSUME NEW p, NEW at, NEW STATE line, Becomes(p, at, line) PROVE Doubled' = Doubled
  <2>1. Len(parsers') = Len(parsers)
    BY <1>0, <1>b DEF Becomes
  <2> QED  BY <2>1 DEF Doubled
<1>8. ASSUME NEW p, Parse(p), ~ HandOver(p) PROVE UNCHANGED Channel!vars
  <2>1. UNCHANGED <<sent, waiters, responses, tor>>
    BY <1>8 DEF Parse, ReadStatusLine, ReadDataLine, ReadShortLine, MisreadDataLine, Reads,
       HandleEvent, EndOfStream, wire
  <2>2. Doubled' = Doubled
    BY <1>8, <1>b DEF Parse, ReadStatusLine, ReadDataLine, ReadShortLine, MisreadDataLine,
       HandleEvent, EndOfStream
  <2> QED  BY <2>1, <2>2
<1>9. ASSUME NEW p, HandOver(p) PROVE [Channel!Next]_(Channel!vars)
  <2>1. /\ p \in 1..Len(parsers) /\ parsers[p].at = "full" /\ parsers[p].line.kind = "end"
        /\ Becomes(p, "idle", NoLine) /\ UNCHANGED <<sent, tor, fromTor>> /\ lock = None
    BY <1>9 DEF HandOver, wire
  <2>2. Doubled' = Doubled
    BY <2>1, <1>b
  <2>3. CASE waiters = <<>>
    BY <1>9, <2>1, <2>2, <2>3 DEF HandOver
  <2>4. CASE waiters # <<>>
    <3> DEFINE line == parsers[p].line
               new == Given(Head(waiters), line)
    <3>1. waiters' = Tail(waiters) /\ responses' = responses \cup {new}
          /\ new.waiter = Head(waiters)
          /\ new = [waiter |-> Head(waiters), cmd |-> line.cmd, halt |-> line.halt]
      BY <1>9, <2>4 DEF HandOver, Given
    <3>2. CASE Doubled
      <4> HIDE DEF new
      <4>1. \E a \in responses' : a.waiter = Head(waiters) /\ responses' = responses \cup {a}
        BY <3>1
      <4> QED  BY <3>1, <3>2, <4>1, <2>1, <2>2, <2>4 DEF Channel!AnyAnswer
    <3>3. CASE ~ Doubled
      <4>1. Alone
        BY <3>3 DEF Alone
      <4>2. p = 1 /\ Len(parsers) = 1 /\ line \in Line
        BY <2>1, <4>1, ParserAlone
      <4>3. /\ Unread[1] = line /\ Len(Unread) \in Nat /\ Len(Unread) >= 1
        <5>1. UnreadFacts /\ Full
          BY <1>0, <2>1, <4>2, UnreadTyped DEF Full
        <5>2. Len(fromTor) \in Nat
          BY <1>0 DEF TypeOK
        <5> QED  BY <4>2, <5>1, <5>2 DEF UnreadFacts
      <4>4. IsReply(1) /\ 1 \in 1..Len(Unread)
        BY <2>1, <4>3 DEF IsReply
      <4>5. \A r \in responses : ~ r.halt
        BY <4>1, <4>3, AloneFacts DEF Core, HaltInv
      <4>6. CASE line.halt = TRUE
        <5>1. tor = "down" /\ line.cmd \in 0..sent
          <6>1. tor = "down"
            BY <2>1, <4>1, <4>3, <4>4, <4>6, AloneFacts DEF Core, HaltInv
          <6>2. Unread[1].cmd <= sent /\ Unread[1].cmd \in Nat /\ sent \in Nat
            BY <4>1, <4>4, AloneFacts, Types DEF Core, RepliesOrdered
          <6> QED  BY <4>3, <6>1, <6>2
        <5>2. Channel!Give(line.cmd, TRUE)
          BY <2>1, <2>2, <2>4, <3>1, <4>6 DEF Channel!Give
        <5> QED  BY <4>5, <5>1, <5>2 DEF Channel!HaltAnswer, Channel!Unhalted
      <4>7. CASE line.halt = FALSE
        <5>1. Head(waiters) = line.cmd
          BY <2>1, <4>1, <4>3, <4>7, HeadMatches
        <5>2. Channel!Give(Head(waiters), FALSE)
          BY <2>1, <2>2, <2>4, <3>1, <4>7, <5>1 DEF Channel!Give
        <5> QED  BY <4>5, <5>2 DEF Channel!OwnAnswer, Channel!Unhalted
      <4> QED  BY <4>2, <4>6, <4>7 DEF Line
    <3> QED  BY <3>2, <3>3
  <2> QED  BY <2>3, <2>4
<1> QED
  BY <1>1, <1>2, <1>3, <1>4, <1>5, <1>6, <1>7, <1>8, <1>9 DEF Next, Call, Tor

\* The connection implements the reply channel, for any number of callers, parse
\* threads and commands.
THEOREM ConnectionImplementsChannel == Spec => ImplementsChannel
<1>1. Init => Channel!Init
  <2> SUFFICES ASSUME Init PROVE Channel!Init
    OBVIOUS
  <2>1. Len(parsers) = 0
    BY DEF Init
  <2>2. Doubled = FALSE
    BY <2>1 DEF Doubled
  <2> QED  BY <2>2 DEF Init, Channel!Init
<1>2. IInv /\ TypeOK' /\ [Next]_vars => [Channel!Next]_(Channel!vars)
  BY ChannelStep
<1> QED  BY <1>1, <1>2, TypeCorrect, Invariance, PTL DEF Spec, ImplementsChannel, Channel!Spec
=============================================================================
