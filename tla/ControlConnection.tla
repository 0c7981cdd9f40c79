------------------------- MODULE ControlConnection -------------------------
(***************************************************************************)
(* The Tor control-port client, TorControlConnection.java: any number of   *)
(* caller threads send commands and block for the reply, a parse thread    *)
(* reads replies and events from the same socket, line by line, and hands  *)
(* each reply to the oldest waiter.  Nothing in the protocol numbers a     *)
(* reply: a reply is matched to its command only by order.  The ids below  *)
(* are history: they say which command a reply really answers, and no      *)
(* action's guard uses them.                                               *)
(*                                                                         *)
(* Two Java monitors are modelled, `this' (held by sendAndWaitForResponse  *)
(* from entry to return, the wait for the reply included) and `waiters'    *)
(* (held while a command is written and its waiter queued, and while a     *)
(* parse thread dequeues one).                                             *)
(*                                                                         *)
(* There is one parse thread if launchThread comes before the first call.  *)
(* TorService publishes the connection first, so a call of another thread  *)
(* may launch one before launchThread launches another: two threads then   *)
(* share the socket, and most of what is promised here is lost (Doubled).  *)
(***************************************************************************)
EXTENDS Naturals, Sequences

CONSTANTS Callers,       \* the threads that use the connection
          None,          \* no thread holds the monitor
          MaxCommands,   \* bound: commands written over the connection's life
          MaxShared,     \* bound: as MaxCommands, once two threads share the socket
          MaxEvents,     \* bound: asynchronous events Tor emits
          MaxParsers     \* bound: parse threads that launchThread makes

ASSUME NoneAssumption  == None \notin Callers
ASSUME BoundAssumption == /\ MaxCommands \in Nat /\ MaxShared \in Nat
                          /\ MaxEvents \in Nat /\ MaxParsers \in Nat

VARIABLES
  pc,         \* [Callers -> where the thread is in sendAndWaitForResponse]
  waiterOf,   \* [Callers -> id of the Waiter object the thread waits on]
  monitor,    \* owner of the monitor of `this', or None
  lock,       \* owner of the monitor of `waiters', or None
  waiters,    \* the waiters list: ids, oldest first
  responses,  \* the replies handed to waiters (Waiter.response)
  parsers,    \* the parse threads, oldest first; the field `thread' is null if none
  sent,       \* commands written so far
  toTor,      \* external: commands Tor has yet to read
  fromTor,    \* external: the lines of replies and events nobody has read yet
  emitted,    \* external: events Tor has written
  tor         \* external: "up", or "down" once Tor closed the connection

vars == <<pc, waiterOf, monitor, lock, waiters, responses, parsers, sent, toTor,
          fromTor, emitted, tor>>

caller == <<pc, waiterOf, monitor>>
wire   == <<toTor, fromTor, emitted, tor>>

Command == [id : Nat, halt : BOOLEAN]
Reply   == [waiter : Nat, cmd : Nat, halt : BOOLEAN]

\* A line of a reply: "250-", "250+", the lines of the data block that follows, the
\* "." that ends it, and "250 ", which ends the reply.  A line with a 6xx status is an
\* event, and a "stub" is what is left of a line that the end of the stream cut off.
Kinds == {"mid", "plus", "text", "dot", "end", "event", "stub"}
Line  == [kind : Kinds \cup {"misread"}, cmd : Nat, halt : BOOLEAN]
NoLine == [kind |-> "event", cmd |-> 0, halt |-> FALSE]

\* readReply has read nothing, some lines, or is inside a data block; "full": it has
\* returned a reply, and line says whether it starts as an event.  "failed": the
\* thread has stored parseThreadException.
Stages == {"idle", "half", "block", "full", "ended", "failed", "crashed"}
Parser == [at : Stages, line : Line]
Fresh  == [at |-> "idle", line |-> NoLine]
Failed == \E p \in 1..Len(parsers) : parsers[p].at = "failed"

Init ==
  /\ pc       = [c \in Callers |-> "idle"]
  /\ waiterOf = [c \in Callers |-> 0]
  /\ monitor  = None /\ lock = None
  /\ waiters  = <<>> /\ responses = {}
  /\ parsers  = <<>>
  /\ sent     = 0
  /\ toTor    = <<>> /\ fromTor = <<>> /\ emitted = 0
  /\ tor      = "up"

-----------------------------------------------------------------------------
(* The callers.                                                            *)

MayWrite == sent < (IF Len(parsers) > 1 THEN MaxShared ELSE MaxCommands)

\* Leave sendAndWaitForResponse: `this' is released.
Leave(c) ==
  /\ pc'       = [pc EXCEPT ![c] = "idle"]
  /\ waiterOf' = [waiterOf EXCEPT ![c] = 0]
  /\ monitor'  = None

\* Entry: take `this'; checkThread launches a parse thread if there is none.  A
\* stored parseThreadException is rethrown instead, and nothing changes.
Enter(c) ==
  /\ pc[c] = "idle" /\ monitor = None
  /\ ~ Failed
  /\ MayWrite
  /\ pc'      = [pc EXCEPT ![c] = "entered"]
  /\ monitor' = c
  /\ parsers' = IF parsers = <<>> THEN <<Fresh>> ELSE parsers
  /\ UNCHANGED <<waiterOf, lock, waiters, responses, sent, wire>>

\* Take `waiters', write and flush the command.  After Tor has gone the write
\* may still succeed: the bytes are lost.
Write(c) ==
  /\ pc[c] = "entered" /\ lock = None
  /\ lock'     = c
  /\ sent'     = sent + 1
  /\ waiterOf' = [waiterOf EXCEPT ![c] = sent + 1]
  /\ pc'       = [pc EXCEPT ![c] = "written"]
  /\ toTor'    = IF tor = "up"
                 THEN Append(toTor, [id |-> sent + 1, halt |-> FALSE])
                 ELSE toTor
  /\ UNCHANGED <<monitor, waiters, responses, parsers, fromTor, emitted, tor>>

\* write or flush throws: no waiter is queued.
WriteFails(c) ==
  /\ pc[c] = "entered" /\ lock = None
  /\ tor = "down"
  /\ Leave(c)
  /\ UNCHANGED <<lock, waiters, responses, parsers, sent, wire>>

\* waiters.addLast(w), still inside synchronized (waiters).
Queue(c) ==
  /\ pc[c] = "written" /\ lock = c
  /\ waiters' = Append(waiters, waiterOf[c])
  /\ lock'    = None
  /\ pc'      = [pc EXCEPT ![c] = "waiting"]
  /\ UNCHANGED <<waiterOf, monitor, responses, parsers, sent, wire>>

\* Waiter.getResponse returns; whether its lines are an error is seen after that.
Return(c) ==
  /\ pc[c] = "waiting"
  /\ \E r \in responses : r.waiter = waiterOf[c]
  /\ Leave(c)
  /\ UNCHANGED <<lock, waiters, responses, parsers, sent, wire>>

\* Waiter.getResponse is interrupted: the waiter stays in the list.
Interrupt(c) ==
  /\ pc[c] = "waiting"
  /\ \A r \in responses : r.waiter # waiterOf[c]
  /\ Leave(c)
  /\ UNCHANGED <<lock, waiters, responses, parsers, sent, wire>>

\* shutdownTor("HALT"): takes `waiters' but not `this', queues no waiter.
ShutdownTor ==
  /\ lock = None
  /\ MayWrite
  /\ sent'  = sent + 1
  /\ toTor' = IF tor = "up"
              THEN Append(toTor, [id |-> sent + 1, halt |-> TRUE])
              ELSE toTor
  /\ UNCHANGED <<caller, lock, waiters, responses, parsers, fromTor, emitted, tor>>

\* The thread that made the connection comes back to it, or one that read the field
\* after another had connected: launchThread asks for no other parse thread.
LaunchThread ==
  /\ monitor = None
  /\ Len(parsers) < MaxParsers
  /\ parsers' = Append(parsers, Fresh)
  /\ UNCHANGED <<caller, lock, waiters, responses, sent, wire>>

-----------------------------------------------------------------------------
(* The parse threads: react, readReply and handleEvent.                    *)

\* Parse thread p, at one of stages, calls readLine, which serves one thread at a
\* time; a line of one of kinds is there.
Reads(p, stages, kinds) ==
  /\ p \in 1..Len(parsers) /\ parsers[p].at \in stages
  /\ fromTor # <<>> /\ Head(fromTor).kind \in kinds
  /\ fromTor' = Tail(fromTor)
  /\ UNCHANGED <<caller, lock, waiters, responses, sent, toTor, emitted, tor>>

Becomes(p, at, line) == parsers' = [parsers EXCEPT ![p] = [at |-> at, line |-> line]]

\* The reply with one line more: its first line makes it an event or not.
Joined(p, first) ==
  [Head(fromTor) EXCEPT !.kind = IF parsers[p].at = "idle" THEN first
                                 ELSE parsers[p].line.kind]

ReadStatusLine(p) ==
  /\ Reads(p, {"idle", "half"}, {"mid", "plus", "end", "event"})
  /\ LET kind == Head(fromTor).kind
     IN Becomes(p, CASE kind = "mid"  -> "half"
                     [] kind = "plus" -> "block"
                     [] OTHER         -> "full",
                   Joined(p, IF kind = "event" THEN "event" ELSE "end"))

\* Inside a data block only "." counts, whatever reply a line belongs to.
ReadDataLine(p) ==
  /\ Reads(p, {"block"}, Kinds)
  /\ Becomes(p, IF Head(fromTor).kind = "dot" THEN "half" ELSE "block", parsers[p].line)

\* "Line too short", which the thread stores.
ReadShortLine(p) ==
  /\ Reads(p, {"idle", "half"}, {"dot", "stub"})
  /\ Becomes(p, "failed", NoLine)

\* The data of a block that another thread is reading, taken for a status line:
\* anything may come of it.
MisreadDataLine(p) ==
  /\ Reads(p, {"idle", "half"}, {"text"})
  /\ \/ Becomes(p, "failed", NoLine)
     \/ \E at \in {"half", "block", "full"}, first \in {"end", "misread"} :
          Becomes(p, at, Joined(p, first))

\* A 6xx reply: dispatched to the handler, if any, which throws on what is no event.
HandleEvent(p) ==
  /\ p \in 1..Len(parsers) /\ parsers[p].at = "full" /\ parsers[p].line.kind # "end"
  /\ \/ Becomes(p, "idle", NoLine)
     \/ parsers[p].line.kind = "misread" /\ Becomes(p, "crashed", NoLine)
  /\ UNCHANGED <<caller, lock, waiters, responses, sent, wire>>

Given(w, line) == [waiter |-> w, cmd |-> line.cmd, halt |-> line.halt]

\* Mutant: the list is read without synchronized (waiters).
HandOverUnlocked(p) ==
  /\ p \in 1..Len(parsers) /\ parsers[p].at = "full" /\ parsers[p].line.kind = "end"
  /\ Becomes(p, "idle", NoLine)
  /\ IF waiters = <<>>
     THEN UNCHANGED <<waiters, responses>>
     ELSE /\ waiters'   = Tail(waiters)
          /\ responses' = responses \cup {Given(Head(waiters), parsers[p].line)}
  /\ UNCHANGED <<caller, lock, sent, wire>>

\* Mutant: waiters.getFirst instead of waiters.removeFirst.
HandOverKeeps(p) ==
  /\ p \in 1..Len(parsers) /\ parsers[p].at = "full" /\ parsers[p].line.kind = "end"
  /\ lock = None /\ waiters # <<>>
  /\ Becomes(p, "idle", NoLine)
  /\ responses' = responses \cup {Given(Head(waiters), parsers[p].line)}
  /\ UNCHANGED <<caller, lock, waiters, sent, wire>>

\* Any other reply: under `waiters', the oldest waiter gets it; it is dropped
\* when nobody waits.
HandOver(p) ==
  /\ p \in 1..Len(parsers) /\ parsers[p].at = "full" /\ parsers[p].line.kind = "end"
  /\ lock = None
  /\ Becomes(p, "idle", NoLine)
  /\ IF waiters = <<>>
     THEN UNCHANGED <<waiters, responses>>
     ELSE /\ waiters'   = Tail(waiters)
          /\ responses' = responses \cup {Given(Head(waiters), parsers[p].line)}
  /\ UNCHANGED <<caller, lock, sent, wire>>

\* readLine returns null.  Between replies react returns; inside a reply
\* readReply throws TorControlSyntaxError, which the thread stores; inside a
\* '+' data block it dereferences null and the thread dies with nothing stored.
EndOfStream(p) ==
  /\ p \in 1..Len(parsers) /\ parsers[p].at \in {"idle", "half", "block"}
  /\ fromTor = <<>> /\ tor = "down"
  /\ Becomes(p, CASE parsers[p].at = "idle"  -> "ended"
                  [] parsers[p].at = "half"  -> "failed"
                  [] parsers[p].at = "block" -> "crashed", NoLine)
  /\ UNCHANGED <<caller, lock, waiters, responses, sent, wire>>

-----------------------------------------------------------------------------
(* Tor, an external process: it answers commands in the order it reads     *)
(* them, emits events, obeys SIGNAL HALT, and may die at any moment.       *)

Shapes == {<<"end">>, <<"mid", "end">>, <<"plus", "text", "dot", "end">>}

Lines(shape, command) ==
  [i \in 1..Len(shape) |-> [kind |-> shape[i], cmd |-> command.id, halt |-> command.halt]]

TorAnswers ==
  /\ tor = "up" /\ toTor # <<>> /\ ~ Head(toTor).halt
  /\ \E shape \in Shapes : fromTor' = fromTor \o Lines(shape, Head(toTor))
  /\ toTor' = Tail(toTor)
  /\ UNCHANGED <<caller, lock, waiters, responses, parsers, sent, emitted, tor>>

\* SIGNAL HALT: "250 OK" is flushed, then Tor exits; what it had not read is lost.
TorHalts ==
  /\ tor = "up" /\ toTor # <<>> /\ Head(toTor).halt
  /\ fromTor' = fromTor \o Lines(<<"end">>, Head(toTor))
  /\ toTor' = <<>> /\ tor' = "down"
  /\ UNCHANGED <<caller, lock, waiters, responses, parsers, sent, emitted>>

TorEmits ==
  /\ tor = "up" /\ emitted < MaxEvents
  /\ emitted' = emitted + 1
  /\ fromTor' = Append(fromTor, NoLine)
  /\ UNCHANGED <<caller, lock, waiters, responses, parsers, sent, toTor, tor>>

\* Tor dies: any suffix of what it wrote is lost, possibly from inside a line.
Stub == [kind |-> "stub", cmd |-> 0, halt |-> FALSE]

TorDies ==
  /\ tor = "up"
  /\ tor' = "down" /\ toTor' = <<>>
  /\ \E n \in 0..Len(fromTor) :
       \/ fromTor' = SubSeq(fromTor, 1, n)
       \/ n < Len(fromTor) /\ fromTor' = Append(SubSeq(fromTor, 1, n), Stub)
  /\ UNCHANGED <<caller, lock, waiters, responses, parsers, sent, emitted>>

-----------------------------------------------------------------------------
Call(c)  == \/ Enter(c) \/ Write(c) \/ WriteFails(c)
            \/ Queue(c) \/ Return(c) \/ Interrupt(c)
Parse(p) == \/ ReadStatusLine(p) \/ ReadDataLine(p) \/ ReadShortLine(p)
            \/ MisreadDataLine(p) \/ HandleEvent(p) \/ HandOver(p) \/ EndOfStream(p)
Tor      == TorAnswers \/ TorHalts \/ TorEmits \/ TorDies

Next == \/ \E c \in Callers : Call(c)
        \/ ShutdownTor \/ LaunchThread
        \/ \E p \in 1..Len(parsers) : Parse(p)
        \/ Tor

Spec == Init /\ [][Next]_vars

\* Runnable threads run, and a Tor that is up answers what it reads.
Fairness == /\ \A c \in Callers : /\ WF_vars(Write(c) \/ WriteFails(c))
                                  /\ WF_vars(Queue(c))
                                  /\ WF_vars(Return(c))
            /\ \A p \in 1..(MaxParsers + 1) : WF_vars(Parse(p))
            /\ WF_vars(TorAnswers \/ TorHalts)

FairSpec == Spec /\ Fairness

-----------------------------------------------------------------------------
(* Properties.                                                             *)

TypeOK ==
  /\ pc       \in [Callers -> {"idle", "entered", "written", "waiting"}]
  /\ waiterOf \in [Callers -> Nat]
  /\ monitor  \in Callers \cup {None}
  /\ lock     \in Callers \cup {None}
  /\ waiters  \in Seq(Nat)
  /\ responses \subseteq Reply
  /\ parsers  \in Seq(Parser)
  /\ sent     \in Nat
  /\ toTor    \in Seq(Command)
  /\ fromTor  \in Seq(Line)
  /\ emitted  \in Nat
  /\ tor      \in {"up", "down"}

\* Two parse threads read the same socket: each may get some of the lines of one
\* reply, and the one that read the older reply may be the second to hand its own over.
Doubled == Len(parsers) > 1

\* The reply that react is about to hand over answers the command of the
\* oldest waiter, and that waiter is already queued: a reply that beats the
\* sender to the list is never dropped or given to somebody else.  The reply to
\* HALT is the exception: shutdownTor queues no waiter for it.
HeadReplyFindsItsWaiter ==
  (/\ ~ Doubled /\ lock = None /\ parsers # <<>>
   /\ parsers[1].at = "full" /\ parsers[1].line.kind = "end" /\ ~ parsers[1].line.halt)
    => waiters # <<>> /\ Head(waiters) = parsers[1].line.cmd

\* Whatever a caller is told answers its own command, unless it is the reply to
\* a HALT that another thread sent through shutdownTor: then Tor is gone.
ReplyMatches ==
  \/ Doubled
  \/ \A r \in responses : r.cmd = r.waiter \/ (r.halt /\ tor = "down")

\* A waiter is answered at most once, and after that it is no longer queued:
\* Waiter.setResponse never overwrites a response, however many threads parse.
AnsweredOnce ==
  /\ \A r, s \in responses : r.waiter = s.waiter => r = s
  /\ \A r \in responses : \A i \in 1..Len(waiters) : waiters[i] # r.waiter

\* Replies are handed out in the order of the calls: once a waiter has its
\* answer, no older waiter is still queued.
OldestFirst ==
  \A r \in responses : \A i \in 1..Len(waiters) : r.waiter < waiters[i]

\* A caller blocked in sendAndWaitForResponse returns, as long as Tor lives and one
\* thread reads what it says.
CallReturns ==
  \A c \in Callers : pc[c] = "waiting" ~> (pc[c] = "idle" \/ tor = "down" \/ Doubled)

\* The connection implements the reply channel it promises: queue, answers and
\* the end of Tor are the waiters list, the Waiter responses and the socket.
Channel == INSTANCE ReplyChannel
             WITH issued <- sent, queue <- waiters, answers <- responses,
                  closed <- (tor = "down"), doubled <- Doubled

ImplementsChannel == Channel!Spec

-----------------------------------------------------------------------------
(* The inductive invariant behind the safety properties.  Order is all that *)
(* matches replies to waiters, so it says how the four queues line up while *)
(* one thread parses: the unread replies, then the unread commands, are in  *)
(* the order of the commands, and (HALT aside) they belong to the oldest    *)
(* waiters.                                                                 *)

\* What waits for its turn in react: the reply it has read, then the lines to come.
Unread == IF Len(parsers) = 1 /\ parsers[1].at = "full"
          THEN <<parsers[1].line>> \o fromTor ELSE fromTor

\* x is queued, or about to be by the thread inside synchronized (waiters).
Awaited(x) == \/ \E i \in 1..Len(waiters) : waiters[i] = x
              \/ lock # None /\ waiterOf[lock] = x

\* The last line of a reply.
IsReply(i) == i \in 1..Len(Unread) /\ Unread[i].kind = "end"

\* x will be answered unless Tor dies first.
Pending(x) == \/ \E i \in 1..Len(Unread) : IsReply(i) /\ ~ Unread[i].halt
                                              /\ Unread[i].cmd = x
              \/ \E i \in 1..Len(toTor) : ~ toTor[i].halt /\ toTor[i].id = x

\* Who holds `waiters' has written its command and not queued its waiter.
LockInv == \A c \in Callers : pc[c] = "written" <=> lock = c

\* Every queue is in the order the commands were written.
WaitersOrdered ==
  /\ \A i \in 1..Len(waiters) : waiters[i] <= sent
  /\ \A i, j \in 1..Len(waiters) : i < j => waiters[i] < waiters[j]
  /\ lock # None => /\ waiterOf[lock] = sent
                    /\ \A i \in 1..Len(waiters) : waiters[i] < sent

CommandsOrdered ==
  /\ \A i \in 1..Len(toTor) : toTor[i].id <= sent
  /\ \A i, j \in 1..Len(toTor) : i < j => toTor[i].id < toTor[j].id

RepliesOrdered ==
  /\ \A i \in 1..Len(Unread) : IsReply(i) => Unread[i].cmd <= sent
  /\ \A i, j \in 1..Len(Unread) :
       IsReply(i) /\ IsReply(j) /\ i < j => Unread[i].cmd < Unread[j].cmd
  /\ \A i \in 1..Len(Unread), j \in 1..Len(toTor) :
       IsReply(i) => Unread[i].cmd < toTor[j].id

\* Waiters leave the queue when they are answered, oldest first.
AnswerInv ==
  /\ \A r \in responses : r.waiter <= sent
  /\ lock # None => \A r \in responses : r.waiter < sent
  /\ OldestFirst
  /\ \A r, s \in responses : r.waiter = s.waiter => r = s

\* What is on the wire is awaited, and nothing older is awaited in vain; as
\* long as Tor lives nothing at all is.
MatchInv ==
  /\ \A x \in 0..sent : Pending(x) => Awaited(x)
  /\ \A x, y \in 0..sent : Awaited(x) /\ Pending(y) /\ x < y => Pending(x)
  /\ tor = "up" => \A x \in 0..sent : Awaited(x) => Pending(x)

\* The reply to HALT is the last thing Tor writes, and is read once.
HaltInv ==
  /\ tor = "down" => toTor = <<>>
  /\ \A i \in 1..Len(Unread) :
       Unread[i].kind = "end" /\ Unread[i].halt =>
         /\ tor = "down" /\ i = Len(Unread)
         /\ \A r \in responses : ~ r.halt
  /\ \A r \in responses : r.halt => tor = "down" /\ Len(Unread) = 0

\* The stream, line by line: what may come next while readReply is inside a reply,
\* and where a line takes it.
Mode     == IF Len(parsers) = 1 /\ parsers[1].at \in {"half", "block"}
            THEN parsers[1].at ELSE "idle"
After(k) == CASE k \in {"plus", "text"} -> "block"
              [] k \in {"mid", "dot"}   -> "half"
              [] OTHER                  -> "idle"
Expected(m) == CASE m = "block" -> {"text", "dot", "stub"}
              [] m = "half"  -> {"mid", "plus", "end", "stub"}
              [] OTHER       -> {"mid", "plus", "end", "event", "stub"}

ModeAt(i) == IF i = 1 THEN Mode ELSE After(fromTor[i - 1].kind)

\* The parse thread is where the stream is, and finds a reply whole.
StreamInv ==
  /\ \A i \in 1..Len(fromTor) : fromTor[i].kind \in Expected(ModeAt(i))
  /\ \A i \in 1..Len(fromTor) : fromTor[i].kind = "stub" => tor = "down" /\ i = Len(fromTor)
  /\ tor = "up" => ModeAt(Len(fromTor) + 1) = "idle"

\* It misreads nothing, and it is there as long as Tor lives.
ParserInv == parsers # <<>> =>
  /\ parsers[1].at \in {"half", "block"} => parsers[1].line.kind = "end"
  /\ parsers[1].at = "full" => parsers[1].line.kind \in {"end", "event"}
  /\ parsers[1].at \in {"ended", "failed", "crashed"} => tor = "down"

LinedUp == /\ CommandsOrdered /\ RepliesOrdered /\ MatchInv /\ HaltInv
           /\ StreamInv /\ ParserInv

IInv == /\ TypeOK /\ LockInv /\ WaitersOrdered /\ AnswerInv /\ ReplyMatches
        /\ Doubled \/ LinedUp
=============================================================================
