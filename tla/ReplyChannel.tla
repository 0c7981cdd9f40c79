---------------------------- MODULE ReplyChannel ----------------------------
(***************************************************************************)
(* What the control connection promises its callers, with the wire, the    *)
(* parse threads and the monitors left out: calls are answered in the      *)
(* order they were made, each once and with the answer to itself, until    *)
(* Tor is told to halt.  The answer to the halt may then be taken by the   *)
(* oldest call, and it is the last answer anyone gets.  Once two threads   *)
(* parse, an answer may be the answer to anything: what is left is that    *)
(* calls are answered in their order, each at most once.                   *)
(***************************************************************************)
EXTENDS Naturals, Sequences

VARIABLES issued,   \* commands numbered so far
          queue,    \* the unanswered calls, oldest first
          answers,  \* [waiter, cmd, halt]: who was given the answer to what
          closed,   \* Tor has gone
          doubled   \* a second parse thread was launched

vars == <<issued, queue, answers, closed, doubled>>

Init == issued = 0 /\ queue = <<>> /\ answers = {} /\ closed = FALSE /\ doubled = FALSE

Issue ==
  /\ issued' = issued + 1
  /\ UNCHANGED <<queue, answers, closed, doubled>>

\* A call joins the queue: it is younger than every call before it.
Submit ==
  /\ \E id \in 0..issued :
       /\ \A i \in 1..Len(queue) : queue[i] < id
       /\ \A a \in answers : a.waiter < id
       /\ queue' = Append(queue, id)
  /\ UNCHANGED <<issued, answers, closed, doubled>>

\* The oldest call gets an answer.
Give(cmd, halt) ==
  /\ queue # <<>>
  /\ answers' = answers \cup {[waiter |-> Head(queue), cmd |-> cmd, halt |-> halt]}
  /\ queue' = Tail(queue)
  /\ UNCHANGED <<issued, closed, doubled>>

Unhalted   == \A a \in answers : ~ a.halt
OwnAnswer  == Unhalted /\ Give(Head(queue), FALSE)
HaltAnswer == Unhalted /\ closed /\ \E cmd \in 0..issued : Give(cmd, TRUE)

\* The oldest call gets one answer, which may be the answer to anything.
AnyAnswer ==
  /\ doubled /\ queue # <<>>
  /\ queue' = Tail(queue)
  /\ \E a \in answers' : a.waiter = Head(queue) /\ answers' = answers \cup {a}
  /\ UNCHANGED <<issued, closed, doubled>>

Close ==
  /\ closed' = TRUE
  /\ UNCHANGED <<issued, queue, answers, doubled>>

Double ==
  /\ doubled' = TRUE
  /\ UNCHANGED <<issued, queue, answers, closed>>

Next == \/ Issue \/ Submit \/ OwnAnswer \/ HaltAnswer \/ AnyAnswer \/ Close \/ Double

Spec == Init /\ [][Next]_vars
=============================================================================
