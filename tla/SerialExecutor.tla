--------------------------- MODULE SerialExecutor ---------------------------
(***************************************************************************)
(* What a shell promises those who add commands to it: the commands run    *)
(* one at a time, in the order they were added, and the code reported for  *)
(* one is the code it ended with.  A command may be given up before that,  *)
(* but a code that has been reported is never taken back.                  *)
(***************************************************************************)
EXTENDS Naturals, Sequences

CONSTANT Codes

VARIABLES results,  \* of the commands added: a code, "none" or "lost"
          ran       \* the codes of the commands that ran, oldest first

vars == <<results, ran>>

Init == results = <<>> /\ ran = <<>>

Add ==
  /\ results' = Append(results, "none")
  /\ UNCHANGED ran

Run ==
  /\ Len(ran) < Len(results)
  /\ \E c \in Codes : ran' = Append(ran, c)
  /\ UNCHANGED results

Report ==
  /\ \E i \in 1..Len(ran) : /\ results[i] \in {"none", "lost"}
                            /\ results' = [results EXCEPT ![i] = ran[i]]
  /\ UNCHANGED ran

GiveUp ==
  /\ \E i \in 1..Len(results) : /\ results[i] = "none"
                                /\ results' = [results EXCEPT ![i] = "lost"]
  /\ UNCHANGED ran

Next == Add \/ Run \/ Report \/ GiveUp

Spec == Init /\ [][Next]_vars
=============================================================================
