-------------------------- MODULE RootShellProofs --------------------------
(***************************************************************************)
(* Proofs about RootShell: every exit code reaches the command it belongs  *)
(* to, and the shell implements a serial executor, for any callers, codes  *)
(* and bounds.                                                             *)
(***************************************************************************)
EXTENDS RootShell, TLAPS

\* What Append and Tail do to the pipes and the list.
LEMMA Appended ==
  ASSUME NEW S, NEW s \in Seq(S), NEW e \in S
  PROVE  /\ Append(s, e) \in Seq(S) /\ Len(Append(s, e)) = Len(s) + 1
         /\ \A i \in 1..Len(s) : Append(s, e)[i] = s[i]
         /\ Append(s, e)[Len(s) + 1] = e
         /\ Len(s) \in Nat
  OBVIOUS

LEMMA Tailed ==
  ASSUME NEW S, NEW s \in Seq(S), s # <<>>
  PROVE  /\ Tail(s) \in Seq(S) /\ Len(Tail(s)) = Len(s) - 1
         /\ Len(s) \in Nat \ {0} /\ Head(s) = s[1] /\ s[1] \in S
         /\ \A i \in 1..(Len(s) - 1) : Tail(s)[i] = s[i + 1]
  OBVIOUS

\* The parts of TypeOK that the steps use.
LEMMA Shapes ==
  ASSUME TypeOK
  PROVE  /\ commands \in Seq(Entry) /\ Len(commands) \in Nat
         /\ stdin \in Seq(Nat) /\ Len(stdin) \in Nat
         /\ stdout \in Seq(Line) /\ Len(stdout) \in Nat
         /\ ran \in Seq(Codes) /\ Len(ran) \in Nat
         /\ written \in Nat /\ running \in Nat /\ reader.index \in Nat
         /\ reader.have \in BOOLEAN
         /\ \A i \in 1..Len(commands) : commands[i] \in Entry
         /\ \A i \in 1..Len(stdout) : stdout[i] \in Line /\ stdout[i].id \in Nat
         /\ \A i \in 1..Len(ran) : ran[i] \in Codes
<1>1. /\ commands \in Seq(Entry) /\ stdin \in Seq(Nat) /\ stdout \in Seq(Line)
      /\ ran \in Seq(Codes) /\ written \in Nat /\ running \in Nat
      /\ reader.index \in Nat /\ reader.have \in BOOLEAN
  BY DEF TypeOK, Reader
<1>2. \A l \in Line : l.id \in Nat
  BY DEF Line
<1> QED  BY <1>1, <1>2

-----------------------------------------------------------------------------
(* Steps of the invariant.                                                 *)

\* A caller adds a command: the list grows, nothing else moves.
LEMMA AddStep ==
  ASSUME IInv, NEW c \in Callers, Add(c)
  PROVE  IInv'
<1> DEFINE new == [exit |-> "none", finished |-> FALSE, timedOut |-> FALSE]
<1>t. TypeOK  BY DEF IInv
<1>1. new \in Entry
  BY <1>t DEF TypeOK, Entry, Results
<1>2. commands' = Append(commands, new) /\ UNCHANGED <<close, threads, sh>>
      /\ mine' = [mine EXCEPT ![c] = Len(commands) + 1]
      /\ pc' = [pc EXCEPT ![c] = "waiting"]
  BY DEF Add
<1>3. /\ commands' \in Seq(Entry) /\ Len(commands') = Len(commands) + 1
      /\ \A i \in 1..Len(commands) : commands'[i] = commands[i]
      /\ commands'[Len(commands) + 1] = new
  BY <1>1, <1>2, <1>t, Shapes, Appended
<1> HIDE DEF new
<1>4. TypeOK'
  BY <1>2, <1>3, <1>t, Shapes DEF TypeOK, threads, sh
<1>5. InputInv'
  BY <1>2, <1>3, <1>t, Shapes DEF IInv, InputInv, Started, threads, sh
<1>6. OutputInv'
  BY <1>2 DEF IInv, OutputInv, Unread, threads, sh
<1>7. CodeInv'
  <2>1. new.exit = "none"  BY DEF new
  <2>2. \A i \in 1..Len(commands') : i \in 1..Len(commands) \/ i = Len(commands) + 1
    BY <1>3, <1>t, Shapes
  <2>3. \A d \in Callers : pc'[d] = "waiting" => mine'[d] \in 1..Len(commands')
    BY <1>2, <1>3, <1>t, Shapes DEF IInv, CodeInv, TypeOK
  <2>4. /\ reader'.index <= Len(commands')
        /\ reader'.have => reader'.index < Len(commands')
    BY <1>2, <1>3, <1>t, Shapes DEF IInv, CodeInv, threads
  <2>5. ASSUME NEW i \in 1..Len(commands')
        PROVE  /\ i > reader'.index => commands'[i].exit \in {"none", "lost"}
               /\ ~ commands'[i].finished => commands'[i].exit = "none"
    BY <1>2, <1>3, <2>1, <2>2 DEF IInv, CodeInv, threads
  <2> QED  BY <2>3, <2>4, <2>5 DEF CodeInv
<1> QED  BY <1>4, <1>5, <1>6, <1>7 DEF IInv

\* A caller gives up: its command has no code yet.
LEMMA TimeoutStep ==
  ASSUME IInv, NEW c \in Callers, Timeout(c)
  PROVE  IInv' /\ commands[mine[c]].exit = "none" /\ mine[c] \in 1..Len(commands)
<1> DEFINE k == mine[c]
<1>t. TypeOK  BY DEF IInv
<1>1. k \in 1..Len(commands) /\ commands[k].exit = "none" /\ commands[k] \in Entry
  BY <1>t, Shapes DEF Timeout, IInv, CodeInv
<1>2. /\ commands' = [commands EXCEPT ![k] = [commands[k] EXCEPT !.finished = TRUE,
                                        !.timedOut = TRUE, !.exit = "lost"]]
      /\ close' = TRUE /\ UNCHANGED <<threads, sh, mine>>
      /\ pc' = [pc EXCEPT ![c] = "idle"]
  BY DEF Timeout
<1>3. [commands[k] EXCEPT !.finished = TRUE, !.timedOut = TRUE, !.exit = "lost"]
        \in Entry
  BY <1>1 DEF Entry, Results
<1>4. /\ commands' \in Seq(Entry) /\ Len(commands') = Len(commands)
      /\ \A i \in 1..Len(commands) : i # k => commands'[i] = commands[i]
      /\ commands'[k].exit = "lost" /\ commands'[k].finished
  <2>1. Len(commands') = Len(commands) /\ commands' \in Seq(Entry)
    BY <1>1, <1>2, <1>3, <1>t, Shapes
  <2>2. \A i \in 1..Len(commands) : i # k => commands'[i] = commands[i]
    BY <1>1, <1>2, <1>t, Shapes
  <2>3. commands'[k].exit = "lost" /\ commands'[k].finished
    BY <1>1, <1>2, <1>t, Shapes DEF Entry
  <2> QED  BY <2>1, <2>2, <2>3
<1> HIDE DEF k
<1>5. TypeOK'
  BY <1>2, <1>4, <1>t DEF TypeOK, threads, sh
<1>6. InputInv' /\ OutputInv'
  BY <1>2, <1>4 DEF IInv, InputInv, OutputInv, Started, Unread, threads, sh
<1>7. CodeInv'
  <2>1. \A d \in Callers : pc'[d] = "waiting" => mine'[d] \in 1..Len(commands')
    BY <1>2, <1>4, <1>t DEF IInv, CodeInv, TypeOK
  <2>2. ASSUME NEW i \in 1..Len(commands')
        PROVE  /\ i > reader'.index => commands'[i].exit \in {"none", "lost"}
               /\ ~ commands'[i].finished => commands'[i].exit = "none"
    BY <1>2, <1>4 DEF IInv, CodeInv, threads
  <2> QED  BY <2>1, <2>2, <1>2, <1>4 DEF IInv, CodeInv, threads
<1> QED  BY <1>1, <1>5, <1>6, <1>7 DEF IInv, k

\* The steps that move no command, token or code.
LEMMA QuietStep ==
  ASSUME IInv,
         \/ \E c \in Callers : AddCheck(c) \/ Finished(c)
         \/ CloseShell \/ WriteUnread \/ InputEnds \/ BreakOnClose \/ EndOfOutput
         \/ Leaves
  PROVE  IInv' /\ UNCHANGED <<commands, ran>>
<1>1. CASE \E c \in Callers : AddCheck(c) \/ Finished(c)
  <2>1. PICK c \in Callers : AddCheck(c) \/ Finished(c)  BY <1>1
  <2>2. PICK p \in {"checked", "idle"} : pc' = [pc EXCEPT ![c] = p]
    BY <2>1 DEF AddCheck, Finished
  <2>3. UNCHANGED <<commands, close, written, input, reader, stdin, stdout, running,
                    process, held, ran, mine>>
    BY <2>1 DEF AddCheck, Finished, threads, sh
  <2>4. pc' \in [Callers -> {"idle", "checked", "waiting"}]
        /\ \A d \in Callers : pc'[d] = "waiting" => pc[d] = "waiting"
    BY <2>2 DEF IInv, TypeOK
  <2>5. TypeOK' /\ InputInv' /\ OutputInv'
    BY <2>3, <2>4 DEF IInv, TypeOK, InputInv, OutputInv, Started, Unread
  <2>6. CodeInv'
    BY <2>3, <2>4 DEF IInv, CodeInv
  <2> QED  BY <2>3, <2>5, <2>6 DEF IInv
<1>2. CASE CloseShell
  BY <1>2 DEF CloseShell, IInv, TypeOK, InputInv, OutputInv, CodeInv, Started, Unread,
              threads, sh, users
<1>3. CASE InputEnds
  <2>1. /\ process # "up" /\ input' = "ended"
        /\ UNCHANGED <<commands, close, written, reader, stdin, stdout, running,
                       process, held, ran, pc, mine>>
    BY <1>3 DEF InputEnds, sh, users
  <2>2. TypeOK' /\ OutputInv' /\ CodeInv'
    BY <2>1 DEF IInv, TypeOK, OutputInv, CodeInv, Unread
  <2>3. InputInv'
    BY <2>1 DEF IInv, InputInv, Started
  <2> QED  BY <2>1, <2>2, <2>3 DEF IInv
<1>4. CASE WriteUnread
  <2>1. /\ process # "up"
        /\ \/ written < Len(commands) /\ written' = written + 1 /\ UNCHANGED input
           \/ written' = written /\ input' = "exiting"
        /\ UNCHANGED <<commands, close, reader, stdin, stdout, running, process, held,
                       ran, pc, mine>>
    BY <1>4 DEF WriteUnread, sh, users
  <2>2. TypeOK' /\ OutputInv' /\ CodeInv'
    BY <2>1 DEF IInv, TypeOK, OutputInv, CodeInv, Unread
  <2>3. written \in Nat /\ Len(commands) \in Nat /\ Len(ran) \in Nat
    BY Shapes DEF IInv
  <2>4. written' <= Len(commands) /\ written <= written' /\ Len(ran) <= written'
    BY <2>1, <2>3 DEF IInv, InputInv
  <2>5. ASSUME NEW i \in 1..Len(stdin)
        PROVE  \/ stdin[i] = Started + i /\ stdin[i] <= written'
               \/ stdin[i] = Exit /\ i = Len(stdin) /\ input' # "running"
    <3>1. stdin[i] \in Nat
      BY <2>5 DEF IInv, TypeOK
    <3> QED  BY <2>1, <2>3, <2>4, <3>1 DEF IInv, InputInv
  <2>6. running = 0
    BY <2>1 DEF IInv, InputInv
  <2>7. InputInv'
    BY <2>1, <2>4, <2>5, <2>6 DEF InputInv, Started
  <2> QED  BY <2>1, <2>2, <2>7 DEF IInv
<1>5. CASE Leaves
  <2>1. UNCHANGED <<commands, close, threads, stdin, stdout, running, process, ran, users>>
        /\ held' \in BOOLEAN
    BY <1>5 DEF Leaves
  <2> QED
    BY <2>1 DEF IInv, TypeOK, InputInv, OutputInv, CodeInv, Started, Unread, threads, users
<1>6. CASE BreakOnClose \/ EndOfOutput
  <2>1. PICK p \in {"leaving", "read"} :
          /\ reader' = [reader EXCEPT !.pc = p]
          /\ p = "read" => reader.pc = "idle"
    BY <1>6 DEF BreakOnClose, EndOfOutput
  <2>2. UNCHANGED <<commands, close, written, input, stdin, stdout, running, process, held,
                    ran, pc, mine>>
    BY <1>6 DEF BreakOnClose, EndOfOutput, sh, users
  <2>3. /\ reader'.index = reader.index /\ reader'.have = reader.have
        /\ reader'.pc = p
        /\ reader' \in Reader
    BY <2>1 DEF IInv, TypeOK, Reader
  <2>4. TypeOK' /\ InputInv' /\ CodeInv'
    BY <2>2, <2>3 DEF IInv, TypeOK, InputInv, CodeInv, Started
  <2>5. OutputInv'
    BY <2>1, <2>2, <2>3 DEF IInv, OutputInv, Unread
  <2> QED  BY <2>2, <2>4, <2>5 DEF IInv
<1> QED  BY <1>1, <1>2, <1>3, <1>4, <1>5, <1>6

\* The input thread writes a command or exit 0 at the end of the pipe.
LEMMA WriteStep ==
  ASSUME IInv, WriteCommand \/ WriteExit
  PROVE  IInv' /\ UNCHANGED <<commands, ran>>
<1>t. TypeOK  BY DEF IInv
<1>1. PICK e \in Nat :
        /\ input = "running" /\ process = "up" /\ stdin' = Append(stdin, e)
        /\ \/ /\ e = written + 1 /\ written' = written + 1 /\ UNCHANGED input
              /\ written < Len(commands)
           \/ e = Exit /\ input' = "exiting" /\ UNCHANGED written
  BY <1>t, Shapes DEF WriteCommand, WriteExit, Exit
<1>2. UNCHANGED <<commands, close, reader, stdout, running, process, held, ran, pc, mine>>
  BY DEF WriteCommand, WriteExit, users
<1>3. /\ stdin' \in Seq(Nat) /\ Len(stdin') = Len(stdin) + 1
      /\ \A i \in 1..Len(stdin) : stdin'[i] = stdin[i]
      /\ stdin'[Len(stdin) + 1] = e
  BY <1>1, <1>t, Shapes, Appended
<1>4. TypeOK'
  BY <1>1, <1>2, <1>3, <1>t DEF TypeOK
<1>5. OutputInv' /\ CodeInv'
  BY <1>2 DEF IInv, OutputInv, CodeInv, Unread
<1>6. InputInv'
  <2>1. Started' = Started /\ Started \in Nat
    BY <1>2, <1>t, Shapes DEF Started
  <2>2. written = Started + Len(stdin)
    BY <1>1 DEF IInv, InputInv
  <2>3. \A i \in 1..Len(stdin) : stdin[i] = Started + i /\ stdin[i] <= written
    BY <1>1 DEF IInv, InputInv
  <2>4. \A i \in 1..Len(stdin') : i \in 1..Len(stdin) \/ i = Len(stdin')
    BY <1>3, <1>t, Shapes
  <2>5. /\ written' <= Len(commands') /\ Len(ran') <= written'
        /\ running' # 0 => process' = "up" /\ running' = Len(ran') + 1
                           /\ running' <= written'
        /\ input' = "running" /\ process' = "up" => written' = Started' + Len(stdin')
    BY <1>1, <1>2, <1>3, <2>1, <2>2, <1>t, Shapes DEF IInv, InputInv
  <2>6. ASSUME NEW i \in 1..Len(stdin')
        PROVE  \/ stdin'[i] = Started' + i /\ stdin'[i] <= written'
               \/ stdin'[i] = Exit /\ i = Len(stdin') /\ input' # "running"
    <3>1. CASE i \in 1..Len(stdin)
      BY SMTT(20), <3>1, <1>1, <1>3, <2>1, <2>3, <1>t, Shapes
    <3>2. CASE i = Len(stdin')
      BY <3>2, <1>1, <1>3, <2>1, <2>2, <1>t, Shapes
    <3> QED  BY <3>1, <3>2, <2>4
  <2> QED  BY <2>5, <2>6 DEF InputInv
<1> QED  BY <1>2, <1>4, <1>5, <1>6 DEF IInv

\* The shell takes the next line of its input.
LEMMA ReadsStep ==
  ASSUME IInv, ShellReads
  PROVE  IInv' /\ UNCHANGED <<commands, ran>>
<1>t. TypeOK  BY DEF IInv
<1>1. /\ process = "up" /\ running = 0 /\ stdin # <<>> /\ stdin' = Tail(stdin)
      /\ \/ stdin[1] = Exit /\ process' = "exited" /\ UNCHANGED running
         \/ stdin[1] # Exit /\ running' = stdin[1] /\ UNCHANGED process
      /\ UNCHANGED <<commands, close, written, input, reader, stdout, held, ran, pc,
                     mine>>
  BY <1>t, Shapes, Tailed DEF ShellReads, threads, users
<1>2. /\ stdin' \in Seq(Nat) /\ Len(stdin') = Len(stdin) - 1
      /\ Len(stdin) \in Nat \ {0} /\ stdin[1] \in Nat
      /\ \A i \in 1..Len(stdin') : stdin'[i] = stdin[i + 1] /\ i + 1 \in 1..Len(stdin)
  <2>1. /\ Tail(stdin) \in Seq(Nat) /\ Len(Tail(stdin)) = Len(stdin) - 1
        /\ Len(stdin) \in Nat \ {0} /\ stdin[1] \in Nat
        /\ \A i \in 1..(Len(stdin) - 1) : Tail(stdin)[i] = stdin[i + 1]
    BY <1>1, <1>t, Shapes, Tailed
  <2> QED  BY <1>1, <2>1
<1>3. TypeOK'
  BY <1>1, <1>2, <1>t DEF TypeOK
<1>4. OutputInv' /\ CodeInv'
  BY <1>1 DEF IInv, OutputInv, CodeInv, Unread
<1>5. InputInv'
  <2>1. Started = Len(ran) /\ Started \in Nat
    BY <1>1, <1>t, Shapes DEF Started
  <2>2. \/ stdin[1] = Started + 1 /\ stdin[1] <= written
        \/ stdin[1] = Exit /\ 1 = Len(stdin) /\ input # "running"
    BY <1>2 DEF IInv, InputInv
  <2>3. CASE stdin[1] = Exit
    <3>1. Len(stdin') = 0 /\ process' = "exited" /\ running' = 0
          /\ stdin[1] # Started + 1
      BY <2>1, <2>3, <1>1, <1>2, <2>2 DEF Exit
    <3> QED  BY <3>1, <1>1 DEF IInv, InputInv
  <2>4. CASE stdin[1] # Exit
    <3>1. running' = Len(ran) + 1 /\ running' # 0 /\ Started' = Started + 1
          /\ running' <= written
      BY <1>1, <2>1, <2>2, <2>4, <1>t, Shapes DEF Started
    <3>2. ASSUME NEW i \in 1..Len(stdin')
          PROVE  \/ stdin'[i] = Started' + i /\ stdin'[i] <= written'
                 \/ stdin'[i] = Exit /\ i = Len(stdin') /\ input' # "running"
      <4>1. \/ stdin[i + 1] = Started + (i + 1) /\ stdin[i + 1] <= written
            \/ stdin[i + 1] = Exit /\ i + 1 = Len(stdin) /\ input # "running"
        BY <1>2 DEF IInv, InputInv
      <4>2. i \in Nat /\ stdin'[i] = stdin[i + 1] /\ written' = written
            /\ input' = input
        BY <1>1, <1>2
      <4> QED  BY <4>1, <4>2, <3>1, <2>1, <1>2
    <3>3. /\ written' <= Len(commands') /\ Len(ran') <= written'
          /\ input' = "running" /\ process' = "up" => written' = Started' + Len(stdin')
      <4>1. /\ written <= Len(commands) /\ Len(ran) <= written
            /\ input = "running" => written = Started + Len(stdin)
        BY <1>1 DEF IInv, InputInv
      <4> QED  BY <4>1, <3>1, <2>1, <1>1, <1>2
    <3> QED  BY <3>1, <3>2, <3>3, <1>1, <2>4 DEF InputInv
  <2> QED  BY <2>3, <2>4
<1> QED  BY <1>1, <1>3, <1>4, <1>5 DEF IInv

\* A command of the shell prints, or something left behind does.
LEMMA PrintsStep ==
  ASSUME IInv, Prints
  PROVE  IInv' /\ UNCHANGED <<commands, ran>>
<1>t. TypeOK  BY DEF IInv
<1>1. /\ stdout' = Append(stdout, Output) /\ Output \in Line /\ Output.id = 0
      /\ UNCHANGED <<commands, close, written, input, reader, stdin, running, process, held,
                     ran, pc, mine>>
  BY DEF Prints, threads, users, Output, Line
<1>2. /\ stdout' \in Seq(Line) /\ Len(stdout') = Len(stdout) + 1
      /\ \A i \in 1..Len(stdout) : stdout'[i] = stdout[i]
      /\ stdout'[Len(stdout) + 1] = Output
  BY <1>1, <1>t, Shapes, Appended
<1>3. TypeOK' /\ InputInv' /\ CodeInv'
  BY <1>1, <1>2 DEF IInv, TypeOK, InputInv, CodeInv, Started
<1>4. OutputInv'
  <2> SUFFICES ASSUME reader.pc \in {"read", "idle"}
               PROVE  OutputInv'
    BY <1>1 DEF OutputInv
  <2>1. \A i \in 1..Len(stdout') :
          Unread(i)' => i \in 1..Len(stdout) /\ Unread(i) /\ stdout'[i] = stdout[i]
    BY <1>1, <1>2, <1>t, Shapes DEF Unread
  <2>2. \A n \in (reader.index + 1)..Len(ran) :
          \E i \in 1..Len(stdout') : stdout'[i].id = n
    <3>1. \A i \in 1..Len(stdout) : i \in 1..Len(stdout')
      BY <1>2, <1>t, Shapes
    <3> QED  BY <1>2, <3>1 DEF IInv, OutputInv
  <2>3. /\ \A i \in 1..Len(stdout') : Unread(i)' =>
              /\ reader.index < stdout'[i].id /\ stdout'[i].id <= Len(ran)
              /\ stdout'[i].code = ran[stdout'[i].id]
        /\ \A i, j \in 1..Len(stdout') :
             i < j /\ Unread(i)' /\ Unread(j)' => stdout'[i].id < stdout'[j].id
        /\ reader.index <= Len(ran)
    BY <2>1 DEF IInv, OutputInv
  <2> QED  BY <1>1, <2>2, <2>3 DEF OutputInv, Unread
<1> QED  BY <1>1, <1>3, <1>4 DEF IInv

\* A command ends: its token is the youngest.
LEMMA EndsStep ==
  ASSUME IInv, Ends
  PROVE  IInv' /\ UNCHANGED commands /\ Len(ran) < Len(commands)
         /\ \E c \in Codes : ran' = Append(ran, c)
<1>t. TypeOK  BY DEF IInv
<1>1. PICK c \in Codes : /\ stdout' = Append(stdout, Token(running, c))
                         /\ ran' = Append(ran, c)
  BY DEF Ends
<1>2. /\ running # 0 /\ running' = 0
      /\ UNCHANGED <<commands, close, written, input, reader, stdin, process, held, pc,
                     mine>>
  BY DEF Ends, threads, users
<1>3. /\ process = "up" /\ running = Len(ran) + 1 /\ running <= written
      /\ written <= Len(commands)
  BY <1>2 DEF IInv, InputInv
<1> DEFINE tok == Token(running, c)
<1>4. tok \in Line /\ tok.id = running /\ tok.code = c
  BY <1>t, Shapes DEF Token, Line
<1> HIDE DEF tok
<1>5. /\ stdout' \in Seq(Line) /\ Len(stdout') = Len(stdout) + 1
      /\ \A i \in 1..Len(stdout) : stdout'[i] = stdout[i]
      /\ stdout'[Len(stdout) + 1] = tok
  BY <1>1, <1>4, <1>t, Shapes, Appended DEF tok
<1>6. /\ ran' \in Seq(Codes) /\ Len(ran') = Len(ran) + 1
      /\ \A i \in 1..Len(ran) : ran'[i] = ran[i]
      /\ ran'[Len(ran) + 1] = c
  BY <1>1, <1>t, Shapes, Appended
<1>7. TypeOK'
  BY <1>2, <1>5, <1>6, <1>t DEF TypeOK
<1>8. CodeInv'
  BY <1>2 DEF IInv, CodeInv
<1>9. InputInv'
  <2>1. Started' = Started /\ Len(ran') <= written
    BY <1>2, <1>3, <1>6, <1>t, Shapes DEF Started
  <2> QED  BY <2>1, <1>2 DEF IInv, InputInv
<1>10. OutputInv'
  <2> SUFFICES ASSUME reader.pc \in {"read", "idle"}
               PROVE  OutputInv'
    BY <1>2 DEF OutputInv
  <2>1. \A i \in 1..Len(stdout') : i \in 1..Len(stdout) \/ i = Len(stdout) + 1
    BY <1>5, <1>t, Shapes
  <2>2. \A i \in 1..Len(stdout) : Unread(i) =>
          /\ reader.index < stdout[i].id /\ stdout[i].id \in 1..Len(ran)
          /\ stdout[i].code = ran[stdout[i].id]
    BY <1>t, Shapes DEF IInv, OutputInv, Unread
  <2>3. reader.index <= Len(ran)
    BY DEF IInv, OutputInv
  <2>4. ASSUME NEW i \in 1..Len(stdout'), stdout'[i].id # 0
        PROVE  /\ reader.index < stdout'[i].id /\ stdout'[i].id <= Len(ran')
               /\ stdout'[i].code = ran'[stdout'[i].id]
    <3>1. CASE i \in 1..Len(stdout)
      <4>1. stdout'[i] = stdout[i] /\ stdout[i].id \in 1..Len(ran)
            /\ reader.index < stdout[i].id /\ stdout[i].code = ran[stdout[i].id]
        BY <3>1, <2>2, <2>4, <1>5 DEF Unread
      <4>2. ran'[stdout[i].id] = ran[stdout[i].id] /\ stdout[i].id <= Len(ran')
        BY <4>1, <1>6, <1>t, Shapes
      <4> QED  BY <4>1, <4>2
    <3>2. CASE i = Len(stdout) + 1
      <4>1. stdout'[i].id = Len(ran) + 1 /\ stdout'[i].code = ran'[Len(ran) + 1]
        BY <3>2, <1>3, <1>4, <1>5, <1>6
      <4> QED  BY <4>1, <2>3, <1>6, <1>t, Shapes
    <3> QED  BY <3>1, <3>2, <2>1
  <2>5. ASSUME NEW i \in 1..Len(stdout'), NEW j \in 1..Len(stdout'), i < j,
               stdout'[i].id # 0, stdout'[j].id # 0
        PROVE  stdout'[i].id < stdout'[j].id
    <3>1. i \in 1..Len(stdout) /\ stdout'[i] = stdout[i] /\ Unread(i)
      BY <2>1, <2>5, <1>5, <1>t, Shapes DEF Unread
    <3>2. CASE j \in 1..Len(stdout)
      BY <3>1, <3>2, <2>5, <1>5 DEF IInv, OutputInv, Unread
    <3>3. CASE j = Len(stdout) + 1
      BY <3>1, <3>3, <2>2, <1>3, <1>4, <1>5, <1>t, Shapes
    <3> QED  BY <3>2, <3>3, <2>1
  <2>6. ASSUME NEW n \in (reader.index + 1)..Len(ran')
        PROVE  \E i \in 1..Len(stdout') : stdout'[i].id = n
    <3>1. CASE n = Len(ran) + 1
      <4>1. Len(stdout) + 1 \in 1..Len(stdout')
        BY <1>5, <1>t, Shapes
      <4> QED  BY <3>1, <4>1, <1>3, <1>4, <1>5
    <3>2. CASE n \in (reader.index + 1)..Len(ran)
      <4>1. PICK i \in 1..Len(stdout) : stdout[i].id = n
        BY <3>2 DEF IInv, OutputInv
      <4> QED  BY <4>1, <1>5, <1>t, Shapes
    <3> QED  BY <3>1, <3>2, <1>6, <1>t, Shapes
  <2>7. reader.index <= Len(ran')
    BY <2>3, <1>6, <1>t, Shapes
  <2> QED  BY <1>2, <2>4, <2>5, <2>6, <2>7 DEF OutputInv, Unread
<1>11. Len(ran) < Len(commands)
  BY <1>3, <1>t, Shapes
<1> QED  BY <1>1, <1>2, <1>7, <1>8, <1>9, <1>10, <1>11 DEF IInv

\* The shell is killed: its input and its command are gone, its output is not.
LEMMA KilledStep ==
  ASSUME IInv, Killed
  PROVE  IInv' /\ UNCHANGED <<commands, ran>>
<1>1. /\ process' = "killed" /\ running' = 0 /\ stdin' = <<>> /\ held' \in BOOLEAN
      /\ UNCHANGED <<commands, close, written, input, reader, stdout, ran, pc, mine>>
  BY DEF Killed, threads, users, IInv, TypeOK
<1>2. stdin' \in Seq(Nat) /\ Len(stdin') = 0
  BY <1>1
<1>3. TypeOK' /\ OutputInv' /\ CodeInv'
  BY <1>1, <1>2 DEF IInv, TypeOK, OutputInv, CodeInv, Unread
<1>4. InputInv'
  BY <1>1, <1>2 DEF IInv, InputInv
<1> QED  BY <1>1, <1>3, <1>4 DEF IInv

\* Reading the next line drops it from the pipe.
LEMMA LineRead ==
  ASSUME TypeOK, stdout # <<>>, stdout' = Tail(stdout)
  PROVE  /\ stdout' \in Seq(Line) /\ Len(stdout') = Len(stdout) - 1
         /\ Head(stdout) = stdout[1] /\ stdout[1] \in Line /\ 1 \in 1..Len(stdout)
         /\ \A i \in 1..Len(stdout') : stdout'[i] = stdout[i + 1]
                                       /\ i + 1 \in 1..Len(stdout)
         /\ \A i \in 2..Len(stdout) : stdout'[i - 1] = stdout[i]
                                      /\ i - 1 \in 1..Len(stdout')
<1>1. /\ Tail(stdout) \in Seq(Line) /\ Len(Tail(stdout)) = Len(stdout) - 1
      /\ Len(stdout) \in Nat \ {0} /\ Head(stdout) = stdout[1] /\ stdout[1] \in Line
      /\ \A i \in 1..(Len(stdout) - 1) : Tail(stdout)[i] = stdout[i + 1]
  BY Shapes, Tailed
<1> QED  BY <1>1

\* The first unread token is that of the oldest command without a code.
LEMMA FirstToken ==
  ASSUME IInv, reader.pc = "read", stdout # <<>>, stdout[1].id # 0
  PROVE  stdout[1].id = reader.index + 1 /\ reader.index < Len(ran)
         /\ Len(ran) <= Len(commands) /\ stdout[1].code = ran[reader.index + 1]
<1>t. TypeOK  BY DEF IInv
<1>1. 1 \in 1..Len(stdout) /\ stdout[1].id \in Nat
  BY <1>t, Shapes
<1>2. /\ reader.index < stdout[1].id /\ stdout[1].id <= Len(ran)
      /\ stdout[1].code = ran[stdout[1].id]
  BY <1>1 DEF IInv, OutputInv, Unread
<1>3. reader.index + 1 \in (reader.index + 1)..Len(ran)
  BY SMTT(20), <1>1, <1>2, <1>t, Shapes
<1>4. PICK i \in 1..Len(stdout) : stdout[i].id = reader.index + 1
  BY <1>3 DEF IInv, OutputInv
<1>5. i = 1
  <2> SUFFICES ASSUME 1 < i PROVE FALSE
    BY <1>4, <1>t, Shapes
  <2>1. stdout[1].id < stdout[i].id
    BY <1>1, <1>4, <1>t, Shapes DEF IInv, OutputInv, Unread
  <2> QED  BY <2>1, <1>1, <1>2, <1>4, <1>t, Shapes
<1>6. Len(ran) <= Len(commands)
  BY <1>t, Shapes DEF IInv, InputInv
<1> QED  BY <1>2, <1>3, <1>4, <1>5, <1>6, <1>t, Shapes

\* The output thread reads a line that is no token of the current command.
LEMMA LineStep ==
  ASSUME IInv, ReadLine \/ ReadNothing
  PROVE  IInv' /\ UNCHANGED <<commands, ran>>
<1>t. TypeOK  BY DEF IInv
<1>1. /\ reader.pc = "read" /\ stdout # <<>> /\ stdout' = Tail(stdout)
      /\ UNCHANGED <<commands, close, written, input, stdin, running, process, held, ran,
                     pc, mine>>
  BY DEF ReadLine, ReadNothing, users
<1>2. stdout[1].id = 0
  <2> SUFFICES ASSUME stdout[1].id # 0 PROVE FALSE
    OBVIOUS
  <2>1. stdout[1].id = reader.index + 1 /\ reader.index < Len(commands)
    BY <1>1, FirstToken, <1>t, Shapes
  <2> QED  BY <2>1, <1>1, <1>t, LineRead DEF ReadLine, ReadNothing, HasCommand
<1>3. /\ reader' \in Reader
      /\ reader'.index = reader.index /\ reader'.pc \in {"read", "idle"}
      /\ reader'.have => reader.index < Len(commands)
  <2>1. CASE ReadLine
    BY <2>1, <1>t DEF ReadLine, TypeOK, Reader, HasCommand, IInv, CodeInv
  <2>2. CASE ReadNothing
    BY <2>2, <1>t DEF ReadNothing, TypeOK, Reader, HasCommand
  <2> QED  BY <2>1, <2>2
<1>4. TypeOK' /\ InputInv' /\ CodeInv'
  BY <1>1, <1>3, <1>t, LineRead DEF IInv, TypeOK, InputInv, CodeInv, Started
<1>5. OutputInv'
  <2>1. /\ reader.index <= Len(ran)
        /\ \A i \in 1..Len(stdout') : stdout'[i].id # 0 =>
             /\ reader.index < stdout'[i].id /\ stdout'[i].id <= Len(ran)
             /\ stdout'[i].code = ran[stdout'[i].id]
    BY <1>1, <1>t, LineRead DEF IInv, OutputInv, Unread
  <2>2. ASSUME NEW i \in 1..Len(stdout'), NEW j \in 1..Len(stdout'), i < j,
               stdout'[i].id # 0, stdout'[j].id # 0
        PROVE  stdout'[i].id < stdout'[j].id
    <3>1. /\ i + 1 \in 1..Len(stdout) /\ j + 1 \in 1..Len(stdout) /\ i + 1 < j + 1
          /\ stdout'[i] = stdout[i + 1] /\ stdout'[j] = stdout[j + 1]
      BY <1>1, <1>t, <2>2, LineRead
    <3> QED  BY <1>1, <2>2, <3>1 DEF IInv, OutputInv, Unread
  <2>3. ASSUME NEW n \in (reader.index + 1)..Len(ran)
        PROVE  \E i \in 1..Len(stdout') : stdout'[i].id = n
    <3>1. PICK i \in 1..Len(stdout) : stdout[i].id = n
      BY <1>1 DEF IInv, OutputInv
    <3>2. i \in 2..Len(stdout)
      BY <3>1, <1>2, <1>t, Shapes
    <3> QED  BY <3>1, <3>2, <1>1, <1>t, LineRead
  <2> QED  BY <1>1, <1>3, <2>1, <2>2, <2>3 DEF OutputInv, Unread
<1> QED  BY <1>1, <1>4, <1>5 DEF IInv

\* The output thread sets an exit code, read from a token or -1.
LEMMA CodeSet ==
  ASSUME IInv, NEW k \in 1..Len(commands), NEW v \in Results,
         SetExitCode(k, v)
  PROVE  /\ commands' \in Seq(Entry) /\ Len(commands') = Len(commands)
         /\ \A i \in 1..Len(commands) : i # k => commands'[i] = commands[i]
         /\ commands'[k].exit = v /\ commands'[k].finished
<1>t. TypeOK  BY DEF IInv
<1>1. commands[k] \in Entry /\ commands \in Seq(Entry)
  BY <1>t, Shapes
<1>2. [commands[k] EXCEPT !.exit = v, !.finished = TRUE] \in Entry
  BY <1>1 DEF Entry
<1>3. commands' = [commands EXCEPT ![k] = [commands[k] EXCEPT !.exit = v,
                                                              !.finished = TRUE]]
  BY DEF SetExitCode
<1>4. commands' \in Seq(Entry) /\ Len(commands') = Len(commands)
  BY <1>1, <1>2, <1>3
<1>5. \A i \in 1..Len(commands) : i # k => commands'[i] = commands[i]
  BY <1>1, <1>3
<1>6. commands'[k].exit = v /\ commands'[k].finished
  BY <1>1, <1>3 DEF Entry
<1> QED  BY <1>4, <1>5, <1>6

\* The output thread goes on to the next command.
LEMMA NextCommand ==
  ASSUME reader \in Reader, reader' = [reader EXCEPT !.index = @ + 1, !.have = FALSE]
  PROVE  /\ reader' \in Reader /\ reader'.index = reader.index + 1
         /\ reader'.pc = reader.pc /\ reader'.have = FALSE
<1>1. reader' = [pc |-> reader.pc, index |-> reader.index + 1, have |-> FALSE]
  BY DEF Reader
<1>2. reader.pc \in {"read", "idle", "leaving", "ended"} /\ reader.index + 1 \in Nat
  BY DEF Reader
<1>3. reader' \in Reader
  BY <1>1, <1>2 DEF Reader
<1> QED  BY <1>1, <1>3

\* The output thread reads the token of the current command.
LEMMA TokenStep ==
  ASSUME IInv, ReadToken
  PROVE  /\ IInv' /\ UNCHANGED ran /\ reader.index + 1 \in 1..Len(ran)
         /\ reader.index + 1 \in 1..Len(commands)
         /\ SetExitCode(reader.index + 1, ran[reader.index + 1])
<1> DEFINE k == reader.index + 1
<1>t. TypeOK  BY DEF IInv
<1>1. /\ reader.pc = "read" /\ stdout # <<>> /\ stdout' = Tail(stdout)
      /\ Head(stdout).id = k
      /\ SetExitCode(k, Head(stdout).code)
      /\ reader' = [reader EXCEPT !.index = @ + 1, !.have = FALSE]
      /\ UNCHANGED <<close, written, input, stdin, running, process, held, ran, pc, mine>>
  BY DEF ReadToken, users
<1>2. Head(stdout) = stdout[1] /\ stdout[1].id = k /\ k # 0
  BY <1>1, <1>t, LineRead, Shapes
<1>3. k \in 1..Len(ran) /\ k \in 1..Len(commands) /\ stdout[1].code = ran[k]
      /\ ran[k] \in Results
  <2>1. reader.index < Len(ran) /\ Len(ran) <= Len(commands) /\ stdout[1].code = ran[k]
    BY <1>1, <1>2, FirstToken
  <2>2. k \in 1..Len(ran) /\ k \in 1..Len(commands)
    BY <2>1, <1>t, Shapes
  <2> QED  BY <2>1, <2>2, <1>t, Shapes DEF Results
<1>4. SetExitCode(k, ran[k])
  BY <1>1, <1>2, <1>3
<1>5. /\ reader' \in Reader
      /\ reader'.index = k /\ reader'.pc = "read" /\ reader'.have = FALSE
  BY <1>1, <1>t, NextCommand DEF TypeOK
<1> HIDE DEF k
<1>6. /\ commands' \in Seq(Entry) /\ Len(commands') = Len(commands)
      /\ \A i \in 1..Len(commands) : i # k => commands'[i] = commands[i]
      /\ commands'[k].finished
  BY <1>3, <1>4, CodeSet
<1>7. TypeOK'
  BY <1>1, <1>5, <1>6, <1>t, LineRead DEF TypeOK
<1>8. InputInv'
  BY <1>1, <1>6 DEF IInv, InputInv, Started
<1>9. CodeInv'
  <2>1. k <= Len(commands) /\ k = reader.index + 1 /\ k \in Nat
    BY <1>3, <1>t, Shapes DEF k
  <2>2. ASSUME NEW i \in 1..Len(commands')
        PROVE  /\ i > reader'.index => commands'[i].exit \in {"none", "lost"}
               /\ ~ commands'[i].finished => commands'[i].exit = "none"
    <3>1. CASE i = k
      BY <3>1, <2>1, <1>5, <1>6
    <3>2. CASE i # k
      BY SMTT(20), <3>2, <2>1, <1>5, <1>6, <1>t, Shapes DEF IInv, CodeInv
    <3> QED  BY <3>1, <3>2
  <2> QED  BY <2>1, <2>2, <1>1, <1>5, <1>6 DEF IInv, CodeInv
<1>10. OutputInv'
  <2>1. k <= Len(ran) /\ k = reader.index + 1 /\ k \in Nat
    BY <1>3, <1>t, Shapes DEF k
  <2>2. ASSUME NEW i \in 1..Len(stdout'), stdout'[i].id # 0
        PROVE  /\ k < stdout'[i].id /\ stdout'[i].id <= Len(ran)
               /\ stdout'[i].code = ran[stdout'[i].id]
    <3>1. /\ i + 1 \in 1..Len(stdout) /\ stdout'[i] = stdout[i + 1] /\ 1 < i + 1
          /\ 1 \in 1..Len(stdout)
      BY <1>1, <1>t, LineRead
    <3> QED  BY <1>1, <1>2, <2>2, <3>1 DEF IInv, OutputInv, Unread
  <2>3. ASSUME NEW i \in 1..Len(stdout'), NEW j \in 1..Len(stdout'), i < j,
               stdout'[i].id # 0, stdout'[j].id # 0
        PROVE  stdout'[i].id < stdout'[j].id
    <3>1. /\ i + 1 \in 1..Len(stdout) /\ j + 1 \in 1..Len(stdout) /\ i + 1 < j + 1
          /\ stdout'[i] = stdout[i + 1] /\ stdout'[j] = stdout[j + 1]
      BY <1>1, <1>t, <2>3, LineRead
    <3> QED  BY <1>1, <2>3, <3>1 DEF IInv, OutputInv, Unread
  <2>4. ASSUME NEW n \in (k + 1)..Len(ran)
        PROVE  \E i \in 1..Len(stdout') : stdout'[i].id = n
    <3>1. n \in (reader.index + 1)..Len(ran) /\ n # k
      BY <2>1, <1>t, Shapes
    <3>2. PICK i \in 1..Len(stdout) : stdout[i].id = n
      BY <1>1, <3>1 DEF IInv, OutputInv
    <3>3. i \in 2..Len(stdout)
      BY <3>1, <3>2, <1>2, <1>t, Shapes
    <3> QED  BY <3>2, <3>3, <1>1, <1>t, LineRead
  <2> QED  BY <1>1, <1>5, <2>1, <2>2, <2>3, <2>4 DEF OutputInv, Unread
<1> QED  BY <1>1, <1>3, <1>4, <1>7, <1>8, <1>9, <1>10 DEF IInv, k

\* The output thread leaves: the command gets -1 and has no code.
LEMMA TerminateStep ==
  ASSUME IInv, Terminate
  PROVE  /\ IInv' /\ UNCHANGED ran
         /\ \/ UNCHANGED commands
            \/ \E k \in 1..Len(commands) :
                 /\ commands[k].exit \in {"none", "lost"}
                 /\ SetExitCode(k, "lost")
<1>t. TypeOK  BY DEF IInv
<1>1. /\ reader.pc = "leaving"
      /\ UNCHANGED <<close, written, input, stdin, stdout, running, process, held, ran, pc,
                     mine>>
  BY DEF Terminate, sh, users
<1>2. CASE reader.index < Len(commands)
  <2> DEFINE k == reader.index + 1
  <2>1. /\ SetExitCode(k, "lost")
        /\ reader' = [reader EXCEPT !.index = @ + 1, !.have = FALSE]
    BY <1>2 DEF Terminate
  <2>2. k \in 1..Len(commands) /\ "lost" \in Results
    BY <1>2, <1>t, Shapes DEF Results
  <2>3. commands[k].exit \in {"none", "lost"}
    BY <2>2, <1>t, Shapes DEF IInv, CodeInv
  <2>4. /\ reader' \in Reader
        /\ reader'.index = k /\ reader'.pc = "leaving" /\ reader'.have = FALSE
    BY <2>1, <1>1, <1>t, NextCommand DEF TypeOK
  <2>k. k = reader.index + 1 /\ k <= Len(commands) /\ k \in Nat
    BY <2>2
  <2> HIDE DEF k
  <2>5. /\ commands' \in Seq(Entry) /\ Len(commands') = Len(commands)
        /\ \A i \in 1..Len(commands) : i # k => commands'[i] = commands[i]
        /\ commands'[k].finished
    BY <2>1, <2>2, CodeSet
  <2>6. TypeOK' /\ InputInv' /\ OutputInv'
    BY <1>1, <2>4, <2>5 DEF IInv, TypeOK, InputInv, OutputInv, Started
  <2>7. ASSUME NEW i \in 1..Len(commands')
        PROVE  /\ i > reader'.index => commands'[i].exit \in {"none", "lost"}
               /\ ~ commands'[i].finished => commands'[i].exit = "none"
    <3>1. CASE i = k
      BY <3>1, <2>k, <2>4, <2>5
    <3>2. CASE i # k
      <4>1. /\ i > reader.index => commands[i].exit \in {"none", "lost"}
            /\ ~ commands[i].finished => commands[i].exit = "none"
        BY <2>5 DEF IInv, CodeInv
      <4>2. commands'[i] = commands[i] /\ (i > reader'.index => i > reader.index)
        BY <3>2, <2>k, <2>4, <2>5, <1>t, Shapes
      <4> QED  BY <4>1, <4>2
    <3> QED  BY <3>1, <3>2
  <2>8. CodeInv'
    BY <1>1, <2>k, <2>4, <2>5, <2>7 DEF IInv, CodeInv
  <2> QED  BY <1>1, <2>1, <2>2, <2>3, <2>6, <2>8 DEF IInv
<1>3. CASE ~ (reader.index < Len(commands))
  <2>1. reader' = [reader EXCEPT !.pc = "ended"] /\ UNCHANGED commands
    BY <1>3 DEF Terminate
  <2>2. /\ reader' \in Reader
        /\ reader'.index = reader.index /\ reader'.pc = "ended"
        /\ reader'.have = reader.have
    BY <2>1, <1>t DEF TypeOK, Reader
  <2>3. TypeOK' /\ InputInv' /\ OutputInv' /\ CodeInv'
    BY <1>1, <2>1, <2>2 DEF IInv, TypeOK, InputInv, OutputInv, CodeInv, Started
  <2> QED  BY <1>1, <2>1, <2>3 DEF IInv
<1> QED  BY <1>2, <1>3

-----------------------------------------------------------------------------
(* The theorems.                                                           *)

\* The list, the pipes, the shell and the two threads keep in step: the invariant
\* that carries the other results.
THEOREM Invariance == Spec => []IInv
<1>1. Init => IInv
  <2> SUFFICES ASSUME Init PROVE IInv
    OBVIOUS
  <2>1. commands = <<>> /\ stdin = <<>> /\ stdout = <<>> /\ ran = <<>>
        /\ written = 0 /\ running = 0 /\ process = "up" /\ held = FALSE
        /\ input = "running"
        /\ reader = [pc |-> "read", index |-> 0, have |-> FALSE]
    BY DEF Init
  <2>2. TypeOK
    <3>1. reader \in Reader
      BY <2>1 DEF Reader
    <3>2. pc \in [Callers -> {"idle", "checked", "waiting"}] /\ mine \in [Callers -> Nat]
      BY DEF Init
    <3>3. commands \in Seq(Entry) /\ stdin \in Seq(Nat) /\ stdout \in Seq(Line)
          /\ ran \in Seq(Codes)
      BY <2>1
    <3>4. close \in BOOLEAN
      BY DEF Init
    <3> QED  BY <2>1, <3>1, <3>2, <3>3, <3>4 DEF TypeOK
  <2>3. InputInv
    BY <2>1 DEF InputInv, Started
  <2>4. OutputInv
    BY <2>1 DEF OutputInv
  <2>5. CodeInv
    BY <2>1 DEF Init, CodeInv
  <2> QED  BY <2>2, <2>3, <2>4, <2>5 DEF IInv
<1>2. IInv /\ [Next]_vars => IInv'
  <2> SUFFICES ASSUME IInv, [Next]_vars PROVE IInv'
    OBVIOUS
  <2>1. CASE \E c \in Callers : Caller(c)
    BY <2>1, QuietStep, AddStep, TimeoutStep DEF Caller
  <2>2. CASE CloseShell \/ InputThread
    BY <2>2, QuietStep, WriteStep DEF InputThread
  <2>3. CASE OutputThread
    BY <2>3, QuietStep, TokenStep, LineStep, TerminateStep DEF OutputThread
  <2>4. CASE ShellProcess
    BY <2>4, QuietStep, ReadsStep, PrintsStep, EndsStep, KilledStep DEF ShellProcess
  <2>5. CASE UNCHANGED vars
    BY <2>5 DEF vars, IInv, TypeOK, InputInv, OutputInv, CodeInv, Started, Unread
  <2> QED  BY <2>1, <2>2, <2>3, <2>4, <2>5 DEF Next
<1> QED  BY <1>1, <1>2, PTL DEF Spec

\* An exit code is never given to another command or taken for output (the token
\* written by writeCommands and parsed by readOutput).
THEOREM TokensMatch == Spec => []TokenMatches
<1>1. IInv => TokenMatches
  <2> SUFFICES ASSUME IInv, reader.pc = "read", stdout # <<>>, Head(stdout).id # 0
               PROVE  Head(stdout).id = reader.index + 1 /\ reader.index < Len(commands)
    BY DEF TokenMatches
  <2>1. TypeOK /\ Head(stdout) = stdout[1]
    BY Shapes, Tailed DEF IInv
  <2> QED  BY <2>1, FirstToken, Shapes
<1> QED  BY <1>1, Invariance, PTL

\* The shell implements the serial executor: commands run in the order they were
\* added and a reported code is the command's own, for good.
THEOREM ShellIsSerial == Spec => IsSerial
<1> DEFINE results == [i \in 1..Len(commands) |-> commands[i].exit]
<1>1. Init => Executor!Init
  BY DEF Init, Executor!Init
<1>2. IInv /\ [Next]_vars => [Executor!Next]_(Executor!vars)
  <2> SUFFICES ASSUME IInv, [Next]_vars
               PROVE  [Executor!Next]_(Executor!vars)
    OBVIOUS
  <2>t. TypeOK  BY DEF IInv
  <2>s. /\ results \in Seq(Results) /\ Len(results) = Len(commands)
        /\ \A i \in 1..Len(commands) : results[i] = commands[i].exit
    <3>1. \A i \in 1..Len(commands) : commands[i].exit \in Results
      BY <2>t, Shapes DEF Entry
    <3> QED  BY <3>1, <2>t, Shapes
  <2>g. ASSUME NEW k \in 1..Len(commands), commands[k].exit = "none",
               Len(commands') = Len(commands), commands'[k].exit = "lost",
               \A i \in 1..Len(commands) : i # k => commands'[i] = commands[i],
               UNCHANGED ran
        PROVE  Executor!GiveUp
    <3>1. results' = [results EXCEPT ![k] = "lost"]
      BY <2>g, <2>t, Shapes
    <3> QED  BY <3>1, <2>g, <2>s DEF Executor!GiveUp
  <2>q. ASSUME UNCHANGED <<commands, ran>>
        PROVE  UNCHANGED Executor!vars
    BY <2>q DEF Executor!vars
  <2>1. ASSUME NEW c \in Callers, Add(c)
        PROVE  Executor!Add
    <3>1. /\ Len(commands') = Len(commands) + 1
          /\ \A i \in 1..Len(commands) : commands'[i] = commands[i]
          /\ commands'[Len(commands) + 1].exit = "none" /\ UNCHANGED ran
      <4> DEFINE new == [exit |-> "none", finished |-> FALSE, timedOut |-> FALSE]
      <4>1. commands' = Append(commands, new) /\ UNCHANGED ran /\ new.exit = "none"
        BY <2>1 DEF Add, sh
      <4>2. new \in Entry
        BY <2>t DEF TypeOK, Entry, Results
      <4> HIDE DEF new
      <4> QED  BY <4>1, <4>2, <2>t, Shapes, Appended
    <3>2. results' = Append(results, "none")
      BY <3>1, <2>s, <2>t, Shapes
    <3> QED  BY <3>1, <3>2 DEF Executor!Add
  <2>2. ASSUME NEW c \in Callers, Timeout(c)
        PROVE  Executor!GiveUp
    <3>1. mine[c] \in 1..Len(commands) /\ commands[mine[c]].exit = "none"
      BY <2>2, TimeoutStep
    <3>2. PICK k \in 1..Len(commands) : k = mine[c]
      BY <3>1
    <3>3. /\ Len(commands') = Len(commands) /\ commands'[k].exit = "lost"
          /\ \A i \in 1..Len(commands) : i # k => commands'[i] = commands[i]
          /\ UNCHANGED ran
      BY <2>2, <3>2, <2>t, Shapes DEF Timeout, Entry, sh
    <3> QED  BY <3>1, <3>2, <3>3, <2>g
  <2>3. ASSUME Ends PROVE Executor!Run
    BY <2>3, <2>s, EndsStep DEF Executor!Run
  <2>4. ASSUME ReadToken PROVE Executor!Report
    <3>1. PICK k \in 1..Len(commands) :
            k = reader.index + 1 /\ k \in 1..Len(ran) /\ SetExitCode(k, ran[k])
            /\ UNCHANGED ran
      BY <2>4, TokenStep
    <3>2. ran[k] \in Results
      BY <3>1, <2>t, Shapes DEF Results
    <3>3. /\ Len(commands') = Len(commands) /\ commands'[k].exit = ran[k]
          /\ \A i \in 1..Len(commands) : i # k => commands'[i] = commands[i]
      BY <3>1, <3>2, CodeSet
    <3>4. results' = [results EXCEPT ![k] = ran[k]]
      BY <3>3, <2>t, Shapes
    <3>5. results[k] \in {"none", "lost"}
      BY <3>1, <2>s, <2>t, Shapes DEF IInv, CodeInv
    <3> QED  BY <3>1, <3>4, <3>5 DEF Executor!Report
  <2>5. ASSUME Terminate PROVE Executor!GiveUp \/ UNCHANGED Executor!vars
    <3>1. CASE UNCHANGED commands
      BY <2>5, <3>1, <2>q, TerminateStep
    <3>2. CASE ~ UNCHANGED commands
      <4>1. PICK k \in 1..Len(commands) :
              commands[k].exit \in {"none", "lost"} /\ SetExitCode(k, "lost")
              /\ UNCHANGED ran
        BY <2>5, <3>2, TerminateStep
      <4>2. /\ Len(commands') = Len(commands) /\ commands'[k].exit = "lost"
            /\ \A i \in 1..Len(commands) : i # k => commands'[i] = commands[i]
        BY <4>1, CodeSet DEF Results
      <4>3. CASE commands[k].exit = "none"
        BY <4>1, <4>2, <4>3, <2>g
      <4>4. CASE commands[k].exit = "lost"
        <5>1. results' = results
          BY <4>2, <4>4
        <5> QED  BY <5>1, <4>1 DEF Executor!vars
      <4> QED  BY <4>1, <4>3, <4>4
    <3> QED  BY <3>1, <3>2
  <2>6. CASE \E c \in Callers : Caller(c)
    BY <2>6, <2>1, <2>2, <2>q, QuietStep DEF Caller, Executor!Next
  <2>7. CASE CloseShell \/ InputThread
    BY <2>7, <2>q, QuietStep, WriteStep DEF InputThread
  <2>8. CASE OutputThread
    BY <2>8, <2>4, <2>5, <2>q, QuietStep, LineStep DEF OutputThread, Executor!Next
  <2>9. CASE ShellProcess
    BY <2>9, <2>3, <2>q, QuietStep, ReadsStep, PrintsStep, KilledStep
       DEF ShellProcess, Executor!Next
  <2>10. CASE UNCHANGED vars
    BY <2>10, <2>q DEF vars
  <2> QED  BY <2>6, <2>7, <2>8, <2>9, <2>10 DEF Next
<1> QED  BY <1>1, <1>2, Invariance, PTL DEF Spec, IsSerial, Executor!Spec

=============================================================================
