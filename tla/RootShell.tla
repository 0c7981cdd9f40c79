----------------------------- MODULE RootShell -----------------------------
(***************************************************************************)
(* One shell of RootCommands (Shell.java with Command.java): the callers   *)
(* that add commands and wait for them with a timeout, the "Shell Input"   *)
(* thread that writes them to the shell process, and the "Shell Output"    *)
(* thread that tells their outputs apart by the token echoed after each.   *)
(*                                                                         *)
(* Only the list of commands has a lock.  close is read without it by add  *)
(* and by the output thread, which also reads the list without it.         *)
(***************************************************************************)
EXTENDS Naturals, Sequences

CONSTANTS Callers,
          Codes,        \* exit codes a command ends with; -1 is "lost"
          Background,   \* commands may leave processes behind
          MaxCommands,  \* bound: commands added
          MaxLines      \* bound: unread lines of output

ASSUME CodesAssumption == Codes \cap {"none", "lost"} = {} /\ Codes # {}
ASSUME ShellBounds     == MaxCommands \in Nat /\ MaxLines \in Nat
                          /\ Background \in BOOLEAN

VARIABLES
  commands,  \* the list: [exit, finished, timedOut]
  close,
  written,   \* commandIndex of the input thread
  input,     \* the input thread: "running", "exiting" (exit is written), "ended"
  reader,    \* the output thread: [pc, index, have (command != null)]
  stdin,     \* external: numbers of the commands to read, Exit the last
  stdout,    \* external: [id, code], a token; or Output
  running,   \* external: the command the shell executes, 0 if none
  process,   \* external: "up", "exited" or "killed"
  held,      \* external: a process the shell started has its pipes, and may outlive it
  ran,       \* history: codes of the commands that ended
  pc,        \* of a caller: "idle", "checked" (add saw close = false), "waiting"
  mine       \* the command a caller waits for

vars == <<commands, close, written, input, reader, stdin, stdout, running,
          process, held, ran, pc, mine>>
threads == <<written, input, reader>>
sh      == <<stdin, stdout, running, process, held, ran>>
users   == <<pc, mine>>

Exit   == 0
Output == [id |-> 0, code |-> "none"]
Token(i, c) == [id |-> i, code |-> c]

\* After the constructor has read "Started".
Init ==
  /\ commands = <<>> /\ close = FALSE
  /\ written = 0 /\ input = "running"
  /\ reader = [pc |-> "read", index |-> 0, have |-> FALSE]
  /\ stdin = <<>> /\ stdout = <<>> /\ running = 0 /\ ran = <<>>
  /\ process = "up" /\ held = FALSE
  /\ pc = [c \in Callers |-> "idle"] /\ mine = [c \in Callers |-> 0]

-----------------------------------------------------------------------------
(* Callers.                                                                *)

\* add: if (close) throw ...; the lock is taken afterwards.
AddCheck(c) ==
  /\ pc[c] = "idle" /\ ~ close /\ Len(commands) < MaxCommands
  /\ pc' = [pc EXCEPT ![c] = "checked"]
  /\ UNCHANGED <<commands, close, threads, sh, mine>>

Add(c) ==
  /\ pc[c] = "checked" /\ Len(commands) < MaxCommands
  /\ commands' = Append(commands, [exit |-> "none", finished |-> FALSE,
                                   timedOut |-> FALSE])
  /\ mine' = [mine EXCEPT ![c] = Len(commands) + 1]
  /\ pc'   = [pc EXCEPT ![c] = "waiting"]
  /\ UNCHANGED <<close, threads, sh>>

\* waitForFinish.
Finished(c) ==
  /\ pc[c] = "waiting" /\ commands[mine[c]].finished
  /\ pc' = [pc EXCEPT ![c] = "idle"]
  /\ UNCHANGED <<commands, close, threads, sh, mine>>

\* Mutant: the timeout is not checked against finished.
TimeoutAlways(c) ==
  /\ pc[c] = "waiting"
  /\ commands' = [commands EXCEPT ![mine[c]].finished = TRUE,
                                  ![mine[c]].timedOut = TRUE,
                                  ![mine[c]].exit = "lost"]
  /\ close' = TRUE
  /\ pc' = [pc EXCEPT ![c] = "idle"]
  /\ UNCHANGED <<threads, sh, mine>>

\* wait(timeout) came back, by the time or by an interrupt: terminate closes the
\* shell, and the command's exit code is -1.
Timeout(c) ==
  /\ pc[c] = "waiting" /\ ~ commands[mine[c]].finished
  /\ commands' = [commands EXCEPT ![mine[c]].finished = TRUE,
                                  ![mine[c]].timedOut = TRUE,
                                  ![mine[c]].exit = "lost"]
  /\ close' = TRUE
  /\ pc' = [pc EXCEPT ![c] = "idle"]
  /\ UNCHANGED <<threads, sh, mine>>

CloseShell ==
  /\ ~ close /\ close' = TRUE
  /\ UNCHANGED <<commands, threads, sh, users>>

-----------------------------------------------------------------------------
(* writeCommands.                                                          *)

\* Mutant: the index goes up before it is written into the token.
WriteCommandAhead ==
  /\ input = "running" /\ written < Len(commands) /\ process = "up"
  /\ written' = written + 1
  /\ stdin' = Append(stdin, written + 2)
  /\ UNCHANGED <<commands, close, input, reader, stdout, running, process, held, ran, users>>

\* A command with its token.
WriteCommand ==
  /\ input = "running" /\ written < Len(commands) /\ process = "up"
  /\ written' = written + 1
  /\ stdin' = Append(stdin, written + 1)
  /\ UNCHANGED <<commands, close, input, reader, stdout, running, process, held, ran, users>>

\* Mutant: exit 0 is written and not flushed.
WriteExitKept ==
  /\ input = "running" /\ written >= Len(commands) /\ close /\ process = "up"
  /\ input' = "exiting"
  /\ UNCHANGED <<commands, close, written, reader, sh, users>>

\* The list is empty and the shell closed: exit 0, then waitFor.
WriteExit ==
  /\ input = "running" /\ written >= Len(commands) /\ close /\ process = "up"
  /\ stdin' = Append(stdin, Exit)
  /\ input' = "exiting"
  /\ UNCHANGED <<commands, close, written, reader, stdout, running, process, held, ran, users>>

\* The shell is gone, but what it left behind has its input: writing it succeeds.
WriteUnread ==
  /\ input = "running" /\ process # "up" /\ held
  /\ \/ written < Len(commands) /\ written' = written + 1 /\ UNCHANGED input
     \/ written >= Len(commands) /\ close /\ input' = "exiting" /\ UNCHANGED written
  /\ UNCHANGED <<commands, close, reader, sh, users>>

\* The process is gone: waitFor returns, or the write throws an IOException.
InputEnds ==
  /\ process # "up"
  /\ \/ input = "exiting"
     \/ input = "running" /\ (written < Len(commands) \/ close)
  /\ input' = "ended"
  /\ UNCHANGED <<commands, close, written, reader, sh, users>>

-----------------------------------------------------------------------------
(* readOutput.                                                             *)

SetExitCode(i, code) ==
  commands' = [commands EXCEPT ![i] = [@ EXCEPT !.exit = code, !.finished = TRUE]]

HasCommand == reader.have \/ reader.index < Len(commands)

\* The token of the current command: setExitCode.
ReadToken ==
  /\ reader.pc = "read" /\ stdout # <<>> /\ HasCommand
  /\ Head(stdout).id = reader.index + 1
  /\ stdout' = Tail(stdout)
  /\ SetExitCode(reader.index + 1, Head(stdout).code)
  /\ reader' = [reader EXCEPT !.index = @ + 1, !.have = FALSE]
  /\ UNCHANGED <<close, written, input, stdin, running, process, held, ran, users>>

\* Any other line is output of the current command.
ReadLine ==
  /\ reader.pc = "read" /\ stdout # <<>> /\ HasCommand
  /\ Head(stdout).id # reader.index + 1
  /\ stdout' = Tail(stdout)
  /\ reader' = [reader EXCEPT !.have = TRUE]
  /\ UNCHANGED <<commands, close, written, input, stdin, running, process, held, ran, users>>

\* A line while there is no command: close is looked at only now.
ReadNothing ==
  /\ reader.pc = "read" /\ stdout # <<>> /\ ~ HasCommand
  /\ stdout' = Tail(stdout)
  /\ reader' = [reader EXCEPT !.pc = "idle"]
  /\ UNCHANGED <<commands, close, written, input, stdin, running, process, held, ran, users>>

BreakOnClose ==
  /\ reader.pc = "idle"
  /\ reader' = [reader EXCEPT !.pc = IF close THEN "leaving" ELSE "read"]
  /\ UNCHANGED <<commands, close, written, input, sh, users>>

\* readLine returns null: no process has the other end of the pipe.
EndOfOutput ==
  /\ reader.pc = "read" /\ stdout = <<>> /\ process # "up" /\ ~ held
  /\ reader' = [reader EXCEPT !.pc = "leaving"]
  /\ UNCHANGED <<commands, close, written, input, sh, users>>

\* Mutant: the commands left over are forgotten.
TerminateNone ==
  /\ reader.pc = "leaving" /\ process # "up"
  /\ reader' = [reader EXCEPT !.pc = "ended"] /\ UNCHANGED commands
  /\ UNCHANGED <<close, written, input, sh, users>>

\* After waitFor: terminated, for every command without an exit code.
Terminate ==
  /\ reader.pc = "leaving" /\ process # "up"
  /\ IF reader.index < Len(commands)
     THEN /\ SetExitCode(reader.index + 1, "lost")
          /\ reader' = [reader EXCEPT !.index = @ + 1, !.have = FALSE]
     ELSE reader' = [reader EXCEPT !.pc = "ended"] /\ UNCHANGED commands
  /\ UNCHANGED <<close, written, input, sh, users>>

-----------------------------------------------------------------------------
(* The shell process, external.                                            *)

\* It reads its input line by line, so only between commands.
ShellReads ==
  /\ process = "up" /\ running = 0 /\ stdin # <<>>
  /\ stdin' = Tail(stdin)
  /\ IF Head(stdin) = Exit THEN process' = "exited" /\ UNCHANGED running
     ELSE running' = Head(stdin) /\ UNCHANGED process
  /\ UNCHANGED <<commands, close, threads, stdout, held, ran, users>>

\* The command, or what an earlier one left behind.
Prints ==
  /\ running # 0 \/ held
  /\ Len(stdout) < MaxLines
  /\ stdout' = Append(stdout, Output)
  /\ UNCHANGED <<commands, close, threads, stdin, running, process, held, ran, users>>

Ends ==
  /\ running # 0
  /\ \E c \in Codes : /\ stdout' = Append(stdout, Token(running, c))
                      /\ ran' = Append(ran, c)
  /\ running' = 0
  /\ UNCHANGED <<commands, close, threads, stdin, process, held, users>>

\* The command starts a process in the background, or those left behind have ended.
Leaves ==
  /\ \/ Background /\ running # 0 /\ held' = TRUE
     \/ held' = FALSE
  /\ UNCHANGED <<commands, close, threads, stdin, stdout, running, process, ran, users>>

\* The command it was executing may outlive it.
Killed ==
  /\ process = "up"
  /\ process' = "killed" /\ running' = 0 /\ stdin' = <<>>
  /\ held' \in {held, held \/ running # 0}
  /\ UNCHANGED <<commands, close, threads, stdout, ran, users>>

-----------------------------------------------------------------------------
Caller(c) == AddCheck(c) \/ Add(c) \/ Finished(c) \/ Timeout(c)
InputThread  == WriteCommand \/ WriteExit \/ WriteUnread \/ InputEnds
OutputThread == ReadToken \/ ReadLine \/ ReadNothing \/ BreakOnClose \/ EndOfOutput
                \/ Terminate
ShellProcess == ShellReads \/ Prints \/ Ends \/ Leaves \/ Killed

Next == (\E c \in Callers : Caller(c)) \/ CloseShell \/ InputThread \/ OutputThread
        \/ ShellProcess

Spec == Init /\ [][Next]_vars

\* The two threads run and the shell reads its input.  Nothing is asked of the commands,
\* of what they leave behind, or of the callers, their timeouts included.
FairSpec == Spec /\ WF_vars(InputThread) /\ WF_vars(OutputThread) /\ WF_vars(ShellReads)

-----------------------------------------------------------------------------
(* Properties.                                                             *)

Results == Codes \cup {"none", "lost"}
Entry == [exit : Results, finished : BOOLEAN, timedOut : BOOLEAN]
Reader == [pc : {"read", "idle", "leaving", "ended"}, index : Nat, have : BOOLEAN]
Line  == [id : Nat, code : Codes \cup {"none"}]

TypeOK ==
  /\ commands \in Seq(Entry) /\ close \in BOOLEAN
  /\ written \in Nat /\ input \in {"running", "exiting", "ended"}
  /\ reader \in Reader
  /\ stdin \in Seq(Nat) /\ stdout \in Seq(Line) /\ running \in Nat
  /\ process \in {"up", "exited", "killed"} /\ held \in BOOLEAN /\ ran \in Seq(Codes)
  /\ pc \in [Callers -> {"idle", "checked", "waiting"}]
  /\ mine \in [Callers -> Nat]

\* The token the output thread reads next is the one of the command it is at: no
\* exit code is ever given to another command, or taken for its output.
TokenMatches ==
  (reader.pc = "read" /\ stdout # <<>> /\ Head(stdout).id # 0)
    => Head(stdout).id = reader.index + 1 /\ reader.index < Len(commands)

\* The inductive invariant behind TokenMatches and IsSerial.  Commands go through
\* the input thread, the pipe and the shell in the order of their numbers;
Started == IF running = 0 THEN Len(ran) ELSE Len(ran) + 1

InputInv ==
  /\ written <= Len(commands) /\ Len(ran) <= written
  /\ running # 0 => process = "up" /\ running = Len(ran) + 1 /\ running <= written
  /\ input = "running" /\ process = "up" => written = Started + Len(stdin)
  /\ \A i \in 1..Len(stdin) :
       \/ stdin[i] = Started + i /\ stdin[i] <= written
       \/ stdin[i] = Exit /\ i = Len(stdin) /\ input # "running"

\* the unread tokens are those of the commands that ended and whose codes are not
\* yet set, in order and with the codes they ended with;
Unread(i) == stdout[i].id # 0

OutputInv ==
  reader.pc \in {"read", "idle"} =>
    /\ reader.index <= Len(ran)
    /\ \A i \in 1..Len(stdout) : Unread(i) =>
         /\ reader.index < stdout[i].id /\ stdout[i].id <= Len(ran)
         /\ stdout[i].code = ran[stdout[i].id]
    /\ \A i, j \in 1..Len(stdout) :
         i < j /\ Unread(i) /\ Unread(j) => stdout[i].id < stdout[j].id
    /\ \A n \in (reader.index + 1)..Len(ran) :
         \E i \in 1..Len(stdout) : stdout[i].id = n

\* and a code is set only by the output thread, before it goes on.
CodeInv ==
  /\ reader.index <= Len(commands)
  /\ reader.have => reader.index < Len(commands)
  /\ \A i \in 1..Len(commands) :
       /\ i > reader.index => commands[i].exit \in {"none", "lost"}
       /\ ~ commands[i].finished => commands[i].exit = "none"
  /\ \A c \in Callers : pc[c] = "waiting" => mine[c] \in 1..Len(commands)

IInv == TypeOK /\ InputInv /\ OutputInv /\ CodeInv

\* What the callers see is a serial executor.
Executor == INSTANCE SerialExecutor
              WITH results <- [i \in 1..Len(commands) |-> commands[i].exit]
IsSerial == Executor!Spec

\* The shell is busy with a command, or it is gone and its output is not: readLine waits
\* for what still has the pipe.
Occupied == running # 0 \/ (process # "up" /\ held)

\* A command in the list is finished, whatever happens to the shell, without its caller's
\* timeout and also if it came after close; but for a command, or a process left behind by
\* a shell that is gone, that never ends, and for commands added when the output thread is
\* gone, which only their caller's timeout can end.
CommandsFinish ==
  \A i \in 1..MaxCommands :
    (i <= Len(commands) /\ reader.pc # "ended")
      ~> ((i <= Len(commands) /\ commands[i].finished) \/ []Occupied)

\* Closing the shell ends its process and both threads, unless a command, or a process
\* left behind, never ends.
CloseEnds ==
  close ~> ((process # "up" /\ input = "ended" /\ reader.pc = "ended") \/ []Occupied)
=============================================================================
