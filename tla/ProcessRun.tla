----------------------------- MODULE ProcessRun -----------------------------
(***************************************************************************)
(* run_exe (noricum-tools/src/diff_test.rs): one execution of a program    *)
(* under test.  The parent writes the program's input, starts a thread for *)
(* each of its outputs, and polls it until it has ended or its time is up. *)
(* Four actors share three pipes: the parent, the program, two readers.    *)
(*                                                                         *)
(* The program is any: it reads, writes, ends, crashes or hangs as it will.*)
(* Bytes are counted, in units of which a pipe holds Capacity; they are    *)
(* taken to be UTF-8: read_to_string keeps nothing of what is not.  That   *)
(* it starts no processes (RLIMIT_NPROC) is taken for granted: one that    *)
(* lives on would hold its output pipes open.                              *)
(***************************************************************************)
EXTENDS Integers

CONSTANTS
  Capacity,    \* what a pipe holds
  Input,       \* size of the program's input, 0 for none
  MaxOutput,   \* bound on what the program writes to each output
  Codes        \* the exit codes of programs

Streams == {"stdout", "stderr"}
Crashed == -1    \* status.code() of a process ended by a signal

ASSUME ProcessAssumption ==
  /\ Capacity \in Nat \ {0}
  /\ Input \in Nat
  /\ MaxOutput \in Nat
  /\ Codes \subseteq Nat

VARIABLES
  pc,        \* where the parent is
  stdin,     \* written to the program, and not yet read by it
  unsent,    \* input not yet written
  child,     \* the program: "running", "ended" (not waited for) or "reaped"
  code,      \* its exit code, once it has ended
  killed,    \* the parent ended it
  wrote,     \* what it wrote to each output
  pipe,      \* what of it is still in the pipe
  got,       \* what the reader of the output has
  reader,    \* the reader: "none", "reading" or "done"
  late       \* the time is up

vars == <<pc, stdin, unsent, child, code, killed, wrote, pipe, got, reader, late>>
program == <<child, code, killed, wrote>>
outputs == <<wrote, pipe, got, reader>>

Init ==
  /\ pc = "stdin"
  /\ stdin = 0
  /\ unsent = Input
  /\ child = "running"
  /\ code = 0
  /\ killed = FALSE
  /\ wrote = [s \in Streams |-> 0]
  /\ pipe = [s \in Streams |-> 0]
  /\ got = [s \in Streams |-> 0]
  /\ reader = [s \in Streams |-> "none"]
  /\ late = FALSE

-----------------------------------------------------------------------------
(***************************************************************************)
(* The program.                                                            *)
(***************************************************************************)
ChildReads ==
  /\ child = "running"
  /\ stdin > 0
  /\ stdin' = stdin - 1
  /\ UNCHANGED <<pc, unsent, late, program, pipe, got, reader>>

ChildWrites(s) ==
  /\ child = "running"
  /\ wrote[s] < MaxOutput
  /\ pipe[s] < Capacity
  /\ wrote' = [wrote EXCEPT ![s] = @ + 1]
  /\ pipe' = [pipe EXCEPT ![s] = @ + 1]
  /\ UNCHANGED <<pc, stdin, unsent, child, code, killed, got, reader, late>>

ChildEnds(c) ==
  /\ child = "running"
  /\ child' = "ended"
  /\ code' = c
  /\ UNCHANGED <<pc, stdin, unsent, killed, outputs, late>>

-----------------------------------------------------------------------------
(***************************************************************************)
(* The parent.                                                             *)
(***************************************************************************)
\* write_all blocks while the pipe is full.
WriteStdin ==
  /\ pc = "stdin"
  /\ unsent > 0
  /\ child = "running" /\ stdin < Capacity
  /\ stdin' = stdin + 1
  /\ unsent' = unsent - 1
  /\ UNCHANGED <<pc, program, pipe, got, reader, late>>

\* The input is written, or the program has gone and the error is ignored;
\* a thread is started for each output, then the clock.
StartReaders ==
  /\ pc = "stdin"
  /\ unsent = 0 \/ child # "running"
  /\ reader' = [s \in Streams |-> "reading"]
  /\ pc' = "poll"
  /\ UNCHANGED <<stdin, unsent, program, pipe, got, late>>

\* RUN_TIMEOUT_SECS have passed.
TimePasses ==
  /\ pc \in {"poll", "check"}
  /\ ~late
  /\ late' = TRUE
  /\ UNCHANGED <<pc, stdin, unsent, program, pipe, got, reader>>

\* try_wait
TryWait ==
  /\ pc = "poll"
  /\ IF child = "ended" THEN pc' = "join" /\ child' = "reaped"
                        ELSE pc' = "check" /\ child' = child
  /\ UNCHANGED <<stdin, unsent, code, killed, outputs, late>>

\* Slip: a program that has the time it needs.
KeepPolling ==
  /\ pc = "check"
  /\ pc' = "poll"
  /\ UNCHANGED <<stdin, unsent, program, pipe, got, reader, late>>

CheckTime ==
  /\ pc = "check"
  /\ pc' = IF late THEN "kill" ELSE "poll"
  /\ UNCHANGED <<stdin, unsent, program, pipe, got, reader, late>>

\* Slip: the killed program is not waited for.
KillOnly ==
  /\ pc = "kill"
  /\ child' = "ended"
  /\ code' = IF child = "running" THEN Crashed ELSE code
  /\ killed' = (child = "running")
  /\ pc' = "timeout"
  /\ UNCHANGED <<stdin, unsent, outputs, late>>

\* It may have ended since try_wait.
Kill ==
  /\ pc = "kill"
  /\ child' = "ended"
  /\ code' = IF child = "running" THEN Crashed ELSE code
  /\ killed' = (child = "running")
  /\ pc' = "wait"
  /\ UNCHANGED <<stdin, unsent, outputs, late>>

\* The result is Timeout; the readers are left to themselves.
Wait ==
  /\ pc = "wait"
  /\ child = "ended"
  /\ child' = "reaped"
  /\ pc' = "timeout"
  /\ UNCHANGED <<stdin, unsent, code, killed, outputs, late>>

\* Slip: only the output that is compared is waited for.
JoinStderr ==
  /\ pc = "join"
  /\ reader["stderr"] = "done"
  /\ pc' = "ok"
  /\ UNCHANGED <<stdin, unsent, program, pipe, got, reader, late>>

\* The result is the outputs and the code.
Join ==
  /\ pc = "join"
  /\ \A s \in Streams : reader[s] = "done"
  /\ pc' = "ok"
  /\ UNCHANGED <<stdin, unsent, program, pipe, got, reader, late>>

-----------------------------------------------------------------------------
(***************************************************************************)
(* The readers: read_to_string ends when the program has ended.            *)
(***************************************************************************)
Reads(s) ==
  /\ reader[s] = "reading"
  /\ pipe[s] > 0
  /\ pipe' = [pipe EXCEPT ![s] = @ - 1]
  /\ got' = [got EXCEPT ![s] = @ + 1]
  /\ UNCHANGED <<pc, stdin, unsent, program, reader, late>>

EndOfFile(s) ==
  /\ reader[s] = "reading"
  /\ pipe[s] = 0
  /\ child # "running"
  /\ reader' = [reader EXCEPT ![s] = "done"]
  /\ UNCHANGED <<pc, stdin, unsent, program, pipe, got, late>>

Parent ==
  \/ WriteStdin \/ StartReaders \/ TryWait \/ CheckTime \/ Kill \/ Wait \/ Join

Reader(s) == Reads(s) \/ EndOfFile(s)

Next ==
  \/ ChildReads
  \/ \E s \in Streams : ChildWrites(s)
  \/ \E c \in Codes \union {Crashed} : ChildEnds(c)
  \/ WriteStdin
  \/ StartReaders
  \/ TimePasses
  \/ TryWait
  \/ CheckTime
  \/ Kill
  \/ Wait
  \/ Join
  \/ \E s \in Streams : Reads(s)
  \/ \E s \in Streams : EndOfFile(s)

\* The parent, its threads and the clock go on; the program need not.
Fairness ==
  /\ WF_vars(Parent)
  /\ WF_vars(TimePasses)
  /\ \A s \in Streams : WF_vars(Reader(s))

Spec == Init /\ [][Next]_vars /\ Fairness

-----------------------------------------------------------------------------
(***************************************************************************)
(* Properties.                                                             *)
(***************************************************************************)
Returned == pc \in {"ok", "timeout"}

\* Types of the variables.
TypeOK ==
  /\ pc \in {"stdin", "poll", "check", "kill", "wait", "join", "ok", "timeout"}
  /\ stdin \in 0 .. Capacity
  /\ unsent \in 0 .. Input
  /\ child \in {"running", "ended", "reaped"}
  /\ code \in Codes \union {0, Crashed}
  /\ killed \in BOOLEAN
  /\ wrote \in [Streams -> 0 .. MaxOutput]
  /\ pipe \in [Streams -> 0 .. Capacity]
  /\ got \in [Streams -> Nat]
  /\ reader \in [Streams -> {"none", "reading", "done"}]
  /\ late \in BOOLEAN

\* A differential test compares whole outputs: whatever the program and the
\* readers did meanwhile, a result holds all that the program wrote.
OutputsComplete == pc = "ok" => got = wrote

\* A program that was killed has no result, and one that ended in time is never
\* taken for one that did not.
ResultIsTheProgramsOwn ==
  /\ pc = "ok" => ~killed
  /\ pc = "timeout" => late

\* No process is left behind, running or dead.
ChildReaped == Returned => child = "reaped"

\* However the program behaves, reading its input or not, filling its pipes or
\* not, ending or not, run_exe returns.  This needs Input <= Capacity, as of the
\* lines of numbers and short words that fuzz_test.rs gives a program: a longer
\* input is written with no one reading the outputs and no clock running.
Termination == <>Returned

\* A program that waits for room in an output pipe gets it while its time runs.
OutputKeepsMoving ==
  \A s \in Streams : (pc = "poll" /\ pipe[s] = Capacity) ~> (pipe[s] < Capacity)

(***************************************************************************)
(* The inductive invariant: every unit written is in the pipe or with the  *)
(* reader, and who has seen the program end.                               *)
(***************************************************************************)
Conserved == \A s \in Streams : wrote[s] = pipe[s] + got[s]

ReadersInv ==
  \A s \in Streams :
    /\ reader[s] = "done" => child # "running" /\ pipe[s] = 0
    /\ pc = "stdin" => reader[s] = "none"

ParentInv ==
  /\ pc \in {"join", "ok", "timeout"} <=> child = "reaped"
  /\ pc = "wait" => child = "ended"
  /\ killed => pc \in {"wait", "timeout"}
  /\ pc \in {"kill", "wait", "timeout"} => late
  /\ pc = "ok" => \A s \in Streams : reader[s] = "done"

IInv == TypeOK /\ Conserved /\ ReadersInv /\ ParentInv

=============================================================================
