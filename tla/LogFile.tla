-------------------------------- MODULE LogFile --------------------------------
(***************************************************************************)
(* logging() of utils.c, for any number of processes: open the log file for*)
(* appending, lock it, print the line into the stream's buffer, unlock it, *)
(* close it.  The line reaches the file when fclose writes the buffer, in  *)
(* one append: after the lock has been given back.                         *)
(*                                                                         *)
(* The kernel drops the lock of a process that dies, and its buffer is     *)
(* lost with it.                                                           *)
(***************************************************************************)
CONSTANTS Writers,  \* the processes that log
          Lines     \* what they log

VARIABLES
  stage,  \* where in logging() a process is: "wait" is inside flock
  line,   \* the line it was given
  file    \* the last line of each process in the file, or "none"

Init ==
  /\ stage = [w \in Writers |-> "idle"]
  /\ line = [w \in Writers |-> "none"]
  /\ file = [w \in Writers |-> "none"]

Idle(w) == stage[w] = "idle"
Locked == \E w \in Writers : stage[w] = "locked"

Goes(w, from, to) ==
  /\ stage[w] = from
  /\ stage' = [stage EXCEPT ![w] = to]

\* Fopen(LOGFILE_PATH, "a").
Call(w, l) == Goes(w, "idle", "wait") /\ line' = [line EXCEPT ![w] = l] /\ UNCHANGED file

\* Flock(LOCK_EX) returns, fprintf.
TakeLock(w) == ~Locked /\ Goes(w, "wait", "locked") /\ UNCHANGED <<line, file>>

\* Flock(LOCK_UN).
Unlock(w) == Goes(w, "locked", "unlocked") /\ UNCHANGED <<line, file>>

\* Fclose: the buffer is written.
Flush(w) ==
  /\ Goes(w, "unlocked", "idle")
  /\ file' = [file EXCEPT ![w] = line[w]]
  /\ UNCHANGED line

\* The processes in S are dead.
Drop(S) ==
  /\ stage' = [w \in Writers |-> IF w \in S THEN "idle" ELSE stage[w]]
  /\ UNCHANGED <<line, file>>

Types ==
  /\ stage \in [Writers -> {"idle", "wait", "locked", "unlocked"}]
  /\ line \in [Writers -> Lines \cup {"none"}]
  /\ file \in [Writers -> Lines \cup {"none"}]
=============================================================================
