------------------------------ MODULE Supervised ------------------------------
(***************************************************************************)
(* The watchdog of module Watchdog, with the log file that it shares with  *)
(* the processes it watches.  WD logs each signal before it sleeps, and the*)
(* reason for killing before it kills; the server, drone and input log in  *)
(* their loops.  All of them wait for the same lock.                       *)
(*                                                                         *)
(* A process that is frozen keeps the lock it holds; one that dies loses it*)
(* (module LogFile).                                                       *)
(***************************************************************************)
EXTENDS Integers, Sequences

CONSTANTS Loggers,  \* the monitored processes that log
          Faulty    \* the processes and Konsoles that something may befall

VARIABLES life, usr1, usr2, wd, i, check, count,
          answered, fell, late, missed,  \* of Watchdog
          stage, line, file              \* of LogFile

W == INSTANCE Watchdog
Log == INSTANCE LogFile WITH Writers <- Loggers \cup {"WD"},
                             Lines <- {"info", "warn"}

ASSUME SupervisedAssumption ==
  /\ Loggers \subseteq W!Monitored
  /\ Faulty \subseteq W!Targets

watchdogVars == <<life, usr1, usr2, wd, i, check, count,
                  answered, fell, late, missed>>
logVars == <<stage, line, file>>
vars == <<watchdogVars, logVars>>

Init == W!Init /\ Log!Init

-----------------------------------------------------------------------------
(* The watchdog: nothing happens to its loop while it is inside logging(). *)

Ping == W!Ping /\ Log!Call("WD", "info")

CheckFails == W!CheckFails /\ Log!Call("WD", "warn")

Computes ==
  /\ Log!Idle("WD")
  /\ W!Timeout \/ W!CheckPasses \/ W!Reset
  /\ UNCHANGED logVars

Victim == W!KillOrder[i]

KillWithoutLog == W!KillNext /\ Log!Drop({Victim})  \* mutant: does not wait for logging()

\* A reaped process has no lock, so that Drop leaves it alone.
KillNext == Log!Idle("WD") /\ W!KillNext /\ Log!Drop({Victim})

\* WD's handler, which may interrupt flock: SA_RESTART takes it up again.
Deliver ==
  /\ W!Deliver
  /\ Log!Idle("WD") \/ wd' = wd
  /\ UNCHANGED logVars

LogStep(w) == Log!TakeLock(w) \/ Log!Unlock(w) \/ Log!Flush(w)

WDLogs == LogStep("WD") /\ UNCHANGED watchdogVars

WD == Ping \/ CheckFails \/ Computes \/ KillNext \/ WDLogs

-----------------------------------------------------------------------------
(* The others *)

Answer(p) == W!Answer(p) /\ UNCHANGED logVars

\* The loop reaches a call of logging().
Logs(p) ==
  /\ life[p] = "up"
  /\ Log!Call(p, "info")
  /\ UNCHANGED watchdogVars

Works(p) ==
  /\ life[p] = "up"
  /\ LogStep(p)
  /\ UNCHANGED watchdogVars

\* A process is frozen, in whatever it does, continues, or is waited for.
Befalls(p) ==
  /\ W!Freeze(p) \/ W!Thaw(p) \/ W!Reap(p)
  /\ UNCHANGED logVars

Die(p) == W!Die(p) /\ Log!Drop({p})

CloseKonsole(k) == W!CloseKonsole(k) /\ Log!Drop({W!Child[k]})

Environment ==
  \/ \E p \in W!Monitored \cap Faulty : Befalls(p) \/ Die(p)
  \/ \E k \in W!Konsoles \cap Faulty : CloseKonsole(k)

Next ==
  \/ WD \/ Deliver \/ Environment
  \/ \E p \in W!Monitored : Answer(p)
  \/ \E p \in Loggers : Logs(p) \/ Works(p)

Spec == Init /\ [][Next]_vars

(***************************************************************************)
(* As in Watchdog; a process that waits for the lock gets it if it is free *)
(* again and again: the others sleep between two calls of logging().       *)
(***************************************************************************)
FairSpec ==
  /\ Spec
  /\ WF_vars(WD) /\ WF_vars(Deliver)
  /\ SF_vars(WDLogs)
  /\ \A p \in W!Monitored : WF_vars(Answer(p))
  /\ \A p \in Loggers : SF_vars(Works(p))

-----------------------------------------------------------------------------
TypeOK == W!TypeOK /\ Log!Types

(***************************************************************************)
(* What WD writes in the log about a fault is on the file before the first *)
(* process is killed: the kills cannot outrun the line that explains them, *)
(* although that line leaves the buffer only after the lock is given back. *)
(***************************************************************************)
WarnedBeforeKill ==
  wd = "done" \/ (wd = "kill" /\ i > 1) => file["WD"] = "warn"

(***************************************************************************)
(* A process that dies, wherever it is in logging(), takes the program     *)
(* down, provided that no process is frozen for good with the lock.        *)
(***************************************************************************)
HolderRuns ==
  \A p \in Loggers : []<>~(life[p] = "frozen" /\ stage[p] = "locked")

FaultEndsRun == HolderRuns => W!FaultEndsRun

(***************************************************************************)
(* README.md:136: "In case that this signal is not received, meaning that  *)
(* the process is frozen, the WD kills all the processes."  Violated: a    *)
(* process frozen between LOCK_EX and LOCK_UN freezes WD in its next       *)
(* logging().                                                              *)
(***************************************************************************)
FreezeEndsRun ==
  (\E p \in W!Monitored : <>[](life[p] = "frozen")) => <>W!AllDead
=============================================================================
