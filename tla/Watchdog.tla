------------------------------- MODULE Watchdog -------------------------------
(***************************************************************************)
(* The watchdog WD and the processes it monitors, from the first SIGUSR1   *)
(* on.  WD takes the processes in turn.  For each it sends SIGUSR1, sleeps,*)
(* and goes on to the next one if the SIGUSR2 that the process's handler   *)
(* sends back has run WD's own handler; if the kill failed or no answer    *)
(* came, it sends SIGKILL to every process and both Konsoles, and exits.   *)
(*                                                                         *)
(* Standard signals do not queue: a pending one absorbs the next.  A dead  *)
(* process that nobody has waited for is a zombie, and kill on a zombie    *)
(* succeeds.                                                               *)
(***************************************************************************)
EXTENDS Integers, Sequences, FiniteSets

Monitored == {"input", "map", "server", "drone"}
Konsoles == {"konsole_input", "konsole_map"}
Targets == Monitored \cup Konsoles

AllButDrone == <<"input", "map", "server">>  \* mutant: bound off by one

\* p_pids: the order in which the processes are checked.
PPids == <<"input", "map", "server", "drone">>

NoDrone == <<"input", "map", "server", "konsole_input", "konsole_map">>  \* mutant

\* The order in which they are killed, with the Konsoles last.
KillOrder == <<"input", "map", "server", "drone",
               "konsole_input", "konsole_map">>

\* The process that runs inside a Konsole and is hung up with it.
Child == [konsole_input |-> "input", konsole_map |-> "map"]

VARIABLES
  life,   \* "up", "frozen" (its handlers cannot run), "zombie", "reaped"
  usr1,   \* SIGUSR1 is pending at a monitored process
  usr2,   \* SIGUSR2 is pending at WD
  wd,     \* "ping", "sleep", "check", "reset", "kill", "done"
  i,      \* the process being checked, or the next one to kill
  check,  \* what Kill2 returned: 0 or -1
  count,  \* answers counted since the last reset
  \* History, read by the properties only; of the process being checked,
  \* since its SIGUSR1 was sent:
  answered,  \* its handler has run
  fell,      \* it was frozen or dead at some time
  late,      \* the sleep ran out while an answer was still possible
  missed     \* checks passed since the first process died

history == <<answered, fell, late, missed>>
vars == <<life, usr1, usr2, wd, i, check, count, history>>

Dead(p) == life[p] \in {"zombie", "reaped"}
SomeoneDead == \E p \in Monitored : Dead(p)
AllDead == \A p \in Targets : Dead(p)

Init ==
  /\ life = [p \in Targets |-> "up"]
  /\ usr1 = [p \in Monitored |-> FALSE]
  /\ usr2 = FALSE
  /\ wd = "ping"
  /\ i = 1
  /\ check = 0
  /\ count = 0
  /\ answered = FALSE
  /\ fell = FALSE
  /\ late = FALSE
  /\ missed = 0

-----------------------------------------------------------------------------
(* The watchdog *)

PingTo(S, label) ==
  /\ wd = "ping"
  /\ check' = IF life[PPids[i]] = "reaped" THEN -1 ELSE 0
  /\ usr1' = [p \in Monitored |-> usr1[p] \/ (p \in S /\ ~Dead(p))]
  /\ wd' = label
  /\ answered' = FALSE
  /\ fell' = (life[PPids[i]] # "up")
  /\ late' = FALSE
  /\ UNCHANGED <<life, usr2, i, count, missed>>

PingAll == PingTo(Monitored, "sleep")    \* mutant: one round of signals at once
PingNoSleep == PingTo({PPids[i]}, "check")  \* mutant: the sleep is missing

\* check = Kill2(p_pids[i], SIGUSR1), and the log line.
Ping == PingTo({PPids[i]}, "sleep")

\* WD's handler.  It interrupts the sleep; whether sleep(1) then returns 0
\* and the window closes, or the whole second starts again, depends on how
\* the C library rounds what was left.
Deliver ==
  /\ usr2
  /\ wd # "done"
  /\ usr2' = FALSE
  /\ count' = count + 1
  /\ wd' \in IF wd = "sleep" THEN {"sleep", "check"} ELSE {wd}
  /\ UNCHANGED <<life, usr1, i, check, history>>

\* sleep has lasted its second, with or without an answer.
Timeout ==
  /\ wd = "sleep"
  /\ wd' = "check"
  /\ late' = (usr2 \/ \E p \in Monitored : usr1[p] /\ life[p] = "up")
  /\ UNCHANGED <<life, usr1, usr2, i, check, count, answered, fell, missed>>

CheckFails ==
  /\ wd = "check"
  /\ check = -1 \/ count = 0
  /\ wd' = "kill"
  /\ i' = 1
  /\ UNCHANGED <<life, usr1, usr2, check, count, history>>

CheckPasses ==
  /\ wd = "check"
  /\ check # -1 /\ count # 0
  /\ wd' = "reset"
  /\ missed' = IF SomeoneDead THEN missed + 1 ELSE 0
  /\ UNCHANGED <<life, usr1, usr2, i, check, count, answered, fell, late>>

ResetTo(n) ==
  /\ wd = "reset"
  /\ count' = n
  /\ i' = (i % Len(PPids)) + 1
  /\ wd' = "ping"
  /\ UNCHANGED <<life, usr1, usr2, check, history>>

NoReset == ResetTo(IF count > 0 THEN 1 ELSE 0)  \* mutant: count is never reset

\* count = 0 and the next turn of the loop.
Reset == ResetTo(0)

\* Kill2(..., SIGKILL) of one process after the other, then exit.
KillNext ==
  /\ wd = "kill"
  /\ life' = [life EXCEPT ![KillOrder[i]] = IF @ = "reaped" THEN @ ELSE "zombie"]
  /\ IF i < Len(KillOrder) THEN i' = i + 1 /\ wd' = wd
                           ELSE wd' = "done" /\ i' = i
  /\ UNCHANGED <<usr1, usr2, check, count, history>>

WD == Ping \/ Timeout \/ CheckFails \/ CheckPasses \/ Reset \/ KillNext

-----------------------------------------------------------------------------
(* The monitored processes *)

Checked(p) == wd \notin {"kill", "done"} /\ p = PPids[i]

\* signal_handler of server, drone, input and map.
Answer(p) ==
  /\ life[p] = "up"
  /\ usr1[p]
  /\ usr1' = [usr1 EXCEPT ![p] = FALSE]
  /\ usr2' = TRUE
  /\ answered' = (answered \/ Checked(p))
  /\ UNCHANGED <<life, wd, i, check, count, fell, late, missed>>

Becomes(p, l) ==
  /\ life' = [life EXCEPT ![p] = l]
  /\ fell' = (fell \/ Checked(p))
  /\ UNCHANGED <<usr1, usr2, wd, i, check, count, answered, late, missed>>

Freeze(p) == life[p] = "up" /\ Becomes(p, "frozen")
Thaw(p) == life[p] = "frozen" /\ Becomes(p, "up")
Die(p) == life[p] \in {"up", "frozen"} /\ Becomes(p, "zombie")
Reap(p) == life[p] = "zombie" /\ Becomes(p, "reaped")

\* A Konsole is closed: what runs in it is hung up.
CloseKonsole(k) ==
  /\ life[k] = "up"
  /\ life' = [life EXCEPT ![k] = "zombie",
                ![Child[k]] = IF @ = "reaped" THEN @ ELSE "zombie"]
  /\ fell' = (fell \/ Checked(Child[k]))
  /\ UNCHANGED <<usr1, usr2, wd, i, check, count, answered, late, missed>>

Environment ==
  \/ \E p \in Monitored : Freeze(p) \/ Thaw(p) \/ Die(p) \/ Reap(p)
  \/ \E k \in Konsoles : CloseKonsole(k)

Next == WD \/ Deliver \/ (\E p \in Monitored : Answer(p)) \/ Environment

Spec == Init /\ [][Next]_vars

(***************************************************************************)
(* WD and every handler of a process that can run get the processor.       *)
(* Nothing is assumed of deaths, freezes, thaws and reaping.               *)
(***************************************************************************)
FairSpec == /\ Spec
            /\ WF_vars(WD) /\ WF_vars(Deliver)
            /\ \A p \in Monitored : WF_vars(Answer(p))

-----------------------------------------------------------------------------
TypeOK ==
  /\ life \in [Targets -> {"up", "frozen", "zombie", "reaped"}]
  /\ usr1 \in [Monitored -> BOOLEAN]
  /\ usr2 \in BOOLEAN
  /\ wd \in {"ping", "sleep", "check", "reset", "kill", "done"}
  /\ i \in 1..(IF wd \in {"kill", "done"} THEN Len(KillOrder) ELSE Len(PPids))
  /\ check \in {0, -1}
  /\ count \in 0..1
  /\ answered \in BOOLEAN
  /\ fell \in BOOLEAN
  /\ late \in BOOLEAN
  /\ missed \in Nat

(***************************************************************************)
(* SIGUSR2 does not say who sent it to the code that counts it.  Yet while *)
(* WD checks, an answer counted or on its way is always the one of the     *)
(* process being checked: no process survives a check on the answer of     *)
(* another, or on its own answer to an earlier signal.                     *)
(***************************************************************************)
Attribution ==
  wd \in {"sleep", "check"} /\ (usr2 \/ count > 0) => answered

(***************************************************************************)
(* When WD writes count = 0, the handler has nothing left to count: the    *)
(* reset wipes out no answer, and the unlocked count++ does not race it.   *)
(***************************************************************************)
NoAnswerLost ==
  wd = "reset" => ~usr2 /\ \A p \in Monitored : ~usr1[p]

(***************************************************************************)
(* WD kills everyone only because the process it was checking was frozen   *)
(* or dead after it was sent SIGUSR1, or could still have answered when    *)
(* the sleep ran out: never while an answer is in, whoever else died.      *)
(***************************************************************************)
NoFalseAlarm == wd = "kill" => fell \/ late

(***************************************************************************)
(* A dead process, zombie or not, passes unnoticed at most one turn of     *)
(* checks: the one of its own that it had just answered, and the others.   *)
(***************************************************************************)
BoundedDetection == missed <= Cardinality(Monitored)

(***************************************************************************)
(* When WD exits, nothing it was given is left running.                    *)
(***************************************************************************)
NothingLeft == wd = "done" => AllDead

(***************************************************************************)
(* A process that dies, or is frozen for good, takes the program down.     *)
(***************************************************************************)
FaultEndsRun ==
  /\ SomeoneDead ~> AllDead
  /\ (\E p \in Monitored : <>[](life[p] = "frozen")) => <>AllDead
=============================================================================
