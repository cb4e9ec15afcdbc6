--------------------------- MODULE SupervisedProofs ---------------------------
(***************************************************************************)
(* The watchdog with its log file, for any set of logging processes and    *)
(* any faults.  Logging takes nothing away from what the watchdog alone    *)
(* promises in a state, and the reason for a kill is on file before it.    *)
(***************************************************************************)
EXTENDS Supervised, TLAPS

WP == INSTANCE WatchdogProofs

(* The definitions of Watchdog are the same through both instances.        *)
LEMMA SameInit == Init => WP!Init
BY DEF Init, W!Init, WP!Init, W!Targets, WP!Targets, W!Monitored, WP!Monitored,
       W!Konsoles, WP!Konsoles

LEMMA SameNext == [Next]_vars => [WP!Next]_(WP!vars)
<1> USE DEF W!Targets, WP!Targets, W!Monitored, WP!Monitored, W!Konsoles, WP!Konsoles,
            W!PPids, WP!PPids, W!KillOrder, WP!KillOrder, W!Child, WP!Child,
            W!Dead, WP!Dead, W!SomeoneDead, WP!SomeoneDead, W!Checked, WP!Checked,
            W!history, WP!history
<1>1. W!Ping => WP!Ping
  BY DEF W!Ping, WP!Ping, W!PingTo, WP!PingTo
<1>2. W!Timeout => WP!Timeout
  BY DEF W!Timeout, WP!Timeout
<1>3. W!CheckFails => WP!CheckFails
  BY DEF W!CheckFails, WP!CheckFails
<1>4. W!CheckPasses => WP!CheckPasses
  BY DEF W!CheckPasses, WP!CheckPasses
<1>5. W!Reset => WP!Reset
  BY DEF W!Reset, WP!Reset, W!ResetTo, WP!ResetTo
<1>6. W!KillNext => WP!KillNext
  BY DEF W!KillNext, WP!KillNext
<1>7. W!Deliver => WP!Deliver
  BY DEF W!Deliver, WP!Deliver
<1>8. ASSUME NEW p \in W!Monitored
      PROVE  /\ W!Answer(p) => WP!Answer(p)
             /\ W!Freeze(p) => WP!Freeze(p)
             /\ W!Thaw(p) => WP!Thaw(p)
             /\ W!Die(p) => WP!Die(p)
             /\ W!Reap(p) => WP!Reap(p)
  BY DEF W!Answer, WP!Answer, W!Freeze, WP!Freeze, W!Thaw, WP!Thaw, W!Die, WP!Die,
         W!Reap, WP!Reap, W!Becomes, WP!Becomes
<1>9. ASSUME NEW k \in W!Konsoles PROVE W!CloseKonsole(k) => WP!CloseKonsole(k)
  BY DEF W!CloseKonsole, WP!CloseKonsole
<1> QED
  BY <1>1, <1>2, <1>3, <1>4, <1>5, <1>6, <1>7, <1>8, <1>9, SupervisedAssumption
  DEF Next, WD, Ping, CheckFails, Computes, KillNext, WDLogs, Deliver, Answer, Logs,
      Works, Environment, Befalls, Die, CloseKonsole, vars, watchdogVars,
      WP!Next, WP!WD, WP!Environment, WP!vars

(* Every run of the watchdog with the log is a run of the watchdog.        *)
THEOREM Implements == Spec => WP!Spec
<1>1. Spec => WP!Init /\ [][WP!Next]_(WP!vars)
  BY SameInit, SameNext, PTL DEF Spec
<1> QED
  BY <1>1 DEF WP!Spec

-----------------------------------------------------------------------------
(* What the watchdog promises alone it promises with the log: it does not  *)
(* kill a program in which the process being checked was well and had no   *)
(* answer left to give.                                                    *)
THEOREM LoggingRaisesNoAlarm == Spec => []W!NoFalseAlarm
<1>1. WP!NoFalseAlarm => W!NoFalseAlarm
  BY DEF W!NoFalseAlarm, WP!NoFalseAlarm
<1> QED
  BY <1>1, Implements, WP!AlarmsAreTrue, PTL

(* WD's exit leaves nothing running, whatever the log was doing.           *)
THEOREM ExitStillLeavesNothing == Spec => []W!NothingLeft
<1>1. WP!NothingLeft => W!NothingLeft
  BY DEF W!NothingLeft, WP!NothingLeft, W!AllDead, WP!AllDead, W!Dead, WP!Dead,
         W!Targets, WP!Targets, W!Monitored, WP!Monitored, W!Konsoles, WP!Konsoles
<1> QED
  BY <1>1, Implements, WP!ExitLeavesNothing, PTL

-----------------------------------------------------------------------------
(* Each step of logging() keeps the types of the log's variables.          *)
LEMMA LogSteps ==
  ASSUME Log!Types, NEW w \in Loggers \cup {"WD"}, NEW l \in {"info", "warn"}
  PROVE  /\ Log!Call(w, l) => Log!Types'
         /\ LogStep(w) => Log!Types'
         /\ \A S : Log!Drop(S) => Log!Types'
         /\ UNCHANGED logVars => Log!Types'
<1>1. Log!Call(w, l) => Log!Types'
  BY DEF Log!Call, Log!Goes, Log!Types
<1>2. LogStep(w) => Log!Types'
  BY DEF LogStep, Log!TakeLock, Log!Unlock, Log!Flush, Log!Goes, Log!Types
<1>3. \A S : Log!Drop(S) => Log!Types'
  BY DEF Log!Drop, Log!Types
<1>4. UNCHANGED logVars => Log!Types'
  BY DEF logVars, Log!Types
<1> QED
  BY <1>1, <1>2, <1>3, <1>4

LEMMA LogTypes == Spec => []Log!Types
<1>1. Init => Log!Types
  BY DEF Init, Log!Init, Log!Types
<1>2. Log!Types /\ [Next]_vars => Log!Types'
  <2> SUFFICES ASSUME Log!Types, [Next]_vars PROVE Log!Types'
    OBVIOUS
  <2>1. "WD" \in Loggers \cup {"WD"}
    OBVIOUS
  <2>2. CASE WD
    BY <2>1, <2>2, LogSteps DEF WD, Ping, CheckFails, Computes, KillNext, WDLogs
  <2>3. CASE Deliver
    BY <2>1, <2>3, LogSteps DEF Deliver
  <2>4. CASE Environment
    BY <2>1, <2>4, LogSteps DEF Environment, Befalls, Die, CloseKonsole
  <2>5. ASSUME NEW p \in W!Monitored, Answer(p) PROVE Log!Types'
    BY <2>1, <2>5, LogSteps DEF Answer
  <2>6. ASSUME NEW p \in Loggers, Logs(p) \/ Works(p) PROVE Log!Types'
    BY <2>6, LogSteps DEF Logs, Works
  <2>7. CASE UNCHANGED vars
    BY <2>1, <2>7, LogSteps DEF vars
  <2> QED
    BY <2>2, <2>3, <2>4, <2>5, <2>6, <2>7 DEF Next
<1> QED
  BY <1>1, <1>2, PTL DEF Spec

(* The variables of the watchdog and of the log keep their types when both *)
(* run together.                                                           *)
THEOREM SupervisedTypes == Spec => []TypeOK
<1>1. WP!TypeOK => W!TypeOK
  BY DEF W!TypeOK, WP!TypeOK, W!Targets, WP!Targets, W!Monitored, WP!Monitored,
         W!Konsoles, WP!Konsoles, W!PPids, WP!PPids, W!KillOrder, WP!KillOrder
<1>2. Spec => []W!TypeOK
  BY <1>1, Implements, WP!WatchdogTypes, PTL
<1> QED
  BY <1>2, LogTypes, PTL DEF TypeOK

-----------------------------------------------------------------------------
\* From the moment WD decides to kill, the line that says why is in
\* logging(), and on file when WD comes out of it.
WarningAhead ==
  /\ wd \in {"kill", "done"} => line["WD"] = "warn"
  /\ wd \in {"kill", "done"} /\ stage["WD"] = "idle" => file["WD"] = "warn"
  /\ wd = "kill" /\ i # 1 => stage["WD"] = "idle"
  /\ wd = "done" => stage["WD"] = "idle"

LEMMA WarningAheadNext ==
  ASSUME W!TypeOK, Log!Types, WarningAhead, [Next]_vars
  PROVE  WarningAhead'
<1> USE DEF Log!Idle, Log!Goes
<1>1. CASE Ping
  BY <1>1 DEF Ping, W!Ping, W!PingTo, WarningAhead
<1>2. CASE CheckFails
  <2>1. wd' = "kill" /\ i' = 1
    BY <1>2 DEF CheckFails, W!CheckFails
  <2>2. stage' = [stage EXCEPT !["WD"] = "wait"] /\ line' = [line EXCEPT !["WD"] = "warn"]
    BY <1>2 DEF CheckFails, Log!Call
  <2>3. stage'["WD"] = "wait" /\ line'["WD"] = "warn"
    BY <2>2 DEF Log!Types
  <2> QED
    BY <2>1, <2>3 DEF WarningAhead
<1>3. CASE Computes
  <2>1. wd' \notin {"kill", "done"}
    BY <1>3 DEF Computes, W!Timeout, W!CheckPasses, W!Reset, W!ResetTo
  <2> QED
    BY <2>1 DEF WarningAhead
<1>4. CASE KillNext
  <2>1. wd = "kill" /\ stage["WD"] = "idle"
    BY <1>4 DEF KillNext, W!KillNext
  <2>2. stage'["WD"] = "idle" /\ line' = line /\ file' = file
    BY <1>4, <2>1 DEF KillNext, Log!Drop
  <2>3. line["WD"] = "warn" /\ file["WD"] = "warn"
    BY <2>1 DEF WarningAhead
  <2> QED
    BY <2>2, <2>3 DEF WarningAhead
<1>5. CASE WDLogs
  <2>1. wd' = wd /\ i' = i
    BY <1>5 DEF WDLogs, watchdogVars
  <2>2. wd # "done" /\ (wd = "kill" => i = 1)
    BY <1>5 DEF WDLogs, LogStep, Log!TakeLock, Log!Unlock, Log!Flush, WarningAhead
  <2>3. CASE Log!TakeLock("WD") \/ Log!Unlock("WD")
    <3>1. stage'["WD"] # "idle" /\ line' = line
      BY <2>3 DEF Log!TakeLock, Log!Unlock, Log!Types
    <3> QED
      BY <2>1, <2>2, <3>1 DEF WarningAhead
  <2>4. CASE Log!Flush("WD")
    <3>1. file'["WD"] = line["WD"] /\ line' = line
      BY <2>4 DEF Log!Flush, Log!Types
    <3> QED
      BY <2>1, <2>2, <3>1 DEF WarningAhead
  <2> QED
    BY <1>5, <2>3, <2>4 DEF WDLogs, LogStep
<1>6. CASE Deliver
  <2>1. /\ i' = i /\ UNCHANGED logVars
        /\ wd' = wd \/ wd' = "check"
    BY <1>6 DEF Deliver, W!Deliver
  <2> QED
    BY <2>1 DEF WarningAhead, logVars
<1>7. CASE Environment \/ \E p \in W!Monitored : Answer(p)
  <2>1. wd' = wd /\ i' = i /\ line' = line /\ file' = file
    BY <1>7 DEF Environment, Befalls, Die, CloseKonsole, Answer, W!Freeze, W!Thaw, W!Reap,
                W!Die, W!CloseKonsole, W!Becomes, W!Answer, Log!Drop, logVars
  <2>2. stage'["WD"] = stage["WD"]
    <3>1. ASSUME NEW S, "WD" \notin S, Log!Drop(S) PROVE stage'["WD"] = stage["WD"]
      BY <3>1 DEF Log!Drop
    <3>2. ASSUME NEW p \in W!Monitored PROVE "WD" \notin {p}
      BY DEF W!Monitored
    <3>3. ASSUME NEW k \in W!Konsoles PROVE "WD" \notin {W!Child[k]}
      BY DEF W!Konsoles, W!Child
    <3> QED
      BY <1>7, <3>1, <3>2, <3>3
      DEF Environment, Befalls, Die, CloseKonsole, Answer, logVars
  <2> QED
    BY <2>1, <2>2 DEF WarningAhead
<1>8. ASSUME NEW p \in Loggers, Logs(p) \/ Works(p) PROVE WarningAhead'
  <2>1. p # "WD"
    BY SupervisedAssumption DEF W!Monitored
  <2>2. wd' = wd /\ i' = i
    BY <1>8 DEF Logs, Works, watchdogVars
  <2>3. /\ stage'["WD"] = stage["WD"] /\ line'["WD"] = line["WD"]
        /\ file'["WD"] = file["WD"]
    BY <1>8, <2>1 DEF Logs, Works, LogStep, Log!Call, Log!TakeLock, Log!Unlock, Log!Flush,
                      Log!Types
  <2> QED
    BY <2>2, <2>3 DEF WarningAhead
<1>9. CASE UNCHANGED vars
  BY <1>9 DEF vars, watchdogVars, logVars, WarningAhead
<1> QED
  BY <1>1, <1>2, <1>3, <1>4, <1>5, <1>6, <1>7, <1>8, <1>9 DEF Next, WD

(* The reason for killing the program is in the log file before WD kills   *)
(* the first process, whoever else waits for the lock.                     *)
THEOREM WarningFirst == Spec => []WarnedBeforeKill
<1>1. Init => WarningAhead
  BY DEF Init, W!Init, WarningAhead
<1>2. WarningAhead => WarnedBeforeKill
  <2> SUFFICES ASSUME WarningAhead PROVE WarnedBeforeKill
    OBVIOUS
  <2>1. ASSUME wd = "kill", i > 1 PROVE i # 1
    BY <2>1
  <2> QED
    BY <2>1 DEF WarningAhead, WarnedBeforeKill
<1>3. Spec => []W!TypeOK
  BY SupervisedTypes, PTL DEF TypeOK
<1>4. Spec => []WarningAhead
  BY <1>1, <1>3, LogTypes, WarningAheadNext, PTL DEF Spec
<1> QED
  BY <1>2, <1>4, PTL
=============================================================================
