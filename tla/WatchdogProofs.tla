---------------------------- MODULE WatchdogProofs ----------------------------
(***************************************************************************)
(* Proofs about the watchdog.  Everything rests on one fact that no line   *)
(* of WD.c states: at any time there is at most one signal in flight, the  *)
(* question, its answer, or the counted answer.                            *)
(***************************************************************************)
EXTENDS Watchdog, FiniteSetTheorems, TLAPS

USE DEF Monitored, Konsoles, Targets

Turn == PPids[i]

Control ==
  /\ usr1 \in [Monitored -> BOOLEAN]
  /\ usr2 \in BOOLEAN
  /\ wd \in {"ping", "sleep", "check", "reset", "kill", "done"}
  /\ i \in 1..6
  /\ wd \notin {"kill", "done"} => i \in 1..4
  /\ check \in {0, -1}
  /\ count \in 0..1

History ==
  /\ life \in [Targets -> {"up", "frozen", "zombie", "reaped"}]
  /\ answered \in BOOLEAN
  /\ fell \in BOOLEAN
  /\ late \in BOOLEAN
  /\ missed \in Nat

\* The question, the answer and the counted answer exclude each other.
OneSignal ==
  /\ usr2 => count = 0
  /\ \A p \in Monitored : usr1[p] =>
       /\ count = 0
       /\ ~usr2
       /\ \A q \in Monitored : usr1[q] => q = p

\* Whom the signal in flight belongs to in each part of WD's loop.
WhoseSignal ==
  /\ wd = "ping" => count = 0 /\ ~usr2 /\ \A p \in Monitored : ~usr1[p]
  /\ wd \in {"sleep", "check"} => \A p \in Monitored : usr1[p] => p = Turn
  /\ wd = "reset" => count # 0
  /\ Attribution

\* While the checked process has been well, the signal has not been lost.
SignalKept ==
  /\ wd \in {"sleep", "check"} /\ check = -1 => fell
  /\ wd \in {"sleep", "check"} /\ ~fell => life[Turn] = "up"
  /\ wd = "sleep" /\ ~fell => usr1[Turn] \/ usr2 \/ count > 0
  /\ wd = "check" /\ ~fell /\ ~late => count > 0
  /\ NoFalseAlarm

\* The processes already killed stay dead.
KilledSoFar ==
  /\ wd = "kill" => \A j \in 1..(i - 1) : Dead(KillOrder[j])
  /\ NothingLeft

WDInv == Control /\ History /\ OneSignal /\ WhoseSignal /\ SignalKept /\ KilledSoFar

LEMMA TurnMonitored == i \in 1..4 => Turn \in Monitored
BY DEF Turn, PPids

LEMMA KillOrderAll ==
  /\ Len(KillOrder) = 6
  /\ \A j \in 1..6 : KillOrder[j] \in Targets
  /\ \A t \in Targets : \E j \in 1..6 : KillOrder[j] = t
<1>1. Len(KillOrder) = 6
  BY DEF KillOrder
<1>2. \A j \in 1..6 : KillOrder[j] \in Targets
  BY DEF KillOrder
<1>3. /\ KillOrder[1] = "input" /\ KillOrder[2] = "map" /\ KillOrder[3] = "server"
      /\ KillOrder[4] = "drone" /\ KillOrder[5] = "konsole_input"
      /\ KillOrder[6] = "konsole_map"
  BY DEF KillOrder
<1> QED
  BY <1>1, <1>2, <1>3

LEMMA WDInvInit == Init => WDInv
<1> SUFFICES ASSUME Init PROVE WDInv
  OBVIOUS
<1>1. Control
  <2>1. usr1 \in [Monitored -> BOOLEAN] /\ usr2 \in BOOLEAN
    BY DEF Init
  <2> QED
    BY <2>1 DEF Init, Control
<1>a. History
  BY DEF Init, History
<1>2. OneSignal /\ WhoseSignal
  BY DEF Init, OneSignal, WhoseSignal, Attribution
<1>3. SignalKept /\ KilledSoFar
  BY DEF Init, SignalKept, NoFalseAlarm, KilledSoFar, NothingLeft
<1> QED
  BY <1>1, <1>a, <1>2, <1>3 DEF WDInv

\* One lemma per action.  WD's own steps first.
LEMMA PingInv == WDInv /\ Ping => WDInv'
<1> SUFFICES ASSUME WDInv, Ping PROVE WDInv'
  OBVIOUS
<1> USE DEF Ping, PingTo
<1>1. Control /\ History /\ OneSignal /\ WhoseSignal
  BY DEF WDInv
<1>2. /\ wd = "ping" /\ wd' = "sleep"
      /\ i \in 1..4 /\ i' = i /\ Turn' = Turn /\ Turn \in Monitored
  BY <1>1, TurnMonitored DEF Control, Turn
<1>3. /\ usr1' = [p \in Monitored |-> p = Turn /\ ~Dead(p)]
      /\ count' = 0 /\ ~usr2' /\ usr2' = usr2
  <2>1. count = 0 /\ ~usr2 /\ \A p \in Monitored : usr1[p] = FALSE
    BY <1>1, <1>2 DEF WhoseSignal, Control
  <2> QED
    BY <2>1 DEF Turn
<1>4. Control'
  BY <1>1, <1>2, <1>3 DEF Control
<1>5. History'
  <2>1. fell' \in BOOLEAN
    OBVIOUS
  <2> QED
    BY <1>1, <2>1 DEF History
<1>6. OneSignal' /\ WhoseSignal'
  <2>1. \A p \in Monitored : usr1'[p] => p = Turn'
    BY <1>2, <1>3
  <2>2. OneSignal'
    BY <1>3, <2>1 DEF OneSignal
  <2>3. WhoseSignal'
    BY <1>2, <1>3, <2>1 DEF WhoseSignal, Attribution
  <2> QED
    BY <2>2, <2>3
<1>7. SignalKept'
  <2>1. check' = -1 => fell'
    <3>1. check' = -1 => life[PPids[i]] = "reaped"
      OBVIOUS
    <3>2. life[PPids[i]] = "reaped" => fell'
      OBVIOUS
    <3> QED
      BY <3>1, <3>2
  <2>2. ~fell' => life'[Turn'] = "up" /\ usr1'[Turn']
    BY <1>2, <1>3 DEF Turn, Dead
  <2> QED
    BY <1>2, <2>1, <2>2 DEF SignalKept, NoFalseAlarm
<1>8. KilledSoFar'
  BY <1>2 DEF KilledSoFar, NothingLeft
<1> QED
  BY <1>4, <1>5, <1>6, <1>7, <1>8 DEF WDInv

LEMMA TimeoutInv == WDInv /\ Timeout => WDInv'
<1> SUFFICES ASSUME WDInv, Timeout PROVE WDInv'
  OBVIOUS
<1> USE DEF Timeout
<1>1. Control' /\ History'
  BY DEF WDInv, Control, History
<1>2. OneSignal' /\ WhoseSignal'
  BY DEF WDInv, OneSignal, WhoseSignal, Attribution, Turn
<1>3. SignalKept'
  <2>1. Turn \in Monitored /\ Turn' = Turn
    BY TurnMonitored DEF WDInv, Control, Turn
  <2> QED
    BY <2>1 DEF WDInv, Control, History, SignalKept, NoFalseAlarm
<1>4. KilledSoFar'
  BY DEF WDInv, KilledSoFar, NothingLeft
<1> QED
  BY <1>1, <1>2, <1>3, <1>4 DEF WDInv

LEMMA CheckInv == WDInv /\ (CheckFails \/ CheckPasses) => WDInv'
<1> SUFFICES ASSUME WDInv, CheckFails \/ CheckPasses PROVE WDInv'
  OBVIOUS
<1> USE DEF CheckFails, CheckPasses, history
<1>1. Control' /\ History'
  BY DEF WDInv, Control, History
<1>2. OneSignal' /\ WhoseSignal'
  BY DEF WDInv, OneSignal, WhoseSignal, Attribution, Control
<1>3. SignalKept'
  BY DEF WDInv, SignalKept, NoFalseAlarm, Control
<1>4. KilledSoFar'
  BY DEF WDInv, KilledSoFar, NothingLeft
<1> QED
  BY <1>1, <1>2, <1>3, <1>4 DEF WDInv

\* The reset finds the counted answer and therefore no other signal.
LEMMA ResetInv == WDInv /\ Reset => WDInv'
<1> SUFFICES ASSUME WDInv, Reset PROVE WDInv'
  OBVIOUS
<1> USE DEF Reset, ResetTo, history
<1>1. i \in 1..4 /\ wd = "reset" /\ wd' = "ping"
  BY DEF WDInv, Control
<1>2. Len(PPids) = 4
  BY DEF PPids
<1>3. i' \in 1..4
  BY <1>1, <1>2
<1>4. count' = 0 /\ ~usr2 /\ \A p \in Monitored : ~usr1[p]
  BY <1>1 DEF WDInv, OneSignal, WhoseSignal, Control
<1>5. Control' /\ History'
  BY <1>1, <1>3, <1>4 DEF WDInv, Control, History
<1>6. OneSignal' /\ WhoseSignal'
  BY <1>1, <1>4 DEF OneSignal, WhoseSignal, Attribution
<1>7. SignalKept' /\ KilledSoFar'
  BY <1>1 DEF SignalKept, KilledSoFar, NoFalseAlarm, NothingLeft
<1> QED
  BY <1>5, <1>6, <1>7 DEF WDInv

LEMMA KillNextInv == WDInv /\ KillNext => WDInv'
<1> SUFFICES ASSUME WDInv, KillNext PROVE WDInv'
  OBVIOUS
<1> USE DEF KillNext, history
<1>1. Control /\ History /\ KilledSoFar /\ i \in 1..6 /\ Len(KillOrder) = 6
  BY KillOrderAll DEF WDInv, Control
<1>2. wd = "kill" /\ wd' \in {"kill", "done"}
  BY <1>1
<1>3. Control' /\ History'
  BY <1>1, <1>2, KillOrderAll DEF Control, History
<1>4. OneSignal' /\ WhoseSignal'
  BY <1>2 DEF WDInv, OneSignal, WhoseSignal, Attribution
<1>5. SignalKept'
  BY <1>2 DEF WDInv, SignalKept, NoFalseAlarm
<1>6. \A j \in 1..i : Dead(KillOrder[j])'
  <2> SUFFICES ASSUME NEW j \in 1..i PROVE Dead(KillOrder[j])'
    OBVIOUS
  <2>1. KillOrder[j] \in Targets /\ KillOrder[i] \in Targets
    BY <1>1, KillOrderAll
  <2>2. CASE KillOrder[j] = KillOrder[i]
    BY <1>1, <2>1, <2>2 DEF Dead, History
  <2>3. CASE KillOrder[j] # KillOrder[i]
    <3>1. j \in 1..(i - 1)
      BY <1>1, <2>3
    <3> QED
      BY <1>1, <1>2, <2>1, <2>3, <3>1 DEF Dead, History, KilledSoFar
  <2> QED
    BY <2>2, <2>3
<1>7. KilledSoFar'
  <2>1. CASE i < 6
    BY <1>1, <1>6, <2>1 DEF KilledSoFar, NothingLeft
  <2>2. CASE i = 6
    <3>1. \A t \in Targets : Dead(t)'
      BY <1>6, <2>2, KillOrderAll
    <3> QED
      BY <1>1, <2>2, <3>1 DEF KilledSoFar, NothingLeft, AllDead
  <2> QED
    BY <1>1, <2>1, <2>2
<1> QED
  BY <1>3, <1>4, <1>5, <1>7 DEF WDInv

\* WD's handler turns the answer into a counted answer.
LEMMA DeliverInv == WDInv /\ Deliver => WDInv'
<1> SUFFICES ASSUME WDInv, Deliver PROVE WDInv'
  OBVIOUS
<1> USE DEF Deliver, history
<1>1. /\ count = 0 /\ count' = 1 /\ ~usr2'
      /\ \A p \in Monitored : ~usr1[p]
  BY DEF WDInv, Control, OneSignal
<1>2. /\ wd # "ping" /\ wd # "reset" /\ wd # "done"
      /\ wd' = wd \/ (wd = "sleep" /\ wd' = "check")
  BY <1>1 DEF WDInv, Control, WhoseSignal
<1>a. Control'
  <2>1. usr2' \in BOOLEAN
    OBVIOUS
  <2> QED
    BY <1>1, <1>2, <2>1 DEF WDInv, Control
<1>3. History'
  BY DEF WDInv, History
<1>4. OneSignal' /\ WhoseSignal'
  BY <1>1, <1>2 DEF WDInv, OneSignal, WhoseSignal, Attribution
<1>5. SignalKept'
  BY <1>1, <1>2 DEF WDInv, SignalKept, NoFalseAlarm, Turn
<1>6. KilledSoFar'
  BY <1>2 DEF WDInv, KilledSoFar, NothingLeft, Dead
<1> QED
  BY <1>a, <1>3, <1>4, <1>5, <1>6 DEF WDInv

\* A process's handler turns the question into the answer.
LEMMA AnswerInv == ASSUME NEW p \in Monitored PROVE WDInv /\ Answer(p) => WDInv'
<1> SUFFICES ASSUME WDInv, Answer(p) PROVE WDInv'
  OBVIOUS
<1> USE DEF Answer
<1>1. /\ count = 0 /\ usr2' /\ \A q \in Monitored : ~usr1'[q]
      /\ count' = 0 /\ wd' = wd /\ Turn' = Turn
  BY DEF WDInv, Control, OneSignal, Turn
<1>2. /\ wd \notin {"ping", "reset"}
      /\ wd \in {"sleep", "check"} => p = Turn
  BY DEF WDInv, Control, OneSignal, WhoseSignal
<1>a. Control'
  BY DEF WDInv, Control
<1>3. History'
  <2>1. answered' \in BOOLEAN
    BY DEF WDInv, History, Checked
  <2> QED
    BY <2>1 DEF WDInv, History
<1>4. OneSignal'
  BY <1>1 DEF OneSignal
<1>5. WhoseSignal'
  BY <1>1, <1>2 DEF WhoseSignal, Attribution, Checked, Turn
<1>6. SignalKept'
  BY <1>1 DEF WDInv, SignalKept, NoFalseAlarm
<1>7. KilledSoFar'
  BY DEF WDInv, KilledSoFar, NothingLeft, AllDead, Dead
<1> QED
  BY <1>a, <1>3, <1>4, <1>5, <1>6, <1>7 DEF WDInv

\* Processes freeze, thaw, die and are reaped: nobody dead comes back.
LEMMA FaultInv ==
  ASSUME WDInv, UNCHANGED <<usr1, usr2, wd, i, check, count, late, missed, answered>>,
         NEW p \in Targets,
         \A t \in Targets : Dead(t) => Dead(t)',
         life' \in [Targets -> {"up", "frozen", "zombie", "reaped"}],
         fell' \in BOOLEAN,
         fell => fell',
         wd \in {"sleep", "check"} /\ life'[Turn] # life[Turn] => fell'
  PROVE  WDInv'
<1>1. Control' /\ History'
  BY DEF WDInv, Control, History
<1>2. OneSignal' /\ WhoseSignal'
  BY DEF WDInv, OneSignal, WhoseSignal, Attribution, Turn
<1>3. SignalKept'
  <2>1. Turn' = Turn
    BY DEF Turn
  <2> QED
    BY <2>1 DEF WDInv, SignalKept, NoFalseAlarm
<1>4. KilledSoFar'
  <2>1. wd = "kill" => \A j \in 1..(i - 1) : KillOrder[j] \in Targets
    BY KillOrderAll DEF WDInv, Control
  <2> QED
    BY <2>1 DEF WDInv, KilledSoFar, NothingLeft, AllDead
<1> QED
  BY <1>1, <1>2, <1>3, <1>4 DEF WDInv

LEMMA EnvironmentInv == WDInv /\ Environment => WDInv'
<1> SUFFICES ASSUME WDInv, Environment PROVE WDInv'
  OBVIOUS
<1>1. History /\ (wd \in {"sleep", "check"} => Turn \in Monitored)
  BY TurnMonitored DEF WDInv, Control
<1>2. ASSUME NEW p \in Monitored, Freeze(p) \/ Thaw(p) \/ Die(p) \/ Reap(p)
      PROVE  WDInv'
  <2>1. PICK l \in {"up", "frozen", "zombie", "reaped"} :
          Becomes(p, l) /\ (Dead(p) => l = "reaped")
    BY <1>2 DEF Freeze, Thaw, Die, Reap, Dead
  <2>2. life' = [life EXCEPT ![p] = l] /\ fell' = (fell \/ Checked(p))
    BY <2>1 DEF Becomes
  <2>3. \A t \in Targets : Dead(t) => Dead(t)'
    BY <1>1, <2>1, <2>2 DEF Dead, History
  <2>4. /\ life' \in [Targets -> {"up", "frozen", "zombie", "reaped"}]
        /\ fell' \in BOOLEAN /\ (fell => fell')
    BY <1>1, <2>2 DEF History, Checked
  <2>5. wd \in {"sleep", "check"} /\ life'[Turn] # life[Turn] => fell'
    BY <1>1, <2>2 DEF Checked, Turn, History
  <2> QED
    BY <2>1, <2>3, <2>4, <2>5, FaultInv DEF Becomes
<1>3. ASSUME NEW k \in Konsoles, CloseKonsole(k) PROVE WDInv'
  <2>1. Child[k] \in Monitored
    BY DEF Child
  <2>2. /\ life[k] = "up"
        /\ life' = [life EXCEPT ![k] = "zombie",
                      ![Child[k]] = IF @ = "reaped" THEN @ ELSE "zombie"]
        /\ fell' = (fell \/ Checked(Child[k]))
    BY <1>3 DEF CloseKonsole
  <2>3. \A t \in Targets : Dead(t) => Dead(t)'
    BY <1>1, <2>1, <2>2 DEF Dead, History
  <2>4. /\ life' \in [Targets -> {"up", "frozen", "zombie", "reaped"}]
        /\ fell' \in BOOLEAN /\ (fell => fell')
    BY <1>1, <2>1, <2>2 DEF History, Checked
  <2>5. wd \in {"sleep", "check"} /\ life'[Turn] # life[Turn] => fell'
    BY <1>1, <2>1, <2>2 DEF Checked, Turn, History
  <2> QED
    BY <1>3, <2>3, <2>4, <2>5, FaultInv DEF CloseKonsole
<1> QED
  BY <1>2, <1>3 DEF Environment

LEMMA WDInvNext == WDInv /\ [Next]_vars => WDInv'
<1> SUFFICES ASSUME WDInv, [Next]_vars PROVE WDInv'
  OBVIOUS
<1>1. CASE UNCHANGED vars
  BY <1>1 DEF vars, history, WDInv, Control, History, OneSignal, WhoseSignal,
     Attribution, SignalKept, NoFalseAlarm, KilledSoFar, NothingLeft, AllDead,
     Dead, Turn
<1> QED
  BY <1>1, PingInv, TimeoutInv, CheckInv, ResetInv, KillNextInv, DeliverInv,
     AnswerInv, EnvironmentInv DEF Next, WD

LEMMA Invariance == Spec => []WDInv
BY WDInvInit, WDInvNext, PTL DEF Spec

(***************************************************************************)
(* Every variable keeps its type: in particular two answers are never      *)
(* counted for one check.                                                  *)
(***************************************************************************)
THEOREM WatchdogTypes == Spec => []TypeOK
<1>1. WDInv => TypeOK
  <2>1. Len(KillOrder) = 6 /\ Len(PPids) = 4
    BY KillOrderAll DEF PPids
  <2> QED
    BY <2>1 DEF WDInv, Control, History, TypeOK
<1> QED
  BY <1>1, Invariance, PTL

(***************************************************************************)
(* An answer that is counted, or on its way, while WD checks a process     *)
(* comes from that process and from its last SIGUSR1.                      *)
(***************************************************************************)
THEOREM AnswersAttributed == Spec => []Attribution
<1>1. WDInv => Attribution
  BY DEF WDInv, WhoseSignal
<1> QED
  BY <1>1, Invariance, PTL

(***************************************************************************)
(* count = 0 never wipes out an answer and never races the handler.        *)
(***************************************************************************)
THEOREM ResetIsQuiet == Spec => []NoAnswerLost
<1>1. WDInv => NoAnswerLost
  BY DEF WDInv, WhoseSignal, OneSignal, NoAnswerLost, Control
<1> QED
  BY <1>1, Invariance, PTL

(***************************************************************************)
(* WD kills the program only if the process it was checking was frozen or  *)
(* dead after its SIGUSR1, or was still to answer when the second was up.  *)
(***************************************************************************)
THEOREM AlarmsAreTrue == Spec => []NoFalseAlarm
<1>1. WDInv => NoFalseAlarm
  BY DEF WDInv, SignalKept
<1> QED
  BY <1>1, Invariance, PTL

(***************************************************************************)
(* When WD has exited, every process it was given is dead.                 *)
(***************************************************************************)
THEOREM ExitLeavesNothing == Spec => []NothingLeft
<1>1. WDInv => NothingLeft
  BY DEF WDInv, KilledSoFar
<1> QED
  BY <1>1, Invariance, PTL

-----------------------------------------------------------------------------
\* The checks passed from the nth process on, up to the last one: WD is at
\* the ith, and in "reset" done with it.
Since(n) ==
  IF wd = "reset" THEN (IF n <= i THEN i - n + 1 ELSE i - n + 5)
                  ELSE (IF n < i THEN i - n ELSE i - n + 4)

\* A process that is dead accounts for the missed checks: they came after
\* its own last one, and if it is being checked now it has no answer.
Overdue(n) ==
  /\ Dead(PPids[n])
  /\ wd \in {"ping", "sleep", "check", "reset"} => missed <= Since(n)
  /\ wd \in {"sleep", "check"} /\ n = i => ~answered /\ ~usr1[PPids[n]]

Detection ==
  /\ missed \in 0..4
  /\ missed = 0 \/ \E n \in 1..4 : Overdue(n)

LEMMA DeadStaysDead ==
  ASSUME WDInv, [Next]_vars, NEW p \in Monitored, Dead(p)
  PROVE  Dead(p)'
<1>1. life \in [Targets -> {"up", "frozen", "zombie", "reaped"}]
  BY DEF WDInv, History
<1>2. CASE KillNext
  BY <1>1, <1>2 DEF KillNext, Dead
<1>3. CASE Environment
  BY <1>1, <1>3 DEF Environment, Freeze, Thaw, Die, Reap, Becomes, CloseKonsole, Child, Dead
<1>4. CASE ~KillNext /\ ~Environment
  <2>1. life' = life
    BY <1>4 DEF Next, WD, Ping, PingTo, Timeout, CheckFails, CheckPasses, Reset, ResetTo,
                Deliver, Answer, vars
  <2> QED
    BY <2>1 DEF Dead
<1> QED
  BY <1>2, <1>3, <1>4

LEMMA DetectionNext == WDInv /\ Detection /\ [Next]_vars => Detection'
<1> SUFFICES ASSUME WDInv, Detection, [Next]_vars PROVE Detection'
  OBVIOUS
<1>1. /\ Control /\ History /\ WhoseSignal /\ missed \in 0..4
      /\ \A n \in 1..4 : PPids[n] \in Monitored
      /\ \A p \in Monitored : \E n \in 1..4 : PPids[n] = p
      /\ Len(PPids) = 4
  <2>1. PPids[1] = "input" /\ PPids[2] = "map" /\ PPids[3] = "server" /\ PPids[4] = "drone"
    BY DEF PPids
  <2>2. Len(PPids) = 4
    BY DEF PPids
  <2> QED
    BY <2>1, <2>2 DEF WDInv, Detection
<1>2. \A n \in 1..4 : Dead(PPids[n]) => Dead(PPids[n])'
  BY <1>1, DeadStaysDead
<1>3. CASE Ping
  <2>1. /\ wd = "ping" /\ wd' = "sleep" /\ i' = i /\ missed' = missed /\ ~answered'
    BY <1>3 DEF Ping, PingTo
  <2>2. ASSUME NEW n \in 1..4, Overdue(n), n = i PROVE ~usr1'[PPids[n]]
    <3>1. ~usr1[PPids[n]] /\ Dead(PPids[n])
      BY <1>1, <2>1, <2>2 DEF WhoseSignal, Overdue
    <3> QED
      BY <1>1, <1>3, <3>1 DEF Ping, PingTo
  <2>3. ASSUME NEW n \in 1..4, Overdue(n) PROVE Overdue(n)'
    BY <1>2, <2>1, <2>2, <2>3 DEF Overdue, Since
  <2> QED
    BY <2>1, <2>3 DEF Detection
<1>4. CASE CheckPasses
  <2>1. /\ wd = "check" /\ wd' = "reset" /\ i' = i /\ count # 0 /\ i \in 1..4 /\ count \in 0..1
        /\ life' = life
    BY <1>1, <1>4 DEF CheckPasses, Control
  <2>2. answered
    BY <1>1, <2>1 DEF WhoseSignal, Attribution
  <2>3. CASE ~SomeoneDead
    <3>1. missed' = 0
      BY <1>4, <2>3 DEF CheckPasses
    <3> QED
      BY <3>1 DEF Detection
  <2>4. CASE SomeoneDead
    <3>1. missed' = missed + 1
      BY <1>4, <2>4 DEF CheckPasses
    <3>2. CASE missed = 0
      <4>1. PICK n \in 1..4 : Dead(PPids[n])
        BY <1>1, <2>4 DEF SomeoneDead
      <4>2. missed' <= Since(n)' /\ missed' \in 0..4
        BY <2>1, <3>1, <3>2 DEF Since
      <4>3. Overdue(n)'
        BY <1>2, <2>1, <4>1, <4>2 DEF Overdue
      <4> QED
        BY <4>2, <4>3 DEF Detection
    <3>3. CASE missed # 0
      <4>1. PICK n \in 1..4 : Overdue(n)
        BY <3>3 DEF Detection
      <4>2. n # i
        BY <2>1, <2>2, <4>1 DEF Overdue
      <4>3. missed <= Since(n)
        BY <2>1, <4>1 DEF Overdue
      <4>4. missed' <= Since(n)' /\ missed' \in 0..4
        BY <1>1, <2>1, <3>1, <4>2, <4>3 DEF Since
      <4>5. Overdue(n)'
        BY <1>2, <2>1, <4>1, <4>4 DEF Overdue
      <4> QED
        BY <4>4, <4>5 DEF Detection
    <3> QED
      BY <3>2, <3>3
  <2> QED
    BY <2>3, <2>4
<1>5. CASE Reset
  <2>1. /\ wd = "reset" /\ wd' = "ping" /\ i \in 1..4 /\ missed' = missed
        /\ i' = (i % 4) + 1
    BY <1>1, <1>5 DEF Reset, ResetTo, Control, history
  <2>2. \A n \in 1..4 : Since(n)' = Since(n)
    <3>1. i' = IF i = 4 THEN 1 ELSE i + 1
      BY <2>1
    <3> QED
      BY <2>1, <3>1 DEF Since
  <2>3. ASSUME NEW n \in 1..4, Overdue(n) PROVE Overdue(n)'
    BY <1>2, <2>1, <2>2, <2>3 DEF Overdue
  <2> QED
    BY <2>1, <2>3 DEF Detection
<1>6. CASE CheckFails \/ KillNext
  <2>1. wd' \in {"kill", "done"} /\ missed' = missed
    BY <1>6 DEF CheckFails, KillNext, history
  <2>2. ASSUME NEW n \in 1..4, Overdue(n) PROVE Overdue(n)'
    BY <1>2, <2>1, <2>2 DEF Overdue
  <2> QED
    BY <2>1, <2>2 DEF Detection
<1>7. CASE Timeout \/ Deliver
  <2>1. /\ wd' = wd \/ (wd = "sleep" /\ wd' = "check")
        /\ i' = i /\ missed' = missed /\ answered' = answered /\ usr1' = usr1
    BY <1>7 DEF Timeout, Deliver, history
  <2>2. ASSUME NEW n \in 1..4, Overdue(n) PROVE Overdue(n)'
    BY <1>2, <2>1, <2>2 DEF Overdue, Since
  <2> QED
    BY <2>1, <2>2 DEF Detection
<1>8. ASSUME NEW p \in Monitored, Answer(p) PROVE Detection'
  <2>1. /\ wd' = wd /\ i' = i /\ missed' = missed /\ ~Dead(p)
        /\ usr1' = [usr1 EXCEPT ![p] = FALSE] /\ answered' = (answered \/ Checked(p))
    BY <1>8 DEF Answer, Dead
  <2>2. ASSUME NEW n \in 1..4, Overdue(n) PROVE Overdue(n)'
    <3>1. PPids[n] # p /\ PPids[n] \in Monitored
      BY <1>1, <2>1, <2>2 DEF Overdue
    <3>2. usr1'[PPids[n]] = usr1[PPids[n]]
      BY <1>1, <2>1, <3>1 DEF Control
    <3>3. n = i => ~Checked(p)
      BY <3>1 DEF Checked
    <3>4. n = i => answered' = answered
      BY <1>1, <2>1, <3>3 DEF History
    <3> QED
      BY <1>2, <2>1, <2>2, <3>2, <3>4 DEF Overdue, Since
  <2> QED
    BY <2>1, <2>2 DEF Detection
<1>9. CASE Environment \/ UNCHANGED vars
  <2>1. /\ wd' = wd /\ i' = i /\ missed' = missed /\ answered' = answered /\ usr1' = usr1
    BY <1>9 DEF Environment, Freeze, Thaw, Die, Reap, Becomes, CloseKonsole, vars, history
  <2>2. ASSUME NEW n \in 1..4, Overdue(n) PROVE Overdue(n)'
    BY <1>2, <2>1, <2>2 DEF Overdue, Since
  <2> QED
    BY <2>1, <2>2 DEF Detection
<1> QED
  BY <1>3, <1>4, <1>5, <1>6, <1>7, <1>8, <1>9 DEF Next, WD

LEMMA FourMonitored == Cardinality(Monitored) = 4
<1>1. IsFiniteSet({"input"}) /\ Cardinality({"input"}) = 1
  BY FS_Singleton
<1>2. IsFiniteSet({"input", "map"}) /\ Cardinality({"input", "map"}) = 2
  <2>1. {"input", "map"} = {"input"} \cup {"map"} /\ "map" \notin {"input"}
    OBVIOUS
  <2> QED
    BY <1>1, <2>1, FS_AddElement
<1>3. IsFiniteSet({"input", "map", "server"}) /\ Cardinality({"input", "map", "server"}) = 3
  <2>1. /\ {"input", "map", "server"} = {"input", "map"} \cup {"server"}
        /\ "server" \notin {"input", "map"}
    OBVIOUS
  <2> QED
    BY <1>2, <2>1, FS_AddElement
<1>4. /\ Monitored = {"input", "map", "server"} \cup {"drone"}
      /\ "drone" \notin {"input", "map", "server"}
  OBVIOUS
<1> QED
  BY <1>3, <1>4, FS_AddElement

(***************************************************************************)
(* However deaths, answers and the sleep interleave, no more than one turn *)
(* of checks passes while a process is dead.                               *)
(***************************************************************************)
THEOREM DeathIsNoticed == Spec => []BoundedDetection
<1>1. Init => Detection
  BY DEF Init, Detection
<1>2. Spec => []Detection
  BY <1>1, Invariance, DetectionNext, PTL DEF Spec
<1>3. Detection => BoundedDetection
  <2>1. Cardinality(Monitored) = 4
    BY FourMonitored
  <2> QED
    BY <2>1 DEF Detection, BoundedDetection
<1> QED
  BY <1>2, <1>3, PTL
=============================================================================
