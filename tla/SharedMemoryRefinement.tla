------------------------ MODULE SharedMemoryRefinement ------------------------
(***************************************************************************)
(* SharedMemory implements the two modules that leave its data or its      *)
(* semaphores out: Semaphores, and AtomicAreas.  On the way: the snapshot  *)
(* the server logs fits, and an idle user's drone feels no old force.      *)
(***************************************************************************)
EXTENDS SharedMemoryProofs

USE DEF Areas, Workers, Procs

-----------------------------------------------------------------------------
(* The loops use the semaphores as module Semaphores says *)

(***************************************************************************)
(* The invariant this refinement needs: memset has not made the run ready  *)
(* before its last area, and a worker inside a critical section is there   *)
(* for a scan or a print.                                                  *)
(***************************************************************************)
SectionsAccess == \A p \in Workers :
  at[p] \in {"x", "y", "post"} => Op(p) \in {"scan", "print"}

LEMMA SectionsAccessNext ==
  ASSUME ControlOK, SectionsAccess, [Next]_vars
  PROVE  SectionsAccess'
<1> SUFFICES ASSUME NEW p \in Workers, at'[p] \in {"x", "y", "post"}
             PROVE  Op(p)' \in {"scan", "print"}
  BY DEF SectionsAccess
<1>1. CASE at'[p] = at[p] /\ step'[p] = step[p]
  BY <1>1 DEF SectionsAccess, Op
<1>2. ASSUME NEW q \in Procs, NEW label, NEW n, Goto(q, label, n), q # p \/ label \in {"go", "dead"}
      PROVE  at'[p] = at[p] /\ step'[p] = step[p]
  BY <1>2 DEF Goto, ControlOK
<1>3. CASE SemInit \/ Memset \/ ServerWait \/ ServerPost
  BY <1>1, <1>2, <1>3 DEF SemInit, InitTo, Memset, ServerWait, ServerTake, ServerPost
<1>4. ASSUME NEW q \in Workers, WorkerWait(q) PROVE Op(p)' \in {"scan", "print"}
  BY <1>1, <1>2, <1>4 DEF WorkerWait, Goto, ControlOK, Op
<1>5. CASE Move \/ Press \/ \E q \in Workers : WorkerPost(q)
  BY <1>1, <1>2, <1>5 DEF Move, Press, WorkerPost, NextTask
<1>6. ASSUME NEW q \in Procs, ScanX(q) \/ ScanY(q) \/ PrintX(q) \/ PrintY(q)
      PROVE  Op(p)' \in {"scan", "print"}
  <2>1. at[q] \in {"x", "y"} /\ (AfterAccess(q) \/ Goto(q, "y", step[q]))
    BY <1>6 DEF ScanX, ScanY, PrintX, PrintY
  <2> QED
    BY <1>1, <1>2, <2>1 DEF AfterAccess, Goto, ControlOK, SectionsAccess, Op
<1>7. CASE \E q \in Procs : Kill(q)
  BY <1>1, <1>2, <1>7 DEF Kill
<1>8. CASE Rerun
  BY <1>8 DEF Rerun, StartAt
<1>9. CASE UNCHANGED vars
  BY <1>1, <1>9 DEF vars
<1> QED
  BY <1>3, <1>4, <1>5, <1>6, <1>7, <1>8, <1>9, NextCases DEF Quiet

LEMMA LoopInv == Spec => [](TypeOK /\ StartingIsNotReady /\ SectionsAccess)
<1>1. Init => StartingIsNotReady /\ SectionsAccess
  BY LockInit DEF LockInv, StartingHoldsNothing, Init, StartAt, SectionsAccess
<1>2. TypeOK => ControlOK
  BY DEF TypeOK
<1> QED
  BY <1>1, <1>2, TypeCorrect, NotReadyNext, SectionsAccessNext, PTL DEF Spec

\* What Semaphores sees of a process, and of a transition of it.
LEMMA LocksSees ==
  /\ \A p \in Procs : lockAt[p] = LockLabel(p, at[p])
                     /\ lockStep[p] = LockStep(p, at[p], step[p])
  /\ \A n : /\ LockLabel("server", "init") = "init" /\ LockStep("server", "init", n) = n
            /\ LockLabel("server", "wipe") = "wipe" /\ LockStep("server", "wipe", n) = 1
            /\ LockLabel("server", "wait") = "wait" /\ LockStep("server", "wait", n) = n
            /\ LockLabel("server", "post") = "post" /\ LockStep("server", "post", n) = n
            /\ LockLabel("server", "dead") = "dead" /\ LockStep("server", "dead", n) = n
            /\ \A l \in {"x", "y"} :
                 LockLabel("server", l) = "post" /\ LockStep("server", l, n) = 3
  /\ \A p \in Workers :
       /\ LockLabel(p, "go") = "go" /\ LockLabel(p, "dead") = "dead"
       /\ \A l \in {"x", "y", "post"} : LockLabel(p, l) = "in"
       /\ \A l, n : LockStep(p, l, n) = Section[p][n]
BY DEF lockAt, lockStep, LockLabel, LockStep

LEMMA LocksGoto ==
  ASSUME ControlOK, NEW p \in Procs, NEW label, NEW n, Goto(p, label, n),
         NEW l, l = LockLabel(p, label), NEW m, m = LockStep(p, label, n)
  PROVE  /\ Locks!Goto(p, l, m)
         /\ l = lockAt[p] /\ m = lockStep[p] => UNCHANGED <<lockAt, lockStep>>
<1>1. /\ at' = [at EXCEPT ![p] = label] /\ step' = [step EXCEPT ![p] = n]
      /\ at \in [Procs -> {"init", "wipe", "wait", "go", "x", "y", "post", "dead"}]
      /\ step \in [Procs -> 1..5]
  BY DEF Goto, ControlOK
<1>2. lockAt' = [lockAt EXCEPT ![p] = l]
  BY <1>1 DEF lockAt
<1>3. lockStep' = [lockStep EXCEPT ![p] = m]
  BY <1>1 DEF lockStep
<1>4. l = lockAt[p] /\ m = lockStep[p] => lockAt' = lockAt /\ lockStep' = lockStep
  BY <1>1, <1>2, <1>3 DEF lockAt, lockStep
<1> QED
  BY <1>2, <1>3, <1>4 DEF Locks!Goto

\* The server's own steps in its start-up.
LEMMA LocksStart ==
  ASSUME ControlOK, StartingIsNotReady, SemInit \/ Memset
  PROVE  Locks!SemInit \/ Locks!Ready \/ UNCHANGED Locks!vars
<1> DEFINE s == step["server"]
<1>1. s \in {1, 2, 3}
  BY StepRange
<1>2. CASE SemInit
  <2>1. /\ at["server"] = "init" /\ UNCHANGED <<ready, run>>
        /\ sem' = [sem EXCEPT ![InitOrder[s]] = 1]
        /\ s < 3 => Goto("server", "init", s + 1)
        /\ s = 3 => Goto("server", "wipe", 1)
    BY <1>1, <1>2 DEF SemInit, InitTo
  <2>2. lockAt["server"] = "init" /\ lockStep["server"] = s
    BY <2>1, LocksSees
  <2> HIDE DEF s
  <2>3. /\ s < 3 => Locks!Goto("server", "init", s + 1)
        /\ s = 3 => Locks!Goto("server", "wipe", 1)
    BY <2>1, LocksGoto, LocksSees
  <2> QED
    BY <1>1, <2>1, <2>2, <2>3 DEF InitOrder, Locks!SemInit, Locks!InitTo, Locks!InitOrder
<1>3. CASE Memset
  <2>1. /\ at["server"] = "wipe" /\ ~ready /\ UNCHANGED <<sem, run>>
        /\ ready' = (s = 3)
        /\ s < 3 => Goto("server", "wipe", s + 1)
        /\ s = 3 => Goto("server", "wait", 1)
    BY <1>1, <1>3 DEF Memset, StartingIsNotReady
  <2>2. lockAt["server"] = "wipe" /\ lockStep["server"] = 1
    BY <2>1, LocksSees
  <2> HIDE DEF s
  <2>3. CASE s = 3
    <3>1. Locks!Goto("server", "wait", 1)
      BY <2>1, <2>3, LocksGoto, LocksSees
    <3>2. ready' = TRUE
      BY <2>1, <2>3
    <3> QED
      BY <2>1, <2>2, <3>1, <3>2 DEF Locks!Ready
  <2>4. CASE s # 3
    <3>1. UNCHANGED <<lockAt, lockStep>>
      BY <1>1, <2>1, <2>2, <2>4, LocksGoto, LocksSees
    <3>2. ready' = FALSE /\ ready = FALSE
      BY <2>1, <2>4 DEF ControlOK
    <3> QED
      BY <2>1, <3>1, <3>2 DEF Locks!vars
  <2> QED
    BY <2>3, <2>4
<1> QED
  BY <1>2, <1>3

\* Sem_wait and Sem_post of the server.
LEMMA LocksServer ==
  ASSUME ControlOK, SemOK, ServerWait \/ ServerPost
  PROVE  Locks!ServerWait \/ Locks!ServerPost
<1> DEFINE s == step["server"]
<1>1. s \in {1, 2, 3} /\ Locks!LockOrder = LockOrder
  BY StepRange DEF LockOrder, Locks!LockOrder
<1>2. CASE ServerWait
  <2>1. /\ at["server"] = "wait" /\ UNCHANGED <<ready, run>>
        /\ sem[LockOrder[s]] > 0
        /\ sem' = [sem EXCEPT ![LockOrder[s]] = @ - 1]
        /\ s < 3 => Goto("server", "wait", s + 1)
        /\ s = 3 => Goto("server", "x", 1)
    BY <1>1, <1>2 DEF ServerWait, ServerTake
  <2>2. lockAt["server"] = "wait" /\ lockStep["server"] = s
    BY <2>1, LocksSees
  <2> HIDE DEF s
  <2>3. /\ s < 3 => Locks!Goto("server", "wait", s + 1)
        /\ s = 3 => Locks!Goto("server", "post", 3)
    BY <2>1, LocksGoto, LocksSees
  <2>4. sem[LockOrder[s]] >= 1
    BY <1>1, <2>1 DEF SemOK, LockOrder
  <2> QED
    BY <1>1, <2>1, <2>2, <2>3, <2>4 DEF Locks!ServerWait, Locks!ServerTake
<1>3. CASE ServerPost
  <2>1. /\ at["server"] = "post" /\ UNCHANGED <<ready, run>>
        /\ sem' = [sem EXCEPT ![LockOrder[s]] = @ + 1]
        /\ s > 1 => Goto("server", "post", s - 1)
        /\ s = 1 => Goto("server", "wait", 1)
    BY <1>1, <1>3 DEF ServerPost
  <2>2. lockAt["server"] = "post" /\ lockStep["server"] = s
    BY <2>1, LocksSees
  <2> HIDE DEF s
  <2>3. /\ s > 1 => Locks!Goto("server", "post", s - 1)
        /\ s = 1 => Locks!Goto("server", "wait", 1)
    BY <2>1, LocksGoto, LocksSees
  <2> QED
    BY <1>1, <2>1, <2>2, <2>3 DEF Locks!ServerPost, Locks!ServerGive
<1> QED
  BY <1>2, <1>3

\* The area a worker accesses is the one of its section, and a task that
\* accesses none is between two sections.
LEMMA SectionOf ==
  ASSUME ControlOK, NEW p \in Workers,
         NEW n, n = Section[p][step[p]],
         NEW next, next = Section[p][(step[p] % Len(Loop[p])) + 1]
  PROVE  /\ Op(p) \in {"scan", "print"} =>
              Locks!Sections[p][n] = Area(p) /\ next = (n % Len(Locks!Sections[p])) + 1
         /\ Op(p) \notin {"scan", "print"} => next = n
<1>1. /\ step["drone"] \in {1, 2, 3, 4} /\ step["input"] \in {1, 2, 3, 4, 5}
      /\ step["map"] \in {1}
  BY StepRange
<1>2. CASE p = "drone"
  <2>1. Len(Loop[p]) = 4 /\ Len(Locks!Sections[p]) = 3
    BY <1>2, LoopLength DEF Locks!Sections
  <2>2. Loop[p] = DroneLoop /\ Section[p] = <<1, 2, 2, 3>>
          /\ Locks!Sections[p] = <<"force", "position", "velocity">>
    BY <1>2 DEF Loop, Section, Locks!Sections
  <2>3. CASE step[p] = 1
    BY <1>2, <2>1, <2>2, <2>3 DEF Op, Area, DroneLoop
  <2>4. CASE step[p] = 2
    BY <1>2, <2>1, <2>2, <2>4 DEF Op, Area, DroneLoop
  <2>5. CASE step[p] = 3
    BY <1>2, <2>1, <2>2, <2>5 DEF Op, Area, DroneLoop
  <2>6. CASE step[p] = 4
    BY <1>2, <2>1, <2>2, <2>6 DEF Op, Area, DroneLoop
  <2> QED
    BY <1>1, <1>2, <2>3, <2>4, <2>5, <2>6
<1>3. CASE p = "input"
  <2>1. Len(Loop[p]) = 5 /\ Len(Locks!Sections[p]) = 4
    BY <1>3, LoopLength DEF Locks!Sections
  <2>2. Loop[p] = InputLoop /\ Section[p] = <<1, 2, 3, 4, 4>>
          /\ Locks!Sections[p] = <<"position", "velocity", "force", "force">>
    BY <1>3 DEF Loop, Section, Locks!Sections
  <2>3. CASE step[p] = 1
    BY <1>3, <2>1, <2>2, <2>3 DEF Op, Area, InputLoop
  <2>4. CASE step[p] = 2
    BY <1>3, <2>1, <2>2, <2>4 DEF Op, Area, InputLoop
  <2>5. CASE step[p] = 3
    BY <1>3, <2>1, <2>2, <2>5 DEF Op, Area, InputLoop
  <2>6. CASE step[p] = 4
    BY <1>3, <2>1, <2>2, <2>6 DEF Op, Area, InputLoop
  <2>7. CASE step[p] = 5
    BY <1>3, <2>1, <2>2, <2>7 DEF Op, Area, InputLoop
  <2> QED
    BY <1>1, <1>3, <2>3, <2>4, <2>5, <2>6, <2>7
<1>4. CASE p = "map"
  <2>1. Len(Loop[p]) = 1 /\ Len(Locks!Sections[p]) = 1 /\ step[p] = 1
    BY <1>1, <1>4, LoopLength DEF Locks!Sections
  <2>2. Loop[p] = MapLoop /\ Section[p] = <<1>> /\ Locks!Sections[p] = <<"position">>
    BY <1>4 DEF Loop, Section, Locks!Sections
  <2> QED
    BY <1>4, <2>1, <2>2 DEF Op, Area, MapLoop
<1> QED
  BY <1>2, <1>3, <1>4

\* Sem_wait and Sem_post of a worker.
LEMMA LocksWorker ==
  ASSUME ControlOK, NEW p \in Workers, WorkerWait(p) \/ WorkerPost(p), Op(p) \in {"scan", "print"}
  PROVE  Locks!WorkerWait(p) \/ Locks!WorkerPost(p)
<1> DEFINE n == Section[p][step[p]]
           next == Section[p][(step[p] % Len(Loop[p])) + 1]
<1>1. lockAt[p] = LockLabel(p, at[p]) /\ lockStep[p] = n
  BY LocksSees
<1>2. Locks!Sections[p][n] = Area(p) /\ next = (n % Len(Locks!Sections[p])) + 1
  BY SectionOf
<1>3. CASE WorkerWait(p)
  <2>1. at[p] = "go" /\ Goto(p, "x", step[p]) /\ (ServerFirst => ready)
    BY <1>3 DEF WorkerWait, MayRun
  <2>2. lockAt[p] = "go"
    BY <1>1, <2>1, LocksSees
  <2>3. Locks!Goto(p, "in", n)
    BY <2>1, LocksGoto, LocksSees
  <2>4. Locks!MayRun
    BY <2>1 DEF Locks!MayRun
  <2> HIDE DEF n, next
  <2> QED
    BY <1>1, <1>2, <1>3, <2>2, <2>3, <2>4 DEF WorkerWait, Locks!WorkerWait
<1>4. CASE WorkerPost(p)
  <2>1. at[p] = "post" /\ Goto(p, "go", (step[p] % Len(Loop[p])) + 1)
    BY <1>4 DEF WorkerPost, NextTask
  <2>2. lockAt[p] = "in"
    BY <1>1, <2>1, LocksSees
  <2>3. Locks!Goto(p, "go", next)
    BY <2>1, LocksGoto, LocksSees
  <2> HIDE DEF n, next
  <2> QED
    BY <1>1, <1>2, <1>4, <2>2, <2>3 DEF WorkerPost, Locks!WorkerPost, Locks!WorkerGive
<1> QED
  BY <1>3, <1>4

\* The steps that Semaphores does not see.
LEMMA LocksStutter ==
  ASSUME ControlOK, \/ Move \/ Press
                    \/ \E p \in Procs : ScanX(p) \/ ScanY(p) \/ PrintX(p) \/ PrintY(p)
  PROVE  UNCHANGED Locks!vars
<1>1. ASSUME NEW p \in Workers, at[p] = "go", Op(p) \notin {"scan", "print"}, NextTask(p)
      PROVE  UNCHANGED <<lockAt, lockStep>>
  <2>1. Section[p][step[p]] = Section[p][(step[p] % Len(Loop[p])) + 1]
    BY <1>1, SectionOf
  <2>2. Goto(p, "go", (step[p] % Len(Loop[p])) + 1)
    BY <1>1 DEF NextTask
  <2> QED
    BY <1>1, <2>1, <2>2, LocksGoto, LocksSees
<1>2. ASSUME NEW p \in Procs, ScanX(p) \/ ScanY(p) \/ PrintX(p) \/ PrintY(p)
      PROVE  UNCHANGED <<lockAt, lockStep>>
  <2>1. at[p] \in {"x", "y"} /\ (AfterAccess(p) \/ Goto(p, "y", step[p]))
    BY <1>2 DEF ScanX, ScanY, PrintX, PrintY
  <2>2. CASE p = "server"
    <3>1. step["server"] \in {1, 2, 3}
      BY StepRange
    <3>2. \/ \E l \in {"x", "y"}, n \in 1..3 : Goto("server", l, n)
          \/ Goto("server", "post", 3)
      BY <2>1, <2>2, <3>1 DEF AfterAccess
    <3>3. lockAt["server"] = "post" /\ lockStep["server"] = 3
      BY <2>1, <2>2, LocksSees
    <3> QED
      BY <3>2, <3>3, LocksGoto, LocksSees
  <2>3. CASE p # "server"
    <3>1. p \in Workers /\ \E l \in {"y", "post"} : Goto(p, l, step[p])
      BY <2>1, <2>3 DEF AfterAccess
    <3>2. lockAt[p] = "in" /\ lockStep[p] = Section[p][step[p]]
      BY <2>1, <3>1, LocksSees
    <3> QED
      BY <3>1, <3>2, LocksGoto, LocksSees
  <2> QED
    BY <2>2, <2>3
<1>3. UNCHANGED <<lockAt, lockStep>>
  BY <1>1, <1>2 DEF Move, Press
<1> QED
  BY <1>3 DEF Locks!vars, Move, Press, ScanX, ScanY, PrintX, PrintY

\* A death and a new run.
LEMMA LocksFresh ==
  ASSUME ControlOK, Rerun \/ \E p \in Procs : Kill(p)
  PROVE  Locks!Rerun \/ \E p \in Procs : Locks!Kill(p)
<1>1. \A p \in Workers : Section[p][1] = 1
  BY DEF Section
<1>2. ASSUME NEW p \in Procs, Kill(p) PROVE Locks!Kill(p)
  <2>1. at[p] # "dead" /\ Goto(p, "dead", 1)
    BY <1>2 DEF Kill
  <2>2. lockAt[p] # "dead"
    BY <2>1 DEF lockAt, LockLabel
  <2>3. LockLabel(p, "dead") = "dead" /\ LockStep(p, "dead", 1) = 1
    BY <1>1, LocksSees
  <2>4. Locks!Goto(p, "dead", 1)
    BY <2>1, <2>3, LocksGoto
  <2> QED
    BY <1>2, <2>2, <2>4 DEF Kill, Locks!Kill
<1>3. CASE Rerun
  <2>1. \A p \in Procs : lockAt[p] = "dead"
    BY <1>3 DEF Rerun, lockAt, LockLabel
  <2>2. lockAt' = StartAt
    BY <1>3 DEF Rerun, lockAt, LockLabel, StartAt
  <2>3. lockStep' = [p \in Procs |-> 1]
    BY <1>1, <1>3 DEF Rerun, lockStep, LockStep, StartAt
  <2> QED
    BY <1>3, <2>1, <2>2, <2>3
       DEF Rerun, StartAt, Locks!Rerun, Locks!StartAt, Locks!Procs, Locks!Workers
<1> QED
  BY <1>2, <1>3

(***************************************************************************)
(* The loops take and give the semaphores exactly as module Semaphores has *)
(* it, in any run, killed anywhere, whether or not the server starts first:*)
(* every step is one of Semaphores' or does not concern it.                *)
(***************************************************************************)
THEOREM TheLoopsUseTheSemaphores == Spec => UsesSemaphores
<1>1. Init => Locks!Init
  <2> SUFFICES ASSUME Init PROVE Locks!Init
    OBVIOUS
  <2>1. \A p \in Workers : Section[p][1] = 1
    BY DEF Section
  <2>2. lockAt = StartAt
    BY DEF Init, StartAt, lockAt, LockLabel
  <2>3. lockStep = [p \in Procs |-> 1]
    BY <2>1 DEF Init, StartAt, lockStep, LockStep
  <2> QED
    BY <2>2, <2>3
       DEF Init, StartAt, Locks!Init, Locks!StartAt, Locks!Procs, Locks!Workers, Locks!Areas
<1>2. TypeOK /\ StartingIsNotReady /\ SectionsAccess /\ [Next]_vars => [Locks!Next]_(Locks!vars)
  <2> SUFFICES ASSUME TypeOK, StartingIsNotReady, SectionsAccess, [Next]_vars
               PROVE  [Locks!Next]_(Locks!vars)
    OBVIOUS
  <2> USE DEF Locks!Procs, Locks!Workers
  <2>1. ControlOK /\ SemOK
    BY DEF TypeOK, DataOK, SemOK
  <2>2. CASE SemInit \/ Memset
    BY <2>1, <2>2, LocksStart DEF Locks!Next, Locks!Step
  <2>3. CASE ServerWait \/ ServerPost
    BY <2>1, <2>3, LocksServer DEF Locks!Next, Locks!Step
  <2>4. ASSUME NEW p \in Workers, WorkerWait(p) \/ WorkerPost(p) PROVE Locks!Next
    <3>1. Op(p) \in {"scan", "print"}
      BY <2>4 DEF WorkerWait, WorkerPost, SectionsAccess
    <3> QED
      BY <2>1, <2>4, <3>1, LocksWorker DEF Locks!Next, Locks!Step
  <2>5. CASE \/ Move \/ Press
             \/ \E p \in Procs : ScanX(p) \/ ScanY(p) \/ PrintX(p) \/ PrintY(p)
    BY <2>1, <2>5, LocksStutter
  <2>6. CASE Rerun \/ \E p \in Procs : Kill(p)
    BY <2>1, <2>6, LocksFresh DEF Locks!Next
  <2>7. CASE UNCHANGED vars
    BY <2>7 DEF vars, Locks!vars, lockAt, lockStep
  <2> QED
    BY <2>2, <2>3, <2>4, <2>5, <2>6, <2>7, NextCases DEF Quiet
<1> QED
  BY <1>1, <1>2, LoopInv, PTL DEF Spec, UsesSemaphores, Locks!Spec

-----------------------------------------------------------------------------
(* Semaphores' theorems, for the loops with their data *)

LP == INSTANCE SemaphoresProofs WITH at <- lockAt, step <- lockStep

LEMMA SameLocks == Locks!Spec => LP!Spec
<1> USE DEF Locks!Procs, LP!Procs, Locks!Workers, LP!Workers, Locks!Areas, LP!Areas,
            Locks!Sections, LP!Sections, Locks!InitOrder, LP!InitOrder,
            Locks!LockOrder, LP!LockOrder, Locks!StartAt, LP!StartAt,
            Locks!Goto, LP!Goto, Locks!MayRun, LP!MayRun, Locks!vars, LP!vars
<1>1. Locks!Init => LP!Init
  BY DEF Locks!Init, LP!Init
<1>2. /\ Locks!SemInit => LP!SemInit
      /\ Locks!Ready => LP!Ready
      /\ Locks!ServerWait => LP!ServerWait
      /\ Locks!ServerPost => LP!ServerPost
  BY DEF Locks!SemInit, LP!SemInit, Locks!InitTo, LP!InitTo, Locks!Ready, LP!Ready,
         Locks!ServerWait, LP!ServerWait, Locks!ServerTake, LP!ServerTake,
         Locks!ServerPost, LP!ServerPost, Locks!ServerGive, LP!ServerGive
<1>3. ASSUME NEW p \in Procs PROVE Locks!Step(p) => LP!Step(p)
  <2>1. Locks!WorkerWait(p) => LP!WorkerWait(p)
    BY DEF Locks!WorkerWait, LP!WorkerWait
  <2>2. Locks!WorkerPost(p) => LP!WorkerPost(p)
    BY DEF Locks!WorkerPost, LP!WorkerPost, Locks!WorkerGive, LP!WorkerGive
  <2> QED
    BY <1>2, <2>1, <2>2 DEF Locks!Step, LP!Step
<1>4. ASSUME NEW p \in Procs PROVE Locks!Kill(p) => LP!Kill(p)
  BY DEF Locks!Kill, LP!Kill
<1>5. Locks!Rerun => LP!Rerun
  BY DEF Locks!Rerun, LP!Rerun
<1>6. [Locks!Next]_(Locks!vars) => [LP!Next]_(LP!vars)
  BY <1>3, <1>4, <1>5 DEF Locks!Next, LP!Next
<1> QED
  BY <1>1, <1>6, PTL DEF Locks!Spec, LP!Spec

(***************************************************************************)
(* In the loops with their data as in Semaphores: whatever killed runs left*)
(* behind and whoever starts first, a semaphore has no more permits than   *)
(* runs explain, and in the run that is not killed it has one.             *)
(***************************************************************************)
THEOREM PermitsOfTheLoops ==
  Spec => [](Locks!PermitsBounded /\ Locks!PermitsNotLost)
<1> USE DEF Locks!Procs, LP!Procs, Locks!Workers, LP!Workers, Locks!Areas, LP!Areas
<1>1. \A p : Locks!Holds(p) = LP!Holds(p)
  BY DEF Locks!Holds, LP!Holds, Locks!Held, LP!Held, Locks!LockOrder, LP!LockOrder,
         Locks!Sections, LP!Sections
<1>2. \A a : Locks!Permits(a) = LP!Permits(a)
  <2>1. \A S : Locks!Cardinality(S) = LP!Cardinality(S)
    BY DEF Locks!Cardinality, LP!Cardinality
  <2> QED
    BY <1>1, <2>1 DEF Locks!Permits, LP!Permits
<1>3. LP!PermitsBounded /\ LP!PermitsNotLost
        => Locks!PermitsBounded /\ Locks!PermitsNotLost
  BY <1>2 DEF Locks!PermitsBounded, LP!PermitsBounded,
              Locks!PermitsNotLost, LP!PermitsNotLost
<1>4. LP!Spec => []LP!PermitsBounded
  BY LP!PermitsStayBounded, MaxRunsAssumption, ServerFirstAssumption
<1>5. LP!Spec => []LP!PermitsNotLost
  BY LP!PermitsKept, MaxRunsAssumption, ServerFirstAssumption
<1> QED
  BY <1>3, <1>4, <1>5, SameLocks, TheLoopsUseTheSemaphores, PTL DEF UsesSemaphores

-----------------------------------------------------------------------------
(* What is in the areas and in the structs *)

(***************************************************************************)
(* Until the server has cleared the areas, and once it is dead, a process  *)
(* has only what it starts with, and no worker has begun its loop.  So an  *)
(* area that has been cleared is still clear when the server is ready.     *)
(***************************************************************************)
Unstarted ==
  /\ \A p \in Procs : at[p] = "dead" \/ ~ready => mem[p] = StartMem[p]
  /\ ~ready => \A p \in Workers : at[p] \in {"go", "dead"} /\ step[p] = 1
  /\ at["server"] = "wipe" => \A j \in 1..3 :
       j < step["server"] => shm[WipeOrder[j]] = Both(Blank)

\* What this rests on: the locks, whole texts and the shape of the loops.
Base == TypeOK /\ LockInv /\ Whole /\ SectionsAccess

LEMMA BaseParts ==
  Base => /\ ControlOK /\ SemOK /\ ShmOK /\ MemOK /\ LockInv /\ Whole /\ SectionsAccess
          /\ StartingIsNotReady /\ Wiped
BY DEF Base, TypeOK, DataOK, SemOK, ShmOK, MemOK, LockInv, StartingHoldsNothing, Whole

LEMMA BaseInv ==
  ASSUME ServerFirst PROVE Spec => []Base
<1>1. TypeOK /\ LockInv /\ Whole /\ SectionsAccess => Base
  BY DEF Base
<1> QED
  BY <1>1, LoopInv, WholeInv, PTL

\* Every step but a new run is the step or the death of one process.
Acts(p) == Step(p) \/ Kill(p)

LEMMA ActorFrame ==
  ASSUME ControlOK, MemOK, NEW p \in Procs, Acts(p)
  PROVE  /\ UNCHANGED run
         /\ Memset \/ UNCHANGED ready
         /\ p \in Workers => UNCHANGED ready
         /\ \A q \in Procs : q # p =>
              at'[q] = at[q] /\ step'[q] = step[q] /\ mem'[q] = mem[q]
<1>1. PICK label, n : Goto(p, label, n)
  BY DEF Acts, Step, Server, Worker, SemInit, InitTo, Memset, ServerWait, ServerTake,
         ServerPost, WorkerWait, WorkerPost, ScanX, ScanY, PrintX, PrintY, Move, Press,
         Kill, AfterAccess, NextTask
<1>2. \A q \in Procs : q # p => at'[q] = at[q] /\ step'[q] = step[q]
  BY <1>1 DEF Goto, ControlOK
<1>3. ASSUME NEW q \in Procs, q # p PROVE mem'[q] = mem[q]
  BY <1>3 DEF Acts, Step, Server, Worker, SemInit, InitTo, Memset, ServerWait, ServerTake,
         ServerPost, WorkerWait, WorkerPost, ScanX, ScanY, PrintX, PrintY, Move, Press,
         Kill, MemOK
<1>4. /\ UNCHANGED run
      /\ Memset \/ UNCHANGED ready
      /\ p \in Workers => UNCHANGED ready
  BY DEF Acts, Step, Server, Worker, SemInit, InitTo, Memset, ServerWait, ServerTake,
         ServerPost, WorkerWait, WorkerPost, ScanX, ScanY, PrintX, PrintY, Move, Press,
         Kill
<1> QED
  BY <1>2, <1>3, <1>4

\* Only a print changes a text, after the clearing, and only its own.
LEMMA TextFrame ==
  ASSUME ShmOK, NEW p \in Procs, Acts(p), NEW a \in Areas
  PROVE  \/ shm'[a] = shm[a] \/ Memset
         \/ a = Area(p) /\ (PrintX(p) \/ PrintY(p))
BY DEF Acts, Step, Server, Worker, SemInit, InitTo, ServerWait, ServerTake,
       ServerPost, WorkerWait, WorkerPost, ScanX, ScanY, PrintX, PrintY, Move, Press,
       Kill, ShmOK

\* What each worker does where in its loop.
LEMMA Tasks ==
  ASSUME ControlOK
  PROVE  /\ step["drone"] \in {1, 2, 3, 4} /\ step["input"] \in {1, 2, 3, 4, 5}
         /\ step["map"] = 1 /\ step["server"] \in {1, 2, 3}
         /\ step["drone"] = 1 <=> Op("drone") = "scan"
         /\ step["drone"] = 2 <=> Op("drone") = "move"
         /\ step["drone"] = 1 <=> Area("drone") = "force"
         /\ step["drone"] = 4 <=> Area("drone") = "velocity"
         /\ step["drone"] \in {2, 3} <=> Area("drone") = "position"
         /\ step["input"] \in {1, 2, 3} <=> Op("input") = "scan"
         /\ step["input"] = 4 <=> Op("input") = "press"
         /\ step["input"] = 1 <=> Area("input") = "position"
         /\ step["input"] = 2 <=> Area("input") = "velocity"
         /\ step["input"] \in {3, 4, 5} <=> Area("input") = "force"
         /\ Op("map") = "scan" /\ Area("map") = "position"
<1>1. /\ step["drone"] \in {1, 2, 3, 4} /\ step["input"] \in {1, 2, 3, 4, 5}
      /\ step["map"] = 1 /\ step["server"] \in {1, 2, 3}
  BY StepRange
<1>2. Loop["drone"] = DroneLoop /\ Loop["input"] = InputLoop /\ Loop["map"] = MapLoop
  BY DEF Loop
<1> QED
  BY <1>1, <1>2 DEF Op, Area, DroneLoop, InputLoop, MapLoop

\* Who prints what.
LEMMA WhoPrints ==
  ASSUME ControlOK, SectionsAccess, NEW p \in Procs, PrintX(p) \/ PrintY(p)
  PROVE  \/ p = "drone" /\ step["drone"] = 3 /\ Area(p) = "position"
         \/ p = "drone" /\ step["drone"] = 4 /\ Area(p) = "velocity"
         \/ p = "input" /\ step["input"] = 5 /\ Area(p) = "force"
<1>1. p \in Workers /\ Op(p) = "print"
  BY DEF PrintX, PrintY, Scanning, SectionsAccess
<1> QED
  BY <1>1, Tasks

\* Until the server is ready, it alone does anything.
LEMMA NothingYet ==
  ASSUME ServerFirst, Base, Unstarted, ~ready, NEW p \in Procs, Step(p)
  PROVE  p = "server" /\ (SemInit \/ Memset)
<1>1. \A q \in Workers : at[q] \in {"go", "dead"} /\ ~MayRun(q)
  BY DEF Unstarted, MayRun
<1>2. at["server"] \notin {"wait", "x", "y", "post"}
  BY BaseParts DEF Wiped
<1> QED
  BY <1>1, <1>2 DEF Step, Server, Worker, ServerWait, ServerTake, ServerPost, WorkerWait,
       WorkerPost, ScanX, ScanY, PrintX, PrintY, Move, Press

LEMMA UnstartedNext ==
  ASSUME ServerFirst, Base, Unstarted, [Next]_vars
  PROVE  Unstarted'
<1>a. ControlOK /\ MemOK /\ ShmOK /\ Whole /\ SectionsAccess /\ StartingIsNotReady /\ Wiped
  BY BaseParts
<1>1. CASE UNCHANGED vars
  BY <1>1 DEF vars, Unstarted, StartMem
<1>2. CASE Rerun
  BY <1>2 DEF Rerun, Unstarted, StartAt, StartMem
<1>3. ASSUME NEW p \in Procs, Kill(p) PROVE Unstarted'
  <2>1. /\ at'[p] = "dead" /\ step'[p] = 1 /\ mem'[p] = StartMem[p]
        /\ UNCHANGED <<shm, ready>> /\ StartMem' = StartMem
    BY <1>a, <1>3 DEF Kill, Goto, ControlOK, MemOK, StartMem
  <2>2. \A q \in Procs : q # p =>
          at'[q] = at[q] /\ step'[q] = step[q] /\ mem'[q] = mem[q]
    BY <1>a, <1>3, ActorFrame DEF Acts
  <2> QED
    BY <2>1, <2>2 DEF Unstarted
<1>4. ASSUME NEW p \in Procs, Step(p), ready PROVE Unstarted'
  <2>1. /\ at'[p] \notin {"dead", "wipe"} /\ ready' /\ StartMem' = StartMem
        /\ \A q \in Procs : q # p =>
            at'[q] = at[q] /\ step'[q] = step[q] /\ mem'[q] = mem[q]
    <3>1. ready' /\ ~SemInit /\ ~Memset
      BY <1>a, <1>4, ActorFrame DEF Acts, StartingIsNotReady, SemInit, InitTo, Memset
    <3>2. at'[p] \notin {"dead", "wipe"}
      BY <1>a, <1>4, <3>1 DEF Step, Server, Worker, ServerWait, ServerTake, ServerPost,
           WorkerWait, WorkerPost, ScanX, ScanY, PrintX, PrintY, Move, Press,
           AfterAccess, NextTask, Goto, ControlOK
    <3> QED
      BY <1>a, <1>4, <3>1, <3>2, ActorFrame DEF Acts, StartMem
  <2>2. at'["server"] # "wipe"
    BY <1>4, <1>a, <2>1 DEF StartingIsNotReady
  <2> QED
    BY <2>1, <2>2 DEF Unstarted
<1>5. ASSUME NEW p \in Procs, Step(p), ~ready PROVE Unstarted'
  <2>1. p = "server" /\ (SemInit \/ Memset)
    BY <1>5, NothingYet
  <2>2. /\ UNCHANGED mem /\ StartMem' = StartMem
        /\ \A q \in Workers : at'[q] = at[q] /\ step'[q] = step[q]
    BY <1>a, <1>5, <2>1, ActorFrame DEF Acts, SemInit, InitTo, Memset, StartMem
  <2>3. \A q \in Procs : mem'[q] = StartMem'[q]
    BY <1>5, <2>2 DEF Unstarted
  <2>4. ~ready' => \A q \in Workers : at'[q] \in {"go", "dead"} /\ step'[q] = 1
    BY <1>5, <2>2 DEF Unstarted
  <2>5. ASSUME at'["server"] = "wipe", NEW j \in 1..3, j < step'["server"]
        PROVE  shm'[WipeOrder[j]] = Both(Blank)
    <3>1. step["server"] \in {1, 2, 3}
      BY <1>a, Tasks
    <3>2. CASE SemInit
      BY <1>a, <2>5, <3>1, <3>2 DEF SemInit, InitTo, Goto, ControlOK
    <3>3. CASE Memset
      <4>1. /\ at["server"] = "wipe" /\ step["server"] < 3
            /\ step'["server"] = step["server"] + 1
            /\ shm' = [shm EXCEPT ![WipeOrder[step["server"]]] = Both(Blank)]
        BY <1>a, <2>5, <3>1, <3>3 DEF Memset, Goto, ControlOK
      <4>2. j \in {1, 2, 3} /\ (j < step["server"] \/ j = step["server"])
        BY <2>5, <3>1, <4>1
      <4>3. j < step["server"] => shm[WipeOrder[j]] = Both(Blank)
        BY <4>1 DEF Unstarted
      <4>4. WipeOrder[j] \in Areas /\ WipeOrder[step["server"]] \in Areas
        BY <3>1, <4>2 DEF WipeOrder
      <4> QED
        BY <1>a, <4>1, <4>2, <4>3, <4>4 DEF ShmOK
    <3> QED
      BY <2>1, <3>2, <3>3
  <2> QED
    BY <2>3, <2>4, <2>5 DEF Unstarted
<1> QED
  BY <1>1, <1>2, <1>3, <1>4, <1>5 DEF Next

\* When the server has become ready, everything is as at the beginning.
LEMMA AllClear ==
  ASSUME ServerFirst, Base, Unstarted, Memset, ready'
  PROVE  /\ \A a \in Areas : shm'[a] = Both(Blank)
         /\ \A p \in Procs : mem'[p] = StartMem[p]
         /\ \A p \in Workers : at'[p] \in {"go", "dead"} /\ step'[p] = 1
         /\ at'["server"] = "wait"
<1>a. ControlOK /\ MemOK /\ ShmOK /\ StartingIsNotReady
  BY BaseParts
<1> DEFINE s == step["server"]
<1>1. s \in {1, 2, 3} /\ at["server"] = "wipe" /\ ready' = (s = 3) /\ ~ready
        /\ shm' = [shm EXCEPT ![WipeOrder[s]] = Both(Blank)]
        /\ (s = 3 => Goto("server", "wait", 1)) /\ UNCHANGED mem
  BY <1>a, Tasks DEF Memset, StartingIsNotReady
<1>2. s = 3
  BY <1>1
<1>3. shm[WipeOrder[1]] = Both(Blank) /\ shm[WipeOrder[2]] = Both(Blank)
  BY <1>1, <1>2 DEF Unstarted
<1>4. \A a \in Areas : shm'[a] = Both(Blank)
  BY <1>a, <1>1, <1>2, <1>3 DEF WipeOrder, ShmOK
<1>5. \A p \in Workers : at'[p] = at[p] /\ step'[p] = step[p]
  BY <1>a, <1>1, <1>2 DEF Goto, ControlOK
<1>6. at'["server"] = "wait"
  BY <1>a, <1>1, <1>2 DEF Goto, ControlOK
<1> QED
  BY <1>1, <1>4, <1>5, <1>6 DEF Unstarted

-----------------------------------------------------------------------------
(* The drone's iterations *)

(***************************************************************************)
(* The drone gives its position and its velocity in that order, once each  *)
(* per iteration: before its next move both areas have its iteration, then *)
(* neither, then the position alone.  Where it dies they stay so.          *)
(***************************************************************************)
Published(a) == Count(shm[a].y)

InStep ==
  LET n == step["drone"]
      posted == at["drone"] = "post"
  IN  /\ n \in {1, 2} \/ (n = 4 /\ posted) =>
           Published("position") = cycle /\ Published("velocity") = cycle
      /\ n = 3 /\ ~posted =>
           /\ Published("position") = Published("velocity")
           /\ cycle - Published("position") \in {0, 1}
      /\ (n = 3 /\ posted) \/ n = 4 => shm["position"].y = cycle

Publishing ==
  /\ mem["drone"]["velocity"] = mem["drone"]["position"]
  /\ ready => /\ Published("position") - Published("velocity") \in {0, 1}
              /\ at["drone"] # "dead" => InStep

\* The drone's own step, when the server is ready.
LEMMA DroneInStep ==
  ASSUME Base, Publishing, ready, Step("drone")
  PROVE  /\ mem'["drone"]["velocity"] = mem'["drone"]["position"]
         /\ Published("position")' - Published("velocity")' \in {0, 1}
         /\ InStep'
<1>a. ControlOK /\ MemOK /\ ShmOK /\ Whole /\ SectionsAccess
  BY BaseParts
<1> DEFINE P == Published("position")
           V == Published("velocity")
           n == step["drone"]
           own(a) == mem["drone"][a]
<1>1. /\ n \in {1, 2, 3, 4} /\ at["drone"] \in {"go", "x", "y", "post", "dead"}
      /\ at["drone"] # "dead" /\ at'["drone"] # "dead"
      /\ own("velocity") = own("position") /\ P - V \in {0, 1}
  <2>1. at["drone"] # "dead" /\ at'["drone"] # "dead"
    BY <1>a DEF Step, Worker, WorkerWait, WorkerPost, ScanX, ScanY, PrintX, PrintY, Move,
         AfterAccess, NextTask, Goto, ControlOK
  <2> QED
    BY <1>a, <2>1, Tasks DEF Publishing, ControlOK
<1>2. InStep /\ cycle \in 0..MaxCycle /\ P \in Int /\ V \in Int
  <2>1. cycle \in 0..MaxCycle
    BY <1>a DEF MemOK, Struct, Zeroed, Label, cycle
  <2>2. \A a \in {"position", "velocity"} : shm[a].y = Blank \/ shm[a].y \in Int
    BY <1>a DEF ShmOK, Half
  <2> QED
    BY <1>1, <2>1, <2>2 DEF Publishing, Published, Count
<1>3. \A v \in 0..MaxCycle : Count(v) = v
  BY MaxCycleAssumption, BlankAssumption DEF Count
<1>4. CASE Move
  <2>1. n = 2 /\ at'["drone"] = "go" /\ step'["drone"] = 3 /\ UNCHANGED shm
    BY <1>a, <1>1, <1>4, Tasks, LoopLength DEF Move, NextTask, Goto, ControlOK
  <2>2. /\ mem'["drone"]["position"] = Both(NextCycle(cycle))
        /\ mem'["drone"]["velocity"] = Both(NextCycle(cycle))
    BY <1>a, <1>4 DEF Move, MemOK, cycle
  <2>3. cycle' = NextCycle(cycle) /\ P' = P /\ V' = V /\ P = cycle /\ V = cycle
    BY <1>2, <2>1, <2>2 DEF Published, cycle, Both, InStep
  <2>4. NextCycle(cycle) - cycle \in {0, 1}
    BY <1>2, MaxCycleAssumption DEF NextCycle
  <2> HIDE DEF P, V
  <2> QED
    BY <1>1, <1>2, <2>1, <2>2, <2>3, <2>4 DEF InStep, P, V
<1>5. CASE WorkerWait("drone")
  <2>1. at["drone"] = "go" /\ at'["drone"] = "x" /\ step' = step /\ UNCHANGED <<shm, mem>>
    BY <1>a, <1>5 DEF WorkerWait, Goto, ControlOK
  <2> QED
    BY <1>1, <1>2, <2>1 DEF InStep, Published, cycle
<1>6. CASE WorkerPost("drone")
  <2>1. /\ at["drone"] = "post" /\ at'["drone"] = "go" /\ UNCHANGED <<shm, mem>>
        /\ step'["drone"] = (n % 4) + 1 /\ n # 2
    BY <1>a, <1>6, Tasks, LoopLength DEF WorkerPost, NextTask, Goto, ControlOK, SectionsAccess
  <2>2. /\ n = 1 => step'["drone"] = 2
        /\ n = 3 => step'["drone"] = 4
        /\ n = 4 => step'["drone"] = 1
    BY <2>1
  <2> QED
    BY <1>1, <1>2, <2>1, <2>2 DEF InStep, Published, cycle
<1>7. CASE ScanX("drone") \/ ScanY("drone")
  <2>1. /\ Scanning("drone") /\ UNCHANGED shm
        /\ AfterAccess("drone") \/ Goto("drone", "y", step["drone"])
    BY <1>7 DEF ScanX, ScanY
  <2>2. n = 1 /\ Area("drone") = "force"
    BY <1>a, <2>1, Tasks DEF Scanning
  <2>3. step'["drone"] = 1
    BY <1>a, <2>1, <2>2 DEF AfterAccess, Goto, ControlOK
  <2>4. \/ mem' = mem
        \/ mem' = [mem EXCEPT !["drone"]["force"].x = shm["force"].x]
        \/ mem' = [mem EXCEPT !["drone"]["force"].y = shm["force"].y]
    BY <1>7, <2>2 DEF ScanX, ScanY
  <2>5. own("position")' = own("position") /\ own("velocity")' = own("velocity")
    BY <1>a, <2>4 DEF MemOK
  <2> QED
    BY <1>1, <1>2, <2>1, <2>2, <2>3, <2>5 DEF InStep, Published, cycle
<1>8. CASE PrintX("drone")
  <2>1. at["drone"] = "x" /\ at'["drone"] = "y" /\ step' = step /\ UNCHANGED mem
    BY <1>a, <1>8 DEF PrintX, Goto, ControlOK
  <2>2. \A a \in Areas : shm'[a].y = shm[a].y
    BY <1>a, <1>8 DEF PrintX, ShmOK
  <2> QED
    BY <1>1, <1>2, <2>1, <2>2 DEF InStep, Published, cycle
<1>9. CASE PrintY("drone")
  <2>1. at["drone"] = "y" /\ at'["drone"] = "post" /\ step' = step /\ UNCHANGED mem
    BY <1>a, <1>9 DEF PrintY, AfterAccess, Goto, ControlOK
  <2>2. own("position").y = cycle /\ own("velocity").y = cycle
    <3>1. ~MidScan("drone", "position")
      BY <1>9, <2>1 DEF MidScan, PrintY
    <3> QED
      BY <1>a, <1>1, <3>1 DEF Whole, StructsWhole, cycle
  <2>3. CASE n = 3
    <3>1. Area("drone") = "position"
      BY <1>a, <2>3, Tasks
    <3>2. shm'["position"].y = cycle /\ shm'["velocity"] = shm["velocity"]
      BY <1>a, <1>9, <2>2, <3>1 DEF PrintY, ShmOK
    <3>3. P' = cycle /\ V' = V /\ cycle' = cycle
      BY <1>2, <1>3, <2>1, <3>2 DEF Published, cycle
    <3>4. cycle - V \in {0, 1}
      BY <1>2, <2>1, <2>3 DEF InStep
    <3> QED
      BY <1>1, <2>1, <2>3, <3>2, <3>3, <3>4 DEF InStep
  <2>4. CASE n = 4
    <3>1. Area("drone") = "velocity"
      BY <1>a, <2>4, Tasks
    <3>2. shm'["velocity"].y = cycle /\ shm'["position"] = shm["position"]
      BY <1>a, <1>9, <2>2, <3>1 DEF PrintY, ShmOK
    <3>3. V' = cycle /\ P' = cycle /\ cycle' = cycle
      BY <1>2, <1>3, <2>1, <2>4, <3>2 DEF Published, cycle, InStep
    <3> QED
      BY <1>1, <1>2, <2>1, <2>4, <3>2, <3>3 DEF InStep
  <2>5. n \in {3, 4}
    BY <1>a, <1>9, WhoPrints
  <2> QED
    BY <2>3, <2>4, <2>5
<1> QED
  BY <1>4, <1>5, <1>6, <1>7, <1>8, <1>9 DEF Step, Worker

LEMMA PublishingNext ==
  ASSUME ServerFirst, Base, Unstarted, Publishing, [Next]_vars
  PROVE  Publishing'
<1>a. ControlOK /\ MemOK /\ ShmOK /\ Whole /\ SectionsAccess /\ StartingIsNotReady
  BY BaseParts
<1>b. /\ StartMem["drone"]["velocity"] = Both(0) /\ StartMem["drone"]["position"] = Both(0)
      /\ Both(0).x = 0
  BY DEF StartMem, Zeroed, Both
<1>1. CASE UNCHANGED vars
  BY <1>1 DEF vars, Publishing, InStep, Published, cycle
<1>2. CASE Rerun
  BY <1>2, <1>b DEF Rerun, Publishing
<1>3. CASE Memset
  <2>1. UNCHANGED mem
    BY <1>3 DEF Memset
  <2>2. ASSUME ready'
        PROVE  /\ Published("position")' = 0 /\ Published("velocity")' = 0
               /\ cycle' = 0 /\ step'["drone"] = 1
    <3>1. /\ shm'["position"] = Both(Blank) /\ shm'["velocity"] = Both(Blank)
          /\ mem'["drone"] = StartMem["drone"] /\ step'["drone"] = 1
      BY <1>3, <2>2, AllClear
    <3> QED
      BY <1>b, <3>1 DEF Published, Count, Both, cycle
  <2>3. ASSUME ready' PROVE InStep'
    <3>1. step'["drone"] \notin {3, 4}
      BY <2>2, <2>3
    <3> QED
      BY <2>2, <2>3, <3>1 DEF InStep
  <2> QED
    BY <2>1, <2>2, <2>3 DEF Publishing
<1>4. CASE SemInit
  BY <1>4, <1>a DEF SemInit, InitTo, Publishing, StartingIsNotReady
<1>5. ASSUME NEW p \in Procs, p # "drone", Acts(p), ~Memset, ~SemInit PROVE Publishing'
  <2>1. /\ at'["drone"] = at["drone"] /\ step'["drone"] = step["drone"]
        /\ mem'["drone"] = mem["drone"] /\ UNCHANGED ready
    BY <1>a, <1>5, ActorFrame
  <2>2. shm'["position"] = shm["position"] /\ shm'["velocity"] = shm["velocity"]
    BY <1>a, <1>5, TextFrame, WhoPrints
  <2> QED
    BY <2>1, <2>2 DEF Publishing, InStep, Published, cycle
<1>6. CASE Kill("drone")
  <2>1. at'["drone"] = "dead" /\ mem'["drone"] = StartMem["drone"] /\ UNCHANGED <<shm, ready>>
    BY <1>a, <1>6 DEF Kill, Goto, ControlOK, MemOK
  <2> QED
    BY <1>b, <2>1 DEF Publishing, Published
<1>7. CASE Step("drone") /\ ready
  BY <1>7, DroneInStep DEF Publishing
<1>8. CASE Step("drone") /\ ~ready
  BY <1>8, NothingYet
<1> QED
  BY <1>1, <1>2, <1>3, <1>4, <1>5, <1>6, <1>7, <1>8 DEF Next, Acts

-----------------------------------------------------------------------------
(* The server's snapshot *)

\* The server has scanned a since it took the three semaphores.
Scanned(a) ==
  \/ at["server"] = "post" /\ step["server"] = 3
  \/ /\ at["server"] \in {"x", "y"}
     /\ \E j \in 1..3 : j < step["server"] /\ ScanOrder[j] = a

(***************************************************************************)
(* What the server has scanned is still in the area, for nobody else gets  *)
(* at it; and where an area is blank the server has never seen anything.   *)
(***************************************************************************)
Snapshot ==
  /\ \A a \in Areas : shm[a].y = Blank => mem["server"][a].y = Blank
  /\ \A a \in Areas : Scanned(a) => mem["server"][a].x = shm[a].x

\* The server holds every area from its first scan to its first Sem_post.
LEMMA ScannedIsHeld ==
  ASSUME Base, NEW a \in Areas, Scanned(a)
  PROVE  a \in Holds("server")
<1>1. at["server"] \in {"x", "y"} \/ (at["server"] = "post" /\ step["server"] = 3)
  BY DEF Scanned
<1> QED
  BY <1>1 DEF Holds, ServerHolds, LockOrder

\* Outside a print, whoever holds an area finds its text whole.
LEMMA HeldIsWhole ==
  ASSUME Base, ready, NEW p \in Procs, NEW a \in Holds(p), ~MidPrint(p, a)
  PROVE  a \in Areas /\ shm[a].x = shm[a].y
<1>1. a \in Areas
  BY BaseParts, HoldsType
<1> QED
  BY <1>1, BaseParts DEF Whole, TextsWhole, TextWhole

LEMMA ServerScans ==
  ASSUME Base, Snapshot, ScanX("server") \/ ScanY("server")
  PROVE  Snapshot'
<1>a. ControlOK /\ MemOK /\ ShmOK /\ Whole /\ LockInv /\ Wiped
  BY BaseParts
<1>1. PICK b \in Areas : b = Area("server")
  BY <1>a, AreaType
<1>2. /\ at["server"] \in {"x", "y"} /\ step["server"] \in {1, 2, 3}
      /\ ready /\ b = ScanOrder[step["server"]] /\ UNCHANGED shm
  BY <1>a, <1>1, Tasks, AccessHolds DEF ScanX, ScanY, Area
<1>3. shm[b].x = shm[b].y
  <2>1. b \in Holds("server") /\ ~MidPrint("server", b)
    BY <1>a, <1>1, <1>2, AccessHolds DEF MidPrint, Scanning
  <2> QED
    BY <1>2, <2>1, HeldIsWhole
\* The scan of b, if it is over, has made the struct equal to the text.
<1>4. /\ \A a \in Areas : a # b => mem'["server"][a] = mem["server"][a]
      /\ shm[b].y = Blank => mem'["server"][b].y = Blank
      /\ mem'["server"][b].x = shm[b].x
      /\ AfterAccess("server") \/ Goto("server", "y", step["server"])
  <2>1. CASE ScanX("server")
    <3>1. CASE shm[b].x = Blank
      <4>1. AfterAccess("server") /\ UNCHANGED mem /\ at["server"] = "x"
        BY <1>1, <2>1, <3>1 DEF ScanX
      <4>2. mem["server"][b].y = Blank /\ mem["server"][b].x = mem["server"][b].y
        BY <1>a, <1>3, <3>1, <4>1 DEF Snapshot, Whole, StructsWhole, MidScan
      <4> QED
        BY <3>1, <4>1, <4>2
    <3>2. CASE shm[b].x # Blank
      <4>1. Goto("server", "y", step["server"]) /\ mem' = [mem EXCEPT !["server"][b].x = shm[b].x]
        BY <1>1, <2>1, <3>2 DEF ScanX
      <4> QED
        BY <1>a, <1>3, <3>2, <4>1 DEF MemOK
    <3> QED
      BY <3>1, <3>2
  <2>2. CASE ScanY("server")
    <3>1. mem["server"][b].x = shm[b].x /\ shm[b].y # Blank
      BY <1>a, <1>1, <1>3, <2>2 DEF ScanY, MidScan, Whole, HalfScanned
    <3>2. AfterAccess("server") /\ mem' = [mem EXCEPT !["server"][b].y = shm[b].y]
      BY <1>1, <2>2, <3>1 DEF ScanY
    <3> QED
      BY <1>a, <3>1, <3>2 DEF MemOK
  <2> QED
    BY <2>1, <2>2
<1>5. ASSUME NEW a \in Areas, Scanned(a)' PROVE a = b \/ Scanned(a)
  <2>1. CASE step["server"] < 3
    <3>1. at'["server"] \in {"x", "y"} /\ step'["server"] \in {step["server"], step["server"] + 1}
      BY <1>a, <1>2, <1>4, <2>1 DEF AfterAccess, Goto, ControlOK
    <3>2. PICK j \in 1..3 : j < step'["server"] /\ ScanOrder[j] = a
      BY <1>5, <3>1 DEF Scanned
    <3>3. j < step["server"] \/ j = step["server"]
      BY <1>2, <3>1, <3>2
    <3> QED
      BY <1>2, <3>2, <3>3 DEF Scanned
  <2>2. CASE step["server"] = 3
    <3>1. a = ScanOrder[3] \/ \E j \in 1..3 : j < 3 /\ ScanOrder[j] = a
      BY DEF ScanOrder
    <3> QED
      BY <1>2, <2>2, <3>1 DEF Scanned
  <2> QED
    BY <1>2, <2>1, <2>2
<1> QED
  BY <1>2, <1>4, <1>5 DEF Snapshot

LEMMA SnapshotNext ==
  ASSUME ServerFirst, Base, Unstarted, Snapshot, [Next]_vars
  PROVE  Snapshot'
<1>a. /\ ControlOK /\ MemOK /\ ShmOK /\ Whole /\ SectionsAccess /\ StartingIsNotReady
      /\ LockInv /\ Wiped
  BY BaseParts
<1>b. \A a \in Areas : StartMem["server"][a].y = Blank
  BY DEF StartMem, Zeroed, Both
<1>c. ASSUME at'["server"] \notin {"x", "y"}, ~(at'["server"] = "post" /\ step'["server"] = 3),
             \A a \in Areas : shm'[a].y = Blank => mem'["server"][a].y = Blank
      PROVE  Snapshot'
  BY <1>c DEF Snapshot, Scanned
<1>1. CASE UNCHANGED vars
  BY <1>1 DEF vars, Snapshot, Scanned
<1>2. CASE Rerun
  <2>1. at'["server"] = "init" /\ mem' = StartMem
    BY <1>2 DEF Rerun, StartAt
  <2> QED
    BY <1>b, <1>c, <2>1
<1>3. CASE SemInit \/ Memset
  <2>1. at'["server"] \in {"init", "wipe", "wait"} /\ UNCHANGED mem /\ ~ready
    BY <1>a, <1>3 DEF SemInit, InitTo, Memset, Goto, ControlOK, StartingIsNotReady
  <2>2. mem["server"] = StartMem["server"]
    BY <2>1 DEF Unstarted
  <2> QED
    BY <1>b, <1>c, <2>1, <2>2
<1>4. CASE Kill("server")
  <2>1. at'["server"] = "dead" /\ mem'["server"] = StartMem["server"]
    BY <1>a, <1>4 DEF Kill, Goto, ControlOK, MemOK
  <2> QED
    BY <1>b, <1>c, <2>1
<1>5. CASE ServerPost
  <2>1. /\ at'["server"] = "wait" \/ (at'["server"] = "post" /\ step'["server"] # 3)
        /\ UNCHANGED <<shm, mem>>
    <3>1. step["server"] \in {1, 2, 3}
      BY <1>a, Tasks
    <3> QED
      BY <1>a, <1>5, <3>1 DEF ServerPost, Goto, ControlOK
  <2> QED
    BY <1>c, <2>1 DEF Snapshot
<1>6. CASE ServerWait
  <2>1. /\ at'["server"] = "wait" \/ (at'["server"] = "x" /\ step'["server"] = 1)
        /\ UNCHANGED <<shm, mem>>
    BY <1>a, <1>6 DEF ServerWait, ServerTake, Goto, ControlOK
  <2>2. \A a \in Areas : ~Scanned(a)'
    BY <2>1 DEF Scanned
  <2> QED
    BY <2>1, <2>2 DEF Snapshot
<1>7. CASE ScanX("server") \/ ScanY("server")
  BY <1>7, ServerScans
<1>8. ASSUME NEW p \in Workers, Acts(p) PROVE Snapshot'
  <2>1. /\ at'["server"] = at["server"] /\ step'["server"] = step["server"]
        /\ mem'["server"] = mem["server"]
    BY <1>a, <1>8, ActorFrame
  <2>2. ~Memset
    BY <1>8, <1>a, <2>1, Tasks DEF Memset, Goto, ControlOK
  <2>3. ASSUME NEW a \in Areas, shm'[a] # shm[a]
        PROVE  ~Scanned(a) /\ (shm[a].y # Blank => shm'[a].y # Blank)
    <3>1. a = Area(p) /\ (PrintX(p) \/ PrintY(p))
      BY <1>a, <1>8, <2>2, <2>3, TextFrame
    <3>2. a \in Holds(p)
      BY <1>a, <3>1, AccessHolds DEF PrintX, PrintY
    <3>3. a \notin Holds("server")
      BY <1>a, <3>2 DEF LockInv, MutualExclusion
    <3>4. mem[p][a].y # Blank
      <4>1. a \in Zeroed(p)
        BY <1>a, <3>1, WhoPrints DEF Zeroed
      <4> QED
        BY <1>a, <4>1, LabelType DEF MemOK, Struct
    <3>5. shm'[a].y \in {shm[a].y, mem[p][a].y}
      BY <1>a, <3>1 DEF PrintX, PrintY, ShmOK
    <3> QED
      BY <3>3, <3>4, <3>5, ScannedIsHeld
  <2> QED
    BY <2>1, <2>3 DEF Snapshot, Scanned
<1> QED
  BY <1>1, <1>2, <1>3, <1>4, <1>5, <1>6, <1>7, <1>8 DEF Next, Acts, Step, Server

-----------------------------------------------------------------------------
(***************************************************************************)
(* The inductive invariant for the three areas.                            *)
(***************************************************************************)
DroneInv == Base /\ Unstarted /\ Publishing /\ Snapshot

LEMMA DroneInvHolds ==
  ASSUME ServerFirst PROVE Spec => []DroneInv
<1>1. Init => Unstarted /\ Publishing /\ Snapshot
  BY DEF Init, StartAt, StartMem, Zeroed, Both, Unstarted, Publishing, Snapshot, Scanned
<1>2. Base /\ Unstarted /\ Publishing /\ Snapshot /\ [Next]_vars
        => Unstarted' /\ Publishing' /\ Snapshot'
  BY UnstartedNext, PublishingNext, SnapshotNext
<1>3. Base /\ Unstarted /\ Publishing /\ Snapshot => DroneInv
  BY DEF DroneInv
<1> QED
  BY <1>1, <1>2, <1>3, BaseInv, PTL DEF Spec

(***************************************************************************)
(* If the server starts first, the position and the velocity it logs are   *)
(* of one iteration of the drone or of two that follow each other, in any  *)
(* run, however many iterations pass and wherever the drone is killed.     *)
(***************************************************************************)
THEOREM SnapshotsFit ==
  ASSUME ServerFirst PROVE Spec => []SnapshotSkew
<1>1. DroneInv => SnapshotSkew
  <2> SUFFICES ASSUME DroneInv, at["server"] = "post", step["server"] = 3
               PROVE  Count(mem["server"]["position"].x) - Count(mem["server"]["velocity"].x)
                        \in {0, 1}
    BY DEF SnapshotSkew
  <2>1. Base /\ Snapshot /\ Publishing /\ ready
    BY BaseParts DEF DroneInv, Wiped
  <2>2. ASSUME NEW a \in Areas PROVE mem["server"][a].x = shm[a].x /\ shm[a].x = shm[a].y
    <3>1. Scanned(a)
      BY DEF Scanned
    <3>2. a \in Holds("server") /\ ~MidPrint("server", a)
      BY <2>1, <3>1, ScannedIsHeld DEF MidPrint
    <3> QED
      BY <2>1, <3>1, <3>2, HeldIsWhole DEF Snapshot
  <2> QED
    BY <2>1, <2>2 DEF Publishing, Published
<1> QED
  BY <1>1, DroneInvHolds, PTL

-----------------------------------------------------------------------------
(* The force *)

\* The value a key press finds: the register's, or what input assumes.
Old == IF shm["force"].y = Blank THEN 0 ELSE shm["force"].y

(***************************************************************************)
(* The input process computes with the force that is in the area, for it   *)
(* has scanned it, and nobody but itself replaces it.                      *)
(***************************************************************************)
Pressing ==
  LET f == mem["input"]["force"].x
      n == step["input"]
      posted == at["input"] = "post"
  IN  /\ n # 5 /\ shm["force"].y = Blank => f = 0
      /\ n = 4 \/ (n = 3 /\ posted) => f = Old
      /\ n = 5 /\ ~posted => \E k \in Keys[run] : f = Pressed(Old, k)
      /\ n = 5 /\ posted => shm["force"].y # Blank

LEMMA InputPresses ==
  ASSUME Base, Pressing, ready, Step("input")
  PROVE  Pressing'
<1>a. ControlOK /\ MemOK /\ ShmOK /\ Whole /\ SectionsAccess /\ LockInv /\ Wiped
  BY BaseParts
<1> DEFINE n == step["input"]
           l == at["input"]
           force == mem["input"]["force"]
<1>1. n \in {1, 2, 3, 4, 5} /\ UNCHANGED run
  BY <1>a, Tasks, ActorFrame DEF Acts
<1>2. CASE Press
  <2>1. n = 4 /\ at'["input"] = "go" /\ step'["input"] = 5 /\ UNCHANGED shm
    BY <1>a, <1>1, <1>2, Tasks, LoopLength DEF Press, NextTask, Goto, ControlOK
  <2>2. PICK k \in Keys[run] : mem' = [mem EXCEPT !["input"]["force"] =
                                 [x |-> Pressed(force.x, k), y |-> Pressed(force.y, k)]]
    BY <1>2 DEF Press
  <2>3. force.x' = Pressed(force.x, k)
    BY <1>a, <2>2 DEF MemOK
  <2>4. force.x = Old /\ Old' = Old
    BY <2>1 DEF Pressing, Old
  <2> QED
    BY <1>1, <2>1, <2>3, <2>4 DEF Pressing
<1>3. CASE WorkerWait("input")
  <2>1. l = "go" /\ at'["input"] = "x" /\ step' = step /\ UNCHANGED <<shm, mem>>
    BY <1>a, <1>3 DEF WorkerWait, Goto, ControlOK
  <2> QED
    BY <1>1, <2>1 DEF Pressing, Old
<1>4. CASE WorkerPost("input")
  <2>1. /\ l = "post" /\ at'["input"] = "go" /\ UNCHANGED <<shm, mem>>
        /\ step'["input"] = (n % 5) + 1 /\ n # 4
    BY <1>a, <1>4, Tasks, LoopLength DEF WorkerPost, NextTask, Goto, ControlOK, SectionsAccess
  <2>2. /\ n = 1 => step'["input"] = 2
        /\ n = 2 => step'["input"] = 3
        /\ n = 3 => step'["input"] = 4
        /\ n = 5 => step'["input"] = 1
    BY <2>1
  <2> QED
    BY <1>1, <2>1, <2>2 DEF Pressing, Old
<1>5. CASE ScanX("input") \/ ScanY("input")
  <2> DEFINE b == Area("input")
  <2>1. /\ Scanning("input") /\ UNCHANGED shm /\ l \in {"x", "y"}
        /\ AfterAccess("input") \/ Goto("input", "y", step["input"])
    BY <1>5 DEF ScanX, ScanY
  <2>2. n \in {1, 2, 3} /\ (n = 3 <=> b = "force") /\ b \in Areas
    BY <1>a, <2>1, Tasks DEF Scanning
  <2>3. step'["input"] = n /\ at'["input"] \in {"y", "post"}
    BY <1>a, <2>1 DEF AfterAccess, Goto, ControlOK
  <2>4. CASE n # 3
    <3>1. \/ mem' = mem
          \/ mem' = [mem EXCEPT !["input"][b].x = shm[b].x]
          \/ mem' = [mem EXCEPT !["input"][b].y = shm[b].y]
      BY <1>5 DEF ScanX, ScanY
    <3>2. force' = force
      BY <1>a, <2>2, <2>4, <3>1 DEF MemOK
    <3> HIDE DEF b
    <3> QED
      BY <1>1, <2>1, <2>2, <2>3, <2>4, <3>2 DEF Pressing
  <2>5. CASE n = 3
    <3>1. shm["force"].x = shm["force"].y
      <4>1. "force" \in Holds("input") /\ ~MidPrint("input", "force")
        BY <1>a, <2>1, <2>2, <2>5, AccessHolds DEF MidPrint
      <4> QED
        BY <4>1, HeldIsWhole
    <3>2. force.x' = Old
      <4>1. CASE shm["force"].x = Blank
        <5>1. ScanX("input")
          BY <1>5, <1>a, <2>2, <2>5, <4>1 DEF ScanY, MidScan, Whole, HalfScanned
        <5>2. UNCHANGED mem
          BY <2>2, <2>5, <4>1, <5>1 DEF ScanX
        <5> QED
          BY <2>5, <3>1, <4>1, <5>2 DEF Old, Pressing
      <4>2. CASE shm["force"].x # Blank /\ ScanX("input")
        <5>1. mem' = [mem EXCEPT !["input"]["force"].x = shm["force"].x]
          BY <2>2, <2>5, <4>2 DEF ScanX
        <5> QED
          BY <1>a, <3>1, <4>2, <5>1 DEF Old, MemOK
      <4>3. CASE shm["force"].x # Blank /\ ScanY("input")
        <5>1. force.x = shm["force"].x
          BY <1>a, <2>2, <2>5, <4>3 DEF ScanY, MidScan, Whole, HalfScanned
        <5>2. mem' = [mem EXCEPT !["input"]["force"].y = shm["force"].y]
          BY <2>2, <2>5, <3>1, <4>3 DEF ScanY
        <5> QED
          BY <1>a, <3>1, <4>3, <5>1, <5>2 DEF Old, MemOK
      <4> QED
        BY <1>5, <4>1, <4>2, <4>3
    <3> HIDE DEF b
    <3> QED
      BY <2>1, <2>3, <2>5, <3>2 DEF Pressing, Old
  <2> QED
    BY <2>4, <2>5
<1>6. CASE PrintX("input") \/ PrintY("input")
  <2>1. n = 5 /\ Area("input") = "force" /\ UNCHANGED mem
    BY <1>a, <1>6, WhoPrints DEF PrintX, PrintY
  <2>2. CASE PrintX("input")
    <3>1. l = "x" /\ at'["input"] = "y" /\ step' = step
      BY <1>a, <2>2 DEF PrintX, Goto, ControlOK
    <3>2. shm'["force"].y = shm["force"].y
      BY <1>a, <2>2, <2>1 DEF PrintX, ShmOK
    <3> QED
      BY <1>1, <2>1, <3>1, <3>2 DEF Pressing, Old
  <2>3. CASE PrintY("input")
    <3>1. at'["input"] = "post" /\ step' = step
      BY <1>a, <2>3 DEF PrintY, AfterAccess, Goto, ControlOK
    <3>2. shm'["force"].y = force.y
      BY <1>a, <2>3, <2>1 DEF PrintY, ShmOK
    <3>3. force.y # Blank
      BY <1>a, LabelType DEF MemOK, Struct, Zeroed
    <3> QED
      BY <2>1, <3>1, <3>2, <3>3 DEF Pressing
  <2> QED
    BY <1>6, <2>2, <2>3
<1> QED
  BY <1>2, <1>3, <1>4, <1>5, <1>6 DEF Step, Worker

LEMMA PressingNext ==
  ASSUME ServerFirst, Base, Unstarted, Pressing, [Next]_vars
  PROVE  Pressing'
<1>a. ControlOK /\ MemOK /\ ShmOK /\ Whole /\ SectionsAccess /\ StartingIsNotReady
  BY BaseParts
<1>b. StartMem["input"]["force"].x = 0
  BY DEF StartMem, Zeroed, Both
<1>1. CASE UNCHANGED vars
  BY <1>1 DEF vars, Pressing, Old
<1>2. ASSUME step'["input"] = 1, mem'["input"] = StartMem["input"] PROVE Pressing'
  BY <1>2, <1>b DEF Pressing
<1>3. CASE Rerun
  BY <1>2, <1>3 DEF Rerun
<1>4. CASE SemInit \/ Memset
  <2>1. ~ready /\ UNCHANGED mem /\ step'["input"] = step["input"]
    BY <1>a, <1>4 DEF SemInit, InitTo, Memset, Goto, ControlOK, StartingIsNotReady
  <2>2. step["input"] = 1 /\ mem["input"] = StartMem["input"]
    BY <2>1 DEF Unstarted
  <2> QED
    BY <1>2, <2>1, <2>2
<1>5. CASE Kill("input")
  BY <1>2, <1>5, <1>a DEF Kill, Goto, ControlOK, MemOK
<1>6. ASSUME NEW p \in Procs, p # "input", Acts(p), ~Memset PROVE Pressing'
  <2>1. /\ at'["input"] = at["input"] /\ step'["input"] = step["input"]
        /\ mem'["input"] = mem["input"] /\ UNCHANGED run
    BY <1>a, <1>6, ActorFrame
  <2>2. shm'["force"] = shm["force"]
    BY <1>a, <1>6, TextFrame, WhoPrints
  <2> QED
    BY <2>1, <2>2 DEF Pressing, Old
<1>7. CASE Step("input") /\ ready
  BY <1>7, InputPresses
<1>8. CASE Step("input") /\ ~ready
  BY <1>8, NothingYet
<1> QED
  BY <1>1, <1>3, <1>4, <1>5, <1>6, <1>7, <1>8 DEF Next, Acts

(***************************************************************************)
(* In a run whose user is idle there is no force anywhere: the structs     *)
(* start at zero, and what an earlier run left in the area has been cleared*)
(* when the first process looks.                                           *)
(***************************************************************************)
NoForce(t) == t.x = 0 /\ t.y = 0

Untouched ==
  Keys[run] \subseteq {"s", "none"} =>
    /\ NoForce(mem["drone"]["force"]) /\ NoForce(mem["input"]["force"])
    /\ ready => shm["force"].x \in {0, Blank} /\ shm["force"].y \in {0, Blank}

LEMMA UntouchedNext ==
  ASSUME ServerFirst, Base, Unstarted, Untouched, [Next]_vars
  PROVE  Untouched'
<1>a. ControlOK /\ MemOK /\ ShmOK /\ SectionsAccess /\ LockInv /\ Wiped
  BY BaseParts
<1>b. NoForce(StartMem["drone"]["force"]) /\ NoForce(StartMem["input"]["force"])
  BY DEF StartMem, Zeroed, Both, NoForce
<1>1. CASE UNCHANGED vars
  BY <1>1 DEF vars, Untouched
<1>2. CASE Rerun
  <2>1. mem' = StartMem /\ ~ready'
    BY <1>2 DEF Rerun
  <2> QED
    BY <1>b, <2>1 DEF Untouched, NoForce
<1>3. CASE Memset
  <2>1. UNCHANGED <<mem, run>>
    BY <1>3 DEF Memset
  <2>2. ready' => shm'["force"] = Both(Blank)
    BY <1>3, AllClear
  <2> QED
    BY <2>1, <2>2 DEF Untouched, Both
<1>4. ASSUME NEW p \in Procs, Acts(p), ~Memset, Keys[run'] \subseteq {"s", "none"}
      PROVE  /\ NoForce(mem["drone"]["force"])' /\ NoForce(mem["input"]["force"])'
             /\ ready' => shm'["force"].x \in {0, Blank} /\ shm'["force"].y \in {0, Blank}
  <2>1. /\ UNCHANGED <<run, ready>>
        /\ \A q \in Procs : q # p => mem'[q] = mem[q]
    BY <1>a, <1>4, ActorFrame
  <2>2. /\ NoForce(mem["drone"]["force"]) /\ NoForce(mem["input"]["force"])
        /\ ready => shm["force"].x \in {0, Blank} /\ shm["force"].y \in {0, Blank}
    BY <1>4, <2>1 DEF Untouched
  <2>3. ASSUME ready PROVE shm'["force"].x \in {0, Blank} /\ shm'["force"].y \in {0, Blank}
    <3>1. CASE shm'["force"] = shm["force"]
      BY <2>2, <2>3, <3>1
    <3>2. CASE shm'["force"] # shm["force"]
      <4>1. p = "input" /\ (PrintX(p) \/ PrintY(p)) /\ Area(p) = "force"
        BY <1>a, <1>4, <3>2, TextFrame, WhoPrints
      <4>2. /\ shm'["force"].x \in {shm["force"].x, mem["input"]["force"].x}
            /\ shm'["force"].y \in {shm["force"].y, mem["input"]["force"].y}
        BY <1>a, <4>1 DEF PrintX, PrintY, ShmOK
      <4> QED
        BY <2>2, <2>3, <4>2 DEF NoForce
    <3> QED
      BY <3>1, <3>2
  <2>4. ASSUME p \in {"drone", "input"} PROVE NoForce(mem[p]["force"])'
    <3>1. NoForce(mem[p]["force"])
      BY <2>2, <2>4
    <3>2. CASE Kill(p)
      <4>1. mem'[p] = StartMem[p]
        BY <1>a, <3>2 DEF Kill, MemOK
      <4> QED
        BY <1>b, <2>4, <4>1 DEF NoForce
    <3>3. CASE Move
      <4>1. mem'["drone"]["force"] = mem["drone"]["force"] /\ mem'["input"] = mem["input"]
        BY <1>a, <3>3 DEF Move, MemOK
      <4> QED
        BY <2>4, <3>1, <4>1 DEF NoForce
    <3>4. CASE Press
      <4>1. \A k \in {"s", "none"} : Pressed(0, k) = 0
        BY MaxForceAssumption DEF Pressed
      <4>2. PICK k \in Keys[run] : mem' = [mem EXCEPT !["input"]["force"] =
               [x |-> Pressed(mem["input"]["force"].x, k), y |-> Pressed(mem["input"]["force"].y, k)]]
        BY <3>4 DEF Press
      <4>3. k \in {"s", "none"}
        BY <1>4, <2>1
      <4>4. mem' = [mem EXCEPT !["input"]["force"] = [x |-> 0, y |-> 0]]
        BY <2>2, <4>1, <4>2, <4>3 DEF NoForce
      <4> QED
        BY <1>a, <2>4, <3>1, <4>4 DEF NoForce, MemOK
    <3>5. CASE ScanX(p) \/ ScanY(p)
      <4>1. ready
        BY <1>a, <3>5, AccessHolds DEF ScanX, ScanY
      <4>2. \/ mem' = mem
            \/ /\ mem' = [mem EXCEPT ![p][Area(p)].x = shm[Area(p)].x]
               /\ shm[Area(p)].x # Blank
            \/ /\ mem' = [mem EXCEPT ![p][Area(p)].y = shm[Area(p)].y]
               /\ shm[Area(p)].y # Blank
        BY <3>5 DEF ScanX, ScanY
      <4>3. CASE Area(p) # "force"
        <5>1. mem'[p]["force"] = mem[p]["force"]
          BY <1>a, <4>2, <4>3 DEF MemOK
        <5> QED
          BY <3>1, <5>1 DEF NoForce
      <4>4. CASE Area(p) = "force"
        <5>1. \/ mem' = mem
              \/ mem' = [mem EXCEPT ![p]["force"].x = 0]
              \/ mem' = [mem EXCEPT ![p]["force"].y = 0]
          BY <2>2, <4>1, <4>2, <4>4
        <5> QED
          BY <1>a, <3>1, <5>1 DEF NoForce, MemOK
      <4> QED
        BY <4>3, <4>4
    <3>6. CASE UNCHANGED mem
      BY <3>1, <3>6 DEF NoForce
    <3> QED
      BY <1>4, <2>4, <3>2, <3>3, <3>4, <3>5, <3>6
         DEF Acts, Step, Worker, WorkerWait, WorkerPost, PrintX, PrintY
  <2>5. \A q \in {"drone", "input"} : q # p => NoForce(mem[q]["force"])'
    BY <2>1, <2>2 DEF NoForce
  <2> QED
    BY <2>1, <2>3, <2>4, <2>5
<1>5. ASSUME NEW p \in Procs, Acts(p), ~Memset PROVE Untouched'
  BY <1>4, <1>5 DEF Untouched
<1> QED
  BY <1>1, <1>2, <1>3, <1>5 DEF Next, Acts

(***************************************************************************)
(* If the server starts first, a user who presses no key of force leaves   *)
(* the drone without one in every run, whatever the user of an earlier run *)
(* did and wherever that run was killed.                                   *)
(***************************************************************************)
THEOREM IdleUserIsSafe ==
  ASSUME ServerFirst PROVE Spec => []IdleUserNoForce
<1>1. Init => Untouched
  BY DEF Init, StartMem, Zeroed, Both, Untouched, NoForce
<1>2. DroneInv /\ Untouched /\ [Next]_vars => Untouched'
  BY UntouchedNext DEF DroneInv
<1>3. DroneInv /\ Untouched => IdleUserNoForce
  <2> SUFFICES ASSUME Base, Untouched, Keys[run] \subseteq {"s", "none"}
               PROVE  mem["drone"]["force"] = Both(0)
    BY DEF DroneInv, IdleUserNoForce
  <2>1. mem["drone"]["force"] \in [x : Half, y : Half]
    BY BaseParts DEF MemOK
  <2> QED
    BY <2>1 DEF Untouched, NoForce, Both
<1> QED
  BY <1>1, <1>2, <1>3, DroneInvHolds, PTL DEF Spec

-----------------------------------------------------------------------------
(* The areas are registers *)

LEMMA ReaderType ==
  ASSUME NEW r \in Reader
  PROVE  /\ r[1] \in Procs /\ r[2] \in Areas /\ r = <<r[1], r[2]>>
         /\ r[1] = "drone" => r[2] = "force"
         /\ r[1] = "input" => r[2] # "force"
         /\ r[2] \in Zeroed(r[1]) <=> r \in {<<"drone", "force">>, <<"input", "velocity">>}
BY DEF Reader, Zeroed

\* A reader's view is the second number of its struct: when it is not the
\* first as well, the scan is not over.
LEMMA ViewIs ==
  ASSUME Base
  PROVE  view = [r \in Reader |-> mem[r[1]][r[2]].y]
<1>1. ASSUME NEW p \in Procs, NEW a \in Areas PROVE Seen(p, a) = mem[p][a].y
  BY BaseParts DEF Seen, Whole, StructsWhole
<1> QED
  BY <1>1, ReaderType DEF view

\* What a step leaves alone.
LEMMA RegistersFrame ==
  ASSUME Base, Base'
  PROVE  /\ (\A a \in Areas : shm'[a].y = shm[a].y) => UNCHANGED reg
         /\ (\A r \in Reader : mem'[r[1]][r[2]].y = mem[r[1]][r[2]].y) => UNCHANGED view
         /\ UNCHANGED mem => UNCHANGED <<view, cycle>>
<1>1. view = [r \in Reader |-> mem[r[1]][r[2]].y]
  BY ViewIs
<1>2. view' = [r \in Reader |-> mem'[r[1]][r[2]].y]
  <2>1. (Base => view = [r \in Reader |-> mem[r[1]][r[2]].y])'
    BY ViewIs, PTL
  <2> QED
    BY <2>1
<1>3. reg' = [a \in Areas |-> shm'[a].y] /\ reg = [a \in Areas |-> shm[a].y]
  BY DEF reg
<1> QED
  BY <1>1, <1>2, <1>3 DEF cycle

\* Until anybody looks or moves, everybody assumes what he starts with.
LEMMA FreshStart ==
  ASSUME Base, \A p \in Procs : mem[p] = StartMem[p]
  PROVE  Registers!Fresh
<1>1. cycle = 0
  BY DEF StartMem, Zeroed, Both, cycle
<1>2. ASSUME NEW r \in Reader PROVE mem[r[1]][r[2]].y = Registers!Assumed[r]
  <2>1. r \in Registers!Readers
    BY DEF Reader, Registers!Readers, Registers!Areas
  <2> QED
    BY <2>1, ReaderType DEF StartMem, Both, Registers!Assumed
<1>3. view = Registers!Assumed
  <2>1. Reader = Registers!Readers
    BY DEF Reader, Registers!Readers, Registers!Areas
  <2> QED
    BY <1>2, <2>1, ViewIs DEF Registers!Assumed
<1> QED
  BY <1>1, <1>3 DEF Registers!Fresh

\* The clearing, a new run and a death.
LEMMA RegistersClear ==
  ASSUME Base, Base', Unstarted, Memset
  PROVE  Registers!Clear
<1>1. ControlOK /\ ShmOK /\ StartingIsNotReady
  BY BaseParts
<1>2. PICK a \in Areas : shm' = [shm EXCEPT ![a] = Both(Blank)]
  <2>1. WipeOrder[step["server"]] \in Areas
    BY <1>1, Tasks DEF WipeOrder
  <2>2. shm' = [shm EXCEPT ![WipeOrder[step["server"]]] = Both(Blank)]
    BY DEF Memset
  <2> QED
    BY <2>1, <2>2
<1>3. Registers!Fresh
  <2>1. ~ready
    BY <1>1 DEF StartingIsNotReady, Memset
  <2> QED
    BY <2>1, FreshStart DEF Unstarted
<1>4. reg' = [reg EXCEPT ![a] = Blank]
  BY <1>1, <1>2 DEF reg, ShmOK, Both
<1>5. UNCHANGED <<view, cycle, run>>
  BY RegistersFrame DEF Memset
<1> QED
  BY <1>2, <1>3, <1>4, <1>5 DEF Registers!Clear, Registers!Areas

LEMMA RegistersRestart ==
  ASSUME Base, Base', Unstarted, Rerun
  PROVE  Registers!Restart
<1>1. \A p \in Procs : mem[p] = StartMem[p]
  BY DEF Rerun, Unstarted
<1>2. mem' = mem
  <2>1. mem' = StartMem
    BY DEF Rerun
  <2>2. mem \in [Procs -> [Areas -> [x : Half, y : Half]]] /\ StartMem \in [Procs -> [Areas -> [x : Half, y : Half]]]
    BY BaseParts, StartMemType DEF MemOK
  <2> QED
    BY <1>1, <2>1, <2>2
<1>3. UNCHANGED <<reg, view, cycle>>
  BY <1>2, RegistersFrame DEF Rerun
<1> QED
  BY <1>1, <1>3, FreshStart DEF Rerun, Registers!Restart

LEMMA RegistersForget ==
  ASSUME Base, Base', NEW p \in Procs, Kill(p)
  PROVE  Registers!Forget(p)
<1>1. ControlOK /\ MemOK
  BY BaseParts
<1>2. mem'[p] = StartMem[p] /\ (\A q \in Procs : q # p => mem'[q] = mem[q]) /\ UNCHANGED shm
  BY <1>1 DEF Kill, MemOK
<1>3. Reader = Registers!Readers
  BY DEF Reader, Registers!Readers, Registers!Areas
<1>4. view' = [r \in Reader |-> mem'[r[1]][r[2]].y]
  <2>1. (Base => view = [r \in Reader |-> mem[r[1]][r[2]].y])'
    BY ViewIs, PTL
  <2> QED
    BY <2>1
<1>5. ASSUME NEW r \in Reader
      PROVE  mem'[r[1]][r[2]].y = IF r[1] = p THEN Registers!Assumed[r] ELSE view[r]
  <2>1. CASE r[1] = p
    BY <1>2, <1>3, <2>1, ReaderType DEF StartMem, Both, Registers!Assumed
  <2>2. CASE r[1] # p
    BY <1>2, <2>2, ReaderType, ViewIs
  <2> QED
    BY <2>1, <2>2
<1>6. cycle' = IF p = "drone" THEN 0 ELSE cycle
  BY <1>2 DEF cycle, StartMem, Zeroed, Both
<1>7. UNCHANGED reg
  BY <1>2, RegistersFrame
<1> QED
  BY <1>3, <1>4, <1>5, <1>6, <1>7 DEF Kill, Registers!Forget

\* A scan ends by replacing a view, if there is anything to see.
LEMMA RegistersObserve ==
  ASSUME Base, Base', NEW p \in Procs, ScanX(p) \/ ScanY(p)
  PROVE  (\E r \in Reader : Registers!Observe(r)) \/ UNCHANGED Registers!vars
<1>a. ControlOK /\ MemOK /\ ShmOK /\ Whole
  BY BaseParts
<1>1. PICK b \in Areas : b = Area(p)
  BY <1>a, AreaType
<1>2. UNCHANGED <<reg, run>> /\ UNCHANGED cycle
  <2>1. UNCHANGED <<shm, run>>
    BY DEF ScanX, ScanY
  <2>2. p = "drone" => b = "force"
    BY <1>a, <1>1, Tasks DEF ScanX, ScanY, Scanning
  <2>3. mem'["drone"]["position"] = mem["drone"]["position"]
    BY <1>a, <1>1, <2>2 DEF ScanX, ScanY, MemOK
  <2> QED
    BY <2>1, <2>3, RegistersFrame DEF cycle
<1>3. CASE ScanX(p)
  <2>1. \A q \in Procs : \A a \in Areas : mem'[q][a].y = mem[q][a].y
    BY <1>a, <1>1, <1>3 DEF ScanX, MemOK
  <2>2. UNCHANGED view
    BY <2>1, ReaderType, RegistersFrame
  <2> QED
    BY <1>2, <2>2 DEF Registers!vars
<1>4. CASE ScanY(p)
  <2>1. shm[b].y # Blank /\ mem' = [mem EXCEPT ![p][b].y = shm[b].y]
    BY <1>a, <1>1, <1>4 DEF ScanY, MidScan, Whole, HalfScanned
  <2>2. \A q \in Procs : \A a \in Areas :
          mem'[q][a].y = IF q = p /\ a = b THEN shm[b].y ELSE mem[q][a].y
    BY <1>a, <2>1 DEF MemOK
  <2>3. CASE <<p, b>> \in Reader
    <3>1. view = [r \in Reader |-> mem[r[1]][r[2]].y]
      BY ViewIs
    <3>2. view' = [r \in Reader |-> mem'[r[1]][r[2]].y]
      <4>1. (Base => view = [r \in Reader |-> mem[r[1]][r[2]].y])'
        BY ViewIs, PTL
      <4> QED
        BY <4>1
    <3>3. ASSUME NEW r \in Reader
          PROVE  mem'[r[1]][r[2]].y = IF r = <<p, b>> THEN reg[b] ELSE mem[r[1]][r[2]].y
      BY <1>1, <2>2, ReaderType DEF reg
    <3>4. view' = [view EXCEPT ![<<p, b>>] = reg[b]]
      BY <2>3, <3>1, <3>2, <3>3
    <3>5. reg[b] # Blank
      BY <1>1, <2>1 DEF reg
    <3> QED
      BY <1>2, <2>3, <3>4, <3>5 DEF Registers!Observe
  <2>4. CASE <<p, b>> \notin Reader
    <3>1. \A r \in Reader : mem'[r[1]][r[2]].y = mem[r[1]][r[2]].y
      BY <2>2, <2>4, ReaderType
    <3> QED
      BY <1>2, <3>1, RegistersFrame DEF Registers!vars
  <2> QED
    BY <2>3, <2>4
<1> QED
  BY <1>3, <1>4

\* The clamp and the switch, in either form.
LEMMA PressedIsAfter ==
  ASSUME NEW v \in Label("force"), NEW k \in Key
  PROVE  Pressed(v, k) = Registers!After(v, k)
<1>1. v \in Int /\ v <= MaxForce /\ -MaxForce <= v /\ MaxForce \in Int /\ MaxForce >= 0
  BY MaxForceAssumption DEF Label
<1>2. CASE k = "c"
  BY <1>1, <1>2 DEF Pressed, Registers!After, Registers!Clamp
<1>3. CASE k = "q"
  BY <1>1, <1>3 DEF Pressed, Registers!After, Registers!Clamp
<1>4. CASE k = "s"
  BY <1>1, <1>4 DEF Pressed, Registers!After, Registers!Clamp
<1>5. CASE k = "none"
  BY <1>1, <1>5 DEF Pressed, Registers!After, Registers!Clamp
<1> QED
  BY <1>2, <1>3, <1>4, <1>5 DEF Key

\* A print ends by replacing the register.
LEMMA RegistersPublish ==
  ASSUME Base, Base', Publishing, Pressing, NEW p \in Procs, PrintX(p) \/ PrintY(p)
  PROVE  \/ Registers!PublishPosition \/ Registers!PublishVelocity \/ Registers!ChangeForce
         \/ UNCHANGED Registers!vars
<1>a. ControlOK /\ MemOK /\ ShmOK /\ Whole /\ SectionsAccess /\ LockInv /\ Wiped
  BY BaseParts
<1>1. PICK b \in Areas : b = Area(p)
  BY <1>a, AreaType
<1>2. UNCHANGED <<view, cycle, run>> /\ at[p] \in {"x", "y"}
  BY RegistersFrame DEF PrintX, PrintY
<1>3. CASE PrintX(p)
  <2>1. \A a \in Areas : shm'[a].y = shm[a].y
    BY <1>a, <1>1, <1>3 DEF PrintX, ShmOK
  <2> QED
    BY <1>2, <2>1, RegistersFrame DEF Registers!vars
<1>4. CASE PrintY(p)
  <2>1. reg' = [reg EXCEPT ![b] = mem[p][b].y]
    BY <1>a, <1>1, <1>4 DEF PrintY, reg, ShmOK
  <2>2. mem[p][b].y = mem[p][b].x /\ at[p] = "y" /\ ready
    <3>1. at[p] = "y" /\ ~MidScan(p, b)
      BY <1>4 DEF PrintY, MidScan
    <3> QED
      BY <1>a, <1>1, <3>1, AccessHolds DEF Whole, StructsWhole
  <2>3. CASE p = "drone" /\ step["drone"] = 3 /\ b = "position"
    BY <1>2, <2>1, <2>2, <2>3 DEF Registers!PublishPosition, cycle
  <2>4. CASE p = "drone" /\ step["drone"] = 4 /\ b = "velocity"
    <3>1. shm["position"].y = cycle /\ mem["drone"]["velocity"] = mem["drone"]["position"]
      BY <2>2, <2>4 DEF Publishing, InStep
    <3>2. reg["position"] = cycle /\ mem[p][b].y = cycle
      BY <2>2, <2>4, <3>1 DEF reg, cycle
    <3> QED
      BY <1>2, <2>1, <2>4, <3>2 DEF Registers!PublishVelocity
  <2>5. CASE p = "input" /\ step["input"] = 5 /\ b = "force"
    <3>1. PICK k \in Keys[run] : mem["input"]["force"].x = Pressed(Old, k)
      BY <2>2, <2>5 DEF Pressing
    <3>2. k \in Key
      BY <1>a, KeysAssumption DEF ControlOK
    <3>3. Old \in Label("force") /\ Old = IF reg["force"] = Blank THEN 0 ELSE reg["force"]
      BY <1>a, LabelType DEF Old, reg, ShmOK, Text
    <3>4. Pressed(Old, k) = Registers!After(IF reg["force"] = Blank THEN 0 ELSE reg["force"], k)
      BY <3>2, <3>3, PressedIsAfter
    <3> QED
      BY <1>2, <2>1, <2>2, <2>5, <3>1, <3>4 DEF Registers!ChangeForce
  <2> QED
    BY <1>a, <1>1, <1>4, <2>3, <2>4, <2>5, WhoPrints
<1> QED
  BY <1>3, <1>4

\* The local computations: the drone's next iteration; a key is not seen yet.
LEMMA RegistersLocal ==
  ASSUME Base, Base', Move \/ Press
  PROVE  Registers!Advance \/ UNCHANGED Registers!vars
<1>a. MemOK
  BY BaseParts
<1>1. ASSUME NEW r \in Reader PROVE mem'[r[1]][r[2]] = mem[r[1]][r[2]]
  BY <1>a, ReaderType DEF Move, Press, MemOK
<1>2. UNCHANGED <<reg, view, run>>
  BY <1>1, RegistersFrame DEF Move, Press
<1>3. CASE Move
  <2>1. cycle' = NextCycle(cycle)
    BY <1>a, <1>3 DEF Move, MemOK, Both, cycle
  <2> QED
    BY <1>2, <2>1 DEF Registers!Advance, Registers!Following, NextCycle
<1>4. CASE Press
  <2>1. UNCHANGED cycle
    BY <1>a, <1>4 DEF Press, MemOK, cycle
  <2> QED
    BY <1>2, <2>1 DEF Registers!vars
<1> QED
  BY <1>3, <1>4

(***************************************************************************)
(* If the server starts first, the four loops with their semaphores and    *)
(* half-written texts implement three atomic registers, through any number *)
(* of runs killed anywhere: a reader sees what was published, velocity     *)
(* after position, and a key changes the force that is in the register.    *)
(***************************************************************************)
THEOREM AccessesAreAtomic ==
  ASSUME ServerFirst PROVE Spec => Atomicity
<1>1. DroneInv /\ Init => Pressing /\ Registers!Init
  <2> SUFFICES ASSUME Base, Init PROVE Pressing /\ Registers!Init
    BY DEF DroneInv
  <2>1. Pressing
    BY DEF Init, StartMem, Zeroed, Both, Pressing
  <2>2. reg = [a \in Areas |-> Blank]
    BY DEF Init, Both, reg
  <2>3. Registers!Fresh
    BY FreshStart DEF Init
  <2> QED
    BY <2>1, <2>2, <2>3 DEF Init, Registers!Init, Registers!Fresh, Registers!Areas
<1>2. DroneInv /\ Pressing /\ [Next]_vars => Pressing'
  BY PressingNext DEF DroneInv
<1>3. DroneInv /\ DroneInv' /\ Pressing /\ [Next]_vars => [Registers!Next]_(Registers!vars)
  <2> SUFFICES ASSUME Base, Base', Unstarted, Publishing, Pressing, [Next]_vars
               PROVE  [Registers!Next]_(Registers!vars)
    BY DEF DroneInv
  <2>1. CASE UNCHANGED <<shm, mem, run>>
    BY <2>1, RegistersFrame DEF Registers!vars
  <2>2. CASE Memset \/ Rerun
    BY <2>2, RegistersClear, RegistersRestart DEF Registers!Next
  <2>3. ASSUME NEW p \in Procs, Kill(p) PROVE Registers!Next
    BY <2>3, RegistersForget DEF Registers!Next
  <2>4. ASSUME NEW p \in Procs, ScanX(p) \/ ScanY(p)
        PROVE  [Registers!Next]_(Registers!vars)
    <3>1. Reader = Registers!Readers
      BY DEF Reader, Registers!Readers, Registers!Areas
    <3> QED
      BY <2>4, <3>1, RegistersObserve DEF Registers!Next
  <2>5. ASSUME NEW p \in Procs, PrintX(p) \/ PrintY(p)
        PROVE  [Registers!Next]_(Registers!vars)
    BY <2>5, RegistersPublish DEF Registers!Next
  <2>6. CASE Move \/ Press
    BY <2>6, RegistersLocal DEF Registers!Next
  <2>7. SemInit \/ ServerWait \/ ServerPost \/ (\E p \in Workers : WorkerWait(p) \/ WorkerPost(p))
          \/ UNCHANGED vars => UNCHANGED <<shm, mem, run>>
    BY DEF SemInit, InitTo, ServerWait, ServerTake, ServerPost, WorkerWait, WorkerPost, vars
  <2> QED
    BY <2>1, <2>2, <2>3, <2>4, <2>5, <2>6, <2>7, NextCases DEF Quiet
<1> QED
  BY <1>1, <1>2, <1>3, DroneInvHolds, PTL DEF Spec, Atomicity, Registers!Spec
=============================================================================
