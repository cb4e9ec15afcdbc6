----------------------------- MODULE SharedMemory -----------------------------
(***************************************************************************)
(* The shared memory object /shm_server and the three semaphores that      *)
(* guard its areas, with the main loops of the four processes that use     *)
(* them: server, drone, input and map.                                     *)
(*                                                                         *)
(* An area holds the text "x|y" that sprintf left there.  Neither sprintf  *)
(* nor sscanf is atomic, so an area is a pair of halves, written and read  *)
(* one half at a time.  A half is Blank or the label of the value printed: *)
(* for position and velocity, the drone's iteration that computed it; for  *)
(* force, the value itself in units of force_step.  The keys of this model *)
(* move both axes alike, so two halves with different labels can only come *)
(* from two different writes.                                              *)
(*                                                                         *)
(* The semaphores and the memory object are named: no process ever reaches *)
(* its clean-up code, so both outlive a run that is killed and are found   *)
(* as they are by the next one (action Rerun).                             *)
(***************************************************************************)
EXTENDS Integers, Sequences, FiniteSets

CONSTANTS
  MaxForce,    \* max_force of the configuration, in units of force_step
  MaxCycle,    \* drone iterations told apart; from then on it is at rest
  MaxRuns,     \* bound: runs of the program; the last one is not killed
  Keys,        \* Keys[r]: the keys the user may press during run r
  ServerFirst, \* TRUE: the scheduler lets the server finish its start-up
               \* before any other process reaches its main loop
  Blank        \* a half that is zeroed memory, or a field never assigned

Key == {"q", "c", "s", "none"}

ASSUME MaxForceAssumption == MaxForce \in Nat
ASSUME MaxCycleAssumption == MaxCycle \in Nat
ASSUME MaxRunsAssumption == MaxRuns \in Nat \ {0}
ASSUME KeysAssumption == Keys \in [1..MaxRuns -> (SUBSET Key) \ {{}}]
ASSUME ServerFirstAssumption == ServerFirst \in BOOLEAN
ASSUME BlankAssumption == Blank \notin Int

Areas == {"force", "velocity", "position"}
Workers == {"drone", "input", "map"}
Procs == Workers \cup {"server"}

(***************************************************************************)
(* What the body of each worker's main loop does, in order.  "scan" and    *)
(* "print" are the sscanf and sprintf calls between Sem_wait and Sem_post; *)
(* "move" and "press" are local computations.                              *)
(***************************************************************************)
VelocityFirst == << <<"scan", "force">>, <<"move", "position">>,  \* mutant
                    <<"print", "velocity">>, <<"print", "position">> >>
DroneLoop == << <<"scan", "force">>, <<"move", "position">>,
                <<"print", "position">>, <<"print", "velocity">> >>
InputLoop == << <<"scan", "position">>, <<"scan", "velocity">>,
                <<"scan", "force">>, <<"press", "force">>,
                <<"print", "force">> >>
MapLoop == << <<"scan", "position">> >>

Loop == [drone |-> DroneLoop, input |-> InputLoop, map |-> MapLoop]

\* The orders in which the server initialises, clears, locks and reads.
InitOrder == <<"force", "position", "velocity">>
WipeSkipsForce == <<"position", "position", "velocity">>  \* mutant
WipeOrder == <<"position", "force", "velocity">>
LockOrder == <<"force", "velocity", "position">>
ScanOrder == <<"position", "velocity", "force">>

VARIABLES
  sem,    \* value of each named semaphore
  shm,    \* the text in each area, as its two halves
  at,     \* what each process is about to do
  step,   \* where in its loop or order it is about to do it
  mem,    \* mem[p][a]: the struct of process p for the data of area a
  ready,  \* the server has passed its start-up in this run
  run     \* number of the current run

vars == <<sem, shm, at, step, mem, ready, run>>

Label(a) == IF a = "force" THEN (-MaxForce)..MaxForce ELSE 0..MaxCycle
Text(a) == [x : Label(a) \cup {Blank}, y : Label(a) \cup {Blank}]
Half == Int \cup {Blank}
Both(v) == [x |-> v, y |-> v]

\* Structs the code initialises before its loop; the others are Blank.
Zeroed(p) == CASE p = "drone"  -> Areas
               [] p = "input"  -> {"force", "velocity"}
               [] p = "map"    -> {}
               [] p = "server" -> {}

StartAt == [p \in Procs |-> IF p = "server" THEN "init" ELSE "go"]
StartMem == [p \in Procs |-> [a \in Areas |->
               IF a \in Zeroed(p) THEN Both(0) ELSE Both(Blank)]]

Init ==
  /\ sem = [a \in Areas |-> 1]
  /\ shm = [a \in Areas |-> Both(Blank)]
  /\ at = StartAt
  /\ step = [p \in Procs |-> 1]
  /\ mem = StartMem
  /\ ready = FALSE
  /\ run = 1

-----------------------------------------------------------------------------
Op(p) == Loop[p][step[p]][1]
Area(p) == IF p = "server" THEN ScanOrder[step[p]] ELSE Loop[p][step[p]][2]

Goto(p, label, n) ==
  /\ at' = [at EXCEPT ![p] = label]
  /\ step' = [step EXCEPT ![p] = n]

NextTask(p) == Goto(p, "go", (step[p] % Len(Loop[p])) + 1)

\* Assumption on the scheduler, made only when ServerFirst is TRUE.
MayRun(p) == (ServerFirst /\ p # "server") => ready

\* Sem_init of the next semaphore to value v.
InitTo(v) ==
  /\ at["server"] = "init"
  /\ sem' = [sem EXCEPT ![InitOrder[step["server"]]] = v]
  /\ IF step["server"] < 3 THEN Goto("server", "init", step["server"] + 1)
                           ELSE Goto("server", "wipe", 1)
  /\ UNCHANGED <<shm, mem, ready, run>>

InitToTwo == InitTo(2)                               \* mutant

\* The value becomes 1 whatever it was.
SemInit == InitTo(1)

\* memset over the mapped object, taken area by area in address order.  No
\* semaphore is held.
Memset ==
  /\ at["server"] = "wipe"
  /\ shm' = [shm EXCEPT ![WipeOrder[step["server"]]] = Both(Blank)]
  /\ IF step["server"] < 3 THEN Goto("server", "wipe", step["server"] + 1)
                           ELSE Goto("server", "wait", 1)
  /\ ready' = (step["server"] = 3)
  /\ UNCHANGED <<sem, mem, run>>

\* Sem_wait on the next of the first n semaphores of the lock order.
ServerTake(n) ==
  LET a == LockOrder[step["server"]] IN
  /\ at["server"] = "wait"
  /\ sem[a] > 0
  /\ sem' = [sem EXCEPT ![a] = @ - 1]
  /\ IF step["server"] < n THEN Goto("server", "wait", step["server"] + 1)
                           ELSE Goto("server", "x", 1)
  /\ UNCHANGED <<shm, mem, ready, run>>

ServerWaitTwo == ServerTake(2)                       \* mutant

\* Sem_wait, Sem_wait, Sem_wait at the top of the server's loop.
ServerWait == ServerTake(3)

\* Sem_post in the reverse order, after the snapshot has been logged.
ServerPost ==
  LET a == LockOrder[step["server"]] IN
  /\ at["server"] = "post"
  /\ sem' = [sem EXCEPT ![a] = @ + 1]
  /\ IF step["server"] > 1 THEN Goto("server", "post", step["server"] - 1)
                           ELSE Goto("server", "wait", 1)
  /\ UNCHANGED <<shm, mem, ready, run>>

\* Mutant of WorkerWait: the access is not guarded by Sem_wait.
WorkerNoWait(p) ==
  /\ at[p] = "go"
  /\ Op(p) \in {"scan", "print"}
  /\ MayRun(p)
  /\ Goto(p, "x", step[p])
  /\ UNCHANGED <<sem, shm, mem, ready, run>>

WorkerWait(p) ==
  LET a == Area(p) IN
  /\ at[p] = "go"
  /\ Op(p) \in {"scan", "print"}
  /\ MayRun(p)
  /\ sem[a] > 0
  /\ sem' = [sem EXCEPT ![a] = @ - 1]
  /\ Goto(p, "x", step[p])
  /\ UNCHANGED <<shm, mem, ready, run>>

WorkerPost(p) ==
  /\ at[p] = "post"
  /\ sem' = [sem EXCEPT ![Area(p)] = @ + 1]
  /\ NextTask(p)
  /\ UNCHANGED <<shm, mem, ready, run>>

\* Where a process goes when its sscanf or sprintf has returned.
AfterAccess(p) ==
  IF p = "server" /\ step[p] < 3 THEN Goto(p, "x", step[p] + 1)
                                 ELSE Goto(p, "post", step[p])

Scanning(p) == p \in Workers => Op(p) = "scan"

\* sscanf "%f|%f", first conversion.  On empty text it converts nothing and
\* both fields keep their old values.
ScanX(p) ==
  LET a == Area(p) IN
  /\ at[p] = "x"
  /\ Scanning(p)
  /\ IF shm[a].x = Blank
       THEN AfterAccess(p) /\ UNCHANGED mem
       ELSE /\ mem' = [mem EXCEPT ![p][a].x = shm[a].x]
            /\ Goto(p, "y", step[p])
  /\ UNCHANGED <<sem, shm, ready, run>>

ScanY(p) ==
  LET a == Area(p) IN
  /\ at[p] = "y"
  /\ Scanning(p)
  /\ mem' = IF shm[a].y = Blank THEN mem
                                ELSE [mem EXCEPT ![p][a].y = shm[a].y]
  /\ AfterAccess(p)
  /\ UNCHANGED <<sem, shm, ready, run>>

\* sprintf "%f|%f" straight into the area: first number, then the second.
PrintX(p) ==
  LET a == Area(p) IN
  /\ at[p] = "x"
  /\ ~Scanning(p)
  /\ shm' = [shm EXCEPT ![a].x = mem[p][a].x]
  /\ Goto(p, "y", step[p])
  /\ UNCHANGED <<sem, mem, ready, run>>

PrintY(p) ==
  LET a == Area(p) IN
  /\ at[p] = "y"
  /\ ~Scanning(p)
  /\ shm' = [shm EXCEPT ![a].y = mem[p][a].y]
  /\ AfterAccess(p)
  /\ UNCHANGED <<sem, mem, ready, run>>

\* The drone's new position and velocity, labelled by the iteration.
NextCycle(v) == IF v < MaxCycle THEN v + 1 ELSE MaxCycle

Move ==
  LET v == Both(NextCycle(mem["drone"]["position"].x)) IN
  /\ at["drone"] = "go"
  /\ Op("drone") = "move"
  /\ MayRun("drone")
  /\ mem' = [mem EXCEPT !["drone"]["position"] = v, !["drone"]["velocity"] = v]
  /\ NextTask("drone")
  /\ UNCHANGED <<sem, shm, ready, run>>

\* Mutant of Pressed: the limit is not enforced.
PressedUnclamped(v, k) == CASE k = "c" -> v + 1
                            [] k = "q" -> v - 1
                            [] k = "s" -> 0
                            [] k = "none" -> v

\* One component of the force after key k, with the clamp to max_force that
\* follows the switch whatever the key.
Pressed(v, k) ==
  LET u == CASE k = "c" -> v + 1
             [] k = "q" -> v - 1
             [] k = "s" -> 0
             [] k = "none" -> v
  IN  CASE u > MaxForce  -> MaxForce
        [] u < -MaxForce -> -MaxForce
        [] OTHER         -> u

\* getch and the switch of update_force, on the value scanned before.
Press ==
  LET f == mem["input"]["force"] IN
  /\ at["input"] = "go"
  /\ Op("input") = "press"
  /\ MayRun("input")
  /\ \E k \in Keys[run] :
       mem' = [mem EXCEPT !["input"]["force"] =
                 [x |-> Pressed(f.x, k), y |-> Pressed(f.y, k)]]
  /\ NextTask("input")
  /\ UNCHANGED <<sem, shm, ready, run>>

Server == SemInit \/ Memset \/ ServerWait \/ ServerPost
            \/ ScanX("server") \/ ScanY("server")
Worker(p) == \/ WorkerWait(p) \/ WorkerPost(p)
             \/ ScanX(p) \/ ScanY(p) \/ PrintX(p) \/ PrintY(p)
Step(p) == \/ p = "server" /\ Server
           \/ p \in Workers /\ Worker(p)
           \/ p = "drone" /\ Move
           \/ p = "input" /\ Press

\* A process dies between any two steps: a crash, or the watchdog's SIGKILL.
\* Its memory is gone; the semaphores it holds stay taken.
Kill(p) ==
  /\ run < MaxRuns
  /\ at[p] # "dead"
  /\ Goto(p, "dead", 1)
  /\ mem' = [mem EXCEPT ![p] = StartMem[p]]
  /\ UNCHANGED <<sem, shm, ready, run>>

\* The program is started again: every process is new, but the named
\* semaphores and the memory object already exist.
Rerun ==
  /\ run < MaxRuns
  /\ \A p \in Procs : at[p] = "dead"
  /\ at' = StartAt
  /\ step' = [p \in Procs |-> 1]
  /\ mem' = StartMem
  /\ ready' = FALSE
  /\ run' = run + 1
  /\ UNCHANGED <<sem, shm>>

Next == (\E p \in Procs : Step(p) \/ Kill(p)) \/ Rerun

Spec == Init /\ [][Next]_vars

-----------------------------------------------------------------------------
\* The areas whose semaphore p has taken and not yet posted.
ServerHolds == CASE at["server"] = "wait" -> {LockOrder[j] : j \in 1..(step["server"] - 1)}
                 [] at["server"] = "post" -> {LockOrder[j] : j \in 1..step["server"]}
                 [] at["server"] \in {"x", "y"} -> Areas
                 [] OTHER -> {}

Holds(p) == IF p = "server" THEN ServerHolds
            ELSE IF at[p] \in {"x", "y", "post"} THEN {Area(p)} ELSE {}

\* Only a struct that starts Blank can be Blank: no scan assigns that.
Struct(p, a) ==
  LET half == IF a \in Zeroed(p) THEN Label(a) ELSE Label(a) \cup {Blank}
  IN  [x : half, y : half]

ControlOK ==
  /\ at \in [Procs -> {"init", "wipe", "wait", "go", "x", "y", "post", "dead"}]
  /\ at["server"] # "go"
  /\ \A p \in Workers : at[p] \in {"go", "x", "y", "post", "dead"}
  /\ step \in [Procs -> 1..5]
  /\ step["server"] \in 1..Len(ScanOrder)
  /\ \A p \in Workers : step[p] \in 1..Len(Loop[p])
  /\ ready \in BOOLEAN
  /\ run \in 1..MaxRuns

DataOK ==
  /\ sem \in [Areas -> Nat]
  /\ shm \in [Areas -> [x : Half, y : Half]]
  /\ \A a \in Areas : shm[a] \in Text(a)
  /\ mem \in [Procs -> [Areas -> [x : Half, y : Half]]]
  /\ \A p \in Procs, a \in Areas : mem[p][a] \in Struct(p, a)

TypeOK == ControlOK /\ DataOK

(***************************************************************************)
(* No two processes are ever between Sem_wait and Sem_post of the same     *)
(* semaphore (a process killed there no longer is).  It holds only when    *)
(* the server starts first.                                                *)
(***************************************************************************)
MutualExclusion ==
  \A p, q \in Procs : p # q => Holds(p) \cap Holds(q) = {}

(***************************************************************************)
(* What a process has scanned when it posts comes from one sprintf: it     *)
(* never pairs the x of one write with the y of another.                   *)
(***************************************************************************)
NoTornScan ==
  \A p \in Procs : at[p] = "post" =>
    \A a \in Holds(p) : mem[p][a].x = mem[p][a].y

(***************************************************************************)
(* The line the server logs for a position and the one for a velocity      *)
(* belong to the same iteration of the drone, or the velocity is the one   *)
(* of the iteration before: the drone publishes them one after the other   *)
(* and the server looks while it holds both semaphores.                    *)
(***************************************************************************)
Count(v) == IF v = Blank THEN 0 ELSE v

SnapshotSkew ==
  at["server"] = "post" /\ step["server"] = 3 =>
    Count(mem["server"]["position"].x) - Count(mem["server"]["velocity"].x)
      \in {0, 1}

(***************************************************************************)
(* While the user of this run presses no key, the drone applies no force,  *)
(* whatever an earlier run left in the memory object (input.c:254, drone.c *)
(* line 95: the force at the beginning of the simulation is 0).            *)
(***************************************************************************)
IdleUserNoForce ==
  Keys[run] \subseteq {"s", "none"} => mem["drone"]["force"] = Both(0)

(***************************************************************************)
(* The semaphores make every access atomic: the loops implement the three  *)
(* registers of AtomicAreas.  A register changes when sprintf has written  *)
(* its second number, a reader's view when sscanf has read its second one, *)
(* and then it is the first number that must be the register's.            *)
(***************************************************************************)
Reader == {<<"drone", "force">>, <<"map", "position">>,
           <<"input", "position">>, <<"input", "velocity">>}
            \cup ({"server"} \X Areas)

MidScan(p, a) == at[p] = "y" /\ Scanning(p) /\ Area(p) = a

Seen(p, a) == IF MidScan(p, a) THEN mem[p][a].y ELSE mem[p][a].x

reg == [a \in Areas |-> shm[a].y]
view == [r \in Reader |-> Seen(r[1], r[2])]
cycle == mem["drone"]["position"].x

Registers == INSTANCE AtomicAreas

Atomicity == Registers!Spec

(***************************************************************************)
(* The loops, with their data, take and give the semaphores as module      *)
(* Semaphores says, through crashes and reruns.  A worker between Sem_wait *)
(* and Sem_post is "in"; the server that holds all three is about to post; *)
(* local steps and the accesses themselves change nothing there.           *)
(***************************************************************************)
Section == [drone |-> <<1, 2, 2, 3>>, input |-> <<1, 2, 3, 4, 4>>, map |-> <<1>>]

LockLabel(p, label) ==
  IF label \notin {"x", "y", "post"} THEN label
  ELSE IF p = "server" THEN "post" ELSE "in"

LockStep(p, label, n) ==
  IF p # "server" THEN Section[p][n]
  ELSE IF label \in {"x", "y"} THEN 3
  ELSE IF label = "wipe" THEN 1
  ELSE n

lockAt == [p \in Procs |-> LockLabel(p, at[p])]
lockStep == [p \in Procs |-> LockStep(p, at[p], step[p])]

Locks == INSTANCE Semaphores WITH at <- lockAt, step <- lockStep

UsesSemaphores == Locks!Spec
=============================================================================
