-------------------------- MODULE SharedMemoryProofs --------------------------
(***************************************************************************)
(* Theorems about SharedMemory, for every limit on the force, number of    *)
(* drone iterations, number of runs and choice of keys.                    *)
(***************************************************************************)
EXTENDS SharedMemory, TLAPS

USE DEF Areas, Workers, Procs

-----------------------------------------------------------------------------
(* Typing: where a process is *)

LEMMA LoopLength ==
  /\ Len(Loop["drone"]) = 4 /\ Len(Loop["input"]) = 5 /\ Len(Loop["map"]) = 1
  /\ Len(ScanOrder) = 3
BY DEF Loop, DroneLoop, InputLoop, MapLoop, ScanOrder

LEMMA RangeWithin ==
  \A m \in 1..5 : \A n \in 1..m : n \in 1..5
OBVIOUS

LEMMA FirstStep ==
  1 \in 1..Len(ScanOrder) /\ \A p \in Workers : 1 \in 1..Len(Loop[p])
<1>1. 1 \in 1..Len(ScanOrder)
  BY LoopLength
<1>2. ASSUME NEW p \in Workers PROVE 1 \in 1..Len(Loop[p])
  BY LoopLength
<1> QED
  BY <1>1, <1>2

\* What ControlOK says of the steps, before and after a transition.
LEMMA StepRange ==
  /\ ControlOK => /\ step["server"] \in 1..3 /\ step["drone"] \in 1..4
                  /\ step["input"] \in 1..5 /\ step["map"] \in 1..1
                  /\ \A p \in Workers : step[p] \in 1..Len(Loop[p])
  /\ \A p \in Workers : Len(Loop[p]) \in 1..5
<1>1. ControlOK => step["server"] \in 1..3
  BY LoopLength DEF ControlOK
<1>2. ControlOK => step["drone"] \in 1..4
  BY LoopLength DEF ControlOK
<1>3. ControlOK => step["input"] \in 1..5
  BY LoopLength DEF ControlOK
<1>4. ControlOK => step["map"] \in 1..1
  BY LoopLength DEF ControlOK
<1>5. ControlOK => \A p \in Workers : step[p] \in 1..Len(Loop[p])
  BY DEF ControlOK
<1>6. \A p \in Workers : Len(Loop[p]) \in 1..5
  BY LoopLength
<1> QED
  BY <1>1, <1>2, <1>3, <1>4, <1>5, <1>6

\* Every task of every loop names an area.
LEMMA AreaType ==
  ASSUME ControlOK, NEW p \in Procs
  PROVE  /\ Area(p) \in Areas
         /\ p \in Workers => Op(p) \in {"scan", "print", "move", "press"}
BY DEF ControlOK, Area, Op, Loop, DroneLoop, InputLoop, MapLoop, ScanOrder

\* Going on to the next task stays within the loop.
LEMMA NextTaskType ==
  ASSUME ControlOK, NEW p \in Workers
  PROVE  (step[p] % Len(Loop[p])) + 1 \in 1..Len(Loop[p]) /\ Len(Loop[p]) \in 1..5
<1>1. step[p] \in 1..Len(Loop[p]) /\ Len(Loop[p]) \in 1..5
  BY StepRange DEF ControlOK
<1> QED
  BY <1>1

\* Where a process may go without leaving ControlOK.
LEMMA GotoType ==
  ASSUME ControlOK, UNCHANGED run, ready' \in BOOLEAN,
         NEW p \in Procs, NEW label, NEW n, Goto(p, label, n),
         \/ p = "server" /\ label \in {"init", "wipe", "wait", "x", "y", "post", "dead"}
                         /\ n \in 1..3
         \/ p \in Workers /\ label \in {"go", "x", "y", "post", "dead"}
                          /\ n \in 1..Len(Loop[p])
  PROVE  ControlOK'
<1>1. at' = [at EXCEPT ![p] = label] /\ step' = [step EXCEPT ![p] = n]
  BY DEF Goto
<1>2. at' \in [Procs -> {"init", "wipe", "wait", "go", "x", "y", "post", "dead"}]
        /\ at'["server"] # "go"
        /\ \A w \in Workers : at'[w] \in {"go", "x", "y", "post", "dead"}
  BY <1>1 DEF ControlOK
<1>3. /\ step' \in [Procs -> 1..5]
      /\ step'["server"] \in 1..3
      /\ \A w \in Workers : step'[w] \in 1..Len(Loop[w])
  <2>1. step \in [Procs -> 1..5] /\ step["server"] \in 1..3
          /\ \A w \in Workers : step[w] \in 1..Len(Loop[w]) /\ Len(Loop[w]) \in 1..5
    BY StepRange DEF ControlOK
  <2>2. n \in 1..5
    <3>1. CASE p = "server"
      BY <3>1
    <3>2. CASE p \in Workers
      BY <2>1, <3>2, RangeWithin
    <3> QED
      BY <3>1, <3>2
  <2>3. step' \in [Procs -> 1..5]
    BY <1>1, <2>1, <2>2
  <2>4. step'["server"] \in 1..3
    BY <1>1, <2>1, <2>3 DEF ControlOK
  <2>5. ASSUME NEW w \in Workers PROVE step'[w] \in 1..Len(Loop[w])
    <3>1. CASE w = p
      BY <1>1, <2>1, <3>1
    <3>2. CASE w # p
      BY <1>1, <2>1, <3>2
    <3> QED
      BY <3>1, <3>2
  <2> QED
    BY <2>3, <2>4, <2>5
<1>4. step'["server"] \in 1..Len(ScanOrder)
  BY <1>3, LoopLength
<1> QED
  BY <1>2, <1>3, <1>4 DEF ControlOK

\* After an access, a process goes on to the next one or to Sem_post.
LEMMA AfterAccessType ==
  ASSUME ControlOK, UNCHANGED <<ready, run>>,
         NEW p \in Procs, at[p] \in {"x", "y"}, AfterAccess(p)
  PROVE  ControlOK'
<1>1. step["server"] \in 1..3 /\ \A w \in Workers : step[w] \in 1..Len(Loop[w])
  BY StepRange, LoopLength
<1>2. ready' \in BOOLEAN
  BY DEF ControlOK
<1>3. CASE p = "server" /\ step[p] < 3
  BY <1>1, <1>2, <1>3, GotoType DEF AfterAccess
<1>4. CASE ~(p = "server" /\ step[p] < 3)
  BY <1>1, <1>2, <1>4, GotoType DEF AfterAccess
<1> QED
  BY <1>3, <1>4

LEMMA ControlInit == Init => ControlOK
<1> SUFFICES ASSUME Init PROVE ControlOK
  OBVIOUS
<1>1. 1 \in 1..Len(ScanOrder) /\ \A p \in Workers : 1 \in 1..Len(Loop[p])
  BY FirstStep
<1>2. /\ at = StartAt /\ step = [p \in Procs |-> 1]
      /\ ready = FALSE /\ run \in 1..MaxRuns
  BY MaxRunsAssumption DEF Init
<1>3. /\ at \in [Procs -> {"init", "wipe", "wait", "go", "x", "y", "post", "dead"}]
      /\ at["server"] # "go"
      /\ \A p \in Workers : at[p] \in {"go", "x", "y", "post", "dead"}
  BY <1>2 DEF StartAt
<1>4. /\ step \in [Procs -> 1..5]
      /\ \A p \in Procs : step[p] = 1
  BY <1>2
<1>5. \A p \in Workers : step[p] \in 1..Len(Loop[p])
  BY <1>1, <1>4
<1> QED
  BY <1>1, <1>2, <1>3, <1>4, <1>5 DEF ControlOK

LEMMA ControlNext == ControlOK /\ [Next]_vars => ControlOK'
<1> SUFFICES ASSUME ControlOK, [Next]_vars PROVE ControlOK'
  OBVIOUS
<1>a. step["server"] \in 1..3 /\ \A w \in Workers : step[w] \in 1..Len(Loop[w])
  BY StepRange, LoopLength
<1>b. ready \in BOOLEAN
  BY DEF ControlOK
<1>c. ASSUME NEW p \in Procs, ScanX(p) \/ ScanY(p) \/ PrintX(p) \/ PrintY(p)
      PROVE  ControlOK'
  <2>1. at[p] \in {"x", "y"} /\ UNCHANGED <<ready, run>>
    BY <1>c DEF ScanX, ScanY, PrintX, PrintY
  <2>2. CASE AfterAccess(p)
    BY <2>1, <2>2, AfterAccessType
  <2>3. CASE Goto(p, "y", step[p])
    BY <1>a, <1>b, <2>1, <2>3, GotoType
  <2> QED
    BY <1>c, <2>2, <2>3 DEF ScanX, ScanY, PrintX, PrintY
<1>1. CASE SemInit
  BY <1>1, <1>a, <1>b, GotoType DEF SemInit, InitTo
<1>2. CASE Memset
  BY <1>2, <1>a, GotoType DEF Memset
<1>3. CASE ServerWait
  BY <1>3, <1>a, <1>b, GotoType DEF ServerWait, ServerTake
<1>4. CASE ServerPost
  BY <1>4, <1>a, <1>b, GotoType DEF ServerPost
<1>5. ASSUME NEW p \in Workers, WorkerWait(p)
      PROVE  ControlOK'
  BY <1>5, <1>a, <1>b, GotoType DEF WorkerWait
<1>6. ASSUME NEW p \in Workers, WorkerPost(p)
      PROVE  ControlOK'
  BY <1>6, <1>b, GotoType, NextTaskType DEF WorkerPost, NextTask
<1>7. CASE Move
  BY <1>7, <1>b, GotoType, NextTaskType DEF Move, NextTask
<1>8. CASE Press
  BY <1>8, <1>b, GotoType, NextTaskType DEF Press, NextTask
<1>9. ASSUME NEW p \in Procs, Kill(p)
      PROVE  ControlOK'
  <2>1. p \in Workers => 1 \in 1..Len(Loop[p])
    BY NextTaskType
  <2> QED
    BY <1>9, <1>b, <2>1, GotoType DEF Kill
<1>10. CASE Rerun
  <2>1. 1 \in 1..Len(ScanOrder) /\ \A p \in Workers : 1 \in 1..Len(Loop[p])
    BY FirstStep
  <2>2. /\ at' = StartAt /\ step' = [p \in Procs |-> 1]
        /\ ready' = FALSE /\ run' \in 1..MaxRuns
    BY <1>10, MaxRunsAssumption DEF Rerun, ControlOK
  <2>3. /\ at' \in [Procs -> {"init", "wipe", "wait", "go", "x", "y", "post", "dead"}]
        /\ at'["server"] # "go"
        /\ \A p \in Workers : at'[p] \in {"go", "x", "y", "post", "dead"}
    BY <2>2 DEF StartAt
  <2>4. /\ step' \in [Procs -> 1..5]
        /\ \A p \in Procs : step'[p] = 1
    BY <2>2
  <2>5. \A p \in Workers : step'[p] \in 1..Len(Loop[p])
    BY <2>1, <2>4
  <2> QED
    BY <2>1, <2>2, <2>3, <2>4, <2>5 DEF ControlOK
<1>11. CASE UNCHANGED vars
  BY <1>11 DEF vars, ControlOK
<1> QED
  BY <1>c, <1>1, <1>2, <1>3, <1>4, <1>5, <1>6, <1>7, <1>8, <1>9, <1>10, <1>11
     DEF Next, Step, Server, Worker

-----------------------------------------------------------------------------
(* Typing: what is in the semaphores, the areas and the structs *)

SemOK == sem \in [Areas -> Nat]
ShmOK == /\ shm \in [Areas -> [x : Half, y : Half]]
         /\ \A a \in Areas : shm[a] \in Text(a)
MemOK == /\ mem \in [Procs -> [Areas -> [x : Half, y : Half]]]
         /\ \A p \in Procs, a \in Areas : mem[p][a] \in Struct(p, a)

LEMMA LabelType ==
  \A a \in Areas : Label(a) \subseteq Int /\ 0 \in Label(a) /\ Blank \notin Label(a)
BY MaxForceAssumption, MaxCycleAssumption, BlankAssumption DEF Label

\* A half of a struct or of a text may be given a label of its area.
LEMMA HalfType ==
  ASSUME NEW a \in Areas, NEW p \in Procs, NEW t, NEW v \in Label(a)
  PROVE  /\ t \in Struct(p, a) => /\ [t EXCEPT !.x = v] \in Struct(p, a)
                                  /\ [t EXCEPT !.y = v] \in Struct(p, a)
         /\ Both(v) \in Struct(p, a)
         /\ Struct(p, a) \subseteq Text(a)
         /\ Text(a) \subseteq [x : Half, y : Half]
BY LabelType DEF Struct, Text, Both, Half

LEMMA MemSet ==
  ASSUME MemOK, NEW p \in Procs, NEW a \in Areas, NEW t \in Struct(p, a),
         mem' = [mem EXCEPT ![p][a] = t]
  PROVE  MemOK'
<1>1. t \in [x : Half, y : Half]
  BY LabelType, HalfType
<1>2. mem' \in [Procs -> [Areas -> [x : Half, y : Half]]]
  BY <1>1 DEF MemOK
<1>3. ASSUME NEW q \in Procs, NEW b \in Areas
      PROVE  mem'[q][b] \in Struct(q, b)
  BY DEF MemOK
<1> QED
  BY <1>2, <1>3 DEF MemOK

LEMMA ShmSet ==
  ASSUME ShmOK, NEW a \in Areas, NEW t \in Text(a), shm' = [shm EXCEPT ![a] = t]
  PROVE  ShmOK'
BY LabelType, HalfType DEF ShmOK

\* A process that starts, or is dead, has the structs it starts with.
LEMMA StartMemType ==
  /\ StartMem \in [Procs -> [Areas -> [x : Half, y : Half]]]
  /\ \A p \in Procs, a \in Areas : StartMem[p][a] \in Struct(p, a)
<1>1. ASSUME NEW p \in Procs, NEW a \in Areas
      PROVE  StartMem[p][a] \in Struct(p, a) /\ StartMem[p][a] \in [x : Half, y : Half]
  BY LabelType DEF StartMem, Struct, Both, Half
<1> QED
  BY <1>1 DEF StartMem

LEMMA DataInit == Init => SemOK /\ ShmOK /\ MemOK
BY StartMemType DEF Init, SemOK, ShmOK, MemOK, Both, Half, Text

LEMMA SemNext == SemOK /\ ControlOK /\ [Next]_vars => SemOK'
<1> SUFFICES ASSUME SemOK, ControlOK, [Next]_vars PROVE SemOK'
  OBVIOUS
<1>1. \A a \in Areas : sem[a] \in Nat /\ sem[a] + 1 \in Nat
                         /\ (sem[a] > 0 => sem[a] - 1 \in Nat)
  BY DEF SemOK
<1>2. ASSUME NEW a \in Areas, NEW n \in Nat, sem' = [sem EXCEPT ![a] = n]
      PROVE  SemOK'
  BY <1>2 DEF SemOK
<1>3. step["server"] \in 1..3
  BY StepRange
<1>4. CASE SemInit
  <2>1. InitOrder[step["server"]] \in Areas
    BY <1>3 DEF InitOrder
  <2> QED
    BY <1>2, <1>4, <2>1 DEF SemInit, InitTo
<1>5. CASE ServerWait
  <2>1. LockOrder[step["server"]] \in Areas
    BY <1>3 DEF LockOrder
  <2> QED
    BY <1>1, <1>2, <1>5, <2>1 DEF ServerWait, ServerTake
<1>6. CASE ServerPost
  <2>1. LockOrder[step["server"]] \in Areas
    BY <1>3 DEF LockOrder
  <2> QED
    BY <1>1, <1>2, <1>6, <2>1 DEF ServerPost
<1>7. ASSUME NEW p \in Workers, WorkerWait(p) PROVE SemOK'
  BY <1>1, <1>2, <1>7, AreaType DEF WorkerWait
<1>8. ASSUME NEW p \in Workers, WorkerPost(p) PROVE SemOK'
  BY <1>1, <1>2, <1>8, AreaType DEF WorkerPost
<1>9. CASE UNCHANGED sem
  BY <1>9 DEF SemOK
<1> QED
  BY <1>4, <1>5, <1>6, <1>7, <1>8, <1>9
     DEF Next, Step, Server, Worker, Memset, ScanX, ScanY, PrintX, PrintY,
         Move, Press, Kill, Rerun, vars

LEMMA ShmNext == ShmOK /\ MemOK /\ ControlOK /\ [Next]_vars => ShmOK'
<1> SUFFICES ASSUME ShmOK, MemOK, ControlOK, [Next]_vars PROVE ShmOK'
  OBVIOUS
<1>1. CASE Memset
  <2>1. WipeOrder[step["server"]] \in Areas
    BY StepRange DEF WipeOrder
  <2>2. \A a \in Areas : Both(Blank) \in Text(a)
    BY DEF Both, Text
  <2> QED
    BY <1>1, <2>1, <2>2, ShmSet DEF Memset
<1>2. ASSUME NEW p \in Procs, PrintX(p) \/ PrintY(p) PROVE ShmOK'
  <2>1. Area(p) \in Areas
    BY AreaType
  <2>2. mem[p][Area(p)] \in Text(Area(p)) /\ shm[Area(p)] \in Text(Area(p))
    BY <2>1, LabelType, HalfType DEF MemOK, ShmOK
  <2>3. /\ [shm[Area(p)] EXCEPT !.x = mem[p][Area(p)].x] \in Text(Area(p))
        /\ [shm[Area(p)] EXCEPT !.y = mem[p][Area(p)].y] \in Text(Area(p))
    BY <2>2 DEF Text
  <2>4. CASE PrintX(p)
    <3>1. shm' = [shm EXCEPT ![Area(p)] = [shm[Area(p)] EXCEPT !.x = mem[p][Area(p)].x]]
      BY <2>4 DEF PrintX
    <3> QED
      BY <2>1, <2>3, <3>1, ShmSet
  <2>5. CASE PrintY(p)
    <3>1. shm' = [shm EXCEPT ![Area(p)] = [shm[Area(p)] EXCEPT !.y = mem[p][Area(p)].y]]
      BY <2>5 DEF PrintY
    <3> QED
      BY <2>1, <2>3, <3>1, ShmSet
  <2> QED
    BY <1>2, <2>4, <2>5
<1>3. CASE UNCHANGED shm
  BY <1>3 DEF ShmOK
<1> QED
  BY <1>1, <1>2, <1>3
     DEF Next, Step, Server, Worker, SemInit, InitTo, ServerWait,
         ServerTake, ServerPost, WorkerWait, WorkerPost, ScanX, ScanY, Move, Press, Kill, Rerun, vars

\* The limit holds after any key.
LEMMA PressedType ==
  ASSUME NEW v \in Label("force"), NEW k \in Key
  PROVE  Pressed(v, k) \in Label("force")
BY MaxForceAssumption DEF Pressed, Label, Key

LEMMA MemNext == TypeOK /\ [Next]_vars => MemOK'
<1> SUFFICES ASSUME TypeOK, [Next]_vars PROVE MemOK'
  OBVIOUS
<1>a. ControlOK /\ ShmOK /\ MemOK
  BY DEF TypeOK, DataOK, ShmOK, MemOK
<1>1. ASSUME NEW p \in Procs, ScanX(p) \/ ScanY(p) PROVE MemOK'
  <2> DEFINE a == Area(p)
  <2>1. a \in Areas
    BY <1>a, AreaType
  <2>2. mem[p][a] \in Struct(p, a) /\ shm[a] \in Text(a)
    BY <1>a, <2>1 DEF MemOK, ShmOK
  <2>3. CASE UNCHANGED mem
    BY <1>a, <2>3 DEF MemOK
  <2>4. CASE shm[a].x # Blank /\ mem' = [mem EXCEPT ![p][a].x = shm[a].x]
    <3>1. shm[a].x \in Label(a)
      BY <2>2, <2>4 DEF Text
    <3>2. [mem[p][a] EXCEPT !.x = shm[a].x] \in Struct(p, a)
      BY <2>1, <2>2, <3>1, HalfType
    <3>3. mem' = [mem EXCEPT ![p][a] = [mem[p][a] EXCEPT !.x = shm[a].x]]
      BY <2>4
    <3> HIDE DEF a
    <3> QED
      BY <1>a, <2>1, <3>2, <3>3, MemSet
  <2>5. CASE shm[a].y # Blank /\ mem' = [mem EXCEPT ![p][a].y = shm[a].y]
    <3>1. shm[a].y \in Label(a)
      BY <2>2, <2>5 DEF Text
    <3>2. [mem[p][a] EXCEPT !.y = shm[a].y] \in Struct(p, a)
      BY <2>1, <2>2, <3>1, HalfType
    <3>3. mem' = [mem EXCEPT ![p][a] = [mem[p][a] EXCEPT !.y = shm[a].y]]
      BY <2>5
    <3> HIDE DEF a
    <3> QED
      BY <1>a, <2>1, <3>2, <3>3, MemSet
  <2> QED
    BY <1>1, <2>3, <2>4, <2>5 DEF ScanX, ScanY
<1>2. CASE Move
  <2> DEFINE v == NextCycle(mem["drone"]["position"].x)
  <2>1. mem["drone"]["position"].x \in 0..MaxCycle
    BY <1>a DEF MemOK, Struct, Zeroed, Label
  <2>2. v \in Label("position") /\ v \in Label("velocity")
    BY <2>1, MaxCycleAssumption DEF NextCycle, Label
  <2>3. mem' = [mem EXCEPT !["drone"]["position"] = Both(v),
                           !["drone"]["velocity"] = Both(v)]
    BY <1>2 DEF Move
  <2>4. /\ Both(v) \in Struct("drone", "position")
        /\ Both(v) \in Struct("drone", "velocity")
        /\ Both(v) \in [x : Half, y : Half]
    BY <2>2, LabelType DEF Struct, Both, Half
  <2> HIDE DEF v
  <2> QED
    BY <1>a, <2>3, <2>4 DEF MemOK
<1>3. CASE Press
  <2> DEFINE f == mem["input"]["force"]
  <2>1. f.x \in Label("force") /\ f.y \in Label("force")
    BY <1>a DEF MemOK, Struct, Zeroed
  <2>2. PICK k \in Keys[run] :
          mem' = [mem EXCEPT !["input"]["force"] =
                    [x |-> Pressed(f.x, k), y |-> Pressed(f.y, k)]]
    BY <1>3 DEF Press
  <2>3. k \in Key
    BY <1>a, KeysAssumption DEF ControlOK
  <2>4. Pressed(f.x, k) \in Label("force") /\ Pressed(f.y, k) \in Label("force")
    BY <2>1, <2>3, PressedType
  <2>5. [x |-> Pressed(f.x, k), y |-> Pressed(f.y, k)] \in Struct("input", "force")
    BY <2>4 DEF Struct
  <2> QED
    BY <1>a, <2>2, <2>5, MemSet
<1>4. ASSUME NEW p \in Procs, Kill(p) PROVE MemOK'
  BY <1>a, <1>4, StartMemType DEF Kill, MemOK
<1>5. CASE Rerun
  BY <1>5, StartMemType DEF Rerun, MemOK
<1>6. CASE UNCHANGED mem
  BY <1>a, <1>6 DEF MemOK
<1> QED
  BY <1>1, <1>2, <1>3, <1>4, <1>5, <1>6
     DEF Next, Step, Server, Worker, SemInit, InitTo, Memset,
         ServerWait, ServerTake,
         ServerPost, WorkerWait, WorkerPost, PrintX, PrintY, vars

(***************************************************************************)
(* Every variable keeps its type: in particular the force never exceeds    *)
(* max_force, in the area or in a struct, and the structs that the code    *)
(* initialises never become indeterminate.                                 *)
(***************************************************************************)
THEOREM TypeCorrect == Spec => []TypeOK
<1>1. Init => TypeOK
  BY ControlInit, DataInit DEF TypeOK, DataOK, SemOK, ShmOK, MemOK
<1>2. TypeOK /\ [Next]_vars => TypeOK'
  <2> SUFFICES ASSUME TypeOK, [Next]_vars PROVE TypeOK'
    OBVIOUS
  <2>1. SemOK /\ ShmOK /\ MemOK /\ ControlOK
    BY DEF TypeOK, DataOK, SemOK, ShmOK, MemOK
  <2>2. SemOK' /\ ShmOK' /\ MemOK' /\ ControlOK'
    BY <2>1, SemNext, ShmNext, MemNext, ControlNext
  <2> QED
    BY <2>2 DEF TypeOK, DataOK, SemOK, ShmOK, MemOK
<1> QED
  BY <1>1, <1>2, PTL DEF Spec

-----------------------------------------------------------------------------
(* Mutual exclusion *)

(***************************************************************************)
(* The inductive invariant.  That no two processes hold a semaphore says   *)
(* nothing of its value, so it is strengthened: the value is a bit, and 0  *)
(* while somebody holds it.  And Sem_init, which sets the value to 1       *)
(* whatever it was, keeps that only because nobody holds anything until    *)
(* the server has started.                                                 *)
(***************************************************************************)
Bits == \A a \in Areas : sem[a] \in {0, 1}
HeldIsTaken == \A p \in Procs : \A a \in Holds(p) : sem[a] = 0
StartingIsNotReady == at["server"] \in {"init", "wipe"} => ~ready
StartingHoldsNothing ==
  /\ StartingIsNotReady
  /\ ~ready => \A p \in Workers : Holds(p) = {}
LockInv == Bits /\ HeldIsTaken /\ MutualExclusion /\ StartingHoldsNothing

\* What a transition can do to the locks.
Keeps(p) == Holds(p)' = Holds(p)
TakesOne(p, a) == sem[a] > 0 /\ sem' = [sem EXCEPT ![a] = @ - 1]
                    /\ Holds(p)' = Holds(p) \cup {a}
GivesOne(p, a) == a \in Holds(p) /\ sem' = [sem EXCEPT ![a] = @ + 1]
                    /\ Holds(p)' = Holds(p) \ {a}

LEMMA HoldsType ==
  ASSUME ControlOK, NEW p \in Procs
  PROVE  Holds(p) \subseteq Areas
<1>1. Area(p) \in Areas
  BY AreaType
<1>2. step["server"] \in 1..3
  BY StepRange
<1> QED
  BY <1>1, <1>2 DEF Holds, ServerHolds, LockOrder

\* A transition of one process leaves what the others hold alone.
LEMMA OthersKeep ==
  ASSUME ControlOK, NEW p \in Procs, NEW label, NEW n, Goto(p, label, n),
         NEW q \in Procs, q # p
  PROVE  Keeps(q)
<1>1. at'[q] = at[q] /\ step'[q] = step[q]
  BY DEF Goto, ControlOK
<1> QED
  BY <1>1 DEF Keeps, Holds, ServerHolds, Area

\* Taking a free semaphore, or giving back a held one, preserves exclusion.
LEMMA TakeOne ==
  ASSUME SemOK, ControlOK, Bits, HeldIsTaken, MutualExclusion,
         NEW p \in Procs, NEW a \in Areas, TakesOne(p, a),
         \A q \in Procs \ {p} : Keeps(q)
  PROVE  (Bits /\ HeldIsTaken /\ MutualExclusion)'
<1>1. sem[a] = 1 /\ sem' = [sem EXCEPT ![a] = 0]
  <2>1. sem[a] \in {0, 1} /\ sem[a] > 0 /\ sem' = [sem EXCEPT ![a] = sem[a] - 1]
    BY DEF Bits, TakesOne
  <2>2. sem[a] = 1 /\ sem[a] - 1 = 0
    BY <2>1
  <2> QED
    BY <2>1, <2>2
<1>2. \A q \in Procs : Holds(q) \subseteq Areas /\ a \notin Holds(q)
  BY <1>1, HoldsType DEF HeldIsTaken
<1>3. Holds(p)' = Holds(p) \cup {a} /\ \A q \in Procs \ {p} : Holds(q)' = Holds(q)
  BY DEF TakesOne, Keeps
<1>4. Bits'
  <2> SUFFICES ASSUME NEW b \in Areas PROVE sem'[b] \in {0, 1}
    BY DEF Bits
  <2>1. sem'[b] = IF b = a THEN 0 ELSE sem[b]
    BY <1>1 DEF SemOK
  <2> QED
    BY <2>1 DEF Bits
<1>5. HeldIsTaken'
  <2> SUFFICES ASSUME NEW q \in Procs, NEW b \in Holds(q)' PROVE sem'[b] = 0
    BY DEF HeldIsTaken
  <2>1. b = a \/ b \in Holds(q)
    BY <1>3
  <2> QED
    BY <1>1, <1>2, <2>1 DEF HeldIsTaken, SemOK
<1>6. MutualExclusion'
  BY <1>2, <1>3 DEF MutualExclusion
<1> QED
  BY <1>4, <1>5, <1>6

LEMMA GiveOne ==
  ASSUME SemOK, ControlOK, Bits, HeldIsTaken, MutualExclusion,
         NEW p \in Procs, NEW a \in Areas, GivesOne(p, a),
         \A q \in Procs \ {p} : Keeps(q)
  PROVE  (Bits /\ HeldIsTaken /\ MutualExclusion)'
<1>1. a \in Holds(p) /\ sem[a] = 0 /\ sem' = [sem EXCEPT ![a] = 1]
  <2>1. a \in Holds(p) /\ sem[a] = 0 /\ sem' = [sem EXCEPT ![a] = sem[a] + 1]
    BY DEF HeldIsTaken, GivesOne
  <2>2. sem[a] + 1 = 1
    BY <2>1
  <2> QED
    BY <2>1, <2>2
<1>2. \A q \in Procs : Holds(q) \subseteq Areas /\ (q # p => a \notin Holds(q))
  BY <1>1, HoldsType DEF MutualExclusion
<1>3. Holds(p)' = Holds(p) \ {a} /\ \A q \in Procs \ {p} : Holds(q)' = Holds(q)
  BY DEF GivesOne, Keeps
<1>4. Bits'
  <2> SUFFICES ASSUME NEW b \in Areas PROVE sem'[b] \in {0, 1}
    BY DEF Bits
  <2>1. sem'[b] = IF b = a THEN 1 ELSE sem[b]
    BY <1>1 DEF SemOK
  <2> QED
    BY <2>1 DEF Bits
<1>5. HeldIsTaken'
  <2> SUFFICES ASSUME NEW q \in Procs, NEW b \in Holds(q)' PROVE sem'[b] = 0
    BY DEF HeldIsTaken
  <2>1. b # a /\ b \in Holds(q)
    BY <1>2, <1>3
  <2> QED
    BY <1>1, <1>2, <2>1 DEF HeldIsTaken, SemOK
<1>6. MutualExclusion'
  BY <1>2, <1>3 DEF MutualExclusion
<1> QED
  BY <1>4, <1>5, <1>6

\* Nobody takes anything, some may lose what they hold by dying.
LEMMA KeepOrDrop ==
  ASSUME Bits, HeldIsTaken, MutualExclusion, UNCHANGED sem,
         \A q \in Procs : Holds(q)' \subseteq Holds(q)
  PROVE  (Bits /\ HeldIsTaken /\ MutualExclusion)'
BY DEF Bits, HeldIsTaken, MutualExclusion

\* The transitions that take or give a semaphore do just that.
LEMMA ServerLocks ==
  ASSUME ControlOK, ServerWait \/ ServerPost
  PROVE  /\ LockOrder[step["server"]] \in Areas
         /\ ServerWait => TakesOne("server", LockOrder[step["server"]])
         /\ ServerPost => GivesOne("server", LockOrder[step["server"]])
         /\ \A q \in Workers : Keeps(q)
<1>1. step["server"] \in {1, 2, 3}
  BY StepRange
<1>2. LockOrder[step["server"]] \in Areas
  BY <1>1 DEF LockOrder
<1>3. PICK l, n : Goto("server", l, n)
  BY DEF ServerWait, ServerTake, ServerPost
<1>4. \A q \in Workers : Keeps(q)
  BY <1>3, OthersKeep
<1>5. ASSUME ServerWait PROVE TakesOne("server", LockOrder[step["server"]])
  <2>1. /\ at["server"] = "wait"
        /\ step["server"] < 3 => /\ at'["server"] = "wait"
                                 /\ step'["server"] = step["server"] + 1
        /\ step["server"] = 3 => at'["server"] = "x"
    BY <1>1, <1>5 DEF ServerWait, ServerTake, Goto, ControlOK
  <2>2. Holds("server")' = Holds("server") \cup {LockOrder[step["server"]]}
    BY <1>1, <2>1 DEF Holds, ServerHolds, LockOrder
  <2> QED
    BY <1>5, <2>2 DEF TakesOne, ServerWait, ServerTake
<1>6. ASSUME ServerPost PROVE GivesOne("server", LockOrder[step["server"]])
  <2>1. /\ at["server"] = "post"
        /\ step["server"] > 1 => /\ at'["server"] = "post"
                                 /\ step'["server"] = step["server"] - 1
        /\ step["server"] = 1 => at'["server"] = "wait" /\ step'["server"] = 1
    BY <1>1, <1>6 DEF ServerPost, Goto, ControlOK
  <2>2. /\ LockOrder[step["server"]] \in Holds("server")
        /\ Holds("server")' = Holds("server") \ {LockOrder[step["server"]]}
    BY <1>1, <2>1 DEF Holds, ServerHolds, LockOrder
  <2> QED
    BY <1>6, <2>2 DEF GivesOne, ServerPost
<1> QED
  BY <1>2, <1>4, <1>5, <1>6

LEMMA WorkerLocks ==
  ASSUME ControlOK, NEW p \in Workers, WorkerWait(p) \/ WorkerPost(p)
  PROVE  /\ WorkerWait(p) => TakesOne(p, Area(p))
         /\ WorkerPost(p) => GivesOne(p, Area(p))
         /\ \A q \in Procs \ {p} : Keeps(q)
<1>1. PICK l, n : Goto(p, l, n)
  BY DEF WorkerWait, WorkerPost, NextTask
<1>2. \A q \in Procs \ {p} : Keeps(q)
  BY <1>1, OthersKeep
<1>3. ASSUME WorkerWait(p) PROVE TakesOne(p, Area(p))
  <2>1. at[p] = "go" /\ at'[p] = "x" /\ step'[p] = step[p]
    BY <1>3 DEF WorkerWait, Goto, ControlOK
  <2>2. Area(p)' = Area(p)
    BY <2>1 DEF Area
  <2> QED
    BY <1>3, <2>1, <2>2 DEF TakesOne, Holds, WorkerWait
<1>4. ASSUME WorkerPost(p) PROVE GivesOne(p, Area(p))
  <2>1. at[p] = "post" /\ at'[p] = "go"
    BY <1>4 DEF WorkerPost, NextTask, Goto, ControlOK
  <2> QED
    BY <1>4, <2>1 DEF GivesOne, Holds, WorkerPost
<1> QED
  BY <1>2, <1>3, <1>4

\* An access goes on, or ends, with the semaphores still held.
LEMMA AccessKeeps ==
  ASSUME ControlOK, NEW p \in Procs, at[p] \in {"x", "y"},
         AfterAccess(p) \/ Goto(p, "y", step[p])
  PROVE  \A q \in Procs : Keeps(q)
<1>1. step["server"] \in {1, 2, 3}
  BY StepRange
<1>2. PICK l, n : Goto(p, l, n)
  BY DEF AfterAccess
<1>3. ASSUME NEW q \in Procs, q # p PROVE Keeps(q)
  BY <1>2, <1>3, OthersKeep
<1>4. Keeps(p)
  <2>1. CASE p = "server"
    <3>1. \/ at'["server"] \in {"x", "y"}
          \/ at'["server"] = "post" /\ step'["server"] = 3
      BY <1>1, <2>1 DEF AfterAccess, Goto, ControlOK
    <3> QED
      BY <2>1, <3>1 DEF Keeps, Holds, ServerHolds, LockOrder
  <2>2. CASE p # "server"
    <3>1. at'[p] \in {"x", "y", "post"} /\ step'[p] = step[p]
      BY <2>2 DEF AfterAccess, Goto, ControlOK
    <3> QED
      BY <2>2, <3>1 DEF Keeps, Holds, Area
  <2> QED
    BY <2>1, <2>2
<1> QED
  BY <1>3, <1>4

\* So does a local computation: it starts and ends outside any section.
LEMMA LocalKeeps ==
  ASSUME ControlOK, NEW p \in Workers, at[p] = "go", NextTask(p)
  PROVE  \A q \in Procs : Keeps(q)
<1>1. PICK l, n : Goto(p, l, n)
  BY DEF NextTask
<1>2. ASSUME NEW q \in Procs, q # p PROVE Keeps(q)
  BY <1>1, <1>2, OthersKeep
<1>3. at'[p] = "go"
  BY DEF NextTask, Goto, ControlOK
<1>4. Keeps(p)
  BY <1>3 DEF Keeps, Holds
<1> QED
  BY <1>2, <1>4

LEMMA MemsetKeeps ==
  ASSUME ControlOK, Memset
  PROVE  \A q \in Procs : Keeps(q)
<1>1. PICK l, n : Goto("server", l, n)
  BY DEF Memset
<1>2. ASSUME NEW q \in Workers PROVE Keeps(q)
  BY <1>1, <1>2, OthersKeep
<1>3. step["server"] \in {1, 2, 3}
  BY StepRange
<1>4. \/ at'["server"] = "wipe"
      \/ at'["server"] = "wait" /\ step'["server"] = 1
  BY <1>3 DEF Memset, Goto, ControlOK
<1>5. Keeps("server")
  BY <1>4 DEF Memset, Keeps, Holds, ServerHolds
<1> QED
  BY <1>2, <1>5

\* The steps that leave every semaphore, and everybody's hold of it, alone.
Quiet == \/ Memset \/ Move \/ Press \/ UNCHANGED vars
         \/ \E p \in Procs : ScanX(p) \/ ScanY(p) \/ PrintX(p) \/ PrintY(p)

LEMMA QuietKeeps ==
  ASSUME ControlOK, Quiet
  PROVE  UNCHANGED sem /\ \A q \in Procs : Keeps(q)
<1>1. CASE Memset
  BY <1>1, MemsetKeeps DEF Memset
<1>2. CASE Move
  BY <1>2, LocalKeeps DEF Move
<1>3. CASE Press
  BY <1>3, LocalKeeps DEF Press
<1>4. CASE UNCHANGED vars
  BY <1>4 DEF vars, Keeps, Holds, ServerHolds, Area
<1>5. ASSUME NEW p \in Procs, ScanX(p) \/ ScanY(p) \/ PrintX(p) \/ PrintY(p)
      PROVE  UNCHANGED sem /\ \A q \in Procs : Keeps(q)
  <2>1. at[p] \in {"x", "y"} /\ UNCHANGED sem
    BY <1>5 DEF ScanX, ScanY, PrintX, PrintY
  <2>2. AfterAccess(p) \/ Goto(p, "y", step[p])
    BY <1>5 DEF ScanX, ScanY, PrintX, PrintY
  <2> QED
    BY <2>1, <2>2, AccessKeeps
<1> QED
  BY <1>1, <1>2, <1>3, <1>4, <1>5 DEF Quiet

LEMMA KillDrops ==
  ASSUME ControlOK, NEW p \in Procs, Kill(p)
  PROVE  UNCHANGED sem /\ Holds(p)' = {} /\ \A q \in Procs \ {p} : Keeps(q)
<1>1. Goto(p, "dead", 1) /\ at'[p] = "dead"
  BY DEF Kill, Goto, ControlOK
<1>2. \A q \in Procs \ {p} : Keeps(q)
  BY <1>1, OthersKeep
<1>3. Holds(p)' = {}
  BY <1>1 DEF Holds, ServerHolds
<1> QED
  BY <1>2, <1>3 DEF Kill

LEMMA FreshHoldsNothing ==
  ASSUME at' = StartAt
  PROVE  \A p \in Procs : Holds(p)' = {}
BY DEF StartAt, Holds, ServerHolds

LEMMA SemInitHoldsNothing ==
  ASSUME ControlOK, StartingHoldsNothing, SemInit
  PROVE  \A p \in Procs : Holds(p)' = {}
<1>1. at["server"] = "init" /\ \E l \in {"init", "wipe"} : \E n : Goto("server", l, n)
  BY DEF SemInit, InitTo
<1>2. at'["server"] \in {"init", "wipe"}
  BY <1>1 DEF Goto, ControlOK
<1>3. Holds("server")' = {}
  BY <1>2 DEF Holds, ServerHolds
<1>4. \A p \in Workers : Holds(p) = {} /\ Keeps(p)
  BY <1>1, OthersKeep DEF StartingHoldsNothing, StartingIsNotReady
<1> QED
  BY <1>3, <1>4 DEF Keeps

\* The steps of Next, sorted by what they do to the locks.
LEMMA NextCases ==
  ASSUME [Next]_vars
  PROVE  \/ SemInit \/ ServerWait \/ ServerPost \/ Quiet \/ Rerun
         \/ \E p \in Workers : WorkerWait(p) \/ WorkerPost(p)
         \/ \E p \in Procs : Kill(p)
BY DEF Next, Step, Server, Worker, Quiet

LEMMA ExclusionNext ==
  ASSUME SemOK, ControlOK, LockInv, [Next]_vars
  PROVE  (Bits /\ HeldIsTaken /\ MutualExclusion)'
<1>1. Bits /\ HeldIsTaken /\ MutualExclusion /\ StartingHoldsNothing
  BY DEF LockInv
<1>2. CASE SemInit
  <2>1. \A p \in Procs : Holds(p)' = {}
    BY <1>1, <1>2, SemInitHoldsNothing
  <2>2. PICK a : sem' = [sem EXCEPT ![a] = 1]
    BY <1>2 DEF SemInit, InitTo
  <2>3. \A b \in Areas : sem'[b] \in {0, 1}
    BY <1>1, <2>2 DEF Bits, SemOK
  <2> QED
    BY <2>1, <2>3 DEF Bits, HeldIsTaken, MutualExclusion
<1>3. CASE ServerWait
  BY <1>1, <1>3, ServerLocks, TakeOne
<1>4. CASE ServerPost
  BY <1>1, <1>4, ServerLocks, GiveOne
<1>5. ASSUME NEW p \in Workers, WorkerWait(p)
      PROVE  (Bits /\ HeldIsTaken /\ MutualExclusion)'
  BY <1>1, <1>5, AreaType, WorkerLocks, TakeOne
<1>6. ASSUME NEW p \in Workers, WorkerPost(p)
      PROVE  (Bits /\ HeldIsTaken /\ MutualExclusion)'
  BY <1>1, <1>6, AreaType, WorkerLocks, GiveOne
<1>7. CASE Quiet
  BY <1>1, <1>7, QuietKeeps, KeepOrDrop DEF Keeps
<1>8. ASSUME NEW p \in Procs, Kill(p)
      PROVE  (Bits /\ HeldIsTaken /\ MutualExclusion)'
  <2>1. UNCHANGED sem /\ \A q \in Procs : Holds(q)' \subseteq Holds(q)
    BY <1>8, KillDrops DEF Keeps
  <2> QED
    BY <1>1, <2>1, KeepOrDrop
<1>9. CASE Rerun
  <2>1. UNCHANGED sem /\ \A q \in Procs : Holds(q)' \subseteq Holds(q)
    BY <1>9, FreshHoldsNothing DEF Rerun
  <2> QED
    BY <1>1, <2>1, KeepOrDrop
<1> QED
  BY <1>2, <1>3, <1>4, <1>5, <1>6, <1>7, <1>8, <1>9, NextCases

LEMMA NotReadyNext ==
  ASSUME ControlOK, StartingIsNotReady, [Next]_vars
  PROVE  StartingIsNotReady'
<1> SUFFICES at'["server"] \in {"init", "wipe"} => ~ready'
  BY DEF StartingIsNotReady
<1>1. CASE SemInit \/ (\E p \in Procs : Kill(p))
  BY <1>1 DEF SemInit, InitTo, Kill, Goto, ControlOK, StartingIsNotReady
<1>2. CASE Memset
  <2>1. step["server"] \in {1, 2, 3}
    BY StepRange
  <2>2. step["server"] = 3 => at'["server"] = "wait"
    BY <1>2, <2>1 DEF Memset, Goto, ControlOK
  <2>3. step["server"] # 3 => ready' = FALSE
    BY <1>2 DEF Memset
  <2> QED
    BY <2>2, <2>3
<1>3. CASE Rerun
  BY <1>3 DEF Rerun
<1>4. CASE ServerWait \/ ServerPost \/ ScanX("server") \/ ScanY("server")
  BY <1>4
     DEF ServerWait, ServerTake, ServerPost, ScanX, ScanY, AfterAccess,
         Goto, ControlOK
<1>5. CASE UNCHANGED <<at, ready>>
  BY <1>5 DEF StartingIsNotReady
<1>6. ASSUME NEW p \in Workers, Step(p)
      PROVE  at'["server"] = at["server"] /\ ready' = ready
  BY <1>6 DEF Step, Server, Worker, WorkerWait, WorkerPost, ScanX, ScanY,
       PrintX, PrintY, Move, Press, AfterAccess, NextTask, Goto, ControlOK
<1> QED
  BY <1>1, <1>2, <1>3, <1>4, <1>5, <1>6
     DEF Next, Step, Server, vars, StartingIsNotReady

\* The one place where the order of start-up matters.
LEMMA StartingNext ==
  ASSUME ServerFirst, ControlOK, StartingHoldsNothing, [Next]_vars
  PROVE  StartingHoldsNothing'
<1>1. StartingIsNotReady'
  BY NotReadyNext DEF StartingHoldsNothing
<1>2. ASSUME ~ready', NEW p \in Workers PROVE Holds(p)' = {}
  <2>1. CASE Rerun
    BY <2>1, FreshHoldsNothing DEF Rerun
  <2>2. CASE ~Rerun
    <3>1. ~ready
      BY <1>2, <2>2
         DEF Next, Step, Server, Worker, SemInit, InitTo, Memset, ServerWait,
             ServerTake, ServerPost, WorkerWait, WorkerPost, ScanX, ScanY, PrintX, PrintY,
             Move, Press, Kill, vars, StartingHoldsNothing, StartingIsNotReady
    <3>2. Holds(p) = {}
      BY <3>1 DEF StartingHoldsNothing
    <3>3. ASSUME NEW q \in Workers, WorkerWait(q) \/ WorkerPost(q) PROVE FALSE
      <4>1. ~WorkerWait(q)
        BY <3>1 DEF WorkerWait, MayRun
      <4>2. Holds(q) = {}
        BY <3>1 DEF StartingHoldsNothing
      <4> QED
        BY <3>3, <4>1, <4>2 DEF WorkerPost, Holds
    <3>4. Keeps(p) \/ Holds(p)' = {}
      BY <2>2, <3>3, NextCases, QuietKeeps, KillDrops, ServerLocks,
         SemInitHoldsNothing
    <3> QED
      BY <3>2, <3>4 DEF Keeps
  <2> QED
    BY <2>1, <2>2
<1> QED
  BY <1>1, <1>2 DEF StartingHoldsNothing

LEMMA LockInit == Init => LockInv
<1> SUFFICES ASSUME Init PROVE LockInv
  OBVIOUS
<1>1. \A p \in Procs : Holds(p) = {}
  BY DEF Init, StartAt, Holds, ServerHolds
<1>2. ~ready /\ Bits
  BY DEF Init, Bits
<1> QED
  BY <1>1, <1>2 DEF LockInv, HeldIsTaken, MutualExclusion, StartingHoldsNothing, StartingIsNotReady

(***************************************************************************)
(* If the server finishes its start-up before the others enter their       *)
(* loops, then no two processes ever use an area at once, in any run, for  *)
(* any number of runs and wherever the processes of the earlier ones were  *)
(* killed.                                                                 *)
(***************************************************************************)
THEOREM Exclusion ==
  ASSUME ServerFirst PROVE Spec => []MutualExclusion
<1>1. Init => LockInv
  BY LockInit
<1>2. TypeOK /\ LockInv /\ [Next]_vars => LockInv'
  BY ExclusionNext, StartingNext DEF LockInv, TypeOK, DataOK, SemOK
<1>3. LockInv => MutualExclusion
  BY DEF LockInv
<1> QED
  BY <1>1, <1>2, <1>3, TypeCorrect, PTL DEF Spec
-----------------------------------------------------------------------------
(* No torn scan *)

\* p is between the two numbers of its sprintf into a.
MidPrint(p, a) == at[p] = "y" /\ ~Scanning(p) /\ Area(p) = a

(***************************************************************************)
(* The inductive invariant, on top of LockInv.  A struct is torn only in   *)
(* the middle of a scan, and then it has the first half of a text that is  *)
(* itself whole.  A text is torn only while somebody is printing it, or    *)
(* after he was killed there: then the semaphore is gone with him, until   *)
(* the server of the next run makes it anew, and clears the text before    *)
(* anybody looks.                                                          *)
(***************************************************************************)
StructsWhole == \A p \in Procs : \A a \in Areas :
  ~MidScan(p, a) => mem[p][a].x = mem[p][a].y

HalfScanned == \A p \in Procs : \A a \in Areas :
  MidScan(p, a) => /\ mem[p][a].x = shm[a].x
                   /\ shm[a].x = shm[a].y /\ shm[a].x # Blank

HalfPrinted == \A p \in Procs : \A a \in Areas :
  MidPrint(p, a) => shm[a].x = mem[p][a].x

TextWhole(a) ==
  shm[a].x # shm[a].y =>
    sem[a] = 0 /\ \A p \in Procs : a \in Holds(p) => MidPrint(p, a)

TextsWhole == ready => \A a \in Areas : TextWhole(a)

Wiped ==
  /\ at["server"] \in {"wait", "x", "y", "post"} => ready
  /\ at["server"] = "wipe" => \A j \in 1..3 :
       j < step["server"] => shm[WipeOrder[j]].x = shm[WipeOrder[j]].y

Whole == StructsWhole /\ HalfScanned /\ HalfPrinted /\ TextsWhole /\ Wiped

\* A transition of one process leaves the others where they are.
LEMMA OthersStay ==
  ASSUME ControlOK, NEW p \in Procs, NEW label, NEW n, Goto(p, label, n),
         NEW q \in Procs, q # p
  PROVE  /\ at'[q] = at[q] /\ step'[q] = step[q]
         /\ \A a : MidScan(q, a)' = MidScan(q, a) /\ MidPrint(q, a)' = MidPrint(q, a)
<1>1. at'[q] = at[q] /\ step'[q] = step[q]
  BY DEF Goto, ControlOK
<1> QED
  BY <1>1 DEF MidScan, MidPrint, Scanning, Op, Area

\* Whoever accesses an area holds its semaphore, and everybody else does not;
\* the server has started by then.
LEMMA AccessHolds ==
  ASSUME ControlOK, LockInv, Wiped, NEW p \in Procs, at[p] \in {"x", "y"}
  PROVE  /\ Area(p) \in Areas /\ Area(p) \in Holds(p) /\ sem[Area(p)] = 0 /\ ready
         /\ \A q \in Procs : q # p => /\ Area(p) \notin Holds(q)
                                      /\ ~MidScan(q, Area(p)) /\ ~MidPrint(q, Area(p))
<1>1. Area(p) \in Areas
  BY AreaType
<1>2. \A q \in Procs : at[q] \in {"x", "y"} => Area(q) \in Holds(q)
  BY AreaType DEF Holds, ServerHolds
<1>3. Area(p) \in Holds(p) /\ sem[Area(p)] = 0
  BY <1>2 DEF LockInv, HeldIsTaken
<1>4. ready
  BY <1>3 DEF LockInv, StartingHoldsNothing, StartingIsNotReady, Wiped
<1>5. ASSUME NEW q \in Procs, q # p
      PROVE  Area(p) \notin Holds(q)
  BY <1>3, <1>5 DEF LockInv, MutualExclusion
<1>6. ASSUME NEW q \in Procs, q # p
      PROVE  ~MidScan(q, Area(p)) /\ ~MidPrint(q, Area(p))
  BY <1>2, <1>5, <1>6 DEF MidScan, MidPrint
<1> QED
  BY <1>1, <1>3, <1>4, <1>5, <1>6

\* A step outside the accesses: it leaves the texts alone, and the structs of p
\* are whole after it.
LEMMA CalmStep ==
  ASSUME ControlOK, Whole, UNCHANGED <<shm, ready>>,
         NEW p \in Procs, NEW label, NEW n, Goto(p, label, n),
         label \notin {"y", "wipe"}, p = "server" /\ label # "dead" => ready,
         \A q \in Procs : q # p => mem'[q] = mem[q] /\ Holds(q)' = Holds(q),
         \A a \in Areas : mem'[p][a].x = mem'[p][a].y,
         \A a \in Areas : shm[a].x # shm[a].y /\ ready =>
           sem'[a] = 0 /\ a \notin Holds(p)'
  PROVE  Whole'
<1>1. \A q \in Procs : q # p =>
        /\ at'[q] = at[q] /\ step'[q] = step[q]
        /\ \A a : MidScan(q, a)' = MidScan(q, a) /\ MidPrint(q, a)' = MidPrint(q, a)
  BY OthersStay
<1>2. at'[p] = label
  BY DEF Goto, ControlOK
<1>3. \A a : ~MidScan(p, a)' /\ ~MidPrint(p, a)'
  BY <1>2 DEF MidScan, MidPrint
<1>4. StructsWhole'
  BY <1>1, <1>3 DEF Whole, StructsWhole
<1>5. HalfScanned'
  BY <1>1, <1>3 DEF Whole, HalfScanned
<1>6. HalfPrinted'
  BY <1>1, <1>3 DEF Whole, HalfPrinted
<1>7. TextsWhole'
  <2> SUFFICES ASSUME ready, NEW a \in Areas, shm[a].x # shm[a].y
               PROVE  /\ sem'[a] = 0
                      /\ \A q \in Procs : a \in Holds(q)' => MidPrint(q, a)'
    BY DEF TextsWhole, TextWhole
  <2>1. sem'[a] = 0 /\ a \notin Holds(p)'
    OBVIOUS
  <2>2. \A q \in Procs : a \in Holds(q) => MidPrint(q, a)
    BY DEF Whole, TextsWhole, TextWhole
  <2> QED
    BY <1>1, <2>1, <2>2
<1>8. Wiped'
  <2>1. CASE p = "server"
    BY <1>2, <2>1 DEF Wiped
  <2>2. CASE p # "server"
    BY <1>1, <2>2 DEF Whole, Wiped
  <2> QED
    BY <2>1, <2>2
<1> QED
  BY <1>4, <1>5, <1>6, <1>7, <1>8 DEF Whole

\* Nobody takes or gives the semaphore of a torn text.
LEMMA TornIsLocked ==
  ASSUME SemOK, TextsWhole, ready, NEW p \in Procs, at[p] # "y", NEW b \in Areas,
         TakesOne(p, b) \/ GivesOne(p, b) \/ (UNCHANGED sem /\ Holds(p)' \subseteq Holds(p)),
         NEW a \in Areas, shm[a].x # shm[a].y
  PROVE  sem'[a] = 0 /\ a \notin Holds(p)'
<1>1. sem[a] = 0 /\ a \notin Holds(p)
  BY DEF TextsWhole, TextWhole, MidPrint
<1>2. CASE TakesOne(p, b)
  <2>1. sem[b] > 0 /\ sem' = [sem EXCEPT ![b] = sem[b] - 1] /\ Holds(p)' = Holds(p) \cup {b}
    BY <1>2 DEF TakesOne
  <2>2. a # b
    BY <1>1, <2>1
  <2> QED
    BY <1>1, <2>1, <2>2 DEF SemOK
<1>3. CASE GivesOne(p, b)
  <2>1. /\ b \in Holds(p) /\ sem' = [sem EXCEPT ![b] = sem[b] + 1]
        /\ Holds(p)' = Holds(p) \ {b}
    BY <1>3 DEF GivesOne
  <2> QED
    BY <1>1, <2>1 DEF SemOK
<1>4. CASE UNCHANGED sem /\ Holds(p)' \subseteq Holds(p)
  BY <1>1, <1>4
<1> QED
  BY <1>2, <1>3, <1>4

LEMMA LockingIsWhole ==
  ASSUME SemOK, ControlOK, Whole,
         \/ ServerWait \/ ServerPost
         \/ \E p \in Workers : WorkerWait(p) \/ WorkerPost(p)
  PROVE  Whole'
<1>1. ASSUME NEW p \in Procs, NEW label, NEW n, Goto(p, label, n),
             label \notin {"y", "wipe"}, p = "server" => ready, at[p] # "y",
             UNCHANGED <<shm, mem, ready>>, NEW b \in Areas,
             TakesOne(p, b) \/ GivesOne(p, b)
      PROVE  Whole'
  <2>1. \A q \in Procs : q # p => mem'[q] = mem[q] /\ Holds(q)' = Holds(q)
    BY <1>1, OthersKeep DEF Keeps
  <2>2. \A a \in Areas : mem'[p][a].x = mem'[p][a].y
    BY <1>1 DEF Whole, StructsWhole, MidScan
  <2>3. \A a \in Areas : shm[a].x # shm[a].y /\ ready => sem'[a] = 0 /\ a \notin Holds(p)'
    BY <1>1, TornIsLocked DEF Whole
  <2> QED
    BY <1>1, <2>1, <2>2, <2>3, CalmStep
<1>2. CASE ServerWait \/ ServerPost
  <2>1. PICK label, n : Goto("server", label, n) /\ label \in {"wait", "x", "post"}
    BY <1>2 DEF ServerWait, ServerTake, ServerPost
  <2>2. ready /\ at["server"] # "y" /\ UNCHANGED <<shm, mem, ready>>
    BY <1>2 DEF ServerWait, ServerTake, ServerPost, Whole, Wiped
  <2>3. \E b \in Areas : TakesOne("server", b) \/ GivesOne("server", b)
    BY <1>2, ServerLocks
  <2> QED
    BY <1>1, <2>1, <2>2, <2>3
<1>3. ASSUME NEW p \in Workers, WorkerWait(p) \/ WorkerPost(p) PROVE Whole'
  <2>1. PICK label, n : Goto(p, label, n) /\ label \in {"x", "go"}
    BY <1>3 DEF WorkerWait, WorkerPost, NextTask
  <2>2. at[p] # "y" /\ UNCHANGED <<shm, mem, ready>>
    BY <1>3 DEF WorkerWait, WorkerPost
  <2>3. \E b \in Areas : TakesOne(p, b) \/ GivesOne(p, b)
    BY <1>3, AreaType, WorkerLocks
  <2> QED
    BY <1>1, <2>1, <2>2, <2>3
<1> QED
  BY <1>2, <1>3

LEMMA LocalIsWhole ==
  ASSUME SemOK, ControlOK, MemOK, Whole, Move \/ Press \/ \E p \in Procs : Kill(p)
  PROVE  Whole'
<1>1. ASSUME NEW p \in Procs, NEW label, NEW n, Goto(p, label, n),
             label \in {"go", "dead"}, p = "server" => label = "dead",
             UNCHANGED <<shm, sem, ready>>, at[p] # "y" \/ label = "dead",
             \A q \in Procs : q # p => mem'[q] = mem[q],
             \A a \in Areas : mem'[p][a].x = mem'[p][a].y
      PROVE  Whole'
  <2>1. \A q \in Procs : q # p => Holds(q)' = Holds(q)
    BY <1>1, OthersKeep DEF Keeps
  <2>2. Holds(p)' = {}
    <3>1. at'[p] \in {"go", "dead"} /\ (p = "server" => at'[p] = "dead")
      BY <1>1 DEF Goto, ControlOK
    <3> QED
      BY <3>1 DEF Holds, ServerHolds
  <2>3. \A a \in Areas : shm[a].x # shm[a].y /\ ready => sem'[a] = 0
    BY <1>1 DEF Whole, TextsWhole, TextWhole
  <2> QED
    BY <1>1, <2>1, <2>2, <2>3, CalmStep
<1>2. CASE Move
  <2>1. PICK label, n : Goto("drone", label, n) /\ label = "go"
    BY <1>2 DEF Move, NextTask
  <2>2. /\ UNCHANGED <<shm, sem, ready>> /\ at["drone"] = "go"
        /\ \E v : mem' = [mem EXCEPT !["drone"]["position"] = Both(v),
                                     !["drone"]["velocity"] = Both(v)]
    BY <1>2 DEF Move
  <2>3. \A a \in Areas : mem["drone"][a].x = mem["drone"][a].y
    BY <2>2 DEF Whole, StructsWhole, MidScan
  <2>4. /\ \A q \in Procs : q # "drone" => mem'[q] = mem[q]
        /\ \A a \in Areas : mem'["drone"][a].x = mem'["drone"][a].y
    BY <2>2, <2>3 DEF MemOK, Both
  <2> QED
    BY <1>1, <2>1, <2>2, <2>4
<1>3. CASE Press
  <2>1. PICK label, n : Goto("input", label, n) /\ label = "go"
    BY <1>3 DEF Press, NextTask
  <2>2. PICK k : /\ UNCHANGED <<shm, sem, ready>> /\ at["input"] = "go"
                 /\ mem' = [mem EXCEPT !["input"]["force"] =
                              [x |-> Pressed(mem["input"]["force"].x, k),
                               y |-> Pressed(mem["input"]["force"].y, k)]]
    BY <1>3 DEF Press
  <2>3. \A a \in Areas : mem["input"][a].x = mem["input"][a].y
    BY <2>2 DEF Whole, StructsWhole, MidScan
  <2>4. /\ \A q \in Procs : q # "input" => mem'[q] = mem[q]
        /\ \A a \in Areas : mem'["input"][a].x = mem'["input"][a].y
    BY <2>2, <2>3 DEF MemOK
  <2> QED
    BY <1>1, <2>1, <2>2, <2>4
<1>4. ASSUME NEW p \in Procs, Kill(p) PROVE Whole'
  <2>1. Goto(p, "dead", 1) /\ UNCHANGED <<shm, sem, ready>>
    BY <1>4 DEF Kill
  <2>2. /\ \A q \in Procs : q # p => mem'[q] = mem[q]
        /\ \A a \in Areas : mem'[p][a].x = mem'[p][a].y
    BY <1>4 DEF Kill, MemOK, StartMem, Both
  <2> QED
    BY <1>1, <2>1, <2>2
<1> QED
  BY <1>2, <1>3, <1>4

\* The start of a run: nobody has looked at the texts yet.
LEMMA StartIsWhole ==
  ASSUME ControlOK, ShmOK, Bits, Whole, StartingHoldsNothing, SemInit \/ Memset \/ Rerun
  PROVE  Whole'
<1>1. ASSUME \A p \in Procs : at'[p] # "y", UNCHANGED mem \/ mem' = StartMem,
             \A p \in Procs : at[p] # "y" \/ mem' = StartMem
      PROVE  (StructsWhole /\ HalfScanned /\ HalfPrinted)'
  <2>1. \A p \in Procs : \A a \in Areas : mem'[p][a].x = mem'[p][a].y
    BY <1>1 DEF Whole, StructsWhole, MidScan, StartMem, Both
  <2> QED
    BY <1>1, <2>1 DEF StructsWhole, HalfScanned, HalfPrinted, MidScan, MidPrint
<1>2. CASE SemInit \/ Memset
  <2>1. PICK label, n : Goto("server", label, n) /\ label \in {"init", "wipe", "wait"}
    BY <1>2 DEF SemInit, InitTo, Memset
  <2>2. at["server"] \in {"init", "wipe"} /\ ~ready /\ UNCHANGED mem
    BY <1>2 DEF SemInit, InitTo, Memset, StartingHoldsNothing, StartingIsNotReady
  <2>3. \A p \in Workers : at[p] # "y"
    BY <2>2 DEF StartingHoldsNothing, Holds
  <2>4. \A p \in Procs : at'[p] # "y" /\ at[p] # "y"
    BY <2>1, <2>2, <2>3 DEF Goto, ControlOK
  <2>5. TextsWhole' /\ Wiped'
    <3>1. CASE SemInit
      <4>1. ~ready' /\ at'["server"] \in {"init", "wipe"}
              /\ (at'["server"] = "wipe" => step'["server"] = 1)
        BY <2>2, <3>1, StepRange DEF SemInit, InitTo, Goto, ControlOK
      <4> QED
        BY <4>1 DEF TextsWhole, Wiped
    <3>2. CASE Memset
      <4> DEFINE s == step["server"]
      <4>1. s \in {1, 2, 3} /\ at["server"] = "wipe"
        BY <3>2, StepRange DEF Memset
      <4>a. ready' <=> s = 3
        <5>1. ready' = (s = 3)
          BY <3>2 DEF Memset
        <5> HIDE DEF s
        <5> QED
          BY <5>1, Zenon
      <4>b. /\ shm' = [shm EXCEPT ![WipeOrder[s]] = Both(Blank)]
            /\ s < 3 => at'["server"] = "wipe" /\ step'["server"] = s + 1
            /\ s = 3 => at'["server"] = "wait"
        BY <3>2, <4>1 DEF Memset, Goto, ControlOK
      <4>2. /\ shm' = [shm EXCEPT ![WipeOrder[s]] = Both(Blank)] /\ (ready' <=> s = 3)
            /\ s < 3 => at'["server"] = "wipe" /\ step'["server"] = s + 1
            /\ s = 3 => at'["server"] = "wait"
        BY <4>a, <4>b, Zenon
      <4>3. \A j \in {1, 2, 3} : j < s \/ j = s => shm'[WipeOrder[j]].x = shm'[WipeOrder[j]].y
        BY <4>1, <4>2 DEF Whole, Wiped, WipeOrder, ShmOK, Both
      <4>4. s = 3 => \A a \in Areas : shm'[a].x = shm'[a].y
        BY <4>3 DEF WipeOrder
      <4> HIDE DEF s
      <4>5. TextsWhole'
        BY <4>2, <4>4 DEF TextsWhole, TextWhole
      <4>6. ASSUME NEW j \in 1..3, at'["server"] = "wipe", j < step'["server"]
            PROVE  shm'[WipeOrder[j]].x = shm'[WipeOrder[j]].y
        <5>1. s < 3 /\ step'["server"] = s + 1
          BY <4>1, <4>2, <4>6
        <5>2. j \in {1, 2, 3} /\ (j < s \/ j = s)
          BY <4>1, <4>6, <5>1
        <5> QED
          BY <4>3, <5>2
      <4>7. at'["server"] \in {"wait", "x", "y", "post"} => ready'
        BY <4>1, <4>2
      <4>8. at'["server"] = "wipe" => \A j \in 1..3 :
               j < step'["server"] => shm'[WipeOrder[j]].x = shm'[WipeOrder[j]].y
        BY <4>6
      <4>9. Wiped'
        BY <4>7, <4>8, Zenon DEF Wiped
      <4> QED
        BY <4>5, <4>9
    <3> QED
      BY <1>2, <3>1, <3>2
  <2> QED
    BY <1>1, <2>2, <2>4, <2>5 DEF Whole
<1>3. CASE Rerun
  <2>1. at' = StartAt /\ mem' = StartMem /\ ~ready'
    BY <1>3 DEF Rerun
  <2>2. \A p \in Procs : at'[p] \in {"init", "go"}
    BY <2>1 DEF StartAt
  <2>3. TextsWhole' /\ Wiped'
    BY <2>1, <2>2 DEF TextsWhole, Wiped
  <2> QED
    BY <1>1, <2>1, <2>2, <2>3 DEF Whole
<1> QED
  BY <1>2, <1>3

\* What a scan or a print does to the texts, seen by the others.
LEMMA AccessFrame ==
  ASSUME ControlOK, LockInv, Whole, NEW p \in Procs, at[p] \in {"x", "y"}, NEW b, b = Area(p),
         UNCHANGED <<sem, ready>>, AfterAccess(p) \/ Goto(p, "y", step[p]),
         \A q \in Procs : q # p => mem'[q] = mem[q],
         \A a \in Areas : a # b =>
           shm'[a] = shm[a] /\ mem'[p][a] = mem[p][a] /\ ~MidScan(p, a)' /\ ~MidPrint(p, a)',
         ~MidScan(p, b)' => mem'[p][b].x = mem'[p][b].y,
         MidScan(p, b)' => /\ mem'[p][b].x = shm'[b].x
                                 /\ shm'[b].x = shm'[b].y
                                 /\ shm'[b].x # Blank,
         MidPrint(p, b)' => shm'[b].x = mem'[p][b].x,
         shm'[b].x # shm'[b].y => MidPrint(p, b)'
  PROVE  Whole'
<1>1. /\ b \in Areas /\ b \in Holds(p) /\ sem[b] = 0 /\ ready
      /\ \A q \in Procs : q # p => b \notin Holds(q) /\ ~MidScan(q, b) /\ ~MidPrint(q, b)
  BY AccessHolds DEF Whole
<1>2. \A q \in Procs : Holds(q)' = Holds(q)
  BY AccessKeeps DEF Keeps
<1>3. PICK label, n : Goto(p, label, n) /\ label \in {"x", "y", "post"}
  BY DEF AfterAccess
<1>4. \A q \in Procs : q # p =>
        /\ at'[q] = at[q] /\ step'[q] = step[q]
        /\ \A a : MidScan(q, a)' = MidScan(q, a) /\ MidPrint(q, a)' = MidPrint(q, a)
  BY <1>3, OthersStay
<1>5. \A a \in Areas : a # b => ~MidScan(p, a) /\ ~MidPrint(p, a)
  BY DEF MidScan, MidPrint
<1>6. ASSUME NEW q \in Procs, NEW a \in Areas
      PROVE  /\ ~MidScan(q, a)' => mem'[q][a].x = mem'[q][a].y
             /\ MidScan(q, a)' => /\ mem'[q][a].x = shm'[a].x
                                  /\ shm'[a].x = shm'[a].y /\ shm'[a].x # Blank
             /\ MidPrint(q, a)' => shm'[a].x = mem'[q][a].x
  <2>1. /\ ~MidScan(q, a) => mem[q][a].x = mem[q][a].y
        /\ MidScan(q, a) => /\ mem[q][a].x = shm[a].x
                            /\ shm[a].x = shm[a].y /\ shm[a].x # Blank
        /\ MidPrint(q, a) => shm[a].x = mem[q][a].x
    BY DEF Whole, StructsWhole, HalfScanned, HalfPrinted
  <2>2. CASE q # p /\ a # b
    BY <1>4, <2>1, <2>2
  <2>3. CASE q # p /\ a = b
    BY <1>1, <1>4, <2>1, <2>3
  <2>4. CASE q = p /\ a # b
    BY <1>5, <2>1, <2>4
  <2>5. CASE q = p /\ a = b
    BY <2>5
  <2> QED
    BY <2>2, <2>3, <2>4, <2>5
<1>7. ASSUME NEW a \in Areas, shm'[a].x # shm'[a].y
      PROVE  sem'[a] = 0 /\ \A q \in Procs : a \in Holds(q)' => MidPrint(q, a)'
  <2>1. CASE a = b
    BY <1>1, <1>2, <1>7, <2>1
  <2>2. CASE a # b
    <3>1. shm[a].x # shm[a].y
      BY <1>7, <2>2
    <3>2. sem[a] = 0 /\ \A q \in Procs : a \in Holds(q) => MidPrint(q, a)
      BY <1>1, <3>1 DEF Whole, TextsWhole, TextWhole
    <3> QED
      BY <1>2, <1>4, <1>5, <2>2, <3>2
  <2> QED
    BY <2>1, <2>2
<1>8. Wiped'
  <2>1. CASE p = "server"
    <3>1. ready' /\ at'["server"] # "wipe"
      BY <1>1, <1>3, <2>1 DEF Goto, ControlOK
    <3> QED
      BY <3>1 DEF Wiped
  <2>2. CASE p # "server"
    <3>1. at'["server"] = at["server"] /\ ready'
      BY <1>1, <1>4, <2>2
    <3>2. at["server"] # "wipe"
      BY <1>1 DEF LockInv, StartingHoldsNothing, StartingIsNotReady
    <3> QED
      BY <3>1, <3>2 DEF Wiped
  <2> QED
    BY <2>1, <2>2
<1>9. StructsWhole' /\ HalfScanned' /\ HalfPrinted'
  BY <1>6 DEF StructsWhole, HalfScanned, HalfPrinted
<1>10. TextsWhole'
  BY <1>7 DEF TextsWhole, TextWhole
<1> QED
  BY <1>8, <1>9, <1>10 DEF Whole

\* Where a process is after a scan or a print.
LEMMA AfterIsElsewhere ==
  ASSUME ControlOK, NEW p \in Procs
  PROVE  /\ AfterAccess(p) => at'[p] # "y"
         /\ Goto(p, "y", step[p]) => /\ at'[p] = "y" /\ Area(p)' = Area(p)
                                     /\ Scanning(p)' = Scanning(p)
<1>1. AfterAccess(p) => at'[p] # "y"
  BY DEF AfterAccess, Goto, ControlOK
<1>2. ASSUME Goto(p, "y", step[p])
      PROVE  at'[p] = "y" /\ step' = step
  BY <1>2 DEF Goto, ControlOK
<1> QED
  BY <1>1, <1>2 DEF Area, Scanning, Op

LEMMA AccessIsWhole ==
  ASSUME ControlOK, ShmOK, MemOK, LockInv, Whole, NEW p \in Procs,
         ScanX(p) \/ ScanY(p) \/ PrintX(p) \/ PrintY(p)
  PROVE  Whole'
<1>b. PICK b : b = Area(p)
  OBVIOUS
<1>1. at[p] \in {"x", "y"} /\ UNCHANGED <<sem, ready>>
        /\ (AfterAccess(p) \/ Goto(p, "y", step[p]))
  BY DEF ScanX, ScanY, PrintX, PrintY
<1>2. /\ b \in Areas /\ b \in Holds(p) /\ ready
  BY <1>1, <1>b, AccessHolds DEF Whole
<1>3. /\ AfterAccess(p) => \A a : ~MidScan(p, a)' /\ ~MidPrint(p, a)'
      /\ Goto(p, "y", step[p]) =>
           \A a : /\ MidScan(p, a)' <=> Scanning(p) /\ a = b
                  /\ MidPrint(p, a)' <=> ~Scanning(p) /\ a = b
  BY <1>b, AfterIsElsewhere DEF MidScan, MidPrint
<1>4. shm[b].x # shm[b].y => MidPrint(p, b)
  BY <1>2 DEF Whole, TextsWhole, TextWhole
<1>5. /\ mem \in [Procs -> [Areas -> [x : Half, y : Half]]]
      /\ shm \in [Areas -> [x : Half, y : Half]]
  BY DEF MemOK, ShmOK
<1>6. CASE ScanX(p)
  <2>1. at[p] = "x" /\ Scanning(p) /\ UNCHANGED shm
    BY <1>6, <1>b DEF ScanX
  <2>2. shm[b].x = shm[b].y /\ mem[p][b].x = mem[p][b].y
    BY <1>b, <1>2, <1>4, <2>1 DEF MidPrint, MidScan, Whole, StructsWhole
  <2>3. \/ AfterAccess(p) /\ UNCHANGED mem
        \/ /\ Goto(p, "y", step[p]) /\ shm[b].x # Blank
           /\ mem' = [mem EXCEPT ![p][b].x = shm[b].x]
    BY <1>6, <1>b DEF ScanX
  <2>4. /\ \A q \in Procs : q # p => mem'[q] = mem[q]
        /\ \A a \in Areas : a # b => mem'[p][a] = mem[p][a]
    BY <1>2, <1>5, <2>3
  <2>5. CASE AfterAccess(p) /\ UNCHANGED mem
    BY <1>1, <1>2, <1>3, <2>1, <2>2, <2>5, <1>b, AccessFrame
  <2>6. CASE Goto(p, "y", step[p]) /\ shm[b].x # Blank
             /\ mem' = [mem EXCEPT ![p][b].x = shm[b].x]
    <3>1. mem'[p][b].x = shm[b].x
      BY <1>2, <1>5, <2>6
    <3> QED
      BY <1>1, <1>2, <1>3, <2>1, <2>2, <2>4, <2>6, <3>1, <1>b, AccessFrame
  <2> QED
    BY <2>3, <2>5, <2>6
<1>7. CASE ScanY(p)
  <2>1. at[p] = "y" /\ Scanning(p) /\ UNCHANGED shm /\ AfterAccess(p)
    BY <1>7, <1>b DEF ScanY
  <2>2. shm[b].x = shm[b].y /\ mem[p][b].x = shm[b].x /\ shm[b].x # Blank
    BY <1>b, <1>2, <2>1 DEF MidScan, Whole, HalfScanned
  <2>3. mem' = [mem EXCEPT ![p][b].y = shm[b].y]
    BY <1>7, <2>2, <1>b DEF ScanY
  <2>4. /\ \A q \in Procs : q # p => mem'[q] = mem[q]
        /\ \A a \in Areas : a # b => mem'[p][a] = mem[p][a]
        /\ mem'[p][b].x = mem'[p][b].y
    BY <1>2, <1>5, <2>2, <2>3
  <2> QED
    BY <1>1, <1>2, <1>3, <2>1, <2>2, <2>4, <1>b, AccessFrame
<1>8. CASE PrintX(p)
  <2>1. at[p] = "x" /\ ~Scanning(p) /\ UNCHANGED mem /\ Goto(p, "y", step[p])
          /\ shm' = [shm EXCEPT ![b].x = mem[p][b].x]
    BY <1>8, <1>b DEF PrintX
  <2>2. mem[p][b].x = mem[p][b].y
    BY <1>b, <1>2, <2>1 DEF MidScan, Whole, StructsWhole
  <2>3. shm'[b].x = mem[p][b].x /\ \A a \in Areas : a # b => shm'[a] = shm[a]
    BY <1>2, <1>5, <2>1
  <2> QED
    BY <1>1, <1>2, <1>3, <2>1, <2>2, <2>3, <1>b, AccessFrame
<1>9. CASE PrintY(p)
  <2>1. at[p] = "y" /\ ~Scanning(p) /\ UNCHANGED mem /\ AfterAccess(p)
          /\ shm' = [shm EXCEPT ![b].y = mem[p][b].y]
    BY <1>9, <1>b DEF PrintY
  <2>2. mem[p][b].x = mem[p][b].y /\ shm[b].x = mem[p][b].x
    BY <1>b, <1>2, <2>1 DEF MidScan, MidPrint, Whole, StructsWhole, HalfPrinted
  <2>3. shm'[b].x = shm'[b].y /\ \A a \in Areas : a # b => shm'[a] = shm[a]
    BY <1>2, <1>5, <2>1, <2>2
  <2> QED
    BY <1>1, <1>2, <1>3, <2>1, <2>2, <2>3, <1>b, AccessFrame
<1> QED
  BY <1>6, <1>7, <1>8, <1>9

LEMMA WholeInv ==
  ASSUME ServerFirst PROVE Spec => [](TypeOK /\ LockInv /\ Whole)
<1>1. Init => LockInv /\ Whole
  <2> SUFFICES ASSUME Init PROVE LockInv /\ Whole
    OBVIOUS
  <2>1. LockInv
    BY LockInit
  <2>2. \A p \in Procs : at[p] \in {"init", "go"}
    BY DEF Init, StartAt
  <2>3. ~ready /\ \A p \in Procs : \A a \in Areas : mem[p][a].x = mem[p][a].y
    BY DEF Init, StartMem, Both
  <2>4. StructsWhole /\ HalfScanned /\ HalfPrinted
    BY <2>2, <2>3 DEF StructsWhole, HalfScanned, HalfPrinted, MidScan, MidPrint
  <2> QED
    BY <2>1, <2>2, <2>3, <2>4 DEF Whole, TextsWhole, Wiped
<1>2. TypeOK /\ LockInv /\ Whole /\ [Next]_vars => LockInv' /\ Whole'
  <2> SUFFICES ASSUME TypeOK, LockInv, Whole, [Next]_vars PROVE LockInv' /\ Whole'
    OBVIOUS
  <2>1. ControlOK /\ SemOK /\ ShmOK /\ MemOK
    BY DEF TypeOK, DataOK, SemOK, ShmOK, MemOK
  <2>2. LockInv'
    BY <2>1, ExclusionNext, StartingNext DEF LockInv
  <2>3. CASE UNCHANGED vars
    <3>1. /\ UNCHANGED <<sem, shm, at, step, mem, ready>>
          /\ \A p \in Procs : /\ Holds(p)' = Holds(p)
                              /\ \A a : MidScan(p, a)' = MidScan(p, a)
                                       /\ MidPrint(p, a)' = MidPrint(p, a)
      BY <2>3 DEF vars, MidScan, MidPrint, Holds, ServerHolds, Area, Scanning, Op
    <3>2. StructsWhole' /\ HalfScanned' /\ HalfPrinted'
      BY <3>1 DEF Whole, StructsWhole, HalfScanned, HalfPrinted
    <3>3. TextsWhole' /\ Wiped'
      BY <3>1 DEF Whole, TextsWhole, TextWhole, Wiped
    <3> QED
      BY <2>2, <3>2, <3>3 DEF Whole
  <2>4. CASE SemInit \/ Memset \/ Rerun
    BY <2>1, <2>2, <2>4, StartIsWhole DEF LockInv
  <2>5. CASE ServerWait \/ ServerPost \/ \E p \in Workers : WorkerWait(p) \/ WorkerPost(p)
    BY <2>1, <2>2, <2>5, LockingIsWhole
  <2>6. CASE Move \/ Press \/ \E p \in Procs : Kill(p)
    BY <2>1, <2>2, <2>6, LocalIsWhole
  <2>7. CASE \E p \in Procs : ScanX(p) \/ ScanY(p) \/ PrintX(p) \/ PrintY(p)
    BY <2>1, <2>2, <2>7, AccessIsWhole
  <2>8. Whole'
    BY <2>3, <2>4, <2>5, <2>6, <2>7, NextCases DEF Quiet
  <2> QED
    BY <2>2, <2>8
<1> QED
  BY <1>1, <1>2, TypeCorrect, PTL DEF Spec

(***************************************************************************)
(* If the server starts first, what a process has scanned or is to print   *)
(* when it posts is never torn, in any run, wherever the processes of the  *)
(* earlier ones were killed: a text that a dead process left half written  *)
(* is cleared before anybody gets at it.                                   *)
(***************************************************************************)
THEOREM ScansAreWhole ==
  ASSUME ServerFirst PROVE Spec => []NoTornScan
<1>1. TypeOK /\ LockInv /\ Whole => NoTornScan
  <2> SUFFICES ASSUME TypeOK, Whole, NEW p \in Procs, at[p] = "post", NEW a \in Holds(p)
               PROVE  mem[p][a].x = mem[p][a].y
    BY DEF NoTornScan
  <2>1. a \in Areas
    BY HoldsType DEF TypeOK
  <2>2. ~MidScan(p, a)
    BY DEF MidScan
  <2> QED
    BY <2>1, <2>2 DEF Whole, StructsWhole
<1> QED
  BY <1>1, WholeInv, PTL
=============================================================================
