------------------------------ MODULE Semaphores ------------------------------
(***************************************************************************)
(* The life of the three named semaphores: Sem_open, Sem_init, and the     *)
(* order in which the main loops of server, drone, input and map take and  *)
(* give them, over several runs of the program.                            *)
(*                                                                         *)
(* The semaphores are named and no process ever reaches its clean-up code, *)
(* so a run that is killed leaves them as they are, taken ones included,   *)
(* and the next run finds them so: Sem_open with O_CREAT leaves the value  *)
(* of an existing semaphore alone.  Only the server's Sem_init resets it,  *)
(* and nothing makes the other processes wait for that.                    *)
(***************************************************************************)
EXTENDS Integers, Sequences, FiniteSets

CONSTANTS
  MaxRuns,     \* bound: runs of the program; the last one is not killed
  ServerFirst  \* TRUE: the scheduler lets the server finish its start-up
               \* before any other process reaches its main loop

ASSUME MaxRunsAssumption == MaxRuns \in Nat \ {0}
ASSUME ServerFirstAssumption == ServerFirst \in BOOLEAN

Areas == {"force", "velocity", "position"}
Workers == {"drone", "input", "map"}
Procs == Workers \cup {"server"}

\* The semaphores each worker's loop takes, one at a time.
Sections == [drone |-> <<"force", "position", "velocity">>,
             input |-> <<"position", "velocity", "force", "force">>,
             map   |-> <<"position">>]

\* The server initialises one at a time, then holds all three at once.
InitOrder == <<"force", "position", "velocity">>
LockOrder == <<"force", "velocity", "position">>

VARIABLES
  sem,    \* value of each semaphore
  at,     \* server: "init", "wipe", "wait", "post"; worker: "go", "in"; "dead"
  step,   \* how far into the order or loop
  ready,  \* the server has passed its start-up in this run
  run     \* number of the current run

vars == <<sem, at, step, ready, run>>

StartAt == [p \in Procs |-> IF p = "server" THEN "init" ELSE "go"]

Init ==
  /\ sem = [a \in Areas |-> 1]
  /\ at = StartAt
  /\ step = [p \in Procs |-> 1]
  /\ ready = FALSE
  /\ run = 1

Goto(p, label, n) ==
  /\ at' = [at EXCEPT ![p] = label]
  /\ step' = [step EXCEPT ![p] = n]

InitTo(v) ==
  /\ at["server"] = "init"
  /\ sem' = [sem EXCEPT ![InitOrder[step["server"]]] = v]
  /\ IF step["server"] < 3 THEN Goto("server", "init", step["server"] + 1)
                           ELSE Goto("server", "wipe", 1)
  /\ UNCHANGED <<ready, run>>

NoSemInit == InitTo(sem[InitOrder[step["server"]]])  \* mutant

\* Sem_init: the value becomes 1 whatever it was, and whoever holds it.
SemInit == InitTo(1)

\* The rest of the server's start-up, up to its main loop.
Ready ==
  /\ at["server"] = "wipe"
  /\ Goto("server", "wait", 1)
  /\ ready' = TRUE
  /\ UNCHANGED <<sem, run>>

ServerTake(least) ==
  LET a == LockOrder[step["server"]] IN
  /\ at["server"] = "wait"
  /\ sem[a] >= least
  /\ sem' = [sem EXCEPT ![a] = @ - 1]
  /\ IF step["server"] < 3 THEN Goto("server", "wait", step["server"] + 1)
                           ELSE Goto("server", "post", 3)
  /\ UNCHANGED <<ready, run>>

ServerDoesNotWait == ServerTake(0)  \* mutant

\* Sem_wait, one semaphore after the other.
ServerWait == ServerTake(1)

ServerGive(last) ==
  LET a == LockOrder[step["server"]] IN
  /\ at["server"] = "post"
  /\ sem' = [sem EXCEPT ![a] = @ + 1]
  /\ IF step["server"] > last THEN Goto("server", "post", step["server"] - 1)
                              ELSE Goto("server", "wait", 1)
  /\ UNCHANGED <<ready, run>>

ForceNotGiven == ServerGive(2)  \* mutant: Sem_post(sem_force) is missing

\* Sem_post in the reverse order.
ServerPost == ServerGive(1)

\* Assumption on the scheduler, made only when ServerFirst is TRUE.
MayRun == ServerFirst => ready

WorkerWait(p) ==
  LET a == Sections[p][step[p]] IN
  /\ at[p] = "go"
  /\ MayRun
  /\ sem[a] > 0
  /\ sem' = [sem EXCEPT ![a] = @ - 1]
  /\ Goto(p, "in", step[p])
  /\ UNCHANGED <<ready, run>>

WorkerGive(p, n) ==
  /\ at[p] = "in"
  /\ sem' = [sem EXCEPT ![Sections[p][step[p]]] = @ + n]
  /\ Goto(p, "go", (step[p] % Len(Sections[p])) + 1)
  /\ UNCHANGED <<ready, run>>

PostTwice(p) == WorkerGive(p, 2)  \* mutant

WorkerPost(p) == WorkerGive(p, 1)

Step(p) == \/ p = "server" /\ (SemInit \/ Ready \/ ServerWait \/ ServerPost)
           \/ p \in Workers /\ (WorkerWait(p) \/ WorkerPost(p))

\* A crash, or the watchdog's SIGKILL: the semaphores p holds stay taken.
Kill(p) ==
  /\ run < MaxRuns
  /\ at[p] # "dead"
  /\ Goto(p, "dead", 1)
  /\ UNCHANGED <<sem, ready, run>>

\* Every process is new; the semaphores are the ones left behind.
Rerun ==
  /\ run < MaxRuns
  /\ \A p \in Procs : at[p] = "dead"
  /\ at' = StartAt
  /\ step' = [p \in Procs |-> 1]
  /\ ready' = FALSE
  /\ run' = run + 1
  /\ UNCHANGED sem

Next == (\E p \in Procs : Step(p) \/ Kill(p)) \/ Rerun

Spec == Init /\ [][Next]_vars

(***************************************************************************)
(* Every loop sleeps or draws outside its critical sections, and a process *)
(* asleep in Sem_wait is woken by Sem_post or, at the latest, by the       *)
(* watchdog's next SIGUSR1, after which SA_RESTART makes it look at the    *)
(* value again.  So a process whose semaphore is free again and again gets *)
(* it: strong fairness of each process's own steps.  Nothing forces a      *)
(* crash or a new run.                                                     *)
(***************************************************************************)
FairSpec == Spec /\ \A p \in Procs : SF_vars(Step(p))

-----------------------------------------------------------------------------
\* The semaphores that p has taken and not yet given back, at its nth step.
Held(p, label, n) ==
  IF label = "wait" THEN {LockOrder[j] : j \in 1..(n - 1)}
  ELSE IF label = "post" THEN {LockOrder[j] : j \in 1..n}
  ELSE IF label = "in" THEN {Sections[p][n]}
  ELSE {}

Holds(p) == Held(p, at[p], step[p])

Permits(a) == sem[a] + Cardinality({p \in Procs : a \in Holds(p)})

TypeOK ==
  /\ sem \in [Areas -> Nat]
  /\ at \in [Procs -> {"init", "wipe", "wait", "post", "go", "in", "dead"}]
  /\ at["server"] \notin {"go", "in"}
  /\ step \in [Procs -> 1..4]
  /\ step["server"] \in 1..3
  /\ \A p \in Workers : /\ at[p] \in {"go", "in", "dead"}
                        /\ step[p] \in 1..Len(Sections[p])
  /\ ready \in BOOLEAN
  /\ run \in 1..MaxRuns

(***************************************************************************)
(* Sem_init can give a held semaphore a second permit, so two processes    *)
(* may be inside together; but no more than one is added per run.          *)
(***************************************************************************)
PermitsBounded == \A a \in Areas : Permits(a) <= 1 + run

(***************************************************************************)
(* Once the server of the surviving run has initialised the semaphores,    *)
(* each has a permit, available or held by a live process: a semaphore     *)
(* that died taken in the run before locks nobody out for good.            *)
(***************************************************************************)
PermitsNotLost ==
  (run = MaxRuns /\ at["server"] # "init") => \A a \in Areas : Permits(a) >= 1

(***************************************************************************)
(* In a run that nobody kills, every process gets through its critical     *)
(* sections again and again, whatever the run before it left taken.        *)
(***************************************************************************)
EveryoneServed ==
  \A p \in Procs : [](run = MaxRuns => <>(at[p] \in {"in", "post"}))
=============================================================================
