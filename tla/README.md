# Verification of the drone simulator

TLA+ models, model-checking runs and TLAPS proofs for the drone simulator of this
repository (paths below are relative to its root). The program is five C
processes and two Konsole terminals, started by `master`, that talk through one
shared memory object, three named semaphores, two FIFOs, signals, a
configuration file and a log file.

## 1. The system

| part | state it keeps | operations | talks to |
|---|---|---|---|
| server (`src/server.c`) | three structs for what it last read | `Sem_init` of the semaphores, `memset` of the memory, then for ever: take the three semaphores, scan the three areas, write three log lines, give the semaphores back, sleep 2 s | semaphores, memory, log file; SIGUSR1/SIGUSR2 |
| drone (`src/drone.c`) | two past positions, velocity, force, parameters, reload countdown | for ever: reload parameters now and then, scan force, compute, print position, print velocity, sleep `T` | semaphores, memory, configuration, log; signals |
| input (`src/input.c`) | force, position, velocity, `force_step`, `max_force`, countdown | sends its pid to WD; for ever: scan position, scan velocity, reload, `getch` (100 ms at most), `update_force` (scan force, apply key, clamp), print force, draw | FIFO two, semaphores, memory, configuration, log; signals |
| map (`src/map.c`) | position | sends its pid to WD; for ever: scan position, draw, sleep | FIFO one, semaphores, memory; signals |
| watchdog (`src/WD.c`) | pids, `count`, `check`, index | reads pids; for ever, for each process: SIGUSR1, sleep 1 s, look at `check` and `count`, kill everything or reset `count` | arguments, FIFOs, signals, log |
| master (`src/master.c`) | child pids | fork and exec of the five (input and map inside Konsoles), then `Wait` five times | arguments of WD |
| shared memory object | text `x\|y` in areas position, force, velocity | `sprintf`, `sscanf`, `memset` | named: survives the processes |
| semaphores | a value each | `Sem_open`, `Sem_init`, `Sem_wait`, `Sem_post` | named: survive the processes |
| logging (`headers/utils/utils.c`) | the log file | open, lock, buffered print, unlock, close | server, drone, input, WD |
| configuration (`headers/utils/utils.c`) | the parsed file | `read_parameter_file`, `get_param` | drone, input |

What makes each correct:

* memory and semaphores: a reader sees one whole write; a key is applied to the
  force in force; nothing of an earlier run is felt; every loop keeps going.
* server: a logged snapshot is (nearly) one instant of the drone.
* watchdog: no false alarm, no missed fault, nothing left running at its exit.
* drone, input, map: bounds of force, position and screen coordinates.
* start-up: the pids WD gets are the right ones, nobody is sent a signal it has no
  handler for, nobody waits for an end of a FIFO that will not come.
* log: what explains a kill is in the file before the kill; who waits for the lock
  gets it.
* configuration: the value returned is the one in the file, for that section.

What is hard: every interleaving of four unsynchronised loops on half-written
text; processes killed while they hold a semaphore, and the next run meeting the
remains; signals that do not queue, arrive late, interrupt sleeps and race the
reset of a plain `int`; zombies for which `kill` succeeds; a lock on the log file
shared by the watchdog and those it watches; FIFOs that two processes make and open;
arithmetic with an infinite force at the walls and a velocity that never reaches 0; a
parser with unchecked indices and unterminated strings. `PROJECT.json` lists the
hazards line by line.

## 2. The modules

| module | what it is |
|---|---|
| `SharedMemory` | the memory object and the semaphores with the start-up of the server and the loops of server, drone, input and map |
| `MCSharedMemory` | values for its constant `Keys` |
| `AtomicAreas` | what the memory promises: three atomic registers |
| `Semaphores` | the semaphores alone, over several runs, with fairness |
| `Watchdog` | WD, the handlers, and what befalls the processes |
| `LogFile` | `logging()` for any number of processes |
| `Supervised` | `Watchdog` and `LogFile` composed |
| `Startup` | master, the Konsoles, the FIFOs and the pids, the end of a run |
| `Config` | the reader of the configuration file, and what a file means |
| `MCConfig` | the symmetry of its sections and of its keys |
| `Dynamics` | what input, drone and map compute along one axis |
| `...Proofs` | theorems about the module they are named after |
| `SharedMemoryRefinement` | the theorems about `SharedMemory` that need the loops' data: the two refinements, `SnapshotSkew`, `IdleUserNoForce` |

`SharedMemory` implements `AtomicAreas` (property `Atomicity`, instance
`Registers`) and `Semaphores` (property `UsesSemaphores`, instance `Locks`); both are
proved. So what is shown of `Semaphores`, safety, holds of the loops with their data.
The mappings have names: `reg`, `view` and `cycle` forget the halves and what is on its
way from one task to the next, `lockAt` and `lockStep` the steps between `Sem_wait` and
`Sem_post`.
`Supervised` implements `Watchdog` (proved), so that what is shown of `Watchdog`,
safety, holds with the log file in WD's way.

### SharedMemory and the code

A process is at a label: the server at "init" (next `Sem_init`), "wipe" (next
area of `memset`), "wait" (next `Sem_wait`), "x"/"y" (first/second number of an
`sscanf`), "post" (next `Sem_post`); a worker at "go" (before the next task of its
loop), "x", "y", "post"; anybody may be "dead". `step` says which semaphore or
task. The loops are data (`DroneLoop`, `InputLoop`, `MapLoop`), in the order of
the code, and the orders in which the server initialises, wipes, locks and reads
are sequences (`InitOrder`, ...).

Abstractions:

* The text in an area is a pair of halves and each `sprintf`/`sscanf` takes two
  steps. Finer steps would split one number's digits; with or without a
  semaphore the question is the same, whether a reader sees parts of two writes.
* A position or velocity is the number of the drone's iteration that computed it,
  up to `MaxCycle` (the drone is "at rest" from then on and prints the same
  labels). The force is the real one in units of `force_step`, limited to
  `MaxForce`. The keys modelled move both axes alike (`q`, `c`), zero them (`s`)
  or are none of the ten, so that the two halves of a force agree exactly when
  one `sprintf` wrote them.
* `sscanf` on cleared memory converts nothing and leaves the struct as it was:
  `Blank`, in a struct, is a field that was never assigned.
* Logging, drawing, sleeping and reloading parameters touch nothing modelled here.

`Kill(p)` ends a process between any two steps, `Rerun` starts everything again:
semaphores and memory stay as they are, since every clean-up is after a `while (1)`.

**`ServerFirst`.** Nothing in the code makes the other processes wait for the
server's `Sem_init` and `memset`; in practice they come later because the server
is forked first and the others start a terminal or read the configuration several
times. With `ServerFirst = TRUE` the model assumes it. With `FALSE` it does not:
run `shm_stale` then finds the stale force, and `Semaphores` is checked that way. So what is shown with
`ServerFirst` does not cover a `Sem_init` on a semaphore that is held, or a `memset` in the middle of an access:
only the number of permits added is bounded then (`PermitsBounded`).

### Watchdog and the code

`wd` is where WD is: "ping" (`WD.c:128`), "sleep" (140), "check" (146), "reset"
(171), "kill" (158-164), "done". `i` is the process being checked, or the next one
to kill. `usr1`, `usr2` are pending signals: one bit each, standard signals do not
queue. `Answer(p)` is the handler of a monitored process, `Deliver` WD's own. A
delivery during the sleep may or may not end it: `sleep` returns the seconds left,
rounded, and the loop goes on while that is not 0. A monitored process may freeze,
thaw, die (a zombie: `kill` succeeds) and be reaped (`kill` fails); closing a
Konsole hangs up what runs in it. `answered`, `fell`, `late`, `missed` are history
variables.

Not in this model: WD's own death and signals sent before a handler is installed
(`Startup`), log lines (`Supervised`), reuse of a pid.

### LogFile, Supervised and the code

`stage` is where a process is in `logging()` (`utils.c:181-191`): "wait" from `Fopen`
to the return of `Flock(LOCK_EX)`, "locked", "unlocked" from `LOCK_UN` to `Fclose`,
which writes the buffer. The line is on file only then, after the lock is free:
lines of two processes may swap, none is torn, since one `write` of a stream opened
with "a" appends it whole. `file` keeps the last line of each process. A dead
process drops its lock and loses its buffer; a frozen one keeps both.

`Supervised` conjoins WD's actions with these steps: `Ping` calls `logging()`
(`WD.c:132`), `CheckFails` too (155), and WD does nothing else until it is back
(`Log!Idle`). Handlers run during `flock` (`SA_RESTART`). The time WD spends in the
lock is not bounded, so the second of sleep begins after it.

### Startup and the code

`pc` is where each process is: "new" (forked), "fifo" (before `access`), "make"
(before `mkfifo`), "open", "write", "read", "loop", "stuck" (in `getchar()` after a
failed `mkfifo`). `Fork` and `Wait` are `master.c`'s two loops, `next` the FIFO WD reads
and then the process it pings. Abstractions:

* `open` of the two ends of a FIFO is one joint step, `Meet`: each waits for the
  other, and a process killed in `open` has not opened.
* The first round of pings is one step per process, and a later alarm is one step
  (`Watchdog` has their detail): a process that is alive with its handler answers.
* A process in "new" that is pinged is ended by SIGUSR1 (`shot`).
* If a sender died before it wrote, `p_pids` is what was on WD's stack. It may be 0,
  and `kill(0)` goes to WD's process group, master included (`PingGroup`, and
  `KillAll` with `group`), or be nobody's (`PingNobody`). That it is by chance some
  other process's is left out.
* A Konsole that is closed hangs up its child, and ends when its child does.

### Config and the code

A turn of the `getline` loop (`utils.c:61-133`) is `ReadLine(l)`, the line being chosen as
it is read: blank, comment, title, pair. `EndOfFile` stores the last section. Kept:

* The struct reused for every section (`aux`, `index`), the `memset`s after each, and what there
  was in it before the first (line 28 leaves it uninitialised): `memory`, any of `Leftovers`. Its title
  and each of its keys may be empty or "garbage". So a first section may go unrecognised, for
  want of a terminator after its title, or be recognised and have keys after its own that no line gave it.
* The last character of every line is dropped (74). It is the newline, except perhaps on the last line
  (`cut`), and then `Left(v)` is what may be left of a value: a number loses a digit or is gone; a text
  may become anything, a number included ("10s"); points become fewer, or nothing.
* `strncpy` without a terminator (`Entitle`); `sscanf` of points, which leaves an uninitialised
  float (`Garbage`); `strlen(NULL)` when nothing follows "=" (115), for which `reader` becomes "crashed".
* The unchecked `params[process_index++]` and `values_index`, for which the reader goes to "overflow", and
  `get_param`'s loop over keys (158), which ends at an empty key and nowhere else: `Hits` has a place
  beyond the last key, and `get_param` is then `Overrun`. What it finds there is undefined, so the
  model says no more.

Abstracted: sections and keys are names, the titles all of one length, and fit their arrays; what was in
memory spells no name; a value is a number, written in digits only, or one of three kinds of text. `WellFormed` and
`Declared` are the reference: the rules written at the head of the configuration file, over
the whole text, without the reader's state.

### Dynamics and the code

`Press(key)` is the switch of `update_force` with its clamp, `Drone` one iteration: repulsion
of the two walls, the threshold, the Euler step, the borders; `Projection` is
`map.c:164`. One axis at a time, "x" or "y": they differ in the keys and in the
border beyond the far end. Floats are integers of a small unit, with the
coefficients `Inertia = M/T^2` and `Drag = K/T`; the quotient is rounded away from zero, so that, as
with floats, drag alone never stops the drone and the threshold has to. At distance
0 from a wall the code divides by zero: the force is infinite and the position beyond the
other wall. What depends on smaller digits than the unit is lost.

## 3. The runs

| run | bounds | what it shows |
|---|---|---|
| `shm_locks` | 1 run, 3 iterations of the drone (labels 0..2), force in -1..1, keys `c`, `s` | `MutualExclusion`; `NoTornScan`: what a process scanned is one write; `SnapshotSkew`: the position and velocity the server logs are of the same iteration, or of neighbours |
| `shm_registers` | 2 runs, labels 0..1; the first user presses `c`, the second only `s` or nothing; any process of the first run dies at any step | `IdleUserNoForce`: the first run's force is never felt in the second; `Atomicity`; `UsesSemaphores`; `TypeOK` |
| `shm_stale` | the same, `ServerFirst = FALSE` | violation of `IdleUserNoForce`, see findings |
| `semaphores` | 2 runs, no order of start-up | `PermitsBounded`: `Sem_init` on a held semaphore duplicates a permit, at most one per run; `PermitsNotLost`: once the server of the last run has initialised them every semaphore has a permit again; `EveryoneServed`: in a run nobody kills every process enters its critical sections for ever |
| `watchdog` | none: the state space is finite | `Attribution`, `NoAnswerLost`, `NoFalseAlarm`, `BoundedDetection` (a death is noticed within four checks), `NothingLeft`, `FaultEndsRun` |
| `supervised` | the server logs; the server, map and a Konsole may fail | `WarnedBeforeKill`: WD's warning is on file before the first kill; `FaultEndsRun`: a death anywhere in `logging()` still ends the run, unless a process is frozen for good with the lock; `TypeOK` |
| `supervised_frozen` | the server logs and may fail | violation of `FreezeEndsRun`, see findings |
| `startup` | any FIFOs present at the start; everybody but master may die | `PidsRight`, `HandlersFirst`, `OneMaker` (a sender and WD never both get stuck making one FIFO), `MasterLast`; `MonitoringStarts` unless somebody died or got stuck; `RunEnds`: once WD monitors, a death makes master return; `TypeOK` |
| `config` | files of at most 6 lines, 2 sections of 2 values, 2 titles, 2 keys, numbers of one and two digits, any leftovers in `aux` | `Faithful`: `get_param` returns what a file that keeps the rules says, with two exceptions that the code has: a title without a terminator, a section without an empty key; `InBounds`: with no more blank lines, and pairs in a block, than there is room for, the reader's two indices stay in their arrays, and `get_param`'s stays in `keys` if no section is full, its leftovers counted; `NothingMadeUp`: whatever is wrong with the file, a value returned was read from a line for that key in a block with that title, and is indeterminate only if that line has points for a number; `TypeOK` |
| `config_errors` | the same | violation of `ErrorsLogged`, see findings |
| `dynamics` | a field of 40 units, both axes, six window sizes, from the smallest | `DrawnInside`; `ComesToRest`: without force the drone stops, out of the walls' reach; `ForceMoves`: with one it does not stand still in the open; `TypeOK` |
| `dynamics_bottom` | the same | violation of `PutBackInside`, see findings |

Why the bounds are enough. Three labels let a reader's two halves come from two
different writes with a third in between, and one run suffices for the
questions of `shm_locks`, which a restart does not touch (`Exclusion` is proved
for every number of runs). Two runs are what a remnant needs: one to leave it and
one to meet it; a third run meets the same remnants as the second.
`MaxForce = 1` reaches both limits and zero. In `shm_registers` two iterations
are enough, since what differs there is whether a value is from before or after
the crash. In `supervised` one process that logs is enough to hold the lock when WD wants it,
while another, or a Konsole, fails without it; a second logger would only make the lock busier
(the proofs hold for any set). In `config` six lines hold two
sections with pairs, a comment and the blank lines between, one line more than the
arrays have room for, and every order of them. In `dynamics` the field is eight times the reach of the walls,
and the largest force and the speed it gives overshoot every border, also from the open.

Fairness. `Semaphores!FairSpec` assumes strong fairness of each process: every
loop sleeps, or waits for a key 100 ms at most, outside its critical sections, and
a process asleep in `sem_wait` is woken by a `sem_post` or, at the latest, by the
watchdog's next SIGUSR1, after which `SA_RESTART` makes it look at the value again.
That covers the sleeper whose wake-up is lost because `Sem_init` ran under it.
Nothing is assumed of crashes or reruns. `Watchdog!FairSpec` assumes weak fairness
of WD, of its handler and of each process's handler: a runnable process runs.
Nothing is assumed of deaths, thaws or reaping, so `FaultEndsRun` holds even if
no zombie is ever reaped. `Supervised!FairSpec` adds strong fairness of whoever wants the
log file's lock: the others hold it for three lines of C and sleep, or wait for a key,
between two calls, so it is free again and again. `Startup!FairSpec`
assumes weak fairness of each process; of deaths and of keys pressed at a `getchar()` nothing.
`Dynamics!FairSpec` assumes weak fairness of the drone's loop, which sleeps `T` and goes on; the user
may press any key at any time. `Semaphores`, `SharedMemory` and `Dynamics` are checked for deadlock.
The other systems really stop: everything is dead (`Watchdog`, `Supervised`, `Startup`), a
process waits in `getchar()` for a key (`Startup`), WD waits for a frozen holder of the lock
(`Supervised`), the reader has returned or exited (`Config`).

### Findings

* `shm_stale`: `src/input.c:254` and `src/drone.c:95` say that the force at the
  beginning is 0. After a run that was killed, the drone of the next run may scan
  the old force before the server's `memset`, and input may read it back and
  publish it again, so that the drone moves with no key pressed.
* `supervised_frozen`: `README.md:136` says that WD kills all processes when one is
  frozen. One that freezes between `LOCK_EX` and `LOCK_UN` keeps the lock of the log file;
  WD's next `logging()` waits for it, and nothing is killed.
* `config_errors`: the head of the configuration file promises that an error in it ends the process with a line in
  the log. A pair without a value ends it in `strlen(NULL)` (`utils.c:115`), with none.
* `dynamics_bottom`: `src/drone.c:226` says that the other walls are like the one at 0, past
  which the drone is put one unit inside. Past the bottom `y` is set to 1 (234),
  at the top; past the right wall `x` is set to `SIMULATION_WIDTH - 1`.

Other things met while modelling. Without `ServerFirst` two processes can be inside one
area together (a permit too many). The server may log values that were never assigned.
`README.md:135` and `src/WD.c:126` say that a failed `kill` is acted upon
immediately; the code logs "sending signal" and sleeps a second first. The last character of
every line is dropped because it is "in a linux environment always \n" (`utils.c:73`): a last line without one loses
a digit, and "10s" passes for 10. A value of points alone passes the check of its characters and
makes a parameter of an uninitialised float. The first section's title gets no terminator and is recognised
only if a zero byte follows it on the stack. `get_param` runs beyond `keys` for a
parameter that a full section does not have; in the first section what is on the stack can fill it. `WEXITSTATUS(status)` in `master.c` takes the status from a variable that is always 0 and
drops the result: the code printed is 0. The server and the drone have no FIFO that orders
their handlers before WD's first SIGUSR1; only time does. A pid that was never read may
be 0, and then WD signals its own process group, itself and master included.

## 4. The proofs

TLAPS checks them for every value of the constants that satisfies the module's named
assumptions; `Watchdog` has no constants. No module
uses RECURSIVE.

`SharedMemoryProofs`:

* `TypeCorrect`: `TypeOK` is inductive. The structs are typed by whether the code
  initialises them (`Zeroed`), the force by the clamp of `update_force`
  (`PressedType`).
* `Exclusion` (assumes `ServerFirst`): `MutualExclusion` says nothing of the values
  of the semaphores and is not inductive. `LockInv` adds that a value is a bit
  (`Bits`), that it is 0 while somebody holds the semaphore (`HeldIsTaken`), and that
  nobody but the server holds anything before the server is ready
  (`StartingHoldsNothing`): the last is what makes `Sem_init`, which writes 1 whatever
  the value was, harmless. Each transition takes one, gives one, changes nothing, or
  drops what a dead process held; `TakeOne`, `GiveOne` and `KeepOrDrop` are the
  three arguments.
* `ScansAreWhole` (assumes `ServerFirst`): `NoTornScan`, for any number of runs and kills
  in the middle of a `sprintf`. `Whole` says when a struct or a text may be torn at all. A
  struct: in the middle of a scan, and then of a whole text. A text: while it is
  printed, or after its printer was killed, and then the semaphore is 0 and
  nobody holds it, until the next server clears the text and makes the semaphore anew
  before anybody looks (`Wiped`). `CalmStep` treats the steps outside the accesses,
  `AccessFrame` the accesses, on top of `LockInv`.

`SharedMemoryRefinement`. Only the first two do without `ServerFirst`; all hold for any number
of runs killed anywhere, any keys and any limits.

* `TheLoopsUseTheSemaphores` (`UsesSemaphores`): each step of the loops is a step of
  `Semaphores` or a stutter. It needs two facts: a worker inside a critical section is there
  for a scan or a print (`SectionsAccess`), so that its last half-access, and no other
  step, leads to `Sem_post`; and `memset` does not make the run ready before its last area.
* `PermitsOfTheLoops`: with it, `PermitsStayBounded` and `PermitsKept` (below) hold of the
  loops, by an instance `LP` of `SemaphoresProofs`.
* `SnapshotsFit` (`SnapshotSkew`): says nothing of the drone and is far from inductive. `Publishing`
  compares the two texts published with each other and with the drone's iteration, at each
  point of its loop (`InStep`); `Snapshot` says that what the server has scanned is still in the area,
  which it holds. Both need to know what nobody can have touched before the server is ready
  (`Unstarted`) and that texts are whole when they are looked at (`Whole`).
* `IdleUserIsSafe` (`IdleUserNoForce`), from `Untouched`: with keys that move nothing the force is zero in the
  structs, in the text once the server is ready, and whatever input makes of it.
* `AccessesAreAtomic` (`Atomicity`): every scan and print is a read or a write of a register, at its last
  half-access; `Pressing` says that the force input is about to publish is the one
  in the register with a key applied, so that between its scan and its print, which are two
  critical sections, nobody else has changed it.

`SemaphoresProofs`, with or without `ServerFirst`:

* `SemaphoreTypes`, `PermitsStayBounded`, `PermitsKept`. `Bounded` counts precisely: a
  semaphore has at most one permit per run that has initialised it, and the initial one,
  a holder counting for one. `Kept` says that in the run that is not killed an initialised semaphore has
  at least one. `PermitsAreSum` turns the cardinality of the holders into a sum of
  four bits, which each transition changes by one together with the value.

`WatchdogProofs`:

* `WatchdogTypes`, `AnswersAttributed`, `ResetIsQuiet`, `AlarmsAreTrue`,
  `ExitLeavesNothing`: from one inductive invariant `WDInv`. Its core is `OneSignal`:
  the pending SIGUSR1, the pending SIGUSR2 and the counted answer exclude each
  other. WD sends the next SIGUSR1 only when the answer to the last has been
  counted, so there is one token going round; `WhoseSignal` says whose it is at each
  point of the loop, `SignalKept` that it is not lost while the process is well,
  `KilledSoFar` that the dead stay dead.
* `DeathIsNoticed`: `BoundedDetection`, from `Detection`: some dead process accounts for
  the checks missed, which are no more than those since its own last one (`Since`),
  and while it is being checked it has no answer on its way (`Overdue`).

`SupervisedProofs`, for any set of loggers and of faults:

* `Implements`: every step of `Supervised` is a step of `Watchdog` or a stutter. `WP`
  is an instance of `WatchdogProofs`, whose theorems therefore carry over:
  `LoggingRaisesNoAlarm` and `ExitStillLeavesNothing`.
* `SupervisedTypes`, and `WarningFirst`: `WarnedBeforeKill`, from `WarningAhead`: once WD
  has decided, its line is the warning, and it is on file when WD is out of `logging()`.

`StartupProofs`, whoever may die:

* `StartupTypes`, `PidsAreRight`, `HandlersComeFirst`, `OneIsStuck`, `MasterIsLast`, from
  one invariant `IInv`: master's children and their order (`Family`), the Konsoles (`Hosted`), that a pid in a
  FIFO is of a process with a handler (`Handled`), that WD leaves a FIFO with a pid or with
  a dead sender (`Reading`), and that who fails to make a FIFO was overtaken by the
  other end, which is in `open` or dead (`Making`).

`ConfigProofs`, for every number of lines, sections and values, and whatever was in `aux`:

* `ReaderTypes`, from `Shape` (what is a sequence of what) and `Current`: the keys of the section being read that
  come from the file are those up to `index`, the others leftovers or empty.
* The other three turn on `Placed`, which holds of any file, with or without mistakes. Each section
  read, the one in `aux` included, was read `From` a line m where a block begins: m is line 1 for the
  first, and after a blank line for the others (`Begins`); its first keys come from the pairs of the block, one for
  each, and the keys after them are what was there before the first pair (`Holds`); its title is one of the
  block, the last one if the line is whole, and a first title over garbage stays garbage (`Titled`). And each pair read so
  far is in such a block. A line moves one section (`FromComment`, `FromTitle`, `FromPair`) and leaves the others
  (`OthersStay`); a blank line, or the end, stores it (`PlacedBlank`, `PlacedEnd`).
* `IndicesStayInside` (`InBounds`) adds `Counted`, that there are as many sections stored as blank lines: a place
  beyond the last key is one of a section with `MaxValues` keys that are not empty, and its block is `Full`.
* `ValuesAreRead` (`NothingMadeUp`): `get_param` finds a first hit (`FirstHit`, the well-foundedness of pairs of
  numbers), the hit is a pair of a block (`HitPlace`), and a title of that block is the section's.
* `WhatTheFileSays` (`Faithful`): in a file that keeps the rules a block has one title, and first
  (`TitleFirst`), so the pairs of the block are the pairs of the section.

`DynamicsProofs`, for every field, mass, friction, reach and force:

* `TypeCorrect`: the position stays in the field. Away from the walls the repulsion is a
  finite number (`WallsInt`); at a wall the border catches what the infinite force gives.
* `AlwaysDrawnInside`: `DrawnInside`, from bounds of the rounded quotient, for every
  window of at least three columns.
* `RestIsExact`, for walls that reach at least two units: a drone at rest stays so in the next
  iteration exactly if there is no force. It is the step on which `ComesToRest` and `ForceMoves` turn,
  and rests on the rounding away from zero (`QuotientZero`).

Only model-checked: the liveness properties (`EveryoneServed`, `FaultEndsRun`,
`MonitoringStarts`, `RunEnds`, `ComesToRest`, `ForceMoves`), which need fairness and
`ENABLED` and are out of the prover's reach. Every invariant of the runs that pass, and
both refinements, are proved.

## 5. Plan

What is left, in this order:

1. Proofs: the steps that the liveness properties turn on, as `RestIsExact` is for `Dynamics`: that a
   fault WD has not met keeps it from completing more than one round (`Watchdog`), and that no
   process waits in `Sem_wait` while the permit is nobody's (`Semaphores`).
2. The countdowns of drone and input to the next reading of the parameters, and a change of
   them at run time: needs a model of elapsed time.
3. `Semaphores` and `Supervised` composed, with a wrapper that waits in `getchar()` holding
   semaphores while its handler still answers: a run that stands still without an alarm. The product
   is too large for TLC within minutes as it stands; `Semaphores` would have to be cut to one
   semaphore first.

## 6. Not modelled

* Drawing with ncurses, build files and messages on the terminal: no state that another
  part reads.
* Real time: the length of sleeps, the drone's step shortened by a signal, the reload
  countdowns.
* Floating-point rounding below the unit of `Dynamics`.
* Error paths of system calls that fail for a reason outside the program, except `mkfifo`.
* Reuse of a pid by another process.

Per component, `PROJECT.json` says what is left out.
