-------------------------------- MODULE Startup --------------------------------
(***************************************************************************)
(* How a run begins and how it ends.  master forks the server, the drone,  *)
(* two Konsoles and WD, and waits for these five.  Each Konsole starts     *)
(* input or map, which installs its handler, sees to it that its FIFO      *)
(* exists and sends its pid through it.  WD reads the two pids, one FIFO   *)
(* after the other, and then pings all four processes in turn.             *)
(*                                                                         *)
(* The FIFOs stay in /tmp: they may or may not exist at the start.  Opening*)
(* one waits for the other end; reading from one whose writer died without *)
(* writing returns nothing, and the pid is what was in memory.             *)
(*                                                                         *)
(* Pings and alarms are one step each here; Watchdog has their detail.     *)
(***************************************************************************)
EXTENDS Integers, Sequences, FiniteSets

Children == <<"server", "drone", "konsole_input", "konsole_map", "WD">>

ChildSet == {Children[n] : n \in DOMAIN Children}
Konsoles == {"konsole_input", "konsole_map"}
Plain == {"server", "drone"}
Senders == {"input", "map"}
Procs == Konsoles \cup Plain \cup Senders \cup {"WD", "master"}

\* What a Konsole runs, and hangs up when it is closed.
Child == [konsole_input |-> "input", konsole_map |-> "map"]

Fifos == {"one", "two"}

\* Who may die at any time, of its own or by a user.
CONSTANT Mortal
ASSUME MortalAssumption == Mortal \subseteq Procs

FifoTwoForBoth == [input |-> "two", map |-> "two"]  \* mutant: a wrong path

\* The FIFO of each sender.
Fifo == [input |-> "two", map |-> "one"]

OneThenTwo == <<"one", "two">>  \* mutant: order swapped

\* The order in which WD reads the FIFOs: into p_pids[0], p_pids[1].
FifoOrder == <<"two", "one">>

\* p_pids: who is pinged first, second...
PingOrder == <<"input", "map", "server", "drone">>

VARIABLES
  pc,        \* where each process is
  forked,    \* how many children master has forked
  reaped,    \* the children that Wait has returned
  handlers,  \* who has installed its handler of SIGUSR1
  exists,    \* the FIFOs that exist
  pipe,      \* the pid in each FIFO
  pids,      \* p_pids; the last two are arguments of WD
  next,      \* the FIFO that WD reads, or the process it pings
  shot       \* those that SIGUSR1 has terminated (history)

vars == <<pc, forked, reaped, handlers, exists, pipe, pids, next, shot>>

Init ==
  /\ pc = [p \in Procs |-> IF p = "master" THEN "fork" ELSE "none"]
  /\ forked = 0
  /\ reaped = {}
  /\ handlers = {}
  /\ exists \in SUBSET Fifos
  /\ pipe = [f \in Fifos |-> "empty"]
  /\ pids = <<"unread", "unread", "server", "drone">>
  /\ next = 1
  /\ shot = {}

Dead(p) == pc[p] = "dead"
Someone(P) == \E p \in P : Dead(p)

Goes(p, from, to) ==
  /\ pc[p] = from
  /\ pc' = [pc EXCEPT ![p] = to]

-----------------------------------------------------------------------------
(* master *)

Fork ==
  /\ pc["master"] = "fork"
  /\ forked' = forked + 1
  /\ pc' = [pc EXCEPT ![Children[forked']] = "new",
                      !["master"] = IF forked' < Len(Children) THEN "fork" ELSE "wait"]
  /\ UNCHANGED <<reaped, handlers, exists, pipe, pids, next, shot>>

WaitUntil(finals) ==
  /\ pc["master"] = "wait"
  /\ \E c \in ChildSet \ reaped :
       /\ Dead(c)
       /\ reaped' = reaped \cup {c}
  /\ pc' = [pc EXCEPT !["master"] = IF reaped' \in finals THEN "done" ELSE "wait"]
  /\ UNCHANGED <<forked, handlers, exists, pipe, pids, next, shot>>

WaitFourTimes == WaitUntil({S \in SUBSET ChildSet : Cardinality(S) = 4})  \* mutant
WaitSixTimes == WaitUntil({})  \* mutant: the sixth Wait fails and hangs

\* The loop of Wait, once per child.
Wait == WaitUntil({ChildSet})

-----------------------------------------------------------------------------
(* Server, drone, and the Konsoles *)

\* mutant: the handler is installed after the pid has been sent
InstallLate(p) ==
  /\ IF p \in Plain THEN Goes(p, "new", "loop") /\ handlers' = handlers \cup {p}
     ELSE \/ Goes(p, "new", "fifo") /\ UNCHANGED handlers
          \/ p \notin handlers /\ Goes(p, "loop", "loop") /\ handlers' = handlers \cup {p}
  /\ UNCHANGED <<forked, reaped, exists, pipe, pids, next, shot>>

\* Sigaction(SIGUSR1), the first thing a monitored process does.
Install(p) ==
  /\ Goes(p, "new", IF p \in Plain THEN "loop" ELSE "fifo")
  /\ handlers' = handlers \cup {p}
  /\ UNCHANGED <<forked, reaped, exists, pipe, pids, next, shot>>

StartChild(k) ==
  /\ pc[k] = "new"
  /\ pc' = [pc EXCEPT ![k] = "loop", ![Child[k]] = "new"]
  /\ UNCHANGED <<forked, reaped, handlers, exists, pipe, pids, next, shot>>

\* What ran in the Konsole has ended.
KonsoleEnds(k) ==
  /\ Dead(Child[k])
  /\ Goes(k, "loop", "dead")
  /\ UNCHANGED <<forked, reaped, handlers, exists, pipe, pids, next, shot>>

-----------------------------------------------------------------------------
(* The FIFOs *)

\* The one that p sends through, or that WD is to read.
FifoOf(p) == IF p = "WD" THEN FifoOrder[next] ELSE Fifo[p]

WDStarts ==
  /\ Goes("WD", "new", "fifo")
  /\ UNCHANGED <<forked, reaped, handlers, exists, pipe, pids, next, shot>>

NoAccess(p) ==  \* mutant: the FIFO is made whether it exists or not
  /\ Goes(p, "fifo", "make")
  /\ UNCHANGED <<forked, reaped, handlers, exists, pipe, pids, next, shot>>

\* Mkfifo, first half: access().
Access(p) ==
  /\ Goes(p, "fifo", IF FifoOf(p) \in exists THEN "open" ELSE "make")
  /\ UNCHANGED <<forked, reaped, handlers, exists, pipe, pids, next, shot>>

\* Second half: mkfifo(), which fails if the FIFO has come to exist; the
\* process then waits for a key in getchar().
Make(p) ==
  /\ Goes(p, "make", IF FifoOf(p) \in exists THEN "stuck" ELSE "open")
  /\ exists' = exists \cup {FifoOf(p)}
  /\ UNCHANGED <<forked, reaped, handlers, pipe, pids, next, shot>>

KeyPressed(p) ==
  /\ Goes(p, "stuck", "dead")
  /\ UNCHANGED <<forked, reaped, handlers, exists, pipe, pids, next, shot>>

\* open() of the sender and of WD return together.
Meet(p) ==
  /\ pc[p] = "open" /\ pc["WD"] = "open"
  /\ Fifo[p] = FifoOf("WD")
  /\ pc' = [pc EXCEPT ![p] = "write", !["WD"] = "read"]
  /\ UNCHANGED <<forked, reaped, handlers, exists, pipe, pids, next, shot>>

\* Write of the own pid and Close; a FIFO whose reader is dead ends the writer.
Send(p) ==
  /\ Goes(p, "write", IF Dead("WD") THEN "dead" ELSE "loop")
  /\ pipe' = IF Dead("WD") THEN pipe ELSE [pipe EXCEPT ![Fifo[p]] = p]
  /\ UNCHANGED <<forked, reaped, handlers, exists, pids, next, shot>>

\* Read and Close: the pid, or nothing when nobody is left to write it.
Receive ==
  /\ Goes("WD", "read", IF next < Len(FifoOrder) THEN "fifo" ELSE "ping")
  /\ LET f == FifoOf("WD") IN
     /\ pipe[f] # "empty" \/ \A p \in Senders : Fifo[p] = f => pc[p] # "write"
     /\ pids' = IF pipe[f] = "empty" THEN pids ELSE [pids EXCEPT ![next] = pipe[f]]
     /\ pipe' = [pipe EXCEPT ![f] = "empty"]
  /\ next' = (next % Len(FifoOrder)) + 1
  /\ UNCHANGED <<forked, reaped, handlers, exists, shot>>

-----------------------------------------------------------------------------
(* The watchdog *)

PingThen(n) ==
  /\ pc["WD"] = "ping"
  /\ LET p == pids[next]
         fine == p \in handlers /\ ~Dead(p) IN
     /\ p # "unread"
     /\ pc' = [pc EXCEPT !["WD"] = IF ~fine THEN "kill"
                                   ELSE IF next < Len(PingOrder) THEN "ping" ELSE "loop",
                         ![p] = IF p \in handlers THEN @ ELSE "dead"]
     /\ shot' = IF p \in handlers \/ Dead(p) THEN shot ELSE shot \cup {p}
  /\ next' = n
  /\ UNCHANGED <<forked, reaped, handlers, exists, pipe, pids>>

PingPast == PingThen(next + 1)  \* mutant: the index runs past the end

\* The first round of pings, and whether the process can answer.
Ping == PingThen((next % Len(PingOrder)) + 1)

\* A pid that was never read.  If it is not 0, no process of the program is
\* meant, and the check fails.
PingNobody ==
  /\ pids[next] = "unread"
  /\ Goes("WD", "ping", "kill")
  /\ UNCHANGED <<forked, reaped, handlers, exists, pipe, pids, next, shot>>

\* If it is 0, kill signals WD's process group: of master and its children
\* only the server and the drone have a handler.
PingGroup ==
  /\ pids[next] = "unread"
  /\ pc["WD"] = "ping"
  /\ pc' = [p \in Procs |-> IF p \in Plain \cap handlers THEN pc[p] ELSE "dead"]
  /\ shot' = shot \cup {p \in Procs \ (handlers \cup Senders) : ~Dead(p)}
  /\ UNCHANGED <<forked, reaped, handlers, exists, pipe, pids, next>>

\* Some later round finds that a process is dead.
Alarm ==
  /\ Someone(Senders \cup Plain)
  /\ Goes("WD", "loop", "kill")
  /\ UNCHANGED <<forked, reaped, handlers, exists, pipe, pids, next, shot>>

\* All that WD knows of, then exit; with a pid of 0 the group, master too.
KillAll ==
  /\ pc["WD"] = "kill"
  /\ \E group \in {FALSE} \cup {pids[n] = "unread" : n \in DOMAIN pids} :
       pc' = [p \in Procs |-> IF p = "master" /\ ~group THEN pc[p] ELSE "dead"]
  /\ UNCHANGED <<forked, reaped, handlers, exists, pipe, pids, next, shot>>

Die(p) ==
  /\ pc[p] \notin {"none", "dead", "done"}
  /\ pc' = [q \in Procs |->
              IF q = p \/ (p \in Konsoles /\ q = Child[p]) THEN "dead" ELSE pc[q]]
  /\ UNCHANGED <<forked, reaped, handlers, exists, pipe, pids, next, shot>>

-----------------------------------------------------------------------------
Master == Fork \/ Wait
Watchdog == WDStarts \/ Access("WD") \/ Make("WD") \/ Receive
            \/ Ping \/ PingNobody \/ PingGroup \/ Alarm \/ KillAll
Sender(p) == Install(p) \/ Access(p) \/ Make(p) \/ Meet(p) \/ Send(p)
Konsole(k) == StartChild(k) \/ KonsoleEnds(k)

Next ==
  \/ Master \/ Watchdog
  \/ \E p \in Plain : Install(p)
  \/ \E p \in Senders : Sender(p)
  \/ \E k \in Konsoles : Konsole(k)
  \/ \E p \in Senders \cup {"WD"} : KeyPressed(p)
  \/ \E p \in Mortal : Die(p)

Spec == Init /\ [][Next]_vars

(***************************************************************************)
(* Every process that can go on does; nobody has to die or press a key.    *)
(***************************************************************************)
FairSpec ==
  /\ Spec
  /\ WF_vars(Master) /\ WF_vars(Watchdog)
  /\ \A p \in Plain : WF_vars(Install(p))
  /\ \A p \in Senders : WF_vars(Sender(p))
  /\ \A k \in Konsoles : WF_vars(Konsole(k))

-----------------------------------------------------------------------------
Places == {"none", "new", "fork", "wait", "done", "fifo", "make", "stuck", "open",
           "write", "read", "ping", "kill", "loop", "dead"}

TypeOK ==
  /\ pc \in [Procs -> Places]
  /\ forked \in 0..Len(Children)
  /\ reaped \subseteq ChildSet
  /\ handlers \subseteq Senders \cup Plain
  /\ exists \subseteq Fifos
  /\ pipe \in [Fifos -> Senders \cup {"empty"}]
  /\ pids \in [1..Len(PingOrder) -> Senders \cup Plain \cup {"unread"}]
  /\ next \in 1..Len(PingOrder)
  /\ shot \subseteq Procs

(***************************************************************************)
(* Once WD has read both FIFOs, each pid it has is that of the process it  *)
(* takes it for; if it has none, that process died before it sent it.      *)
(***************************************************************************)
PidsRight ==
  pc["WD"] \in {"ping", "loop", "kill"} =>
    \A n \in 1..Len(PingOrder) :
      \/ pids[n] = PingOrder[n]
      \/ pids[n] = "unread" /\ Dead(PingOrder[n])

(***************************************************************************)
(* SIGUSR1 never ends input or map: WD cannot ping them before they have   *)
(* installed their handlers, since it gets their pids afterwards.  Nothing *)
(* of the kind holds for the server and the drone, whose pids it has from  *)
(* the start.                                                              *)
(***************************************************************************)
HandlersFirst == shot \cap Senders = {}

(***************************************************************************)
(* A sender and WD may both find their FIFO missing and both try to make   *)
(* it.  One of them gets stuck then, never both.                           *)
(***************************************************************************)
OneMaker == \A p \in Senders :
  ~(pc[p] = "stuck" /\ pc["WD"] = "stuck" /\ Fifo[p] = FifoOf("WD"))

(***************************************************************************)
(* WD gets to its loop unless a process has died, or has got stuck making a*)
(* FIFO: neither end of a FIFO waits for an end that will not come.        *)
(***************************************************************************)
MonitoringStarts ==
  <>(pc["WD"] = "loop" \/ \E p \in Procs : pc[p] \in {"dead", "stuck"})

(***************************************************************************)
(* When master returns, no process of the program is left, input and map   *)
(* included, which it does not wait for.                                   *)
(***************************************************************************)
MasterLast == pc["master"] = "done" => \A p \in Procs \ {"master"} : Dead(p)

(***************************************************************************)
(* Once WD is in its loop, a death makes master return, unless WD dies and *)
(* leaves the others behind.                                               *)
(***************************************************************************)
RunEnds ==
  pc["WD"] = "loop" /\ Someone(Senders \cup Plain) ~>
    \/ pc["master"] \in {"done", "dead"}
    \/ Dead("WD") /\ \E p \in Procs \ {"master"} : ~Dead(p)
=============================================================================
