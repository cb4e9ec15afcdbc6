---------------------------- MODULE StartupProofs ----------------------------
(***************************************************************************)
(* The safety of start-up and of the end of a run, whoever may die.  The   *)
(* inductive invariant says how far each process has come when another one *)
(* has reached a given point.                                              *)
(***************************************************************************)
EXTENDS Startup, TLAPS

\* master forks in order, and returns when it has waited for all.
Family ==
  /\ pc["master"] = "fork" => forked < 5
  /\ pc["master"] = "done" => reaped = ChildSet
  /\ \A n \in 1..5 : forked < n => pc[Children[n]] = "none"
  /\ \A c \in reaped : Dead(c)

\* What runs in a Konsole starts after it and ends before it.
Hosted ==
  \A k \in Konsoles :
    /\ pc[k] \in {"none", "new"} => pc[Child[k]] = "none"
    /\ Dead(k) => Dead(Child[k])

\* A pid in a FIFO, or that WD has read, is of a process with a handler.
Handled ==
  /\ \A p \in Senders : p \in handlers \/ pc[p] \in {"none", "new", "dead"}
  /\ \A f \in Fifos : pipe[f] = "empty" \/ (pipe[f] \in handlers /\ Fifo[pipe[f]] = f)
  /\ \A n \in 1..2 : pids[n] = "unread" \/ (pids[n] = PingOrder[n] /\ pids[n] \in handlers)
  /\ pids[3] = "server" /\ pids[4] = "drone"

Exchanging == {"fifo", "make", "stuck", "open", "read"}

\* WD reads one FIFO after the other, and leaves each with a pid or with the
\* certainty that none will come.
Reading ==
  /\ pc["WD"] \in {"none", "new"} => next = 1
  /\ pc["WD"] \in Exchanging => next \in 1..2
  /\ \A n \in 1..2 :
       pc["WD"] \in {"ping", "loop", "kill"} \/ (pc["WD"] \in Exchanging /\ n < next) =>
         pids[n] # "unread" \/ Dead(PingOrder[n])
  /\ pc["WD"] = "read" => \A p \in Senders : Fifo[p] = FifoOf("WD") =>
       pc[p] = "write" \/ pipe[Fifo[p]] = p \/ Dead(p)

\* Who is about to make a FIFO that exists, or has failed to, has been
\* overtaken by the other end, which waits in open() or is dead.
Making ==
  \A p \in Senders :
    /\ pc[p] = "stuck" \/ (pc[p] = "make" /\ Fifo[p] \in exists) =>
         Dead("WD") \/ (pc["WD"] = "open" /\ FifoOf("WD") = Fifo[p])
    /\ /\ pc["WD"] = "stuck" \/ (pc["WD"] = "make" /\ Fifo[p] \in exists)
       /\ FifoOf("WD") = Fifo[p]
       => Dead(p) \/ pc[p] = "open"

IInv == TypeOK /\ Family /\ Hosted /\ Handled /\ HandlersFirst /\ Reading /\ Making

(* The sequences and sets of names.                                        *)
LEMMA Names ==
  /\ Len(Children) = 5 /\ Len(FifoOrder) = 2 /\ Len(PingOrder) = 4
  /\ Children[1] = "server" /\ Children[2] = "drone"
  /\ Children[3] = "konsole_input" /\ Children[4] = "konsole_map"
  /\ Children[5] = "WD"
  /\ FifoOrder[1] = "two" /\ FifoOrder[2] = "one"
  /\ PingOrder[1] = "input" /\ PingOrder[2] = "map"
  /\ PingOrder[3] = "server" /\ PingOrder[4] = "drone"
  /\ ChildSet = {"server", "drone", "konsole_input", "konsole_map", "WD"}
  /\ Procs = {"konsole_input", "konsole_map", "server", "drone", "input", "map",
              "WD", "master"}
<1>1. DOMAIN Children = 1..5
  BY DEF Children
<1>2. ChildSet = {"server", "drone", "konsole_input", "konsole_map", "WD"}
  BY <1>1 DEF ChildSet, Children
<1> QED
  BY <1>2 DEF Children, FifoOrder, PingOrder, Procs, Konsoles, Plain, Senders


LEMMA Initially ==
  ASSUME Init
  PROVE  IInv
<1>1. TypeOK
  BY Names DEF Init, TypeOK, Plain, Places
<1>2. Family
  BY Names DEF Init, Family
<1>3. Hosted
  BY Names DEF Init, Hosted, Dead, Konsoles, Child
<1>4. Handled
  BY Names DEF Init, Handled, Senders
<1>5. HandlersFirst
  BY DEF Init, HandlersFirst
<1>6. Reading
  BY Names DEF Init, Reading
<1>7. Making
  BY Names DEF Init, Making, Senders
<1> QED
  BY <1>1, <1>2, <1>3, <1>4, <1>5, <1>6, <1>7 DEF IInv

-----------------------------------------------------------------------------
(* One lemma per action.                                                   *)

\* master forks a child that nothing has been heard of.
LEMMA ForkKeeps ==
  ASSUME IInv, Fork
  PROVE  IInv'
<1>1. TypeOK'
  BY Names DEF IInv, TypeOK, Family, Fork, Places
<1>2. Family'
  BY Names DEF IInv, TypeOK, Family, Fork, Dead
<1>3. Hosted'
  BY Names DEF IInv, TypeOK, Family, Hosted, Fork, Dead, Konsoles, Child
<1>4. Handled'
  BY Names DEF IInv, TypeOK, Handled, Fork, Senders
<1>5. HandlersFirst'
  BY DEF IInv, HandlersFirst, Fork
<1>6. Reading'
  BY Names DEF IInv, TypeOK, Family, Reading, Fork
<1>7. Making'
  BY Names DEF IInv, TypeOK, Family, Making, Fork, Dead, Senders
<1> QED
  BY <1>1, <1>2, <1>3, <1>4, <1>5, <1>6, <1>7 DEF IInv

\* master counts the children that are dead.
LEMMA WaitKeeps ==
  ASSUME IInv, Wait
  PROVE  IInv'
<1>1. TypeOK'
  BY Names DEF IInv, TypeOK, Wait, WaitUntil, Places
<1>2. Family'
  BY DEF IInv, Family, Wait, WaitUntil, Dead
<1>3. Hosted'
  BY DEF IInv, Hosted, Wait, WaitUntil, Dead
<1>4. Handled'
  BY DEF IInv, Handled, Wait, WaitUntil
<1>5. HandlersFirst'
  BY DEF IInv, HandlersFirst, Wait, WaitUntil
<1>6. Reading'
  BY DEF IInv, Reading, Wait, WaitUntil, Dead, FifoOf
<1>7. Making'
  BY DEF IInv, Making, Wait, WaitUntil, Dead, FifoOf
<1> QED
  BY <1>1, <1>2, <1>3, <1>4, <1>5, <1>6, <1>7 DEF IInv

\* A handler more.
LEMMA InstallKeeps ==
  ASSUME IInv, NEW p \in Plain \cup Senders, Install(p)
  PROVE  IInv'
<1>1. TypeOK'
  BY Names DEF IInv, TypeOK, Install, Goes, Plain, Senders, Places
<1>2. Family'
  BY DEF IInv, Family, Install, Goes, Dead
<1>3. Hosted'
  BY DEF IInv, Hosted, Install, Goes, Dead
<1>4. Handled'
  BY DEF IInv, Handled, Install, Goes
<1>5. HandlersFirst'
  BY DEF IInv, HandlersFirst, Install
<1>6. Reading'
  BY DEF IInv, Reading, Install, Goes, Dead, Plain, FifoOf
<1>7. Making'
  BY DEF IInv, Making, Install, Goes, Dead, FifoOf
<1> QED
  BY <1>1, <1>2, <1>3, <1>4, <1>5, <1>6, <1>7 DEF IInv

\* What a Konsole runs starts when nothing else knows of it.
LEMMA StartChildKeeps ==
  ASSUME IInv, NEW k \in Konsoles, StartChild(k)
  PROVE  IInv'
<1>1. TypeOK'
  BY Names DEF IInv, TypeOK, StartChild, Konsoles, Child, Places
<1>2. Family'
  BY Names DEF IInv, TypeOK, Family, StartChild, Dead, Konsoles, Child
<1>3. Hosted'
  BY Names DEF IInv, TypeOK, Hosted, StartChild, Dead, Konsoles, Child
<1>4. Handled'
  BY Names DEF IInv, TypeOK, Handled, StartChild, Konsoles, Senders
<1>5. HandlersFirst'
  BY DEF IInv, HandlersFirst, StartChild
<1>6. Reading'
  BY Names DEF IInv, TypeOK, Hosted, Reading, StartChild, Dead, Konsoles, Senders,
     FifoOf
<1>7. Making'
  BY Names DEF IInv, TypeOK, Hosted, Making, StartChild, Dead, Senders, FifoOf
<1> QED
  BY <1>1, <1>2, <1>3, <1>4, <1>5, <1>6, <1>7 DEF IInv

\* A Konsole ends after what ran in it.
LEMMA KonsoleEndsKeeps ==
  ASSUME IInv, NEW k \in Konsoles, KonsoleEnds(k)
  PROVE  IInv'
<1>1. TypeOK'
  BY Names DEF IInv, TypeOK, KonsoleEnds, Goes, Konsoles, Places
<1>2. Family'
  BY DEF IInv, Family, KonsoleEnds, Goes, Dead
<1>3. Hosted'
  BY DEF IInv, Hosted, KonsoleEnds, Goes, Dead
<1>4. Handled'
  BY DEF IInv, Handled, KonsoleEnds, Goes
<1>5. HandlersFirst'
  BY DEF IInv, HandlersFirst, KonsoleEnds
<1>6. Reading'
  BY DEF IInv, Reading, KonsoleEnds, Goes, Dead, FifoOf, Exchanging
<1>7. Making'
  BY DEF IInv, Making, KonsoleEnds, Goes, Dead, FifoOf
<1> QED
  BY <1>1, <1>2, <1>3, <1>4, <1>5, <1>6, <1>7 DEF IInv

\* WD begins with the first FIFO.
LEMMA WDStartsKeeps ==
  ASSUME IInv, WDStarts
  PROVE  IInv'
<1>1. TypeOK'
  BY Names DEF IInv, TypeOK, WDStarts, Goes, Places
<1>2. Family'
  BY DEF IInv, Family, WDStarts, Goes, Dead
<1>3. Hosted'
  BY DEF IInv, Hosted, WDStarts, Goes, Dead
<1>4. Handled'
  BY DEF IInv, Handled, WDStarts, Goes, Senders
<1>5. HandlersFirst'
  BY DEF IInv, HandlersFirst, WDStarts
<1>6. Reading'
  BY DEF IInv, Reading, WDStarts, Goes
<1>7. Making'
  BY DEF IInv, Making, WDStarts, Goes, Dead
<1> QED
  BY <1>1, <1>2, <1>3, <1>4, <1>5, <1>6, <1>7 DEF IInv

\* The answer of access() may become wrong, but only if the other end makes
\* the FIFO and waits.
LEMMA AccessKeeps ==
  ASSUME IInv, NEW p \in Senders \cup {"WD"}, Access(p)
  PROVE  IInv'
<1>1. TypeOK'
  BY Names DEF IInv, TypeOK, Access, Goes, Senders, Places
<1>2. Family'
  BY DEF IInv, Family, Access, Goes, Dead
<1>3. Hosted'
  BY DEF IInv, Hosted, Access, Goes, Dead
<1>4. Handled'
  BY DEF IInv, Handled, Access, Goes
<1>5. HandlersFirst'
  BY DEF IInv, HandlersFirst, Access
<1>6. Reading'
  BY DEF IInv, Reading, Access, FifoOf, Goes, Dead, Exchanging
<1>7. Making'
  BY DEF IInv, Making, Access, FifoOf, Goes, Dead, Senders
<1> QED
  BY <1>1, <1>2, <1>3, <1>4, <1>5, <1>6, <1>7 DEF IInv

\* Whoever makes the FIFO leaves the other one to fail, and waits in
\* open().
LEMMA MakeKeeps ==
  ASSUME IInv, NEW p \in Senders \cup {"WD"}, Make(p)
  PROVE  IInv'
<1>1. TypeOK'
  <2>1. FifoOf(p) \in Fifos
    <3>1. CASE p \in Senders
      BY <3>1 DEF FifoOf, Senders, Fifo, Fifos
    <3>2. CASE p = "WD"
      <4>1. next \in 1..2
        BY <3>2 DEF IInv, Reading, Make, Goes, Exchanging
      <4> QED
        BY <3>2, <4>1, Names DEF FifoOf, Fifos
    <3> QED
      BY <3>1, <3>2
  <2>2. exists' \subseteq Fifos
    BY <2>1 DEF IInv, TypeOK, Make
  <2>3. pc' \in [Procs -> Places]
    BY Names DEF IInv, TypeOK, Make, Goes, Senders, Places
  <2> QED
    BY <2>2, <2>3 DEF IInv, TypeOK, Make
<1>2. Family'
  BY DEF IInv, Family, Make, Goes, Dead
<1>3. Hosted'
  BY DEF IInv, Hosted, Make, Goes, Dead
<1>4. Handled'
  BY DEF IInv, Handled, Make, Goes
<1>5. HandlersFirst'
  BY DEF IInv, HandlersFirst, Make
<1>6. Reading'
  BY DEF IInv, Reading, Make, FifoOf, Goes, Dead, Exchanging
<1>7. Making'
  BY Names DEF IInv, TypeOK, Making, Make, FifoOf, Goes, Dead, Senders, Fifo
<1> QED
  BY <1>1, <1>2, <1>3, <1>4, <1>5, <1>6, <1>7 DEF IInv

\* A process that is stuck exits.
LEMMA KeyPressedKeeps ==
  ASSUME IInv, NEW p \in Senders \cup {"WD"}, KeyPressed(p)
  PROVE  IInv'
<1>1. TypeOK'
  BY Names DEF IInv, TypeOK, KeyPressed, Goes, Senders, Places
<1>2. Family'
  BY DEF IInv, Family, KeyPressed, Goes, Dead
<1>3. Hosted'
  BY DEF IInv, Hosted, KeyPressed, Goes, Dead, Konsoles, Senders
<1>4. Handled'
  BY DEF IInv, Handled, KeyPressed, Goes
<1>5. HandlersFirst'
  BY DEF IInv, HandlersFirst, KeyPressed
<1>6. Reading'
  BY DEF IInv, Reading, Making, KeyPressed, Goes, Dead, Exchanging
<1>7. Making'
  BY DEF IInv, Making, KeyPressed, Goes, Dead, FifoOf
<1> QED
  BY <1>1, <1>2, <1>3, <1>4, <1>5, <1>6, <1>7 DEF IInv

\* Both ends are open: the sender will write, or die.
LEMMA MeetKeeps ==
  ASSUME IInv, NEW p \in Senders, Meet(p)
  PROVE  IInv'
<1>1. TypeOK'
  BY Names DEF IInv, TypeOK, Meet, Places
<1>2. Family'
  BY Names DEF IInv, TypeOK, Family, Meet, Dead
<1>3. Hosted'
  BY Names DEF IInv, TypeOK, Hosted, Meet, Dead, Konsoles, Child
<1>4. Handled'
  BY Names DEF IInv, TypeOK, Handled, Meet, Senders
<1>5. HandlersFirst'
  BY DEF IInv, HandlersFirst, Meet
<1>6. Reading'
  BY Names DEF IInv, TypeOK, Reading, Meet, FifoOf, Dead, Senders, Fifo, Exchanging
<1>7. Making'
  BY Names DEF IInv, TypeOK, Making, Meet, Dead, Senders, Fifo
<1> QED
  BY <1>1, <1>2, <1>3, <1>4, <1>5, <1>6, <1>7 DEF IInv

\* The pid is in the FIFO that WD reads.
LEMMA SendKeeps ==
  ASSUME IInv, NEW p \in Senders, Send(p)
  PROVE  IInv'
<1>1. TypeOK'
  BY Names DEF IInv, TypeOK, Send, Goes, Senders, Fifo, Fifos, Places
<1>2. Family'
  BY DEF IInv, Family, Send, Goes, Dead
<1>3. Hosted'
  BY DEF IInv, Hosted, Send, Goes, Dead, Konsoles, Senders
<1>4. Handled'
  BY DEF IInv, Handled, Send, Goes
<1>5. HandlersFirst'
  BY DEF IInv, HandlersFirst, Send
<1>6. Reading'
  BY DEF IInv, TypeOK, Reading, Send, Goes, Dead, Senders, Fifo, Fifos, FifoOf
<1>7. Making'
  BY DEF IInv, Making, Send, Goes, Dead, FifoOf
<1> QED
  BY <1>1, <1>2, <1>3, <1>4, <1>5, <1>6, <1>7 DEF IInv

\* WD leaves a FIFO with the pid, or without one and then for good.
LEMMA ReceiveKeeps ==
  ASSUME IInv, Receive
  PROVE  IInv'
<1>1. TypeOK'
  BY Names DEF IInv, TypeOK, Reading, Receive, FifoOf, Goes, Fifos, Exchanging, Places
<1>2. Family'
  BY DEF IInv, Family, Receive, Goes, Dead
<1>3. Hosted'
  BY DEF IInv, Hosted, Receive, Goes, Dead
<1>4. Handled'
  BY Names DEF IInv, TypeOK, Handled, Reading, Receive, FifoOf, Goes, Senders, Fifo,
     Fifos, Exchanging
<1>5. HandlersFirst'
  BY DEF IInv, HandlersFirst, Receive
<1>6. Reading'
  BY Names DEF IInv, TypeOK, Reading, Receive, FifoOf, Goes, Dead, Senders, Fifo,
     Fifos, Exchanging
<1>7. Making'
  BY DEF IInv, Making, Receive, Goes, Dead
<1> QED
  BY <1>1, <1>2, <1>3, <1>4, <1>5, <1>6, <1>7 DEF IInv

\* A process that is pinged by its pid has a handler, if it sent that pid.
LEMMA PingKeeps ==
  ASSUME IInv, Ping
  PROVE  IInv'
<1>1. TypeOK'
  <2>1. next' \in 1..Len(PingOrder)
    BY Names DEF IInv, TypeOK, Ping, PingThen
  <2>2. pc' \in [Procs -> Places]
    BY Names DEF IInv, TypeOK, Ping, PingThen, Places
  <2>3. pids[next] \in Procs
    BY Names DEF IInv, TypeOK, Ping, PingThen, Senders, Plain
  <2>4. shot' \subseteq Procs
    BY <2>3 DEF IInv, TypeOK, Ping, PingThen
  <2> QED
    BY <2>1, <2>2, <2>4 DEF IInv, TypeOK, Ping, PingThen
<1>2. Family'
  BY Names DEF IInv, TypeOK, Family, Ping, PingThen, Dead
<1>3. Hosted'
  BY Names DEF IInv, TypeOK, Hosted, Handled, Ping, PingThen, Dead, Konsoles, Child
<1>4. Handled'
  BY Names DEF IInv, TypeOK, Handled, Ping, PingThen, Senders
<1>5. HandlersFirst'
  BY Names DEF IInv, Handled, HandlersFirst, Reading, Ping, PingThen, Senders
<1>6. Reading'
  <2>1. pids' = pids /\ pc["WD"] = "ping" /\ pc'["WD"] \in {"ping", "loop", "kill", "dead"}
    BY Names DEF IInv, TypeOK, Ping, PingThen
  <2>2. \A p \in Procs : Dead(p) => Dead(p)'
    BY DEF IInv, TypeOK, Ping, PingThen, Dead
  <2>3. \A n \in 1..2 : PingOrder[n] \in Procs
    BY Names
  <2>4. ASSUME NEW n \in 1..2 PROVE pids'[n] # "unread" \/ Dead(PingOrder[n])'
    BY <2>1, <2>2, <2>3 DEF IInv, Reading
  <2> QED
    BY <2>1, <2>4 DEF Reading, Exchanging
<1>7. Making'
  BY Names DEF IInv, TypeOK, Making, Ping, PingThen, Dead, Senders
<1> QED
  BY <1>1, <1>2, <1>3, <1>4, <1>5, <1>6, <1>7 DEF IInv

\* A pid that was never read.
LEMMA PingNobodyKeeps ==
  ASSUME IInv, PingNobody
  PROVE  IInv'
<1>1. TypeOK'
  BY Names DEF IInv, TypeOK, PingNobody, Goes, Places
<1>2. Family'
  BY DEF IInv, Family, PingNobody, Goes, Dead
<1>3. Hosted'
  BY DEF IInv, Hosted, PingNobody, Goes, Dead
<1>4. Handled'
  BY DEF IInv, Handled, PingNobody, Goes
<1>5. HandlersFirst'
  BY DEF IInv, HandlersFirst, PingNobody
<1>6. Reading'
  BY DEF IInv, Reading, PingNobody, Goes, Dead, Exchanging
<1>7. Making'
  BY DEF IInv, Making, PingNobody, Goes, Dead
<1> QED
  BY <1>1, <1>2, <1>3, <1>4, <1>5, <1>6, <1>7 DEF IInv

\* A pid of 0: what has no handler dies.
LEMMA PingGroupKeeps ==
  ASSUME IInv, PingGroup
  PROVE  IInv'
<1>1. TypeOK'
  <2>1. pc' \in [Procs -> Places]
    BY DEF IInv, TypeOK, PingGroup, Places
  <2>2. shot' \subseteq Procs
    BY DEF IInv, TypeOK, PingGroup
  <2> QED
    BY <2>1, <2>2 DEF IInv, TypeOK, PingGroup
<1>2. Family'
  BY Names DEF IInv, TypeOK, Family, PingGroup, Dead
<1>3. Hosted'
  BY Names DEF Hosted, PingGroup, Dead, Konsoles, Plain, Child
<1>4. Handled'
  BY Names DEF IInv, Handled, PingGroup, Senders
<1>5. HandlersFirst'
  BY DEF IInv, HandlersFirst, PingGroup
<1>6. Reading'
  BY Names DEF Reading, PingGroup, Plain, Exchanging
<1>7. Making'
  BY Names DEF Making, PingGroup, Plain, Senders
<1> QED
  BY <1>1, <1>2, <1>3, <1>4, <1>5, <1>6, <1>7 DEF IInv

\* WD has found a fault.
LEMMA AlarmKeeps ==
  ASSUME IInv, Alarm
  PROVE  IInv'
<1>1. TypeOK'
  BY Names DEF IInv, TypeOK, Alarm, Goes, Places
<1>2. Family'
  BY DEF IInv, Family, Alarm, Goes, Dead
<1>3. Hosted'
  BY DEF IInv, Hosted, Alarm, Goes, Dead
<1>4. Handled'
  BY DEF IInv, Handled, Alarm, Goes
<1>5. HandlersFirst'
  BY DEF IInv, HandlersFirst, Alarm
<1>6. Reading'
  BY DEF IInv, Reading, Alarm, Goes, Dead, Exchanging
<1>7. Making'
  BY DEF IInv, Making, Alarm, Goes, Dead
<1> QED
  BY <1>1, <1>2, <1>3, <1>4, <1>5, <1>6, <1>7 DEF IInv

\* Everything that WD knows of, and its Konsoles.
LEMMA KillAllKeeps ==
  ASSUME IInv, KillAll
  PROVE  IInv'
<1>1. TypeOK'
  BY DEF IInv, TypeOK, KillAll, Places
<1>2. Family'
  BY Names DEF IInv, TypeOK, Family, KillAll, Dead
<1>3. Hosted'
  BY Names DEF Hosted, KillAll, Dead, Konsoles, Child
<1>4. Handled'
  BY Names DEF IInv, Handled, KillAll, Senders
<1>5. HandlersFirst'
  BY DEF IInv, HandlersFirst, KillAll
<1>6. Reading'
  BY Names DEF Reading, KillAll, Exchanging
<1>7. Making'
  BY Names DEF Making, KillAll, Senders
<1> QED
  BY <1>1, <1>2, <1>3, <1>4, <1>5, <1>6, <1>7 DEF IInv

\* Any process, at any time; a Konsole takes its own with it.
LEMMA DieKeeps ==
  ASSUME IInv, NEW p \in Procs, Die(p)
  PROVE  IInv'
<1>1. TypeOK'
  BY DEF IInv, TypeOK, Die, Places
<1>2. Family'
  BY Names DEF IInv, TypeOK, Family, Die, Dead, Konsoles, Child
<1>3. Hosted'
  BY Names DEF IInv, Hosted, Die, Dead, Konsoles, Child
<1>4. Handled'
  BY Names DEF IInv, Handled, Die, Senders
<1>5. HandlersFirst'
  BY DEF IInv, HandlersFirst, Die
<1>6. Reading'
  BY Names DEF IInv, Reading, Die, Dead, Senders, FifoOf, Exchanging
<1>7. Making'
  BY Names DEF IInv, Making, Die, Dead, Senders, FifoOf
<1> QED
  BY <1>1, <1>2, <1>3, <1>4, <1>5, <1>6, <1>7 DEF IInv

\* Nothing changes.
LEMMA StutterKeeps ==
  ASSUME IInv, UNCHANGED vars
  PROVE  IInv'
<1>1. TypeOK'
  BY DEF IInv, TypeOK, vars
<1>2. Family'
  BY DEF IInv, Family, vars, Dead
<1>3. Hosted'
  BY DEF IInv, Hosted, vars, Dead
<1>4. Handled'
  BY DEF IInv, Handled, vars
<1>5. HandlersFirst'
  BY DEF IInv, HandlersFirst, vars
<1>6. Reading'
  BY DEF IInv, Reading, vars, Dead, FifoOf
<1>7. Making'
  BY DEF IInv, Making, vars, Dead, FifoOf
<1> QED
  BY <1>1, <1>2, <1>3, <1>4, <1>5, <1>6, <1>7 DEF IInv

LEMMA Invariant == Spec => []IInv
<1>1. IInv /\ [Next]_vars => IInv'
  <2> SUFFICES ASSUME IInv, [Next]_vars PROVE IInv'
    OBVIOUS
  <2>1. CASE Master
    BY <2>1, ForkKeeps, WaitKeeps DEF Master
  <2>2. CASE Watchdog
    BY <2>2, WDStartsKeeps, AccessKeeps, MakeKeeps, ReceiveKeeps, PingKeeps, PingNobodyKeeps,
       PingGroupKeeps, AlarmKeeps, KillAllKeeps DEF Watchdog
  <2>3. ASSUME NEW p \in Plain, Install(p) PROVE IInv'
    BY <2>3, InstallKeeps
  <2>4. ASSUME NEW p \in Senders, Sender(p) PROVE IInv'
    BY <2>4, InstallKeeps, AccessKeeps, MakeKeeps, MeetKeeps, SendKeeps DEF Sender
  <2>5. ASSUME NEW k \in Konsoles, Konsole(k) PROVE IInv'
    BY <2>5, StartChildKeeps, KonsoleEndsKeeps DEF Konsole
  <2>6. ASSUME NEW p \in Senders \cup {"WD"}, KeyPressed(p) PROVE IInv'
    BY <2>6, KeyPressedKeeps
  <2>7. ASSUME NEW p \in Mortal, Die(p) PROVE IInv'
    BY <2>7, DieKeeps, MortalAssumption
  <2>8. CASE UNCHANGED vars
    BY <2>8, StutterKeeps
  <2> QED
    BY <2>1, <2>2, <2>3, <2>4, <2>5, <2>6, <2>7, <2>8 DEF Next
<1>2. Init => IInv
  BY Initially
<1> QED
  BY <1>1, <1>2, PTL DEF Spec

-----------------------------------------------------------------------------
(* Type correctness of start-up; WD never reads past its list of FIFOs.    *)
THEOREM StartupTypes == Spec => []TypeOK
<1>1. IInv => TypeOK
  BY DEF IInv
<1> QED
  BY <1>1, Invariant, PTL

(* Whoever dies when, the pids that WD has got are those of the processes  *)
(* it takes them for.                                                      *)
THEOREM PidsAreRight == Spec => []PidsRight
<1>1. IInv => PidsRight
  <2> SUFFICES ASSUME IInv, pc["WD"] \in {"ping", "loop", "kill"}, NEW n \in 1..4
               PROVE  \/ pids[n] = PingOrder[n]
                      \/ pids[n] = "unread" /\ Dead(PingOrder[n])
    BY Names DEF PidsRight
  <2>1. CASE n \in 1..2
    BY <2>1 DEF IInv, Handled, Reading
  <2>2. CASE n = 3 \/ n = 4
    BY <2>2, Names DEF IInv, Handled
  <2> QED
    BY <2>1, <2>2
<1> QED
  BY <1>1, Invariant, PTL

(* The signal of the watchdog never ends input or map, however slow they   *)
(* are: their pids come after their handlers.                              *)
THEOREM HandlersComeFirst == Spec => []HandlersFirst
<1>1. IInv => HandlersFirst
  BY DEF IInv
<1> QED
  BY <1>1, Invariant, PTL

(* The race between access() and mkfifo() stops one process at most.       *)
THEOREM OneIsStuck == Spec => []OneMaker
<1>1. IInv => OneMaker
  BY DEF IInv, Making, OneMaker, Dead
<1> QED
  BY <1>1, Invariant, PTL

(* master returns last, although it waits for the Konsoles only and not for*)
(* what runs in them.                                                      *)
THEOREM MasterIsLast == Spec => []MasterLast
<1>1. IInv => MasterLast
  <2> SUFFICES ASSUME IInv, pc["master"] = "done", NEW p \in Procs \ {"master"}
               PROVE  Dead(p)
    BY DEF MasterLast
  <2>1. \A c \in ChildSet : Dead(c)
    BY DEF IInv, Family
  <2>2. Dead("input") /\ Dead("map")
    <3>1. "konsole_input" \in Konsoles /\ "konsole_map" \in Konsoles
      BY DEF Konsoles
    <3>2. Dead("konsole_input") /\ Dead("konsole_map")
      BY <2>1, Names
    <3>3. Child["konsole_input"] = "input" /\ Child["konsole_map"] = "map"
      BY DEF Child
    <3> QED
      BY <3>1, <3>2, <3>3 DEF IInv, Hosted
  <2> QED
    BY <2>1, <2>2, Names
<1> QED
  BY <1>1, Invariant, PTL
=============================================================================
