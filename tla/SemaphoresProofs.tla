--------------------------- MODULE SemaphoresProofs ---------------------------
(***************************************************************************)
(* The permits of the three semaphores, over any number of runs killed at  *)
(* any point, with or without the server being first.                      *)
(***************************************************************************)
EXTENDS Semaphores, FiniteSetTheorems, TLAPS

USE MaxRunsAssumption, ServerFirstAssumption

\* Membership, as a number.
Counts(x, S) == IF x \in S THEN 1 ELSE 0

\* Whether p holds a.
One(p, label, n, a) == Counts(a, Held(p, label, n))

Sum(v, at_, step_, a) ==
  v + One("drone", at_["drone"], step_["drone"], a)
    + One("input", at_["input"], step_["input"], a)
    + One("map", at_["map"], step_["map"], a)
    + One("server", at_["server"], step_["server"], a)

\* The server of this run has initialised a.
Inited(a) ==
  at["server"] # "init" \/ \E j \in 1..3 : j < step["server"] /\ InitOrder[j] = a

\* Each run adds one permit at most, with its Sem_init.
Bounded ==
  \A a \in Areas : Sum(sem[a], at, step, a) <= run + (IF Inited(a) THEN 1 ELSE 0)

\* In the run that is not killed, a permit given is never lost.
Kept ==
  run = MaxRuns =>
    /\ at["server"] # "dead"
    /\ \A a \in Areas : Inited(a) => Sum(sem[a], at, step, a) >= 1

IInv == TypeOK /\ Bounded /\ Kept

-----------------------------------------------------------------------------
(* Counting the holders one process after the other.                       *)
LEMMA CountOneMore ==
  ASSUME NEW S, NEW T, IsFiniteSet(T), NEW x, x \notin T, NEW U, U = T \cup {x}
  PROVE  /\ IsFiniteSet(U)
         /\ Cardinality(S \cap U) = Cardinality(S \cap T) + Counts(x, S)
<1>1. IsFiniteSet(U)
  BY FS_AddElement
<1>2. IsFiniteSet(S \cap T) /\ Cardinality(S \cap T) \in Nat
  BY FS_Intersection, FS_CardinalityType
<1>3. CASE x \in S
  <2>1. S \cap U = (S \cap T) \cup {x} /\ x \notin S \cap T
    BY <1>3
  <2>2. Cardinality(S \cap U) = Cardinality(S \cap T) + 1
    BY <1>2, <2>1, FS_AddElement
  <2> QED
    BY <1>1, <1>2, <1>3, <2>2 DEF Counts
<1>4. CASE x \notin S
  <2>1. S \cap U = S \cap T
    BY <1>4
  <2> QED
    BY <1>1, <1>2, <1>4, <2>1 DEF Counts
<1> QED
  BY <1>3, <1>4

LEMMA CountProcs ==
  ASSUME NEW S, S \subseteq Procs
  PROVE  Cardinality(S) = Counts("drone", S) + Counts("input", S)
           + Counts("map", S) + Counts("server", S)
<1> DEFINE A == {"drone"}
           B == {"drone", "input"}
           C == {"drone", "input", "map"}
           D == {"drone", "input", "map", "server"}
<1>1. IsFiniteSet({}) /\ Cardinality(S \cap {}) = 0
  BY FS_EmptySet
<1>2. /\ A = {} \cup {"drone"} /\ "drone" \notin {}
      /\ B = A \cup {"input"} /\ "input" \notin A
      /\ C = B \cup {"map"} /\ "map" \notin B
      /\ D = C \cup {"server"} /\ "server" \notin C
  OBVIOUS
<1>3. S \cap D = S
  BY DEF Procs, Workers
<1> HIDE DEF A, B, C, D
<1>4. IsFiniteSet(A) /\ Cardinality(S \cap A) = Cardinality(S \cap {}) + Counts("drone", S)
  BY <1>1, <1>2, CountOneMore
<1>5. IsFiniteSet(B)
      /\ Cardinality(S \cap B) = Cardinality(S \cap A) + Counts("input", S)
  BY <1>2, <1>4, CountOneMore
<1>6. IsFiniteSet(C)
      /\ Cardinality(S \cap C) = Cardinality(S \cap B) + Counts("map", S)
  BY <1>2, <1>5, CountOneMore
<1>7. Cardinality(S \cap D) = Cardinality(S \cap C) + Counts("server", S)
  BY <1>2, <1>6, CountOneMore
<1> QED
  BY <1>1, <1>3, <1>4, <1>5, <1>6, <1>7 DEF Counts

LEMMA PermitsAreSum ==
  ASSUME TypeOK, NEW a \in Areas
  PROVE  Permits(a) = Sum(sem[a], at, step, a)
<1> DEFINE S == {p \in Procs : a \in Holds(p)}
<1>1. Cardinality(S) = Counts("drone", S) + Counts("input", S)
        + Counts("map", S) + Counts("server", S)
  BY CountProcs
<1>2. \A p \in Procs : p \in S <=> a \in Held(p, at[p], step[p])
  BY DEF Holds
<1>3. /\ "drone" \in Procs /\ "input" \in Procs /\ "map" \in Procs /\ "server" \in Procs
      /\ sem[a] \in Nat
  BY DEF Procs, Workers, TypeOK
<1> HIDE DEF S
<1>4. Permits(a) = sem[a] + Cardinality(S)
  BY DEF Permits, S
<1> QED
  BY <1>1, <1>2, <1>3, <1>4 DEF Sum, One, Counts

-----------------------------------------------------------------------------
(* What is held where.                                                     *)
LEMMA Orders ==
  /\ InitOrder[1] = "force" /\ InitOrder[2] = "position" /\ InitOrder[3] = "velocity"
  /\ LockOrder[1] = "force" /\ LockOrder[2] = "velocity" /\ LockOrder[3] = "position"
BY DEF InitOrder, LockOrder

LEMMA HeldOutside ==
  ASSUME NEW p, NEW n, NEW a, NEW label, label \notin {"wait", "post", "in"}
  PROVE  One(p, label, n, a) = 0
BY DEF One, Counts, Held

LEMMA HeldInside ==
  ASSUME NEW p, NEW n, NEW a
  PROVE  One(p, "in", n, a) = IF a = Sections[p][n] THEN 1 ELSE 0
BY DEF One, Counts, Held

\* The server holds what comes before n in LockOrder, or up to n.
LEMMA HeldByServer ==
  ASSUME NEW p, NEW n \in 1..3, NEW a
  PROVE  /\ One(p, "wait", 1, a) = 0
         /\ One(p, "wait", n + 1, a) = One(p, "post", n, a)
         /\ One(p, "post", n, a) =
              One(p, "wait", n, a) + (IF a = LockOrder[n] THEN 1 ELSE 0)
<1>1. One(p, "wait", 1, a) = 0
  BY DEF One, Counts, Held
<1>2. One(p, "wait", n + 1, a) = One(p, "post", n, a)
  BY DEF One, Counts, Held
<1>3. \A m \in 1..3 : /\ a \in Held(p, "wait", m) <=> \E j \in 1..(m - 1) : a = LockOrder[j]
                      /\ a \in Held(p, "post", m) <=> \E j \in 1..m : a = LockOrder[j]
  BY DEF Held
<1>4. 1..n = (1..(n - 1)) \cup {n}
  OBVIOUS
<1>5. a = LockOrder[n] => ~ \E j \in 1..(n - 1) : a = LockOrder[j]
  BY Orders
<1> QED
  BY <1>1, <1>2, <1>3, <1>4, <1>5 DEF One, Counts

-----------------------------------------------------------------------------
LEMMA SumNat ==
  ASSUME NEW v \in Nat, NEW at_, NEW step_, NEW a
  PROVE  Sum(v, at_, step_, a) \in Nat
BY DEF Sum, One, Counts

(* What a step of p adds to a semaphore and to what p holds of it, it adds *)
(* to the permits.                                                         *)
LEMMA StepOf ==
  ASSUME TypeOK, NEW p \in Procs, NEW label, NEW n, Goto(p, label, n), NEW a \in Areas,
         sem'[a] \in Nat, NEW d \in Int,
         sem'[a] + One(p, label, n, a) = sem[a] + One(p, at[p], step[p], a) + d
  PROVE  Sum(sem'[a], at', step', a) = Sum(sem[a], at, step, a) + d
<1>1. /\ at'[p] = label /\ step'[p] = n
      /\ \A q \in Procs : q # p => at'[q] = at[q] /\ step'[q] = step[q]
  BY DEF Goto, TypeOK
<1>2. \A q, l, m : One(q, l, m, a) \in Int
  BY DEF One, Counts
<1>3. sem[a] \in Int /\ sem'[a] \in Int
  BY DEF TypeOK
<1>4. p \in {"drone", "input", "map", "server"}
  BY DEF Procs, Workers
<1>5. "drone" \in Procs /\ "input" \in Procs /\ "map" \in Procs /\ "server" \in Procs
  BY DEF Procs, Workers
<1> QED
  BY <1>1, <1>2, <1>3, <1>4, <1>5 DEF Sum

(* A step that leaves the permits as they are keeps the bounds.            *)
LEMMA Neutral ==
  ASSUME IInv, run' = run,
         \A a \in Areas : Sum(sem'[a], at', step', a) = Sum(sem[a], at, step, a),
         \A a \in Areas : Inited(a)' = Inited(a),
         at'["server"] = "dead" => at["server"] = "dead"
  PROVE  Bounded' /\ Kept'
<1>1. Bounded'
  BY DEF IInv, Bounded
<1>2. Kept'
  BY DEF IInv, Kept
<1> QED
  BY <1>1, <1>2

(* The same for a worker: what the server has initialised stays so.        *)
LEMMA WorkerIsNotServer ==
  ASSUME TypeOK, NEW p \in Workers, NEW label, NEW n, Goto(p, label, n)
  PROVE  /\ at'["server"] = at["server"] /\ step'["server"] = step["server"]
         /\ \A a \in Areas : Inited(a)' = Inited(a)
<1>1. p # "server" /\ p \in Procs /\ "server" \in Procs
  BY DEF Workers, Procs
<1>2. at'["server"] = at["server"] /\ step'["server"] = step["server"]
  BY <1>1 DEF Goto, TypeOK
<1> QED
  BY <1>2 DEF Inited

LEMMA OneIsFirst == \A m \in 1..4 : 1 \in 1..m
OBVIOUS

LEMMA SectionsAreas ==
  ASSUME NEW p \in Workers
  PROVE  /\ Len(Sections[p]) \in 1..4
         /\ \A n \in 1..Len(Sections[p]) : Sections[p][n] \in Areas
<1>1. CASE p = "drone"
  BY <1>1 DEF Sections, Areas
<1>2. CASE p = "input"
  BY <1>2 DEF Sections, Areas
<1>3. CASE p = "map"
  BY <1>3 DEF Sections, Areas
<1> QED
  BY <1>1, <1>2, <1>3 DEF Workers

LEMMA WorkerWaitKeeps ==
  ASSUME IInv, NEW p \in Workers, WorkerWait(p)
  PROVE  IInv'
<1> DEFINE b == Sections[p][step[p]]
<1>1. /\ TypeOK /\ p \in Procs /\ at[p] = "go" /\ step[p] \in 1..Len(Sections[p])
      /\ b \in Areas /\ sem[b] \in Nat /\ sem[b] > 0
  BY SectionsAreas DEF IInv, TypeOK, WorkerWait, Procs
<1>2. /\ Goto(p, "in", step[p]) /\ run' = run /\ ready' = ready
      /\ sem' = [sem EXCEPT ![b] = @ - 1]
  BY DEF WorkerWait
<1>3. at' = [at EXCEPT ![p] = "in"] /\ step' = step
  BY <1>1, <1>2 DEF Goto, TypeOK
<1>4. TypeOK'
  <2>1. sem' \in [Areas -> Nat]
    BY <1>1, <1>2 DEF TypeOK
  <2>2. p # "server"
    BY DEF Workers
  <2> QED
    BY <1>1, <1>2, <1>3, <2>1, <2>2 DEF TypeOK
<1>5. ASSUME NEW a \in Areas PROVE Sum(sem'[a], at', step', a) = Sum(sem[a], at, step, a)
  <2>1. One(p, "in", step[p], a) = (IF a = b THEN 1 ELSE 0) /\ One(p, at[p], step[p], a) = 0
    BY <1>1, HeldInside, HeldOutside
  <2>2. sem'[a] = sem[a] - (IF a = b THEN 1 ELSE 0) /\ sem'[a] \in Nat /\ sem[a] \in Nat
    BY <1>1, <1>2, <1>4 DEF TypeOK
  <2>3. Sum(sem'[a], at', step', a) = Sum(sem[a], at, step, a) + 0
    BY <1>1, <1>2, <2>1, <2>2, StepOf
  <2> QED
    BY <1>1, <2>2, <2>3, SumNat
<1>6. Bounded' /\ Kept'
  BY <1>1, <1>2, <1>5, Neutral, WorkerIsNotServer
<1> QED
  BY <1>4, <1>6 DEF IInv

LEMMA WorkerPostKeeps ==
  ASSUME IInv, NEW p \in Workers, WorkerPost(p)
  PROVE  IInv'
<1> DEFINE b == Sections[p][step[p]]
           n == (step[p] % Len(Sections[p])) + 1
<1>1. /\ TypeOK /\ p \in Procs /\ at[p] = "in" /\ step[p] \in 1..Len(Sections[p])
      /\ b \in Areas /\ sem[b] \in Nat
  BY SectionsAreas DEF IInv, TypeOK, WorkerPost, WorkerGive, Procs
<1>2. /\ Goto(p, "go", n) /\ run' = run /\ ready' = ready
      /\ sem' = [sem EXCEPT ![b] = @ + 1]
  BY DEF WorkerPost, WorkerGive
<1>3. n \in 1..Len(Sections[p]) /\ n \in 1..4
  BY <1>1, SectionsAreas
<1> HIDE DEF n
<1>4. TypeOK'
  <2>1. sem' \in [Areas -> Nat]
    BY <1>1, <1>2 DEF TypeOK
  <2>2. p # "server"
    BY DEF Workers
  <2>3. at' = [at EXCEPT ![p] = "go"] /\ step' = [step EXCEPT ![p] = n]
    BY <1>2 DEF Goto
  <2> QED
    BY <1>1, <1>2, <1>3, <2>1, <2>2, <2>3 DEF TypeOK
<1>5. ASSUME NEW a \in Areas PROVE Sum(sem'[a], at', step', a) = Sum(sem[a], at, step, a)
  <2>1. One(p, at[p], step[p], a) = (IF a = b THEN 1 ELSE 0) /\ One(p, "go", n, a) = 0
    BY <1>1, HeldInside, HeldOutside
  <2>2. sem'[a] = sem[a] + (IF a = b THEN 1 ELSE 0) /\ sem'[a] \in Nat /\ sem[a] \in Nat
    BY <1>1, <1>2, <1>4 DEF TypeOK
  <2>3. Sum(sem'[a], at', step', a) = Sum(sem[a], at, step, a) + 0
    BY <1>1, <1>2, <2>1, <2>2, StepOf
  <2> QED
    BY <1>1, <2>2, <2>3, SumNat
<1>6. Bounded' /\ Kept'
  BY <1>1, <1>2, <1>5, Neutral, WorkerIsNotServer
<1> QED
  BY <1>4, <1>6 DEF IInv

-----------------------------------------------------------------------------
\* Sem_init adds at most one permit to the semaphore it resets, and leaves
\* one in any case.
LEMMA SemInitKeeps ==
  ASSUME IInv, SemInit
  PROVE  IInv'
<1> DEFINE n == step["server"]
           b == InitOrder[n]
           label == IF n < 3 THEN "init" ELSE "wipe"
           m == IF n < 3 THEN n + 1 ELSE 1
<1>1. TypeOK /\ "server" \in Procs /\ at["server"] = "init" /\ n \in 1..3 /\ run \in Nat
  BY DEF IInv, TypeOK, SemInit, InitTo, Procs
<1>2. b \in Areas
  BY <1>1, Orders DEF Areas
<1>3. /\ Goto("server", label, m) /\ run' = run /\ ready' = ready
      /\ sem' = [sem EXCEPT ![b] = 1]
  BY DEF SemInit, InitTo
<1>4. m \in 1..3 /\ label \in {"init", "wipe"}
  BY <1>1
<1>5. at' = [at EXCEPT !["server"] = label] /\ step' = [step EXCEPT !["server"] = m]
  BY <1>3 DEF Goto
<1>6. at'["server"] = label /\ step'["server"] = m
  BY <1>1, <1>5 DEF TypeOK
<1>7. \A a \in Areas : Inited(a)' <=> Inited(a) \/ a = b
  <2>1. \A a \in Areas : a \in {InitOrder[1], InitOrder[2], InitOrder[3]}
    BY Orders DEF Areas
  <2> QED
    BY <1>1, <1>6, <2>1 DEF Inited
<1>8. ~Inited(b)
  BY <1>1, Orders DEF Inited
<1> HIDE DEF label, m
<1>9. TypeOK'
  <2>1. sem' \in [Areas -> Nat]
    BY <1>1, <1>3 DEF TypeOK
  <2>2. "server" \notin Workers
    BY DEF Workers
  <2> QED
    BY <1>1, <1>3, <1>4, <1>5, <2>1, <2>2 DEF TypeOK
<1>10. ASSUME NEW a \in Areas
       PROVE  Sum(sem'[a], at', step', a) =
                Sum(sem[a], at, step, a) + (IF a = b THEN 1 - sem[b] ELSE 0)
  <2>1. One("server", label, m, a) = 0 /\ One("server", at["server"], n, a) = 0
    BY <1>1, <1>4, HeldOutside
  <2>2. /\ sem'[a] = sem[a] + (IF a = b THEN 1 - sem[b] ELSE 0)
        /\ sem'[a] \in Nat /\ sem[a] \in Nat /\ sem[b] \in Nat
    BY <1>1, <1>2, <1>3, <1>9 DEF TypeOK
  <2> QED
    BY <1>1, <1>3, <2>1, <2>2, StepOf
<1>11. \A a \in Areas : /\ sem[a] \in Nat /\ Sum(sem[a], at, step, a) \in Nat
                        /\ Sum(sem[a], at, step, a) >= sem[a]
  <2>1. \A a \in Areas : sem[a] \in Nat
    BY <1>1 DEF TypeOK
  <2>2. \A q, l, k, a : One(q, l, k, a) \in Nat
    BY DEF One, Counts
  <2> QED
    BY <2>1, <2>2 DEF Sum
<1>12. Bounded'
  <2> SUFFICES ASSUME NEW a \in Areas
               PROVE  Sum(sem'[a], at', step', a) <= run' + (IF Inited(a)' THEN 1 ELSE 0)
    BY DEF Bounded
  <2>1. Sum(sem[a], at, step, a) <= run + (IF Inited(a) THEN 1 ELSE 0)
    BY DEF IInv, Bounded
  <2>2. CASE a = b
    BY <1>1, <1>3, <1>7, <1>8, <1>10, <1>11, <2>1, <2>2
  <2>3. CASE a # b
    BY <1>1, <1>3, <1>7, <1>10, <1>11, <2>1, <2>3
  <2> QED
    BY <2>2, <2>3
<1>13. Kept'
  <2> SUFFICES ASSUME run = MaxRuns
               PROVE  /\ at'["server"] # "dead"
                      /\ \A a \in Areas : Inited(a)' => Sum(sem'[a], at', step', a) >= 1
    BY <1>3 DEF Kept
  <2>1. ASSUME NEW a \in Areas, Inited(a)' PROVE Sum(sem'[a], at', step', a) >= 1
    <3>1. CASE a = b
      BY <1>10, <1>11, <2>1, <3>1
    <3>2. CASE a # b
      <4>1. Sum(sem[a], at, step, a) >= 1
        BY <1>7, <2>1, <3>2 DEF IInv, Kept
      <4> QED
        BY <1>10, <1>11, <2>1, <3>2, <4>1
    <3> QED
      BY <3>1, <3>2
  <2> QED
    BY <1>4, <1>6, <2>1
<1> QED
  BY <1>9, <1>12, <1>13 DEF IInv

\* The rest of the server's steps leave the permits alone.
LEMMA ServerStep ==
  ASSUME IInv, NEW label \in {"wait", "post"}, NEW n \in 1..3, Goto("server", label, n),
         at["server"] \in {"wipe", "wait", "post"}, run' = run, ready' \in BOOLEAN,
         sem' \in [Areas -> Nat],
         \A a \in Areas : sem'[a] + One("server", label, n, a) =
                            sem[a] + One("server", at["server"], step["server"], a)
  PROVE  IInv'
<1>1. TypeOK /\ "server" \in Procs /\ "server" \notin Workers
  BY DEF IInv, Procs, Workers
<1>2. at' = [at EXCEPT !["server"] = label] /\ step' = [step EXCEPT !["server"] = n]
  BY DEF Goto
<1>3. at'["server"] = label
  BY <1>1, <1>2 DEF TypeOK
<1>4. TypeOK'
  BY <1>1, <1>2 DEF TypeOK
<1>5. ASSUME NEW a \in Areas PROVE Sum(sem'[a], at', step', a) = Sum(sem[a], at, step, a)
  <2>1. /\ One("server", label, n, a) \in Nat
        /\ One("server", at["server"], step["server"], a) \in Nat
    BY DEF One, Counts
  <2>2. sem'[a] \in Nat /\ sem[a] \in Nat
    BY <1>1, <1>4 DEF TypeOK
  <2>3. sem'[a] + One("server", label, n, a) =
          sem[a] + One("server", at["server"], step["server"], a) + 0
    BY <2>1, <2>2
  <2>4. Sum(sem'[a], at', step', a) = Sum(sem[a], at, step, a) + 0
    BY <1>1, <2>2, <2>3, StepOf
  <2> QED
    BY <2>2, <2>4, SumNat
<1>6. \A a \in Areas : Inited(a)' = Inited(a)
  BY <1>3 DEF Inited
<1>7. Bounded' /\ Kept'
  BY <1>3, <1>5, <1>6, Neutral
<1> QED
  BY <1>4, <1>7 DEF IInv

LEMMA ReadyKeeps ==
  ASSUME IInv, Ready
  PROVE  IInv'
<1>1. /\ at["server"] = "wipe" /\ Goto("server", "wait", 1)
      /\ sem' = sem /\ ready' = TRUE /\ run' = run
  BY DEF Ready
<1>2. sem' \in [Areas -> Nat]
  BY <1>1 DEF IInv, TypeOK
<1>3. ASSUME NEW a \in Areas
      PROVE  sem'[a] + One("server", "wait", 1, a) =
               sem[a] + One("server", at["server"], step["server"], a)
  <2>1. One("server", "wait", 1, a) = 0
    BY HeldByServer
  <2>2. One("server", at["server"], step["server"], a) = 0
    BY <1>1, HeldOutside
  <2> QED
    BY <1>1, <2>1, <2>2
<1> QED
  BY <1>1, <1>2, <1>3, ServerStep

LEMMA ServerWaitKeeps ==
  ASSUME IInv, ServerWait
  PROVE  IInv'
<1> DEFINE n == step["server"]
           b == LockOrder[n]
           label == IF n < 3 THEN "wait" ELSE "post"
           m == IF n < 3 THEN n + 1 ELSE 3
<1>1. /\ at["server"] = "wait" /\ n \in 1..3 /\ sem \in [Areas -> Nat]
      /\ ready' = ready /\ run' = run /\ ready \in BOOLEAN
  BY DEF IInv, TypeOK, ServerWait, ServerTake
<1>2. b \in Areas
  BY <1>1, Orders DEF Areas
<1>3. Goto("server", label, m) /\ sem[b] >= 1 /\ sem' = [sem EXCEPT ![b] = @ - 1]
  BY DEF ServerWait, ServerTake
<1>4. m \in 1..3 /\ label \in {"wait", "post"}
  BY <1>1
<1>5. sem' \in [Areas -> Nat]
  BY <1>1, <1>2, <1>3
<1>6. ASSUME NEW a \in Areas
      PROVE  sem'[a] + One("server", label, m, a) = sem[a] + One("server", "wait", n, a)
  <2>1. One("server", label, m, a) =
          One("server", "wait", n, a) + (IF a = b THEN 1 ELSE 0)
    BY <1>1, HeldByServer
  <2>2. /\ sem'[a] = sem[a] - (IF a = b THEN 1 ELSE 0)
        /\ sem[a] \in Nat
    BY <1>1, <1>2, <1>3
  <2>3. One("server", "wait", n, a) \in Nat
    BY DEF One, Counts
  <2> QED
    BY <2>1, <2>2, <2>3
<1> HIDE DEF label, m
<1> QED
  BY <1>1, <1>3, <1>4, <1>5, <1>6, ServerStep

LEMMA ServerPostKeeps ==
  ASSUME IInv, ServerPost
  PROVE  IInv'
<1> DEFINE n == step["server"]
           b == LockOrder[n]
           label == IF n > 1 THEN "post" ELSE "wait"
           m == IF n > 1 THEN n - 1 ELSE 1
<1>1. /\ at["server"] = "post" /\ n \in 1..3 /\ sem \in [Areas -> Nat]
      /\ ready' = ready /\ run' = run /\ ready \in BOOLEAN
  BY DEF IInv, TypeOK, ServerPost, ServerGive
<1>2. b \in Areas
  BY <1>1, Orders DEF Areas
<1>3. Goto("server", label, m) /\ sem' = [sem EXCEPT ![b] = @ + 1]
  BY DEF ServerPost, ServerGive
<1>4. m \in 1..3 /\ label \in {"wait", "post"}
  BY <1>1
<1>5. sem' \in [Areas -> Nat]
  BY <1>1, <1>2, <1>3
<1>6. ASSUME NEW a \in Areas
      PROVE  sem'[a] + One("server", label, m, a) = sem[a] + One("server", "post", n, a)
  <2>1. One("server", label, m, a) = One("server", "wait", n, a)
    <3>1. CASE n = 1
      BY <3>1
    <3>2. CASE n > 1
      <4>1. n - 1 \in 1..3 /\ (n - 1) + 1 = n
        BY <1>1, <3>2
      <4> QED
        BY <3>2, <4>1, HeldByServer
    <3> QED
      BY <1>1, <3>1, <3>2
  <2>2. One("server", "post", n, a) =
          One("server", "wait", n, a) + (IF a = b THEN 1 ELSE 0)
    BY <1>1, HeldByServer
  <2>3. sem'[a] = sem[a] + (IF a = b THEN 1 ELSE 0) /\ sem[a] \in Nat
    BY <1>1, <1>2, <1>3
  <2>4. One("server", "wait", n, a) \in Nat
    BY DEF One, Counts
  <2> QED
    BY <2>1, <2>2, <2>3, <2>4
<1> HIDE DEF label, m
<1> QED
  BY <1>1, <1>3, <1>4, <1>5, <1>6, ServerStep

-----------------------------------------------------------------------------
(* A killed process takes the permits it holds with it.                    *)
LEMMA KillKeeps ==
  ASSUME IInv, NEW p \in Procs, Kill(p)
  PROVE  IInv'
<1>1. /\ TypeOK /\ run < MaxRuns /\ run' = run /\ ready' = ready /\ sem' = sem
      /\ Goto(p, "dead", 1)
  BY DEF IInv, Kill
<1>2. at' = [at EXCEPT ![p] = "dead"] /\ step' = [step EXCEPT ![p] = 1]
  BY <1>1 DEF Goto
<1>3. TypeOK'
  <2>1. ASSUME NEW q \in Workers PROVE 1 \in 1..Len(Sections[q])
    <3>1. Len(Sections[q]) \in 1..4
      BY SectionsAreas
    <3> QED
      BY <3>1, OneIsFirst
  <2>2. \A q \in Workers : q \in Procs
    BY DEF Procs
  <2> QED
    BY <1>1, <1>2, <2>1, <2>2 DEF TypeOK
<1>4. Kept'
  BY <1>1 DEF Kept, TypeOK
<1>5. \A a \in Areas : Inited(a) => Inited(a)'
  BY <1>1, <1>2 DEF Inited, TypeOK, Procs
<1>6. ASSUME NEW a \in Areas
      PROVE  Sum(sem'[a], at', step', a) <= Sum(sem[a], at, step, a)
  <2>1. One(p, "dead", 1, a) = 0
    BY HeldOutside
  <2>2. One(p, at[p], step[p], a) \in Nat
    BY DEF One, Counts
  <2>3. sem[a] \in Nat
    BY <1>1 DEF TypeOK
  <2>4. Sum(sem'[a], at', step', a) =
          Sum(sem[a], at, step, a) + (0 - One(p, at[p], step[p], a))
    BY <1>1, <2>1, <2>2, <2>3, StepOf
  <2> QED
    BY <2>2, <2>3, <2>4, SumNat
<1>7. Bounded'
  <2> SUFFICES ASSUME NEW a \in Areas
               PROVE  Sum(sem'[a], at', step', a) <= run' + (IF Inited(a)' THEN 1 ELSE 0)
    BY DEF Bounded
  <2>1. Sum(sem[a], at, step, a) <= run + (IF Inited(a) THEN 1 ELSE 0)
    BY DEF IInv, Bounded
  <2>2. /\ Sum(sem[a], at, step, a) \in Nat /\ Sum(sem'[a], at', step', a) \in Nat
        /\ run \in Nat
    BY <1>1, <1>3, SumNat DEF TypeOK
  <2> QED
    BY <1>1, <1>5, <1>6, <2>1, <2>2
<1> QED
  BY <1>3, <1>4, <1>7 DEF IInv

(* A new run finds the semaphores as they were left; nobody holds any.     *)
LEMMA RerunKeeps ==
  ASSUME IInv, Rerun
  PROVE  IInv'
<1>1. /\ TypeOK /\ run \in 1..MaxRuns /\ run < MaxRuns /\ run' = run + 1
      /\ sem' = sem /\ at' = StartAt /\ step' = [p \in Procs |-> 1] /\ ready' = FALSE
      /\ \A p \in Procs : at[p] = "dead"
  BY DEF IInv, Rerun, TypeOK
<1>2. /\ \A p \in Workers : at'[p] = "go" /\ step'[p] = 1
      /\ at'["server"] = "init" /\ step'["server"] = 1
  BY <1>1 DEF StartAt, Procs, Workers
<1>3. TypeOK'
  <2>1. ASSUME NEW q \in Workers PROVE 1 \in 1..Len(Sections[q])
    <3>1. Len(Sections[q]) \in 1..4
      BY SectionsAreas
    <3> QED
      BY <3>1, OneIsFirst
  <2>2. at' \in [Procs -> {"init", "wipe", "wait", "post", "go", "in", "dead"}]
    BY <1>1 DEF StartAt
  <2>3. /\ step' \in [Procs -> 1..4] /\ step'["server"] \in 1..3
        /\ run' \in 1..MaxRuns /\ sem' \in [Areas -> Nat]
    BY <1>1, <1>2 DEF TypeOK
  <2>4. ready' \in BOOLEAN
    BY <1>1
  <2> QED
    BY <1>2, <2>1, <2>2, <2>3, <2>4 DEF TypeOK
<1>4. \A a \in Areas : ~Inited(a)'
  BY <1>2 DEF Inited
<1>5. ASSUME NEW a \in Areas
      PROVE  Sum(sem'[a], at', step', a) = Sum(sem[a], at, step, a)
  <2>1. \A p \in Procs : \A n : One(p, at[p], n, a) = 0 /\ One(p, at'[p], n, a) = 0
    <3>1. \A p \in Procs : /\ at[p] \notin {"wait", "post", "in"}
                           /\ at'[p] \notin {"wait", "post", "in"}
      BY <1>1, <1>2 DEF Procs
    <3> QED
      BY <3>1, HeldOutside
  <2>2. "drone" \in Procs /\ "input" \in Procs /\ "map" \in Procs /\ "server" \in Procs
    BY DEF Procs, Workers
  <2> QED
    BY <1>1, <2>1, <2>2 DEF Sum
<1>6. Bounded'
  <2>1. \A a \in Areas : sem[a] \in Nat
    BY <1>1 DEF TypeOK
  <2>2. \A a \in Areas : Sum(sem[a], at, step, a) \in Nat
    BY <2>1, SumNat
  <2>3. \A a \in Areas : Sum(sem[a], at, step, a) <= run + 1
    BY <1>1, <2>2 DEF IInv, Bounded
  <2> QED
    BY <1>1, <1>4, <1>5, <2>3 DEF Bounded
<1>7. Kept'
  BY <1>2, <1>4 DEF Kept
<1> QED
  BY <1>3, <1>6, <1>7 DEF IInv

-----------------------------------------------------------------------------
LEMMA Initially == Init => IInv
<1> SUFFICES ASSUME Init PROVE IInv
  OBVIOUS
<1>1. /\ \A p \in Workers : at[p] = "go" /\ step[p] = 1
      /\ at["server"] = "init" /\ step["server"] = 1
  BY DEF Init, StartAt, Procs, Workers
<1>2. TypeOK
  <2>1. ASSUME NEW q \in Workers PROVE 1 \in 1..Len(Sections[q])
    <3>1. Len(Sections[q]) \in 1..4
      BY SectionsAreas
    <3> QED
      BY <3>1, OneIsFirst
  <2>2. at \in [Procs -> {"init", "wipe", "wait", "post", "go", "in", "dead"}]
    BY DEF Init, StartAt
  <2>3. /\ step \in [Procs -> 1..4] /\ step["server"] \in 1..3
        /\ run \in 1..MaxRuns /\ sem \in [Areas -> Nat]
    BY <1>1 DEF Init
  <2>4. ready \in BOOLEAN
    BY DEF Init
  <2> QED
    BY <1>1, <2>1, <2>2, <2>3, <2>4 DEF TypeOK
<1>3. \A a \in Areas : ~Inited(a)
  BY <1>1 DEF Inited
<1>4. ASSUME NEW a \in Areas PROVE Sum(sem[a], at, step, a) = 1
  <2>1. \A p \in Procs : at[p] \notin {"wait", "post", "in"}
    BY <1>1 DEF Procs
  <2>2. \A p \in Procs : \A n : One(p, at[p], n, a) = 0
    BY <2>1, HeldOutside
  <2>3. "drone" \in Procs /\ "input" \in Procs /\ "map" \in Procs /\ "server" \in Procs
    BY DEF Procs, Workers
  <2> QED
    BY <2>2, <2>3 DEF Sum, Init
<1>5. Bounded
  BY <1>3, <1>4 DEF Bounded, Init
<1>6. Kept
  BY <1>1, <1>3 DEF Kept
<1> QED
  BY <1>2, <1>5, <1>6 DEF IInv

LEMMA Invariant == Spec => []IInv
<1>1. IInv /\ [Next]_vars => IInv'
  <2> SUFFICES ASSUME IInv, [Next]_vars PROVE IInv'
    OBVIOUS
  <2>1. ASSUME NEW p \in Procs, Step(p) PROVE IInv'
    BY <2>1, SemInitKeeps, ReadyKeeps, ServerWaitKeeps, ServerPostKeeps,
       WorkerWaitKeeps, WorkerPostKeeps DEF Step
  <2>2. ASSUME NEW p \in Procs, Kill(p) PROVE IInv'
    BY <2>2, KillKeeps
  <2>3. CASE Rerun
    BY <2>3, RerunKeeps
  <2>4. CASE UNCHANGED vars
    <3>1. sem' = sem /\ at' = at /\ step' = step /\ ready' = ready /\ run' = run
      BY <2>4 DEF vars
    <3>2. TypeOK'
      BY <3>1 DEF IInv, TypeOK
    <3>3. Bounded' /\ Kept'
      BY <3>1, Neutral DEF Inited
    <3> QED
      BY <3>2, <3>3 DEF IInv
  <2> QED
    BY <2>1, <2>2, <2>3, <2>4 DEF Next
<1> QED
  BY <1>1, Initially, PTL DEF Spec

-----------------------------------------------------------------------------
(* Type correctness; in particular the server is never in a worker's loop, *)
(* and no semaphore goes below 0.                                          *)
THEOREM SemaphoreTypes == Spec => []TypeOK
<1>1. IInv => TypeOK
  BY DEF IInv
<1> QED
  BY <1>1, Invariant, PTL

(* However many runs there have been, and wherever they were killed, a     *)
(* semaphore has at most one permit per run more than it should have.      *)
THEOREM PermitsStayBounded == Spec => []PermitsBounded
<1>1. IInv => PermitsBounded
  <2> SUFFICES ASSUME IInv, NEW a \in Areas PROVE Permits(a) <= 1 + run
    BY DEF PermitsBounded
  <2>1. Permits(a) = Sum(sem[a], at, step, a) /\ sem[a] \in Nat /\ run \in Nat
    BY PermitsAreSum DEF IInv, TypeOK
  <2>2. Sum(sem[a], at, step, a) <= run + (IF Inited(a) THEN 1 ELSE 0)
    BY DEF IInv, Bounded
  <2> QED
    BY <2>1, <2>2, SumNat
<1> QED
  BY <1>1, Invariant, PTL

(* After any number of killed runs, the initialisation of the one that     *)
(* survives leaves each semaphore a permit, and the loops never lose it.   *)
THEOREM PermitsKept == Spec => []PermitsNotLost
<1>1. IInv => PermitsNotLost
  BY PermitsAreSum DEF IInv, Kept, Inited, PermitsNotLost
<1> QED
  BY <1>1, Invariant, PTL
=============================================================================
