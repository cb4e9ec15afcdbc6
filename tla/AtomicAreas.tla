------------------------------ MODULE AtomicAreas ------------------------------
(***************************************************************************)
(* What the shared memory promises the four processes, with no semaphore,  *)
(* no loop and no half-written text: three registers.                      *)
(*                                                                         *)
(*   - the drone publishes its current iteration in "position" and then in *)
(*     "velocity"; nobody else does;                                       *)
(*   - a key changes the force it finds in the register in one step, so no *)
(*     key press is lost or applied to a value already replaced;           *)
(*   - a reader replaces what it knows by what the register holds;         *)
(*   - registers are cleared only while nobody has looked or moved.        *)
(***************************************************************************)
EXTENDS Integers

CONSTANTS MaxForce, MaxCycle, MaxRuns, Keys, Blank

Areas == {"force", "velocity", "position"}
Readers == {<<"drone", "force">>, <<"map", "position">>,
            <<"input", "position">>, <<"input", "velocity">>}
             \cup ({"server"} \X Areas)

VARIABLES
  reg,    \* what each register holds
  view,   \* view[<<p, a>>]: what reader p last saw in register a
  cycle,  \* the drone's iteration
  run

vars == <<reg, view, cycle, run>>

\* What a reader takes for granted before it has seen anything.
Assumed == [r \in Readers |->
              IF r \in {<<"drone", "force">>, <<"input", "velocity">>}
                THEN 0 ELSE Blank]

Init ==
  /\ reg = [a \in Areas |-> Blank]
  /\ view = Assumed
  /\ cycle = 0
  /\ run = 1

Following(v) == IF v < MaxCycle THEN v + 1 ELSE MaxCycle

Clamp(v) == CASE v > MaxForce  -> MaxForce
              [] v < -MaxForce -> -MaxForce
              [] OTHER         -> v

After(v, k) == CASE k = "c"    -> Clamp(v + 1)
                 [] k = "q"    -> Clamp(v - 1)
                 [] k = "s"    -> 0
                 [] k = "none" -> v

Advance ==
  /\ cycle' = Following(cycle)
  /\ UNCHANGED <<reg, view, run>>

PublishPosition ==
  /\ reg' = [reg EXCEPT !["position"] = cycle]
  /\ UNCHANGED <<view, cycle, run>>

PublishVelocity ==
  /\ reg["position"] = cycle
  /\ reg' = [reg EXCEPT !["velocity"] = cycle]
  /\ UNCHANGED <<view, cycle, run>>

ChangeForce ==
  /\ \E k \in Keys[run] :
       reg' = [reg EXCEPT !["force"] =
                 After(IF reg["force"] = Blank THEN 0 ELSE reg["force"], k)]
  /\ UNCHANGED <<view, cycle, run>>

Observe(r) ==
  /\ reg[r[2]] # Blank
  /\ view' = [view EXCEPT ![r] = reg[r[2]]]
  /\ UNCHANGED <<reg, cycle, run>>

Fresh == view = Assumed /\ cycle = 0

Clear ==
  /\ Fresh
  /\ \E a \in Areas : reg' = [reg EXCEPT ![a] = Blank]
  /\ UNCHANGED <<view, cycle, run>>

\* A reader or the drone dies and forgets what it knew.
Forget(p) ==
  /\ run < MaxRuns
  /\ view' = [r \in Readers |-> IF r[1] = p THEN Assumed[r] ELSE view[r]]
  /\ cycle' = IF p = "drone" THEN 0 ELSE cycle
  /\ UNCHANGED <<reg, run>>

Restart ==
  /\ Fresh
  /\ run < MaxRuns
  /\ run' = run + 1
  /\ UNCHANGED <<reg, view, cycle>>

Next == \/ Advance \/ PublishPosition \/ PublishVelocity \/ ChangeForce
        \/ Clear \/ Restart
        \/ \E r \in Readers : Observe(r)
        \/ \E p \in {"server", "drone", "input", "map"} : Forget(p)

Spec == Init /\ [][Next]_vars
=============================================================================
