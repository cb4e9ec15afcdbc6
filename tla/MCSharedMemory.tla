---------------------------- MODULE MCSharedMemory ----------------------------
(***************************************************************************)
(* Instances of SharedMemory for TLC.                                      *)
(***************************************************************************)
EXTENDS SharedMemory

\* One run, in which the user pushes the drone and stops it.
OneRun == <<{"c", "s"}>>

\* The first run's user pushes the drone, the second one's never does.
ThenIdle == <<{"c"}, {"s", "none"}>>
=============================================================================
