------------------------------- MODULE MCConfig -------------------------------
(***************************************************************************)
(* Instances of Config for TLC.                                            *)
(***************************************************************************)
EXTENDS Config, TLC

\* Nothing tells one section, or one key, from another.
Names == Permutations(Sections) \cup Permutations(Keys)
=============================================================================
