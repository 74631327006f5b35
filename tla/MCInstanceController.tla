-------------------------- MODULE MCInstanceController --------------------------
(* Small instances of InstanceController for TLC. *)
EXTENDS InstanceController, TLC

\* Pods, instances and Secrets are interchangeable in the safety runs.
PodSymmetry == Permutations(Pods)
NameSymmetry == Permutations(Objects) \cup Permutations(Secrets)
================================================================================
