------------------------------ MODULE MCDaemon ------------------------------
(* Instances of Daemon for TLC.                                             *)
EXTENDS Daemon, TLC

\* Paths are interchangeable, and versions are only compared.
Symmetry == Permutations(Paths) \cup Permutations(Versions)
=============================================================================
