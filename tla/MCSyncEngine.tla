---------------------------- MODULE MCSyncEngine ----------------------------
(* Instances of SyncEngine for TLC.                                         *)
EXTENDS SyncEngine, TLC

MCHashOf == [c \in Contents |-> <<"mac", c>>]
MCHashes == {<<"mac", c>> : c \in Contents}
MCNoHash == <<>>

CONSTANTS note, copy        \* a path and its conflict copy

MCOnePath   == <<note>>
MCTwoPaths  == <<copy, note>>
MCNoCopy    == [p \in {} |-> p]
MCCopy      == [p \in {note} |-> copy]

\* One device, or none, ignores the second path.
CONSTANT Ignorer
MCIgnored   == [d \in Devices |-> IF d = Ignorer THEN {copy} ELSE {}]

Symmetry == Permutations(Devices) \cup Permutations(Contents)
=============================================================================
