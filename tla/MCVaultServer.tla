--------------------------- MODULE MCVaultServer ---------------------------
(* Instances of VaultServer for TLC.  The hash of a content is a tagged     *)
(* value, so that a hash is never mistaken for the content itself.          *)
EXTENDS VaultServer, TLC

CONSTANTS big, huge     \* contents that take more than one byte

MCHashOf == [c \in Contents |-> <<"mac", c>>]
MCHashes == {<<"mac", c>> : c \in Contents}
MCNoHash == <<>>
MCSize   == [c \in Contents |-> IF c = huge THEN 9 ELSE IF c = big THEN 2 ELSE 1]

\* Request slots are interchangeable.
Symmetry == Permutations(Requests)
=============================================================================
