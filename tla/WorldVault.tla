----------------------------- MODULE WorldVault -----------------------------
(***************************************************************************)
(* What the backup pages promise about a server's world, without how it is *)
(* kept: only the game, a restore and a reset change the world; a restore  *)
(* changes it in one go, to what an archive holds, or not at all; and an   *)
(* archive, once made, is not altered.  Only a failure PZAdmin cannot undo *)
(* leaves anything else behind.                                            *)
(***************************************************************************)
EXTENDS Naturals

CONSTANTS Parts,      \* the folders: the world and the settings
          Content,    \* what a folder may hold
          Made        \* what the game may make of it

VARIABLES world,      \* what each folder holds
          vault,      \* everything ever archived
          failures    \* calls that failed, and crashes

Init == /\ \E w \in Made : world = [p \in Parts |-> w]
        /\ vault = {}
        /\ failures = 0

Play == /\ \E w \in Made : world' = [p \in Parts |-> w]
        /\ UNCHANGED <<vault, failures>>

\* An archive holds each folder as it is, not at all, or as a mixture of
\* what it was while it was read.
Archive ==
    /\ \E a \in vault' :
         /\ \A p \in Parts : a[p] \in {world[p], "none", "mixed"}
         /\ vault' = vault \cup {a}
    /\ UNCHANGED <<world, failures>>

\* A folder the archive has is replaced; a folder it lacks stays.
Restore ==
    /\ \E a \in vault, targets \in SUBSET Parts :
         world' = [p \in Parts |-> IF p \in targets THEN a[p] ELSE world[p]]
    /\ UNCHANGED <<vault, failures>>

Reset == /\ world' = [world EXCEPT !["Saves"] = "empty"]
         /\ UNCHANGED <<vault, failures>>

Failure == /\ failures' = failures + 1
           /\ world' \in [Parts -> Content]
           /\ UNCHANGED vault

Next == Play \/ Archive \/ Restore \/ Reset \/ Failure

Spec == Init /\ [][Next]_<<world, vault, failures>>
=============================================================================
