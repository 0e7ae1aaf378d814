---------------------------- MODULE MCConfigAdmin ----------------------------
(* Small instances of ConfigAdmin for TLC.                                 *)
EXTENDS ConfigAdmin, TLC

Handlers == Permutations(Admins)

(* Handlers, mounts, and files but for the template and the edited ones,   *)
(* are interchangeable.                                                    *)
Interchangeable ==
  Permutations(Admins) \cup Permutations(Mounts)
    \cup Permutations(Files \ (Edited \cup {Template}))
=============================================================================
