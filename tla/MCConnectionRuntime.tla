------------------------- MODULE MCConnectionRuntime -------------------------
(* Small instances of ConnectionRuntime for TLC.                           *)
EXTENDS ConnectionRuntime, TLC

Interchangeable == Permutations(Threads) \cup Permutations(Names \ Drivers)

(* Requests that list the connections share nothing: one at a time is      *)
(* enough where two requests are about what they share, the cache.         *)
OneLists == \A t, u \in Threads : t # u => ~({pc[t], pc[u]} \subseteq Listing)

(* Two requests at once are for one name, since what they share is its     *)
(* entry in the cache; a request alone is among all the names, so that     *)
(* these come and go while it lists.                                       *)
Alone    == \E t \in Threads : pc[t] = "ready"
Unused(n) ==
  /\ connFile[n] = None
  /\ \A t \in Threads : n \notin left[t] \cup found[t]
Share(n) == /\ \A t \in Threads : name[t] = n
            /\ \A m \in Names \ {n} : cache[m] = None
OneOrTwo ==
  \/ Alone
  \/ /\ OneLists
     /\ \E n \in Names : Share(n)
     /\ \E n \in Names \ Drivers : Unused(n)
=============================================================================
