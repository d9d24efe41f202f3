---- MODULE LatestVersion ----
(***************************************************************************)
(* What the way of an update from the watcher to the manager promises,    *)
(* and nothing of how: the updates of a credential are numbered in the     *)
(* order in which they are handed over, the manager may skip some of them  *)
(* but never goes back to an older one, and it gets to the last one.       *)
(*                                                                         *)
(* docs/sdk-watcher.md: "updates continue to be merged, so the latest      *)
(* state is eventually applied without replaying redundant intermediate    *)
(* states".                                                                *)
(***************************************************************************)
EXTENDS Naturals

CONSTANT Ids

VARIABLES
    asked,   \* how many updates of a credential have been handed over
    held     \* the number of the one the manager holds, 0 before the first

vars == <<asked, held>>

Init ==
    /\ asked = [i \in Ids |-> 0]
    /\ held = [i \in Ids |-> 0]

\* Updates of several credentials are handed over at once.
Ask(S) ==
    /\ asked' = [i \in Ids |-> IF i \in S THEN asked[i] + 1 ELSE asked[i]]
    /\ UNCHANGED held

\* The manager goes on to a later update, maybe skipping some.
Take(i) ==
    /\ \E n \in held[i] + 1 .. asked[i] : held' = [held EXCEPT ![i] = n]
    /\ UNCHANGED asked

Next ==
    \/ \E S \in SUBSET Ids : Ask(S)
    \/ \E i \in Ids : Take(i)

SafeSpec == Init /\ [][Next]_vars

Spec == SafeSpec /\ \A i \in Ids : WF_vars(Take(i))
====
