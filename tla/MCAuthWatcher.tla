---- MODULE MCAuthWatcher ----
(* The instance of AuthWatcher for TLC: goroutines of one kind are alike. *)
EXTENDS AuthWatcher, TLC

WatcherSymmetry ==
    Permutations(Versions) \cup Permutations(Reloaders) \cup Permutations(Callers)
====
