---- MODULE AuthWatcher ----
(***************************************************************************)
(* The watcher's view of the credentials and how it follows its sources:   *)
(* files (file system events), the configuration (reloads) and calls of    *)
(* the service (websocket channels, files it has just saved).  Every       *)
(* change commits to the view under clientsMutex and hands its updates     *)
(* over later, under dispatchMu: UpdatePipeline says what happens to them  *)
(* then, here "sent" is the last one of each credential.                   *)
(*                                                                         *)
(* A file is a credential, and so is a key of the configuration and a      *)
(* websocket channel.  A version stands for the content of a credential    *)
(* that authEqual compares and for the hash of its file.                   *)
(***************************************************************************)
EXTENDS Naturals, Sequences, FiniteSets

CONSTANTS
    Files, Keys, Channels,  \* credentials of each source
    Versions,               \* contents
    None,                   \* no file, no key, no credential
    Torn,                   \* a file that is empty or half written
    Reloaders,              \* goroutines of the start and of the reload timer
    Callers,                \* goroutines of the service that call the watcher
    Handler,                \* the goroutine of processEvents
    MaxWrites, MaxReloads, MaxCalls  \* bounds on what the environment does

Ids == Files \cup Keys \cup Channels
Val == Versions \cup {None}
Procs == {Handler} \cup Reloaders \cup Callers

ASSUME WatcherAssumption ==
    /\ None \notin Versions /\ Torn \notin Versions /\ None # Torn
    /\ Files \cap Keys = {} /\ Channels \cap (Files \cup Keys) = {}
    /\ Reloaders \cap Callers = {} /\ Handler \notin Reloaders \cup Callers
    /\ {MaxWrites, MaxReloads, MaxCalls} \subseteq Nat

VARIABLES
    disk,        \* content of every file
    events,      \* fsnotify.Events
    config,      \* w.config: the content of every key
    hashes,      \* w.lastAuthHashes
    known,       \* files with an entry in w.fileAuthsByPath
    recent,      \* files whose last removal lies within the debounce window
    started,     \* w.currentAuths is not nil
    current,     \* w.currentAuths
    runtime,     \* w.runtimeAuths
    sent,        \* the last update handed over, per credential
    job,         \* where every goroutine is, with what it carries
    bounds,      \* what is left of the three bounds
    \* History of what makes the view or what was sent differ from the source:
    overwritten, \* files whose view was set to what the hash cache or the file is not
    forgotten,   \* files whose removal was ignored
    unreported,  \* credentials dropped from the view without an update
    crossed      \* credentials of which two updates were on the way at once

code == <<hashes, known, recent, started, current, runtime, sent>>
history == <<overwritten, forgotten, unreported, crossed>>
watcherVars == <<disk, events, config, code, job, bounds, history>>

----
(* Helpers *)

Idle == [at |-> "idle"]

\* The credentials whose update p has committed and not handed over.
OnTheWay(p) == IF job[p].at = "dispatch" THEN DOMAIN job[p].out ELSE {}

\* p goes on with job j, which is free to be "dispatch" with no update.
Goto(p, j) ==
    job' = [job EXCEPT ![p] =
               IF j.at = "dispatch" /\ DOMAIN j.out = {} THEN Idle ELSE j]

ToDispatch(out) == [at |-> "dispatch", out |-> out]

\* Updates of the credentials S that are committed now, by p.
Committing(p, S) ==
    LET others == UNION {OnTheWay(q) : q \in Procs \ {p}}
    IN  /\ crossed' = (crossed \ S) \cup (S \cap others)
        /\ unreported' = unreported \ S

Readable(f) == IF disk[f] \in Versions THEN disk[f] ELSE None

\* Mutant of AuthFileUnchanged: a file whose hash is cached is unchanged.
AuthFileCached(f) == disk[f] \in Versions /\ hashes[f] # None

\* authFileUnchanged.
AuthFileUnchanged(f) == disk[f] \in Versions /\ hashes[f] = disk[f]

\* authRescanMu is held by the handler during an event and by the start
\* during its scan.
RescanFree ==
    /\ job[Handler].at \notin {"stat", "read", "hash", "commit", "remove", "dispatch"}
    /\ \A r \in Reloaders : job[r].at # "scanned"

----
(* The environment *)

\* Somebody writes a file in place, truncating it first, or replaces it; on
\* some platforms replacing also shows as a removal.
WriteFile(f, c) ==
    /\ bounds.writes > 0
    /\ c # disk[f]
    /\ disk' = [disk EXCEPT ![f] = c]
    /\ \/ events' = Append(events, [file |-> f, gone |-> c = None])
       \/ /\ disk[f] \in Versions /\ c \in Versions
          /\ events' = events \o <<[file |-> f, gone |-> TRUE],
                                   [file |-> f, gone |-> FALSE]>>
    /\ bounds' = [bounds EXCEPT !.writes = @ - 1]
    /\ UNCHANGED <<config, code, job, history>>

\* authRemoveDebounceWindow passes.
WindowPasses(f) ==
    /\ f \in recent
    /\ recent' = recent \ {f}
    /\ UNCHANGED <<disk, events, config, hashes, known, started, current,
                   runtime, sent, job, bounds, history>>

----
(* processEvents and handleEvent *)

HandleWrite ==
    /\ events # <<>> /\ ~Head(events).gone
    /\ job[Handler] = Idle /\ RescanFree
    /\ events' = Tail(events)
    /\ LET f == Head(events).file
       IN  Goto(Handler, IF AuthFileUnchanged(f) THEN Idle
                         ELSE [at |-> "read", file |-> f])
    /\ UNCHANGED <<disk, config, code, bounds, history>>

\* shouldDebounceRemove: a second removal within the window is dropped.
HandleRemove ==
    /\ events # <<>> /\ Head(events).gone
    /\ job[Handler] = Idle /\ RescanFree
    /\ events' = Tail(events)
    /\ LET f == Head(events).file
       IN  \/ /\ f \in recent
              /\ forgotten' = IF disk[f] = None THEN forgotten \cup {f} ELSE forgotten
              /\ UNCHANGED <<job, recent>>
           \/ /\ f \notin recent
              /\ recent' = recent \cup {f}
              /\ Goto(Handler, [at |-> "stat", file |-> f])
              /\ UNCHANGED forgotten
    /\ UNCHANGED <<disk, config, hashes, known, started, current, runtime, sent,
                   bounds, overwritten, unreported, crossed>>

\* After replaceCheckDelay: a file that is there again is an update, one that
\* the hash cache does not know is ignored.
StatFile ==
    /\ job[Handler].at = "stat"
    /\ LET f == job[Handler].file
       IN  \/ /\ disk[f] # None
              /\ Goto(Handler, IF AuthFileUnchanged(f) THEN Idle
                               ELSE [at |-> "read", file |-> f])
              /\ UNCHANGED forgotten
           \/ /\ disk[f] = None /\ hashes[f] = None
              /\ Goto(Handler, Idle)
              /\ forgotten' = forgotten \cup {f}
           \/ /\ disk[f] = None /\ hashes[f] # None
              /\ Goto(Handler, [at |-> "remove", file |-> f])
              /\ UNCHANGED forgotten
    /\ UNCHANGED <<disk, events, config, code, bounds, overwritten, unreported,
                   crossed>>

\* addOrUpdateClientLocked reads the file ...
ReadFile ==
    /\ job[Handler].at = "read"
    /\ LET f == job[Handler].file
       IN  Goto(Handler, IF disk[f] \in Versions
                         THEN [at |-> "hash", file |-> f, data |-> disk[f]]
                         ELSE Idle)
    /\ UNCHANGED <<disk, events, config, code, bounds, history>>

\* ... compares and sets the hash under clientsMutex ...
CheckHash ==
    /\ job[Handler].at = "hash"
    /\ LET f == job[Handler].file
           v == job[Handler].data
       IN  /\ hashes' = [hashes EXCEPT ![f] = v]
           /\ Goto(Handler, IF hashes[f] = v THEN Idle
                            ELSE [at |-> "commit", file |-> f, data |-> v])
    /\ UNCHANGED <<disk, events, config, known, recent, started, current, runtime,
                   sent, bounds, history>>

\* ... and commits what it made of it under clientsMutex again.
CommitFile ==
    /\ job[Handler].at = "commit"
    /\ LET f == job[Handler].file
           v == job[Handler].data
           out == IF current[f] = v THEN {} ELSE {f}
       IN  /\ known' = known \cup {f}
           /\ current' = [current EXCEPT ![f] = v]
           /\ Goto(Handler, ToDispatch([i \in out |-> v]))
           /\ Committing(Handler, out)
           /\ overwritten' = overwritten \ {f}
           /\ forgotten' = forgotten \ {f}
    /\ started' = TRUE
    /\ UNCHANGED <<disk, events, config, hashes, recent, runtime, sent, bounds>>

\* The credentials that go with a file: oldByID of removeClientLocked.
\* Mutant: read when the entry of the file has been deleted.
GoneWithTooLate(f) == {}

GoneWith(f) == {f} \cap known

RemoveClient ==
    /\ job[Handler].at = "remove"
    /\ LET f == job[Handler].file
           out == GoneWith(f)
       IN  /\ hashes' = [hashes EXCEPT ![f] = None]
           /\ known' = known \ {f}
           /\ current' = [i \in Ids |-> IF i \in out THEN None ELSE current[i]]
           /\ Goto(Handler, ToDispatch([i \in out |-> None]))
           /\ Committing(Handler, out)
           /\ overwritten' = overwritten \ out
           /\ forgotten' = forgotten \ {f}
    /\ started' = TRUE
    /\ UNCHANGED <<disk, events, config, recent, runtime, sent, bounds>>

----
(* Reloads *)

\* reloadConfig: a new configuration with, maybe, other excluded models of the
\* providers of the credentials "affected", or a change that forces updates.
ReloadConfig(p, c, affected, force) ==
    /\ bounds.reloads > 0
    /\ job[p] = Idle
    /\ config' = c
    /\ Goto(p, [at |-> IF affected = {} THEN "snapshot" ELSE "filter",
                affected |-> affected, force |-> force])
    /\ bounds' = [bounds EXCEPT !.reloads = @ - 1]
    /\ UNCHANGED <<disk, events, code, history>>

\* reloadClients drops the credentials of these providers from the view so that
\* the refresh below finds them new.
FilterView(p) ==
    /\ job[p].at = "filter"
    /\ current' = [i \in Ids |-> IF i \in job[p].affected THEN None ELSE current[i]]
    /\ Goto(p, [job[p] EXCEPT !.at = "snapshot"])
    /\ UNCHANGED <<disk, events, config, hashes, known, recent, started, runtime,
                   sent, bounds, history>>

\* The scan at the start, under authRescanMu: read the files, then replace the
\* cache.
ScanFiles(p) ==
    /\ job[p].at = "scan"
    /\ RescanFree
    /\ Goto(p, [at |-> "scanned", seen |-> [f \in Files |-> Readable(f)]])
    /\ UNCHANGED <<disk, events, config, code, bounds, history>>

ReplaceCache(p) ==
    /\ job[p].at = "scanned"
    /\ hashes' = job[p].seen
    /\ known' = {f \in Files : job[p].seen[f] # None}
    /\ Goto(p, [at |-> "snapshot", affected |-> {}, force |-> FALSE])
    /\ UNCHANGED <<disk, events, config, recent, started, current, runtime, sent,
                   bounds, history>>

\* refreshAuthState reads the files without any lock ...
SnapshotCoreAuths(p) ==
    /\ job[p].at = "snapshot"
    /\ Goto(p, [at |-> "refresh", force |-> job[p].force,
                view |-> [i \in Files \cup Keys |->
                             IF i \in Files THEN Readable(i) ELSE config[i]]])
    /\ UNCHANGED <<disk, events, config, code, bounds, history>>

\* The credentials p has read, with those of the channels as they are now.
\* Mutant: the channels are left out.
NewStateOfSources(p) == [i \in Ids |-> IF i \in Channels THEN None ELSE job[p].view[i]]

NewState(p) == [i \in Ids |-> IF i \in Channels THEN runtime[i] ELSE job[p].view[i]]

\* The credentials of which a refresh with the state "new" makes an update.
Had(i) == started /\ current[i] # None

AddedOrModified(new, force) ==
    {i \in Ids : new[i] # None /\ (~Had(i) \/ force \/ new[i] # current[i])}

\* Mutant: credentials that are gone are not looked for.
DifferenceOfNew(new, force) == AddedOrModified(new, force)

Difference(new, force) ==
    AddedOrModified(new, force) \cup {i \in Ids : new[i] = None /\ Had(i)}

\* Another goroutine is about to make a file part of the view.
ReadBefore(p, f) ==
    \E q \in Reloaders \ {p} : job[q].at = "refresh" /\ job[q].view[f] # None

\* ... and prepareAuthUpdatesLocked makes the view what it read, whatever the
\* view has become meanwhile, and the updates the difference.
RefreshAuthState(p) ==
    /\ job[p].at = "refresh"
    /\ LET new == NewState(p)
           out == Difference(new, job[p].force)
           others == UNION {OnTheWay(q) : q \in Procs \ {p}}
           absent == {i \in Ids : /\ new[i] = None /\ ~Had(i)
                                  /\ sent[i] # None \/ i \in others}
       IN  /\ current' = new
           /\ Goto(p, ToDispatch([i \in out |-> new[i]]))
           /\ crossed' = (crossed \ out) \cup (out \cap others)
           /\ unreported' = (unreported \ out) \cup absent
           /\ overwritten' = {f \in Files : new[f] # hashes[f]}
           /\ forgotten' = forgotten \ {f \in Files : new[f] = None /\ ~ReadBefore(p, f)}
    /\ started' = TRUE
    /\ UNCHANGED <<disk, events, config, hashes, known, recent, runtime, sent, bounds>>

----
(* Calls of the service *)

\* dispatchRuntimeAuthUpdate: a websocket channel has come or gone.
RuntimeUpdate(p, c, v) ==
    /\ bounds.calls > 0
    /\ job[p] = Idle
    /\ runtime' = [runtime EXCEPT ![c] = v]
    /\ current' = [current EXCEPT ![c] = v]
    /\ started' = (started \/ v # None)
    /\ Goto(p, ToDispatch([i \in {c} |-> v]))
    /\ Committing(p, {c})
    /\ bounds' = [bounds EXCEPT !.calls = @ - 1]
    /\ UNCHANGED <<disk, events, config, hashes, known, recent, sent, overwritten,
                   forgotten>>

\* A login saves the file of a credential ...
SaveAuth(p, f, v) ==
    /\ bounds.calls > 0
    /\ job[p] = Idle
    /\ disk' = [disk EXCEPT ![f] = v]
    /\ events' = Append(events, [file |-> f, gone |-> FALSE])
    /\ Goto(p, [at |-> "persisted", file |-> f, data |-> v])
    /\ bounds' = [bounds EXCEPT !.calls = @ - 1]
    /\ UNCHANGED <<config, code, history>>

\* ... and tells the watcher, which does not know the hash of the file:
\* dispatchPersistedAuthUpdate.
PersistedUpdate(p) ==
    /\ job[p].at = "persisted"
    /\ LET f == job[p].file
           v == job[p].data
       IN  /\ known' = known \cup {f}
           /\ current' = [current EXCEPT ![f] = v]
           /\ Goto(p, ToDispatch([i \in {f} |-> v]))
           /\ Committing(p, {f})
           /\ overwritten' = IF hashes[f] = v /\ disk[f] = v
                             THEN overwritten \ {f} ELSE overwritten \cup {f}
    /\ started' = TRUE
    /\ UNCHANGED <<disk, events, config, hashes, recent, runtime, sent, bounds,
                   forgotten>>

----
\* dispatchAuthUpdates of every goroutine, under dispatchMu.
DispatchAuthUpdates(p) ==
    /\ job[p].at = "dispatch"
    /\ sent' = [i \in Ids |-> IF i \in OnTheWay(p) THEN job[p].out[i] ELSE sent[i]]
    /\ Goto(p, Idle)
    /\ UNCHANGED <<disk, events, config, hashes, known, recent, started, current,
                   runtime, bounds, history>>

\* Manager.Load has filled the manager from the files before the watcher
\* exists; a file may have gone by the time it does.
WatcherInit ==
    /\ sent \in [Ids -> Val]
    /\ \A i \in Ids \ Files : sent[i] = None
    /\ disk \in [Files -> Val]
    /\ \A f \in Files : disk[f] \in {None, sent[f]}
    /\ config \in [Keys -> Val]
    /\ events = <<>>
    /\ hashes = [f \in Files |-> None]
    /\ known = {} /\ recent = {} /\ started = FALSE
    /\ current = [i \in Ids |-> None]
    /\ runtime = [c \in Channels |-> None]
    /\ \E s \in Reloaders :
          job = [p \in Procs |-> IF p = s THEN [at |-> "scan"] ELSE Idle]
    /\ bounds = [writes |-> MaxWrites, reloads |-> MaxReloads, calls |-> MaxCalls]
    /\ overwritten = {} /\ forgotten = {} /\ unreported = {} /\ crossed = {}

WatcherNext ==
    \/ \E f \in Files : WindowPasses(f)
    \/ \E f \in Files, c \in Val \cup {Torn} : WriteFile(f, c)
    \/ HandleWrite \/ HandleRemove \/ StatFile \/ ReadFile \/ CheckHash
    \/ CommitFile \/ RemoveClient
    \/ \E p \in Reloaders :
          \/ \E c \in [Keys -> Val], affected \in {{}, Ids}, force \in BOOLEAN :
                ReloadConfig(p, c, affected, force)
          \/ FilterView(p) \/ ScanFiles(p) \/ ReplaceCache(p)
          \/ SnapshotCoreAuths(p) \/ RefreshAuthState(p)
    \/ \E p \in Callers :
          \/ \E c \in Channels, v \in Val : RuntimeUpdate(p, c, v)
          \/ \E f \in Files, v \in Versions : SaveAuth(p, f, v)
          \/ PersistedUpdate(p)
    \/ \E p \in Procs : DispatchAuthUpdates(p)

WatcherSpec == WatcherInit /\ [][WatcherNext]_watcherVars

----
(* Properties *)

\* Nothing about the credential is waiting or on the way.
Quiet(i) ==
    /\ \A k \in DOMAIN events : events[k].file # i
    /\ \A p \in Procs :
          /\ job[p].at \in {"idle", "stat", "read", "hash", "commit", "remove",
                            "persisted", "dispatch"}
          /\ job[p].at \in {"stat", "read", "hash", "commit", "remove", "persisted"}
                => job[p].file # i
          /\ i \notin OnTheWay(p)

\* The hash cache, which decides whether a file is looked at again, is never
\* behind: once the events about a file have been handled it holds the hash of
\* what the file contains, though files are read without a lock, are half
\* written when they are read, and change again while an event is handled.
CacheMirrorsDisk ==
    \A f \in Files :
        started /\ Quiet(f) /\ disk[f] \in Versions => hashes[f] = disk[f]

\* The view follows the files: when all is quiet a readable file is what the
\* view says, and a removed one is not in it. There are exactly two ways out:
\* a reload or a saved file set the view to something else than the cache
\* holds (the cache then hides the difference), and a removal was ignored, by
\* the debounce window or because the cache did not know the file yet.
ViewMirrorsDisk ==
    \A f \in Files :
        /\ started /\ Quiet(f)
        /\ disk[f] # Torn
        /\ f \notin overwritten \cup forgotten
        => current[f] = disk[f]

\* What has been handed over follows the view: when nothing of a credential is
\* on the way, the last update is what the view says, unless two updates of
\* it crossed between clientsMutex and dispatchMu, or a credential left the
\* view without a difference (dropped by the filter of a reload and gone in
\* the same reload, or gone before the first view was taken).
SentMirrorsView ==
    \A i \in Ids :
        started /\ Quiet(i) /\ i \notin crossed \cup unreported => sent[i] = current[i]

\* Keys of the configuration and channels have no cache between them and the
\* view: a reload never brings back a channel that has gone meanwhile nor drops
\* one that has come.
ViewMirrorsRuntime ==
    \A i \in Channels : started /\ Quiet(i) => current[i] = runtime[i]

====
