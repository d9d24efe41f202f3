----------------------------- MODULE TokenMirror -----------------------------
(***************************************************************************)
(* One auth file of the spool directory and its copy in the remote store,  *)
(* for the two stores that mirror the directory: the bucket ("object",     *)
(* internal/store/objectstore.go) and the database ("postgres",            *)
(* internal/store/postgresstore.go).  The manager and the login flows save *)
(* under the store's mutex; the management handlers write and remove the   *)
(* file without it; the watcher notices changes and has the store upload   *)
(* the file; remote calls fail; the process dies and starts from the       *)
(* remote copy.                                                            *)
(*                                                                         *)
(* A content is a number.  An uploaded one is always new: see the README   *)
(* for what uploading an old one can do.  Nobody else writes the store.    *)
(***************************************************************************)
EXTENDS Naturals

CONSTANTS Kinds,     \* the stores to look at
          MaxChanges, MaxSaves, MaxFailures, MaxCrashes, \* bounds
          None,      \* no file, no remote copy, no hash
          Empty,     \* a file that is truncated and not yet written
          Lost       \* a file being written that is unlinked already

ASSUME MirrorAssumption ==
  /\ Kinds \subseteq {"object", "postgres"}
  /\ {MaxChanges, MaxSaves, MaxFailures, MaxCrashes} \subseteq Nat
  /\ None \notin Nat /\ Empty \notin Nat /\ Lost \notin Nat
  /\ None # Empty /\ None # Lost /\ Empty # Lost

VARIABLES
  kind,    \* which store this is
  phase,   \* "down", "serving" (requests, no watcher yet), "watching"
  file,    \* the local file
  remote,  \* the object or the row
  holder,  \* what the holder of s.mu is doing
  upload,  \* what the upload handler has still to write into the open file
  removed, \* delete handlers between os.Remove and store.Delete
  event,   \* a file event the watcher has not handled
  known,   \* w.lastAuthHashes of the file
  syncs,   \* goroutines of persistAuthAsync that wait for s.mu
  newest,  \* the contents so far are 1..newest
  left,    \* what is left of the four bounds
  \* History:
  missed,  \* the remote copy was not told, and perhaps nobody is going to
  since,   \* the contents since the last Save or Delete that made it
  tried    \* those since the Save or Delete that holds s.mu has written

disk == <<file, event, since>>
volatile == <<holder, upload, removed, known, syncs>>
mirrorVars == <<kind, phase, disk, remote, volatile, newest, left, missed, tried>>

Free == [op |-> "free", at |-> "-", data |-> None]
Up == phase # "down"

-----------------------------------------------------------------------------
(* Helpers                                                                  *)

\* What uploadAuth and syncAuthFile make of the file: an empty one is none.
Content(f) == IF f = Empty THEN None ELSE f

Spend(bound) == left[bound] > 0 /\ left' = [left EXCEPT ![bound] = @ - 1]

\* A writer that has the file open goes on with one that is no longer linked.
Unlinked(data) == IF data = None THEN None ELSE Lost

\* The file has another content, or is on its way to it.
Becomes(f) ==
  /\ file' = f
  /\ event' = TRUE
  /\ since' = since \cup {Content(f)}

\* It is replaced by another file or removed.
Relink(f) == Becomes(f) /\ upload' = Unlinked(upload)

\* A change by somebody who does not hold the mutex.
Meanwhile(f) ==
  tried' = IF holder.op \in {"save", "delete"} THEN tried \cup {Content(f)} ELSE {}

Lock(op, at, data) ==
  /\ Up /\ holder = Free
  /\ holder' = [op |-> op, at |-> at, data |-> data]

-----------------------------------------------------------------------------
(* Save: the manager's and the login flows'                                 *)

\* A record in memory may be as old as any, or new.
Saved(v) ==
  /\ v \in 1..(newest + 1)
  /\ newest' = IF v > newest THEN v ELSE newest

\* Metadata: the file is replaced by a rename, unless it says the same
\* already: that Save returns at once, whatever the remote copy says, and is
\* no step. Neither is that of a disabled record whose file is gone.
SaveMetadata(v) ==
  /\ Spend("saves") /\ Saved(v)
  /\ Lock("save", "read", None)
  /\ file # v
  /\ Relink(v)
  /\ tried' = {v}
  /\ UNCHANGED <<kind, phase, remote, removed, known, syncs, missed>>

\* Token storage: the file is truncated and written in place, whatever it
\* says. Two writers that have the file open at once are not modelled.
SaveStorage(v) ==
  /\ Spend("saves") /\ Saved(v)
  /\ Lock("save", "write", v)
  /\ upload \in {None, Lost}
  /\ Becomes(Empty)
  /\ tried' = {}
  /\ UNCHANGED <<kind, phase, remote, upload, removed, known, syncs, missed>>

StorageWritten ==
  /\ Up /\ holder.at = "write"
  /\ holder' = [holder EXCEPT !.at = "read", !.data = None]
  /\ IF holder.data = Lost THEN UNCHANGED <<disk, tried>>
     ELSE Becomes(holder.data) /\ tried' = {holder.data}
  /\ UNCHANGED <<kind, phase, remote, upload, removed, known, syncs, newest,
                 left, missed>>

-----------------------------------------------------------------------------
(* The remote calls, under s.mu                                             *)

\* PersistAuthFiles gets the mutex.
SyncLock ==
  /\ syncs > 0
  /\ Lock("sync", "read", None)
  /\ syncs' = syncs - 1
  /\ UNCHANGED <<kind, phase, disk, remote, upload, removed, known, newest,
                 left, missed, tried>>

\* Mutant: the handler has removed the file, Delete does not.
DeleteLockOnly ==
  /\ removed > 0
  /\ Lock("delete", "put", None)
  /\ removed' = removed - 1
  /\ tried' = {Content(file)}
  /\ UNCHANGED <<kind, phase, disk, upload, remote, known, syncs, newest, left,
                 missed>>

\* Delete gets the mutex, removes the file (again) and goes for the copy.
DeleteLock ==
  /\ removed > 0
  /\ Lock("delete", "put", None)
  /\ removed' = removed - 1
  /\ IF file = None THEN UNCHANGED <<disk, upload>> ELSE Relink(None)
  /\ tried' = {None}
  /\ UNCHANGED <<kind, phase, remote, known, syncs, newest, left, missed>>

\* Mutant: PersistAuthFiles is given what the watcher has read.
ReadFileCached ==
  /\ Up /\ holder.at = "read"
  /\ holder' = [holder EXCEPT !.at = "put", !.data = IF holder.op = "sync"
                                                   THEN known ELSE Content(file)]
  /\ UNCHANGED <<kind, phase, disk, remote, upload, removed, known, syncs,
                 newest, left, missed, tried>>

\* uploadAuth, upsertAuthRecord and syncAuthFile read the file; the database's
\* Save fails when it is gone again.
ReadFile ==
  /\ Up /\ holder.at = "read"
  /\ holder' = IF file = None /\ holder.op = "save" /\ kind = "postgres"
               THEN Free
               ELSE [holder EXCEPT !.at = "put", !.data = Content(file)]
  /\ UNCHANGED <<kind, phase, disk, remote, upload, removed, known, syncs,
                 newest, left, missed, tried>>

PutSucceeds ==
  /\ Up /\ holder.at = "put"
  /\ holder' = Free
  /\ remote' = holder.data
  /\ missed' = (missed /\ holder.data # Content(file))
  /\ since' = IF holder.op = "sync" THEN since ELSE tried
  /\ tried' = {}
  /\ UNCHANGED <<kind, phase, file, event, upload, removed, known, syncs,
                 newest, left>>

\* An error, or a timeout after which the call may still have been served.
PutFails ==
  /\ Up /\ holder.at = "put" /\ Spend("failures")
  /\ holder' = Free
  /\ remote' \in {remote, holder.data}
  /\ missed' = TRUE
  /\ tried' = {}
  /\ UNCHANGED <<kind, phase, disk, upload, removed, known, syncs, newest>>

-----------------------------------------------------------------------------
(* The management handlers                                                  *)

\* writeAuthFile opens and truncates the file; its Update saves afterwards.
UploadBegins ==
  /\ Up /\ Spend("changes") /\ upload = None /\ holder.at # "write"
  /\ newest' = newest + 1
  /\ upload' = newest'
  /\ Becomes(Empty) /\ Meanwhile(Empty)
  /\ UNCHANGED <<kind, phase, remote, holder, removed, known, syncs, missed>>

UploadEnds ==
  /\ Up /\ upload # None
  /\ upload' = None
  /\ IF upload = Lost THEN UNCHANGED <<disk, tried>>
     ELSE Becomes(upload) /\ Meanwhile(upload)
  /\ UNCHANGED <<kind, phase, remote, holder, removed, known, syncs, newest,
                 left, missed>>

\* deleteAuthFileByName removes the file before it calls the store.
RemoveFile ==
  /\ Up /\ Spend("changes") /\ file # None
  /\ Relink(None) /\ Meanwhile(None)
  /\ removed' = removed + 1
  /\ holder' = IF holder.at = "write" THEN [holder EXCEPT !.data = Lost]
               ELSE holder
  /\ UNCHANGED <<kind, phase, remote, known, syncs, newest, missed>>

-----------------------------------------------------------------------------
(* The watcher                                                              *)

\* The scan of the start fills the hash cache and uploads nothing.
StartWatcher ==
  /\ phase = "serving"
  /\ phase' = "watching"
  /\ known' = Content(file)
  /\ missed' = (missed \/ event)
  /\ UNCHANGED <<kind, disk, remote, holder, upload, removed, syncs, newest,
                 left, tried>>

Handled == phase = "watching" /\ event /\ event' = FALSE

\* addOrUpdateClientLocked and removeClientLocked: a content other than the
\* cached one, or the end of a known file, is uploaded.
FileChanged ==
  /\ Handled
  /\ file \notin {known, Empty}
  /\ known' = file
  /\ syncs' = syncs + 1
  /\ UNCHANGED <<kind, phase, file, since, remote, holder, upload, removed,
                 newest, left, missed, tried>>

\* An unchanged hash, an empty file, a removal of a file that is not known or
\* within the debounce window of another one.
FileIgnored ==
  /\ Handled
  /\ file \in {known, Empty, None}
  /\ UNCHANGED <<kind, phase, file, since, remote, volatile, newest, left,
                 missed, tried>>

-----------------------------------------------------------------------------
(* Crash and start                                                          *)

\* The spool may be gone with the process; a call under way may be served.
Crash ==
  /\ Up /\ Spend("crashes")
  /\ phase' = "down"
  /\ file' \in {file, None}
  /\ event' = FALSE /\ tried' = {}
  /\ remote' \in {remote} \cup (IF holder.at = "put" THEN {holder.data} ELSE {})
  /\ holder' = Free /\ upload' = None /\ removed' = 0 /\ known' = None
  /\ syncs' = 0
  /\ UNCHANGED <<kind, since, newest, missed>>

\* syncAuthFromDatabase wipes the directory first, syncAuthFromBucket writes
\* over what is there.
Loaded == IF kind = "postgres" \/ remote # None THEN remote ELSE file

Bootstrap ==
  /\ phase = "down"
  /\ phase' = "serving"
  /\ file' = Loaded
  /\ missed' = (Content(Loaded) # remote)
  /\ UNCHANGED <<kind, event, since, remote, volatile, newest, left, tried>>

-----------------------------------------------------------------------------
MirrorInit ==
  /\ kind \in Kinds
  /\ phase = "down"
  /\ file = None /\ remote \in {None, 1}
  /\ holder = Free /\ upload = None /\ removed = 0 /\ event = FALSE
  /\ known = None /\ syncs = 0 /\ newest = 1
  /\ left = [changes |-> MaxChanges, saves |-> MaxSaves,
             failures |-> MaxFailures, crashes |-> MaxCrashes]
  /\ missed = FALSE /\ since = {remote} /\ tried = {}

MirrorNext ==
  \/ \E v \in 1..(newest + 1) : SaveMetadata(v) \/ SaveStorage(v)
  \/ StorageWritten \/ SyncLock \/ DeleteLock
  \/ ReadFile \/ PutSucceeds \/ PutFails
  \/ UploadBegins \/ UploadEnds \/ RemoveFile
  \/ StartWatcher \/ FileChanged \/ FileIgnored
  \/ Crash \/ Bootstrap
MirrorSpec == MirrorInit /\ [][MirrorNext]_mirrorVars

-----------------------------------------------------------------------------
(* Properties                                                               *)

Quiet ==
  /\ phase = "watching" /\ ~event
  /\ holder = Free /\ upload = None /\ removed = 0 /\ syncs = 0

\* The remote copy follows the file: once nothing is under way they are the
\* same, unless the last call that would have told the store has failed, or
\* the change was made before the watcher had started.
RemoteFollows == Quiet /\ ~missed => remote = Content(file)

\* What a Save or a Delete has brought to the store survives: whenever the
\* process dies, whatever else is under way or fails, and whether or not the
\* spool survives with it, the next start finds that content or a later one,
\* never one from before: no spent token and no removed credential returns.
SavedSurvives ==
  [][phase = "down" /\ phase' = "serving" => Content(file') \in since]_mirrorVars
=============================================================================
