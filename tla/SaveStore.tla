------------------------------- MODULE SaveStore -------------------------------
(***************************************************************************)
(* The desktop's save store (bin/desktop/desktop_save_store.rs): the guest's *)
(* files are mirrored to directories of the host, file by file and fork by  *)
(* fork, by a scan that may hit errors, in a process that may die between    *)
(* any two writes.  A launch loads what it can read of the directories.      *)
(*                                                                          *)
(* A version stands for the bytes of a file and its dates: the archive's     *)
(* files have version 0 and every write of the guest makes a new one, as     *)
(* every write takes a new modification date (trap/dispatch.rs:5257,         *)
(* process_context.rs:1528).  A guest that sets a file's date back and keeps *)
(* its lengths is left out.                                                  *)
(***************************************************************************)
EXTENDS Integers, FiniteSets

CONSTANTS
  Paths,        \* the guest's save paths
  Archived,     \* those the game's archive brings along
  Inside,       \* <<outer, inner>>: inner's directory is in, or is, outer's
  MaxVersion,   \* bound on the guest's writes
  MaxDamage     \* bound on I/O errors and crashes

ASSUME SaveAssumption ==
  /\ Archived \subseteq Paths /\ Inside \subseteq Paths \X Paths
  /\ MaxVersion \in Nat /\ MaxDamage \in Nat

Gone == -1      \* the host file does not exist
Torn == -2      \* it holds a part of what was written
Forks == {"data", "rsrc", "meta"}
File == [Forks -> {Gone, Torn} \cup 0..MaxVersion]
Whole(v) == [fork \in Forks |-> v]
NoFile == Whole(Gone)

VARIABLES
  up,         \* the process runs
  guest,      \* the guest's files
  disk,       \* the host's files of each path
  persisted,  \* persisted_save_paths
  prints,     \* last_vfs_fingerprints; NoFile where there is none
  scan,       \* the scan in progress
  version,    \* the last version written
  damage,     \* errors and crashes so far
  hurt,       \* paths whose replacement or removal one of them cut short
  unread,     \* paths whose directories the launch could not read, until they are rewritten
  clean       \* the last scan met no error and the guest changed nothing since

vars == <<up, guest, disk, persisted, prints, scan, version, damage, hurt, unread, clean>>

\* `todo` are the paths to look at, `path` the one at hand and `fork` what is
\* written next, `kept` and `seen` the maps that replace persisted and prints.
Scans ==
  [phase : {"idle", "save", "stale"}, todo : SUBSET Paths, path : SUBSET Paths,
   fork : Forks \cup {"none"}, kept : SUBSET Paths, seen : [Paths -> File], ok : BOOLEAN]

Idle == [phase |-> "idle", todo |-> {}, path |-> {}, fork |-> "none", kept |-> {},
         seen |-> [p \in Paths |-> NoFile], ok |-> TRUE]

\* A directory whose metadata can be parsed is a file; missing forks are empty.
Loadable(p) == disk[p].meta >= 0
Restored(p) == IF Loadable(p) THEN disk[p]
               ELSE IF p \in Archived THEN Whole(0) ELSE NoFile

Init ==
  /\ up = FALSE /\ guest = [p \in Paths |-> NoFile] /\ disk = [p \in Paths |-> NoFile]
  /\ persisted = {} /\ prints = [p \in Paths |-> NoFile] /\ scan = Idle
  /\ version = 0 /\ damage = 0 /\ hurt = {} /\ unread = {} /\ clean = FALSE

\* What a launch cannot read: a directory that is skipped or, where the search itself
\* fails, all of them.
Unreadable(paths) ==
  /\ paths \subseteq {p \in Paths : Loadable(p)}
  /\ paths # {} => damage < MaxDamage
  /\ damage' = IF paths = {} THEN damage ELSE damage + 1
  /\ unread' = paths

\* The archive's files with the store's over them.
LoadBut(paths) ==
  [p \in Paths |-> IF p \in paths THEN IF p \in Archived THEN Whole(0) ELSE NoFile
                   ELSE Restored(p)]

\* Slip: a launch forgets which directories it loaded.
LaunchUnprinted ==
  /\ ~up /\ up' = TRUE
  /\ \E paths \in SUBSET Paths : Unreadable(paths) /\ guest' = LoadBut(paths)
  /\ persisted' = {} /\ prints' = prints
  /\ scan' = Idle /\ clean' = FALSE
  /\ UNCHANGED <<disk, version, hurt>>

\* What was loaded is recorded as it is on the disk.
Launch ==
  /\ ~up /\ up' = TRUE
  /\ \E paths \in SUBSET Paths :
       /\ Unreadable(paths) /\ guest' = LoadBut(paths)
       /\ persisted' = {p \in Paths \ paths : Loadable(p)}
       /\ prints' = [p \in Paths |-> IF Loadable(p) /\ p \notin paths THEN disk[p] ELSE NoFile]
  /\ scan' = Idle /\ clean' = FALSE
  /\ UNCHANGED <<disk, version, hurt>>

Nested(p) == {q \in Paths : <<p, q>> \in Inside}

\* The guest writes a file (where no file or folder is in the way) or deletes one.
GuestSaves(p) ==
  /\ up /\ scan.phase = "idle" /\ version < MaxVersion
  /\ \A q \in Paths \ {p} : <<p, q>> \in Inside \/ <<q, p>> \in Inside => guest[q] = NoFile
  /\ version' = version + 1
  /\ guest' = [guest EXCEPT ![p] = Whole(version + 1)]
  /\ clean' = FALSE
  /\ UNCHANGED <<up, disk, persisted, prints, scan, damage, hurt, unread>>

GuestDeletes(p) ==
  /\ up /\ scan.phase = "idle" /\ guest[p] # NoFile
  /\ guest' = [guest EXCEPT ![p] = NoFile]
  /\ clean' = FALSE
  /\ UNCHANGED <<up, disk, persisted, prints, scan, version, damage, hurt, unread>>

(***************************************************************************)
(* A scan: every thirtieth frame, and once when the runtime stops.           *)
(***************************************************************************)
StartScan ==
  /\ up /\ scan.phase = "idle"
  /\ scan' = [Idle EXCEPT !.phase = "save", !.todo = {p \in Paths : guest[p] # NoFile}]
  /\ UNCHANGED <<up, guest, disk, persisted, prints, version, damage, hurt, unread, clean>>

Unchanged(p) == p \notin persisted /\ p \in Archived /\ guest[p] = Whole(0)
NeedsWrite(p) == prints[p] # guest[p] \/ p \notin persisted

Examine(p) ==
  /\ scan.phase = "save" /\ scan.fork = "none" /\ p \in scan.todo
  /\ scan' =
       IF Unchanged(p) THEN [scan EXCEPT !.todo = @ \ {p}]
       ELSE IF NeedsWrite(p)
       THEN [scan EXCEPT !.todo = @ \ {p}, !.path = {p}, !.fork = "data",
                         !.seen[p] = guest[p]]
       ELSE [scan EXCEPT !.todo = @ \ {p}, !.kept = @ \cup {p}, !.seen[p] = guest[p]]
  /\ UNCHANGED <<up, guest, disk, persisted, prints, version, damage, hurt, unread, clean>>

\* Slip: the metadata that makes the directory a file is written first.
AfterForkMetaFirst(fork) ==
  CASE fork = "data" -> "meta" [] fork = "meta" -> "rsrc" [] fork = "rsrc" -> "none"

AfterFork(fork) ==
  CASE fork = "data" -> "rsrc" [] fork = "rsrc" -> "meta" [] fork = "meta" -> "none"

Write(p) ==
  /\ scan.phase = "save" /\ scan.path = {p} /\ scan.fork # "none"
  /\ disk' = [disk EXCEPT ![p][scan.fork] = guest[p][scan.fork]]
  /\ unread' = IF AfterFork(scan.fork) = "none" THEN unread \ {p} ELSE unread
  /\ scan' = IF AfterFork(scan.fork) = "none"
             THEN [scan EXCEPT !.fork = "none", !.path = {}, !.kept = @ \cup {p}]
             ELSE [scan EXCEPT !.fork = AfterFork(@)]
  /\ hurt' = IF disk'[p] = guest[p] THEN hurt \ {p} ELSE hurt
  /\ UNCHANGED <<up, guest, persisted, prints, version, damage, clean>>

\* Slip: the fingerprint of a file that could not be written is remembered.
WriteFailsPrinted(p) ==
  /\ scan.phase = "save" /\ scan.path = {p} /\ scan.fork # "none" /\ damage < MaxDamage
  /\ disk' \in {disk, [disk EXCEPT ![p][scan.fork] = Torn]}
  /\ scan' = [scan EXCEPT !.fork = "none", !.path = {}, !.ok = FALSE,
                          !.kept = IF p \in persisted THEN @ \cup {p} ELSE @]
  /\ damage' = damage + 1
  /\ hurt' = IF p \in persisted \cup unread THEN hurt \cup {p} ELSE hurt
  /\ UNCHANGED <<up, guest, persisted, prints, version, unread, clean>>

\* An error leaves the host's file as it was or cut short; the path stays
\* persisted if it was, without a fingerprint.
WriteFails(p) ==
  /\ scan.phase = "save" /\ scan.path = {p} /\ scan.fork # "none" /\ damage < MaxDamage
  /\ disk' \in {disk, [disk EXCEPT ![p][scan.fork] = Torn]}
  /\ scan' = [scan EXCEPT !.fork = "none", !.path = {}, !.ok = FALSE, !.seen[p] = NoFile,
                          !.kept = IF p \in persisted THEN @ \cup {p} ELSE @]
  /\ damage' = damage + 1
  /\ hurt' = IF p \in persisted \cup unread THEN hurt \cup {p} ELSE hurt
  /\ UNCHANGED <<up, guest, persisted, prints, version, unread, clean>>

StartStale ==
  /\ scan.phase = "save" /\ scan.fork = "none" /\ scan.todo = {}
  /\ scan' = [scan EXCEPT !.phase = "stale", !.todo = persisted \ scan.kept]
  /\ UNCHANGED <<up, guest, disk, persisted, prints, version, damage, hurt, unread, clean>>

\* remove_dir_all takes one host file after the other, the inner directories' too.
RemoveOne(p) ==
  /\ scan.phase = "stale" /\ p \in scan.todo /\ scan.path \subseteq {p}
  /\ \E q \in {p} \cup Nested(p), fork \in Forks :
       /\ disk[q][fork] # Gone
       /\ disk' = [disk EXCEPT ![q][fork] = Gone]
  /\ scan' = [scan EXCEPT !.path = {p}]
  /\ UNCHANGED <<up, guest, persisted, prints, version, damage, hurt, unread, clean>>

Removed(p) ==
  /\ scan.phase = "stale" /\ p \in scan.todo /\ scan.path \subseteq {p}
  /\ \A q \in {p} \cup Nested(p) : disk[q] = NoFile
  /\ scan' = [scan EXCEPT !.todo = @ \ {p}, !.path = {}]
  /\ hurt' = hurt \ {p}
  /\ UNCHANGED <<up, guest, disk, persisted, prints, version, damage, unread, clean>>

RemoveFails(p) ==
  /\ scan.phase = "stale" /\ p \in scan.todo /\ scan.path \subseteq {p}
  /\ damage < MaxDamage /\ damage' = damage + 1
  /\ scan' = [scan EXCEPT !.todo = @ \ {p}, !.path = {}, !.ok = FALSE,
                          !.seen[p] = NoFile, !.kept = @ \cup {p}]
  /\ hurt' = hurt \cup {p}
  /\ UNCHANGED <<up, guest, disk, persisted, prints, version, unread, clean>>

EndScan ==
  /\ scan.phase = "stale" /\ scan.todo = {}
  /\ persisted' = scan.kept /\ prints' = scan.seen
  /\ scan' = Idle /\ clean' = scan.ok
  /\ UNCHANGED <<up, guest, disk, version, damage, hurt, unread>>

\* The process dies; a write in progress may be cut short.
Crash ==
  /\ up /\ damage < MaxDamage
  /\ up' = FALSE /\ damage' = damage + 1
  /\ disk' \in IF scan.phase = "save" /\ scan.fork # "none"
               THEN {disk} \cup {[disk EXCEPT ![p][scan.fork] = Torn] : p \in scan.path}
               ELSE {disk}
  /\ hurt' = hurt \cup (scan.path \cap (persisted \cup unread)) /\ unread' = {}
  /\ guest' = [p \in Paths |-> NoFile] /\ scan' = Idle /\ clean' = FALSE
  /\ persisted' = {} /\ prints' = [p \in Paths |-> NoFile]
  /\ UNCHANGED version

Next ==
  \/ Launch \/ StartScan \/ StartStale \/ EndScan \/ Crash
  \/ \E p \in Paths :
       \/ GuestSaves(p) \/ GuestDeletes(p) \/ Examine(p) \/ Write(p) \/ WriteFails(p)
       \/ RemoveOne(p) \/ Removed(p) \/ RemoveFails(p)

Spec == Init /\ [][Next]_vars

\* Scans start and go on, and a dead process is launched again; nothing is assumed
\* of the guest, of errors and of crashes.
Fairness ==
  /\ WF_vars(Launch) /\ WF_vars(StartScan) /\ WF_vars(StartStale) /\ WF_vars(EndScan)
  /\ \A p \in Paths : /\ WF_vars(Examine(p)) /\ WF_vars(Write(p))
                      /\ WF_vars(RemoveOne(p)) /\ WF_vars(Removed(p))

LiveSpec == Spec /\ Fairness

-----------------------------------------------------------------------------
\* Every variable has its type.
SaveTypeOK ==
  /\ up \in BOOLEAN /\ guest \in [Paths -> File] /\ disk \in [Paths -> File]
  /\ persisted \subseteq Paths /\ prints \in [Paths -> File] /\ scan \in Scans
  /\ version \in 0..MaxVersion /\ damage \in 0..MaxDamage
  /\ hurt \subseteq Paths /\ unread \subseteq Paths /\ clean \in BOOLEAN

\* What a launch would bring back, except that the archive brings back its own files and
\* that a directory this one could not read stays as it is.
Mirrored ==
  \A p \in Paths \ unread : guest[p] # NoFile \/ p \notin Archived => Restored(p) = guest[p]

\* After a scan without an error a launch restores exactly the files the guest has
\* (sync_save_files_now), whatever failed before and wherever an earlier process died:
\* a path whose directory the launch could not read counts once it is written again.
CleanScanMirrors == clean => Mirrored

\* Only a file that was being replaced or removed can be torn: one that is
\* saved for the first time is there whole or not at all, since its metadata is
\* written last (persist_save_file).
FirstSaveWhole ==
  \A p \in Paths : Loadable(p) /\ (\A v \in 0..MaxVersion : disk[p] # Whole(v))
    => p \in hurt \cup scan.path

\* Once errors, crashes and changes are over the store catches up with the guest.
StoreCatchesUp == <>[](up /\ Mirrored)
=============================================================================
