----------------------------- MODULE SaveMigration -----------------------------
(***************************************************************************)
(* The preparation of a game's save store before a launch (prepare_store in *)
(* bin/desktop/desktop_save_store.rs): a new store is built aside and       *)
(* renamed into place, with the saves an older version left beside the      *)
(* archive when no other version of the archive took them; an explicit      *)
(* import adds another store's files to a live one.  Processes prepare      *)
(* under a file lock, may die at every step, and a running game saves        *)
(* without the lock.                                                         *)
(***************************************************************************)
EXTENDS Integers

CONSTANTS
  Procs,         \* processes
  Games,         \* identities of the archive's versions: each has a store
  Names,         \* names of saved files
  GameNames,     \* those a running game writes
  LegacyNames,   \* files beside the archive; versions share them
  MaxStarts      \* bound on preparations

Legacy == "legacy"
NoSource == "noSource"
NoProc == "noProc"
GameWrote == "game"
Nobody == "nobody"

ASSUME MigrationAssumption ==
  /\ GameNames \subseteq Names /\ LegacyNames \subseteq Names /\ MaxStarts \in Nat /\ Games # {}
  /\ {Legacy, NoSource, GameWrote, Nobody} \cap Games = {} /\ NoProc \notin Procs

VARIABLES
  stores,   \* the live stores
  lock,     \* holder of .migration.lock
  job,      \* what each process is at
  starts,   \* preparations so far
  left      \* history: the names in each store that a failed rollback, or a process that
            \* died while it published or rolled back, left there

migrationVars == <<stores, lock, job, starts, left>>

Sources == Games \cup {Legacy}
Import == [source : Sources, names : SUBSET Names, asked : BOOLEAN]
Store == [there : BOOLEAN, files : [Names -> Sources \cup {GameWrote, Nobody}],
          imports : SUBSET Import]
NoStore == [there |-> FALSE, files |-> [n \in Names |-> Nobody], imports |-> {}]

\* `copy` is the import being made, `todo` and `done` the files (staged, then
\* published) and `existed` whether the store was there when the lock was taken.
Job == [at : {"idle", "lock", "stage", "publish", "rollback", "end"}, game : Games,
        asked : Sources \cup {NoSource}, existed : BOOLEAN,
        copy : SUBSET Import, todo : SUBSET Names, done : SUBSET Names]

Files(g) == {n \in Names : stores[g].files[n] # Nobody}
NamesOf(source) == IF source = Legacy THEN LegacyNames ELSE Files(source)
Readable(source) == source = Legacy \/ stores[source].there

MigrationInit ==
  /\ stores = [g \in Games |-> NoStore]
  /\ lock = NoProc /\ starts = 0 /\ left = [g \in Games |-> {}]
  /\ job = [p \in Procs |->
       [at |-> "idle", game |-> CHOOSE g \in Games : TRUE, asked |-> NoSource,
        existed |-> FALSE, copy |-> {}, todo |-> {}, done |-> {}]]

Start(p, g, asked) ==
  /\ job[p].at = "idle" /\ starts < MaxStarts /\ starts' = starts + 1
  /\ job' = [job EXCEPT ![p] = [@ EXCEPT !.at = "lock", !.game = g, !.asked = asked,
                                         !.copy = {}, !.todo = {}, !.done = {}]]
  /\ UNCHANGED <<stores, lock, left>>

\* legacy_import_already_claimed
Claimed == \E g \in Games : \E i \in stores[g].imports : i.source = Legacy

SourceFor(p) ==
  IF job[p].asked # NoSource THEN job[p].asked
  ELSE IF ~stores[job[p].game].there /\ LegacyNames # {} /\ ~Claimed THEN Legacy
  ELSE NoSource

\* Slip: decisions are not serialized.
LockFreely(p) == job[p].at = "lock" /\ lock' \in Procs

Locks(p) == job[p].at = "lock" /\ lock = NoProc /\ lock' = p

\* Under the lock: the decision, the conflicts, and the source's files.
Decide(p) ==
  /\ Locks(p)
  /\ LET g == job[p].game
         source == SourceFor(p)
         names  == IF source = NoSource THEN {} ELSE NamesOf(source)
         refused == source # NoSource
                      /\ \/ source = g \/ ~Readable(source)
                         \/ stores[g].there /\ names \cap Files(g) # {}
     IN  job' = [job EXCEPT ![p] =
           IF refused THEN [@ EXCEPT !.at = "end"]
           ELSE [@ EXCEPT !.at = "stage", !.existed = stores[g].there, !.todo = names,
                   !.copy = IF source = NoSource THEN {}
                            ELSE {[source |-> source, names |-> names,
                                   asked |-> job[p].asked # NoSource]}]]
  /\ UNCHANGED <<stores, starts, left>>

\* Reading a snapshot and writing it to the staging directory.
StageOne(p, n) ==
  /\ job[p].at = "stage" /\ n \in job[p].todo
  /\ job' = [job EXCEPT ![p].todo = @ \ {n}, ![p].done = @ \cup {n}]
  /\ UNCHANGED <<stores, lock, starts, left>>

\* Any of the steps up to the publication may fail; nothing live was touched.
StageFails(p) ==
  /\ job[p].at = "stage"
  /\ job' = [job EXCEPT ![p].at = "end"]
  /\ UNCHANGED <<stores, lock, starts, left>>

Origin(p) == CHOOSE s \in {i.source : i \in job[p].copy} : TRUE
Filled(files, names, source) == [n \in Names |-> IF n \in names THEN source ELSE files[n]]

\* A new store: the staging directory becomes it, manifest and all.
PublishStore(p) ==
  /\ job[p].at = "stage" /\ job[p].todo = {} /\ ~job[p].existed
  /\ stores' = [stores EXCEPT ![job[p].game] =
       [there |-> TRUE, imports |-> job[p].copy,
        files |-> IF job[p].copy = {} THEN NoStore.files
                  ELSE Filled(NoStore.files, job[p].done, Origin(p))]]
  /\ job' = [job EXCEPT ![p].at = "end"]
  /\ UNCHANGED <<lock, starts, left>>

\* A live store: its files are checked once more, then moved one by one.
StartPublish(p) ==
  /\ job[p].at = "stage" /\ job[p].todo = {} /\ job[p].existed
  /\ job' = [job EXCEPT ![p].at = "publish", ![p].todo = job[p].done, ![p].done = {}]
  /\ UNCHANGED <<stores, lock, starts, left>>

\* Slip: only the preflight looks for a file of the same name.
PublishOneUnchecked(p, n) ==
  /\ job[p].at = "publish" /\ n \in job[p].todo
  /\ stores' = [stores EXCEPT ![job[p].game].files[n] = Origin(p)]
  /\ job' = [job EXCEPT ![p].todo = @ \ {n}, ![p].done = @ \cup {n}]
  /\ UNCHANGED <<lock, starts, left>>

PublishOne(p, n) ==
  /\ job[p].at = "publish" /\ n \in job[p].todo
  /\ n \notin Files(job[p].game)
  /\ stores' = [stores EXCEPT ![job[p].game].files[n] = Origin(p)]
  /\ job' = [job EXCEPT ![p].todo = @ \ {n}, ![p].done = @ \cup {n}]
  /\ UNCHANGED <<lock, starts, left>>

\* Slip: a failed publication is reported but not undone.
PublishFailsKeeping(p) ==
  /\ job[p].at = "publish"
  /\ job' = [job EXCEPT ![p].at = "end"]
  /\ UNCHANGED <<stores, lock, starts, left>>

\* A file appeared meanwhile, or a rename failed.
PublishFails(p) ==
  /\ job[p].at = "publish"
  /\ job' = [job EXCEPT ![p].at = "rollback"]
  /\ UNCHANGED <<stores, lock, starts, left>>

\* Slip: the manifest is put in place before the files it names.
PublishManifestEarly(p) ==
  /\ job[p].at = "publish"
  /\ stores' = [stores EXCEPT ![job[p].game].imports = @ \cup job[p].copy]
  /\ UNCHANGED <<lock, job, starts, left>>

\* The manifest records the import last.
PublishManifest(p) ==
  /\ job[p].at = "publish" /\ job[p].todo = {}
  /\ stores' = [stores EXCEPT ![job[p].game].imports = @ \cup job[p].copy]
  /\ job' = [job EXCEPT ![p].at = "end"]
  /\ UNCHANGED <<lock, starts, left>>

\* A directory the game removed meanwhile makes its removal fail.
RollBackOne(p, n) ==
  /\ job[p].at = "rollback" /\ n \in job[p].done \cap Files(job[p].game)
  /\ stores' = [stores EXCEPT ![job[p].game].files[n] = Nobody]
  /\ job' = [job EXCEPT ![p].done = @ \ {n}]
  /\ UNCHANGED <<lock, starts, left>>

RolledBack(p) ==
  /\ job[p].at = "rollback" /\ job[p].done = {}
  /\ job' = [job EXCEPT ![p].at = "end"]
  /\ UNCHANGED <<stores, lock, starts, left>>

\* What p leaves in its store when it goes no further with it.
Leaves(p) == [left EXCEPT ![job[p].game] = @ \cup job[p].done]

\* A removal failed: the rest of what was published stays, and no manifest says so.
RollbackFails(p) ==
  /\ job[p].at = "rollback" /\ job[p].done # {}
  /\ job' = [job EXCEPT ![p].at = "end"]
  /\ left' = Leaves(p)
  /\ UNCHANGED <<stores, lock, starts>>

\* The staging directory is removed and the lock dropped on every way out.
End(p) ==
  /\ job[p].at = "end"
  /\ job' = [job EXCEPT ![p].at = "idle"]
  /\ lock' = IF lock = p THEN NoProc ELSE lock
  /\ UNCHANGED <<stores, starts, left>>

\* The system drops a dead process's lock; its staging directory stays behind.
Die(p) ==
  /\ job[p].at # "idle"
  /\ job' = [job EXCEPT ![p].at = "idle"]
  /\ lock' = IF lock = p THEN NoProc ELSE lock
  /\ left' = IF job[p].at \in {"publish", "rollback"} THEN Leaves(p) ELSE left
  /\ UNCHANGED <<stores, starts>>

\* A game running on the store saves and deletes its files at any time: it takes no
\* lock.
GameSaves(g, n) ==
  /\ stores[g].there /\ n \in GameNames
  /\ \E content \in {GameWrote, Nobody} \ {stores[g].files[n]} :
       stores' = [stores EXCEPT ![g].files[n] = content]
  /\ left' = [left EXCEPT ![g] = @ \ {n}]
  /\ UNCHANGED <<lock, job, starts>>

Prepare(p) ==
  \/ Decide(p) \/ StageFails(p) \/ PublishStore(p) \/ StartPublish(p) \/ PublishFails(p)
  \/ PublishManifest(p) \/ RolledBack(p) \/ RollbackFails(p) \/ End(p)
  \/ \E n \in Names : StageOne(p, n) \/ PublishOne(p, n) \/ RollBackOne(p, n)

MigrationNext ==
  \/ \E p \in Procs :
       \/ Prepare(p) \/ Die(p)
       \/ \E g \in Games, asked \in Sources \cup {NoSource} : Start(p, g, asked)
  \/ \E g \in Games, n \in Names : GameSaves(g, n)

MigrationSpec == MigrationInit /\ [][MigrationNext]_migrationVars

-----------------------------------------------------------------------------
\* Every variable has its type.
MigrationTypeOK ==
  /\ stores \in [Games -> Store] /\ lock \in Procs \cup {NoProc}
  /\ job \in [Procs -> Job] /\ starts \in 0..MaxStarts /\ left \in [Games -> SUBSET Names]

TookLegacy(g) == \E i \in stores[g].imports : i.source = Legacy /\ ~i.asked

\* The saves beside the archive are taken over without being asked for by one
\* version of the archive at most, with processes preparing at once and dying
\* (legacy_import_already_claimed).
LegacyMigratedOnce ==
  \A g, h \in Games : TookLegacy(g) /\ TookLegacy(h) => g = h

\* What a manifest says was imported is there, every file of it that no game has
\* changed: "an interrupted copy cannot become an authoritative, partially migrated
\* store" (desktop_save_store.rs:430).
ImportedWhole ==
  \A g \in Games : \A i \in stores[g].imports :
    \A n \in i.names \ GameNames : stores[g].files[n] = i.source

Publishing(g) == \E p \in Procs : job[p].game = g /\ job[p].at \in {"publish", "rollback"}

\* The imports of g's store that a file of it is from.
Recorded(g, n) == \E i \in stores[g].imports : i.source = stores[g].files[n] /\ n \in i.names

\* And what was imported is recorded.  Whatever fails, and whatever games and other
\* processes do meanwhile, a store holds no file of an import its manifest does not
\* name, but for those that a rollback whose own removal failed, or a process that died
\* inside the publication, left there (the rollback in prepare_store).
PublishedIsRecorded ==
  \A g \in Games : ~Publishing(g) =>
    \A n \in Names \ left[g] : stores[g].files[n] \in Sources => Recorded(g, n)

\* Without the exception: "an interrupted copy cannot become an authoritative,
\* partially migrated store on the next launch" (desktop_save_store.rs:430).  An import
\* into a store that is there already can.
NothingUnrecorded ==
  \A g \in Games : ~Publishing(g) =>
    \A n \in Names : stores[g].files[n] \in Sources => Recorded(g, n)

RollsBack(g, n) == \E p \in Procs :
  job[p].game = g /\ job[p].at = "rollback" /\ n \in job[p].done

\* An import never replaces a file a running game wrote, however late the game wrote
\* it, and removes one only when it rolls that very name back: "retain existing files
\* on errors" (desktop_save_store.rs:561).
GameFilesKept ==
  [][\A g \in Games, n \in Names :
       stores[g].files[n] = GameWrote /\ stores'[g].files[n] # GameWrote
         => stores'[g].files[n] = Nobody /\ (job' # job => RollsBack(g, n))]_migrationVars

\* The rollback should leave the game's files alone too; the code removes whatever it
\* finds at a name it published.
RollbackKeepsGameFiles ==
  [][\A g \in Games, n \in Names :
       stores[g].files[n] = GameWrote /\ job' # job => stores'[g].files[n] = GameWrote]_migrationVars

=============================================================================
