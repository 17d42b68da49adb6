------------------------------- MODULE SaveProofs -------------------------------
(***************************************************************************)
(* Theorems about SaveStore and SaveMigration, for every set of paths,      *)
(* versions, processes, games and files, and any number of errors and       *)
(* crashes.  The two specifications share no variable.                      *)
(***************************************************************************)
EXTENDS SaveStore, SaveMigration, TLAPS

---------------------------------------------------------------------------
(* SaveStore *)

Wholes == {Whole(v) : v \in 0..MaxVersion}

\* Without a record a path is not on the disk, or its directory could not be read.
Unseen(p) == disk[p].meta < 0 \/ p \in unread

\* Between two scans the records of a path are true of the disk.
Settled(p) ==
  IF p \in persisted THEN prints[p] # NoFile => disk[p] = prints[p] ELSE Unseen(p)

\* What the scan has dealt with.  Only a fingerprint that is dropped may disagree with the
\* disk, and only a path that is not kept is known not to be there
\* to be read.
Saved(p) ==
  \/ guest[p] # NoFile /\ scan.seen[p] = guest[p] /\ disk[p] = guest[p]
  \/ scan.seen[p] = NoFile /\ ~ scan.ok /\ guest[p] \in Wholes \cup {NoFile}
Omitted(p) ==
  /\ Unseen(p) /\ guest[p] \in Wholes \cup {NoFile}
  /\ scan.ok => guest[p] = NoFile \/ (p \in Archived /\ guest[p] = Whole(0))
Dealt(p) == IF p \in scan.kept THEN Saved(p) ELSE Omitted(p)

\* The file being written: its forks so far are the guest's, and a new one has no metadata.
Progress(p) ==
  /\ guest[p] \in Wholes /\ scan.seen[p] = guest[p] /\ p \notin scan.kept
  /\ scan.fork \in {"rsrc", "meta"} => disk[p].data = guest[p].data
  /\ scan.fork = "meta" => disk[p].rsrc = guest[p].rsrc
  /\ p \notin persisted => Unseen(p)

Saving(p) ==
  /\ scan.fork = "none" <=> scan.path = {}
  /\ p \in scan.todo => Settled(p) /\ guest[p] # NoFile /\ p \notin scan.kept /\ p \notin scan.path
  /\ p \in scan.path => scan.path = {p} /\ Progress(p)
  /\ p \notin scan.todo \cup scan.path =>
       \/ p \in persisted /\ p \notin scan.kept /\ guest[p] = NoFile
       \/ p \notin persisted /\ p \notin scan.kept /\ Omitted(p)
       \/ p \in scan.kept /\ Saved(p)

Removing(p) ==
  /\ scan.path \subseteq scan.todo /\ scan.fork = "none"
  /\ p \in scan.todo => guest[p] = NoFile /\ p \in persisted /\ p \notin scan.kept
  /\ p \notin scan.todo => Dealt(p)

\* A part of a file in the guest was loaded, and is what the disk is believed to hold.
Loaded(p) == guest[p].meta >= 0 /\ p \in persisted /\ prints[p] = guest[p]

\* What a scan without an error leaves, until the guest changes something.
Clean(p) ==
  IF p \in persisted THEN guest[p] # NoFile /\ prints[p] = guest[p] /\ disk[p] = guest[p]
  ELSE Unseen(p) /\ (guest[p] = NoFile \/ (p \in Archived /\ guest[p] = Whole(0)))

At(p) ==
  /\ guest[p] \in Wholes \cup {NoFile} \/ Loaded(p)
  /\ up /\ scan.phase = "idle" => Settled(p)
  /\ scan.phase = "save" => Saving(p)
  /\ scan.phase = "stale" => Removing(p)
  /\ clean => Clean(p)
  /\ disk[p].meta >= 0 => disk[p] \in Wholes \/ p \in hurt \cup scan.path

StoreInv ==
  /\ SaveTypeOK
  /\ scan.phase = "idle" => scan = Idle
  /\ ~ up => scan = Idle /\ guest = [p \in Paths |-> NoFile]
  /\ clean => up /\ scan.path = {} /\ (scan.phase = "stale" => scan.todo = {})
  /\ \A p \in Paths : At(p)

-----------------------------------------------------------------------------

\* A whole file of a version has every fork of it.
LEMMA WholeFacts ==
  /\ NoFile \in File /\ NoFile.meta = -1 /\ NoFile \notin Wholes
  /\ \A v \in 0..MaxVersion : Whole(v) \in File /\ Whole(v).meta = v /\ Whole(v) \in Wholes
  /\ \A f \in Wholes : f \in File /\ f.meta >= 0
  /\ \A f \in File : f.meta \in Int /\ (f.meta >= 0 => f # NoFile)
  /\ \A f, g \in File : f.data = g.data /\ f.rsrc = g.rsrc /\ f.meta = g.meta => f = g
<1>1. NoFile \in File /\ NoFile.meta = -1
  BY DEF NoFile, Whole, File, Forks, Gone
<1>2. \A v \in 0..MaxVersion : Whole(v) \in File /\ Whole(v).meta = v /\ Whole(v) \in Wholes
  BY DEF Wholes, Whole, File, Forks
<1>3. \A f \in Wholes : f \in File /\ f.meta >= 0
  BY <1>2, SaveAssumption DEF Wholes
<1>4. \A f \in File : f.meta \in Int
  BY SaveAssumption DEF File, Forks, Gone, Torn
<1>5. \A f, g \in File : f.data = g.data /\ f.rsrc = g.rsrc /\ f.meta = g.meta => f = g
  BY DEF File, Forks
<1> QED BY <1>1, <1>2, <1>3, <1>4, <1>5

\* The fields of a scan have their types.
LEMMA ScanFacts ==
  /\ Idle \in Scans
  /\ \A s \in Scans : /\ s.phase \in {"idle", "save", "stale"} /\ s.todo \subseteq Paths
                     /\ s.path \subseteq Paths /\ s.fork \in Forks \cup {"none"}
                     /\ s.kept \subseteq Paths /\ s.seen \in [Paths -> File] /\ s.ok \in BOOLEAN
<1>1. [p \in Paths |-> NoFile] \in [Paths -> File]
  BY WholeFacts
<1>2. Idle \in Scans
  BY <1>1 DEF Idle, Scans
<1>3. ASSUME NEW s \in Scans
      PROVE  /\ s.phase \in {"idle", "save", "stale"} /\ s.todo \subseteq Paths
             /\ s.path \subseteq Paths /\ s.fork \in Forks \cup {"none"}
             /\ s.kept \subseteq Paths /\ s.seen \in [Paths -> File] /\ s.ok \in BOOLEAN
  BY DEF Scans
<1> QED BY <1>2, <1>3

\* One fork of one path's files is changed.
LEMMA Edited ==
  ASSUME NEW d \in [Paths -> File], NEW p \in Paths, NEW fork \in Forks,
         NEW v \in {Gone, Torn} \cup 0..MaxVersion, NEW e, e = [d EXCEPT ![p][fork] = v]
  PROVE  /\ e \in [Paths -> File] /\ e[p][fork] = v
         /\ \A g \in Forks \ {fork} : e[p][g] = d[p][g]
         /\ \A q \in Paths \ {p} : e[q] = d[q]
BY DEF File

\* What the forks of a file hold.
LEMMA Held == \A f \in File, fork \in Forks : f[fork] \in {Gone, Torn} \cup 0..MaxVersion
BY DEF File

\* The invariant holds before the first launch.
LEMMA InitStore == Init => StoreInv
<1> SUFFICES ASSUME Init PROVE StoreInv
  OBVIOUS
<1>1. [p \in Paths |-> NoFile] \in [Paths -> File]
  BY WholeFacts
<1>2. Idle \in Scans
  BY ScanFacts
<1>3. version \in 0..MaxVersion /\ damage \in 0..MaxDamage
  BY SaveAssumption DEF Init
<1>5. guest \in [Paths -> File] /\ disk \in [Paths -> File] /\ prints \in [Paths -> File] /\ scan \in Scans
  BY <1>1, <1>2 DEF Init
<1>6. SaveTypeOK
  BY <1>3, <1>5 DEF Init, SaveTypeOK
<1>4. \A p \in Paths : At(p)
  BY WholeFacts DEF Init, At, Idle
<1> QED BY <1>6, <1>4 DEF Init, StoreInv

\* One step of a write changes one fork.
LEMMA ForkFacts ==
  /\ AfterFork("data") = "rsrc" /\ AfterFork("rsrc") = "meta" /\ AfterFork("meta") = "none"
BY DEF AfterFork

\* A launch records what it loaded and keeps what it could not read.
LEMMA LaunchFacts ==
  ASSUME SaveTypeOK, Launch
  PROVE  /\ unread' \subseteq Paths /\ damage' \in 0..MaxDamage
         /\ persisted' = {p \in Paths \ unread' : Loadable(p)}
         /\ \A p \in Paths : /\ guest'[p] \in Wholes \cup {NoFile, disk[p]}
                             /\ p \in persisted' => guest'[p] = disk[p] /\ prints'[p] = disk[p]
                             /\ p \notin persisted' =>
                                  prints'[p] = NoFile /\ guest'[p] \in Wholes \cup {NoFile}
         /\ guest' \in [Paths -> File] /\ prints' \in [Paths -> File]
<1>1. PICK paths \in SUBSET Paths :
        /\ Unreadable(paths) /\ guest' = LoadBut(paths)
        /\ persisted' = {p \in Paths \ paths : Loadable(p)}
        /\ prints' = [p \in Paths |-> IF Loadable(p) /\ p \notin paths THEN disk[p] ELSE NoFile]
  BY DEF Launch
<1>2. unread' = paths /\ unread' \subseteq Paths /\ damage' \in 0..MaxDamage
  BY <1>1, SaveAssumption DEF Unreadable, SaveTypeOK
<1>3. ASSUME NEW p \in Paths
      PROVE  /\ guest'[p] \in Wholes \cup {NoFile, disk[p]} /\ guest'[p] \in File
             /\ p \in persisted' => guest'[p] = disk[p] /\ prints'[p] = disk[p]
             /\ p \notin persisted' => prints'[p] = NoFile /\ guest'[p] \in Wholes \cup {NoFile}
             /\ prints'[p] \in File
  BY <1>1, WholeFacts, SaveAssumption DEF LoadBut, Restored, SaveTypeOK
<1>4. guest' \in [Paths -> File] /\ prints' \in [Paths -> File]
  BY <1>1, <1>3 DEF LoadBut
<1> QED BY <1>1, <1>2, <1>3, <1>4

\* Every step keeps the types.
LEMMA TypeKept == SaveTypeOK /\ [Next]_vars => SaveTypeOK'
<1> SUFFICES ASSUME SaveTypeOK, [Next]_vars PROVE SaveTypeOK'
  OBVIOUS
<1>0. CASE UNCHANGED vars
  BY <1>0 DEF SaveTypeOK, vars
<1>a. /\ [p \in Paths |-> NoFile] \in [Paths -> File]
      /\ Idle \in Scans /\ NoFile \in File /\ MaxVersion \in Nat /\ MaxDamage \in Nat
      /\ scan \in Scans
  BY WholeFacts, ScanFacts, SaveAssumption DEF SaveTypeOK
<1>1. CASE Launch
  BY <1>1, <1>a, LaunchFacts DEF Launch, SaveTypeOK
<1>2. ASSUME NEW p \in Paths, GuestSaves(p)
      PROVE  SaveTypeOK'
  <2>1. version' \in 0..MaxVersion /\ damage' \in 0..MaxDamage
    BY <1>2, <1>a DEF GuestSaves, SaveTypeOK
  <2>2. guest' \in [Paths -> File] /\ prints' \in [Paths -> File]
    BY <1>2, <1>a, WholeFacts DEF GuestSaves, SaveTypeOK
  <2>3. disk' \in [Paths -> File]
    BY <1>2, <1>a DEF GuestSaves, SaveTypeOK
  <2>4. scan' \in Scans
    BY <1>2, <1>a DEF GuestSaves, Scans, Forks
  <2>5. /\ persisted' \subseteq Paths /\ hurt' \subseteq Paths /\ unread' \subseteq Paths
        /\ up' \in BOOLEAN /\ clean' \in BOOLEAN
    BY <1>2, ScanFacts DEF GuestSaves, SaveTypeOK
  <2> QED BY <2>1, <2>2, <2>3, <2>4, <2>5 DEF SaveTypeOK
<1>3. ASSUME NEW p \in Paths, GuestDeletes(p) PROVE SaveTypeOK'
  BY <1>3, <1>a DEF GuestDeletes, SaveTypeOK, Scans, Forks
<1>4. CASE StartScan
  BY <1>4, <1>a DEF StartScan, SaveTypeOK, Scans, Forks, Idle
<1>5. ASSUME NEW p \in Paths, Examine(p) PROVE SaveTypeOK'
  BY <1>5, <1>a DEF Examine, SaveTypeOK, Scans, Forks
<1>6. ASSUME NEW p \in Paths, Write(p)
      PROVE  SaveTypeOK'
  <2>1. version' \in 0..MaxVersion /\ damage' \in 0..MaxDamage
    BY <1>6, <1>a DEF Write, SaveTypeOK
  <2>2. guest' \in [Paths -> File] /\ prints' \in [Paths -> File]
    BY <1>6, <1>a, WholeFacts DEF Write, File, Gone, Torn, SaveTypeOK
  <2>3. disk' \in [Paths -> File]
    <3>1. /\ scan.fork \in Forks /\ disk' = [disk EXCEPT ![p][scan.fork] = guest[p][scan.fork]]
      BY <1>6, <1>a, ScanFacts DEF Write
    <3>2. guest[p][scan.fork] \in {Gone, Torn} \cup 0..MaxVersion
      BY <3>1, Held DEF SaveTypeOK
    <3>3. disk \in [Paths -> File]
      BY DEF SaveTypeOK
    <3> QED BY <3>1, <3>2, <3>3, Edited
  <2>4. scan' \in Scans
    BY <1>6, <1>a, ForkFacts DEF Write, Scans, Forks, File, Gone, Torn
  <2>5. /\ persisted' \subseteq Paths /\ hurt' \subseteq Paths /\ unread' \subseteq Paths
        /\ up' \in BOOLEAN /\ clean' \in BOOLEAN
    BY <1>6, ScanFacts DEF Write, SaveTypeOK
  <2> QED BY <2>1, <2>2, <2>3, <2>4, <2>5 DEF SaveTypeOK
<1>7. ASSUME NEW p \in Paths, WriteFails(p)
      PROVE  SaveTypeOK'
  <2>1. version' \in 0..MaxVersion /\ damage' \in 0..MaxDamage
    BY <1>7, <1>a DEF WriteFails, SaveTypeOK
  <2>2. guest' \in [Paths -> File] /\ prints' \in [Paths -> File]
    BY <1>7, <1>a, WholeFacts DEF WriteFails, File, Gone, Torn, SaveTypeOK
  <2>3. disk' \in [Paths -> File]
    <3>1. scan.fork \in Forks /\ disk \in [Paths -> File]
      BY <1>7, <1>a, ScanFacts DEF WriteFails, SaveTypeOK
    <3>2. disk' = disk \/ disk' = [disk EXCEPT ![p][scan.fork] = Torn]
      BY <1>7 DEF WriteFails
    <3>3. CASE disk' = disk
      BY <3>1, <3>3
    <3>4. CASE disk' = [disk EXCEPT ![p][scan.fork] = Torn]
      BY <3>1, <3>4, Edited
    <3> QED BY <3>2, <3>3, <3>4
  <2>4. scan' \in Scans
    BY <1>7, <1>a DEF WriteFails, Scans, Forks, File, Gone, Torn
  <2>5. /\ persisted' \subseteq Paths /\ hurt' \subseteq Paths /\ unread' \subseteq Paths
        /\ up' \in BOOLEAN /\ clean' \in BOOLEAN
    BY <1>7, ScanFacts DEF WriteFails, SaveTypeOK
  <2> QED BY <2>1, <2>2, <2>3, <2>4, <2>5 DEF SaveTypeOK
<1>8. CASE StartStale
  BY <1>8, <1>a DEF StartStale, SaveTypeOK, Scans, Forks
<1>9. ASSUME NEW p \in Paths, RemoveOne(p)
      PROVE  SaveTypeOK'
  <2>1. version' \in 0..MaxVersion /\ damage' \in 0..MaxDamage
    BY <1>9, <1>a DEF RemoveOne, SaveTypeOK
  <2>2. guest' \in [Paths -> File] /\ prints' \in [Paths -> File]
    BY <1>9, <1>a, WholeFacts DEF RemoveOne, File, Gone, Torn, SaveTypeOK
  <2>3. disk' \in [Paths -> File]
    <3>1. PICK q \in {p} \cup Nested(p), fork \in Forks : disk' = [disk EXCEPT ![q][fork] = Gone]
      BY <1>9 DEF RemoveOne
    <3>2. q \in Paths
      BY DEF Nested
    <3>3. disk \in [Paths -> File]
      BY DEF SaveTypeOK
    <3> QED BY <3>1, <3>2, <3>3, Edited
  <2>4. scan' \in Scans
    BY <1>9, <1>a DEF RemoveOne, Scans, Forks, File, Gone, Torn
  <2>5. /\ persisted' \subseteq Paths /\ hurt' \subseteq Paths /\ unread' \subseteq Paths
        /\ up' \in BOOLEAN /\ clean' \in BOOLEAN
    BY <1>9, ScanFacts DEF RemoveOne, SaveTypeOK
  <2> QED BY <2>1, <2>2, <2>3, <2>4, <2>5 DEF SaveTypeOK
<1>10. ASSUME NEW p \in Paths, Removed(p) PROVE SaveTypeOK'
  BY <1>10, <1>a DEF Removed, SaveTypeOK, Scans, Forks
<1>11. ASSUME NEW p \in Paths, RemoveFails(p)
      PROVE  SaveTypeOK'
  <2>1. version' \in 0..MaxVersion /\ damage' \in 0..MaxDamage
    BY <1>11, <1>a DEF RemoveFails, SaveTypeOK
  <2>2. guest' \in [Paths -> File] /\ prints' \in [Paths -> File]
    BY <1>11, <1>a, WholeFacts DEF RemoveFails, SaveTypeOK
  <2>3. disk' \in [Paths -> File]
    BY <1>11, <1>a DEF RemoveFails, SaveTypeOK
  <2>4. scan' \in Scans
    BY <1>11, <1>a DEF RemoveFails, Scans, Forks
  <2>5. /\ persisted' \subseteq Paths /\ hurt' \subseteq Paths /\ unread' \subseteq Paths
        /\ up' \in BOOLEAN /\ clean' \in BOOLEAN
    BY <1>11, ScanFacts DEF RemoveFails, SaveTypeOK
  <2> QED BY <2>1, <2>2, <2>3, <2>4, <2>5 DEF SaveTypeOK
<1>12. CASE EndScan
  BY <1>12, <1>a DEF EndScan, SaveTypeOK, Scans, Forks
<1>13. CASE Crash
  <2>1. version' \in 0..MaxVersion /\ damage' \in 0..MaxDamage
    BY <1>13, <1>a DEF Crash, SaveTypeOK
  <2>2. guest' \in [Paths -> File] /\ prints' \in [Paths -> File]
    BY <1>13, <1>a, WholeFacts DEF Crash, File, Gone, Torn, SaveTypeOK
  <2>3. disk' \in [Paths -> File]
    <3>1. CASE disk' = disk
      BY <3>1 DEF SaveTypeOK
    <3>2. CASE disk' # disk
      <4>1. PICK p \in scan.path : scan.fork # "none" /\ disk' = [disk EXCEPT ![p][scan.fork] = Torn]
        BY <1>13, <3>2 DEF Crash
      <4>2. p \in Paths /\ scan.fork \in Forks /\ disk \in [Paths -> File]
        BY <1>a, <4>1, ScanFacts DEF SaveTypeOK
      <4> QED BY <4>1, <4>2, Edited, ZenonT(30)
    <3> QED BY <3>1, <3>2
  <2>4. scan' \in Scans
    BY <1>13, <1>a DEF Crash, Scans, Forks, File, Gone, Torn
  <2>5. /\ persisted' \subseteq Paths /\ hurt' \subseteq Paths /\ unread' \subseteq Paths
        /\ up' \in BOOLEAN /\ clean' \in BOOLEAN
    BY <1>13, ScanFacts DEF Crash, SaveTypeOK
  <2> QED BY <2>1, <2>2, <2>3, <2>4, <2>5 DEF SaveTypeOK
<1> QED BY <1>0, <1>1, <1>2, <1>3, <1>4, <1>5, <1>6, <1>7, <1>8, <1>9, <1>10, <1>11, <1>12,
           <1>13 DEF Next

\* A launch loads what the disk holds.
LEMMA LaunchKeeps == ASSUME StoreInv, Launch, SaveTypeOK' PROVE StoreInv'
<1>1. /\ SaveTypeOK /\ scan = Idle /\ scan' = Idle /\ up' /\ disk' = disk /\ hurt' = hurt /\ ~ clean'
  BY DEF StoreInv, Launch
<1>2. ASSUME NEW q \in Paths PROVE At(q)'
  <2>1. guest'[q] \in Wholes \cup {NoFile} \/ Loaded(q)'
    BY <1>1, LaunchFacts DEF Loaded, Loadable
  <2>2. Settled(q)'
    BY <1>1, LaunchFacts, WholeFacts DEF Settled, Unseen, Loadable, SaveTypeOK
  <2>3. scan'.phase = "idle" /\ scan'.path = scan.path
    BY <1>1 DEF Idle
  <2>4. disk'[q].meta >= 0 => disk'[q] \in Wholes \/ q \in hurt' \cup scan'.path
    BY <1>1, <2>3 DEF StoreInv, At
  <2> QED BY <1>1, <2>1, <2>2, <2>3, <2>4 DEF At
<1> QED BY <1>1, <1>2 DEF StoreInv

\* A save of the guest's touches no record.
LEMMA GuestSavesKeeps == ASSUME StoreInv, NEW p \in Paths, GuestSaves(p), SaveTypeOK' PROVE StoreInv'
<1>1. /\ scan = Idle /\ scan' = Idle /\ up /\ up' /\ disk' = disk /\ hurt' = hurt /\ unread' = unread /\ ~ clean'
      /\ persisted' = persisted /\ prints' = prints
      /\ guest' = [guest EXCEPT ![p] = Whole(version + 1)]
  BY DEF StoreInv, GuestSaves
<1>2. Whole(version + 1) \in Wholes
  BY WholeFacts, SaveAssumption DEF GuestSaves, SaveTypeOK
<1>3. ASSUME NEW q \in Paths PROVE At(q)'
  <2>0. At(q) /\ scan.phase = "idle" /\ scan'.phase = "idle" /\ scan'.path = scan.path
    BY <1>1 DEF StoreInv, Idle
  <2>1. guest'[q] \in Wholes \cup {NoFile} \/ Loaded(q)'
    BY <1>1, <1>2, <2>0 DEF Loaded, At, StoreInv, SaveTypeOK
  <2>2. Settled(q)'
    BY <1>1, <2>0 DEF Settled, At, Unseen
  <2>3. disk'[q].meta >= 0 => disk'[q] \in Wholes \/ q \in hurt' \cup scan'.path
    BY <1>1, <2>0 DEF At
  <2> QED BY <1>1, <2>0, <2>1, <2>2, <2>3 DEF At
<1> QED BY <1>1, <1>3 DEF StoreInv

\* A deletion of the guest's touches no record.
LEMMA GuestDeletesKeeps ==
  ASSUME StoreInv, NEW p \in Paths, GuestDeletes(p), SaveTypeOK' PROVE StoreInv'
<1>1. /\ scan = Idle /\ scan' = Idle /\ up /\ up' /\ disk' = disk /\ hurt' = hurt /\ unread' = unread /\ ~ clean'
      /\ persisted' = persisted /\ prints' = prints
      /\ guest' = [guest EXCEPT ![p] = NoFile]
  BY DEF StoreInv, GuestDeletes
<1>3. ASSUME NEW q \in Paths PROVE At(q)'
  <2>0. At(q) /\ scan.phase = "idle" /\ scan'.phase = "idle" /\ scan'.path = scan.path
    BY <1>1 DEF StoreInv, Idle
  <2>1. guest'[q] \in Wholes \cup {NoFile} \/ Loaded(q)'
    BY <1>1, <2>0 DEF Loaded, At, StoreInv, SaveTypeOK
  <2>2. Settled(q)'
    BY <1>1, <2>0 DEF Settled, At, Unseen
  <2>3. disk'[q].meta >= 0 => disk'[q] \in Wholes \/ q \in hurt' \cup scan'.path
    BY <1>1, <2>0 DEF At
  <2> QED BY <1>1, <2>0, <2>1, <2>2, <2>3 DEF At
<1> QED BY <1>1, <1>3 DEF StoreInv

\* A scan starts with nothing examined.
LEMMA StartScanKeeps == ASSUME StoreInv, StartScan, SaveTypeOK' PROVE StoreInv'
<1>1. /\ scan = Idle /\ up /\ up' /\ disk' = disk /\ hurt' = hurt /\ unread' = unread /\ clean' = clean
      /\ persisted' = persisted /\ prints' = prints /\ guest' = guest
      /\ scan' = [Idle EXCEPT !.phase = "save", !.todo = {p \in Paths : guest[p] # NoFile}]
  BY DEF StoreInv, StartScan
<1>2. /\ scan.phase = "idle" /\ scan.path = {}
      /\ scan'.phase = "save" /\ scan'.todo = {p \in Paths : guest[p] # NoFile}
      /\ scan'.path = {} /\ scan'.fork = "none" /\ scan'.kept = {} /\ scan'.ok
  BY <1>1 DEF Idle
<1>3. ASSUME NEW q \in Paths PROVE At(q)'
  <2>0. At(q) /\ Settled(q) /\ SaveTypeOK
    BY <1>1, <1>2 DEF StoreInv, At
  <2>1. guest'[q] \in Wholes \cup {NoFile} \/ Loaded(q)'
    BY <1>1, <2>0 DEF Loaded, At
  <2>2. Saving(q)'
    <3>1. Settled(q)'
      BY <1>1, <2>0 DEF Settled, Unseen
    <3>2. q \notin scan'.todo /\ q \notin persisted => Omitted(q)'
      BY <1>1, <1>2, <2>0 DEF Omitted, Settled, Unseen
    <3> QED BY <1>1, <1>2, <3>1, <3>2 DEF Saving
  <2>3. disk'[q].meta >= 0 => disk'[q] \in Wholes \/ q \in hurt' \cup scan'.path
    BY <1>1, <1>2, <2>0 DEF At
  <2>4. clean' => Clean(q)'
    BY <1>1, <2>0 DEF At, Clean, Unseen
  <2> QED BY <1>1, <1>2, <2>1, <2>2, <2>3, <2>4 DEF At
<1> QED BY <1>1, <1>2, <1>3 DEF StoreInv

\* A removal of stale files starts on files the guest no longer has.
LEMMA StartStaleKeeps == ASSUME StoreInv, StartStale, SaveTypeOK' PROVE StoreInv'
<1>1. /\ scan.phase = "save" /\ scan.fork = "none" /\ scan.todo = {} /\ up' = up
      /\ disk' = disk /\ hurt' = hurt /\ unread' = unread /\ clean' = clean
      /\ persisted' = persisted /\ prints' = prints /\ guest' = guest
      /\ scan' = [scan EXCEPT !.phase = "stale", !.todo = persisted \ scan.kept]
  BY DEF StartStale
<1>2. /\ scan \in Scans /\ scan'.phase = "stale" /\ scan'.todo = persisted \ scan.kept
      /\ scan'.path = scan.path /\ scan'.fork = scan.fork /\ scan'.kept = scan.kept
      /\ scan'.seen = scan.seen /\ scan'.ok = scan.ok
  BY <1>1 DEF StoreInv, SaveTypeOK, Scans
<1>3. ASSUME NEW q \in Paths PROVE At(q)' /\ scan.path = {} /\ (clean => scan'.todo = {})
  <2>0. At(q) /\ Saving(q) /\ SaveTypeOK /\ scan.path = {}
    BY <1>1 DEF StoreInv, At, Saving
  <2>1. guest'[q] \in Wholes \cup {NoFile} \/ Loaded(q)'
    BY <1>1, <2>0 DEF Loaded, At
  <2>2. Saved(q) => Saved(q)'
    BY <1>1, <1>2 DEF Saved
  <2>3. Omitted(q) => Omitted(q)'
    BY <1>1, <1>2 DEF Omitted, Unseen
  <2>4. Removing(q)'
    BY <1>1, <1>2, <2>0, <2>2, <2>3 DEF Saving, Removing, Dealt
  <2>5. disk'[q].meta >= 0 => disk'[q] \in Wholes \/ q \in hurt' \cup scan'.path
    BY <1>1, <1>2, <2>0 DEF At
  <2>6. clean' => Clean(q)'
    BY <1>1, <2>0 DEF At, Clean, Unseen
  <2>7. clean => scan'.todo = {}
    <3> SUFFICES ASSUME clean, NEW r \in persisted, r \notin scan.kept PROVE FALSE
      BY <1>2
    <3>1. r \in Paths /\ At(r)
      BY DEF StoreInv, SaveTypeOK
    <3>2. Saving(r) /\ Clean(r)
      BY <1>1, <3>1 DEF At
    <3> QED BY <1>1, <2>0, <3>2 DEF Saving, Clean, Unseen
  <2> QED BY <1>1, <1>2, <2>0, <2>1, <2>4, <2>5, <2>6, <2>7 DEF At
<1>4. up
  BY <1>1 DEF StoreInv, Idle
<1>5. scan.path \subseteq Paths /\ scan'.todo \subseteq Paths
  BY <1>2 DEF Scans, StoreInv, SaveTypeOK
<1>6. scan.path = {} /\ (clean => scan'.todo = {})
  BY <1>3, <1>5
<1> QED BY <1>1, <1>2, <1>3, <1>4, <1>6 DEF StoreInv

\* A scan ends when every path is settled.
LEMMA EndScanKeeps == ASSUME StoreInv, EndScan, SaveTypeOK' PROVE StoreInv'
<1>1. /\ scan.phase = "stale" /\ scan.todo = {} /\ up' = up /\ scan' = Idle
      /\ disk' = disk /\ hurt' = hurt /\ unread' = unread /\ clean' = scan.ok
      /\ persisted' = scan.kept /\ prints' = scan.seen /\ guest' = guest
  BY DEF EndScan
<1>2. up /\ scan'.phase = "idle" /\ scan'.path = {}
  BY <1>1 DEF StoreInv, Idle
<1>3. ASSUME NEW q \in Paths PROVE At(q)'
  <2>0. At(q) /\ Removing(q) /\ Dealt(q) /\ SaveTypeOK
    BY <1>1 DEF StoreInv, At, Removing
  <2>1. guest'[q] \in Wholes \cup {NoFile} \/ Loaded(q)'
    BY <1>1, <2>0, WholeFacts DEF Loaded, Dealt, Saved, Omitted, At, SaveTypeOK, Unseen
  <2>2. Settled(q)'
    BY <1>1, <2>0 DEF Settled, Dealt, Saved, Omitted, Unseen
  <2>3. disk'[q].meta >= 0 => disk'[q] \in Wholes \/ q \in hurt' \cup scan'.path
    BY <1>1, <1>2, <2>0 DEF At, Removing
  <2>4. clean' => Clean(q)'
    BY <1>1, <2>0 DEF Dealt, Saved, Omitted, Clean, Unseen
  <2> QED BY <1>1, <1>2, <2>1, <2>2, <2>3, <2>4 DEF At
<1> QED BY <1>1, <1>2, <1>3 DEF StoreInv

\* An examined path is settled or being written.
LEMMA ExamineKeeps == ASSUME StoreInv, NEW p \in Paths, Examine(p), SaveTypeOK' PROVE StoreInv'
<1>1. /\ scan.phase = "save" /\ scan.fork = "none" /\ p \in scan.todo /\ up' = up
      /\ disk' = disk /\ hurt' = hurt /\ unread' = unread /\ clean' = clean
      /\ persisted' = persisted /\ prints' = prints /\ guest' = guest /\ unread' = unread
  BY DEF Examine
<1>2. scan \in Scans /\ SaveTypeOK /\ At(p) /\ Saving(p) /\ scan.path = {} /\ up
  BY <1>1 DEF StoreInv, SaveTypeOK, At, Saving, Idle
<1>3. Settled(p) /\ guest[p] # NoFile /\ p \notin scan.kept
  BY <1>1, <1>2 DEF Saving
<1>4. /\ scan'.phase = "save" /\ scan'.todo = scan.todo \ {p} /\ scan'.ok = scan.ok
      /\ \A q \in Paths \ {p} : scan'.seen[q] = scan.seen[q] /\ (q \in scan'.kept <=> q \in scan.kept)
      /\ scan.seen \in [Paths -> File]
  BY <1>1, <1>2 DEF Examine, Scans
<1>5. ASSUME NEW q \in Paths, q # p PROVE Saving(q) /\ (Saved(q) => Saved(q)') /\ (Omitted(q) => Omitted(q)')
  BY <1>1, <1>4, <1>5 DEF Saved, Omitted, StoreInv, At, Unseen
<1>6. \A q \in Paths : Settled(q)' <=> Settled(q)
  BY <1>1 DEF Settled, Unseen
<1>7. \A q \in Paths : (clean' => Clean(q)') /\ (guest'[q] \in Wholes \cup {NoFile} \/ Loaded(q)')
  BY <1>1 DEF StoreInv, At, Clean, Loaded, Unseen
<1>8. \A q \in Paths : disk'[q].meta >= 0 => disk'[q] \in Wholes \/ q \in hurt' \cup scan'.path
  BY <1>1, <1>2 DEF StoreInv, At
<1>9. CASE Unchanged(p)
  <2>1. scan'.path = {} /\ scan'.fork = "none" /\ scan'.kept = scan.kept
    BY <1>1, <1>2, <1>9 DEF Examine, Scans
  <2>2. Omitted(p)' /\ p \notin persisted
    BY <1>1, <1>2, <1>3, <1>9, WholeFacts, SaveAssumption DEF Unchanged, Omitted, Settled, Unseen
  <2>3. \A q \in Paths : Saving(q)'
    BY <1>1, <1>2, <1>3, <1>4, <1>5, <1>6, <2>1, <2>2 DEF Saving
  <2> QED BY <1>1, <1>2, <1>4, <1>7, <1>8, <2>1, <2>3 DEF StoreInv, At
<1>10. CASE ~ Unchanged(p) /\ NeedsWrite(p)
  <2>1. /\ scan'.path = {p} /\ scan'.fork = "data" /\ scan'.kept = scan.kept
        /\ scan'.seen[p] = guest[p]
    BY <1>1, <1>2, <1>10 DEF Examine, Scans
  <2>2. Progress(p)'
    BY <1>1, <1>2, <1>3, <1>10, <2>1 DEF Progress, NeedsWrite, At, Loaded, Settled, Unseen
  <2>3. ~ clean
    BY <1>2, <1>3, <1>10 DEF At, Clean, NeedsWrite, Unchanged, Unseen
  <2>4. \A q \in Paths : Saving(q)'
    BY <1>1, <1>2, <1>3, <1>4, <1>5, <1>6, <2>1, <2>2 DEF Saving
  <2> QED BY <1>1, <1>2, <1>4, <1>7, <1>8, <2>3, <2>4 DEF StoreInv, At
<1>11. CASE ~ Unchanged(p) /\ ~ NeedsWrite(p)
  <2>1. /\ scan'.path = {} /\ scan'.fork = "none" /\ scan'.kept = scan.kept \cup {p}
        /\ scan'.seen[p] = guest[p]
    BY <1>1, <1>2, <1>11 DEF Examine, Scans
  <2>2. Saved(p)'
    BY <1>1, <1>3, <1>11, <2>1 DEF Saved, NeedsWrite, Settled, Unseen
  <2>3. \A q \in Paths : Saving(q)'
    BY <1>1, <1>2, <1>3, <1>4, <1>5, <1>6, <2>1, <2>2 DEF Saving
  <2> QED BY <1>1, <1>2, <1>4, <1>7, <1>8, <2>1, <2>3 DEF StoreInv, At
<1> QED BY <1>9, <1>10, <1>11

\* Each fork written leaves the file on its way to its version.
LEMMA WriteKeeps == ASSUME StoreInv, NEW p \in Paths, Write(p), SaveTypeOK' PROVE StoreInv'
<1>1. /\ scan.phase = "save" /\ scan.path = {p} /\ scan.fork \in Forks /\ up' = up
      /\ clean' = clean /\ persisted' = persisted /\ prints' = prints /\ guest' = guest
      /\ hurt' = IF disk'[p] = guest[p] THEN hurt \ {p} ELSE hurt
      /\ \A q \in Paths \ {p} : q \in unread' <=> q \in unread
  BY ScanFacts DEF Write, StoreInv, SaveTypeOK
<1>2. scan \in Scans /\ SaveTypeOK /\ SaveTypeOK' /\ At(p) /\ Saving(p) /\ Progress(p) /\ up /\ ~ clean
  BY <1>1 DEF StoreInv, SaveTypeOK, At, Saving, Idle
<1>3. guest[p][scan.fork] \in {Gone, Torn} \cup 0..MaxVersion /\ disk \in [Paths -> File]
  BY <1>1, <1>2, Held DEF SaveTypeOK
<1>4. /\ disk'[p][scan.fork] = guest[p][scan.fork]
      /\ \A g \in Forks \ {scan.fork} : disk'[p][g] = disk[p][g]
      /\ \A q \in Paths \ {p} : disk'[q] = disk[q]
  <2>1. scan.fork \in Forks /\ disk' = [disk EXCEPT ![p][scan.fork] = guest[p][scan.fork]]
    BY <1>1 DEF Write
  <2> QED BY <1>3, <2>1 DEF File
<1>5. /\ scan'.phase = "save" /\ scan'.todo = scan.todo /\ scan'.ok = scan.ok
      /\ scan'.seen = scan.seen
      /\ \A q \in Paths \ {p} : q \in scan'.kept <=> q \in scan.kept
  BY <1>2 DEF Write, Scans
<1>6. ASSUME NEW q \in Paths, q # p
      PROVE  /\ At(q) /\ Saving(q) /\ (Saved(q) => Saved(q)') /\ (Omitted(q) => Omitted(q)')
             /\ (Settled(q) => Settled(q)')
  BY <1>1, <1>4, <1>5, <1>6 DEF Saved, Omitted, Settled, StoreInv, At, Unseen
<1>7. \A q \in Paths : guest'[q] \in Wholes \cup {NoFile} \/ Loaded(q)'
  BY <1>1 DEF StoreInv, At, Loaded
<1>8. ASSUME NEW q \in Paths, q # p
      PROVE  disk'[q].meta >= 0 => disk'[q] \in Wholes \/ q \in hurt' \cup scan'.path
  BY <1>1, <1>4, <1>6, <1>8 DEF At
<1>9. p \notin scan.todo
  BY <1>1, <1>2 DEF Saving
<1>10. CASE scan.fork = "meta"
  <2>1. scan'.path = {} /\ scan'.fork = "none" /\ scan'.kept = scan.kept \cup {p}
    BY <1>2, <1>10, ForkFacts DEF Write, Scans
  <2>2. disk'[p] = guest[p]
    <3>1. disk'[p].meta = guest[p].meta /\ disk'[p].data = disk[p].data /\ disk'[p].rsrc = disk[p].rsrc
      BY <1>4, <1>10 DEF Forks
    <3> QED BY <1>2, <1>10, <3>1, WholeFacts DEF Progress, SaveTypeOK, Unseen
  <2>3. Saved(p)'
    BY <1>1, <1>2, <1>5, <2>2, WholeFacts DEF Saved, Progress, Unseen
  <2>4. \A q \in Paths : Saving(q)'
    BY <1>1, <1>2, <1>5, <1>6, <1>9, <2>1, <2>3 DEF Saving
  <2>5. disk'[p] \in Wholes
    BY <1>2, <2>2 DEF Progress, Unseen
  <2> QED BY <1>1, <1>2, <1>5, <1>7, <1>8, <2>4, <2>5 DEF StoreInv, At
<1>11. CASE scan.fork # "meta"
  <2>1. /\ scan'.path = {p} /\ scan'.fork = AfterFork(scan.fork) /\ scan'.kept = scan.kept
        /\ unread' = unread
        /\ \/ scan.fork = "data" /\ scan'.fork = "rsrc"
           \/ scan.fork = "rsrc" /\ scan'.fork = "meta"
    BY <1>1, <1>2, <1>11, ForkFacts DEF Write, Scans, Forks
  <2>2. disk'[p].meta = disk[p].meta
    BY <1>4, <1>11 DEF Forks
  <2>3. Progress(p)'
    BY <1>1, <1>2, <1>4, <1>5, <2>1, <2>2 DEF Progress, Forks, Unseen
  <2>4. \A q \in Paths : Saving(q)'
    BY <1>1, <1>2, <1>5, <1>6, <1>9, <2>1, <2>3 DEF Saving
  <2> QED BY <1>1, <1>2, <1>5, <1>7, <1>8, <2>1, <2>4 DEF StoreInv, At
<1> QED BY <1>10, <1>11

\* A failed write leaves the file torn and unrecorded.
LEMMA WriteFailsKeeps == ASSUME StoreInv, NEW p \in Paths, WriteFails(p), SaveTypeOK' PROVE StoreInv'
<1>1. /\ scan.phase = "save" /\ scan.path = {p} /\ scan.fork \in Forks /\ up' = up
      /\ clean' = clean /\ persisted' = persisted /\ prints' = prints /\ guest' = guest
      /\ hurt' = IF p \in persisted \cup unread THEN hurt \cup {p} ELSE hurt
      /\ unread' = unread
  BY ScanFacts DEF WriteFails, StoreInv, SaveTypeOK
<1>2. scan \in Scans /\ SaveTypeOK /\ SaveTypeOK' /\ At(p) /\ Saving(p) /\ Progress(p) /\ up /\ ~ clean
  BY <1>1 DEF StoreInv, SaveTypeOK, At, Saving, Idle
<1>3. /\ disk'[p].meta = disk[p].meta \/ disk'[p].meta < 0
      /\ \A q \in Paths \ {p} : disk'[q] = disk[q]
  <2>1. CASE disk' = disk
    BY <2>1
  <2>2. CASE disk' = [disk EXCEPT ![p][scan.fork] = Torn]
    <3>1. /\ disk'[p][scan.fork] = Torn
          /\ \A g \in Forks \ {scan.fork} : disk'[p][g] = disk[p][g]
          /\ \A q \in Paths \ {p} : disk'[q] = disk[q]
      <4>1. scan.fork \in Forks /\ disk \in [Paths -> File] /\ Torn \in {Gone, Torn} \cup 0..MaxVersion
        BY <1>1, <1>2 DEF SaveTypeOK
      <4> QED BY <2>2, <4>1 DEF File
    <3> QED BY <3>1 DEF Forks, Torn
  <2> QED BY <2>1, <2>2 DEF WriteFails
<1>4. /\ scan'.phase = "save" /\ scan'.todo = scan.todo /\ ~ scan'.ok
      /\ scan'.path = {} /\ scan'.fork = "none"
      /\ scan'.kept = IF p \in persisted THEN scan.kept \cup {p} ELSE scan.kept
      /\ scan'.seen = [scan.seen EXCEPT ![p] = NoFile] /\ scan.seen \in [Paths -> File]
  BY <1>2 DEF WriteFails, Scans
<1>5. ASSUME NEW q \in Paths, q # p
      PROVE  /\ At(q) /\ Saving(q) /\ (Saved(q) => Saved(q)') /\ (Omitted(q) => Omitted(q)')
             /\ (Settled(q) => Settled(q)')
  BY <1>1, <1>3, <1>4, <1>5 DEF Saved, Omitted, Settled, StoreInv, At, Unseen
<1>6. \A q \in Paths : guest'[q] \in Wholes \cup {NoFile} \/ Loaded(q)'
  BY <1>1 DEF StoreInv, At, Loaded
<1>7. ASSUME NEW q \in Paths, q # p
      PROVE  disk'[q].meta >= 0 => disk'[q] \in Wholes \/ q \in hurt' \cup scan'.path
  BY <1>1, <1>3, <1>5, <1>7 DEF At
<1>8. p \notin scan.todo
  BY <1>1, <1>2 DEF Saving
<1>9. p \in persisted => Saved(p)' /\ p \in scan'.kept /\ p \in hurt'
  BY <1>1, <1>2, <1>4 DEF Saved, Progress, Unseen
<1>10. p \notin persisted => Omitted(p)' /\ p \notin scan'.kept
  BY <1>1, <1>2, <1>3, <1>4 DEF Omitted, Progress, Unseen
<1>11. disk'[p].meta >= 0 => disk'[p] \in Wholes \/ p \in hurt' \cup scan'.path
  BY <1>1, <1>2, <1>9, <1>10, WholeFacts DEF Omitted, SaveTypeOK, Unseen
<1>12. \A q \in Paths : Saving(q)'
  BY <1>1, <1>2, <1>4, <1>5, <1>8, <1>9, <1>10 DEF Saving
<1> QED BY <1>1, <1>2, <1>4, <1>6, <1>7, <1>11, <1>12 DEF StoreInv, At

\* Each fork removed leaves the file on its way to nothing.
LEMMA RemoveOneKeeps ==
  ASSUME Inside = {}, StoreInv, NEW p \in Paths, RemoveOne(p), SaveTypeOK' PROVE StoreInv'
<1>1. /\ scan.phase = "stale" /\ p \in scan.todo /\ scan.path \subseteq {p} /\ up' = up
      /\ clean' = clean /\ persisted' = persisted /\ prints' = prints /\ guest' = guest
      /\ hurt' = hurt /\ unread' = unread /\ scan' = [scan EXCEPT !.path = {p}]
  BY DEF RemoveOne
<1>2. scan \in Scans /\ SaveTypeOK /\ SaveTypeOK' /\ up /\ ~ clean
  BY <1>1 DEF StoreInv, SaveTypeOK, Idle
<1>3. \A q \in Paths \ {p} : disk'[q] = disk[q]
  <2>1. PICK q \in {p} \cup Nested(p), fork \in Forks : disk' = [disk EXCEPT ![q][fork] = Gone]
    BY DEF RemoveOne
  <2>2. q = p
    BY DEF Nested
  <2> QED BY <1>2, <2>1, <2>2, Edited DEF SaveTypeOK
<1>4. /\ scan'.phase = "stale" /\ scan'.todo = scan.todo /\ scan'.ok = scan.ok
      /\ scan'.path = {p} /\ scan'.fork = scan.fork /\ scan'.kept = scan.kept
      /\ scan'.seen = scan.seen
  BY <1>1, <1>2 DEF Scans
<1>5. ASSUME NEW q \in Paths PROVE At(q)'
  <2>1. At(q) /\ Removing(q)
    BY <1>1 DEF StoreInv, At
  <2>2. q # p => (Dealt(q) => Dealt(q)')
    BY <1>1, <1>3, <1>4 DEF Dealt, Saved, Omitted, Unseen
  <2>3. Removing(q)'
    BY <1>1, <1>4, <2>1, <2>2 DEF Removing
  <2>4. disk'[q].meta >= 0 => disk'[q] \in Wholes \/ q \in hurt' \cup scan'.path
    BY <1>1, <1>3, <1>4, <2>1 DEF At
  <2>5. guest'[q] \in Wholes \cup {NoFile} \/ Loaded(q)'
    BY <1>1, <2>1 DEF At, Loaded
  <2> QED BY <1>1, <1>2, <1>4, <2>3, <2>4, <2>5 DEF At
<1> QED BY <1>1, <1>2, <1>4, <1>5 DEF StoreInv

\* A removed file is forgotten.
LEMMA RemovedKeeps == ASSUME StoreInv, NEW p \in Paths, Removed(p), SaveTypeOK' PROVE StoreInv'
<1>1. /\ scan.phase = "stale" /\ p \in scan.todo /\ scan.path \subseteq {p} /\ up' = up
      /\ clean' = clean /\ persisted' = persisted /\ prints' = prints /\ guest' = guest
      /\ hurt' = hurt \ {p} /\ scan' = [scan EXCEPT !.todo = @ \ {p}, !.path = {}]
      /\ disk' = disk /\ disk[p] = NoFile /\ unread' = unread
  BY DEF Removed
<1>2. scan \in Scans /\ SaveTypeOK /\ SaveTypeOK' /\ up /\ ~ clean
  BY <1>1 DEF StoreInv, SaveTypeOK, Idle
<1>4. /\ scan'.phase = "stale" /\ scan'.todo = scan.todo \ {p} /\ scan'.ok = scan.ok
      /\ scan'.path = {} /\ scan'.fork = scan.fork /\ scan'.kept = scan.kept
      /\ scan'.seen = scan.seen
  BY <1>1, <1>2 DEF Scans
<1>5. ASSUME NEW q \in Paths PROVE At(q)'
  <2>1. At(q) /\ Removing(q)
    BY <1>1 DEF StoreInv, At
  <2>2. Dealt(q) => Dealt(q)'
    BY <1>1, <1>4 DEF Dealt, Saved, Omitted, Unseen
  <2>3. q = p => Dealt(q)'
    BY <1>1, <1>4, <2>1, WholeFacts DEF Dealt, Omitted, Removing, Unseen
  <2>4. Removing(q)'
    BY <1>1, <1>4, <2>1, <2>2, <2>3 DEF Removing
  <2>5. disk'[q].meta >= 0 => disk'[q] \in Wholes \/ q \in hurt' \cup scan'.path
    BY <1>1, <1>4, <2>1, WholeFacts DEF At
  <2>6. guest'[q] \in Wholes \cup {NoFile} \/ Loaded(q)'
    BY <1>1, <2>1 DEF At, Loaded
  <2> QED BY <1>1, <1>2, <1>4, <2>4, <2>5, <2>6 DEF At
<1> QED BY <1>1, <1>2, <1>4, <1>5 DEF StoreInv

\* A failed removal keeps the file's record.
LEMMA RemoveFailsKeeps == ASSUME StoreInv, NEW p \in Paths, RemoveFails(p), SaveTypeOK' PROVE StoreInv'
<1>1. /\ scan.phase = "stale" /\ p \in scan.todo /\ scan.path \subseteq {p} /\ up' = up
      /\ clean' = clean /\ persisted' = persisted /\ prints' = prints /\ guest' = guest
      /\ hurt' = hurt \cup {p} /\ disk' = disk /\ unread' = unread
  BY DEF RemoveFails
<1>2. scan \in Scans /\ SaveTypeOK /\ SaveTypeOK' /\ up /\ ~ clean
  BY <1>1 DEF StoreInv, SaveTypeOK, Idle
<1>4. /\ scan'.phase = "stale" /\ scan'.todo = scan.todo \ {p} /\ ~ scan'.ok
      /\ scan'.path = {} /\ scan'.fork = scan.fork /\ scan'.kept = scan.kept \cup {p}
      /\ scan'.seen = [scan.seen EXCEPT ![p] = NoFile] /\ scan.seen \in [Paths -> File]
  BY <1>2 DEF RemoveFails, Scans
<1>5. ASSUME NEW q \in Paths PROVE At(q)'
  <2>1. At(q) /\ Removing(q)
    BY <1>1 DEF StoreInv, At
  <2>2. q # p => (Dealt(q) => Dealt(q)')
    BY <1>1, <1>4 DEF Dealt, Saved, Omitted, Unseen
  <2>3. q = p => Dealt(q)'
    BY <1>1, <1>4, <2>1 DEF Dealt, Saved, Removing
  <2>4. Removing(q)'
    BY <1>1, <1>4, <2>1, <2>2, <2>3 DEF Removing
  <2>5. disk'[q].meta >= 0 => disk'[q] \in Wholes \/ q \in hurt' \cup scan'.path
    BY <1>1, <1>4, <2>1 DEF At
  <2>6. guest'[q] \in Wholes \cup {NoFile} \/ Loaded(q)'
    BY <1>1, <2>1 DEF At, Loaded
  <2> QED BY <1>1, <1>2, <1>4, <2>4, <2>5, <2>6 DEF At
<1> QED BY <1>1, <1>2, <1>4, <1>5 DEF StoreInv

\* A death at any point leaves no new file that looks whole.
LEMMA CrashKeeps == ASSUME StoreInv, Crash, SaveTypeOK' PROVE StoreInv'
<1>1. /\ up /\ ~ up' /\ ~ clean' /\ hurt' = hurt \cup (scan.path \cap (persisted \cup unread))
      /\ guest' = [p \in Paths |-> NoFile] /\ scan' = Idle
  BY DEF Crash
<1>2. scan'.phase = "idle" /\ scan'.path = {} /\ SaveTypeOK /\ SaveTypeOK' /\ scan \in Scans
  BY <1>1 DEF Idle, StoreInv, SaveTypeOK
<1>3. ASSUME NEW q \in Paths PROVE At(q)'
  <2>1. At(q) /\ (q \in scan.path => scan.phase # "idle")
    BY <1>1 DEF StoreInv, Idle
  <2>2. q \in scan.path /\ q \notin persisted \cup unread => scan.phase = "save" /\ disk[q].meta < 0
    BY <1>2, <2>1, ScanFacts DEF At, Saving, Progress, Removing, Unseen
  <2>3. CASE disk' = disk
    BY <1>1, <1>2, <2>1, <2>2, <2>3, WholeFacts DEF At, SaveTypeOK
  <2>4. CASE disk' # disk
    <3>1. PICK p \in scan.path : /\ scan.phase = "save" /\ scan.fork # "none"
                                 /\ disk' = [disk EXCEPT ![p][scan.fork] = Torn]
      BY <2>4 DEF Crash
    <3>2. p \in Paths /\ scan.fork \in Forks
      BY <1>2, <3>1, ScanFacts
    <3>3. /\ disk'[p][scan.fork] = Torn
          /\ \A g \in Forks \ {scan.fork} : disk'[p][g] = disk[p][g]
          /\ \A r \in Paths \ {p} : disk'[r] = disk[r]
      <4>1. disk \in [Paths -> File] /\ Torn \in {Gone, Torn} \cup 0..MaxVersion
        BY <1>2 DEF SaveTypeOK
      <4> QED BY <3>1, <3>2, <4>1 DEF File
    <3>4. disk'[p].meta = disk[p].meta \/ disk'[p].meta < 0
      BY <3>2, <3>3 DEF Forks, Torn
    <3>5. disk'[q].meta >= 0 => disk'[q] \in Wholes \/ q \in hurt' \cup scan'.path
      <4>1. CASE q = p
        <5>1. disk[p] \in File /\ disk'[p] \in File
          BY <1>2, <3>2 DEF SaveTypeOK
        <5>2. CASE p \in persisted \cup unread
          BY <1>1, <3>1, <4>1, <5>2
        <5>3. CASE p \notin persisted \cup unread
          <6>1. disk[p].meta < 0 /\ disk[p].meta \in Int /\ disk'[p].meta \in Int
            BY <2>2, <3>1, <4>1, <5>1, <5>3, WholeFacts
          <6> QED BY <3>4, <4>1, <6>1
        <5> QED BY <5>2, <5>3
      <4>2. CASE q # p
        BY <1>1, <1>2, <2>1, <2>2, <3>3, <4>2, WholeFacts DEF At, SaveTypeOK
      <4> QED BY <4>1, <4>2
    <3> QED BY <1>1, <1>2, <3>5 DEF At
  <2> QED BY <2>3, <2>4
<1> QED BY <1>1, <1>2, <1>3 DEF StoreInv

\* With no path inside another's, the invariant is inductive.
LEMMA StoreStep == ASSUME Inside = {}, StoreInv, [Next]_vars PROVE StoreInv'
<1>1. SaveTypeOK'
  BY TypeKept DEF StoreInv
<1>2. CASE UNCHANGED vars
  BY <1>2 DEF vars, StoreInv, SaveTypeOK, At, Settled, Saving, Saved, Omitted, Dealt, Progress,
     Unseen,
              Removing, Loaded, Clean
<1>3. CASE Launch \/ StartScan \/ StartStale \/ EndScan \/ Crash
  BY <1>1, <1>3, LaunchKeeps, StartScanKeeps, StartStaleKeeps, EndScanKeeps, CrashKeeps
<1>4. ASSUME NEW p \in Paths, GuestSaves(p) \/ GuestDeletes(p) \/ Examine(p) \/ Write(p) PROVE StoreInv'
  BY <1>1, <1>4, GuestSavesKeeps, GuestDeletesKeeps, ExamineKeeps, WriteKeeps
<1>5. ASSUME NEW p \in Paths, WriteFails(p) \/ RemoveOne(p) \/ Removed(p) \/ RemoveFails(p) PROVE StoreInv'
  BY <1>1, <1>5, WriteFailsKeeps, RemoveOneKeeps, RemovedKeeps, RemoveFailsKeeps
<1> QED BY <1>2, <1>3, <1>4, <1>5 DEF Next

\* The store's invariant: between scans every record is true of the disk, and a new file has
\* no metadata until its last fork is written (sync_save_files_now, persist_save_file).
THEOREM StoreInvariant == ASSUME Inside = {} PROVE Spec => []StoreInv
<1>1. StoreInv /\ [Next]_vars => StoreInv'
  BY StoreStep
<1> QED BY <1>1, InitStore, PTL DEF Spec

\* The invariant makes a clean scan a mirror.
LEMMA InvMirrors == StoreInv => CleanScanMirrors
<1> SUFFICES ASSUME StoreInv, clean, NEW p \in Paths \ unread, guest[p] # NoFile \/ p \notin Archived
             PROVE  Restored(p) = guest[p]
  BY DEF CleanScanMirrors, Mirrored
<1>1. Clean(p) /\ (guest[p] \in Wholes \cup {NoFile} \/ Loaded(p)) /\ disk[p] \in File
  BY DEF StoreInv, At, SaveTypeOK
<1>2. CASE p \in persisted
  BY <1>1, <1>2, WholeFacts DEF Clean, Loaded, Restored, Loadable, Unseen
<1>3. CASE p \notin persisted
  BY <1>1, <1>3, WholeFacts DEF Clean, Restored, Loadable, Unseen
<1> QED BY <1>2, <1>3

\* The invariant makes a first save whole or absent.
LEMMA InvWhole == StoreInv => FirstSaveWhole
<1> SUFFICES ASSUME StoreInv, NEW p \in Paths, disk[p].meta >= 0,
                    \A v \in 0..MaxVersion : disk[p] # Whole(v)
             PROVE  p \in hurt \cup scan.path
  BY DEF FirstSaveWhole, Loadable
<1>1. disk[p] \notin Wholes
  BY DEF Wholes
<1> QED BY <1>1 DEF StoreInv, At

\* A launch after a scan without an error restores exactly the guest's files, with any number
\* of paths, versions, errors and crashes before it; a directory the launch could not
\* read counts once it is rewritten (sync_save_files_now).
THEOREM CleanScansMirror == ASSUME Inside = {} PROVE Spec => []CleanScanMirrors
<1> QED BY StoreInvariant, InvMirrors, PTL

\* A save that is written for the first time is loaded whole or not at all, wherever the
\* process dies (persist_save_file writes the metadata last).
THEOREM FirstSavesWhole == ASSUME Inside = {} PROVE Spec => []FirstSaveWhole
<1> QED BY StoreInvariant, InvWhole, PTL

---------------------------------------------------------------------------
(* SaveMigration *)

Active == {"stage", "publish", "rollback"}

\* A process past its decision holds the lock, and nothing it decided on has changed.
JobOK(p) ==
  /\ job[p].at = "lock" => job[p].done = {}
  /\ job[p].at \in Active =>
       /\ lock = p
       /\ job[p].existed <=> stores[job[p].game].there
       /\ job[p].at # "stage" => job[p].existed
       /\ \A i, j \in job[p].copy : i = j
       /\ \A n \in job[p].todo \cup job[p].done : \E i \in job[p].copy : n \in i.names
       /\ \A i \in job[p].copy : i.source = Legacy /\ ~i.asked =>
            ~job[p].existed /\ ~Claimed

StoreOK(g) == ~stores[g].there => \A n \in Names : stores[g].files[n] = Nobody

\* A file that was published and will be recorded, rolled back or left.
InHand(g, n) == \E p \in Procs :
  /\ job[p].game = g /\ job[p].at \in {"publish", "rollback"} /\ n \in job[p].done
  /\ \E i \in job[p].copy : i.source = stores[g].files[n] /\ n \in i.names

Traced == 
  \A g \in Games, n \in Names :
    stores[g].files[n] \in Sources => Recorded(g, n) \/ InHand(g, n) \/ n \in left[g]

MigInv ==
  /\ MigrationTypeOK
  /\ \A p \in Procs : JobOK(p)
  /\ \A g \in Games : StoreOK(g)
  /\ LegacyMigratedOnce

-----------------------------------------------------------------------------

\* The markers for a game's own file, no file and no source are no sources, nor each other.
LEMMA Names4 ==
  /\ GameWrote \notin Sources /\ Nobody \notin Sources /\ NoSource \notin Sources
  /\ GameWrote # Nobody /\ Legacy \in Sources /\ Games \subseteq Sources
  /\ Legacy \notin Games
BY MigrationAssumption DEF Sources, GameWrote, Nobody, NoSource, Legacy

\* An absent store holds and records nothing.
LEMMA NoStoreFacts ==
  /\ NoStore \in Store /\ ~NoStore.there /\ NoStore.imports = {}
  /\ \A n \in Names : NoStore.files[n] = Nobody
BY DEF NoStore, Store

\* The fields of a job have their types.
LEMMA JobFacts == \A j \in Job :
  /\ j.at \in {"idle", "lock", "stage", "publish", "rollback", "end"} /\ j.game \in Games
  /\ j.asked \in Sources \cup {NoSource} /\ j.existed \in BOOLEAN
  /\ j.copy \subseteq Import /\ j.todo \subseteq Names /\ j.done \subseteq Names
<1> SUFFICES ASSUME NEW j \in Job
             PROVE  /\ j.at \in {"idle", "lock", "stage", "publish", "rollback", "end"} /\ j.game \in Games
                    /\ j.asked \in Sources \cup {NoSource} /\ j.existed \in BOOLEAN
                    /\ j.copy \subseteq Import /\ j.todo \subseteq Names /\ j.done \subseteq Names
  OBVIOUS
<1> QED BY DEF Job

\* The fields of a store have their types.
LEMMA StoreFacts == \A s \in Store :
  /\ s.there \in BOOLEAN /\ s.files \in [Names -> Sources \cup {GameWrote, Nobody}]
  /\ s.imports \subseteq Import
<1> SUFFICES ASSUME NEW s \in Store
             PROVE  /\ s.there \in BOOLEAN /\ s.files \in [Names -> Sources \cup {GameWrote, Nobody}]
                    /\ s.imports \subseteq Import
  OBVIOUS
<1> QED BY DEF Store

\* What an import records as its origin is its source.
LEMMA OriginFact ==
  ASSUME NEW p \in Procs, NEW i \in job[p].copy, \A j, k \in job[p].copy : j = k
  PROVE  Origin(p) = i.source
<1>1. {j.source : j \in job[p].copy} = {i.source}
  OBVIOUS
<1> QED BY <1>1 DEF Origin

\* Nothing has been migrated at the start.
LEMMA InitMig == MigrationInit => MigInv /\ Traced
<1> SUFFICES ASSUME MigrationInit PROVE MigInv /\ Traced
  OBVIOUS
<1> DEFINE j == [at |-> "idle", game |-> CHOOSE g \in Games : TRUE, asked |-> NoSource,
                 existed |-> FALSE, copy |-> {}, todo |-> {}, done |-> {}]
<1>1. j \in Job /\ j.at = "idle"
  BY MigrationAssumption DEF Job
<1>2. job = [p \in Procs |-> j] /\ stores = [g \in Games |-> NoStore] /\ lock = NoProc /\ starts = 0
      /\ left = [g \in Games |-> {}]
  BY DEF MigrationInit
<1> HIDE DEF j
<1>3. MigrationTypeOK
  BY <1>1, <1>2, NoStoreFacts, MigrationAssumption DEF MigrationTypeOK
<1>4. \A p \in Procs : JobOK(p)
  BY <1>1, <1>2 DEF JobOK, Active
<1>5. \A g \in Games : StoreOK(g)
  BY <1>2, NoStoreFacts DEF StoreOK
<1>6. LegacyMigratedOnce
  BY <1>2, NoStoreFacts DEF LegacyMigratedOnce, TookLegacy
<1>7. Traced
  BY <1>2, NoStoreFacts, Names4 DEF Traced
<1> QED BY <1>3, <1>4, <1>5, <1>6, <1>7 DEF MigInv

\* A process takes from a source, if any, and names of files only.
LEMMA SourceFacts ==
  ASSUME MigrationTypeOK, NEW p \in Procs
  PROVE  /\ SourceFor(p) \in Sources \cup {NoSource}
         /\ \A s \in Sources : NamesOf(s) \subseteq Names
         /\ job[p] \in Job /\ stores[job[p].game] \in Store /\ job[p].game \in Games
<1>1. job[p] \in Job /\ job[p].game \in Games /\ stores[job[p].game] \in Store
  BY JobFacts DEF MigrationTypeOK
<1>2. SourceFor(p) \in Sources \cup {NoSource}
  BY <1>1, JobFacts, Names4 DEF SourceFor
<1>3. \A s \in Sources : NamesOf(s) \subseteq Names
  BY MigrationAssumption DEF NamesOf, Files
<1> QED BY <1>1, <1>2, <1>3

\* What a decision leaves in the job of a process that goes on.
LEMMA DecideFacts ==
  ASSUME MigrationTypeOK, NEW p \in Procs, Decide(p)
  PROVE  /\ job[p].at = "lock" /\ lock = NoProc /\ lock' = p /\ UNCHANGED <<stores, starts, left>>
         /\ job'[p] \in Job /\ \A q \in Procs \ {p} : job'[q] = job[q]
         /\ job' \in [Procs -> Job]
         /\ \/ job'[p].at = "end"
            \/ /\ job'[p].at = "stage" /\ job'[p].game = job[p].game /\ job'[p].done = job[p].done
               /\ job'[p].existed = stores[job[p].game].there
               /\ \A i, j \in job'[p].copy : i = j
               /\ \A n \in job'[p].todo : \E i \in job'[p].copy : n \in i.names
               /\ \A i \in job'[p].copy : i.names \subseteq job'[p].todo
               /\ \A i \in job'[p].copy : i.source = Legacy /\ ~i.asked =>
                    ~stores[job[p].game].there /\ ~Claimed
<1> DEFINE g == job[p].game
           source == SourceFor(p)
           names == IF source = NoSource THEN {} ELSE NamesOf(source)
           import == [source |-> source, names |-> names, asked |-> job[p].asked # NoSource]
           copy == IF source = NoSource THEN {} ELSE {import}
           refused == source # NoSource
                        /\ \/ source = g \/ ~Readable(source)
                           \/ stores[g].there /\ names \cap Files(g) # {}
           next == [job[p] EXCEPT !.at = "stage", !.existed = stores[g].there, !.todo = names,
                                  !.copy = copy]
           ended == [job[p] EXCEPT !.at = "end"]
<1>1. /\ job[p].at = "lock" /\ lock = NoProc /\ lock' = p /\ UNCHANGED <<stores, starts, left>>
      /\ job' = [job EXCEPT ![p] = IF refused THEN ended ELSE next]
  BY DEF Decide, Locks
<1>2. job[p] \in Job /\ source \in Sources \cup {NoSource} /\ names \subseteq Names /\ stores[g] \in Store
  BY SourceFacts
<1>3. source # NoSource => import \in Import
  BY <1>2 DEF Import
<1>4. /\ copy \subseteq Import /\ \A i, j \in copy : i = j
      /\ \A n \in names : \E i \in copy : n \in i.names
      /\ \A i \in copy : i.names \subseteq names
  BY <1>3
<1>5. ASSUME NEW i \in copy, i.source = Legacy, ~i.asked PROVE ~stores[g].there /\ ~Claimed
  <2>1. source # NoSource /\ i = import
    BY <1>5
  <2>2. source = Legacy /\ job[p].asked = NoSource
    BY <1>5, <2>1
  <2> QED BY <2>2, Names4 DEF SourceFor
<1> HIDE DEF copy, names, refused
<1>6. next \in Job /\ ended \in Job
  BY <1>2, <1>4, StoreFacts DEF Job
<1>7. /\ next.at = "stage" /\ next.existed = stores[g].there /\ next.todo = names /\ next.copy = copy
      /\ next.game = g /\ next.done = job[p].done
  BY <1>2 DEF Job
<1>8. ended.at = "end"
  BY <1>2 DEF Job
<1> HIDE DEF next, ended
<1>9. job'[p] = (IF refused THEN ended ELSE next) /\ \A q \in Procs \ {p} : job'[q] = job[q]
  BY <1>1 DEF MigrationTypeOK
<1>10. job' \in [Procs -> Job]
  BY <1>1, <1>6 DEF MigrationTypeOK
<1>11. CASE refused
  BY <1>1, <1>6, <1>8, <1>9, <1>10, <1>11
<1>12. CASE ~refused
  BY <1>1, <1>4, <1>5, <1>6, <1>7, <1>9, <1>10, <1>12
<1> QED BY <1>11, <1>12

\* A process's step on its own job leaves the other processes' facts as they were.
LEMMA OthersOK ==
  ASSUME MigInv, NEW p \in Procs, \A q \in Procs \ {p} : job'[q] = job[q],
         lock \in {p, NoProc} \/ (stores' = stores /\ lock' = lock)
  PROVE  \A q \in Procs \ {p} : JobOK(q)'
<1> SUFFICES ASSUME NEW q \in Procs \ {p} PROVE JobOK(q)'
  OBVIOUS
<1>1. JobOK(q) /\ job'[q] = job[q]
  BY DEF MigInv
<1>2. CASE lock \in {p, NoProc}
  BY <1>1, <1>2, MigrationAssumption DEF JobOK
<1>3. CASE stores' = stores /\ lock' = lock
  BY <1>1, <1>3 DEF JobOK, Claimed
<1> QED BY <1>2, <1>3

\* The steps of a process that touch no store.
Private(p) ==
  \/ \E g \in Games, asked \in Sources \cup {NoSource} : Start(p, g, asked)
  \/ \E n \in Names : StageOne(p, n)
  \/ Decide(p) \/ StageFails(p) \/ StartPublish(p) \/ PublishFails(p) \/ RolledBack(p)
  \/ RollbackFails(p) \/ End(p) \/ Die(p)

\* Steps that touch no store forget none of the names left behind.
LEMMA LeftFacts ==
  ASSUME MigrationTypeOK, NEW p \in Procs, Private(p)
  PROVE  left' \in [Games -> SUBSET Names] /\ \A g \in Games : left[g] \subseteq left'[g]
<1>1. /\ left \in [Games -> SUBSET Names] /\ job[p].done \subseteq Names /\ job[p].game \in Games
  BY JobFacts DEF MigrationTypeOK
<1>2. left' = left \/ left' = Leaves(p)
  BY DEF Private, Start, StageOne, Decide, StageFails, StartPublish, PublishFails, RolledBack,
         RollbackFails, End, Die
<1> QED BY <1>1, <1>2 DEF Leaves

\* What the steps that touch no store leave behind.
LEMMA PrivateFacts ==
  ASSUME MigInv, NEW p \in Procs, Private(p)
  PROVE  /\ stores' = stores /\ job' \in [Procs -> Job] /\ lock' \in Procs \cup {NoProc}
         /\ starts' \in 0..MaxStarts /\ \A q \in Procs \ {p} : job'[q] = job[q]
         /\ left' \in [Games -> SUBSET Names] /\ \A g \in Games : left[g] \subseteq left'[g]
         /\ lock \in {p, NoProc} \/ lock' = lock
         /\ JobOK(p)'
<1>0. MigrationTypeOK /\ JobOK(p) /\ job[p] \in Job /\ job \in [Procs -> Job]
  BY DEF MigInv, MigrationTypeOK
<1>1. ASSUME NEW g \in Games, NEW asked \in Sources \cup {NoSource}, Start(p, g, asked)
      PROVE  /\ stores' = stores /\ job' \in [Procs -> Job] /\ lock' = lock
             /\ starts' \in 0..MaxStarts /\ \A q \in Procs \ {p} : job'[q] = job[q]
             /\ job'[p].at = "lock" /\ job'[p].done = {}
  <2>1. starts' \in 0..MaxStarts
    BY <1>0, <1>1, MigrationAssumption DEF Start, MigrationTypeOK
  <2>2. /\ job' \in [Procs -> Job] /\ \A q \in Procs \ {p} : job'[q] = job[q]
        /\ job'[p].at = "lock" /\ job'[p].done = {}
    BY <1>0, <1>1 DEF Start, Job
  <2> QED BY <1>1, <2>1, <2>2 DEF Start
<1>2. ASSUME NEW n \in Names, StageOne(p, n)
      PROVE  /\ stores' = stores /\ job' \in [Procs -> Job] /\ lock' = lock /\ starts' = starts
             /\ \A q \in Procs \ {p} : job'[q] = job[q]
             /\ job[p].at = "stage" /\ job'[p].at = "stage" /\ job'[p].game = job[p].game
             /\ job'[p].copy = job[p].copy /\ job'[p].existed = job[p].existed
             /\ job'[p].todo \cup job'[p].done = job[p].todo \cup job[p].done
  BY <1>0, <1>2 DEF StageOne, Job
<1>3. ASSUME StageFails(p) \/ RolledBack(p) \/ RollbackFails(p) \/ End(p) \/ Die(p)
      PROVE  /\ stores' = stores /\ job' \in [Procs -> Job] /\ starts' = starts
             /\ lock' \in Procs \cup {NoProc} /\ (lock = p \/ lock' = lock)
             /\ \A q \in Procs \ {p} : job'[q] = job[q]
             /\ job'[p].at \in {"idle", "end"}
  <2>1. /\ job' = [job EXCEPT ![p].at = "end"] \/ job' = [job EXCEPT ![p].at = "idle"]
        /\ stores' = stores /\ starts' = starts
        /\ lock' = lock \/ (lock = p /\ lock' = NoProc)
    BY <1>3 DEF StageFails, RolledBack, RollbackFails, End, Die
  <2>2. PICK at \in {"end", "idle"} : job' = [job EXCEPT ![p].at = at]
    BY <2>1
  <2>3. [job[p] EXCEPT !.at = at] \in Job
    BY <1>0 DEF Job
  <2>4. /\ job' \in [Procs -> Job] /\ \A q \in Procs \ {p} : job'[q] = job[q]
        /\ job'[p].at = at
    BY <1>0, <2>2, <2>3 DEF Job
  <2>5. lock' \in Procs \cup {NoProc} /\ (lock = p \/ lock' = lock)
    BY <1>0, <2>1 DEF MigrationTypeOK
  <2> QED BY <2>1, <2>4, <2>5
<1>4. ASSUME StartPublish(p)
      PROVE  /\ stores' = stores /\ job' \in [Procs -> Job] /\ lock' = lock /\ starts' = starts
             /\ \A q \in Procs \ {p} : job'[q] = job[q]
             /\ job[p].at = "stage" /\ job'[p].at = "publish" /\ job'[p].game = job[p].game
             /\ job'[p].copy = job[p].copy /\ job'[p].existed = job[p].existed /\ job[p].existed
             /\ job'[p].todo = job[p].done /\ job'[p].done = {}
  BY <1>0, <1>4 DEF StartPublish, Job
<1>5. ASSUME PublishFails(p)
      PROVE  /\ stores' = stores /\ job' \in [Procs -> Job] /\ lock' = lock /\ starts' = starts
             /\ \A q \in Procs \ {p} : job'[q] = job[q]
             /\ job[p].at = "publish" /\ job'[p].at = "rollback" /\ job'[p].game = job[p].game
             /\ job'[p].copy = job[p].copy /\ job'[p].existed = job[p].existed
             /\ job'[p].todo = job[p].todo /\ job'[p].done = job[p].done
  BY <1>0, <1>5 DEF PublishFails, Job
<1>6. stores' = stores => (Claimed' <=> Claimed)
  BY DEF Claimed
<1>p. Private(p)
  OBVIOUS
<1>7. CASE \E g \in Games, asked \in Sources \cup {NoSource} : Start(p, g, asked)
  BY <1>0, LeftFacts, <1>p, <1>1, <1>7 DEF JobOK, Active, MigrationTypeOK
<1>8. CASE \E n \in Names : StageOne(p, n)
  BY <1>0, LeftFacts, <1>p, <1>2, <1>6, <1>8 DEF JobOK, Active, MigrationTypeOK
<1>9. CASE StageFails(p) \/ RolledBack(p) \/ RollbackFails(p) \/ End(p) \/ Die(p)
  BY <1>0, LeftFacts, <1>p, <1>3, <1>9 DEF JobOK, Active, MigrationTypeOK
<1>10. CASE StartPublish(p)
  BY <1>0, LeftFacts, <1>p, <1>4, <1>6, <1>10 DEF JobOK, Active, MigrationTypeOK
<1>11. CASE PublishFails(p)
  BY <1>0, LeftFacts, <1>p, <1>5, <1>6, <1>11 DEF JobOK, Active, MigrationTypeOK
<1>12. CASE Decide(p)
  BY <1>0, LeftFacts, <1>p, <1>6, <1>12, DecideFacts DEF JobOK, Active, MigrationTypeOK
<1> QED BY <1>7, <1>8, <1>9, <1>10, <1>11, <1>12 DEF Private

\* Steps that touch no store keep the invariant.
LEMMA PrivateKeeps == ASSUME MigInv, NEW p \in Procs, Private(p) PROVE MigInv'
<1>1. \A q \in Procs : JobOK(q)'
  BY PrivateFacts, OthersOK
<1>2. MigrationTypeOK'
  BY PrivateFacts DEF MigInv, MigrationTypeOK
<1>3. \A g \in Games : StoreOK(g)'
  BY PrivateFacts DEF MigInv, StoreOK
<1>4. LegacyMigratedOnce'
  BY PrivateFacts DEF MigInv, LegacyMigratedOnce, TookLegacy
<1> QED BY <1>1, <1>2, <1>3, <1>4 DEF MigInv

\* What a process does to its own store, under the lock.
LEMMA PublishStoreFacts ==
  ASSUME MigInv, NEW p \in Procs, PublishStore(p), NEW g, g = job[p].game
  PROVE  /\ job[p].at = "stage" /\ lock = p /\ ~stores[g].there /\ g \in Games
         /\ job' \in [Procs -> Job] /\ \A q \in Procs \ {p} : job'[q] = job[q]
         /\ job'[p].at = "end" /\ UNCHANGED <<lock, starts, left>>
         /\ stores' \in [Games -> Store] /\ \A h \in Games \ {g} : stores'[h] = stores[h]
         /\ stores'[g].there /\ stores'[g].imports = job[p].copy
         /\ \A n \in Names : \/ stores'[g].files[n] = Nobody
                             \/ \E i \in job[p].copy : stores'[g].files[n] = i.source /\ n \in i.names
<1>0. /\ MigrationTypeOK /\ JobOK(p) /\ job[p] \in Job /\ job \in [Procs -> Job] /\ g \in Games
      /\ job[p].at = "stage" /\ ~job[p].existed
  BY JobFacts DEF MigInv, MigrationTypeOK, PublishStore
<1>1. lock = p /\ ~stores[g].there
  BY <1>0 DEF JobOK, Active
<1>2. /\ job' \in [Procs -> Job] /\ job'[p].at = "end"
      /\ \A q \in Procs \ {p} : job'[q] = job[q]
  BY <1>0 DEF PublishStore, Job
<1> DEFINE files == IF job[p].copy = {} THEN NoStore.files ELSE Filled(NoStore.files, job[p].done, Origin(p))
           new == [there |-> TRUE, imports |-> job[p].copy, files |-> files]
<1>3. /\ files \in [Names -> Sources \cup {GameWrote, Nobody}]
      /\ \A n \in Names : \/ files[n] = Nobody
                          \/ \E i \in job[p].copy : files[n] = i.source /\ n \in i.names
  <2>1. NoStore.files \in [Names -> Sources \cup {GameWrote, Nobody}]
    BY NoStoreFacts, StoreFacts
  <2>2. CASE job[p].copy = {}
    BY <2>1, <2>2, NoStoreFacts
  <2>3. CASE job[p].copy # {}
    <3>1. PICK i \in job[p].copy : TRUE
      BY <2>3
    <3>2. /\ Origin(p) = i.source /\ i.source \in Sources /\ \A n \in job[p].done : n \in i.names
      <4>1. i \in Import
        BY <1>0, JobFacts
      <4>2. Origin(p) = i.source
        BY <1>0, OriginFact DEF JobOK, Active
      <4> QED BY <1>0, <4>1, <4>2 DEF JobOK, Active, Import
    <3>3. files = [n \in Names |-> IF n \in job[p].done THEN i.source ELSE NoStore.files[n]]
      BY <2>3, <3>2 DEF Filled
    <3> QED BY <2>1, <3>2, <3>3, NoStoreFacts
  <2> QED BY <2>2, <2>3
<1> HIDE DEF files
<1>4. new \in Store /\ new.there /\ new.imports = job[p].copy /\ new.files = files
  BY <1>0, <1>3, JobFacts DEF Store
<1>5. stores' = [stores EXCEPT ![g] = new] /\ UNCHANGED <<lock, starts, left>>
  BY DEF PublishStore, files
<1> HIDE DEF new
<1>6. stores' \in [Games -> Store] /\ stores'[g] = new /\ \A h \in Games \ {g} : stores'[h] = stores[h]
  BY <1>0, <1>4, <1>5 DEF MigrationTypeOK
<1>7. \A n \in Names : \/ stores'[g].files[n] = Nobody
                      \/ \E i \in job[p].copy : stores'[g].files[n] = i.source /\ n \in i.names
  BY <1>3, <1>4, <1>6
<1>8. stores'[g].there /\ stores'[g].imports = job[p].copy
  BY <1>4, <1>6
<1> QED BY <1>0, <1>1, <1>2, <1>5, <1>6, <1>7, <1>8

\* Publishing a new store keeps the invariant.
LEMMA PublishStoreKeeps == ASSUME MigInv, NEW p \in Procs, PublishStore(p) PROVE MigInv'
<1> DEFINE g == job[p].game
<1>1. /\ job[p].at = "stage" /\ lock = p /\ ~stores[g].there /\ g \in Games
      /\ job' \in [Procs -> Job] /\ \A q \in Procs \ {p} : job'[q] = job[q]
      /\ job'[p].at = "end" /\ UNCHANGED <<lock, starts, left>>
      /\ stores' \in [Games -> Store] /\ \A h \in Games \ {g} : stores'[h] = stores[h]
      /\ stores'[g].there /\ stores'[g].imports = job[p].copy
  BY PublishStoreFacts
<1>2. JobOK(p)
  BY DEF MigInv
<1> HIDE DEF g
<1>3. \A q \in Procs : JobOK(q)'
  BY <1>1, OthersOK DEF JobOK, Active
<1>4. MigrationTypeOK'
  BY <1>1 DEF MigInv, MigrationTypeOK
<1>5. \A h \in Games : StoreOK(h)'
  BY <1>1 DEF MigInv, StoreOK
<1>6. LegacyMigratedOnce'
  <2>1. CASE \E i \in job[p].copy : i.source = Legacy /\ ~i.asked
    <3>1. \A h \in Games : ~ TookLegacy(h)
      BY <1>1, <1>2, <2>1 DEF JobOK, Active, Claimed, TookLegacy
    <3> QED BY <1>1, <3>1 DEF LegacyMigratedOnce, TookLegacy
  <2>2. CASE ~ \E i \in job[p].copy : i.source = Legacy /\ ~i.asked
    BY <1>1, <2>2 DEF MigInv, LegacyMigratedOnce, TookLegacy
  <2> QED BY <2>1, <2>2
<1> QED BY <1>3, <1>4, <1>5, <1>6 DEF MigInv

\* A file published into a store changes that file only.
LEMMA FileFacts ==
  ASSUME stores \in [Games -> Store], NEW g \in Games, NEW n \in Names,
         NEW content \in Sources \cup {GameWrote, Nobody}, stores' = [stores EXCEPT ![g].files[n] = content]
  PROVE  /\ stores' \in [Games -> Store] /\ \A h \in Games \ {g} : stores'[h] = stores[h]
         /\ stores'[g].there = stores[g].there /\ stores'[g].imports = stores[g].imports
         /\ stores'[g].files[n] = content
         /\ \A m \in Names \ {n} : stores'[g].files[m] = stores[g].files[m]
<1> DEFINE s == [stores[g] EXCEPT !.files[n] = content]
<1>1. stores[g] \in Store
  OBVIOUS
<1>2. /\ s \in Store /\ s.there = stores[g].there /\ s.imports = stores[g].imports
      /\ s.files[n] = content /\ \A m \in Names \ {n} : s.files[m] = stores[g].files[m]
  BY <1>1 DEF Store
<1>3. stores' = [stores EXCEPT ![g] = s]
  OBVIOUS
<1> HIDE DEF s
<1> QED BY <1>2, <1>3

\* What a process publishes is one import's, and the file was not there.
LEMMA PublishOneFacts ==
  ASSUME MigInv, NEW p \in Procs, NEW n \in Names, PublishOne(p, n), NEW g, g = job[p].game
  PROVE  /\ job[p].at = "publish" /\ lock = p /\ stores[g].there /\ g \in Games
         /\ n \in job[p].todo /\ stores[g].files[n] = Nobody
         /\ stores' = [stores EXCEPT ![g].files[n] = Origin(p)] /\ UNCHANGED <<lock, starts, left>>
         /\ Origin(p) \in Sources /\ \E i \in job[p].copy : Origin(p) = i.source /\ n \in i.names
         /\ job' \in [Procs -> Job] /\ \A q \in Procs \ {p} : job'[q] = job[q]
         /\ job'[p].at = "publish" /\ job'[p].game = g /\ job'[p].existed = job[p].existed
         /\ job'[p].copy = job[p].copy /\ job'[p].done = job[p].done \cup {n}
         /\ job'[p].todo = job[p].todo \ {n}
<1>1. /\ MigrationTypeOK /\ JobOK(p) /\ job[p] \in Job /\ job \in [Procs -> Job] /\ g \in Games
      /\ job[p].at = "publish" /\ n \in job[p].todo
  BY JobFacts DEF MigInv, MigrationTypeOK, PublishOne
<1>2. lock = p /\ stores[g].there
  BY <1>1 DEF JobOK, Active
<1>3. PICK i \in job[p].copy : n \in i.names
  BY <1>1 DEF JobOK, Active
<1>4. i \in Import
  BY <1>1, JobFacts
<1>5. Origin(p) = i.source /\ i.source \in Sources
  <2>1. \A j, k \in job[p].copy : j = k
    BY <1>1 DEF JobOK, Active
  <2> QED BY <1>4, <2>1, OriginFact DEF Import
<1>6. /\ job' \in [Procs -> Job] /\ \A q \in Procs \ {p} : job'[q] = job[q]
      /\ job'[p].at = "publish" /\ job'[p].game = g /\ job'[p].existed = job[p].existed
      /\ job'[p].copy = job[p].copy /\ job'[p].done = job[p].done \cup {n}
      /\ job'[p].todo = job[p].todo \ {n}
  BY <1>1 DEF PublishOne, Job
<1>7. /\ stores[g].files[n] = Nobody /\ UNCHANGED <<lock, starts, left>>
      /\ stores' = [stores EXCEPT ![g].files[n] = Origin(p)]
  BY DEF PublishOne, Files
<1> QED BY <1>1, <1>2, <1>3, <1>5, <1>6, <1>7

\* Publishing one import keeps the invariant.
LEMMA PublishOneKeeps == ASSUME MigInv, NEW p \in Procs, NEW n \in Names, PublishOne(p, n) PROVE MigInv'
<1> DEFINE g == job[p].game
<1>1. /\ job[p].at = "publish" /\ lock = p /\ stores[g].there /\ g \in Games /\ Origin(p) \in Sources
      /\ stores' = [stores EXCEPT ![g].files[n] = Origin(p)] /\ UNCHANGED <<lock, starts, left>>
      /\ job' \in [Procs -> Job] /\ \A q \in Procs \ {p} : job'[q] = job[q]
      /\ job'[p].at = "publish" /\ job'[p].game = g /\ job'[p].existed = job[p].existed
      /\ job'[p].copy = job[p].copy
      /\ job'[p].todo \cup job'[p].done \subseteq job[p].todo \cup job[p].done
  <2>1. /\ job[p].at = "publish" /\ lock = p /\ stores[g].there /\ g \in Games
        /\ n \in job[p].todo /\ stores[g].files[n] = Nobody
        /\ stores' = [stores EXCEPT ![g].files[n] = Origin(p)] /\ UNCHANGED <<lock, starts, left>>
        /\ Origin(p) \in Sources /\ \E i \in job[p].copy : Origin(p) = i.source /\ n \in i.names
        /\ job' \in [Procs -> Job] /\ \A q \in Procs \ {p} : job'[q] = job[q]
        /\ job'[p].at = "publish" /\ job'[p].game = g /\ job'[p].existed = job[p].existed
        /\ job'[p].copy = job[p].copy /\ job'[p].done = job[p].done \cup {n}
        /\ job'[p].todo = job[p].todo \ {n}
    BY PublishOneFacts, ZenonT(60)
  <2>2. job'[p].todo \cup job'[p].done \subseteq job[p].todo \cup job[p].done
    BY <2>1
  <2> HIDE DEF g
  <2> QED BY <2>1, <2>2
<1> HIDE DEF g
<1>2. /\ stores' \in [Games -> Store] /\ \A h \in Games \ {g} : stores'[h] = stores[h]
      /\ stores'[g].there = stores[g].there /\ stores'[g].imports = stores[g].imports
  BY <1>1, FileFacts DEF MigInv, MigrationTypeOK
<1>3. \A h \in Games : stores'[h].there = stores[h].there /\ stores'[h].imports = stores[h].imports
  BY <1>2
<1>4. JobOK(p) /\ job[p].game = g
  BY DEF MigInv, g
<1>5. JobOK(p)'
  BY <1>1, <1>3, <1>4 DEF JobOK, Active, Claimed
<1>6. \A q \in Procs : JobOK(q)'
  BY <1>1, <1>5, OthersOK
<1>7. MigrationTypeOK'
  BY <1>1, <1>2 DEF MigInv, MigrationTypeOK
<1>8. \A h \in Games : StoreOK(h)'
  BY <1>1, <1>2 DEF MigInv, StoreOK
<1>9. LegacyMigratedOnce'
  BY <1>3 DEF MigInv, LegacyMigratedOnce, TookLegacy
<1> QED BY <1>6, <1>7, <1>8, <1>9 DEF MigInv

\* What undoing one published file leaves behind.
LEMMA RollBackOneFacts ==
  ASSUME MigInv, NEW p \in Procs, NEW n \in Names, RollBackOne(p, n), NEW g, g = job[p].game
  PROVE  /\ job[p].at = "rollback" /\ lock = p /\ stores[g].there /\ g \in Games /\ n \in job[p].done
         /\ stores' = [stores EXCEPT ![g].files[n] = Nobody] /\ UNCHANGED <<lock, starts, left>>
         /\ job' \in [Procs -> Job] /\ \A q \in Procs \ {p} : job'[q] = job[q]
         /\ job'[p].at = "rollback" /\ job'[p].game = g /\ job'[p].existed = job[p].existed
         /\ job'[p].copy = job[p].copy /\ job'[p].done = job[p].done \ {n}
         /\ job'[p].todo = job[p].todo
<1>1. /\ MigrationTypeOK /\ JobOK(p) /\ job[p] \in Job /\ job \in [Procs -> Job] /\ g \in Games
      /\ job[p].at = "rollback" /\ n \in job[p].done
  BY JobFacts DEF MigInv, MigrationTypeOK, RollBackOne
<1>2. lock = p /\ stores[g].there
  BY <1>1 DEF JobOK, Active
<1>3. /\ job' \in [Procs -> Job] /\ \A q \in Procs \ {p} : job'[q] = job[q]
      /\ job'[p].at = "rollback" /\ job'[p].game = g /\ job'[p].existed = job[p].existed
      /\ job'[p].copy = job[p].copy /\ job'[p].done = job[p].done \ {n}
      /\ job'[p].todo = job[p].todo
  BY <1>1 DEF RollBackOne, Job
<1> QED BY <1>1, <1>2, <1>3 DEF RollBackOne

\* Undoing one published file keeps the invariant.
LEMMA RollBackOneKeeps == ASSUME MigInv, NEW p \in Procs, NEW n \in Names, RollBackOne(p, n) PROVE MigInv'
<1> DEFINE g == job[p].game
<1>1. /\ job[p].at = "rollback" /\ lock = p /\ stores[g].there /\ g \in Games
      /\ stores' = [stores EXCEPT ![g].files[n] = Nobody] /\ UNCHANGED <<lock, starts, left>>
      /\ job' \in [Procs -> Job] /\ \A q \in Procs \ {p} : job'[q] = job[q]
      /\ job'[p].at = "rollback" /\ job'[p].game = g /\ job'[p].existed = job[p].existed
      /\ job'[p].copy = job[p].copy
      /\ job'[p].todo \cup job'[p].done \subseteq job[p].todo \cup job[p].done
  <2>1. /\ job[p].at = "rollback" /\ lock = p /\ stores[g].there /\ g \in Games /\ n \in job[p].done
        /\ stores' = [stores EXCEPT ![g].files[n] = Nobody] /\ UNCHANGED <<lock, starts, left>>
        /\ job' \in [Procs -> Job] /\ \A q \in Procs \ {p} : job'[q] = job[q]
        /\ job'[p].at = "rollback" /\ job'[p].game = g /\ job'[p].existed = job[p].existed
        /\ job'[p].copy = job[p].copy /\ job'[p].done = job[p].done \ {n}
        /\ job'[p].todo = job[p].todo
    BY RollBackOneFacts, ZenonT(60)
  <2>2. job'[p].todo \cup job'[p].done \subseteq job[p].todo \cup job[p].done
    BY <2>1
  <2> HIDE DEF g
  <2> QED BY <2>1, <2>2
<1> HIDE DEF g
<1>2. /\ stores' \in [Games -> Store] /\ \A h \in Games \ {g} : stores'[h] = stores[h]
      /\ stores'[g].there = stores[g].there /\ stores'[g].imports = stores[g].imports
  BY <1>1, FileFacts DEF MigInv, MigrationTypeOK
<1>3. \A h \in Games : stores'[h].there = stores[h].there /\ stores'[h].imports = stores[h].imports
  BY <1>2
<1>4. JobOK(p) /\ job[p].game = g
  BY DEF MigInv, g
<1>5. JobOK(p)'
  BY <1>1, <1>3, <1>4 DEF JobOK, Active, Claimed
<1>6. \A q \in Procs : JobOK(q)'
  BY <1>1, <1>5, OthersOK
<1>7. MigrationTypeOK'
  BY <1>1, <1>2 DEF MigInv, MigrationTypeOK
<1>8. \A h \in Games : StoreOK(h)'
  BY <1>1, <1>2 DEF MigInv, StoreOK
<1>9. LegacyMigratedOnce'
  BY <1>3 DEF MigInv, LegacyMigratedOnce, TookLegacy
<1> QED BY <1>6, <1>7, <1>8, <1>9 DEF MigInv

\* What replacing the manifest leaves behind.
LEMMA PublishManifestFacts ==
  ASSUME MigInv, NEW p \in Procs, PublishManifest(p), NEW g, g = job[p].game
  PROVE  /\ job[p].at = "publish" /\ lock = p /\ stores[g].there /\ g \in Games /\ job[p].existed
         /\ UNCHANGED <<lock, starts, left>>
         /\ job' \in [Procs -> Job] /\ \A q \in Procs \ {p} : job'[q] = job[q]
         /\ job'[p].at = "end"
         /\ stores' \in [Games -> Store] /\ \A h \in Games \ {g} : stores'[h] = stores[h]
         /\ stores'[g].there /\ stores'[g].files = stores[g].files
         /\ stores'[g].imports = stores[g].imports \cup job[p].copy
<1>1. /\ MigrationTypeOK /\ JobOK(p) /\ job[p] \in Job /\ job \in [Procs -> Job] /\ g \in Games
      /\ job[p].at = "publish" /\ job[p].copy \subseteq Import
  BY JobFacts DEF MigInv, MigrationTypeOK, PublishManifest
<1>2. lock = p /\ stores[g].there /\ job[p].existed
  BY <1>1 DEF JobOK, Active
<1>3. /\ job' \in [Procs -> Job] /\ job'[p].at = "end"
      /\ \A q \in Procs \ {p} : job'[q] = job[q]
  BY <1>1 DEF PublishManifest, Job
<1> DEFINE s == [stores[g] EXCEPT !.imports = @ \cup job[p].copy]
<1>4. /\ s \in Store /\ s.there = stores[g].there /\ s.files = stores[g].files
      /\ s.imports = stores[g].imports \cup job[p].copy
  <2>1. stores[g] \in Store
    BY <1>1 DEF MigrationTypeOK
  <2> QED BY <1>1, <2>1 DEF Store
<1>5. stores' = [stores EXCEPT ![g] = s] /\ UNCHANGED <<lock, starts, left>>
  BY DEF PublishManifest
<1> HIDE DEF s
<1>6. stores' \in [Games -> Store] /\ stores'[g] = s /\ \A h \in Games \ {g} : stores'[h] = stores[h]
  BY <1>1, <1>4, <1>5 DEF MigrationTypeOK
<1>7. /\ stores'[g].there /\ stores'[g].files = stores[g].files
      /\ stores'[g].imports = stores[g].imports \cup job[p].copy
  BY <1>2, <1>4, <1>6
<1> QED BY <1>1, <1>2, <1>3, <1>5, <1>6, <1>7

\* Replacing the manifest keeps the invariant.
LEMMA PublishManifestKeeps == ASSUME MigInv, NEW p \in Procs, PublishManifest(p) PROVE MigInv'
<1> DEFINE g == job[p].game
<1>1. /\ job[p].at = "publish" /\ lock = p /\ stores[g].there /\ g \in Games /\ job[p].existed
      /\ UNCHANGED <<lock, starts, left>>
      /\ job' \in [Procs -> Job] /\ \A q \in Procs \ {p} : job'[q] = job[q]
      /\ job'[p].at = "end"
      /\ stores' \in [Games -> Store] /\ \A h \in Games \ {g} : stores'[h] = stores[h]
      /\ stores'[g].there /\ stores'[g].imports = stores[g].imports \cup job[p].copy
  BY PublishManifestFacts
<1> HIDE DEF g
<1>2. \A q \in Procs : JobOK(q)'
  BY <1>1, OthersOK DEF JobOK, Active
<1>3. MigrationTypeOK'
  BY <1>1 DEF MigInv, MigrationTypeOK
<1>4. \A h \in Games : StoreOK(h)'
  BY <1>1 DEF MigInv, StoreOK
<1>5. \A h \in Games : TookLegacy(h)' => TookLegacy(h)
  <2>1. \A i \in job[p].copy : ~(i.source = Legacy /\ ~i.asked)
    BY <1>1 DEF MigInv, JobOK, Active
  <2> QED BY <1>1, <2>1 DEF TookLegacy
<1>6. LegacyMigratedOnce'
  BY <1>5 DEF MigInv, LegacyMigratedOnce
<1> QED BY <1>2, <1>3, <1>4, <1>6 DEF MigInv

\* A game's write touches one file of its own store.
LEMMA GameSavesFacts ==
  ASSUME MigInv, NEW g \in Games, NEW n \in Names, GameSaves(g, n)
  PROVE  /\ UNCHANGED <<lock, job, starts>> /\ stores[g].there
         /\ left' = [left EXCEPT ![g] = @ \ {n}]
         /\ stores' \in [Games -> Store] /\ \A h \in Games \ {g} : stores'[h] = stores[h]
         /\ stores'[g].there = stores[g].there /\ stores'[g].imports = stores[g].imports
         /\ stores'[g].files[n] \in {GameWrote, Nobody} \ {stores[g].files[n]}
         /\ \A m \in Names \ {n} : stores'[g].files[m] = stores[g].files[m]
<1>1. PICK content \in {GameWrote, Nobody} \ {stores[g].files[n]} : stores' = [stores EXCEPT ![g].files[n] = content]
  BY DEF GameSaves
<1>2. /\ content \in Sources \cup {GameWrote, Nobody} /\ stores \in [Games -> Store]
      /\ UNCHANGED <<lock, job, starts>> /\ stores[g].there
      /\ left' = [left EXCEPT ![g] = @ \ {n}]
  BY DEF MigInv, MigrationTypeOK, GameSaves
<1>3. /\ stores' \in [Games -> Store] /\ \A h \in Games \ {g} : stores'[h] = stores[h]
      /\ stores'[g].there = stores[g].there /\ stores'[g].imports = stores[g].imports
  BY <1>1, <1>2, FileFacts
<1>4. /\ stores'[g].files[n] = content
      /\ \A m \in Names \ {n} : stores'[g].files[m] = stores[g].files[m]
  <2>1. stores[g].files \in [Names -> Sources \cup {GameWrote, Nobody}]
    BY <1>2, StoreFacts
  <2> QED BY <1>1, <1>2, <2>1
<1> QED BY <1>1, <1>2, <1>3, <1>4

\* A running game keeps the invariant.
LEMMA GameSavesKeeps == ASSUME MigInv, NEW g \in Games, NEW n \in Names, GameSaves(g, n) PROVE MigInv'
<1>1. /\ UNCHANGED <<lock, job, starts>> /\ stores[g].there
      /\ left' = [left EXCEPT ![g] = @ \ {n}]
      /\ stores' \in [Games -> Store] /\ \A h \in Games \ {g} : stores'[h] = stores[h]
      /\ stores'[g].there = stores[g].there /\ stores'[g].imports = stores[g].imports
  BY GameSavesFacts
<1>2. \A h \in Games : stores'[h].there = stores[h].there /\ stores'[h].imports = stores[h].imports
  BY <1>1
<1>3. \A p \in Procs : JobOK(p)'
  <2> SUFFICES ASSUME NEW p \in Procs PROVE JobOK(p)'
    OBVIOUS
  <2>1. JobOK(p) /\ job[p].game \in Games
    BY JobFacts DEF MigInv, MigrationTypeOK
  <2> QED BY <1>1, <1>2, <2>1 DEF JobOK, Claimed
<1>4. MigrationTypeOK'
  BY <1>1 DEF MigInv, MigrationTypeOK
<1>5. \A h \in Games : StoreOK(h)'
  BY <1>1 DEF MigInv, StoreOK
<1>6. LegacyMigratedOnce'
  BY <1>2 DEF MigInv, LegacyMigratedOnce, TookLegacy
<1> QED BY <1>3, <1>4, <1>5, <1>6 DEF MigInv

\* Every step is one of these.
LEMMA Steps ==
  ASSUME [MigrationNext]_migrationVars
  PROVE  \/ UNCHANGED migrationVars
         \/ \E p \in Procs : Private(p) \/ PublishStore(p) \/ PublishManifest(p)
         \/ \E p \in Procs, n \in Names : PublishOne(p, n) \/ RollBackOne(p, n)
         \/ \E g \in Games, n \in Names : GameSaves(g, n)
BY DEF MigrationNext, Prepare, Private

\* The invariant is inductive.
LEMMA MigStep == MigInv /\ [MigrationNext]_migrationVars => MigInv'
<1> SUFFICES ASSUME MigInv, [MigrationNext]_migrationVars PROVE MigInv'
  OBVIOUS
<1>1. CASE UNCHANGED migrationVars
  BY <1>1 DEF migrationVars, MigInv, MigrationTypeOK, JobOK, StoreOK, LegacyMigratedOnce,
     TookLegacy, Claimed
<1> QED BY <1>1, Steps, PrivateKeeps, PublishStoreKeeps, PublishManifestKeeps, PublishOneKeeps,
           RollBackOneKeeps, GameSavesKeeps

-----------------------------------------------------------------------------

\* Steps that touch no store leave every imported file accounted for: what a process no
\* longer has in hand is among the names left behind.
LEMMA PrivateTraced ==
  ASSUME MigInv, Traced, NEW p \in Procs, Private(p) PROVE Traced'
<1>1. /\ stores' = stores /\ \A q \in Procs \ {p} : job'[q] = job[q]
      /\ \A g \in Games : left[g] \subseteq left'[g]
  BY PrivateFacts
<1>2. /\ job[p] \in Job /\ job \in [Procs -> Job] /\ job[p].game \in Games
      /\ left \in [Games -> SUBSET Names]
  BY JobFacts DEF MigInv, MigrationTypeOK
<1>3. job[p].at \in {"publish", "rollback"} /\ job[p].done # {} =>
        PublishFails(p) \/ left' = Leaves(p)
  BY DEF Private, Start, StageOne, Decide, Locks, StageFails, StartPublish, RolledBack,
         RollbackFails, End, Die
<1>4. PublishFails(p) => /\ job'[p].at = "rollback" /\ job'[p].game = job[p].game
                         /\ job'[p].done = job[p].done /\ job'[p].copy = job[p].copy
  BY <1>2 DEF PublishFails, Job
<1>5. ASSUME NEW g \in Games, NEW n \in Names, InHand(g, n) PROVE InHand(g, n)' \/ n \in left'[g]
  <2>1. PICK q \in Procs : /\ job[q].game = g /\ job[q].at \in {"publish", "rollback"} /\ n \in job[q].done
                           /\ \E i \in job[q].copy : i.source = stores[g].files[n] /\ n \in i.names
    BY <1>5 DEF InHand
  <2>2. CASE q = p /\ PublishFails(p)
    BY <1>1, <1>4, <2>1, <2>2 DEF InHand
  <2>3. CASE q = p /\ left' = Leaves(p)
    BY <1>2, <2>1, <2>3 DEF Leaves
  <2>4. CASE q # p
    BY <1>1, <2>1, <2>4 DEF InHand
  <2> QED BY <1>3, <2>1, <2>2, <2>3, <2>4
<1>6. \A g \in Games, n \in Names : Recorded(g, n) => Recorded(g, n)'
  BY <1>1 DEF Recorded
<1> QED BY <1>1, <1>5, <1>6 DEF Traced

\* Only the holder of the lock has files in hand.
LEMMA HolderInHand ==
  ASSUME MigInv, NEW p \in Procs, lock = p, NEW g \in Games, NEW n \in Names, InHand(g, n)
  PROVE  /\ job[p].game = g /\ job[p].at \in {"publish", "rollback"} /\ n \in job[p].done
         /\ \E i \in job[p].copy : i.source = stores[g].files[n] /\ n \in i.names
BY DEF InHand, MigInv, JobOK, Active

\* A store published whole is accounted for by its manifest.
LEMMA PublishStoreTraced ==
  ASSUME MigInv, Traced, NEW p \in Procs, PublishStore(p) PROVE Traced'
<1> DEFINE g0 == job[p].game
<1>1. /\ job[p].at = "stage" /\ lock = p /\ \A h \in Games \ {g0} : stores'[h] = stores[h]
      /\ left' = left
  BY PublishStoreFacts
<1>2. /\ stores'[g0].imports = job[p].copy
      /\ \A n \in Names : \/ stores'[g0].files[n] = Nobody
                          \/ \E i \in job[p].copy : stores'[g0].files[n] = i.source /\ n \in i.names
  BY PublishStoreFacts
<1> HIDE DEF g0
<1> SUFFICES ASSUME NEW g \in Games, NEW n \in Names, stores'[g].files[n] \in Sources
             PROVE  Recorded(g, n)' \/ n \in left'[g]
  BY DEF Traced
<1>3. CASE g = g0
  BY <1>2, <1>3, Names4 DEF Recorded
<1>4. CASE g # g0
  <2>1. ~InHand(g, n)
    BY <1>1, HolderInHand
  <2> QED BY <1>1, <1>4, <2>1 DEF Traced, Recorded
<1> QED BY <1>3, <1>4

\* A published file is in its publisher's hand.
LEMMA PublishOneTraced ==
  ASSUME MigInv, Traced, NEW p \in Procs, NEW n \in Names, PublishOne(p, n) PROVE Traced'
<1>0. PICK g0 : g0 = job[p].game
  OBVIOUS
<1>1. /\ job[p].at = "publish" /\ lock = p /\ g0 \in Games /\ Origin(p) \in Sources
      /\ stores' = [stores EXCEPT ![g0].files[n] = Origin(p)]
      /\ \E i \in job[p].copy : Origin(p) = i.source /\ n \in i.names
      /\ job'[p].at = "publish" /\ job'[p].game = g0 /\ job'[p].copy = job[p].copy
      /\ job'[p].done = job[p].done \cup {n} /\ left' = left
  <2>1. /\ job[p].at = "publish" /\ lock = p /\ stores[g0].there /\ g0 \in Games
        /\ n \in job[p].todo /\ stores[g0].files[n] = Nobody
        /\ stores' = [stores EXCEPT ![g0].files[n] = Origin(p)] /\ UNCHANGED <<lock, starts, left>>
        /\ Origin(p) \in Sources /\ \E i \in job[p].copy : Origin(p) = i.source /\ n \in i.names
        /\ job' \in [Procs -> Job] /\ \A q \in Procs \ {p} : job'[q] = job[q]
        /\ job'[p].at = "publish" /\ job'[p].game = g0 /\ job'[p].existed = job[p].existed
        /\ job'[p].copy = job[p].copy /\ job'[p].done = job[p].done \cup {n}
        /\ job'[p].todo = job[p].todo \ {n}
    BY <1>0, PublishOneFacts, ZenonT(120)
  <2> QED BY <2>1
<1>2. /\ \A h \in Games \ {g0} : stores'[h] = stores[h]
      /\ stores'[g0].imports = stores[g0].imports
      /\ \A h \in Games, m \in Names :
           stores'[h].files[m] = IF h = g0 /\ m = n THEN Origin(p) ELSE stores[h].files[m]
  <2>1. stores \in [Games -> Store] /\ Origin(p) \in Sources \cup {GameWrote, Nobody}
    BY <1>1 DEF MigInv, MigrationTypeOK
  <2>a. stores \in [Games -> Store] /\ g0 \in Games /\ stores' = [stores EXCEPT ![g0].files[n] = Origin(p)]
    BY <1>1, <2>1
  <2>2. /\ \A h \in Games \ {g0} : stores'[h] = stores[h]
        /\ stores'[g0].imports = stores[g0].imports
    BY <1>1, <2>1, FileFacts
  <2>3. \A h \in Games, m \in Names :
           stores'[h].files[m] = IF h = g0 /\ m = n THEN Origin(p) ELSE stores[h].files[m]
    <3>1. stores[g0].files \in [Names -> Sources \cup {GameWrote, Nobody}] /\ stores[g0] \in Store
      BY <2>a, StoreFacts
    <3> QED BY <2>a, <3>1 DEF Store
  <2> QED BY <2>2, <2>3
<1>3. InHand(g0, n)'
  <2>1. stores'[g0].files[n] = Origin(p) /\ n \in job'[p].done
    BY <1>1, <1>2
  <2>2. job'[p].at \in {"publish", "rollback"} /\ job'[p].game = g0
    BY <1>1
  <2>3. \E i \in job'[p].copy : i.source = stores'[g0].files[n] /\ n \in i.names
    BY <1>1, <2>1
  <2>4. /\ job'[p].game = g0 /\ job'[p].at \in {"publish", "rollback"} /\ n \in job'[p].done
        /\ \E i \in job'[p].copy : i.source = stores'[g0].files[n] /\ n \in i.names
    BY <2>1, <2>2, <2>3
  <2> QED BY <2>4 DEF InHand
<1>4. ASSUME NEW g \in Games, NEW m \in Names, stores'[g].files[m] \in Sources, g # g0 \/ m # n
      PROVE  Recorded(g, m)' \/ InHand(g, m)' \/ m \in left'[g]
  <2>1. stores'[g].files[m] = stores[g].files[m] /\ stores'[g].imports = stores[g].imports
    BY <1>2, <1>4
  <2>2. CASE Recorded(g, m)
    BY <2>1, <2>2 DEF Recorded
  <2>3. CASE InHand(g, m)
    <3>1. /\ job[p].game = g /\ m \in job[p].done
          /\ \E i \in job[p].copy : i.source = stores[g].files[m] /\ m \in i.names
      BY <1>1, <2>3, HolderInHand
    <3> QED BY <1>0, <1>1, <2>1, <3>1 DEF InHand
  <2> QED BY <1>1, <1>4, <2>1, <2>2, <2>3 DEF Traced
<1>5. ASSUME NEW g \in Games, NEW m \in Names, stores'[g].files[m] \in Sources
      PROVE  Recorded(g, m)' \/ InHand(g, m)' \/ m \in left'[g]
  <2>1. CASE g = g0 /\ m = n
    BY <1>3, <2>1 DEF InHand
  <2> QED BY <1>4, <1>5, <2>1
<1> QED BY <1>5 DEF Traced

\* A file leaves the store before it leaves the publisher's hand.
LEMMA RollBackOneTraced ==
  ASSUME MigInv, Traced, NEW p \in Procs, NEW n \in Names, RollBackOne(p, n) PROVE Traced'
<1> DEFINE g0 == job[p].game
<1>1. /\ job[p].at = "rollback" /\ lock = p /\ g0 \in Games
      /\ stores' = [stores EXCEPT ![g0].files[n] = Nobody]
      /\ job'[p].at = "rollback" /\ job'[p].game = g0 /\ job'[p].copy = job[p].copy
      /\ job'[p].done = job[p].done \ {n} /\ left' = left
  BY RollBackOneFacts
<1> HIDE DEF g0
<1>2. /\ \A h \in Games \ {g0} : stores'[h] = stores[h]
      /\ stores'[g0].imports = stores[g0].imports
      /\ \A h \in Games, m \in Names :
           stores'[h].files[m] = IF h = g0 /\ m = n THEN Nobody ELSE stores[h].files[m]
  <2>1. stores \in [Games -> Store] /\ Nobody \in Sources \cup {GameWrote, Nobody}
    BY <1>1 DEF MigInv, MigrationTypeOK
  <2>a. stores \in [Games -> Store] /\ g0 \in Games /\ stores' = [stores EXCEPT ![g0].files[n] = Nobody]
    BY <1>1, <2>1
  <2>2. /\ \A h \in Games \ {g0} : stores'[h] = stores[h]
        /\ stores'[g0].imports = stores[g0].imports
    BY <1>1, <2>1, FileFacts
  <2>3. \A h \in Games, m \in Names :
           stores'[h].files[m] = IF h = g0 /\ m = n THEN Nobody ELSE stores[h].files[m]
    <3>1. stores[g0].files \in [Names -> Sources \cup {GameWrote, Nobody}] /\ stores[g0] \in Store
      BY <2>a, StoreFacts
    <3> QED BY <2>a, <3>1 DEF Store
  <2> QED BY <2>2, <2>3
<1>3. ASSUME NEW g \in Games, NEW m \in Names, stores'[g].files[m] \in Sources
      PROVE  Recorded(g, m)' \/ InHand(g, m)' \/ m \in left'[g]
  <2>1. /\ stores'[g].files[m] = stores[g].files[m] /\ stores'[g].imports = stores[g].imports
        /\ g # g0 \/ m # n
    BY <1>2, <1>3, Names4
  <2>2. CASE Recorded(g, m)
    BY <2>1, <2>2 DEF Recorded
  <2>3. CASE InHand(g, m)
    <3>1. /\ job[p].game = g /\ m \in job[p].done
          /\ \E i \in job[p].copy : i.source = stores[g].files[m] /\ m \in i.names
      BY <1>1, <2>3, HolderInHand
    <3> QED BY <1>1, <2>1, <3>1 DEF InHand, g0
  <2> QED BY <1>1, <1>3, <2>1, <2>2, <2>3 DEF Traced
<1> QED BY <1>3 DEF Traced

\* The new manifest records what the publisher has in hand.
LEMMA PublishManifestTraced ==
  ASSUME MigInv, Traced, NEW p \in Procs, PublishManifest(p) PROVE Traced'
<1> DEFINE g0 == job[p].game
<1>1. /\ lock = p /\ left' = left /\ \A h \in Games \ {g0} : stores'[h] = stores[h]
  BY PublishManifestFacts
<1>2. stores'[g0].files = stores[g0].files /\ stores'[g0].imports = stores[g0].imports \cup job[p].copy
  BY PublishManifestFacts
<1> HIDE DEF g0
<1>3. ASSUME NEW g \in Games, NEW m \in Names, stores'[g].files[m] \in Sources
      PROVE  Recorded(g, m)' \/ m \in left'[g]
  <2>1. stores'[g].files[m] = stores[g].files[m] /\ stores[g].imports \subseteq stores'[g].imports
    BY <1>1, <1>2
  <2>2. CASE Recorded(g, m)
    BY <2>1, <2>2 DEF Recorded
  <2>3. CASE InHand(g, m)
    <3>1. /\ job[p].game = g
          /\ \E i \in job[p].copy : i.source = stores[g].files[m] /\ m \in i.names
      BY <1>1, <2>3, HolderInHand
    <3> QED BY <1>2, <2>1, <3>1 DEF Recorded, g0
  <2> QED BY <1>1, <1>3, <2>1, <2>2, <2>3 DEF Traced
<1> QED BY <1>3 DEF Traced

\* A game's write makes the file the game's.
LEMMA GameSavesTraced ==
  ASSUME MigInv, Traced, NEW g0 \in Games, NEW n \in Names, GameSaves(g0, n) PROVE Traced'
<1>1. /\ job' = job /\ \A h \in Games \ {g0} : stores'[h] = stores[h]
  BY GameSavesFacts
<1>l. left \in [Games -> SUBSET Names] /\ left' = [left EXCEPT ![g0] = @ \ {n}]
  BY GameSavesFacts DEF MigInv, MigrationTypeOK
<1>2. /\ stores'[g0].imports = stores[g0].imports /\ stores'[g0].files[n] \in {GameWrote, Nobody}
      /\ \A m \in Names \ {n} : stores'[g0].files[m] = stores[g0].files[m]
  BY GameSavesFacts
<1>3. ASSUME NEW g \in Games, NEW m \in Names, stores'[g].files[m] \in Sources
      PROVE  Recorded(g, m)' \/ InHand(g, m)' \/ m \in left'[g]
  <2>1. stores'[g].files[m] = stores[g].files[m] /\ stores'[g].imports = stores[g].imports
    BY <1>1, <1>2, <1>3, Names4
  <2>2. CASE Recorded(g, m)
    BY <2>1, <2>2 DEF Recorded
  <2>3. CASE InHand(g, m)
    BY <1>1, <2>1, <2>3 DEF InHand
  <2>4. CASE m \in left[g]
    BY <1>2, <1>3, <1>l, <2>4, Names4
  <2> QED BY <1>3, <2>1, <2>2, <2>3, <2>4 DEF Traced
<1> QED BY <1>3 DEF Traced

\* Every step leaves every imported file accounted for.
LEMMA TracedStep == ASSUME MigInv, Traced, [MigrationNext]_migrationVars PROVE Traced'
<1>1. CASE UNCHANGED migrationVars
  BY <1>1 DEF migrationVars, Traced, Recorded, InHand
<1> QED BY <1>1, Steps, PrivateTraced, PublishStoreTraced, PublishOneTraced, RollBackOneTraced,
           PublishManifestTraced, GameSavesTraced

\* What a process has of an import under way: all its names, and of those published
\* already none another import of the store has.
HandOK(p) == job[p].at \in Active =>
  /\ job[p].at # "rollback" => \A i \in job[p].copy : i.names \subseteq job[p].todo \cup job[p].done
  /\ job[p].at # "stage" => \A n \in job[p].done \ GameNames :
       /\ \A i \in stores[job[p].game].imports : n \notin i.names
       /\ job[p].at = "publish" =>
            \E i \in job[p].copy : stores[job[p].game].files[n] = i.source

AllWhole == ImportedWhole /\ \A p \in Procs : HandOK(p)

\* No import is recorded or under way at the start.
LEMMA InitWhole == MigrationInit => AllWhole
<1> SUFFICES ASSUME MigrationInit PROVE AllWhole
  OBVIOUS
<1>1. \A p \in Procs : job[p].at = "idle"
  BY DEF MigrationInit
<1>2. \A g \in Games : stores[g].imports = {}
  BY NoStoreFacts DEF MigrationInit
<1> QED BY <1>1, <1>2 DEF AllWhole, ImportedWhole, HandOK, Active

\* The imports of the processes without the lock are not under way.
LEMMA OthersIdle ==
  ASSUME MigInv, NEW p \in Procs, lock \in {p, NoProc}, NEW q \in Procs \ {p}, job'[q] = job[q]
  PROVE  HandOK(q)'
<1>1. job[q].at \notin Active
  BY MigrationAssumption DEF MigInv, JobOK
<1> QED BY <1>1 DEF HandOK

\* A process gets to an import under way with all of it to do, and drops it at once.
LEMMA PrivateWhole ==
  ASSUME MigInv, AllWhole, NEW p \in Procs, Private(p) PROVE AllWhole'
<1>1. /\ stores' = stores /\ \A q \in Procs \ {p} : job'[q] = job[q]
      /\ lock \in {p, NoProc} \/ lock' = lock
  BY PrivateFacts
<1>2. job[p] \in Job /\ job \in [Procs -> Job] /\ HandOK(p) /\ JobOK(p)
  BY DEF MigInv, MigrationTypeOK, AllWhole
<1>3. ImportedWhole'
  BY <1>1 DEF AllWhole, ImportedWhole
<1>4. \A q \in Procs \ {p} : HandOK(q)'
  BY <1>1 DEF AllWhole, HandOK
<1>5. HandOK(p)'
  <2>1. CASE \E g \in Games, asked \in Sources \cup {NoSource} : Start(p, g, asked)
    <3>1. job'[p].at = "lock"
      BY <1>2, <2>1 DEF Start, Job
    <3> QED BY <3>1 DEF HandOK, Active
  <2>2. CASE \E n \in Names : StageOne(p, n)
    <3>1. /\ job[p].at = "stage" /\ job'[p].at = "stage" /\ job'[p].copy = job[p].copy
          /\ job'[p].todo \cup job'[p].done = job[p].todo \cup job[p].done
      BY <1>2, <2>2 DEF StageOne, Job
    <3> QED BY <1>2, <3>1 DEF HandOK, Active
  <2>3. CASE Decide(p)
    <3>1. \/ job'[p].at = "end"
          \/ /\ job'[p].at = "stage" /\ \A i \in job'[p].copy : i.names \subseteq job'[p].todo
      BY <1>2, <2>3, DecideFacts DEF MigInv
    <3> QED BY <3>1 DEF HandOK, Active
  <2>4. CASE StartPublish(p)
    <3>1. /\ job[p].at = "stage" /\ job'[p].at = "publish" /\ job'[p].copy = job[p].copy
          /\ job[p].todo = {} /\ job'[p].todo = job[p].done /\ job'[p].done = {}
      BY <1>2, <2>4 DEF StartPublish, Job
    <3> QED BY <1>2, <3>1 DEF HandOK, Active
  <2>5. CASE PublishFails(p)
    <3>1. /\ job[p].at = "publish" /\ job'[p].at = "rollback" /\ job'[p].game = job[p].game
          /\ job'[p].done = job[p].done
      BY <1>2, <2>5 DEF PublishFails, Job
    <3> QED BY <1>1, <1>2, <3>1 DEF HandOK, Active
  <2>6. CASE StageFails(p) \/ RolledBack(p) \/ RollbackFails(p) \/ End(p) \/ Die(p)
    <3>1. job'[p].at \in {"idle", "end"}
      <4>1. job' = [job EXCEPT ![p].at = "end"] \/ job' = [job EXCEPT ![p].at = "idle"]
        BY <2>6 DEF StageFails, RolledBack, RollbackFails, End, Die
      <4> QED BY <1>2, <4>1 DEF Job
    <3> QED BY <3>1 DEF HandOK, Active
  <2> QED BY <2>1, <2>2, <2>3, <2>4, <2>5, <2>6 DEF Private
<1> QED BY <1>3, <1>4, <1>5 DEF AllWhole

\* A new store has all the files of its import.
LEMMA PublishStoreWhole ==
  ASSUME MigInv, AllWhole, NEW p \in Procs, PublishStore(p) PROVE AllWhole'
<1>0. PICK g0 : g0 = job[p].game
  OBVIOUS
<1>1. /\ job[p].at = "stage" /\ lock = p /\ g0 \in Games
      /\ \A h \in Games \ {g0} : stores'[h] = stores[h]
      /\ \A q \in Procs \ {p} : job'[q] = job[q]
      /\ stores'[g0].imports = job[p].copy /\ job'[p].at = "end"
  BY <1>0, PublishStoreFacts
<1>2. ASSUME NEW i \in job[p].copy, NEW n \in i.names, n \in Names
      PROVE  stores'[g0].files[n] = i.source
  <2>1. n \in job[p].done
    BY <1>1, <1>2 DEF PublishStore, AllWhole, HandOK, Active
  <2>2. Origin(p) = i.source
    BY <1>1, OriginFact DEF MigInv, JobOK, Active
  <2>3. stores'[g0] = [there |-> TRUE, imports |-> job[p].copy,
                       files |-> Filled(NoStore.files, job[p].done, Origin(p))]
    BY <1>0, <1>1 DEF PublishStore, MigInv, MigrationTypeOK
  <2> QED BY <1>2, <2>1, <2>2, <2>3 DEF Filled
<1>3. ImportedWhole'
  <2> SUFFICES ASSUME NEW g \in Games, NEW i \in stores'[g].imports, NEW n \in i.names \ GameNames
               PROVE  stores'[g].files[n] = i.source
    BY DEF ImportedWhole
  <2>1. CASE g = g0
    <3>1. i \in Import
      BY <1>1, <2>1, JobFacts DEF MigInv, MigrationTypeOK
    <3> QED BY <1>1, <1>2, <2>1, <3>1 DEF Import
  <2>2. CASE g # g0
    BY <1>1, <2>2 DEF AllWhole, ImportedWhole
  <2> QED BY <2>1, <2>2
<1>4. \A q \in Procs : HandOK(q)'
  <2>1. HandOK(p)'
    BY <1>1 DEF HandOK, Active
  <2> QED BY <1>1, <2>1, OthersIdle
<1> QED BY <1>3, <1>4 DEF AllWhole

\* What one published file leaves of the other files and of the imports.
LEMMA OneFile ==
  ASSUME MigInv, NEW g0 \in Games, NEW n \in Names, NEW content \in Sources \cup {GameWrote, Nobody},
         stores' = [stores EXCEPT ![g0].files[n] = content]
  PROVE  /\ \A h \in Games : stores'[h].imports = stores[h].imports
         /\ \A h \in Games, m \in Names :
              stores'[h].files[m] = IF h = g0 /\ m = n THEN content ELSE stores[h].files[m]
<1>1. stores \in [Games -> Store] /\ stores[g0] \in Store
      /\ stores[g0].files \in [Names -> Sources \cup {GameWrote, Nobody}]
  BY StoreFacts DEF MigInv, MigrationTypeOK
<1>2. \A h \in Games : stores'[h].imports = stores[h].imports
  BY <1>1 DEF Store
<1>3. \A h \in Games, m \in Names :
        stores'[h].files[m] = IF h = g0 /\ m = n THEN content ELSE stores[h].files[m]
  BY <1>1 DEF Store
<1> QED BY <1>2, <1>3

\* A file is published under a name no recorded import has, unless the game removed it.
LEMMA PublishOneWhole ==
  ASSUME MigInv, AllWhole, NEW p \in Procs, NEW n \in Names, PublishOne(p, n) PROVE AllWhole'
<1>0. PICK g0 : g0 = job[p].game
  OBVIOUS
<1>1. /\ job[p].at = "publish" /\ lock = p /\ g0 \in Games /\ stores[g0].files[n] = Nobody
      /\ stores' = [stores EXCEPT ![g0].files[n] = Origin(p)] /\ Origin(p) \in Sources
      /\ \E i \in job[p].copy : Origin(p) = i.source
      /\ \A q \in Procs \ {p} : job'[q] = job[q]
      /\ job'[p].at = "publish" /\ job'[p].game = g0 /\ job'[p].copy = job[p].copy
      /\ job'[p].done = job[p].done \cup {n} /\ job'[p].todo = job[p].todo \ {n}
  <2>1. /\ job[p].at = "publish" /\ lock = p /\ stores[g0].there /\ g0 \in Games
        /\ n \in job[p].todo /\ stores[g0].files[n] = Nobody
        /\ stores' = [stores EXCEPT ![g0].files[n] = Origin(p)] /\ UNCHANGED <<lock, starts, left>>
        /\ Origin(p) \in Sources /\ \E i \in job[p].copy : Origin(p) = i.source /\ n \in i.names
        /\ job' \in [Procs -> Job] /\ \A q \in Procs \ {p} : job'[q] = job[q]
        /\ job'[p].at = "publish" /\ job'[p].game = g0 /\ job'[p].existed = job[p].existed
        /\ job'[p].copy = job[p].copy /\ job'[p].done = job[p].done \cup {n}
        /\ job'[p].todo = job[p].todo \ {n}
    BY <1>0, PublishOneFacts, ZenonT(120)
  <2> QED BY <2>1
<1>2. /\ \A h \in Games : stores'[h].imports = stores[h].imports
      /\ \A h \in Games, m \in Names :
           stores'[h].files[m] = IF h = g0 /\ m = n THEN Origin(p) ELSE stores[h].files[m]
  <2> DEFINE content == Origin(p)
  <2>1. content \in Sources \cup {GameWrote, Nobody} /\ g0 \in Games
    BY <1>1
  <2>2. stores' = [stores EXCEPT ![g0].files[n] = content]
    BY <1>1
  <2> HIDE DEF content
  <2>3. /\ \A h \in Games : stores'[h].imports = stores[h].imports
        /\ \A h \in Games, m \in Names :
             stores'[h].files[m] = IF h = g0 /\ m = n THEN content ELSE stores[h].files[m]
    BY <2>1, <2>2, OneFile, ZenonT(60)
  <2> QED BY <2>3 DEF content
<1>3. n \notin GameNames => \A i \in stores[g0].imports : n \notin i.names
  <2> SUFFICES ASSUME n \notin GameNames, NEW i \in stores[g0].imports, n \in i.names PROVE FALSE
    OBVIOUS
  <2>1. stores[g0].files[n] = i.source
    BY <1>1 DEF AllWhole, ImportedWhole
  <2>2. i.source \in Sources
    <3>1. i \in Import
      BY <1>1, StoreFacts DEF MigInv, MigrationTypeOK
    <3> QED BY <3>1 DEF Import
  <2> QED BY <1>1, <2>1, <2>2, Names4
<1>4. ImportedWhole'
  <2> SUFFICES ASSUME NEW g \in Games, NEW i \in stores[g].imports, NEW m \in i.names \ GameNames
               PROVE  stores'[g].files[m] = i.source
    BY <1>2 DEF ImportedWhole
  <2>1. m \in Names
    <3>1. i \in Import
      BY StoreFacts DEF MigInv, MigrationTypeOK
    <3> QED BY <3>1 DEF Import
  <2>2. stores[g].files[m] = i.source
    BY DEF AllWhole, ImportedWhole
  <2> QED BY <1>2, <1>3, <2>1, <2>2
<1>5. HandOK(p) /\ job[p].done \subseteq Names
  BY JobFacts DEF AllWhole, MigInv, MigrationTypeOK
<1>6. HandOK(p)'
  <2>1. \A i \in job'[p].copy : i.names \subseteq job'[p].todo \cup job'[p].done
    BY <1>1, <1>5 DEF HandOK, Active
  <2>2. ASSUME NEW m \in job'[p].done \ GameNames
        PROVE  /\ \A i \in stores'[g0].imports : m \notin i.names
               /\ \E i \in job'[p].copy : stores'[g0].files[m] = i.source
    <3>1. CASE m = n
      BY <1>1, <1>2, <1>3, <2>2, <3>1
    <3>2. CASE m # n
      <4>1. m \in job[p].done \ GameNames /\ m \in Names
        BY <1>1, <1>5, <2>2, <3>2
      <4>2. /\ \A i \in stores[g0].imports : m \notin i.names
            /\ \E i \in job[p].copy : stores[g0].files[m] = i.source
        BY <1>0, <1>1, <1>5, <4>1 DEF HandOK, Active
      <4> QED BY <1>1, <1>2, <3>2, <4>1, <4>2
    <3> QED BY <3>1, <3>2
  <2> QED BY <1>1, <2>1, <2>2 DEF HandOK
<1>7. \A q \in Procs : HandOK(q)'
  BY <1>1, <1>6, OthersIdle
<1> QED BY <1>4, <1>7 DEF AllWhole

\* A rollback removes no file of a recorded import.
LEMMA RollBackOneWhole ==
  ASSUME MigInv, AllWhole, NEW p \in Procs, NEW n \in Names, RollBackOne(p, n) PROVE AllWhole'
<1>0. PICK g0 : g0 = job[p].game
  OBVIOUS
<1>1. /\ job[p].at = "rollback" /\ lock = p /\ g0 \in Games /\ n \in job[p].done
      /\ stores' = [stores EXCEPT ![g0].files[n] = Nobody]
      /\ \A q \in Procs \ {p} : job'[q] = job[q]
      /\ job'[p].at = "rollback" /\ job'[p].game = g0
      /\ job'[p].done = job[p].done \ {n}
  BY <1>0, RollBackOneFacts
<1>2. /\ \A h \in Games : stores'[h].imports = stores[h].imports
      /\ \A h \in Games, m \in Names :
           stores'[h].files[m] = IF h = g0 /\ m = n THEN Nobody ELSE stores[h].files[m]
  <2> DEFINE content == Nobody
  <2>1. content \in Sources \cup {GameWrote, Nobody} /\ g0 \in Games
    BY <1>1
  <2>2. stores' = [stores EXCEPT ![g0].files[n] = content]
    BY <1>1
  <2> HIDE DEF content
  <2>3. /\ \A h \in Games : stores'[h].imports = stores[h].imports
        /\ \A h \in Games, m \in Names :
             stores'[h].files[m] = IF h = g0 /\ m = n THEN content ELSE stores[h].files[m]
    BY <2>1, <2>2, OneFile, ZenonT(60)
  <2> QED BY <2>3 DEF content
<1>3. HandOK(p)
  BY DEF AllWhole
<1>4. n \notin GameNames => \A i \in stores[g0].imports : n \notin i.names
  BY <1>0, <1>1, <1>3 DEF HandOK, Active
<1>5. ImportedWhole'
  <2> SUFFICES ASSUME NEW g \in Games, NEW i \in stores[g].imports, NEW m \in i.names \ GameNames
               PROVE  stores'[g].files[m] = i.source
    BY <1>2 DEF ImportedWhole
  <2>1. m \in Names
    <3>1. i \in Import
      BY StoreFacts DEF MigInv, MigrationTypeOK
    <3> QED BY <3>1 DEF Import
  <2>2. stores[g].files[m] = i.source
    BY DEF AllWhole, ImportedWhole
  <2> QED BY <1>2, <1>4, <2>1, <2>2
<1>6. HandOK(p)'
  BY <1>0, <1>1, <1>2, <1>3 DEF HandOK, Active
<1>7. \A q \in Procs : HandOK(q)'
  BY <1>1, <1>6, OthersIdle
<1> QED BY <1>5, <1>7 DEF AllWhole

\* An import is recorded once all its files are published.
LEMMA PublishManifestWhole ==
  ASSUME MigInv, AllWhole, NEW p \in Procs, PublishManifest(p) PROVE AllWhole'
<1>0. PICK g0 : g0 = job[p].game
  OBVIOUS
<1>1. /\ job[p].at = "publish" /\ lock = p /\ g0 \in Games
      /\ \A h \in Games \ {g0} : stores'[h] = stores[h]
      /\ \A q \in Procs \ {p} : job'[q] = job[q]
      /\ stores'[g0].files = stores[g0].files
      /\ stores'[g0].imports = stores[g0].imports \cup job[p].copy /\ job'[p].at = "end"
  BY <1>0, PublishManifestFacts
<1>2. ASSUME NEW i \in job[p].copy, NEW n \in i.names \ GameNames
      PROVE  stores[g0].files[n] = i.source
  <2>1. HandOK(p) /\ job[p].todo = {}
    BY DEF AllWhole, PublishManifest
  <2>2. n \in job[p].done
    BY <1>1, <2>1 DEF HandOK, Active
  <2>3. \E j \in job[p].copy : stores[g0].files[n] = j.source
    BY <1>0, <1>1, <2>1, <2>2 DEF HandOK, Active
  <2>4. \A j, k \in job[p].copy : j = k
    BY <1>1 DEF MigInv, JobOK, Active
  <2> QED BY <2>3, <2>4
<1>3. ImportedWhole'
  <2> SUFFICES ASSUME NEW g \in Games, NEW i \in stores'[g].imports, NEW n \in i.names \ GameNames
               PROVE  stores'[g].files[n] = i.source
    BY DEF ImportedWhole
  <2>1. CASE g = g0
    BY <1>1, <1>2, <2>1 DEF AllWhole, ImportedWhole
  <2>2. CASE g # g0
    BY <1>1, <2>2 DEF AllWhole, ImportedWhole
  <2> QED BY <2>1, <2>2
<1>4. \A q \in Procs : HandOK(q)'
  <2>1. HandOK(p)'
    BY <1>1 DEF HandOK, Active
  <2> QED BY <1>1, <2>1, OthersIdle
<1> QED BY <1>3, <1>4 DEF AllWhole

\* A game writes under its own names only.
LEMMA GameSavesWhole ==
  ASSUME MigInv, AllWhole, NEW g0 \in Games, NEW n \in Names, GameSaves(g0, n) PROVE AllWhole'
<1>1. /\ job' = job /\ \A h \in Games \ {g0} : stores'[h] = stores[h]
  BY GameSavesFacts
<1>2. /\ stores'[g0].imports = stores[g0].imports /\ n \in GameNames
      /\ \A m \in Names \ {n} : stores'[g0].files[m] = stores[g0].files[m]
  BY GameSavesFacts DEF GameSaves
<1>3. \A h \in Games : stores'[h].imports = stores[h].imports
                       /\ \A m \in Names \ GameNames : stores'[h].files[m] = stores[h].files[m]
  BY <1>1, <1>2
<1>4. ImportedWhole'
  <2> SUFFICES ASSUME NEW g \in Games, NEW i \in stores[g].imports, NEW m \in i.names \ GameNames
               PROVE  stores'[g].files[m] = i.source
    BY <1>3 DEF ImportedWhole
  <2>1. m \in Names
    <3>1. i \in Import
      BY StoreFacts DEF MigInv, MigrationTypeOK
    <3> QED BY <3>1 DEF Import
  <2> QED BY <1>3, <2>1 DEF AllWhole, ImportedWhole
<1>5. ASSUME NEW p \in Procs PROVE HandOK(p)'
  <2>1. HandOK(p) /\ job[p].game \in Games /\ job[p].done \subseteq Names
    BY JobFacts DEF AllWhole, MigInv, MigrationTypeOK
  <2> QED BY <1>1, <1>3, <2>1 DEF HandOK
<1> QED BY <1>4, <1>5 DEF AllWhole

\* Every step keeps the recorded imports whole.
LEMMA WholeStep == ASSUME MigInv, AllWhole, [MigrationNext]_migrationVars PROVE AllWhole'
<1>1. CASE UNCHANGED migrationVars
  BY <1>1 DEF migrationVars, AllWhole, ImportedWhole, HandOK
<1> QED BY <1>1, Steps, PrivateWhole, PublishStoreWhole, PublishOneWhole, RollBackOneWhole,
           PublishManifestWhole, GameSavesWhole

\* A step that takes a file of the game's away is the game's or rolls that name back.
LEMMA FileStep ==
  ASSUME MigInv, [MigrationNext]_migrationVars, NEW g \in Games, NEW n \in Names,
         stores[g].files[n] = GameWrote, stores'[g].files[n] # GameWrote
  PROVE  stores'[g].files[n] = Nobody /\ (job' # job => RollsBack(g, n))
<1>1. CASE UNCHANGED migrationVars
  BY <1>1 DEF migrationVars
<1>2. ASSUME NEW p \in Procs, Private(p) PROVE FALSE
  BY <1>2, PrivateFacts
<1>3. ASSUME NEW p \in Procs, PublishStore(p) PROVE FALSE
  <2>1. ~stores[job[p].game].there /\ job[p].game \in Games
    BY <1>3, PublishStoreFacts
  <2>2. \A h \in Games \ {job[p].game} : stores'[h] = stores[h]
    BY <1>3, PublishStoreFacts
  <2> QED BY <2>1, <2>2, Names4 DEF MigInv, StoreOK
<1>4. ASSUME NEW p \in Procs, PublishManifest(p) PROVE FALSE
  <2>1. \A h \in Games \ {job[p].game} : stores'[h] = stores[h]
    BY <1>4, PublishManifestFacts
  <2>2. stores'[job[p].game].files = stores[job[p].game].files
    BY <1>4, PublishManifestFacts
  <2> QED BY <2>1, <2>2
<1>5. ASSUME NEW p \in Procs, NEW m \in Names, PublishOne(p, m) PROVE FALSE
  <2>a. PICK g0 : g0 = job[p].game
    OBVIOUS
  <2>0. stores[g0].files[m] = Nobody
    BY <1>5, <2>a DEF PublishOne, Files
  <2>1. g0 \in Games /\ Origin(p) \in Sources /\ stores' = [stores EXCEPT ![g0].files[m] = Origin(p)]
    <3>1. g0 \in Games /\ Origin(p) \in Sources
      BY <1>5, <2>a, PublishOneFacts
    <3> QED BY <1>5, <2>a, <3>1 DEF PublishOne
  <2>2. \A h \in Games, k \in Names :
           stores'[h].files[k] = IF h = g0 /\ k = m THEN Origin(p) ELSE stores[h].files[k]
    <3>1. stores \in [Games -> Store] /\ g0 \in Games /\ stores' = [stores EXCEPT ![g0].files[m] = Origin(p)]
      BY <2>1 DEF MigInv, MigrationTypeOK
    <3>2. stores[g0].files \in [Names -> Sources \cup {GameWrote, Nobody}] /\ stores[g0] \in Store
      BY <3>1, StoreFacts
    <3> QED BY <3>1, <3>2 DEF Store
  <2> QED BY <2>0, <2>1, <2>2, Names4
<1>6. ASSUME NEW p \in Procs, NEW m \in Names, RollBackOne(p, m)
      PROVE  stores'[g].files[n] = Nobody /\ RollsBack(g, n)
  <2> DEFINE g0 == job[p].game
  <2>1. /\ g0 \in Games /\ job[p].at = "rollback" /\ m \in job[p].done
        /\ stores' = [stores EXCEPT ![g0].files[m] = Nobody]
    BY <1>6, RollBackOneFacts
  <2>2. job[p].game = g0
    OBVIOUS
  <2> HIDE DEF g0
  <2>3. \A h \in Games, k \in Names :
           stores'[h].files[k] = IF h = g0 /\ k = m THEN Nobody ELSE stores[h].files[k]
    <3>1. stores \in [Games -> Store] /\ g0 \in Games /\ stores' = [stores EXCEPT ![g0].files[m] = Nobody]
      BY <2>1 DEF MigInv, MigrationTypeOK
    <3>2. stores[g0].files \in [Names -> Sources \cup {GameWrote, Nobody}] /\ stores[g0] \in Store
      BY <3>1, StoreFacts
    <3> QED BY <3>1, <3>2 DEF Store
  <2>4. g = g0 /\ n = m
    BY <2>3
  <2> QED BY <2>1, <2>2, <2>3, <2>4 DEF RollsBack
<1>7. ASSUME NEW h \in Games, NEW m \in Names, GameSaves(h, m)
      PROVE  stores'[g].files[n] = Nobody /\ job' = job
  <2>1. /\ job' = job /\ \A k \in Games \ {h} : stores'[k] = stores[k]
    BY <1>7, GameSavesFacts
  <2>2. /\ stores'[h].files[m] \in {GameWrote, Nobody}
        /\ \A k \in Names \ {m} : stores'[h].files[k] = stores[h].files[k]
    BY <1>7, GameSavesFacts
  <2> QED BY <2>1, <2>2
<1> QED BY <1>1, <1>2, <1>3, <1>4, <1>5, <1>6, <1>7, Steps

-----------------------------------------------------------------------------

\* The migration's invariant: what each process holds under the lock, and at most one store
\* that records the old folder as taken (prepare_store).
THEOREM MigInvariant == MigrationSpec => []MigInv
<1> QED BY InitMig, MigStep, PTL DEF MigrationSpec

\* The saves beside the archive are migrated unasked by one of its versions at most, with any
\* number of processes preparing at once and dying anywhere (legacy_import_already_claimed
\* under the migration lock).
THEOREM LegacyMovesOnce == MigrationSpec => []LegacyMigratedOnce
<1>1. MigInv => LegacyMigratedOnce
  BY DEF MigInv
<1> QED BY <1>1, MigInvariant, PTL

\* An import a manifest records is there whole, wherever the processes that made it, and those
\* that fail to make another, stop (prepare_store publishes the manifest last).
THEOREM ImportsAreWhole == MigrationSpec => []ImportedWhole
<1>1. MigInv /\ AllWhole /\ [MigrationNext]_migrationVars => (MigInv /\ AllWhole)'
  BY MigStep, WholeStep
<1>2. AllWhole => ImportedWhole
  BY DEF AllWhole
<1> QED BY <1>1, <1>2, InitMig, InitWhole, PTL DEF MigrationSpec

\* Whoever fails or dies wherever, no file is left in a store that neither a manifest accounts
\* for nor a failed removal or a death inside the publication has left (the rollback in
\* prepare_store).
THEOREM PublishedAreRecorded == MigrationSpec => []PublishedIsRecorded
<1>1. MigInv /\ Traced /\ [MigrationNext]_migrationVars => (MigInv /\ Traced)'
  BY MigStep, TracedStep
<1>2. Traced => PublishedIsRecorded
  <2> SUFFICES ASSUME Traced, NEW g \in Games, ~Publishing(g), NEW n \in Names \ left[g],
                      stores[g].files[n] \in Sources
               PROVE  Recorded(g, n)
    BY DEF PublishedIsRecorded
  <2>1. ~InHand(g, n)
    BY DEF InHand, Publishing
  <2> QED BY <2>1 DEF Traced
<1> QED BY <1>1, <1>2, InitMig, PTL DEF MigrationSpec

\* However late a running game writes a file, no import replaces it (the second look in
\* prepare_store).
THEOREM GamesKeepTheirFiles == MigrationSpec => GameFilesKept
<1>1. MigInv /\ [MigrationNext]_migrationVars =>
        [\A g \in Games, n \in Names :
           stores[g].files[n] = GameWrote /\ stores'[g].files[n] # GameWrote
             => stores'[g].files[n] = Nobody /\ (job' # job => RollsBack(g, n))]_migrationVars
  BY FileStep
<1> QED BY <1>1, MigInvariant, PTL DEF MigrationSpec, GameFilesKept
================================================================================
