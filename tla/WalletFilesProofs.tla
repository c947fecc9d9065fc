-------------------------- MODULE WalletFilesProofs -------------------------
(***************************************************************************)
(* Proofs about the directories of an installation for any number of       *)
(* requests, failing calls and restarts: what is installed is one whole    *)
(* wallet, a wallet with an unfinished swap stays, and, when no setup      *)
(* overlaps an import, what runs is what is installed, no wallet in use is *)
(* lost and no backup is left behind.                                      *)
(***************************************************************************)
EXTENDS WalletFiles, TLAPS

DiskTyped == \E ds \in SUBSET Places : disk \in [ds -> Directories]

IsWhole(d) == Exists(d) /\ \E w \in Wallets : disk[d] = Whole(w)
Holds(d, w) == Exists(d) /\ disk[d] = Whole(w)

\* What is where while request r moves directories.
InPlace(r) ==
    /\ drop[r] \subseteq {Stage(r), Replaced(r)}
    /\ Exists(Stage(r)) => \A f \in DOMAIN disk[Stage(r)] : disk[Stage(r)][f] = r
    /\ pc[r] \in {"close", "moveOld"} => Exists(Data)
    /\ pc[r] \in {"close", "moveOld", "moveNew"} => Holds(Stage(r), r)
    /\ pc[r] \in {"moveNew", "verify", "rollback", "restore"} => IsWhole(Replaced(r))
    /\ pc[r] \in {"verify", "rollback"} => Holds(Data, r)
    /\ pc[r] \in {"moveOld", "moveNew", "restore", "reopen"} => running = Closed

Moved == \A r \in Requests : InPlace(r)

\* Only what is installed is open, and an import that has the locks found no
\* unfinished swap.
OpenIsInstalled ==
    running # Closed => Exists(Data) /\ running = Restrict(disk[Data], Components)

NoTradeWhileLocked == section # Nobody => trades = {}

Inv ==
    /\ TypeOK
    /\ OneWallet
    /\ Moved
    /\ OpenIsInstalled
    /\ SwapsKeepTheirWallet
    /\ NoTradeWhileLocked

-----------------------------------------------------------------------------
(* Directories *)

\* The disk is a function from names to directories.
LEMMA DiskForm ==
    ASSUME DiskTyped
    PROVE  /\ disk = [d \in DOMAIN disk |-> disk[d]]
           /\ DOMAIN disk \subseteq Places
           /\ \A d \in DOMAIN disk : disk[d] \in Directories
  BY DEF DiskTyped

\* The installed, staged and replaced directories have different names.
LEMMA PlaceNames ==
    /\ Data \in Places
    /\ \A r \in Requests : /\ Stage(r) \in Places /\ Replaced(r) \in Places
                           /\ Stage(r) # Data /\ Replaced(r) # Data
    /\ \A r, q \in Requests : /\ Stage(r) # Replaced(q)
                              /\ Stage(r) = Stage(q) => r = q
                              /\ Replaced(r) = Replaced(q) => r = q
  BY DEF Places, Data, Stage, Replaced

\* A directory is a set of files, and whole, empty or in between.
LEMMA DirectoryForm ==
    \A dir : dir \in Directories <=> \E fs \in SUBSET Files : dir \in [fs -> Wallets]
  BY DEF Directories

\* A part of a directory is a directory.
LEMMA PartTyped ==
    ASSUME NEW dir \in Directories, NEW left \in SUBSET DOMAIN dir
    PROVE  Restrict(dir, left) \in Directories
  <1>1. PICK fs \in SUBSET Files : dir \in [fs -> Wallets]
    BY DirectoryForm
  <1>2. left \in SUBSET Files /\ Restrict(dir, left) \in [left -> Wallets]
    BY <1>1 DEF Restrict
  <1> QED  BY <1>2, DirectoryForm

\* A rename moves one directory and leaves the others.
LEMMA RenameEffect ==
    ASSUME DiskTyped, NEW from \in DOMAIN disk, NEW to \in Places, from # to,
           disk' = Renamed(from, to)
    PROVE  /\ DiskTyped'
           /\ DOMAIN disk' = (DOMAIN disk \ {from}) \cup {to}
           /\ disk'[to] = disk[from]
           /\ \A d \in DOMAIN disk \ {from, to} : disk'[d] = disk[d]
  <1> DEFINE ds == (DOMAIN disk \ {from}) \cup {to}
  <1>1. disk' = [d \in ds |-> IF d = to THEN disk[from] ELSE disk[d]]
    BY DEF Renamed, Without, Restrict, With
  <1>2. ds \in SUBSET Places /\ disk' \in [ds -> Directories]
    BY <1>1, DiskForm
  <1> QED  BY <1>1, <1>2 DEF DiskTyped

\* A removal takes files from one directory and leaves the others.
LEMMA RemoveEffect ==
    ASSUME DiskTyped, NEW d \in Places, RemoveAll(d)
    PROVE  /\ DiskTyped'
           /\ DOMAIN disk' \subseteq DOMAIN disk
           /\ \A e \in DOMAIN disk \ {d} : e \in DOMAIN disk' /\ disk'[e] = disk[e]
           /\ d \in DOMAIN disk' =>
                 \A f \in DOMAIN disk'[d] : f \in DOMAIN disk[d] /\ disk'[d][f] = disk[d][f]
  <1>1. CASE disk' = Without(d)
    <2>1. disk' = [e \in DOMAIN disk \ {d} |-> disk[e]]
      BY <1>1 DEF Without, Restrict
    <2> QED  BY <2>1, DiskForm DEF DiskTyped
  <1>2. CASE \E left \in SUBSET DOMAIN disk[d] :
                disk' = [disk EXCEPT ![d] = Restrict(@, left)]
    <2>1. PICK left \in SUBSET DOMAIN disk[d] :
                disk' = [disk EXCEPT ![d] = Restrict(disk[d], left)]
      BY <1>2
    <2>2. CASE d \in DOMAIN disk
      <3>1. Restrict(disk[d], left) \in Directories
        BY <2>2, DiskForm, PartTyped
      <3>2. /\ disk' \in [DOMAIN disk -> Directories]
            /\ disk'[d] = Restrict(disk[d], left)
            /\ \A e \in DOMAIN disk \ {d} : disk'[e] = disk[e]
        BY <2>1, <2>2, <3>1, DiskForm
      <3>3. DiskTyped' /\ DOMAIN disk' = DOMAIN disk
        BY <3>2, DiskForm DEF DiskTyped
      <3> QED  BY <3>2, <3>3 DEF Restrict
    <2>3. CASE d \notin DOMAIN disk
      <3>1. disk' = disk
        BY <2>1, <2>3, DiskForm
      <3> QED  BY <2>3, <3>1 DEF DiskTyped
    <2> QED  BY <2>2, <2>3
  <1> QED  BY <1>1, <1>2 DEF RemoveAll

\* A step leaves the directory d as it is.
Same(d) == (Exists(d)' <=> Exists(d)) /\ (Exists(d) => disk'[d] = disk[d])

\* Renaming or removing a directory leaves the others.
LEMMA RenameSame ==
    ASSUME DiskTyped, NEW from \in DOMAIN disk, NEW to \in Places, from # to,
           disk' = Renamed(from, to)
    PROVE  /\ DiskTyped' /\ Exists(to)' /\ ~Exists(from)' /\ disk'[to] = disk[from]
           /\ \A d : d \notin {from, to} => Same(d)
  <1>1. /\ DiskTyped'
        /\ DOMAIN disk' = (DOMAIN disk \ {from}) \cup {to}
        /\ disk'[to] = disk[from]
        /\ \A d \in DOMAIN disk \ {from, to} : disk'[d] = disk[d]
    BY RenameEffect
  <1>2. Exists(to)' /\ ~Exists(from)'
    BY <1>1 DEF Exists
  <1>3. ASSUME NEW d, d \notin {from, to}
        PROVE  Same(d)
    <2>1. d \in DOMAIN disk' <=> d \in DOMAIN disk
      BY <1>1, <1>3
    <2>2. d \in DOMAIN disk => disk'[d] = disk[d]
      BY <1>1, <1>3
    <2> QED  BY <2>1, <2>2 DEF Same, Exists
  <1> QED  BY <1>1, <1>2, <1>3

\* A removal adds nothing to its directory and leaves the others.
LEMMA RemoveSame ==
    ASSUME DiskTyped, NEW d \in Places, RemoveAll(d)
    PROVE  /\ DiskTyped'
           /\ Exists(d)' => Exists(d)
           /\ Exists(d)' => \A f \in DOMAIN disk'[d] :
                                f \in DOMAIN disk[d] /\ disk'[d][f] = disk[d][f]
           /\ \A e : e # d => Same(e)
  <1>1. /\ DiskTyped'
        /\ DOMAIN disk' \subseteq DOMAIN disk
        /\ \A e \in DOMAIN disk \ {d} : e \in DOMAIN disk' /\ disk'[e] = disk[e]
        /\ d \in DOMAIN disk' =>
              \A f \in DOMAIN disk'[d] : f \in DOMAIN disk[d] /\ disk'[d][f] = disk[d][f]
    BY RemoveEffect
  <1>2. Exists(d)' => Exists(d)
    BY <1>1 DEF Exists
  <1>3. Exists(d)' => \A f \in DOMAIN disk'[d] :
                          f \in DOMAIN disk[d] /\ disk'[d][f] = disk[d][f]
    BY <1>1 DEF Exists
  <1>4. ASSUME NEW e, e # d
        PROVE  Same(e)
    <2>1. e \in DOMAIN disk' <=> e \in DOMAIN disk
      BY <1>1, <1>4
    <2>2. e \in DOMAIN disk => disk'[e] = disk[e]
      BY <1>1, <1>4
    <2> QED  BY <2>1, <2>2 DEF Same, Exists
  <1> QED  BY <1>1, <1>2, <1>3, <1>4

-----------------------------------------------------------------------------
(* Who has the locks *)

\* The import that holds the locks, and no other, is at a locked place.
LEMMA LockHolder ==
    ASSUME TypeOK
    PROVE  /\ \A r \in Requests : pc[r] \in Locked => section = r
           /\ section = Nobody => \A r \in Requests : pc[r] \notin Locked
  BY FilesAssumption DEF TypeOK

\* The locked places of an import, and all places of a request.
LEMMA PlacesInPass ==
    /\ Locked = {"close", "moveOld", "moveNew", "verify", "rollback", "restore",
                 "reopen", "removeOld"}
    /\ Steps = Locked \cup {"idle", "setup", "open", "import", "cleanup", "done", "stopped"}
  BY DEF Locked, Steps

\* A step of somebody else leaves a request's directories in place.
LEMMA OthersStay ==
    ASSUME Inv, NEW q \in Requests,
           pc'[q] = pc[q], drop'[q] = drop[q],
           Same(Stage(q)), Same(Replaced(q)),
           Same(Data) \/ pc[q] \notin {"close", "moveOld", "verify", "rollback"},
           running' \in {running, Closed} \/ pc[q] \notin Locked
    PROVE  InPlace(q)'
  <1>1. InPlace(q)
    BY DEF Inv, Moved
  <1> QED  BY <1>1, PlacesInPass DEF InPlace, Same, Holds, IsWhole, Exists

\* A request that is at no step of the locked part of an import.
LEMMA Unlocking ==
    ASSUME NEW r \in Requests,
           pc'[r] \in {"idle", "setup", "open", "import", "cleanup", "done", "stopped",
                       "removeOld"},
           drop'[r] \subseteq {Stage(r), Replaced(r)},
           Exists(Stage(r))' => \A f \in DOMAIN disk'[Stage(r)] : disk'[Stage(r)][f] = r
    PROVE  InPlace(r)'
  BY DEF InPlace

\* The part of the invariant that only speaks of what is installed.
LEMMA InstalledStays ==
    ASSUME Inv, Same(Data), trades' \subseteq trades,
           running' \in {running, Closed} \/ (Exists(Data) /\ running' = Restrict(disk[Data], Components))
    PROVE  OneWallet' /\ OpenIsInstalled' /\ SwapsKeepTheirWallet'
  BY DEF Inv, OneWallet, OpenIsInstalled, SwapsKeepTheirWallet, Same, Exists

-----------------------------------------------------------------------------
(* The steps of a setup *)

\* Beginning to stage keeps the invariant.
LEMMA BeginStagingInv ==
    ASSUME Inv, NEW r \in Requests, NEW step \in {"setup", "import"}, BeginStaging(r, step)
    PROVE  Inv'
  <1>1. TypeOK /\ DiskTyped /\ pc \in [Requests -> Steps] /\ drop \in [Requests -> SUBSET Places]
    BY DEF Inv, TypeOK, DiskTyped
  <1>2. disk' = [d \in DOMAIN disk \cup {Stage(r)} |-> IF d = Stage(r) THEN NoFiles ELSE disk[d]]
    BY DEF BeginStaging, With
  <1>3. NoFiles \in Directories /\ DOMAIN NoFiles = {}
    <2>1. NoFiles \in [{} -> Wallets]
      BY DEF NoFiles
    <2> QED  BY <2>1, DirectoryForm
  <1>4. DiskTyped'
    <2>1. DOMAIN disk \cup {Stage(r)} \in SUBSET Places
      BY <1>1, DiskForm, PlaceNames
    <2>2. disk' \in [DOMAIN disk \cup {Stage(r)} -> Directories]
      BY <1>1, <1>2, <1>3, DiskForm
    <2> QED  BY <2>1, <2>2 DEF DiskTyped
  <1>5. disk'[Stage(r)] = NoFiles /\ \A d : d # Stage(r) => Same(d)
    BY <1>2 DEF Same, Exists
  <1>6. /\ pc' \in [Requests -> Steps] /\ pc'[r] = step
        /\ \A q \in Requests : q # r => pc'[q] = pc[q]
        /\ drop' \in [Requests -> SUBSET Places] /\ drop'[r] = {Stage(r)}
        /\ \A q \in Requests : q # r => drop'[q] = drop[q]
    BY <1>1, PlaceNames, PlacesInPass DEF BeginStaging, Goto
  <1>7. UNCHANGED <<section, running, root, unlocked, trades, kept, faults, restarts>>
    BY DEF BeginStaging, service
  <1>8. \A q \in Requests : pc'[q] \in Locked <=> section' = q
    BY <1>1, <1>6, <1>7, PlacesInPass DEF TypeOK, BeginStaging
  <1>9. TypeOK'
    BY <1>1, <1>4, <1>6, <1>7, <1>8 DEF TypeOK, DiskTyped
  <1>10. Same(Data)
    BY <1>5, PlaceNames
  <1>11. Moved'
    <2> SUFFICES ASSUME NEW q \in Requests PROVE InPlace(q)'
      BY DEF Moved
    <2>1. CASE q = r
      BY <1>3, <1>5, <1>6, <2>1, Unlocking
    <2>2. CASE q # r
      <3>1. Same(Stage(q)) /\ Same(Replaced(q))
        BY <1>5, <2>2, PlaceNames
      <3> QED  BY <1>6, <1>7, <1>10, <2>2, <3>1, OthersStay
    <2> QED  BY <2>1, <2>2
  <1>12. NoTradeWhileLocked'
    BY <1>7 DEF Inv, NoTradeWhileLocked
  <1> QED  BY <1>7, <1>9, <1>10, <1>11, <1>12, InstalledStays DEF Inv

\* Staging one file keeps the invariant.
LEMMA StageFileInv ==
    ASSUME Inv, NEW r \in Requests, StageFile(r)
    PROVE  Inv'
  <1>1. TypeOK /\ DiskTyped /\ pc \in [Requests -> Steps]
    BY DEF Inv, TypeOK, DiskTyped
  <1>2. PICK f \in Files :
            \/ Works /\ disk' = [disk EXCEPT ![Stage(r)] = With(@, f, r)] /\ UNCHANGED pc
            \/ Fails /\ Goto(r, "cleanup") /\ UNCHANGED disk
    BY DEF StageFile
  <1>3. /\ DiskTyped'
        /\ \A d : d # Stage(r) => Same(d)
        /\ Exists(Stage(r))' => \A g \in DOMAIN disk'[Stage(r)] : disk'[Stage(r)][g] = r
    <2>0. Exists(Stage(r)) => \A g \in DOMAIN disk[Stage(r)] : disk[Stage(r)][g] = r
      BY DEF Inv, Moved, InPlace
    <2>1. CASE disk' = disk
      BY <1>1, <2>0, <2>1 DEF DiskTyped, Same, Exists
    <2>2. CASE disk' = [disk EXCEPT ![Stage(r)] = With(disk[Stage(r)], f, r)]
      <3>1. CASE Stage(r) \notin DOMAIN disk
        <4>1. disk' = disk
          BY <1>1, <2>2, <3>1, DiskForm
        <4> QED  BY <2>1, <4>1
      <3>2. CASE Stage(r) \in DOMAIN disk
        <4>1. PICK fs \in SUBSET Files : disk[Stage(r)] \in [fs -> Wallets]
          BY <1>1, <3>2, DiskForm, DirectoryForm
        <4>2. /\ With(disk[Stage(r)], f, r) \in [fs \cup {f} -> Wallets]
              /\ \A g \in fs \cup {f} : With(disk[Stage(r)], f, r)[g] = r
          BY <2>0, <3>2, <4>1 DEF With, Wallets, Exists
        <4>3. With(disk[Stage(r)], f, r) \in Directories
          <5>1. fs \cup {f} \in SUBSET Files
            OBVIOUS
          <5> QED  BY <4>2, <5>1, DirectoryForm
        <4>4. /\ disk' \in [DOMAIN disk -> Directories]
              /\ disk'[Stage(r)] = With(disk[Stage(r)], f, r)
              /\ \A d : d # Stage(r) => Same(d)
          BY <1>1, <2>2, <3>2, <4>3, DiskForm DEF Same, Exists
        <4>5. DiskTyped'
          BY <1>1, <4>4, DiskForm DEF DiskTyped
        <4> QED  BY <4>2, <4>4, <4>5
      <3> QED  BY <3>1, <3>2
    <2> QED  BY <1>2, <2>1, <2>2
  <1>4. /\ pc' \in [Requests -> Steps] /\ pc'[r] \in {"setup", "import", "cleanup"}
        /\ pc[r] \in {"setup", "import"}
        /\ \A q \in Requests : q # r => pc'[q] = pc[q]
    BY <1>1, <1>2, PlacesInPass DEF StageFile, Goto
  <1>5. UNCHANGED <<drop, section, running, root, unlocked, trades, kept, restarts>>
    BY DEF StageFile, service
  <1>6. faults' \in 0..MaxFaults
    BY <1>1, <1>2, FilesAssumption DEF Works, Fails, TypeOK
  <1>7. \A q \in Requests : pc'[q] \in Locked <=> section' = q
    BY <1>1, <1>4, <1>5, PlacesInPass DEF TypeOK
  <1>8. TypeOK'
    BY <1>1, <1>3, <1>4, <1>5, <1>6, <1>7 DEF TypeOK, DiskTyped
  <1>9. Same(Data)
    BY <1>3, PlaceNames
  <1>10. Moved'
    <2> SUFFICES ASSUME NEW q \in Requests PROVE InPlace(q)'
      BY DEF Moved
    <2>1. CASE q = r
      <3>1. drop'[r] \subseteq {Stage(r), Replaced(r)}
        BY <1>5 DEF Inv, Moved, InPlace
      <3> QED  BY <1>3, <1>4, <2>1, <3>1, Unlocking
    <2>2. CASE q # r
      <3>1. Same(Stage(q)) /\ Same(Replaced(q))
        BY <1>3, <2>2, PlaceNames
      <3> QED  BY <1>4, <1>5, <1>9, <2>2, <3>1, OthersStay
    <2> QED  BY <2>1, <2>2
  <1>11. NoTradeWhileLocked'
    BY <1>5 DEF Inv, NoTradeWhileLocked
  <1> QED  BY <1>5, <1>8, <1>9, <1>10, <1>11, InstalledStays DEF Inv

\* A staged wallet is whole and the request's own.
LEMMA StagedWhole ==
    ASSUME Inv, NEW r \in Requests, Staged(r)
    PROVE  Holds(Stage(r), r)
  <1>1. Stage(r) \in DOMAIN disk /\ DOMAIN disk[Stage(r)] = Files
    BY DEF Staged, Exists
  <1>2. PICK fs \in SUBSET Files : disk[Stage(r)] \in [fs -> Wallets]
    BY <1>1, DiskForm, DirectoryForm DEF Inv, TypeOK, DiskTyped
  <1>3. \A f \in Files : disk[Stage(r)][f] = r
    BY <1>1 DEF Inv, Moved, InPlace, Exists
  <1>4. disk[Stage(r)] = [f \in Files |-> r]
    BY <1>1, <1>2, <1>3
  <1> QED  BY <1>1, <1>4 DEF Holds, Exists, Whole

\* The rename that installs a setup keeps the invariant.
LEMMA CommitSetupInv ==
    ASSUME Inv, NEW r \in Requests, CommitSetup(r)
    PROVE  Inv'
  <1>1. TypeOK /\ DiskTyped /\ pc \in [Requests -> Steps] /\ drop \in [Requests -> SUBSET Places]
    BY DEF Inv, TypeOK, DiskTyped
  <1>2. /\ Holds(Stage(r), r)
        /\ drop[r] \subseteq {Stage(r), Replaced(r)}
        /\ Exists(Stage(r)) => \A f \in DOMAIN disk[Stage(r)] : disk[Stage(r)][f] = r
    BY StagedWhole DEF CommitSetup, Inv, Moved, InPlace
  <1>3. UNCHANGED <<section, running, root, unlocked, trades, restarts>>
    BY DEF CommitSetup, service
  <1>4. /\ pc' \in [Requests -> Steps] /\ pc'[r] \in {"open", "cleanup"} /\ pc[r] = "setup"
        /\ \A q \in Requests : q # r => pc'[q] = pc[q]
    BY <1>1, PlacesInPass DEF CommitSetup, Goto
  <1>5. /\ drop' \in [Requests -> SUBSET Places] /\ drop'[r] \subseteq drop[r]
        /\ \A q \in Requests : q # r => drop'[q] = drop[q]
    BY <1>1 DEF CommitSetup
  <1>6. faults' \in 0..MaxFaults /\ kept' \subseteq Wallets
    BY <1>1, FilesAssumption DEF CommitSetup, Works, Fails, TypeOK, Wallets
  <1>7. \A q \in Requests : pc'[q] \in Locked <=> section' = q
    BY <1>1, <1>3, <1>4, PlacesInPass DEF TypeOK
  <1>8. NoTradeWhileLocked'
    BY <1>3 DEF Inv, NoTradeWhileLocked
  <1>9. CASE ~Exists(Data) /\ disk' = Renamed(Stage(r), Data)
    <2>1. /\ DiskTyped' /\ Exists(Data)' /\ ~Exists(Stage(r))' /\ disk'[Data] = Whole(r)
          /\ \A d : d \notin {Stage(r), Data} => Same(d)
      BY <1>1, <1>2, <1>9, RenameSame, PlaceNames DEF Holds, Exists
    <2>2. TypeOK'
      BY <1>1, <1>3, <1>4, <1>5, <1>6, <1>7, <2>1 DEF TypeOK, DiskTyped
    <2>3. Moved'
      <3> SUFFICES ASSUME NEW q \in Requests PROVE InPlace(q)'
        BY DEF Moved
      <3>1. CASE q = r
        BY <1>2, <1>4, <1>5, <2>1, <3>1, Unlocking
      <3>2. CASE q # r
        <4>1. Same(Stage(q)) /\ Same(Replaced(q))
          BY <2>1, <3>2, PlaceNames
        <4>2. pc[q] \notin {"close", "moveOld", "verify", "rollback"}
          BY <1>9 DEF Inv, Moved, InPlace, Holds
        <4> QED  BY <1>3, <1>4, <1>5, <3>2, <4>1, <4>2, OthersStay
      <3> QED  BY <3>1, <3>2
    <2>4. OneWallet'
      BY <2>1 DEF OneWallet, Wallets
    <2>5. OpenIsInstalled' /\ SwapsKeepTheirWallet'
      BY <1>3, <1>9 DEF Inv, OpenIsInstalled, SwapsKeepTheirWallet
    <2> QED  BY <1>8, <2>2, <2>3, <2>4, <2>5 DEF Inv
  <1>10. CASE UNCHANGED disk
    <2>1. TypeOK'
      BY <1>1, <1>3, <1>4, <1>5, <1>6, <1>7, <1>10 DEF TypeOK
    <2>2. \A d : Same(d)
      BY <1>10 DEF Same, Exists
    <2>3. Moved'
      <3> SUFFICES ASSUME NEW q \in Requests PROVE InPlace(q)'
        BY DEF Moved
      <3>1. CASE q = r
        BY <1>2, <1>4, <1>5, <1>10, <3>1, Unlocking DEF Exists
      <3>2. CASE q # r
        BY <1>3, <1>4, <1>5, <2>2, <3>2, OthersStay
      <3> QED  BY <3>1, <3>2
    <2> QED  BY <1>3, <1>8, <2>1, <2>2, <2>3, InstalledStays DEF Inv
  <1> QED  BY <1>9, <1>10 DEF CommitSetup

-----------------------------------------------------------------------------
(* What a step of one request needs *)

\* The counters and the tables that a step keeps typed.
TablesTyped ==
    /\ DiskTyped
    /\ drop \in [Requests -> SUBSET Places]
    /\ running = Closed \/ running \in [Components -> Wallets]
    /\ root \in Wallets \union {Nobody}
    /\ unlocked \subseteq {"qday", "bitcoin"} /\ (unlocked # {} => running # Closed)
    /\ trades \subseteq Wallets /\ kept \subseteq Wallets
    /\ faults \in 0..MaxFaults /\ restarts \in 0..MaxRestarts

\* The parts of the type invariant, by name.
LEMMA TypeParts ==
    TypeOK <=> /\ TablesTyped
               /\ pc \in [Requests -> Steps]
               /\ section \in Requests \union {Nobody}
               /\ \A r \in Requests : pc[r] \in Locked <=> section = r
  BY DEF TypeOK, TablesTyped, DiskTyped

\* A request moves on; it has the locks exactly in the locked part.
LEMMA RequestTyped ==
    ASSUME Inv, NEW r \in Requests, NEW step \in Steps, Goto(r, step), TablesTyped',
           section' = IF step \in Locked THEN r
                      ELSE IF pc[r] \in Locked THEN Nobody ELSE section,
           step \in Locked /\ pc[r] \notin Locked => section = Nobody
    PROVE  TypeOK'
  <1>1. /\ pc \in [Requests -> Steps] /\ section \in Requests \union {Nobody}
        /\ \A q \in Requests : pc[q] \in Locked <=> section = q
    BY DEF Inv, TypeOK
  <1>2. /\ pc' \in [Requests -> Steps] /\ pc'[r] = step
        /\ \A q \in Requests : q # r => pc'[q] = pc[q]
    BY <1>1 DEF Goto
  <1>3. section' \in Requests \union {Nobody}
    BY <1>1
  <1>4. \A q \in Requests : pc'[q] \in Locked <=> section' = q
    BY <1>1, <1>2, FilesAssumption
  <1> QED  BY <1>2, <1>3, <1>4 DEF TypeOK, TablesTyped, DiskTyped

\* The directories of the other requests stay in place.
LEMMA RequestMoved ==
    ASSUME Inv, NEW r \in Requests, NEW step \in Steps, Goto(r, step), InPlace(r)',
           \A q \in Requests : q # r => drop'[q] = drop[q],
           \A d : d \notin {Data, Stage(r), Replaced(r)} => Same(d),
           Same(Data) \/ section = r,
           running' \in {running, Closed} \/ section \in {r, Nobody}
    PROVE  Moved'
  <1> SUFFICES ASSUME NEW q \in Requests, q # r PROVE InPlace(q)'
    BY DEF Moved
  <1>1. pc'[q] = pc[q]
    BY DEF Goto, Inv, TypeOK
  <1>2. Same(Stage(q)) /\ Same(Replaced(q))
    BY PlaceNames
  <1>3. section \in {r, Nobody} => pc[q] \notin Locked
    BY LockHolder, FilesAssumption DEF Inv
  <1> QED  BY <1>1, <1>2, <1>3, PlacesInPass, OthersStay

\* What opening the components gives.
LEMMA OpenEffect ==
    ASSUME Inv, OpenWorks
    PROVE  /\ Exists(Data)
           /\ running' = Restrict(disk[Data], Components)
           /\ running' \in [Components -> Wallets]
           /\ running' # Closed
  <1>1. /\ Exists(Data) /\ running' = Restrict(disk[Data], Components)
    BY DEF OpenWorks, CanOpen, Opened, Inv, OpenIsInstalled
  <1>2. PICK w \in Wallets : disk[Data] = Whole(w)
    BY <1>1 DEF Inv, OneWallet
  <1>3. running' = [f \in Components |-> w]
    BY <1>1, <1>2 DEF Restrict, Whole, Components
  <1>4. running' # Closed
    <2>1. DOMAIN running' = Components /\ "journal" \in Components
      BY <1>3 DEF Components, Files
    <2>2. DOMAIN Closed = {}
      BY DEF Closed
    <2> QED  BY <2>1, <2>2
  <1> QED  BY <1>1, <1>3, <1>4

\* A counted failure stays within its bound.
LEMMA FaultsTyped ==
    ASSUME TypeOK, Works \/ Fails
    PROVE  faults' \in 0..MaxFaults
  BY FilesAssumption DEF TypeOK, Works, Fails

\* What depends on the disk alone is kept when the disk is.
LEMMA UnchangedSame ==
    ASSUME UNCHANGED disk
    PROVE  /\ \A d : Same(d)
           /\ \A d : Exists(d)' <=> Exists(d)
           /\ \A d, w : Holds(d, w)' <=> Holds(d, w)
           /\ \A d : IsWhole(d)' <=> IsWhole(d)
           /\ DiskTyped' <=> DiskTyped
  BY DEF Same, Exists, Holds, IsWhole, DiskTyped

\* The step of a setup that opens what it installed.
LEMMA OpenSetupInv ==
    ASSUME Inv, NEW r \in Requests, OpenSetup(r)
    PROVE  Inv'
  <1>1. TypeOK /\ TablesTyped /\ InPlace(r)
    BY TypeParts DEF Inv, Moved
  <1>2. /\ UNCHANGED <<disk, drop, section, trades, kept, restarts>>
        /\ Goto(r, "done") /\ pc[r] = "open" /\ section = Nobody /\ root' = r
        /\ OpenWorks \/ running' = running
        /\ Works \/ Fails
    BY DEF OpenSetup, OpenFails
  <1>3. /\ running' = Closed \/ running' \in [Components -> Wallets]
        /\ unlocked' \subseteq {"qday", "bitcoin"} /\ (unlocked' # {} => running' # Closed)
    BY <1>1, OpenEffect DEF OpenSetup, OpenFails, TablesTyped
  <1>4. TablesTyped'
    BY <1>1, <1>2, <1>3, FaultsTyped, UnchangedSame DEF TablesTyped, Wallets
  <1>5. TypeOK'
    BY <1>2, <1>4, PlacesInPass, RequestTyped
  <1>6. InPlace(r)'
    BY <1>1, <1>2, UnchangedSame DEF InPlace, Goto, TypeOK
  <1>7. Moved'
    BY <1>2, <1>6, PlacesInPass, UnchangedSame, RequestMoved
  <1>8. OneWallet' /\ OpenIsInstalled' /\ SwapsKeepTheirWallet'
    BY <1>2, OpenEffect, UnchangedSame, InstalledStays
  <1> QED  BY <1>2, <1>5, <1>7, <1>8 DEF Inv, NoTradeWhileLocked

-----------------------------------------------------------------------------
(* The steps of an import *)

\* What holds of a request that takes its next step.
LEMMA Moves ==
    ASSUME Inv, NEW r \in Requests, NEW step, Goto(r, step)
    PROVE  /\ TypeOK /\ TablesTyped /\ DiskTyped /\ InPlace(r)
           /\ pc'[r] = step
           /\ pc[r] \in Locked => section = r
           /\ drop \in [Requests -> SUBSET Places]
  BY LockHolder, TypeParts DEF Inv, Moved, Goto, TypeOK, TablesTyped

\* The running journal is the one that unfinished swaps are in.
LEMMA NoneIsTrading ==
    ASSUME Inv, running # Closed, ~Trading
    PROVE  trades = {}
  <1> SUFFICES ASSUME NEW w \in trades PROVE FALSE
    OBVIOUS
  <1>1. w \in Wallets /\ Exists(Data) /\ disk[Data] = Whole(w)
    BY DEF Inv, TypeOK, SwapsKeepTheirWallet
  <1>2. running = [f \in Components |-> w]
    BY <1>1 DEF Inv, OpenIsInstalled, Restrict, Whole, Components
  <1>3. running["journal"] = w
    BY <1>2 DEF Components, Files
  <1> QED  BY <1>3 DEF Trading

\* Taking the locks and checking for swaps keeps the invariant.
LEMMA LockAndCheckInv ==
    ASSUME Inv, NEW r \in Requests, LockAndCheck(r)
    PROVE  Inv'
  <1>1. /\ UNCHANGED <<disk, drop, running, root, unlocked, trades, kept, faults, restarts>>
        /\ pc[r] = "import" /\ Staged(r) /\ section = Nobody
    BY DEF LockAndCheck, service
  <1>2. CASE running # Closed /\ ~Trading /\ section' = r /\ Goto(r, "close")
    <2>1. TypeOK /\ TablesTyped /\ InPlace(r) /\ pc'[r] = "close"
      BY <1>2, Moves
    <2>2. TablesTyped'
      BY <1>1, <2>1, UnchangedSame DEF TablesTyped
    <2>3. TypeOK'
      BY <1>1, <1>2, <2>2, PlacesInPass, RequestTyped
    <2>4. InPlace(r)'
      BY <1>1, <1>2, <2>1, StagedWhole, UnchangedSame DEF InPlace, Inv, OpenIsInstalled
    <2>5. Moved'
      BY <1>1, <1>2, <2>4, PlacesInPass, UnchangedSame, RequestMoved
    <2>6. OneWallet' /\ OpenIsInstalled' /\ SwapsKeepTheirWallet'
      BY <1>1, UnchangedSame, InstalledStays
    <2>7. trades' = {}
      BY <1>1, <1>2, NoneIsTrading
    <2> QED  BY <2>3, <2>5, <2>6, <2>7 DEF Inv, NoTradeWhileLocked
  <1>3. CASE Goto(r, "cleanup") /\ UNCHANGED section
    <2>1. TypeOK /\ TablesTyped /\ InPlace(r) /\ pc'[r] = "cleanup"
      BY <1>3, Moves
    <2>2. TablesTyped'
      BY <1>1, <2>1, UnchangedSame DEF TablesTyped
    <2>3. TypeOK'
      BY <1>1, <1>3, <2>2, PlacesInPass, RequestTyped
    <2>4. InPlace(r)'
      BY <1>1, <2>1, UnchangedSame DEF InPlace
    <2>5. Moved'
      BY <1>1, <1>3, <2>4, PlacesInPass, UnchangedSame, RequestMoved
    <2>6. OneWallet' /\ OpenIsInstalled' /\ SwapsKeepTheirWallet'
      BY <1>1, UnchangedSame, InstalledStays
    <2> QED  BY <1>1, <1>3, <2>3, <2>5, <2>6 DEF Inv, NoTradeWhileLocked
  <1> QED  BY <1>2, <1>3 DEF LockAndCheck

\* Closing the wallets keeps the invariant.
LEMMA CloseWalletsInv ==
    ASSUME Inv, NEW r \in Requests, CloseWallets(r)
    PROVE  Inv'
  <1>1. /\ UNCHANGED <<disk, drop, section, trades, kept, restarts>>
        /\ pc[r] = "close" /\ running' = Closed /\ root' = Nobody /\ unlocked' = {}
    BY DEF CloseWallets, CloseComponents
  <1>2. PICK step \in {"moveOld", "reopen"} : Goto(r, step) /\ (Works \/ Fails)
    BY DEF CloseWallets
  <1>3. TypeOK /\ TablesTyped /\ InPlace(r) /\ pc'[r] = step /\ section = r
    BY <1>1, <1>2, Moves, PlacesInPass
  <1>4. TablesTyped'
    BY <1>1, <1>2, <1>3, FaultsTyped, UnchangedSame DEF TablesTyped
  <1>5. TypeOK'
    BY <1>1, <1>2, <1>3, <1>4, PlacesInPass, RequestTyped
  <1>6. InPlace(r)'
    BY <1>1, <1>2, <1>3, UnchangedSame DEF InPlace
  <1>7. Moved'
    BY <1>1, <1>2, <1>6, PlacesInPass, UnchangedSame, RequestMoved
  <1>8. OneWallet' /\ OpenIsInstalled' /\ SwapsKeepTheirWallet'
    BY <1>1, UnchangedSame, InstalledStays
  <1> QED  BY <1>1, <1>5, <1>7, <1>8 DEF Inv, NoTradeWhileLocked

\* Moving the old wallet aside keeps the invariant.
LEMMA MoveOldInv ==
    ASSUME Inv, NEW r \in Requests, MoveOld(r)
    PROVE  Inv'
  <1>1. UNCHANGED <<section, running, root, unlocked, trades, kept, restarts>> /\ pc[r] = "moveOld"
    BY DEF MoveOld, service
  <1>2. CASE /\ Works /\ disk' = Renamed(Data, Replaced(r)) /\ Goto(r, "moveNew")
             /\ drop' = [drop EXCEPT ![r] = @ \union {Replaced(r)}]
    <2>1. /\ TypeOK /\ TablesTyped /\ DiskTyped /\ InPlace(r) /\ section = r
          /\ pc'[r] = "moveNew" /\ drop \in [Requests -> SUBSET Places]
      BY <1>1, <1>2, Moves, PlacesInPass
    <2>2. IsWhole(Data) /\ Holds(Stage(r), r) /\ running = Closed /\ trades = {}
      BY <1>1, <2>1, FilesAssumption DEF InPlace, Inv, OneWallet, NoTradeWhileLocked, IsWhole
    <2>3. /\ DiskTyped' /\ Exists(Replaced(r))' /\ ~Exists(Data)' /\ disk'[Replaced(r)] = disk[Data]
          /\ \A d : d \notin {Data, Replaced(r)} => Same(d)
      BY <1>2, <2>1, <2>2, RenameSame, PlaceNames DEF IsWhole, Exists
    <2>4. /\ drop' \in [Requests -> SUBSET Places] /\ drop'[r] = drop[r] \union {Replaced(r)}
          /\ \A q \in Requests : q # r => drop'[q] = drop[q]
      BY <1>2, <2>1, PlaceNames
    <2>5. TablesTyped'
      BY <1>1, <1>2, <2>1, <2>3, <2>4, FaultsTyped DEF TablesTyped
    <2>6. TypeOK'
      BY <1>1, <1>2, <2>1, <2>5, PlacesInPass, RequestTyped
    <2>7. InPlace(r)'
      <3>1. Same(Stage(r))
        BY <2>3, PlaceNames
      <3>2. IsWhole(Replaced(r))'
        BY <2>2, <2>3 DEF IsWhole, Wallets
      <3>3. Holds(Stage(r), r)'
        BY <2>2, <3>1 DEF Holds, Same
      <3>4. Exists(Stage(r))' => \A f \in DOMAIN disk'[Stage(r)] : disk'[Stage(r)][f] = r
        BY <2>1, <3>1 DEF InPlace, Same
      <3>5. drop'[r] \subseteq {Stage(r), Replaced(r)}
        BY <2>1, <2>4 DEF InPlace
      <3> QED  BY <1>1, <2>1, <2>2, <3>2, <3>3, <3>4, <3>5 DEF InPlace
    <2>8. Moved'
      BY <1>1, <1>2, <2>1, <2>3, <2>4, <2>7, PlacesInPass, RequestMoved
    <2>9. OneWallet' /\ OpenIsInstalled' /\ SwapsKeepTheirWallet'
      BY <1>1, <2>2, <2>3 DEF OneWallet, OpenIsInstalled, SwapsKeepTheirWallet
    <2> QED  BY <1>1, <2>2, <2>6, <2>8, <2>9 DEF Inv, NoTradeWhileLocked
  <1>3. CASE Fails /\ Goto(r, "reopen") /\ UNCHANGED <<disk, drop>>
    <2>1. TypeOK /\ TablesTyped /\ InPlace(r) /\ pc'[r] = "reopen" /\ section = r
      BY <1>1, <1>3, Moves, PlacesInPass
    <2>2. TablesTyped'
      BY <1>1, <1>3, <2>1, FaultsTyped, UnchangedSame DEF TablesTyped
    <2>3. TypeOK'
      BY <1>1, <1>3, <2>1, <2>2, PlacesInPass, RequestTyped
    <2>4. InPlace(r)'
      BY <1>1, <1>3, <2>1, UnchangedSame DEF InPlace
    <2>5. Moved'
      BY <1>1, <1>3, <2>4, PlacesInPass, UnchangedSame, RequestMoved
    <2>6. OneWallet' /\ OpenIsInstalled' /\ SwapsKeepTheirWallet'
      BY <1>1, <1>3, UnchangedSame, InstalledStays
    <2> QED  BY <1>1, <1>3, <2>3, <2>5, <2>6 DEF Inv, NoTradeWhileLocked
  <1> QED  BY <1>2, <1>3 DEF MoveOld

\* Moving the new wallet into place keeps the invariant.
LEMMA MoveNewInv ==
    ASSUME Inv, NEW r \in Requests, MoveNew(r)
    PROVE  Inv'
  <1>1. UNCHANGED <<section, running, root, unlocked, trades, kept, restarts>> /\ pc[r] = "moveNew"
    BY DEF MoveNew, service
  <1>2. PICK step \in {"verify", "reopen"} : Goto(r, step)
    BY DEF MoveNew
  <1>3. /\ TypeOK /\ TablesTyped /\ DiskTyped /\ InPlace(r) /\ section = r
        /\ pc'[r] = step /\ drop \in [Requests -> SUBSET Places]
    BY <1>1, <1>2, Moves, PlacesInPass
  <1>4. Holds(Stage(r), r) /\ IsWhole(Replaced(r)) /\ running = Closed /\ trades = {}
    BY <1>1, <1>3, FilesAssumption DEF InPlace, Inv, NoTradeWhileLocked
  <1>5. faults' \in 0..MaxFaults
    BY <1>3, FilesAssumption DEF MoveNew, Works, Fails, TypeOK
  <1>6. /\ drop' \in [Requests -> SUBSET Places] /\ drop'[r] \subseteq {Stage(r), Replaced(r)}
        /\ \A q \in Requests : q # r => drop'[q] = drop[q]
    BY <1>3 DEF MoveNew, InPlace
  <1>7. /\ DiskTyped' /\ OneWallet'
        /\ \A d : d \notin {Data, Stage(r), Replaced(r)} => Same(d)
        /\ Exists(Stage(r))' => \A f \in DOMAIN disk'[Stage(r)] : disk'[Stage(r)][f] = r
        /\ step = "verify" => IsWhole(Replaced(r))' /\ Holds(Data, r)'
    <2>1. CASE /\ ~Exists(Data) /\ disk' = Renamed(Stage(r), Data)
      <3>1. /\ DiskTyped' /\ Exists(Data)' /\ ~Exists(Stage(r))' /\ disk'[Data] = Whole(r)
            /\ \A d : d \notin {Stage(r), Data} => Same(d)
        BY <1>3, <1>4, <2>1, RenameSame, PlaceNames DEF Holds, Exists
      <3>2. Same(Replaced(r))
        BY <3>1, PlaceNames
      <3> QED  BY <1>4, <3>1, <3>2 DEF OneWallet, Wallets, IsWhole, Holds, Same
    <2>2. CASE Goto(r, "reopen") /\ UNCHANGED disk
      <3>1. step = "reopen"
        BY <1>2, <1>3, <2>2 DEF Goto, TypeOK
      <3>2. OneWallet'
        BY <1>1, <2>2, UnchangedSame, InstalledStays
      <3> QED  BY <1>3, <2>2, <3>1, <3>2, UnchangedSame DEF InPlace
    <2>3. CASE ~Exists(Data) /\ disk' = Renamed(Replaced(r), Data) /\ Goto(r, "reopen")
      <3>1. /\ DiskTyped' /\ Exists(Data)' /\ disk'[Data] = disk[Replaced(r)]
            /\ \A d : d \notin {Replaced(r), Data} => Same(d)
        BY <1>3, <1>4, <2>3, RenameSame, PlaceNames DEF IsWhole, Exists
      <3>2. Same(Stage(r))
        BY <3>1, PlaceNames
      <3>3. step = "reopen"
        BY <1>2, <1>3, <2>3 DEF Goto, TypeOK
      <3>4. OneWallet'
        BY <1>4, <3>1 DEF OneWallet, IsWhole, Wallets
      <3> QED  BY <1>3, <3>1, <3>2, <3>3, <3>4 DEF InPlace, Same
    <2> QED  BY <2>1, <2>2, <2>3 DEF MoveNew
  <1>8. TablesTyped'
    BY <1>1, <1>3, <1>5, <1>6, <1>7 DEF TablesTyped
  <1>9. TypeOK'
    BY <1>1, <1>2, <1>3, <1>8, PlacesInPass, RequestTyped
  <1>10. InPlace(r)'
    BY <1>1, <1>2, <1>3, <1>4, <1>6, <1>7 DEF InPlace
  <1>11. Moved'
    BY <1>1, <1>2, <1>3, <1>6, <1>7, <1>10, PlacesInPass, RequestMoved
  <1> QED
    BY <1>1, <1>4, <1>7, <1>9, <1>11
    DEF Inv, OpenIsInstalled, SwapsKeepTheirWallet, NoTradeWhileLocked

\* Opening the imported wallets, or failing to, keeps the invariant.
LEMMA VerifyInv ==
    ASSUME Inv, NEW r \in Requests, Verify(r)
    PROVE  Inv'
  <1>1. UNCHANGED <<disk, drop, section, trades, restarts>> /\ pc[r] = "verify" /\ (Works \/ Fails)
    BY DEF Verify
  <1>2. PICK step \in {"removeOld", "rollback"} : Goto(r, step)
    BY DEF Verify
  <1>3. TypeOK /\ TablesTyped /\ InPlace(r) /\ pc'[r] = step /\ section = r
    BY <1>1, <1>2, Moves, PlacesInPass
  <1>4. \/ running' = running
        \/ /\ Exists(Data) /\ running' = Restrict(disk[Data], Components)
           /\ running' \in [Components -> Wallets] /\ running' # Closed
    BY OpenEffect DEF Verify
  <1>5. /\ root' \in Wallets \union {Nobody} /\ kept' \subseteq Wallets
        /\ unlocked' \subseteq {"qday", "bitcoin"} /\ (unlocked' # {} => running' # Closed)
    BY <1>3, <1>4, OpenEffect DEF Verify, TablesTyped, Wallets
  <1>6. TablesTyped'
    BY <1>1, <1>3, <1>4, <1>5, FaultsTyped, UnchangedSame DEF TablesTyped
  <1>7. TypeOK'
    BY <1>1, <1>2, <1>3, <1>6, PlacesInPass, RequestTyped
  <1>8. InPlace(r)'
    BY <1>1, <1>2, <1>3, UnchangedSame DEF InPlace
  <1>9. Moved'
    BY <1>1, <1>2, <1>3, <1>8, PlacesInPass, UnchangedSame, RequestMoved
  <1>10. OneWallet' /\ OpenIsInstalled' /\ SwapsKeepTheirWallet'
    BY <1>1, <1>4, UnchangedSame, InstalledStays
  <1> QED  BY <1>1, <1>7, <1>9, <1>10 DEF Inv, NoTradeWhileLocked

\* Moving the imported wallet away again keeps the invariant.
LEMMA RollBackNewInv ==
    ASSUME Inv, NEW r \in Requests, RollBackNew(r)
    PROVE  Inv'
  <1>1. /\ UNCHANGED <<trades, kept, restarts>> /\ pc[r] = "rollback" /\ (Works \/ Fails)
        /\ running' = Closed /\ root' = Nobody /\ unlocked' = {}
    BY DEF RollBackNew, CloseComponents
  <1>2. PICK step \in {"restore", "cleanup"} :
            Goto(r, step) /\ section' = IF step = "restore" THEN section ELSE Nobody
    BY DEF RollBackNew
  <1>3. /\ TypeOK /\ TablesTyped /\ DiskTyped /\ InPlace(r) /\ section = r
        /\ pc'[r] = step /\ drop \in [Requests -> SUBSET Places]
    BY <1>1, <1>2, Moves, PlacesInPass
  <1>4. Holds(Data, r) /\ IsWhole(Replaced(r)) /\ trades = {}
    BY <1>1, <1>3, FilesAssumption DEF InPlace, Inv, NoTradeWhileLocked
  <1>5. /\ drop' \in [Requests -> SUBSET Places] /\ drop'[r] \subseteq {Stage(r), Replaced(r)}
        /\ \A q \in Requests : q # r => drop'[q] = drop[q]
    BY <1>3, PlaceNames DEF RollBackNew, InPlace
  <1>6. /\ DiskTyped' /\ OneWallet'
        /\ \A d : d \notin {Data, Stage(r), Replaced(r)} => Same(d)
        /\ Exists(Stage(r))' => \A f \in DOMAIN disk'[Stage(r)] : disk'[Stage(r)][f] = r
        /\ IsWhole(Replaced(r))'
    <2>1. CASE disk' = Renamed(Data, Stage(r))
      <3>1. /\ DiskTyped' /\ ~Exists(Data)' /\ disk'[Stage(r)] = Whole(r)
            /\ \A d : d \notin {Stage(r), Data} => Same(d)
        BY <1>3, <1>4, <2>1, RenameSame, PlaceNames DEF Holds, Exists
      <3>2. Same(Replaced(r))
        BY <3>1, PlaceNames
      <3> QED  BY <1>4, <3>1, <3>2 DEF OneWallet, Wallets, IsWhole, Same, Whole
    <2>2. CASE UNCHANGED disk
      <3>1. OneWallet'
        BY <1>1, <2>2, UnchangedSame, InstalledStays
      <3> QED  BY <1>3, <1>4, <2>2, <3>1, UnchangedSame DEF InPlace
    <2> QED  BY <2>1, <2>2 DEF RollBackNew
  <1>7. TablesTyped'
    BY <1>1, <1>3, <1>5, <1>6, FaultsTyped DEF TablesTyped
  <1>8. TypeOK'
    BY <1>2, <1>3, <1>1, <1>7, PlacesInPass, RequestTyped
  <1>9. InPlace(r)'
    BY <1>1, <1>2, <1>3, <1>5, <1>6 DEF InPlace
  <1>10. Moved'
    BY <1>1, <1>2, <1>3, <1>5, <1>6, <1>9, PlacesInPass, RequestMoved
  <1> QED
    BY <1>1, <1>4, <1>6, <1>8, <1>10
    DEF Inv, OpenIsInstalled, SwapsKeepTheirWallet, NoTradeWhileLocked

\* Moving the old wallet back keeps the invariant.
LEMMA RollBackOldInv ==
    ASSUME Inv, NEW r \in Requests, RollBackOld(r)
    PROVE  Inv'
  <1>1. /\ UNCHANGED <<running, root, unlocked, trades, kept, restarts>> /\ pc[r] = "restore"
        /\ Works \/ Fails
    BY DEF RollBackOld, service
  <1>2. PICK step \in {"reopen", "cleanup"} :
            Goto(r, step) /\ section' = IF step = "reopen" THEN section ELSE Nobody
    BY DEF RollBackOld
  <1>3. /\ TypeOK /\ TablesTyped /\ DiskTyped /\ InPlace(r) /\ section = r
        /\ pc'[r] = step /\ drop \in [Requests -> SUBSET Places]
    BY <1>1, <1>2, Moves, PlacesInPass
  <1>4. IsWhole(Replaced(r)) /\ running = Closed /\ trades = {}
    BY <1>1, <1>3, FilesAssumption DEF InPlace, Inv, NoTradeWhileLocked
  <1>5. /\ drop' \in [Requests -> SUBSET Places] /\ drop'[r] \subseteq {Stage(r), Replaced(r)}
        /\ \A q \in Requests : q # r => drop'[q] = drop[q]
    BY <1>3 DEF RollBackOld, InPlace
  <1>6. /\ DiskTyped' /\ OneWallet'
        /\ \A d : d \notin {Data, Stage(r), Replaced(r)} => Same(d)
        /\ Same(Stage(r))
    <2>1. CASE ~Exists(Data) /\ disk' = Renamed(Replaced(r), Data)
      <3>1. /\ DiskTyped' /\ disk'[Data] = disk[Replaced(r)]
            /\ \A d : d \notin {Replaced(r), Data} => Same(d)
        BY <1>3, <1>4, <2>1, RenameSame, PlaceNames DEF IsWhole, Exists
      <3> QED  BY <1>4, <3>1, PlaceNames DEF OneWallet, IsWhole, Wallets
    <2>2. CASE UNCHANGED disk
      <3>1. OneWallet'
        BY <1>1, <2>2, UnchangedSame, InstalledStays
      <3> QED  BY <1>3, <2>2, <3>1, UnchangedSame
    <2> QED  BY <2>1, <2>2 DEF RollBackOld
  <1>7. TablesTyped'
    BY <1>1, <1>3, <1>5, <1>6, FaultsTyped DEF TablesTyped
  <1>8. TypeOK'
    BY <1>2, <1>3, <1>1, <1>7, PlacesInPass, RequestTyped
  <1>9. InPlace(r)'
    BY <1>1, <1>2, <1>3, <1>4, <1>5, <1>6 DEF InPlace, Same
  <1>10. Moved'
    BY <1>1, <1>2, <1>3, <1>5, <1>6, <1>9, PlacesInPass, RequestMoved
  <1> QED
    BY <1>1, <1>4, <1>6, <1>8, <1>10
    DEF Inv, OpenIsInstalled, SwapsKeepTheirWallet, NoTradeWhileLocked

\* Opening the old wallet again keeps the invariant.
LEMMA ReopenInv ==
    ASSUME Inv, NEW r \in Requests, Reopen(r)
    PROVE  Inv'
  <1>1. /\ UNCHANGED <<disk, drop, root, unlocked, trades, kept, restarts>>
        /\ pc[r] = "reopen" /\ Goto(r, "cleanup") /\ section' = Nobody /\ (Works \/ Fails)
    BY DEF Reopen, OpenFails
  <1>2. TypeOK /\ TablesTyped /\ InPlace(r) /\ pc'[r] = "cleanup" /\ section = r
    BY <1>1, Moves, PlacesInPass
  <1>3. \/ running' = running
        \/ /\ Exists(Data) /\ running' = Restrict(disk[Data], Components)
           /\ running' \in [Components -> Wallets] /\ running' # Closed
    BY OpenEffect DEF Reopen, OpenFails
  <1>4. TablesTyped'
    BY <1>1, <1>2, <1>3, FaultsTyped, UnchangedSame DEF TablesTyped
  <1>5. TypeOK'
    BY <1>1, <1>2, <1>4, PlacesInPass, RequestTyped
  <1>6. InPlace(r)'
    BY <1>1, <1>2, UnchangedSame DEF InPlace
  <1>7. Moved'
    BY <1>1, <1>2, <1>6, PlacesInPass, UnchangedSame, RequestMoved
  <1>8. OneWallet' /\ OpenIsInstalled' /\ SwapsKeepTheirWallet'
    BY <1>1, <1>3, UnchangedSame, InstalledStays
  <1> QED  BY <1>1, <1>5, <1>7, <1>8 DEF Inv, NoTradeWhileLocked

\* Removing the replaced wallet keeps the invariant.
LEMMA RemoveOldInv ==
    ASSUME Inv, NEW r \in Requests, RemoveOld(r)
    PROVE  Inv'
  <1>1. /\ UNCHANGED <<running, root, unlocked, trades, kept, restarts>>
        /\ pc[r] = "removeOld" /\ Goto(r, "cleanup") /\ section' = Nobody
        /\ RemoveAll(Replaced(r)) /\ (Works \/ Fails)
    BY DEF RemoveOld, service, RemoveAll
  <1>2. /\ TypeOK /\ TablesTyped /\ DiskTyped /\ InPlace(r) /\ section = r
        /\ pc'[r] = "cleanup" /\ drop \in [Requests -> SUBSET Places]
    BY <1>1, Moves, PlacesInPass
  <1>3. DiskTyped' /\ \A d : d # Replaced(r) => Same(d)
    BY <1>1, <1>2, PlaceNames, RemoveSame
  <1>4. /\ drop' \in [Requests -> SUBSET Places] /\ drop'[r] \subseteq drop[r]
        /\ \A q \in Requests : q # r => drop'[q] = drop[q]
    BY <1>2 DEF RemoveOld
  <1>5. Same(Data) /\ Same(Stage(r))
    BY <1>3, PlaceNames
  <1>6. TablesTyped'
    BY <1>1, <1>2, <1>3, <1>4, FaultsTyped DEF TablesTyped
  <1>7. TypeOK'
    BY <1>1, <1>2, <1>6, PlacesInPass, RequestTyped
  <1>8. InPlace(r)'
    BY <1>2, <1>4, <1>5 DEF InPlace, Same
  <1>9. Moved'
    BY <1>1, <1>3, <1>4, <1>5, <1>8, PlacesInPass, RequestMoved
  <1>10. OneWallet' /\ OpenIsInstalled' /\ SwapsKeepTheirWallet'
    BY <1>1, <1>5, InstalledStays
  <1> QED  BY <1>1, <1>7, <1>9, <1>10 DEF Inv, NoTradeWhileLocked

\* The deferred removals keep the invariant.
LEMMA CleanUpInv ==
    ASSUME Inv, NEW r \in Requests, CleanUp(r)
    PROVE  Inv'
  <1>1. UNCHANGED <<section, running, root, unlocked, trades, kept, restarts>> /\ pc[r] = "cleanup"
    BY DEF CleanUp, service
  <1>2. PICK step \in {"cleanup", "done"} : Goto(r, step)
    BY <1>1 DEF CleanUp, Goto, Inv, TypeOK
  <1>3. /\ TypeOK /\ TablesTyped /\ DiskTyped /\ InPlace(r)
        /\ pc'[r] = step /\ drop \in [Requests -> SUBSET Places]
    BY <1>2, Moves
  <1>4. /\ drop' \in [Requests -> SUBSET Places] /\ drop'[r] \subseteq drop[r]
        /\ \A q \in Requests : q # r => drop'[q] = drop[q]
    BY <1>3 DEF CleanUp
  <1>5. /\ DiskTyped' /\ faults' \in 0..MaxFaults
        /\ \A d : d \notin {Stage(r), Replaced(r)} => Same(d)
        /\ Exists(Stage(r))' => \A f \in DOMAIN disk'[Stage(r)] : disk'[Stage(r)][f] = r
    <2>1. CASE UNCHANGED disk /\ UNCHANGED faults
      BY <1>3, <2>1, UnchangedSame DEF InPlace, TypeOK
    <2>2. CASE \E d \in drop[r] : RemoveAll(d)
      <3>1. PICK d \in {Stage(r), Replaced(r)} : RemoveAll(d)
        BY <1>3, <2>2 DEF InPlace
      <3>2. faults' \in 0..MaxFaults
        BY <1>3, <3>1, FaultsTyped DEF RemoveAll
      <3>3. /\ DiskTyped' /\ (Exists(d)' => Exists(d))
            /\ Exists(d)' => \A f \in DOMAIN disk'[d] :
                                 f \in DOMAIN disk[d] /\ disk'[d][f] = disk[d][f]
            /\ \A e : e # d => Same(e)
        BY <1>3, <3>1, PlaceNames, RemoveSame
      <3>4. Exists(Stage(r))' => \A f \in DOMAIN disk'[Stage(r)] : disk'[Stage(r)][f] = r
        <4>1. CASE d = Stage(r)
          BY <1>3, <3>3, <4>1 DEF InPlace
        <4>2. CASE d # Stage(r)
          BY <1>3, <3>3, <4>2 DEF InPlace, Same
        <4> QED  BY <4>1, <4>2
      <3> QED  BY <3>2, <3>3, <3>4
    <2> QED  BY <2>1, <2>2 DEF CleanUp
  <1>6. Same(Data)
    BY <1>5, PlaceNames
  <1>7. TablesTyped'
    BY <1>1, <1>3, <1>4, <1>5 DEF TablesTyped
  <1>8. TypeOK'
    BY <1>1, <1>2, <1>7, PlacesInPass, RequestTyped
  <1>9. InPlace(r)'
    BY <1>3, <1>4, <1>5 DEF InPlace
  <1>10. Moved'
    BY <1>1, <1>2, <1>4, <1>5, <1>6, <1>9, PlacesInPass, RequestMoved
  <1>11. OneWallet' /\ OpenIsInstalled' /\ SwapsKeepTheirWallet'
    BY <1>1, <1>6, InstalledStays
  <1> QED  BY <1>1, <1>8, <1>10, <1>11 DEF Inv, NoTradeWhileLocked

-----------------------------------------------------------------------------
(* The wallet in use *)

\* A step that leaves the requests and the directories alone.
LEMMA InUse ==
    ASSUME Inv, UNCHANGED <<disk, pc, drop, section>>, section = Nobody, TablesTyped',
           running' \in {running, Closed} \/ (Exists(Data) /\ running' = Restrict(disk[Data], Components)),
           SwapsKeepTheirWallet'
    PROVE  Inv'
  <1>1. TypeOK'
    BY DEF Inv, TypeOK, TablesTyped, DiskTyped
  <1>2. ASSUME NEW q \in Requests PROVE InPlace(q)'
    <2>1. pc[q] \notin Locked
      BY LockHolder DEF Inv
    <2> QED  BY <2>1, UnchangedSame, OthersStay
  <1>3. OneWallet' /\ OpenIsInstalled'
    BY UnchangedSame DEF Inv, OneWallet, OpenIsInstalled
  <1>4. NoTradeWhileLocked'
    BY DEF NoTradeWhileLocked
  <1> QED  BY <1>1, <1>2, <1>3, <1>4 DEF Inv, Moved

\* The open journal is the installed wallet's.
LEMMA OpenWallet ==
    ASSUME Inv, running # Closed
    PROVE  \E w \in Wallets : Exists(Data) /\ disk[Data] = Whole(w) /\ running["journal"] = w
  <1>1. PICK w \in Wallets : Exists(Data) /\ disk[Data] = Whole(w)
    BY DEF Inv, OpenIsInstalled, OneWallet
  <1>2. running = [f \in Components |-> w]
    BY <1>1 DEF Inv, OpenIsInstalled, Restrict, Whole, Components
  <1>3. running["journal"] = w
    BY <1>2 DEF Components, Files
  <1> QED  BY <1>1, <1>3

\* Unlocking keeps the invariant.
LEMMA UnlockInv ==
    ASSUME Inv, Unlock
    PROVE  Inv'
  <1>1. UNCHANGED <<disk, pc, drop, section, trades, kept, restarts>> /\ section = Nobody /\ (Works \/ Fails)
    BY DEF Unlock, OpenFails
  <1>2. TypeOK /\ TablesTyped
    BY TypeParts DEF Inv
  <1>3. \/ running' = running
        \/ /\ Exists(Data) /\ running' = Restrict(disk[Data], Components)
           /\ running' \in [Components -> Wallets] /\ running' # Closed
    BY OpenEffect DEF Unlock, OpenFails
  <1>4. disk[Data]["key"] \in Wallets
    <2>1. PICK w \in Wallets : disk[Data] = Whole(w)
      BY DEF Unlock, Configured, Inv, OneWallet
    <2> QED  BY <2>1 DEF Whole, Files
  <1>5. /\ root' \in Wallets \union {Nobody}
        /\ unlocked' \subseteq {"qday", "bitcoin"} /\ (unlocked' # {} => running' # Closed)
    BY <1>2, <1>3, <1>4, OpenEffect DEF Unlock, OpenFails, TablesTyped
  <1>6. TablesTyped'
    BY <1>1, <1>2, <1>3, <1>5, FaultsTyped, UnchangedSame DEF TablesTyped
  <1>7. SwapsKeepTheirWallet'
    BY <1>1, <1>3, UnchangedSame, InstalledStays
  <1> QED  BY <1>1, <1>3, <1>6, <1>7, InUse

\* Locking keeps the invariant.
LEMMA LockInv ==
    ASSUME Inv, Lock
    PROVE  Inv'
  <1>1. /\ UNCHANGED <<disk, pc, drop, section, running, trades, kept, restarts>>
        /\ section = Nobody /\ root' = Nobody /\ unlocked' \subseteq unlocked /\ (Works \/ Fails)
    BY DEF Lock
  <1>2. TypeOK /\ TablesTyped
    BY TypeParts DEF Inv
  <1>3. TablesTyped'
    BY <1>1, <1>2, FaultsTyped, UnchangedSame DEF TablesTyped
  <1>4. SwapsKeepTheirWallet'
    BY <1>1, UnchangedSame, InstalledStays
  <1> QED  BY <1>1, <1>3, <1>4, InUse

\* A swap that begins or ends keeps the invariant.
LEMMA TradeInv ==
    ASSUME Inv, BeginTrade \/ EndTrade
    PROVE  Inv'
  <1>1. /\ UNCHANGED <<disk, pc, drop, section, running, root, unlocked, kept, faults, restarts>>
        /\ section = Nobody
    BY DEF BeginTrade, EndTrade, service
  <1>2. TypeOK /\ TablesTyped
    BY TypeParts DEF Inv
  <1>3. running # Closed
    <2>1. CASE BeginTrade
      BY <1>2, <2>1 DEF BeginTrade, TablesTyped
    <2>2. CASE EndTrade
      BY <2>2 DEF EndTrade, Trading
    <2> QED  BY <2>1, <2>2
  <1>4. PICK w \in Wallets : Exists(Data) /\ disk[Data] = Whole(w) /\ running["journal"] = w
    BY <1>3, OpenWallet
  <1>5. trades' \subseteq trades \union {w} /\ trades' \subseteq Wallets
    BY <1>2, <1>4 DEF BeginTrade, EndTrade, TablesTyped
  <1>6. TablesTyped'
    BY <1>1, <1>2, <1>5, UnchangedSame DEF TablesTyped
  <1>7. SwapsKeepTheirWallet'
    BY <1>1, <1>4, <1>5, UnchangedSame DEF Inv, SwapsKeepTheirWallet
  <1> QED  BY <1>1, <1>6, <1>7, InUse

\* A stop of the application keeps the invariant.
LEMMA RestartInv ==
    ASSUME Inv, Restart
    PROVE  Inv'
  <1>1. TypeOK /\ TablesTyped
    BY TypeParts DEF Inv
  <1>2. /\ UNCHANGED <<disk, trades, kept, faults>> /\ restarts' \in 0..MaxRestarts
        /\ section' = Nobody /\ root' = Nobody /\ unlocked' = {}
    BY <1>1, FilesAssumption DEF Restart, TablesTyped
  <1>3. /\ pc' \in [Requests -> Steps] /\ drop' \in [Requests -> SUBSET Places]
        /\ \A q \in Requests : pc'[q] \in {"idle", "done", "stopped"} /\ drop'[q] = {}
    BY PlacesInPass DEF Restart
  <1>4. running' = Closed \/ /\ Exists(Data) /\ running' = Restrict(disk[Data], Components)
                             /\ running' \in [Components -> Wallets]
    <2>1. CASE Configured
      <3>1. PICK w \in Wallets : disk[Data] = Whole(w)
        BY <2>1 DEF Configured, Inv, OneWallet
      <3>2. Restrict(disk[Data], Components) = [f \in Components |-> w]
        BY <3>1 DEF Restrict, Whole, Components
      <3> QED  BY <2>1, <3>2 DEF Restart, Configured
    <2>2. CASE ~Configured
      BY <2>2 DEF Restart
    <2> QED  BY <2>1, <2>2
  <1>5. TablesTyped'
    BY <1>1, <1>2, <1>3, <1>4, UnchangedSame DEF TablesTyped
  <1>6. TypeOK'
    BY <1>2, <1>3, <1>5, PlacesInPass, FilesAssumption DEF TypeOK, TablesTyped, DiskTyped
  <1>7. ASSUME NEW q \in Requests PROVE InPlace(q)'
    <2>1. Exists(Stage(q))' => \A f \in DOMAIN disk'[Stage(q)] : disk'[Stage(q)][f] = q
      BY <1>2, UnchangedSame DEF Inv, Moved, InPlace
    <2> QED  BY <1>3, <2>1, Unlocking
  <1>8. OneWallet' /\ OpenIsInstalled' /\ SwapsKeepTheirWallet'
    BY <1>2, <1>4, UnchangedSame, InstalledStays
  <1> QED  BY <1>2, <1>6, <1>7, <1>8 DEF Inv, Moved, NoTradeWhileLocked

-----------------------------------------------------------------------------
(* The invariant and what follows from it *)

\* The invariant holds on an empty installation.
LEMMA InitInv ==
    ASSUME Init
    PROVE  Inv
  <1>1. DiskTyped
    <2>1. disk \in [{} -> Directories]
      BY DEF Init
    <2> QED  BY <2>1 DEF DiskTyped
  <1>2. \A d : ~Exists(d)
    BY DEF Init, Exists
  <1>3. TypeOK
    BY <1>1, PlacesInPass, FilesAssumption DEF Init, TypeOK, DiskTyped, Wallets
  <1>4. Moved
    BY <1>2 DEF Init, Moved, InPlace
  <1> QED
    BY <1>2, <1>3, <1>4
    DEF Init, Inv, OneWallet, OpenIsInstalled, SwapsKeepTheirWallet, NoTradeWhileLocked

\* Every step keeps the invariant.
LEMMA NextInv ==
    ASSUME Inv, [Next]_vars
    PROVE  Inv'
  <1>1. CASE UNCHANGED vars
    BY <1>1
    DEF vars, service, Inv, TypeOK, OneWallet, Moved, InPlace, Holds, IsWhole, Exists,
        OpenIsInstalled, SwapsKeepTheirWallet, NoTradeWhileLocked
  <1>2. CASE \E r \in Requests : Setup(r)
    BY <1>2, BeginStagingInv, CommitSetupInv, OpenSetupInv DEF Setup, StartSetup
  <1>3. CASE \E r \in Requests : ImportRecovery(r)
    BY <1>3, BeginStagingInv, LockAndCheckInv, CloseWalletsInv, MoveOldInv, MoveNewInv,
       VerifyInv, RollBackNewInv, RollBackOldInv, ReopenInv, RemoveOldInv
    DEF ImportRecovery, StartImport
  <1>4. CASE \E r \in Requests : StageFile(r) \/ CleanUp(r)
    BY <1>4, StageFileInv, CleanUpInv
  <1>5. CASE Unlock \/ Lock \/ BeginTrade \/ EndTrade \/ Restart
    BY <1>5, UnlockInv, LockInv, TradeInv, RestartInv
  <1> QED  BY <1>1, <1>2, <1>3, <1>4, <1>5 DEF Next

\* The invariant holds throughout.
LEMMA Invariance == Spec => []Inv
  BY InitInv, NextInv, PTL DEF Spec

\* The variables have their types and the locks are held by a request in the
\* locked part of an import, in every history of setups and imports.
THEOREM Typing == Spec => []TypeOK
<1>1. Inv => TypeOK
  BY DEF Inv
<1> QED  BY <1>1, Invariance, PTL

\* Wherever the renames of ImportRecovery and its rollback stop, and whatever
\* they overlap with, the installed directory is one whole wallet.
THEOREM InstalledIsWhole == Spec => []OneWallet
<1>1. Inv => OneWallet
  BY DEF Inv
<1> QED  BY <1>1, Invariance, PTL

\* A wallet with an unfinished swap stays installed: swaps begin only under a
\* lock an import has taken before it looked for them.
THEOREM TradesKeepWallet == Spec => []SwapsKeepTheirWallet
<1>1. Inv => SwapsKeepTheirWallet
  BY DEF Inv
<1> QED  BY <1>1, Invariance, PTL

-----------------------------------------------------------------------------
(* The wallet that runs, when no setup overlaps an import *)

Moving == {"moveOld", "moveNew", "verify", "rollback", "restore", "reopen"}

SetupAlone ==
    \A r, q \in Requests : pc[r] \in Locked \union {"import"} => pc[q] \notin {"setup", "open"}

\* A setup opens what it installed; the phrase in memory is the installed one
\* and there is none while an import moves directories.
Alone ==
    /\ SetupAlone
    /\ \A r \in Requests : pc[r] = "open" => Holds(Data, r)
    /\ root # Nobody => Exists(Data) /\ disk[Data]["key"] = root
    /\ \A r \in Requests : pc[r] \in Moving => root = Nobody

\* The locked places where a directory may be moved, and all of them together.
LEMMA MovingSteps ==
    /\ Moving = Locked \ {"close", "removeOld"}
    /\ Locked \union Moving \union {"import", "setup", "open", "cleanup", "done"} \subseteq Steps
  BY DEF Moving, Locked, Steps

\* A request that goes on with its setup or its import.
LEMMA StaysAlone ==
    ASSUME TypeOK, SetupAlone, NEW r \in Requests, NEW step \in Steps, Goto(r, step),
           step \in Locked \union {"import"} => pc[r] \in Locked \union {"import"},
           step \in {"setup", "open"} => pc[r] \in {"setup", "open"}
    PROVE  SetupAlone'
  <1>1. pc'[r] = step /\ \A q \in Requests : q # r => pc'[q] = pc[q]
    BY DEF Goto, TypeOK
  <1> QED  BY <1>1, MovingSteps DEF SetupAlone, Locked

\* A request that takes no phrase into memory and moves the installed
\* directory only while there is none.
LEMMA StepAlone ==
    ASSUME TypeOK, Alone, NEW r \in Requests, NEW step \in Steps, Goto(r, step), SetupAlone',
           step # "open", step \in Moving => root' = Nobody, root' \in {root, Nobody},
           Same(Data) \/ pc[r] \in Moving
    PROVE  Alone'
  <1>1. pc'[r] = step /\ \A q \in Requests : q # r => pc'[q] = pc[q]
    BY DEF Goto, TypeOK
  <1>2. pc[r] \in Moving => root = Nobody /\ \A q \in Requests : pc[q] # "open"
    BY MovingSteps DEF Alone, SetupAlone
  <1>3. ASSUME NEW q \in Requests, pc'[q] = "open" PROVE Holds(Data, q)'
    <2>1. q # r /\ Holds(Data, q) /\ Same(Data)
      BY <1>1, <1>2, <1>3 DEF Alone
    <2> QED  BY <2>1 DEF Holds, Same, Exists
  <1>4. root' # Nobody => Exists(Data)' /\ disk'[Data]["key"] = root'
    BY <1>2 DEF Alone, Same
  <1>5. ASSUME NEW q \in Requests, pc'[q] \in Moving PROVE root' = Nobody
    BY <1>1, <1>5 DEF Alone
  <1> QED  BY <1>3, <1>4, <1>5 DEF Alone

\* Setups, staging and clean-up keep the running wallet the installed one.
LEMMA SetupAloneStep ==
    ASSUME Inv, Alone, ~Overlap, NEW r \in Requests,
           Setup(r) \/ StartImport(r) \/ StageFile(r) \/ CleanUp(r)
    PROVE  Alone'
  <1>1. TypeOK /\ SetupAlone /\ pc \in [Requests -> Steps] /\ DiskTyped
    BY DEF Inv, Alone, TypeOK, DiskTyped
  <1>2. ASSUME NEW step \in {"setup", "import"}, BeginStaging(r, step),
               step = "setup" => ~Importing, step = "import" => ~SettingUp
        PROVE  Alone'
    <2>1. pc'[r] = step /\ \A q \in Requests : q # r => pc'[q] = pc[q]
      BY <1>1, <1>2 DEF BeginStaging, Goto
    <2>2. SetupAlone'
      BY <1>1, <1>2, <2>1, PlacesInPass DEF SetupAlone, Importing, SettingUp, InProgress
    <2>3. Same(Data)
      BY <1>2, PlaceNames DEF BeginStaging, With, Same, Exists
    <2>4. Goto(r, step) /\ root' = root /\ step \in Steps /\ step # "open" /\ step \notin Moving
      BY <1>2, PlacesInPass DEF BeginStaging, service, Moving
    <2> QED  BY <1>1, <2>2, <2>3, <2>4, StepAlone
  <1>3. CASE StartSetup(r) \/ StartImport(r)
    BY <1>2, <1>3 DEF StartSetup, StartImport
  <1>4. CASE StageFile(r)
    <2>1. PICK step \in {"setup", "import", "cleanup"} :
              Goto(r, step) /\ (step # "cleanup" => pc[r] = step)
      <3>1. pc[r] \in {"setup", "import"} /\ (UNCHANGED pc \/ Goto(r, "cleanup"))
        BY <1>4 DEF StageFile
      <3>2. UNCHANGED pc => Goto(r, pc[r])
        BY <1>1 DEF Goto
      <3> QED  BY <3>1, <3>2
    <2>2. SetupAlone'
      BY <1>1, <2>1, PlacesInPass, StaysAlone
    <2>3. Same(Data)
      <3>1. PICK f \in Files : disk' \in {disk, [disk EXCEPT ![Stage(r)] = With(@, f, r)]}
        BY <1>4 DEF StageFile
      <3> QED  BY <1>1, <3>1, DiskForm, PlaceNames DEF Same, Exists
    <2>4. root' = root
      BY <1>4 DEF StageFile, service
    <2> QED  BY <1>1, <2>1, <2>2, <2>3, <2>4, PlacesInPass, StepAlone DEF Moving
  <1>5. CASE CleanUp(r)
    <2>1. PICK step \in {"cleanup", "done"} : Goto(r, step)
      BY <1>1, <1>5 DEF CleanUp, Goto
    <2>2. SetupAlone'
      BY <1>1, <2>1, PlacesInPass, StaysAlone
    <2>3. Same(Data)
      <3>1. CASE UNCHANGED disk
        BY <3>1, UnchangedSame
      <3>2. CASE \E d \in drop[r] : RemoveAll(d)
        <4>1. PICK d \in {Stage(r), Replaced(r)} : RemoveAll(d)
          BY <3>2 DEF Inv, Moved, InPlace
        <4> QED  BY <1>1, <4>1, PlaceNames, RemoveSame
      <3> QED  BY <1>5, <3>1, <3>2 DEF CleanUp
    <2>4. root' = root
      BY <1>5 DEF CleanUp, service
    <2> QED  BY <1>1, <2>1, <2>2, <2>3, <2>4, PlacesInPass, StepAlone DEF Moving
  <1>6. CASE CommitSetup(r)
    <2>1. root' = root /\ pc[r] = "setup"
      BY <1>6 DEF CommitSetup, service
    <2>2. CASE ~Exists(Data) /\ disk' = Renamed(Stage(r), Data) /\ Goto(r, "open")
      <3>1. SetupAlone'
        BY <1>1, <2>1, <2>2, PlacesInPass, StaysAlone
      <3>2. pc'[r] = "open" /\ \A q \in Requests : q # r => pc'[q] = pc[q]
        BY <1>1, <2>2 DEF Goto
      <3>3. Holds(Data, r)'
        <4>1. Holds(Stage(r), r)
          BY <1>6, StagedWhole DEF CommitSetup
        <4> QED  BY <1>1, <2>2, <4>1, RenameSame, PlaceNames DEF Holds, Exists
      <3>4. root = Nobody /\ \A q \in Requests : pc[q] # "open"
        BY <2>2 DEF Alone, Holds
      <3> QED  BY <2>1, <3>1, <3>2, <3>3, <3>4 DEF Alone
    <2>3. CASE Goto(r, "cleanup") /\ UNCHANGED disk
      <3>1. SetupAlone'
        BY <1>1, <2>3, PlacesInPass, StaysAlone
      <3> QED  BY <1>1, <2>1, <2>3, <3>1, UnchangedSame, PlacesInPass, StepAlone DEF Moving
    <2> QED  BY <1>6, <2>2, <2>3 DEF CommitSetup
  <1>7. CASE OpenSetup(r)
    <2>1. UNCHANGED disk /\ pc[r] = "open" /\ root' = r /\ Goto(r, "done")
      BY <1>7 DEF OpenSetup
    <2>2. pc'[r] = "done" /\ \A q \in Requests : q # r => pc'[q] = pc[q]
      BY <1>1, <2>1 DEF Goto
    <2>3. SetupAlone'
      BY <1>1, <2>1, PlacesInPass, StaysAlone
    <2>4. disk[Data]["key"] = r /\ Exists(Data)
      BY <2>1 DEF Alone, Holds, Whole, Files
    <2>5. \A q \in Requests : pc[q] \notin Moving
      BY <2>1, MovingSteps DEF Alone, SetupAlone
    <2> QED
      BY <2>1, <2>2, <2>3, <2>4, <2>5, UnchangedSame DEF Alone, Moving, Holds, Exists
  <1> QED  BY <1>3, <1>4, <1>5, <1>6, <1>7 DEF Setup

\* The rest of an import keeps the running wallet the installed one.
LEMMA ImportAloneStep ==
    ASSUME Inv, Alone, NEW r \in Requests, ImportRecovery(r), ~StartImport(r)
    PROVE  Alone'
  <1>1. TypeOK /\ SetupAlone /\ pc \in [Requests -> Steps] /\ DiskTyped
    BY DEF Inv, Alone, TypeOK, DiskTyped
  <1>2. pc[r] \in Locked \union {"import"}
    BY PlacesInPass
    DEF ImportRecovery, LockAndCheck, CloseWallets, MoveOld, MoveNew, Verify, RollBackNew,
        RollBackOld, Reopen, RemoveOld
  <1>3. PICK step \in Locked \union {"cleanup"} : Goto(r, step)
    BY PlacesInPass
    DEF ImportRecovery, LockAndCheck, CloseWallets, MoveOld, MoveNew, Verify, RollBackNew,
        RollBackOld, Reopen, RemoveOld
  <1>4. SetupAlone'
    BY <1>1, <1>2, <1>3, PlacesInPass, StaysAlone
  <1>5. pc'[r] = step
    BY <1>1, <1>3 DEF Goto
  <1>6. CASE LockAndCheck(r)
    <2>1. UNCHANGED disk /\ root' = root /\ step \notin Moving
      BY <1>1, <1>5, <1>6 DEF LockAndCheck, service, Goto, Moving
    <2> QED  BY <1>1, <1>3, <1>4, <2>1, UnchangedSame, PlacesInPass, StepAlone
  <1>7. CASE CloseWallets(r)
    <2>1. UNCHANGED disk /\ root' = Nobody
      BY <1>7 DEF CloseWallets, CloseComponents
    <2> QED  BY <1>1, <1>3, <1>4, <2>1, UnchangedSame, PlacesInPass, StepAlone
  <1>8. CASE MoveOld(r) \/ MoveNew(r) \/ RollBackOld(r) \/ Reopen(r) \/ RollBackNew(r)
    <2>1. pc[r] \in Moving /\ root' \in {root, Nobody}
      BY <1>8
      DEF MoveOld, MoveNew, RollBackOld, Reopen, RollBackNew, service, CloseComponents, Moving
    <2>2. root' = Nobody
      BY <2>1 DEF Alone
    <2> QED  BY <1>1, <1>3, <1>4, <2>1, <2>2, PlacesInPass, StepAlone
  <1>9. CASE RemoveOld(r)
    <2>1. RemoveAll(Replaced(r)) /\ root' = root /\ Goto(r, "cleanup")
      BY <1>9 DEF RemoveOld, service
    <2>2. Same(Data)
      BY <1>1, <2>1, PlaceNames, RemoveSame
    <2> QED  BY <1>1, <1>4, <2>1, <2>2, PlacesInPass, StepAlone DEF Moving
  <1>10. CASE Verify(r)
    <2>1. UNCHANGED disk /\ pc[r] = "verify" /\ root' \in {root, r}
      BY <1>10 DEF Verify
    <2>2. root' = r => step = "removeOld"
      BY <1>1, <1>5, <1>10, <2>1, FilesAssumption, MovingSteps DEF Verify, Goto, Alone, Moving
    <2>3. Exists(Data) /\ disk[Data]["key"] = r /\ root = Nobody
      <3>1. Holds(Data, r)
        BY <2>1 DEF Inv, Moved, InPlace
      <3>2. root = Nobody
        BY <2>1 DEF Alone, Moving
      <3> QED  BY <3>1, <3>2 DEF Holds, Whole, Files
    <2>4. CASE root' = r
      <3>1. \A q \in Requests : q # r => pc'[q] = pc[q] /\ pc[q] \notin Moving
        BY <1>1, <1>3, <2>1, MovingSteps, PlacesInPass, LockHolder DEF Goto
      <3>2. \A q \in Requests : pc[q] # "open"
        BY <1>1, <1>2 DEF SetupAlone
      <3>3. pc'[r] = "removeOld"
        BY <1>5, <2>2, <2>4
      <3> QED  BY <1>4, <2>1, <2>3, <2>4, <3>1, <3>2, <3>3 DEF Alone, Moving, Exists
    <2>5. CASE root' = root
      BY <1>1, <1>3, <1>4, <2>1, <2>3, <2>5, UnchangedSame, PlacesInPass, StepAlone
    <2> QED  BY <2>1, <2>4, <2>5
  <1> QED  BY <1>6, <1>7, <1>8, <1>9, <1>10 DEF ImportRecovery

\* Use of the wallet keeps the running wallet the installed one.
LEMMA InUseAlone ==
    ASSUME Inv, Alone, Unlock \/ Lock \/ BeginTrade \/ EndTrade
    PROVE  Alone'
  <1>1. UNCHANGED <<disk, pc>> /\ section = Nobody
    BY DEF Unlock, Lock, BeginTrade, EndTrade
  <1>2. root' \in {root, Nobody} \/ (Exists(Data) /\ root' = disk[Data]["key"])
    BY DEF Unlock, Lock, BeginTrade, EndTrade, service, Configured
  <1>3. \A r \in Requests : pc[r] \notin Moving
    BY <1>1, LockHolder, MovingSteps DEF Inv
  <1> QED  BY <1>1, <1>2, <1>3 DEF Alone, SetupAlone, Holds, Exists

\* Without overlap every step keeps the running wallet the installed one.
LEMMA NextAlone ==
    ASSUME Inv, Alone, ~Overlap, [Next]_vars
    PROVE  Alone'
  <1>1. CASE UNCHANGED vars
    BY <1>1 DEF vars, service, Alone, SetupAlone, Holds, Exists
  <1>2. CASE \E r \in Requests : Setup(r) \/ ImportRecovery(r) \/ StageFile(r) \/ CleanUp(r)
    BY <1>2, SetupAloneStep, ImportAloneStep
  <1>3. CASE Unlock \/ Lock \/ BeginTrade \/ EndTrade
    BY <1>3, InUseAlone
  <1>4. CASE Restart
    <2>1. root' = Nobody /\ \A r \in Requests : pc'[r] \in {"idle", "done", "stopped"}
      BY <1>4 DEF Restart
    <2> QED  BY <2>1, PlacesInPass DEF Alone, SetupAlone, Moving
  <1> QED  BY <1>1, <1>2, <1>3, <1>4 DEF Next

\* While no setup overlaps an import, what runs is what is installed: both open
\* wallets, the journal and the recovery phrase in memory are the installed
\* directory's, through every import, rollback, failing call and restart.
THEOREM RunsInstalled ==
    ASSUME ~Overlap
    PROVE  Spec => []RunsWhatIsInstalled
<1>1. Init => Inv /\ Alone
  BY InitInv DEF Init, Alone, SetupAlone, Moving, Locked
<1>2. Inv /\ Alone /\ [Next]_vars => (Inv /\ Alone)'
  BY NextInv, NextAlone
<1>3. Inv /\ Alone => RunsWhatIsInstalled
  BY DEF Inv, Alone, OpenIsInstalled, RunsWhatIsInstalled
<1> QED  BY <1>1, <1>2, <1>3, PTL DEF Spec

-----------------------------------------------------------------------------
(* What is removed, and what is left, when no setup overlaps an import *)

\* The places of a request that has moved nothing, and of one whose backup is
\* still needed.
Before == {"idle", "setup", "open", "import", "close", "moveOld"}
Deciding == {"moveNew", "verify", "rollback", "restore"}

\* The directories of a request that was not stopped: which exist, which it
\* will still remove, and how many calls failed if it has given one up.
Tidy(r) ==
    /\ pc[r] = "idle" => ~Exists(Stage(r)) /\ drop[r] = {}
    /\ pc[r] \in Before => ~Exists(Replaced(r))
    /\ pc[r] \in Before \union {"reopen"} => Replaced(r) \notin drop[r]
    /\ pc[r] \in Deciding \union {"removeOld"} => Replaced(r) \in drop[r]
    /\ pc[r] \in {"open", "done"} => drop[r] = {}
    /\ pc[r] \in {"moveNew", "restore"} => ~Exists(Data)
    /\ pc[r] \in {"rollback", "restore"} => faults > 0
    /\ pc[r] = "cleanup" /\ Replaced(r) \in drop[r] /\ Exists(Replaced(r)) => faults > 0
    /\ pc[r] # "stopped" =>
          /\ Exists(Replaced(r)) => Replaced(r) \in drop[r] \/ faults > 1
          /\ Exists(Stage(r)) => Stage(r) \in drop[r] \/ faults > 0
    /\ r \in kept => pc[r] \notin (Before \union Deciding \union {"reopen"}) \ {"open"}

\* The wallet w is whole in the directory d, which no request removes, unless
\* it first moves it back or opens the wallet that replaces it.
Keeps(d, w) ==
    /\ Holds(d, w)
    /\ \A q \in Requests : d \in drop[q] => d = Replaced(q) /\ pc[q] \in Deciding

TidyInv == \A r \in Requests : Tidy(r)
SafeInv == faults <= 1 => \A w \in kept : \E d \in Places : Keeps(d, w)

\* A step of r leaves what belongs to the other requests alone.
OwnStep(r) ==
    /\ \A q \in Requests : q # r =>
          /\ pc'[q] = pc[q] /\ drop'[q] = drop[q]
          /\ Same(Stage(q)) /\ Same(Replaced(q))
          /\ q \in kept' => q \in kept
    /\ faults \in Nat /\ faults' \in Nat /\ faults' >= faults
    /\ Same(Data) \/ \A q \in Requests : q # r => pc[q] \notin {"moveNew", "restore"}

\* The directories of the other requests stay tidy.
LEMMA OthersTidy ==
    ASSUME TidyInv, NEW r \in Requests, OwnStep(r), Tidy(r)'
    PROVE  TidyInv'
  <1> SUFFICES ASSUME NEW q \in Requests, q # r PROVE Tidy(q)'
    BY DEF TidyInv
  <1>1. /\ pc'[q] = pc[q] /\ drop'[q] = drop[q]
        /\ Exists(Stage(q))' <=> Exists(Stage(q))
        /\ Exists(Replaced(q))' <=> Exists(Replaced(q))
        /\ q \in kept' => q \in kept
    BY DEF OwnStep, Same
  <1>2. /\ faults > 0 => faults' > 0
        /\ faults > 1 => faults' > 1
    BY DEF OwnStep
  <1>3. pc[q] \in {"moveNew", "restore"} => (Exists(Data)' => Exists(Data))
    BY DEF OwnStep, Same
  <1>4. Tidy(q)
    BY DEF TidyInv
  <1> QED  BY <1>1, <1>2, <1>3, <1>4 DEF Tidy

\* A directory that stays, and that r does not begin to remove, keeps its wallet.
LEMMA KeepsStays ==
    ASSUME NEW r \in Requests, OwnStep(r), NEW d, NEW w, Keeps(d, w), Same(d),
           d \in drop'[r] => d = Replaced(r) /\ pc'[r] \in Deciding
    PROVE  Keeps(d, w)'
  <1>1. Holds(d, w)'
    BY DEF Keeps, Holds, Same, Exists
  <1> QED  BY <1>1 DEF Keeps, OwnStep

\* The staged directory of a request keeps no wallet but the request's own.
LEMMA StagedKeeps ==
    ASSUME Inv, NEW r \in Requests, NEW w \in Wallets, Keeps(Stage(r), w)
    PROVE  w = r
  <1>1. disk[Stage(r)] = Whole(w) /\ \A f \in DOMAIN disk[Stage(r)] : disk[Stage(r)][f] = r
    BY DEF Inv, Moved, InPlace, Keeps, Holds
  <1> QED  BY <1>1 DEF Whole, Files

\* A step of r for which every wallet in use finds a directory that keeps it.
LEMMA StepSafe ==
    ASSUME Inv, SafeInv, TidyInv, NEW r \in Requests, OwnStep(r),
           ASSUME NEW w \in kept \intersect kept', NEW d \in Places, faults' <= 1, Keeps(d, w)
           PROVE  \E e \in Places : Keeps(e, w)',
           ASSUME NEW w \in kept' \ kept, faults' <= 1
           PROVE  \E e \in Places : Keeps(e, w)'
    PROVE  SafeInv'
  <1> SUFFICES ASSUME faults' <= 1, NEW w \in kept' PROVE \E e \in Places : Keeps(e, w)'
    BY DEF SafeInv
  <1>1. faults <= 1
    BY DEF OwnStep
  <1>2. CASE w \in kept
    <2>1. PICK d \in Places : Keeps(d, w)
      BY <1>1, <1>2 DEF SafeInv
    <2> QED  BY <1>2, <2>1
  <1> QED  BY <1>2

\* A step of r that moves and removes nothing.
LEMMA QuietSafe ==
    ASSUME Inv, SafeInv, TidyInv, NEW r \in Requests, OwnStep(r), UNCHANGED disk, kept' \subseteq kept,
           drop'[r] = drop[r], pc[r] \in Deciding => pc'[r] \in Deciding \/ faults' > 1
    PROVE  SafeInv'
  <1>1. ASSUME NEW w \in kept \intersect kept', NEW d \in Places, faults' <= 1, Keeps(d, w)
        PROVE  \E e \in Places : Keeps(e, w)'
    <2>1. Same(d)
      BY UnchangedSame
    <2>2. d \in drop'[r] => d = Replaced(r) /\ pc[r] \in Deciding
      BY <1>1 DEF Keeps
    <2>3. ~(faults' > 1)
      BY <1>1 DEF OwnStep
    <2> QED  BY <1>1, <2>1, <2>2, <2>3, KeepsStays
  <1> QED  BY <1>1, StepSafe

\* Who takes a step, and what it may count.
LEMMA OwnFacts ==
    ASSUME Inv, NEW r \in Requests, NEW step \in Steps, Goto(r, step)
    PROVE  /\ pc'[r] = step /\ \A q \in Requests : q # r => pc'[q] = pc[q]
           /\ pc \in [Requests -> Steps] /\ drop \in [Requests -> SUBSET Places]
           /\ faults \in Nat /\ drop[r] \subseteq {Stage(r), Replaced(r)}
           /\ Works => faults' \in Nat /\ faults' >= faults
           /\ Fails => faults' \in Nat /\ faults' = faults + 1
  BY FilesAssumption DEF Inv, TypeOK, Goto, Works, Fails, Moved, InPlace

\* Beginning to stage removes nothing.
LEMMA BeginStagingKept ==
    ASSUME Inv, TidyInv, SafeInv, NEW r \in Requests, NEW step \in {"setup", "import"},
           BeginStaging(r, step)
    PROVE  TidyInv' /\ SafeInv'
  <1>1. /\ Goto(r, step) /\ step \in Steps /\ pc[r] = "idle" /\ UNCHANGED <<kept, faults>>
        /\ drop' = [drop EXCEPT ![r] = {Stage(r)}]
    BY PlacesInPass DEF BeginStaging
  <1>2. /\ pc'[r] = step /\ \A q \in Requests : q # r => pc'[q] = pc[q]
        /\ drop'[r] = {Stage(r)} /\ \A q \in Requests : q # r => drop'[q] = drop[q]
        /\ faults \in Nat /\ faults' = faults
    BY <1>1, OwnFacts
  <1>3. \A d : d # Stage(r) => Same(d)
    BY DEF BeginStaging, With, Same, Exists
  <1>4. Same(Data) /\ Same(Replaced(r)) /\ \A q \in Requests : q # r => Same(Stage(q)) /\ Same(Replaced(q))
    BY <1>3, PlaceNames
  <1>5. OwnStep(r)
    BY <1>1, <1>2, <1>4 DEF OwnStep
  <1>6. Tidy(r)'
    BY <1>1, <1>2, <1>4, PlaceNames DEF TidyInv, Tidy, Before, Deciding, Same
  <1>7. ASSUME NEW w \in kept \intersect kept', NEW d \in Places, faults' <= 1, Keeps(d, w)
        PROVE  \E e \in Places : Keeps(e, w)'
    <2>1. d # Stage(r)
      BY <1>1, <1>7 DEF Keeps, Holds, TidyInv, Tidy
    <2> QED  BY <1>2, <1>3, <1>5, <1>7, <2>1, KeepsStays
  <1> QED  BY <1>1, <1>5, <1>6, <1>7, OthersTidy, StepSafe

\* Staging a file changes no directory but the request's own.
LEMMA StageFileKept ==
    ASSUME Inv, TidyInv, SafeInv, NEW r \in Requests, StageFile(r)
    PROVE  TidyInv' /\ SafeInv'
  <1>1. /\ pc[r] \in {"setup", "import"} /\ UNCHANGED <<drop, kept>>
        /\ \/ Works /\ UNCHANGED pc
           \/ Fails /\ Goto(r, "cleanup")
    BY DEF StageFile
  <1>2. PICK step \in {pc[r], "cleanup"} : Goto(r, step) /\ step \in Steps
    BY <1>1, PlacesInPass DEF Goto, Inv, TypeOK
  <1>3. /\ pc'[r] = step /\ \A q \in Requests : q # r => pc'[q] = pc[q]
        /\ faults \in Nat /\ faults' \in Nat /\ faults' >= faults
    BY <1>1, <1>2, OwnFacts
  <1>4. (\A d : d # Stage(r) => Same(d)) /\ (Exists(Stage(r))' => Exists(Stage(r)))
    <2>1. PICK f \in Files : disk' \in {disk, [disk EXCEPT ![Stage(r)] = With(@, f, r)]}
      BY DEF StageFile
    <2>2. DiskTyped
      BY DEF Inv, TypeOK, DiskTyped
    <2> QED  BY <2>1, <2>2, DiskForm DEF Same, Exists
  <1>5. Same(Data) /\ Same(Replaced(r)) /\ \A q \in Requests : q # r => Same(Stage(q)) /\ Same(Replaced(q))
    BY <1>4, PlaceNames
  <1>6. OwnStep(r)
    BY <1>1, <1>3, <1>5 DEF OwnStep
  <1>7. Tidy(r)'
    <2>1. /\ faults > 0 => faults' > 0
          /\ faults > 1 => faults' > 1
      BY <1>3
    <2> QED  BY <1>1, <1>2, <1>3, <1>4, <1>5, <2>1 DEF TidyInv, Tidy, Before, Deciding, Same
  <1>8. ASSUME NEW w \in kept \intersect kept', NEW d \in Places, faults' <= 1, Keeps(d, w)
        PROVE  \E e \in Places : Keeps(e, w)'
    <2>1. r \notin kept /\ w \in Wallets
      BY <1>1 DEF TidyInv, Tidy, Before, Deciding, Inv, TypeOK
    <2>2. d # Stage(r)
      BY <1>8, <2>1, StagedKeeps
    <2>3. d \notin drop[r]
      BY <1>1, <1>8 DEF Keeps, Deciding
    <2> QED  BY <1>1, <1>4, <1>6, <1>8, <2>2, <2>3, KeepsStays
  <1> QED  BY <1>1, <1>6, <1>7, <1>8, OthersTidy, StepSafe

\* The rename that installs a setup puts a wallet in use.
LEMMA CommitSetupKept ==
    ASSUME Inv, Inv', SetupAlone, TidyInv, SafeInv, NEW r \in Requests, CommitSetup(r)
    PROVE  TidyInv' /\ SafeInv'
  <1>1. pc[r] = "setup" /\ Staged(r) /\ DiskTyped /\ r \notin kept
    BY DEF CommitSetup, Inv, TypeOK, DiskTyped, TidyInv, Tidy, Before, Deciding
  <1>2. \A q \in Requests : pc[q] \notin {"moveNew", "restore"}
    BY <1>1, PlacesInPass DEF SetupAlone
  <1>3. CASE /\ ~Exists(Data) /\ Works /\ disk' = Renamed(Stage(r), Data)
             /\ drop' = [drop EXCEPT ![r] = {}] /\ kept' = kept \union {r} /\ Goto(r, "open")
    <2>1. /\ pc'[r] = "open" /\ \A q \in Requests : q # r => pc'[q] = pc[q]
          /\ drop'[r] = {} /\ \A q \in Requests : q # r => drop'[q] = drop[q]
          /\ faults \in Nat /\ faults' \in Nat /\ faults' = faults
      BY <1>3, PlacesInPass, OwnFacts DEF Works
    <2>2. /\ Exists(Data)' /\ ~Exists(Stage(r))' /\ disk'[Data] = disk[Stage(r)]
          /\ \A d : d \notin {Stage(r), Data} => Same(d)
      BY <1>1, <1>3, RenameSame, PlaceNames DEF Staged, Exists
    <2>3. Same(Replaced(r)) /\ \A q \in Requests : q # r => Same(Stage(q)) /\ Same(Replaced(q))
      BY <2>2, PlaceNames
    <2>4. OwnStep(r)
      BY <1>2, <1>3, <2>1, <2>3 DEF OwnStep
    <2>5. Tidy(r)'
      BY <1>1, <2>1, <2>2, <2>3 DEF TidyInv, Tidy, Before, Deciding, Same
    <2>6. ASSUME NEW w \in kept \intersect kept', NEW d \in Places, faults' <= 1, Keeps(d, w)
          PROVE  \E e \in Places : Keeps(e, w)'
      <3>1. d # Stage(r) /\ d # Data
        BY <1>1, <1>3, <2>6, StagedKeeps DEF Inv, TypeOK, Keeps, Holds
      <3> QED  BY <2>1, <2>2, <2>4, <2>6, <3>1, KeepsStays
    <2>7. Keeps(Data, r)'
      <3>1. Holds(Data, r)'
        BY <1>1, <2>2, StagedWhole DEF Holds
      <3>2. \A q \in Requests : Data \notin drop'[q]
        BY PlaceNames DEF Inv, Moved, InPlace
      <3> QED  BY <3>1, <3>2 DEF Keeps
    <2>8. ASSUME NEW w \in kept' \ kept, faults' <= 1
          PROVE  \E e \in Places : Keeps(e, w)'
      BY <1>3, <2>7, PlaceNames
    <2> QED  BY <2>4, <2>5, <2>6, <2>8, OthersTidy, StepSafe
  <1>4. CASE (Works \/ Fails) /\ Goto(r, "cleanup") /\ UNCHANGED <<disk, drop, kept>>
    <2>1. /\ pc'[r] = "cleanup" /\ \A q \in Requests : q # r => pc'[q] = pc[q]
          /\ faults \in Nat /\ faults' \in Nat /\ faults' >= faults
      BY <1>4, PlacesInPass, OwnFacts
    <2>2. OwnStep(r)
      BY <1>4, <2>1, UnchangedSame DEF OwnStep
    <2>3. faults > 0 => faults' > 0
      BY <2>1
    <2>4. Tidy(r)'
      BY <1>1, <1>4, <2>1, <2>3, UnchangedSame DEF TidyInv, Tidy, Before, Deciding
    <2>5. SafeInv'
      BY <1>1, <1>4, <2>2, QuietSafe DEF Deciding
    <2> QED  BY <2>2, <2>4, <2>5, OthersTidy
  <1> QED  BY <1>3, <1>4 DEF CommitSetup

\* A step that moves and removes nothing, between places that ask the same of
\* the directories.
LEMMA QuietKept ==
    ASSUME Inv, TidyInv, SafeInv, NEW r \in Requests, NEW step \in Steps, Goto(r, step),
           UNCHANGED <<disk, drop, kept>>, Works \/ Fails, pc[r] \notin Deciding,
           Tidy(r)'
    PROVE  TidyInv' /\ SafeInv'
  <1>1. /\ pc'[r] = step /\ \A q \in Requests : q # r => pc'[q] = pc[q]
        /\ faults \in Nat /\ faults' \in Nat /\ faults' >= faults
    BY OwnFacts
  <1>2. OwnStep(r)
    BY <1>1, UnchangedSame DEF OwnStep
  <1> QED  BY <1>2, QuietSafe, OthersTidy

\* Opening, locking, closing and reopening move and remove nothing.
LEMMA PlainKept ==
    ASSUME Inv, TidyInv, SafeInv, NEW r \in Requests,
           OpenSetup(r) \/ LockAndCheck(r) \/ CloseWallets(r) \/ Reopen(r)
    PROVE  TidyInv' /\ SafeInv'
  <1>1. UNCHANGED <<disk, drop, kept>> /\ (Works \/ Fails)
    BY DEF OpenSetup, LockAndCheck, CloseWallets, Reopen, OpenFails, Works
  <1>2. PICK step \in {"done", "close", "moveOld", "reopen", "cleanup"} :
            /\ Goto(r, step) /\ step \in Steps
            /\ \/ pc[r] = "open" /\ step = "done"
               \/ pc[r] = "import" /\ step \in {"close", "cleanup"}
               \/ pc[r] = "close" /\ step \in {"moveOld", "reopen"}
               \/ pc[r] = "reopen" /\ step = "cleanup"
    BY PlacesInPass DEF OpenSetup, LockAndCheck, CloseWallets, Reopen
  <1>3. /\ pc'[r] = step /\ pc[r] \notin Deciding
        /\ faults \in Nat /\ faults' \in Nat /\ faults' >= faults
    BY <1>1, <1>2, OwnFacts DEF Deciding
  <1>4. (faults > 0 => faults' > 0) /\ (faults > 1 => faults' > 1)
    BY <1>3
  <1>5. /\ Exists(Stage(r))' <=> Exists(Stage(r))
        /\ Exists(Replaced(r))' <=> Exists(Replaced(r))
        /\ drop'[r] = drop[r] /\ kept' = kept
    BY <1>1, UnchangedSame
  <1>6. Tidy(r)
    BY DEF TidyInv
  <1>7. CASE pc[r] = "open" /\ step = "done"
    <2>1. Tidy(r)'
      BY <1>3, <1>4, <1>5, <1>6, <1>7 DEF Tidy, Before, Deciding
    <2> QED  BY <1>1, <1>2, <1>3, <2>1, QuietKept
  <1>8. CASE pc[r] = "import" /\ step \in {"close", "cleanup"}
    <2>1. Tidy(r)'
      BY <1>3, <1>4, <1>5, <1>6, <1>8 DEF Tidy, Before, Deciding
    <2> QED  BY <1>1, <1>2, <1>3, <2>1, QuietKept
  <1>9. CASE pc[r] = "close" /\ step \in {"moveOld", "reopen"}
    <2>1. Tidy(r)'
      BY <1>3, <1>4, <1>5, <1>6, <1>9 DEF Tidy, Before, Deciding
    <2> QED  BY <1>1, <1>2, <1>3, <2>1, QuietKept
  <1>10. CASE pc[r] = "reopen" /\ step = "cleanup"
    <2>1. Tidy(r)'
      BY <1>3, <1>4, <1>5, <1>6, <1>10 DEF Tidy, Before, Deciding
    <2> QED  BY <1>1, <1>2, <1>3, <2>1, QuietKept
  <1> QED  BY <1>2, <1>7, <1>8, <1>9, <1>10

\* A rename of r takes a wallet in use with it.
LEMMA MoveSafe ==
    ASSUME Inv, SafeInv, TidyInv, NEW r \in Requests, OwnStep(r), kept' \subseteq kept,
           NEW from \in DOMAIN disk, NEW to \in Places, from # to,
           disk' = Renamed(from, to),
           ASSUME NEW w \in kept, Keeps(to, w) PROVE FALSE,
           ASSUME NEW w \in kept, Keeps(from, w) PROVE Keeps(to, w)',
           ASSUME NEW d \in drop'[r], d \notin {from, to}
           PROVE  d \in drop[r] /\ (pc[r] \in Deciding => pc'[r] \in Deciding)
    PROVE  SafeInv'
  <1>1. \A d : d \notin {from, to} => Same(d)
    <2>1. DiskTyped
      BY DEF Inv, TypeOK, DiskTyped
    <2> QED  BY <2>1, RenameSame
  <1>2. ASSUME NEW w \in kept \intersect kept', NEW d \in Places, faults' <= 1, Keeps(d, w)
        PROVE  \E e \in Places : Keeps(e, w)'
    <2>1. CASE d = from
      BY <1>2, <2>1
    <2>2. CASE d = to
      BY <1>2, <2>2
    <2>3. CASE d \notin {from, to}
      <3>1. d \in drop'[r] => d = Replaced(r) /\ pc'[r] \in Deciding
        BY <1>2, <2>3 DEF Keeps
      <3> QED  BY <1>1, <1>2, <2>3, <3>1, KeepsStays
    <2> QED  BY <2>1, <2>2, <2>3
  <1> QED  BY <1>2, StepSafe

\* The import that holds the locks moves alone.
LEMMA AloneMoving ==
    ASSUME Inv, SetupAlone, NEW r \in Requests, pc[r] \in Locked
    PROVE  /\ \A q \in Requests : q # r => pc[q] \notin {"moveNew", "restore"}
           /\ DiskTyped /\ InPlace(r)
           /\ \A q \in Requests : Data \notin drop[q]
           /\ \A q \in Requests : q # r => Stage(r) \notin drop[q] /\ Replaced(r) \notin drop[q]
  <1>1. \A q \in Requests : pc[q] \in Locked => q = r
    BY LockHolder DEF Inv
  <1>2. \A q \in Requests : drop[q] \subseteq {Stage(q), Replaced(q)}
    BY DEF Inv, Moved, InPlace
  <1>3. DiskTyped /\ InPlace(r)
    BY DEF Inv, TypeOK, DiskTyped, Moved
  <1> QED  BY <1>1, <1>2, <1>3, PlacesInPass, PlaceNames

\* A wallet that moves with a directory of r is kept where it arrives.
LEMMA KeptAt ==
    ASSUME Inv, Inv', NEW r \in Requests, NEW from \in DOMAIN disk, NEW to \in Places, from # to,
           disk' = Renamed(from, to), to \in {Data, Stage(r), Replaced(r)},
           to \in drop'[r] => to = Replaced(r) /\ pc'[r] \in Deciding,
           NEW w, Keeps(from, w)
    PROVE  Keeps(to, w)'
  <1>1. DiskTyped /\ disk[from] = Whole(w)
    BY DEF Inv, TypeOK, DiskTyped, Keeps, Holds
  <1>2. Holds(to, w)'
    BY <1>1, RenameSame DEF Holds
  <1>3. \A q \in Requests : q # r => to \notin drop'[q]
    <2>1. \A q \in Requests : drop'[q] \subseteq {Stage(q), Replaced(q)}
      BY DEF Inv, Moved, InPlace
    <2> QED  BY <2>1, PlaceNames
  <1> QED  BY <1>2, <1>3 DEF Keeps

\* The old wallet, moved away, is kept until the import is decided.
LEMMA MoveOldKept ==
    ASSUME Inv, Inv', SetupAlone, TidyInv, SafeInv, NEW r \in Requests, MoveOld(r)
    PROVE  TidyInv' /\ SafeInv'
  <1>1. /\ pc[r] = "moveOld" /\ kept' = kept /\ Tidy(r)
    BY DEF MoveOld, TidyInv
  <1>2. /\ \A q \in Requests : q # r => pc[q] \notin {"moveNew", "restore"}
        /\ DiskTyped /\ InPlace(r) /\ Exists(Data)
    BY <1>1, AloneMoving, PlacesInPass DEF InPlace
  <1>3. CASE /\ Works /\ disk' = Renamed(Data, Replaced(r)) /\ Goto(r, "moveNew")
             /\ drop' = [drop EXCEPT ![r] = @ \union {Replaced(r)}]
    <2>1. /\ pc'[r] = "moveNew" /\ \A q \in Requests : q # r => pc'[q] = pc[q]
          /\ drop'[r] = drop[r] \union {Replaced(r)}
          /\ \A q \in Requests : q # r => drop'[q] = drop[q]
          /\ faults \in Nat /\ faults' = faults
      BY <1>3, PlacesInPass, OwnFacts DEF Works
    <2>2. /\ ~Exists(Data)' /\ \A d : d \notin {Data, Replaced(r)} => Same(d)
      BY <1>2, <1>3, RenameSame, PlaceNames DEF Exists
    <2>3. Same(Stage(r)) /\ \A q \in Requests : q # r => Same(Stage(q)) /\ Same(Replaced(q))
      BY <2>2, PlaceNames
    <2>4. OwnStep(r)
      BY <1>1, <1>2, <2>1, <2>3 DEF OwnStep
    <2>5. Tidy(r)'
      BY <1>1, <2>1, <2>2, <2>3 DEF Tidy, Before, Deciding, Same
    <2>6. SafeInv'
      <3>1. Data \in DOMAIN disk /\ Replaced(r) \in Places /\ Data # Replaced(r)
        BY <1>2, PlaceNames DEF Exists
      <3>2. ASSUME NEW w \in kept, Keeps(Replaced(r), w) PROVE FALSE
        BY <1>1, <3>2 DEF Keeps, Holds, Tidy, Before
      <3>3. ASSUME NEW w \in kept, Keeps(Data, w) PROVE Keeps(Replaced(r), w)'
        BY <1>3, <2>1, <3>1, <3>3, KeptAt DEF Deciding
      <3>4. pc[r] \notin Deciding
        BY <1>1 DEF Deciding
      <3> QED  BY <1>1, <1>3, <2>1, <2>4, <3>1, <3>2, <3>3, <3>4, MoveSafe
    <2> QED  BY <2>4, <2>5, <2>6, OthersTidy
  <1>4. CASE Fails /\ Goto(r, "reopen") /\ UNCHANGED <<disk, drop>>
    <2>1. pc'[r] = "reopen" /\ faults \in Nat /\ faults' = faults + 1
      BY <1>4, PlacesInPass, OwnFacts
    <2>2. Tidy(r)'
      BY <1>1, <1>4, <2>1, UnchangedSame DEF Tidy, Before, Deciding
    <2> QED  BY <1>1, <1>4, <2>2, PlacesInPass, QuietKept DEF Deciding
  <1> QED  BY <1>3, <1>4 DEF MoveOld

\* The new wallet, moved in, is not yet one in use; when it cannot be moved the
\* old one is moved back, unless a second call fails.
LEMMA MoveNewKept ==
    ASSUME Inv, Inv', SetupAlone, TidyInv, SafeInv, NEW r \in Requests, MoveNew(r)
    PROVE  TidyInv' /\ SafeInv'
  <1>1. /\ pc[r] = "moveNew" /\ kept' = kept /\ Tidy(r) /\ ~Exists(Data) /\ r \notin kept
    BY DEF MoveNew, TidyInv, Tidy, Deciding, Before
  <1>2. /\ \A q \in Requests : q # r => pc[q] \notin {"moveNew", "restore"}
        /\ DiskTyped /\ InPlace(r) /\ Exists(Stage(r)) /\ Exists(Replaced(r))
        /\ \A q \in Requests : Data \notin drop[q]
    BY <1>1, AloneMoving, PlacesInPass DEF InPlace, Holds, IsWhole
  <1>3. ASSUME NEW w \in kept, Keeps(Data, w) PROVE FALSE
    BY <1>1, <1>3 DEF Keeps, Holds
  <1>4. CASE /\ Works /\ disk' = Renamed(Stage(r), Data) /\ Goto(r, "verify")
             /\ drop' = [drop EXCEPT ![r] = @ \ {Stage(r)}]
    <2>1. /\ pc'[r] = "verify" /\ \A q \in Requests : q # r => pc'[q] = pc[q]
          /\ drop'[r] = drop[r] \ {Stage(r)}
          /\ \A q \in Requests : q # r => drop'[q] = drop[q]
          /\ faults \in Nat /\ faults' = faults
      BY <1>4, PlacesInPass, OwnFacts DEF Works
    <2>2. /\ ~Exists(Stage(r))' /\ \A d : d \notin {Data, Stage(r)} => Same(d)
      BY <1>2, <1>4, RenameSame, PlaceNames DEF Exists
    <2>3. Same(Replaced(r)) /\ \A q \in Requests : q # r => Same(Stage(q)) /\ Same(Replaced(q))
      BY <2>2, PlaceNames
    <2>4. OwnStep(r)
      BY <1>1, <1>2, <2>1, <2>3 DEF OwnStep
    <2>5. Tidy(r)'
      BY <1>1, <2>1, <2>2, <2>3, PlaceNames DEF Tidy, Before, Deciding, Same
    <2>6. SafeInv'
      <3>1. Stage(r) \in DOMAIN disk /\ Data \in Places /\ Data # Stage(r)
        BY <1>2, PlaceNames DEF Exists
      <3>2. ASSUME NEW w \in kept, Keeps(Stage(r), w) PROVE Keeps(Data, w)'
        BY <1>1, <3>2, StagedKeeps DEF Inv, TypeOK
      <3>3. pc'[r] \in Deciding
        BY <2>1 DEF Deciding
      <3> QED  BY <1>1, <1>3, <1>4, <2>1, <2>4, <3>1, <3>2, <3>3, MoveSafe
    <2> QED  BY <2>4, <2>5, <2>6, OthersTidy
  <1>5. CASE /\ Fails /\ disk' = Renamed(Replaced(r), Data) /\ Goto(r, "reopen")
             /\ drop' = [drop EXCEPT ![r] = @ \ {Replaced(r)}]
    <2>1. /\ pc'[r] = "reopen" /\ \A q \in Requests : q # r => pc'[q] = pc[q]
          /\ drop'[r] = drop[r] \ {Replaced(r)}
          /\ \A q \in Requests : q # r => drop'[q] = drop[q]
          /\ faults \in Nat /\ faults' = faults + 1
      BY <1>5, PlacesInPass, OwnFacts
    <2>2. /\ ~Exists(Replaced(r))' /\ \A d : d \notin {Data, Replaced(r)} => Same(d)
      BY <1>2, <1>5, RenameSame, PlaceNames DEF Exists
    <2>3. Same(Stage(r)) /\ \A q \in Requests : q # r => Same(Stage(q)) /\ Same(Replaced(q))
      BY <2>2, PlaceNames
    <2>4. OwnStep(r)
      BY <1>1, <1>2, <2>1, <2>3 DEF OwnStep
    <2>5. Tidy(r)'
      BY <1>1, <2>1, <2>2, <2>3, PlaceNames DEF Tidy, Before, Deciding, Same
    <2>6. SafeInv'
      <3>1. Replaced(r) \in DOMAIN disk /\ Data \in Places /\ Data # Replaced(r)
        BY <1>2, PlaceNames DEF Exists
      <3>2. Data \notin drop'[r]
        BY <1>2, <2>1
      <3>3. ASSUME NEW w \in kept, Keeps(Replaced(r), w) PROVE Keeps(Data, w)'
        BY <1>5, <3>1, <3>2, <3>3, KeptAt
      <3>4. ASSUME NEW w \in kept \intersect kept', NEW d \in Places, faults' <= 1, Keeps(d, w)
            PROVE  \E e \in Places : Keeps(e, w)'
        <4>1. CASE d = Replaced(r)
          BY <3>1, <3>3, <3>4, <4>1
        <4>2. CASE d # Replaced(r)
          <5>1. d \notin drop[r] /\ d # Data
            BY <1>3, <3>4, <4>2 DEF Keeps
          <5> QED  BY <2>1, <2>2, <2>4, <3>4, <4>2, <5>1, KeepsStays
        <4> QED  BY <4>1, <4>2
      <3> QED  BY <1>1, <2>4, <3>4, StepSafe
    <2> QED  BY <2>4, <2>5, <2>6, OthersTidy
  <1>6. CASE /\ faults' = faults + 2 /\ UNCHANGED disk /\ Goto(r, "reopen")
             /\ drop' = [drop EXCEPT ![r] = @ \ {Replaced(r)}]
    <2>1. /\ pc'[r] = "reopen" /\ \A q \in Requests : q # r => pc'[q] = pc[q]
          /\ drop'[r] = drop[r] \ {Replaced(r)}
          /\ \A q \in Requests : q # r => drop'[q] = drop[q]
          /\ faults \in Nat /\ faults' \in Nat /\ faults' >= faults /\ faults' > 1
      BY <1>6, PlacesInPass, OwnFacts
    <2>2. OwnStep(r)
      BY <1>1, <1>2, <2>1, <1>6, UnchangedSame DEF OwnStep
    <2>3. Tidy(r)'
      BY <1>1, <1>6, <2>1, UnchangedSame, PlaceNames DEF Tidy, Before, Deciding
    <2>4. SafeInv'
      BY <2>1 DEF SafeInv
    <2> QED  BY <2>2, <2>3, <2>4, OthersTidy
  <1> QED  BY <1>1, <1>4, <1>5, <1>6 DEF MoveNew

\* A directory that is one whole wallet is no other's.
LEMMA OneWhole ==
    ASSUME NEW v, NEW w, Whole(v) = Whole(w)
    PROVE  v = w /\ Whole(v)["key"] = v
  BY DEF Whole, Files

\* The imported wallet is in use from the moment it is open, and only then is
\* the old one no longer kept.
LEMMA VerifyKept ==
    ASSUME Inv, Inv', SetupAlone, TidyInv, SafeInv, NEW r \in Requests, Verify(r)
    PROVE  TidyInv' /\ SafeInv'
  <1>1. /\ pc[r] = "verify" /\ Tidy(r) /\ r \notin kept /\ Replaced(r) \in drop[r]
        /\ UNCHANGED <<disk, drop>>
    BY DEF Verify, TidyInv, Tidy, Deciding, Before
  <1>2. /\ DiskTyped /\ Holds(Data, r) /\ IsWhole(Replaced(r))
        /\ \A q \in Requests : q # r => pc[q] \notin {"moveNew", "restore"}
        /\ \A q \in Requests : Data \notin drop[q]
    BY <1>1, AloneMoving, PlacesInPass DEF InPlace
  <1>3. CASE /\ Works /\ Goto(r, "removeOld")
             /\ kept' = (kept \ {disk[Replaced(r)]["key"]}) \union {r}
    <2>1. /\ pc'[r] = "removeOld" /\ \A q \in Requests : q # r => pc'[q] = pc[q]
          /\ faults \in Nat /\ faults' = faults
      BY <1>3, PlacesInPass, OwnFacts DEF Works
    <2>2. OwnStep(r)
      BY <1>1, <1>3, <2>1, UnchangedSame DEF OwnStep
    <2>3. Tidy(r)'
      BY <1>1, <2>1, UnchangedSame DEF Tidy, Before, Deciding
    <2>4. Keeps(Data, r)'
      BY <1>1, <1>2, UnchangedSame DEF Keeps
    <2>5. ASSUME NEW w \in kept \intersect kept', NEW d \in Places, faults' <= 1, Keeps(d, w)
          PROVE  \E e \in Places : Keeps(e, w)'
      <3>1. w # disk[Replaced(r)]["key"]
        BY <1>1, <1>3, <2>5
      <3>2. d # Replaced(r)
        BY <1>2, <2>5, <3>1, OneWhole DEF Keeps, Holds, IsWhole
      <3>3. d \notin drop'[r]
        BY <1>1, <2>5, <3>2 DEF Keeps
      <3> QED  BY <1>1, <2>2, <2>5, <3>3, UnchangedSame, KeepsStays
    <2>6. ASSUME NEW w \in kept' \ kept, faults' <= 1
          PROVE  \E e \in Places : Keeps(e, w)'
      BY <1>3, <2>4, PlaceNames
    <2> QED  BY <2>2, <2>3, <2>5, <2>6, OthersTidy, StepSafe
  <1>4. CASE Fails /\ Goto(r, "rollback") /\ UNCHANGED kept
    <2>1. /\ pc'[r] = "rollback" /\ \A q \in Requests : q # r => pc'[q] = pc[q]
          /\ faults \in Nat /\ faults' \in Nat /\ faults' = faults + 1
      BY <1>4, PlacesInPass, OwnFacts
    <2>2. OwnStep(r)
      BY <1>1, <1>4, <2>1, UnchangedSame DEF OwnStep
    <2>3. Tidy(r)'
      BY <1>1, <1>4, <2>1, UnchangedSame DEF Tidy, Before, Deciding
    <2>4. SafeInv'
      BY <1>1, <1>4, <2>1, <2>2, QuietSafe DEF Deciding
    <2> QED  BY <2>2, <2>3, <2>4, OthersTidy
  <1> QED  BY <1>3, <1>4 DEF Verify

\* The new wallet, moved away again, was never in use.
LEMMA RollBackNewKept ==
    ASSUME Inv, Inv', SetupAlone, TidyInv, SafeInv, NEW r \in Requests, RollBackNew(r)
    PROVE  TidyInv' /\ SafeInv'
  <1>1. /\ pc[r] = "rollback" /\ Tidy(r) /\ r \notin kept /\ kept' = kept /\ faults > 0
    BY DEF RollBackNew, TidyInv, Tidy, Deciding, Before
  <1>2. /\ DiskTyped /\ Holds(Data, r)
        /\ \A q \in Requests : q # r => pc[q] \notin {"moveNew", "restore"}
    BY <1>1, AloneMoving, PlacesInPass DEF InPlace
  <1>3. CASE /\ Works /\ disk' = Renamed(Data, Stage(r)) /\ Goto(r, "restore")
             /\ drop' = [drop EXCEPT ![r] = @ \union {Stage(r)}]
    <2>1. /\ pc'[r] = "restore" /\ \A q \in Requests : q # r => pc'[q] = pc[q]
          /\ drop'[r] = drop[r] \union {Stage(r)}
          /\ \A q \in Requests : q # r => drop'[q] = drop[q]
          /\ faults \in Nat /\ faults' = faults
      BY <1>3, PlacesInPass, OwnFacts DEF Works
    <2>2. /\ ~Exists(Data)' /\ \A d : d \notin {Data, Stage(r)} => Same(d)
      BY <1>2, <1>3, RenameSame, PlaceNames DEF Holds, Exists
    <2>3. Same(Replaced(r)) /\ \A q \in Requests : q # r => Same(Stage(q)) /\ Same(Replaced(q))
      BY <2>2, PlaceNames
    <2>4. OwnStep(r)
      BY <1>1, <1>2, <2>1, <2>3 DEF OwnStep
    <2>5. Tidy(r)'
      BY <1>1, <2>1, <2>2, <2>3 DEF Tidy, Before, Deciding, Same
    <2>6. SafeInv'
      <3>1. Data \in DOMAIN disk /\ Stage(r) \in Places /\ Data # Stage(r)
        BY <1>2, PlaceNames DEF Holds, Exists
      <3>2. ASSUME NEW w \in kept, Keeps(Stage(r), w) PROVE FALSE
        BY <1>1, <3>2, StagedKeeps DEF Inv, TypeOK
      <3>3. ASSUME NEW w \in kept, Keeps(Data, w) PROVE FALSE
        BY <1>1, <1>2, <3>3, OneWhole DEF Keeps, Holds
      <3>4. pc'[r] \in Deciding
        BY <2>1 DEF Deciding
      <3> QED  BY <1>1, <1>3, <2>1, <2>4, <3>1, <3>2, <3>3, <3>4, MoveSafe
    <2> QED  BY <2>4, <2>5, <2>6, OthersTidy
  <1>4. CASE Fails /\ Goto(r, "cleanup") /\ UNCHANGED <<disk, drop>>
    <2>1. /\ pc'[r] = "cleanup" /\ faults \in Nat /\ faults' = faults + 1
          /\ \A q \in Requests : q # r => pc'[q] = pc[q]
      BY <1>4, PlacesInPass, OwnFacts
    <2>2. OwnStep(r)
      BY <1>1, <1>4, <2>1, UnchangedSame DEF OwnStep
    <2>3. Tidy(r)'
      BY <1>1, <1>4, <2>1, UnchangedSame DEF Tidy, Before, Deciding
    <2>4. SafeInv'
      BY <1>1, <2>1 DEF SafeInv
    <2> QED  BY <2>2, <2>3, <2>4, OthersTidy
  <1> QED  BY <1>3, <1>4 DEF RollBackNew

\* The old wallet is back where it was; it is not removed, unless a second call
\* fails.
LEMMA RollBackOldKept ==
    ASSUME Inv, Inv', SetupAlone, TidyInv, SafeInv, NEW r \in Requests, RollBackOld(r)
    PROVE  TidyInv' /\ SafeInv'
  <1>1. /\ pc[r] = "restore" /\ Tidy(r) /\ kept' = kept /\ faults > 0 /\ ~Exists(Data)
    BY DEF RollBackOld, TidyInv, Tidy
  <1>2. /\ DiskTyped /\ InPlace(r) /\ Exists(Replaced(r))
        /\ \A q \in Requests : q # r => pc[q] \notin {"moveNew", "restore"}
        /\ \A q \in Requests : Data \notin drop[q]
    BY <1>1, AloneMoving, PlacesInPass DEF InPlace, IsWhole
  <1>3. CASE /\ Works /\ disk' = Renamed(Replaced(r), Data) /\ Goto(r, "reopen")
             /\ drop' = [drop EXCEPT ![r] = @ \ {Replaced(r)}]
    <2>1. /\ pc'[r] = "reopen" /\ \A q \in Requests : q # r => pc'[q] = pc[q]
          /\ drop'[r] = drop[r] \ {Replaced(r)}
          /\ \A q \in Requests : q # r => drop'[q] = drop[q]
          /\ faults \in Nat /\ faults' = faults
      BY <1>3, PlacesInPass, OwnFacts DEF Works
    <2>2. /\ ~Exists(Replaced(r))' /\ \A d : d \notin {Data, Replaced(r)} => Same(d)
      BY <1>2, <1>3, RenameSame, PlaceNames DEF Exists
    <2>3. Same(Stage(r)) /\ \A q \in Requests : q # r => Same(Stage(q)) /\ Same(Replaced(q))
      BY <2>2, PlaceNames
    <2>4. OwnStep(r)
      BY <1>1, <1>2, <2>1, <2>3 DEF OwnStep
    <2>5. Tidy(r)'
      BY <1>1, <2>1, <2>2, <2>3, PlaceNames DEF Tidy, Before, Deciding, Same
    <2>6. ASSUME NEW w \in kept \intersect kept', NEW d \in Places, faults' <= 1, Keeps(d, w)
          PROVE  \E e \in Places : Keeps(e, w)'
      <3>1. Replaced(r) \in DOMAIN disk /\ Data \in Places /\ Data # Replaced(r)
        BY <1>2, PlaceNames DEF Exists
      <3>2. Data \notin drop'[r]
        BY <1>2, <2>1
      <3>3. CASE d = Replaced(r)
        BY <1>3, <2>6, <3>1, <3>2, <3>3, KeptAt
      <3>4. CASE d # Replaced(r)
        <4>1. d \notin drop[r] /\ d # Data
          BY <1>1, <2>6, <3>4 DEF Keeps, Holds
        <4> QED  BY <2>1, <2>2, <2>4, <2>6, <3>4, <4>1, KeepsStays
      <3> QED  BY <3>3, <3>4
    <2> QED  BY <1>1, <2>4, <2>5, <2>6, OthersTidy, StepSafe
  <1>4. CASE Fails /\ Goto(r, "cleanup") /\ UNCHANGED <<disk, drop>>
    <2>1. /\ pc'[r] = "cleanup" /\ faults \in Nat /\ faults' = faults + 1
          /\ \A q \in Requests : q # r => pc'[q] = pc[q]
      BY <1>4, PlacesInPass, OwnFacts
    <2>2. OwnStep(r)
      BY <1>1, <1>4, <2>1, UnchangedSame DEF OwnStep
    <2>3. Tidy(r)'
      BY <1>1, <1>4, <2>1, UnchangedSame DEF Tidy, Before, Deciding
    <2>4. SafeInv'
      BY <1>1, <2>1 DEF SafeInv
    <2> QED  BY <2>2, <2>3, <2>4, OthersTidy
  <1> QED  BY <1>1, <1>3, <1>4 DEF RollBackOld

\* What a removal leaves: nothing, unless the call failed.
LEMMA RemovalLeaves ==
    ASSUME Inv, NEW d \in Places, RemoveAll(d)
    PROVE  /\ Exists(d)' => Exists(d) /\ faults' = faults + 1
           /\ faults \in Nat /\ faults' \in Nat /\ faults' >= faults
           /\ \A e : e # d => Same(e)
  <1>1. DiskTyped /\ faults \in Nat
    BY FilesAssumption DEF Inv, TypeOK, DiskTyped
  <1>2. (Exists(d)' => Exists(d)) /\ \A e : e # d => Same(e)
    BY <1>1, RemoveSame
  <1>3. CASE Works /\ disk' = Without(d)
    <2>1. ~Exists(d)'
      BY <1>3 DEF Without, Restrict, Exists
    <2> QED  BY <1>1, <1>2, <1>3, <2>1 DEF Works
  <1>4. CASE Fails
    BY <1>1, <1>2, <1>4 DEF Fails
  <1> QED  BY <1>3, <1>4 DEF RemoveAll

\* A directory that a request removes outside the locks, or after its import is
\* decided, keeps no wallet.
LEMMA RemoveSafe ==
    ASSUME Inv, SafeInv, TidyInv, NEW r \in Requests, OwnStep(r), kept' = kept,
           NEW d \in drop[r], pc[r] \notin Deciding, drop'[r] \subseteq drop[r],
           \A e : e # d => Same(e)
    PROVE  SafeInv'
  <1>1. ASSUME NEW w \in kept \intersect kept', NEW e \in Places, faults' <= 1, Keeps(e, w)
        PROVE  \E f \in Places : Keeps(f, w)'
    <2>1. e \notin drop[r]
      BY <1>1 DEF Keeps
    <2>2. Same(e) /\ e \notin drop'[r]
      BY <2>1
    <2> QED  BY <1>1, <2>2, KeepsStays
  <1> QED  BY <1>1, StepSafe

\* The replaced wallet is removed after its import is decided.
LEMMA RemoveOldKept ==
    ASSUME Inv, Inv', SetupAlone, TidyInv, SafeInv, NEW r \in Requests, RemoveOld(r)
    PROVE  TidyInv' /\ SafeInv'
  <1>1. /\ pc[r] = "removeOld" /\ pc[r] \notin Deciding /\ Tidy(r) /\ Replaced(r) \in drop[r]
        /\ kept' = kept /\ Goto(r, "cleanup") /\ RemoveAll(Replaced(r)) /\ Replaced(r) \in Places
    BY PlaceNames DEF RemoveOld, TidyInv, Tidy, Deciding
  <1>2. \A q \in Requests : q # r => pc[q] \notin {"moveNew", "restore"}
    BY <1>1, AloneMoving, PlacesInPass
  <1>3. /\ Exists(Replaced(r))' => Exists(Replaced(r)) /\ faults' = faults + 1
        /\ faults \in Nat /\ faults' \in Nat /\ faults' >= faults
        /\ \A e : e # Replaced(r) => Same(e)
    BY <1>1, RemovalLeaves
  <1>4. /\ pc'[r] = "cleanup" /\ \A q \in Requests : q # r => pc'[q] = pc[q]
        /\ drop \in [Requests -> SUBSET Places]
    BY <1>1, PlacesInPass, OwnFacts
  <1>5. /\ drop'[r] \subseteq drop[r] /\ drop[r] \ {Replaced(r)} \subseteq drop'[r]
        /\ Exists(Replaced(r))' => Replaced(r) \in drop'[r]
        /\ \A q \in Requests : q # r => drop'[q] = drop[q]
    BY <1>1, <1>4 DEF RemoveOld, Exists
  <1>6. Same(Stage(r)) /\ \A q \in Requests : q # r => Same(Stage(q)) /\ Same(Replaced(q))
    BY <1>3, PlaceNames
  <1>7. OwnStep(r)
    BY <1>1, <1>2, <1>3, <1>4, <1>5, <1>6 DEF OwnStep
  <1>8. Tidy(r)'
    <2>1. /\ Exists(Replaced(r))' => faults' > 0
          /\ faults > 0 => faults' > 0
      BY <1>3
    <2> QED  BY <1>1, <1>4, <1>5, <1>6, <2>1, PlaceNames DEF Tidy, Before, Deciding, Same
  <1>9. SafeInv'
    BY <1>1, <1>3, <1>5, <1>7, RemoveSafe
  <1> QED  BY <1>7, <1>8, <1>9, OthersTidy

\* The deferred removals remove no wallet in use.
LEMMA CleanUpKept ==
    ASSUME Inv, Inv', SetupAlone, TidyInv, SafeInv, NEW r \in Requests, CleanUp(r)
    PROVE  TidyInv' /\ SafeInv'
  <1>1. /\ pc[r] = "cleanup" /\ pc[r] \notin Deciding /\ Tidy(r) /\ kept' = kept
        /\ pc \in [Requests -> Steps] /\ drop \in [Requests -> SUBSET Places]
        /\ drop[r] \subseteq {Stage(r), Replaced(r)}
    BY DEF CleanUp, TidyInv, Deciding, Inv, TypeOK, Moved, InPlace
  <1>2. CASE drop[r] = {} /\ Goto(r, "done") /\ UNCHANGED <<disk, drop, faults>>
    <2>1. /\ pc'[r] = "done" /\ "done" \in Steps /\ faults \in Nat /\ faults' = faults
      BY <1>2, PlacesInPass, OwnFacts
    <2>2. Tidy(r)'
      BY <1>1, <1>2, <2>1, UnchangedSame DEF Tidy, Before, Deciding
    <2> QED  BY <1>1, <1>2, <2>1, <2>2, QuietKept DEF Works
  <1>3. CASE \E d \in drop[r] :
                RemoveAll(d) /\ drop' = [drop EXCEPT ![r] = @ \ {d}] /\ UNCHANGED pc
    <2>1. PICK d \in drop[r] :
                RemoveAll(d) /\ drop' = [drop EXCEPT ![r] = @ \ {d}] /\ UNCHANGED pc
      BY <1>3
    <2>2. d \in {Stage(r), Replaced(r)} /\ d \in Places
      BY <1>1
    <2>3. /\ Exists(d)' => Exists(d) /\ faults' = faults + 1
          /\ faults \in Nat /\ faults' \in Nat /\ faults' >= faults
          /\ \A e : e # d => Same(e)
      BY <2>1, <2>2, RemovalLeaves
    <2>4. drop'[r] = drop[r] \ {d} /\ \A q \in Requests : q # r => drop'[q] = drop[q]
      BY <1>1, <2>1
    <2>5. Same(Data) /\ \A q \in Requests : q # r => Same(Stage(q)) /\ Same(Replaced(q))
      BY <2>2, <2>3, PlaceNames
    <2>6. OwnStep(r)
      BY <1>1, <2>1, <2>3, <2>4, <2>5 DEF OwnStep
    <2>7. Tidy(r)'
      <3>1. /\ Exists(d)' => faults' > 0
            /\ faults > 0 => faults' > 0
            /\ faults > 1 => faults' > 1
            /\ Exists(d)' /\ faults > 0 => faults' > 1
        BY <2>3
      <3>2. CASE d = Stage(r)
        <4>1. Same(Replaced(r)) /\ Replaced(r) # Stage(r)
          BY <2>3, <3>2, PlaceNames
        <4> QED  BY <1>1, <2>1, <2>4, <3>1, <3>2, <4>1 DEF Tidy, Before, Deciding, Same
      <3>3. CASE d = Replaced(r)
        <4>1. Same(Stage(r)) /\ Replaced(r) # Stage(r)
          BY <2>3, <3>3, PlaceNames
        <4>2. Exists(Replaced(r))' => faults' > 1
          BY <1>1, <2>1, <2>3, <3>1, <3>3 DEF Tidy
        <4> QED  BY <1>1, <2>1, <2>4, <3>1, <3>3, <4>1, <4>2 DEF Tidy, Before, Deciding, Same
      <3> QED  BY <2>2, <3>2, <3>3
    <2>8. SafeInv'
      BY <1>1, <2>3, <2>4, <2>6, RemoveSafe
    <2> QED  BY <2>6, <2>7, <2>8, OthersTidy
  <1> QED  BY <1>2, <1>3 DEF CleanUp

\* The wallet in use moves and removes no directory.
LEMMA InUseKept ==
    ASSUME Inv, TidyInv, SafeInv, Unlock \/ Lock \/ BeginTrade \/ EndTrade
    PROVE  TidyInv' /\ SafeInv'
  <1>1. UNCHANGED <<disk, pc, drop, kept>> /\ (Works \/ Fails)
    BY DEF Unlock, Lock, BeginTrade, EndTrade, OpenFails, Works
  <1>2. /\ faults \in Nat /\ faults' \in Nat /\ faults' >= faults
        /\ faults > 0 => faults' > 0
        /\ faults > 1 => faults' > 1
        /\ faults' <= 1 => faults <= 1
    <2>1. faults \in Nat
      BY FilesAssumption DEF Inv, TypeOK
    <2> QED  BY <1>1, <2>1 DEF Works, Fails
  <1>3. ASSUME NEW q \in Requests PROVE Tidy(q)'
    BY <1>1, <1>2, UnchangedSame DEF TidyInv, Tidy
  <1>4. SafeInv'
    BY <1>1, <1>2 DEF SafeInv, Keeps, Holds, Exists
  <1> QED  BY <1>3, <1>4 DEF TidyInv

\* A restart removes nothing: what was to be removed stays.
LEMMA RestartKept ==
    ASSUME Inv, TidyInv, SafeInv, Restart
    PROVE  TidyInv' /\ SafeInv'
  <1>1. UNCHANGED <<disk, kept, faults>> /\ \A q \in Requests : drop'[q] = {}
    BY DEF Restart
  <1>2. \A q \in Requests :
            \/ pc[q] \in {"idle", "done"} /\ pc'[q] = pc[q]
            \/ pc'[q] = "stopped"
    BY DEF Restart
  <1>3. ASSUME NEW q \in Requests PROVE Tidy(q)'
    BY <1>1, <1>2, UnchangedSame DEF TidyInv, Tidy, Before, Deciding
  <1>4. SafeInv'
    BY <1>1 DEF SafeInv, Keeps, Holds, Exists
  <1> QED  BY <1>3, <1>4 DEF TidyInv

\* An empty installation is tidy and has no wallet in use.
LEMMA InitKept ==
    ASSUME Init
    PROVE  TidyInv /\ SafeInv
  <1>1. kept = {} /\ \A d : ~Exists(d)
    BY DEF Init, Exists
  <1>2. \A q \in Requests : pc[q] = "idle" /\ drop[q] = {}
    BY DEF Init
  <1> QED  BY <1>1, <1>2 DEF TidyInv, SafeInv, Tidy, Before, Deciding

\* Without overlap every step keeps every wallet in use and every request tidy.
LEMMA NextKept ==
    ASSUME Inv, Inv', SetupAlone, TidyInv, SafeInv, [Next]_vars
    PROVE  TidyInv' /\ SafeInv'
  <1>1. CASE UNCHANGED vars
    BY <1>1 DEF vars, TidyInv, Tidy, SafeInv, Keeps, Holds, Exists
  <1>2. CASE \E r \in Requests : Setup(r)
    BY <1>2, BeginStagingKept, CommitSetupKept, PlainKept DEF Setup, StartSetup
  <1>3. CASE \E r \in Requests : ImportRecovery(r)
    BY <1>3, BeginStagingKept, PlainKept, MoveOldKept, MoveNewKept, VerifyKept,
       RollBackNewKept, RollBackOldKept, RemoveOldKept
    DEF ImportRecovery, StartImport
  <1>4. CASE \E r \in Requests : StageFile(r) \/ CleanUp(r)
    BY <1>4, StageFileKept, CleanUpKept
  <1>5. CASE Unlock \/ Lock \/ BeginTrade \/ EndTrade
    BY <1>5, InUseKept
  <1>6. CASE Restart
    BY <1>6, RestartKept
  <1> QED  BY <1>1, <1>2, <1>3, <1>4, <1>5, <1>6 DEF Next

\* Without overlap the whole invariant holds throughout.
LEMMA KeptThroughout ==
    ASSUME ~Overlap
    PROVE  Spec => [](Inv /\ TidyInv /\ SafeInv)
<1>1. Init => Inv /\ Alone /\ TidyInv /\ SafeInv
  BY InitInv, InitKept DEF Init, Alone, SetupAlone, Moving, Locked
<1>2. Inv /\ Alone /\ TidyInv /\ SafeInv /\ [Next]_vars
          => (Inv /\ Alone /\ TidyInv /\ SafeInv)'
  <2> SUFFICES ASSUME Inv, Alone, TidyInv, SafeInv, [Next]_vars
               PROVE  Inv' /\ Alone' /\ TidyInv' /\ SafeInv'
    OBVIOUS
  <2>1. Inv' /\ Alone' /\ SetupAlone
    BY NextInv, NextAlone DEF Alone
  <2> QED  BY <2>1, NextKept
<1> QED  BY <1>1, <1>2, PTL DEF Spec

\* While no setup overlaps an import, and at most one call fails, whichever,
\* every wallet in use stays whole in some directory until an import has opened
\* the wallets that replace it: wherever ImportRecovery and its rollback stop,
\* and however often the program does.
THEOREM NothingLost ==
    ASSUME ~Overlap
    PROVE  Spec => []KeptUntilReplaced
<1>1. SafeInv => KeptUntilReplaced
  BY DEF SafeInv, KeptUntilReplaced, RemovedOnlyWhenReplaced, Keeps, Holds, Exists
<1> QED  BY <1>1, KeptThroughout, PTL

\* While no setup overlaps an import, a request that returned has left neither
\* a backup of a wallet, unless two calls failed, nor a staged wallet, unless
\* one did: the deferred removals of Setup and ImportRecovery.
THEOREM NothingLeft ==
    ASSUME ~Overlap
    PROVE  Spec => []NoBackupIsLeft
<1>1. TidyInv => NoBackupIsLeft
  BY DEF TidyInv, Tidy, NoBackupIsLeft
<1> QED  BY <1>1, KeptThroughout, PTL
=============================================================================
