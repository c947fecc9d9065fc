---------------------------- MODULE WalletFiles ----------------------------
(***************************************************************************)
(* The directories one installation keeps its wallets in, and the requests *)
(* that write them: Setup installs a first wallet, ImportRecovery replaces *)
(* the installed one, Unlock and Lock open and close it.  A wallet is four *)
(* files, the sealed recovery phrase, the QDAY and the Bitcoin wallet made *)
(* from it and a swap journal.  They are staged in a directory of their    *)
(* own and installed by renaming it.                                       *)
(*                                                                         *)
(* Requests are handlers of the local HTTP server and run side by side.    *)
(* An import holds every lock of the service (wallets.go:567-576) from its *)
(* check of the swaps until it returns; its deferred removals run after    *)
(* the locks are released.  A restart stops every request where it is and  *)
(* keeps what is on the disk.  MaxFaults bounds the calls that fail.       *)
(***************************************************************************)
EXTENDS Integers, FiniteSets, Functions

CONSTANTS
    Requests,     \* the setup and import requests of a history, once each
    Nobody,       \* no request and no wallet
    Overlap,      \* whether a setup may be under way while an import is
    MaxFaults,    \* calls of the file system and of the wallets that fail
    MaxRestarts   \* times the program stops without warning

ASSUME FilesAssumption ==
    /\ IsFiniteSet(Requests)
    /\ Nobody \notin Requests
    /\ Overlap \in BOOLEAN
    /\ MaxFaults \in Nat
    /\ MaxRestarts \in Nat

\* The wallet a request stages is called by the name of the request.
Wallets == Requests

Files == {"key", "qday", "bitcoin", "journal"}
Components == Files \ {"key"}

Directories == UNION {[fs -> Wallets] : fs \in SUBSET Files}
Whole(w) == [f \in Files |-> w]

Data == <<"data", Nobody>>
Stage(r) == <<"stage", r>>
Replaced(r) == <<"replaced", r>>
Places == {Data} \union {Stage(r) : r \in Requests} \union {Replaced(r) : r \in Requests}

VARIABLES
    disk,      \* the directories that exist, with their files
    pc,        \* where each request is
    drop,      \* the directories a request's deferred calls will remove
    section,   \* the import that holds the service's locks
    running,   \* the components that are open: none, or all three
    root,      \* the wallet whose recovery phrase is in memory
    unlocked,  \* the wallets that are unlocked
    trades,    \* the wallets whose journal holds an unfinished swap
    kept,      \* history: wallets in use that no opened wallet has replaced
    faults, restarts

vars == <<disk, pc, drop, section, running, root, unlocked, trades, kept,
          faults, restarts>>
service == <<running, root, unlocked>>

Steps == {"idle", "setup", "open", "import", "close", "moveOld", "moveNew",
          "verify", "rollback", "restore", "reopen", "removeOld", "cleanup",
          "done", "stopped"}
Locked == {"close", "moveOld", "moveNew", "verify", "rollback", "restore",
           "reopen", "removeOld"}

NoFiles == << >>
Closed == << >>

Init ==
    /\ disk = << >>
    /\ pc = [r \in Requests |-> "idle"]
    /\ drop = [r \in Requests |-> {}]
    /\ section = Nobody
    /\ running = Closed
    /\ root = Nobody
    /\ unlocked = {}
    /\ trades = {}
    /\ kept = {}
    /\ faults = 0
    /\ restarts = 0

-----------------------------------------------------------------------------
(* The file system and the components.                                     *)

Exists(d) == d \in DOMAIN disk

\* Configured, service.go:319-322: the installed directory has a keystore.
Configured == Exists(Data) /\ "key" \in DOMAIN disk[Data]

Without(d) == Restrict(disk, DOMAIN disk \ {d})

\* The function g, with v at x.
With(g, x, v) == [y \in DOMAIN g \cup {x} |-> IF y = x THEN v ELSE g[y]]

\* os.Rename fails when there is a directory with files under the new name.
Renamed(from, to) == With(Without(from), to, disk[from])

Goto(r, step) == pc' = [pc EXCEPT ![r] = step]
Works == UNCHANGED faults
Fails == faults < MaxFaults /\ faults' = faults + 1

\* os.RemoveAll: a removal that fails leaves some of the files.
RemoveAll(d) ==
    \/ Works /\ disk' = Without(d)
    \/ /\ Fails
       /\ \E left \in SUBSET DOMAIN disk[d] :
             disk' = [disk EXCEPT ![d] = Restrict(@, left)]

\* openLocked starts the processes of the installed directory, unless they
\* are open; it opens all three or, when one fails, none.
Opened ==
    IF running # Closed THEN running ELSE Restrict(disk[Data], Components)
CanOpen == running # Closed \/ (Exists(Data) /\ Components \subseteq DOMAIN disk[Data])

OpenWorks == CanOpen /\ running' = Opened
OpenFails == (IF CanOpen THEN Fails ELSE Works) /\ UNCHANGED running

\* Mutant of CloseComponents: the Bitcoin wallet is not locked.
CloseUnlocked == running' = Closed /\ root' = Nobody /\ unlocked' = unlocked \ {"qday"}
\* Mutant of CloseComponents: the closed components are not forgotten.
CloseAndKeep == UNCHANGED running /\ root' = Nobody /\ unlocked' = {}
CloseComponents == running' = Closed /\ root' = Nobody /\ unlocked' = {}

-----------------------------------------------------------------------------
(* A request stages its wallet.  No lock is held, so a setup can commit    *)
(* between the two renames of an import, where Configured is false for a   *)
(* moment; Overlap = FALSE leaves such histories out.                      *)

InProgress(steps) == \E q \in Requests : pc[q] \in steps
Importing == InProgress(Locked \union {"import"})
SettingUp == InProgress({"setup", "open"})

BeginStaging(r, step) ==
    /\ pc[r] = "idle"
    /\ disk' = With(disk, Stage(r), NoFiles)
    /\ drop' = [drop EXCEPT ![r] = {Stage(r)}]
    /\ Goto(r, step)
    /\ UNCHANGED <<section, service, trades, kept, faults, restarts>>

StartSetup(r) ==
    /\ ~Configured
    /\ Importing => Overlap
    /\ BeginStaging(r, "setup")

StartImport(r) ==
    /\ Configured
    /\ SettingUp => Overlap
    /\ BeginStaging(r, "import")

\* The order of the four files, the keystore first and the journal last.
StagedBefore(f) ==
    CASE f = "key" -> {}
      [] f = "qday" -> {"key"}
      [] f = "bitcoin" -> {"key", "qday"}
      [] f = "journal" -> {"key", "qday", "bitcoin"}

StageFile(r) ==
    /\ pc[r] \in {"setup", "import"}
    /\ \E f \in Files :
          /\ DOMAIN disk[Stage(r)] = StagedBefore(f)
          /\ \/ /\ Works
                /\ disk' = [disk EXCEPT ![Stage(r)] = With(@, f, r)]
                /\ UNCHANGED pc
             \/ /\ Fails
                /\ Goto(r, "cleanup")
                /\ UNCHANGED disk
    /\ UNCHANGED <<drop, section, service, trades, kept, restarts>>

\* Mutant of Staged: a wallet is staged when its keystore is there.
KeystoreStaged(r) == Exists(Stage(r)) /\ "key" \in DOMAIN disk[Stage(r)]
Staged(r) == Exists(Stage(r)) /\ DOMAIN disk[Stage(r)] = Files

-----------------------------------------------------------------------------
(* Setup installs the first wallet, then takes the lock to open it.        *)

CommitSetup(r) ==
    /\ pc[r] = "setup"
    /\ Staged(r)
    /\ \/ /\ ~Exists(Data)
          /\ Works
          /\ disk' = Renamed(Stage(r), Data)
          /\ drop' = [drop EXCEPT ![r] = {}]
          /\ kept' = kept \union {r}
          /\ Goto(r, "open")
       \/ /\ IF Exists(Data) THEN Works ELSE Fails
          /\ Goto(r, "cleanup")
          /\ UNCHANGED <<disk, drop, kept>>
    /\ UNCHANGED <<section, service, trades, restarts>>

\* The phrase is in memory even when the wallets do not open.
OpenSetup(r) ==
    /\ pc[r] = "open"
    /\ section = Nobody
    /\ root' = r
    /\ \/ Works /\ OpenWorks /\ unlocked' = {"qday", "bitcoin"}
       \/ Fails /\ OpenWorks /\ unlocked' \in {unlocked, unlocked \ {"qday"}}
       \/ OpenFails /\ UNCHANGED unlocked
    /\ Goto(r, "done")
    /\ UNCHANGED <<disk, drop, section, trades, kept, restarts>>

-----------------------------------------------------------------------------
(* ImportRecovery replaces the installed wallet.                           *)

\* Mutant of Trading: swaps count only while the wallet is unlocked.
TradingUnlocked == root # Nobody /\ running # Closed /\ running["journal"] \in trades
Trading == running # Closed /\ running["journal"] \in trades

\* wallets.go:567-606: every lock, then the check of the running journal.
LockAndCheck(r) ==
    /\ pc[r] = "import"
    /\ Staged(r)
    /\ section = Nobody
    /\ \/ /\ running # Closed /\ ~Trading
          /\ section' = r
          /\ Goto(r, "close")
       \/ /\ running = Closed \/ Trading
          /\ Goto(r, "cleanup")
          /\ UNCHANGED section
    /\ UNCHANGED <<disk, drop, service, trades, kept, faults, restarts>>

\* Every component is stopped, also when stopping one reports an error.
CloseWallets(r) ==
    /\ pc[r] = "close"
    /\ CloseComponents
    /\ \/ Works /\ Goto(r, "moveOld")
       \/ Fails /\ Goto(r, "reopen")
    /\ UNCHANGED <<disk, drop, section, trades, kept, restarts>>

MoveOld(r) ==
    /\ pc[r] = "moveOld"
    /\ \/ /\ Works
          /\ disk' = Renamed(Data, Replaced(r))
          /\ drop' = [drop EXCEPT ![r] = @ \union {Replaced(r)}]
          /\ Goto(r, "moveNew")
       \/ /\ Fails
          /\ Goto(r, "reopen")
          /\ UNCHANGED <<disk, drop>>
    /\ UNCHANGED <<section, service, trades, kept, restarts>>

\* Mutant of MoveNew: the old wallet is not moved back.
MoveNewOrGiveUp(r) ==
    /\ pc[r] = "moveNew"
    /\ \/ /\ Works
          /\ disk' = Renamed(Stage(r), Data)
          /\ drop' = [drop EXCEPT ![r] = @ \ {Stage(r)}]
          /\ Goto(r, "verify")
       \/ Fails /\ Goto(r, "reopen") /\ UNCHANGED <<disk, drop>>
    /\ UNCHANGED <<section, service, trades, kept, restarts>>

\* When the staged wallet cannot be moved the old one is moved back; whether
\* that worked is not looked at.
MoveNew(r) ==
    /\ pc[r] = "moveNew"
    /\ \/ /\ ~Exists(Data)
          /\ Works
          /\ disk' = Renamed(Stage(r), Data)
          /\ drop' = [drop EXCEPT ![r] = @ \ {Stage(r)}]
          /\ Goto(r, "verify")
       \/ /\ \/ Exists(Data) /\ Works /\ UNCHANGED disk
             \/ ~Exists(Data) /\ Fails /\ disk' = Renamed(Replaced(r), Data)
             \/ /\ ~Exists(Data)
                /\ faults + 2 <= MaxFaults
                /\ faults' = faults + 2
                /\ UNCHANGED disk
          /\ drop' = [drop EXCEPT ![r] = @ \ {Replaced(r)}]
          /\ Goto(r, "reopen")
    /\ UNCHANGED <<section, service, trades, kept, restarts>>

\* The import is decided when both new wallets are open and unlocked.
Verify(r) ==
    /\ pc[r] = "verify"
    /\ \/ /\ Works
          /\ OpenWorks
          /\ unlocked' = {"qday", "bitcoin"}
          /\ root' = r
          /\ kept' = (kept \ {disk[Replaced(r)]["key"]}) \union {r}
          /\ Goto(r, "removeOld")
       \/ /\ Fails
          /\ UNCHANGED running \/ OpenWorks
          /\ Goto(r, "rollback")
          /\ UNCHANGED <<unlocked, root, kept>>
    /\ UNCHANGED <<disk, drop, section, trades, restarts>>

\* rollback gives up at the first rename that fails; the deferred calls then
\* remove what they were told to.
RollBackNew(r) ==
    /\ pc[r] = "rollback"
    /\ CloseComponents
    /\ \/ /\ Works
          /\ disk' = Renamed(Data, Stage(r))
          /\ drop' = [drop EXCEPT ![r] = @ \union {Stage(r)}]
          /\ Goto(r, "restore")
          /\ UNCHANGED section
       \/ /\ Fails
          /\ Goto(r, "cleanup")
          /\ section' = Nobody
          /\ UNCHANGED <<disk, drop>>
    /\ UNCHANGED <<trades, kept, restarts>>

RollBackOld(r) ==
    /\ pc[r] = "restore"
    /\ \/ /\ ~Exists(Data)
          /\ Works
          /\ disk' = Renamed(Replaced(r), Data)
          /\ drop' = [drop EXCEPT ![r] = @ \ {Replaced(r)}]
          /\ Goto(r, "reopen")
          /\ UNCHANGED section
       \/ /\ IF Exists(Data) THEN Works ELSE Fails
          /\ Goto(r, "cleanup")
          /\ section' = Nobody
          /\ UNCHANGED <<disk, drop>>
    /\ UNCHANGED <<service, trades, kept, restarts>>

Reopen(r) ==
    /\ pc[r] = "reopen"
    /\ \/ Works /\ OpenWorks
       \/ OpenFails
    /\ section' = Nobody
    /\ Goto(r, "cleanup")
    /\ UNCHANGED <<disk, drop, root, unlocked, trades, kept, restarts>>

\* Mutant of RemoveOld: a removal that failed is not tried again.
RemoveOldOnce(r) ==
    /\ pc[r] = "removeOld"
    /\ RemoveAll(Replaced(r))
    /\ drop' = [drop EXCEPT ![r] = @ \ {Replaced(r)}]
    /\ section' = Nobody
    /\ Goto(r, "cleanup")
    /\ UNCHANGED <<service, trades, kept, restarts>>

\* A removal that fails is tried once more by the deferred call.
RemoveOld(r) ==
    /\ pc[r] = "removeOld"
    /\ RemoveAll(Replaced(r))
    /\ drop' = [drop EXCEPT ![r] = @ \ (IF Replaced(r) \in DOMAIN disk' THEN {} ELSE {Replaced(r)})]
    /\ section' = Nobody
    /\ Goto(r, "cleanup")
    /\ UNCHANGED <<service, trades, kept, restarts>>

\* The deferred removals of a request that returns, without its locks.
CleanUp(r) ==
    /\ pc[r] = "cleanup"
    /\ \/ \E d \in drop[r] :
             /\ RemoveAll(d)
             /\ drop' = [drop EXCEPT ![r] = @ \ {d}]
             /\ UNCHANGED pc
       \/ /\ drop[r] = {}
          /\ Goto(r, "done")
          /\ UNCHANGED <<disk, drop, faults>>
    /\ UNCHANGED <<section, service, trades, kept, restarts>>

-----------------------------------------------------------------------------
(* The wallet in use.                                                      *)

Unlock ==
    /\ section = Nobody
    /\ Configured
    /\ \/ /\ Works
          /\ OpenWorks
          /\ root' = disk[Data]["key"]
          /\ unlocked' = {"qday", "bitcoin"}
       \/ /\ Fails
          /\ OpenWorks
          /\ unlocked' \in {unlocked, unlocked \ {"qday"}}
          /\ UNCHANGED root
       \/ /\ OpenFails
          /\ UNCHANGED <<root, unlocked>>
    /\ UNCHANGED <<disk, pc, drop, section, trades, kept, restarts>>

\* The phrase is forgotten also when the QDAY wallet refuses to lock.
Lock ==
    /\ section = Nobody
    /\ root # Nobody \/ unlocked # {}
    /\ root' = Nobody
    /\ \/ Works /\ unlocked' = {}
       \/ running # Closed /\ Fails /\ unlocked' = unlocked \ {"bitcoin"}
    /\ UNCHANGED <<disk, pc, drop, section, running, trades, kept, restarts>>

\* An acceptance or a match enters the journal of the open wallet, under a
\* lock an import takes too (service.go:837, 1432).
BeginTrade ==
    /\ section = Nobody
    /\ root # Nobody
    /\ unlocked = {"qday", "bitcoin"}
    /\ trades' = trades \union {running["journal"]}
    /\ trades' # trades
    /\ UNCHANGED <<disk, pc, drop, section, service, kept, faults, restarts>>

EndTrade ==
    /\ section = Nobody
    /\ Trading
    /\ trades' = trades \ {running["journal"]}
    /\ UNCHANGED <<disk, pc, drop, section, service, kept, faults, restarts>>

\* The program stops, and New opens the installed wallet if there is one.
Restart ==
    /\ restarts < MaxRestarts
    /\ restarts' = restarts + 1
    /\ pc' = [r \in Requests |->
                 IF pc[r] \in {"idle", "done"} THEN pc[r] ELSE "stopped"]
    /\ drop' = [r \in Requests |-> {}]
    /\ section' = Nobody
    /\ running' = IF Configured THEN Restrict(disk[Data], Components) ELSE Closed
    /\ root' = Nobody
    /\ unlocked' = {}
    /\ UNCHANGED <<disk, trades, kept, faults>>

Setup(r) == StartSetup(r) \/ CommitSetup(r) \/ OpenSetup(r)

ImportRecovery(r) ==
    \/ StartImport(r) \/ LockAndCheck(r) \/ CloseWallets(r)
    \/ MoveOld(r) \/ MoveNew(r) \/ Verify(r)
    \/ RollBackNew(r) \/ RollBackOld(r) \/ Reopen(r) \/ RemoveOld(r)

Next ==
    \/ \E r \in Requests : Setup(r) \/ ImportRecovery(r) \/ StageFile(r) \/ CleanUp(r)
    \/ Unlock \/ Lock \/ BeginTrade \/ EndTrade \/ Restart

Spec == Init /\ [][Next]_vars

-----------------------------------------------------------------------------
(* Properties.                                                             *)

\* The variables have their types; the locks are held by a request that is in
\* the locked part of an import, and only open wallets are unlocked.
TypeOK ==
    /\ \E ds \in SUBSET Places : disk \in [ds -> Directories]
    /\ pc \in [Requests -> Steps]
    /\ drop \in [Requests -> SUBSET Places]
    /\ section \in Requests \union {Nobody}
    /\ \A r \in Requests : pc[r] \in Locked <=> section = r
    /\ running = Closed \/ running \in [Components -> Wallets]
    /\ root \in Wallets \union {Nobody}
    /\ unlocked \subseteq {"qday", "bitcoin"} /\ (unlocked # {} => running # Closed)
    /\ trades \subseteq Wallets /\ kept \subseteq Wallets
    /\ faults \in 0..MaxFaults /\ restarts \in 0..MaxRestarts

\* Wherever the renames stop, the installed directory is one whole wallet: its
\* keystore, both wallets and the journal come from the same request.
OneWallet == Exists(Data) => \E w \in Wallets : disk[Data] = Whole(w)

\* What runs is what is installed: the open QDAY and Bitcoin wallets and the
\* journal are the installed directory's, and a recovery phrase in memory is
\* theirs, so an order is never signed by one wallet and funded by another.
RunsWhatIsInstalled ==
    /\ running # Closed =>
          Exists(Data) /\ running = Restrict(disk[Data], Components)
    /\ root # Nobody => Exists(Data) /\ disk[Data]["key"] = root

\* Replaced data is removed only after the new wallets open: every wallet that
\* was installed is whole in some directory until an import has opened and
\* unlocked the wallets replacing it.
RemovedOnlyWhenReplaced ==
    \A w \in kept : \E d \in DOMAIN disk : disk[d] = Whole(w)

\* No wallet in use is lost when one call fails, whichever, and the program
\* stops anywhere: ImportRecovery and its rollback.
KeptUntilReplaced == faults <= 1 => RemovedOnlyWhenReplaced

\* An import that returned keeps no backup of a wallet, and a request that
\* returned left no staged one, unless its removals failed.
NoBackupIsLeft ==
    \A r \in Requests :
        pc[r] = "done" =>
            /\ Exists(Replaced(r)) => faults > 1
            /\ Exists(Stage(r)) => faults > 0

\* A wallet with an unfinished swap stays installed: an import checks the
\* swaps after it has the locks under which they begin.
SwapsKeepTheirWallet ==
    \A w \in trades : Exists(Data) /\ disk[Data] = Whole(w)
=============================================================================
