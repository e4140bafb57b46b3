------------------------------- MODULE Database -------------------------------
(***************************************************************************)
(* The database file, its kernel lock, and the commands that use them.     *)
(* Every command shares the lock for as long as it has a connection; a     *)
(* restore takes it exclusively and replaces the file by a validated copy. *)
(* A process may fail or die at any point, which releases its lock and     *)
(* leaves whatever it did to the files.                                    *)
(*                                                                         *)
(* A file is told by its content: one of Contents under the current ledger,*)
(* or "foreign" (a readable database of another schema), "partial" (a copy *)
(* cut short), "torn" (a transaction is writing it, its journal holds what *)
(* it was) or "corrupt" (a journal was rolled into another file).  SQLite  *)
(* is modelled by what its rollback journal does: while a transaction      *)
(* writes, the journal is hot, and who next reads the file after its       *)
(* writer died rolls it back, which a read-only connection cannot.         *)
(***************************************************************************)
EXTENDS Naturals, FiniteSets

CONSTANTS
    Processes,
    Contents,         \* rows under the current schema
    Fresh,            \* those of an initialized, empty database
    Backups,          \* paths an operator backs up to and restores from
    MaxTransactions,  \* of one command
    MaxRestores,      \* replacements of the file in one behaviour
    None

ASSUME ContentsAssumption ==
    /\ Fresh \in Contents /\ None \notin Contents
    /\ Contents \cap {"missing", "foreign", "partial", "torn", "corrupt"} = {}
ASSUME LimitsAssumption == {MaxTransactions, MaxRestores} \subseteq Nat

Unusable == {"missing", "foreign", "partial", "torn", "corrupt"}
Files == Contents \cup Unusable

VARIABLES
    \* the files
    live,       \* the configured database
    journal,    \* its hot journal: the content it returns to, else None
    inode,      \* how many times the file was replaced
    temporary,  \* <database>.restore.tmp
    backups,    \* of every path in Backups
    snapshots,  \* the contents of the complete pre-restore snapshots
    named,      \* the snapshot of the current clock second exists
    \* the processes
    step,       \* of every process
    lock,       \* what it holds of <database>.lock
    opened,     \* the inode its connection is to, else None
    work,       \* transactions it has left
    path        \* the backup it writes or restores

files == <<live, journal, inode, temporary, backups, snapshots, named>>
processes == <<step, lock, opened, work, path>>
dbvars == <<files, processes>>

Steps ==
    {"idle", "open", "ready", "write", "copy",
     "validate", "snapshot", "keep", "clear", "stage", "replace", "sidecars", "verify",
     "restored"}

\* The restore holds its lock in these.
RestoreSteps ==
    {"validate", "snapshot", "keep", "clear", "stage", "replace", "sidecars", "verify",
     "restored"}

-------------------------------------------------------------------------------

At(p, s) == step[p] = s
Goto(p, s) == step' = [step EXCEPT ![p] = s]
Continue(p, s) == Goto(p, s) /\ UNCHANGED <<lock, opened, work, path>>

\* The guards of the lock and of the connection are dropped.
End(p) ==
    /\ step' = [step EXCEPT ![p] = "idle"]
    /\ lock' = [lock EXCEPT ![p] = "none"]
    /\ opened' = [opened EXCEPT ![p] = None]
    /\ work' = [work EXCEPT ![p] = 0]
    /\ path' = [path EXCEPT ![p] = None]

\* Mutation of ExclusiveIsFree: restores exclude each other only.
OtherRestoresOnly(p) == \A q \in Processes \ {p} : lock[q] # "exclusive"

\* flock(LOCK_SH | LOCK_NB) and flock(LOCK_EX | LOCK_NB)
SharedIsFree(p) == \A q \in Processes \ {p} : lock[q] # "exclusive"
ExclusiveIsFree(p) == \A q \in Processes \ {p} : lock[q] = "none"

Writing == \E p \in Processes : At(p, "write")
JournalIsHot == journal # None

\* Mutation of IsCurrent: the ledger is not read.
IsReadable(content) == content \notin {"missing", "partial"}

\* initialize_or_verify on the content of a file
IsCurrent(content) == content \in Contents

-------------------------------------------------------------------------------
(* Commands that share the database.  A command that finds the lock taken  *)
(* is answered at once that the database is busy, and changes nothing.     *)

\* acquire_shared_database_lock
Share(p, transactions, b) ==
    /\ At(p, "idle") /\ SharedIsFree(p)
    /\ Goto(p, "open")
    /\ lock' = [lock EXCEPT ![p] = "shared"]
    /\ work' = [work EXCEPT ![p] = transactions]
    /\ path' = [path EXCEPT ![p] = b]
    /\ UNCHANGED <<files, opened>>

\* SQLite, when a connection that may write first reads the file.
RollBackJournal(p) ==
    /\ step[p] \in {"open", "ready", "copy", "verify"}
    /\ JournalIsHot /\ ~Writing
    /\ live' = IF live = "torn" THEN journal ELSE "corrupt"
    /\ journal' = None
    /\ UNCHANGED <<inode, temporary, backups, snapshots, named, processes>>

\* database::open
Open(p) ==
    /\ At(p, "open") /\ ~JournalIsHot
    /\ live = "missing" \/ IsCurrent(live)
    /\ live' = IF live = "missing" THEN Fresh ELSE live
    /\ opened' = [opened EXCEPT ![p] = inode]
    /\ Goto(p, "ready")
    /\ UNCHANGED <<journal, inode, temporary, backups, snapshots, named, lock, work, path>>

\* Mutation of BeginTransaction: a second writer does not wait.
BeginUnlocked(p) ==
    /\ At(p, "ready") /\ work[p] > 0
    /\ journal' = live /\ live' = "torn"
    /\ work' = [work EXCEPT ![p] = @ - 1]
    /\ Goto(p, "write")
    /\ UNCHANGED <<inode, temporary, backups, snapshots, named, lock, opened, path>>

BeginTransaction(p) ==
    /\ At(p, "ready") /\ work[p] > 0 /\ ~JournalIsHot
    /\ journal' = live /\ live' = "torn"
    /\ work' = [work EXCEPT ![p] = @ - 1]
    /\ Goto(p, "write")
    /\ UNCHANGED <<inode, temporary, backups, snapshots, named, lock, opened, path>>

Commit(p, content) ==
    /\ At(p, "write")
    /\ live' = content /\ journal' = None
    /\ Continue(p, "ready")
    /\ UNCHANGED <<inode, temporary, backups, snapshots, named>>

\* A transaction dropped before its commit rolls back.
RollBackTransaction(p) ==
    /\ At(p, "write")
    /\ live' = journal /\ journal' = None
    /\ End(p)
    /\ UNCHANGED <<inode, temporary, backups, snapshots, named>>

\* backup_from_connection: an existing destination is refused.
BeginBackup(p) ==
    /\ At(p, "ready") /\ work[p] = 0 /\ path[p] # None
    /\ backups[path[p]] = "missing"
    /\ backups' = [backups EXCEPT ![path[p]] = "partial"]
    /\ Continue(p, "copy")
    /\ UNCHANGED <<live, journal, inode, temporary, snapshots, named>>

FinishBackup(p) ==
    /\ At(p, "copy") /\ ~JournalIsHot
    /\ backups' = [backups EXCEPT ![path[p]] = live]
    /\ End(p)
    /\ UNCHANGED <<live, journal, inode, temporary, snapshots, named>>

Finish(p) ==
    /\ \/ At(p, "ready") /\ work[p] = 0 /\ path[p] = None
       \/ At(p, "restored")
    /\ End(p)
    /\ UNCHANGED files

-------------------------------------------------------------------------------
(* restore_and_verify *)

TakeExclusive(p, b) ==
    /\ At(p, "idle") /\ ExclusiveIsFree(p)
    /\ inode < MaxRestores
    /\ Goto(p, "validate")
    /\ lock' = [lock EXCEPT ![p] = "exclusive"]
    /\ path' = [path EXCEPT ![p] = b]
    /\ UNCHANGED <<files, opened, work>>

\* integrity_check and verify_current_ledger, before anything is touched.
Validate(p) ==
    /\ At(p, "validate") /\ IsCurrent(backups[path[p]])
    /\ Continue(p, "snapshot")
    /\ UNCHANGED files

\* Mutation of SnapshotIsPossible: the snapshot is a copy of the file.
DatabaseExists == live # "missing"

\* backup(path, pre_restore): the connection is read-only, so there must be
\* a database, and none with a hot journal.
SnapshotIsPossible == live # "missing" /\ ~JournalIsHot

\* Mutation of BeginSnapshot: the snapshot of this second will do.
BeginSnapshotOnce(p) ==
    /\ At(p, "snapshot") /\ SnapshotIsPossible
    /\ named' = TRUE
    /\ Continue(p, IF named THEN "clear" ELSE "keep")
    /\ UNCHANGED <<live, journal, inode, temporary, backups, snapshots>>

BeginSnapshot(p) ==
    /\ At(p, "snapshot") /\ ~named /\ SnapshotIsPossible
    /\ named' = TRUE
    /\ Continue(p, "keep")
    /\ UNCHANGED <<live, journal, inode, temporary, backups, snapshots>>

FinishSnapshot(p) ==
    /\ At(p, "keep")
    /\ snapshots' = snapshots \cup {live}
    /\ Continue(p, "clear")
    /\ UNCHANGED <<live, journal, inode, temporary, backups, named>>

\* A temporary file that an earlier restore left is removed.
ClearTemporary(p) ==
    /\ At(p, "clear")
    /\ temporary' = "partial"
    /\ Continue(p, "stage")
    /\ UNCHANGED <<live, journal, inode, backups, snapshots, named>>

Stage(p) ==
    /\ At(p, "stage")
    /\ temporary' = backups[path[p]]
    /\ Continue(p, "replace")
    /\ UNCHANGED <<live, journal, inode, backups, snapshots, named>>

Replace(p) ==
    /\ At(p, "replace")
    /\ live' = temporary /\ temporary' = "missing" /\ inode' = inode + 1
    /\ Continue(p, "sidecars")
    /\ UNCHANGED <<journal, backups, snapshots, named>>

RemoveSidecars(p) ==
    /\ At(p, "sidecars")
    /\ journal' = None
    /\ Continue(p, "verify")
    /\ UNCHANGED <<live, inode, temporary, backups, snapshots, named>>

Verify(p) ==
    /\ At(p, "verify") /\ ~JournalIsHot /\ IsCurrent(live)
    /\ Continue(p, "restored")
    /\ UNCHANGED files

-------------------------------------------------------------------------------
(* Failures *)

\* Mutation of Fail: the lock outlives an error return.
FailHoldingLock(p) ==
    /\ step[p] \notin {"idle", "write", "restored"}
    /\ Continue(p, "idle")
    /\ UNCHANGED files

\* An error return: a refusal of the steps above, a full disk, a busy SQLite.
Fail(p) ==
    /\ step[p] \notin {"idle", "write", "restored"}
    /\ End(p)
    /\ UNCHANGED files

Crash(p) ==
    /\ ~At(p, "idle")
    /\ End(p)
    /\ UNCHANGED files

\* The clock reaches the next second.
Tick == named /\ named' = FALSE
        /\ UNCHANGED <<live, journal, inode, temporary, backups, snapshots, processes>>

-------------------------------------------------------------------------------

DbInit ==
    /\ live \in Contents \cup {"missing", "foreign"}
    /\ journal = None /\ inode = 0 /\ temporary = "missing"
    /\ backups \in [Backups -> Contents \cup {"missing", "foreign", "partial"}]
    /\ snapshots = {} /\ named = FALSE
    /\ step = [p \in Processes |-> "idle"]
    /\ lock = [p \in Processes |-> "none"]
    /\ opened = [p \in Processes |-> None]
    /\ work = [p \in Processes |-> 0]
    /\ path = [p \in Processes |-> None]

Begin(p) ==
    \/ \E n \in 0..MaxTransactions : Share(p, n, None)
    \/ \E b \in Backups : Share(p, 0, b) \/ TakeExclusive(p, b)

Step(p) ==
    \/ Open(p) \/ BeginTransaction(p) \/ RollBackTransaction(p)
    \/ \E content \in Contents : Commit(p, content)
    \/ BeginBackup(p) \/ FinishBackup(p) \/ Finish(p)
    \/ Validate(p) \/ BeginSnapshot(p) \/ FinishSnapshot(p) \/ ClearTemporary(p)
    \/ Stage(p) \/ Replace(p) \/ RemoveSidecars(p) \/ Verify(p)
    \/ Fail(p)

DbNext ==
    \/ Tick
    \/ \E p \in Processes : Begin(p) \/ RollBackJournal(p) \/ Step(p) \/ Crash(p)

\* A process goes on until it returns: what it waits for in SQLite times out.
DbSpec ==
    /\ DbInit /\ [][DbNext]_dbvars
    /\ \A p \in Processes : WF_dbvars(Step(p))

-------------------------------------------------------------------------------
(* Properties *)

DbTypeOK ==
    /\ live \in Files /\ journal \in Contents \cup {None} /\ inode \in Nat
    /\ temporary \in Files /\ backups \in [Backups -> Files]
    /\ snapshots \subseteq Files /\ named \in BOOLEAN
    /\ step \in [Processes -> Steps]
    /\ lock \in [Processes -> {"none", "shared", "exclusive"}]
    /\ opened \in [Processes -> Nat \cup {None}]
    /\ work \in [Processes -> Nat]
    /\ path \in [Processes -> Backups \cup {None}]

\* INV-DB-007: the lock "serializes replacement against every other database
\* user".  No connection outlives the file it was opened on, so no command
\* commits into a file that is gone, or continues on rows a restore put there.
ConnectionsAreCurrent == \A p \in Processes : opened[p] \in {None, inode}

\* A journal is rolled back only into the file it was written for, although a
\* restore removes the journal after it put another file in its place.
JournalBelongs == live # "corrupt"

\* "Restore never reports success for an unusable database": at success the
\* database is the copy the operator chose, whatever was left by earlier ones.
RestoredIsSource ==
    \A p \in Processes : At(p, "restored") => live \in Contents /\ live = backups[path[p]]

\* What the next command reads: a hot journal without a writer is rolled back.
RowsAsRead ==
    IF JournalIsHot THEN (IF live = "torn" THEN journal ELSE "corrupt")
    ELSE IF live = "missing" THEN None ELSE live

Durable == INSTANCE DurableRows WITH
    rows     <- RowsAsRead,
    kept     <- snapshots,
    restores <- inode,
    Others   <- {None, "foreign"}

\* Across crashes, failures and restores the rows change only by a whole
\* transaction or a whole restore, and no restore discards rows it did not keep.
ImplementsDurableRows == Durable!Spec

\* Every command gives the lock back, so a restore is never busy for ever.
LocksAreReleased == \A p \in Processes : lock[p] # "none" ~> lock[p] = "none"

===============================================================================
