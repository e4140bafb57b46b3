---------------------------- MODULE DatabaseProofs ----------------------------
(***************************************************************************)
(* Proofs about Database for every set of processes, contents and backups: *)
(* the lock keeps a restore alone (RestoreIsAlone), so a connection is     *)
(* always to the file in place; a journal is hot only beside the file it   *)
(* was written for (JournalIsOfFile), because a restore cannot take its    *)
(* snapshot beside one; and what a restore has done by each of its steps   *)
(* (RestoreIsPrepared) makes every replacement that of rows it kept.       *)
(***************************************************************************)
EXTENDS Database, TLAPS

-------------------------------------------------------------------------------
(* The inductive invariant *)

\* A process holds the lock its step needs.
LocksMatchSteps ==
    \A p \in Processes :
        /\ step[p] \in RestoreSteps <=> lock[p] = "exclusive"
        /\ step[p] = "idle" <=> lock[p] = "none"

\* Who holds the lock exclusively is the only holder.
RestoreIsAlone ==
    \A p, q \in Processes : p # q /\ lock[p] = "exclusive" => lock[q] = "none"

\* A connection is to the file in place, is that of a command, and reads rows.
ConnectionsShare ==
    \A p \in Processes :
        /\ opened[p] # None => opened[p] = inode /\ lock[p] = "shared"
        /\ step[p] \in {"ready", "write", "copy"} => live \in Contents \cup {"torn"}

\* The file is torn exactly while its journal is hot, by one writer at most.
JournalIsOfFile ==
    /\ live \in Contents \cup {"missing", "foreign", "torn"}
    /\ live = "torn" <=> JournalIsHot
    /\ \A p \in Processes : At(p, "write") => JournalIsHot
    /\ \A p, q \in Processes : At(p, "write") /\ At(q, "write") => p = q

\* What a restore knows at each of its steps.
RestoreIsPrepared ==
    \A p \in Processes :
        /\ step[p] \in RestoreSteps \cup {"copy"} => path[p] \in Backups
        /\ step[p] \in RestoreSteps \ {"validate"} => backups[path[p]] \in Contents
        /\ step[p] \in RestoreSteps \ {"validate", "snapshot"} =>
               ~JournalIsHot /\ live # "missing"
        /\ step[p] \in {"clear", "stage", "replace"} => live \in snapshots
        /\ At(p, "replace") => temporary = backups[path[p]]
        /\ step[p] \in {"sidecars", "verify", "restored"} => live = backups[path[p]]

LockInvariant == DbTypeOK /\ LocksMatchSteps /\ RestoreIsAlone
DbInvariant ==
    LockInvariant /\ ConnectionsShare /\ JournalIsOfFile /\ RestoreIsPrepared
-------------------------------------------------------------------------------
(* Types *)

\* Strings and numbers that the steps below rely on.
LEMMA Constants ==
    /\ Fresh \in Contents /\ None \notin Contents
    /\ Contents \subseteq Files
    /\ \A content \in Contents : content \notin Unusable
  BY ContentsAssumption DEF Files, Unusable

\* A process that ends keeps the types of the processes.
LEMMA EndType ==
    ASSUME DbTypeOK, NEW p \in Processes, End(p)
    PROVE  /\ step' \in [Processes -> Steps]
           /\ lock' \in [Processes -> {"none", "shared", "exclusive"}]
           /\ opened' \in [Processes -> Nat \cup {None}]
           /\ work' \in [Processes -> Nat]
           /\ path' \in [Processes -> Backups \cup {None}]
  BY DEF End, DbTypeOK, Steps

\* Every step keeps the types.
LEMMA StepType ==
    ASSUME DbInvariant, [DbNext]_dbvars
    PROVE  DbTypeOK'
<1> USE DEF files, processes, DbInvariant, LockInvariant
<1>1. CASE Tick
  BY <1>1 DEF Tick, DbTypeOK
<1>2. ASSUME NEW p \in Processes, Begin(p)
      PROVE  DbTypeOK'
  <2>1. ASSUME NEW n \in Nat, NEW b \in Backups \cup {None}, Share(p, n, b)
        PROVE  DbTypeOK'
    BY <2>1 DEF Share, Goto, DbTypeOK, Steps
  <2>2. ASSUME NEW b \in Backups, TakeExclusive(p, b)
        PROVE  DbTypeOK'
    BY <2>2 DEF TakeExclusive, Goto, DbTypeOK, Steps
  <2>3. 0..MaxTransactions \subseteq Nat /\ 0 \in Nat
    BY LimitsAssumption
  <2> QED BY <1>2, <2>1, <2>2, <2>3 DEF Begin
<1>3. ASSUME NEW p \in Processes, RollBackJournal(p)
      PROVE  DbTypeOK'
  BY <1>3 DEF RollBackJournal, JournalIsHot, DbTypeOK, Files, Unusable
<1>4. ASSUME NEW p \in Processes, Step(p)
      PROVE  DbTypeOK'
  <2>1. CASE Open(p)
    BY <2>1, Constants DEF Open, Goto, IsCurrent, DbTypeOK, Steps
  <2>2. CASE BeginTransaction(p)
    BY <2>2, Constants
       DEF BeginTransaction, At, ConnectionsShare, JournalIsOfFile, Goto, JournalIsHot,
           IsCurrent, Files, Unusable, DbTypeOK, Steps
  <2>3. CASE RollBackTransaction(p)
    BY <2>3, EndType, Constants
       DEF RollBackTransaction, At, JournalIsHot, JournalIsOfFile, DbTypeOK, Files,
           Unusable
  <2>4. CASE \E content \in Contents : Commit(p, content)
    BY <2>4, Constants DEF Commit, Continue, Goto, DbTypeOK, Steps
  <2>5. CASE BeginBackup(p)
    BY <2>5, Constants DEF BeginBackup, Continue, Goto, Files, Unusable, DbTypeOK, Steps
  <2>6. CASE FinishBackup(p)
    BY <2>6, EndType, Constants DEF FinishBackup, DbTypeOK, Files, Unusable
  <2>7. CASE Finish(p)
    BY <2>7, EndType, Constants DEF Finish, DbTypeOK
  <2>8. CASE Validate(p)
    BY <2>8, Constants DEF Validate, Continue, Goto, DbTypeOK, Steps
  <2>9. CASE BeginSnapshot(p)
    BY <2>9, Constants DEF BeginSnapshot, Continue, Goto, DbTypeOK, Steps
  <2>10. CASE FinishSnapshot(p)
    BY <2>10, Constants DEF FinishSnapshot, Continue, Goto, DbTypeOK, Steps
  <2>11. CASE ClearTemporary(p)
    BY <2>11, Constants
       DEF ClearTemporary, Continue, Goto, Files, Unusable, DbTypeOK, Steps
  <2>12. CASE Stage(p)
    BY <2>12, Constants
       DEF RestoreIsPrepared, RestoreSteps, At, Stage, Continue, Goto, DbTypeOK, Steps
  <2>13. CASE Replace(p)
    BY <2>13, Constants DEF Replace, Continue, Goto, Files, Unusable, DbTypeOK, Steps
  <2>14. CASE RemoveSidecars(p)
    BY <2>14, Constants DEF RemoveSidecars, Continue, Goto, DbTypeOK, Steps
  <2>15. CASE Verify(p)
    BY <2>15, Constants DEF Verify, Continue, Goto, DbTypeOK, Steps
  <2>16. CASE Fail(p)
    BY <2>16, EndType, Constants DEF Fail, DbTypeOK
  <2> QED
    BY <1>4, <2>1, <2>2, <2>3, <2>4, <2>5, <2>6, <2>7, <2>8, <2>9, <2>10, <2>11,
       <2>12, <2>13, <2>14, <2>15, <2>16 DEF Step
<1>5. ASSUME NEW p \in Processes, Crash(p)
      PROVE  DbTypeOK'
  BY <1>5, EndType DEF Crash, DbTypeOK
<1>6. CASE UNCHANGED dbvars
  BY <1>6 DEF dbvars, DbTypeOK
<1> QED BY <1>1, <1>2, <1>3, <1>4, <1>5, <1>6 DEF DbNext

-------------------------------------------------------------------------------
(* Preservation: one lemma for each part, one step for each action *)

\* Every step keeps the lock with who needs it.
LEMMA StepLocks ==
    ASSUME DbInvariant, [DbNext]_dbvars
    PROVE  LocksMatchSteps'
<1> USE DEF files, processes, DbInvariant, LockInvariant, At, Goto, Continue, End,
            LocksMatchSteps, RestoreSteps, DbTypeOK, Steps, IsCurrent
<1>1. CASE Tick
  BY <1>1 DEF Tick
<1>2. ASSUME NEW p \in Processes, Begin(p)
      PROVE  LocksMatchSteps'
  <2>1. ASSUME NEW n \in Nat, NEW b \in Backups \cup {None}, Share(p, n, b)
        PROVE  LocksMatchSteps'
    BY <2>1 DEF Share
  <2>2. ASSUME NEW b \in Backups, TakeExclusive(p, b)
        PROVE  LocksMatchSteps'
    BY <2>2 DEF TakeExclusive
  <2>3. 0..MaxTransactions \subseteq Nat /\ 0 \in Nat
    BY LimitsAssumption
  <2> QED BY <1>2, <2>1, <2>2, <2>3 DEF Begin
<1>3. ASSUME NEW p \in Processes, RollBackJournal(p)
      PROVE  LocksMatchSteps'
  BY <1>3 DEF RollBackJournal
<1>4. ASSUME NEW p \in Processes, Step(p)
      PROVE  LocksMatchSteps'
  <2>1. CASE Open(p)
    BY <2>1 DEF Open
  <2>2. CASE BeginTransaction(p)
    BY <2>2 DEF BeginTransaction
  <2>3. CASE RollBackTransaction(p)
    BY <2>3 DEF RollBackTransaction
  <2>4. CASE \E content \in Contents : Commit(p, content)
    BY <2>4 DEF Commit
  <2>5. CASE BeginBackup(p)
    BY <2>5 DEF BeginBackup
  <2>6. CASE FinishBackup(p)
    BY <2>6 DEF FinishBackup
  <2>7. CASE Finish(p)
    BY <2>7 DEF Finish
  <2>8. CASE Validate(p)
    BY <2>8 DEF Validate
  <2>9. CASE BeginSnapshot(p)
    BY <2>9 DEF BeginSnapshot
  <2>10. CASE FinishSnapshot(p)
    BY <2>10 DEF FinishSnapshot
  <2>11. CASE ClearTemporary(p)
    BY <2>11 DEF ClearTemporary
  <2>12. CASE Stage(p)
    BY <2>12 DEF Stage
  <2>13. CASE Replace(p)
    BY <2>13 DEF Replace
  <2>14. CASE RemoveSidecars(p)
    BY <2>14 DEF RemoveSidecars
  <2>15. CASE Verify(p)
    BY <2>15 DEF Verify
  <2>16. CASE Fail(p)
    BY <2>16 DEF Fail
  <2> QED
    BY <1>4, <2>1, <2>2, <2>3, <2>4, <2>5, <2>6, <2>7, <2>8, <2>9, <2>10, <2>11,
       <2>12, <2>13, <2>14, <2>15, <2>16 DEF Step
<1>5. ASSUME NEW p \in Processes, Crash(p)
      PROVE  LocksMatchSteps'
  BY <1>5 DEF Crash
<1>6. CASE UNCHANGED dbvars
  BY <1>6 DEF dbvars
<1> QED BY <1>1, <1>2, <1>3, <1>4, <1>5, <1>6 DEF DbNext

\* Every step keeps an exclusive holder alone.
LEMMA StepAlone ==
    ASSUME DbInvariant, [DbNext]_dbvars
    PROVE  RestoreIsAlone'
<1> USE DEF files, processes, DbInvariant, LockInvariant, At, Goto, Continue, End,
            RestoreIsAlone, SharedIsFree, ExclusiveIsFree, LocksMatchSteps, DbTypeOK,
            IsCurrent
<1>1. CASE Tick
  BY <1>1 DEF Tick
<1>2. ASSUME NEW p \in Processes, Begin(p)
      PROVE  RestoreIsAlone'
  <2>1. ASSUME NEW n \in Nat, NEW b \in Backups \cup {None}, Share(p, n, b)
        PROVE  RestoreIsAlone'
    BY <2>1 DEF Share
  <2>2. ASSUME NEW b \in Backups, TakeExclusive(p, b)
        PROVE  RestoreIsAlone'
    BY <2>2 DEF TakeExclusive
  <2>3. 0..MaxTransactions \subseteq Nat /\ 0 \in Nat
    BY LimitsAssumption
  <2> QED BY <1>2, <2>1, <2>2, <2>3 DEF Begin
<1>3. ASSUME NEW p \in Processes, RollBackJournal(p)
      PROVE  RestoreIsAlone'
  BY <1>3 DEF RollBackJournal
<1>4. ASSUME NEW p \in Processes, Step(p)
      PROVE  RestoreIsAlone'
  <2>1. CASE Open(p)
    BY <2>1 DEF Open
  <2>2. CASE BeginTransaction(p)
    BY <2>2 DEF BeginTransaction
  <2>3. CASE RollBackTransaction(p)
    BY <2>3 DEF RollBackTransaction
  <2>4. CASE \E content \in Contents : Commit(p, content)
    BY <2>4 DEF Commit
  <2>5. CASE BeginBackup(p)
    BY <2>5 DEF BeginBackup
  <2>6. CASE FinishBackup(p)
    BY <2>6 DEF FinishBackup
  <2>7. CASE Finish(p)
    BY <2>7 DEF Finish
  <2>8. CASE Validate(p)
    BY <2>8 DEF Validate
  <2>9. CASE BeginSnapshot(p)
    BY <2>9 DEF BeginSnapshot
  <2>10. CASE FinishSnapshot(p)
    BY <2>10 DEF FinishSnapshot
  <2>11. CASE ClearTemporary(p)
    BY <2>11 DEF ClearTemporary
  <2>12. CASE Stage(p)
    BY <2>12 DEF Stage
  <2>13. CASE Replace(p)
    BY <2>13 DEF Replace
  <2>14. CASE RemoveSidecars(p)
    BY <2>14 DEF RemoveSidecars
  <2>15. CASE Verify(p)
    BY <2>15 DEF Verify
  <2>16. CASE Fail(p)
    BY <2>16 DEF Fail
  <2> QED
    BY <1>4, <2>1, <2>2, <2>3, <2>4, <2>5, <2>6, <2>7, <2>8, <2>9, <2>10, <2>11,
       <2>12, <2>13, <2>14, <2>15, <2>16 DEF Step
<1>5. ASSUME NEW p \in Processes, Crash(p)
      PROVE  RestoreIsAlone'
  BY <1>5 DEF Crash
<1>6. CASE UNCHANGED dbvars
  BY <1>6 DEF dbvars
<1> QED BY <1>1, <1>2, <1>3, <1>4, <1>5, <1>6 DEF DbNext

\* Every step keeps the connections on the file in place.
LEMMA StepConnections ==
    ASSUME DbInvariant, [DbNext]_dbvars
    PROVE  ConnectionsShare'
<1> USE Constants DEF files, processes, DbInvariant, LockInvariant, At, Goto, Continue,
            End, ConnectionsShare, LocksMatchSteps, RestoreIsAlone, RestoreSteps,
            DbTypeOK, JournalIsOfFile, JournalIsHot, Steps, IsCurrent
<1>1. CASE Tick
  BY <1>1 DEF Tick
<1>2. ASSUME NEW p \in Processes, Begin(p)
      PROVE  ConnectionsShare'
  <2>1. ASSUME NEW n \in Nat, NEW b \in Backups \cup {None}, Share(p, n, b)
        PROVE  ConnectionsShare'
    BY <2>1 DEF Share
  <2>2. ASSUME NEW b \in Backups, TakeExclusive(p, b)
        PROVE  ConnectionsShare'
    BY <2>2 DEF TakeExclusive
  <2>3. 0..MaxTransactions \subseteq Nat /\ 0 \in Nat
    BY LimitsAssumption
  <2> QED BY <1>2, <2>1, <2>2, <2>3 DEF Begin
<1>3. ASSUME NEW p \in Processes, RollBackJournal(p)
      PROVE  ConnectionsShare'
  BY <1>3 DEF RollBackJournal
<1>4. ASSUME NEW p \in Processes, Step(p)
      PROVE  ConnectionsShare'
  <2>1. CASE Open(p)
    BY <2>1 DEF Open
  <2>2. CASE BeginTransaction(p)
    BY <2>2 DEF BeginTransaction
  <2>3. CASE RollBackTransaction(p)
    BY <2>3 DEF RollBackTransaction
  <2>4. CASE \E content \in Contents : Commit(p, content)
    BY <2>4 DEF Commit
  <2>5. CASE BeginBackup(p)
    BY <2>5 DEF BeginBackup
  <2>6. CASE FinishBackup(p)
    BY <2>6 DEF FinishBackup
  <2>7. CASE Finish(p)
    BY <2>7 DEF Finish
  <2>8. CASE Validate(p)
    BY <2>8 DEF Validate
  <2>9. CASE BeginSnapshot(p)
    BY <2>9 DEF BeginSnapshot
  <2>10. CASE FinishSnapshot(p)
    BY <2>10 DEF FinishSnapshot
  <2>11. CASE ClearTemporary(p)
    BY <2>11 DEF ClearTemporary
  <2>12. CASE Stage(p)
    BY <2>12 DEF Stage
  <2>13. CASE Replace(p)
    BY <2>13 DEF Replace
  <2>14. CASE RemoveSidecars(p)
    BY <2>14 DEF RemoveSidecars
  <2>15. CASE Verify(p)
    BY <2>15 DEF Verify
  <2>16. CASE Fail(p)
    BY <2>16 DEF Fail
  <2> QED
    BY <1>4, <2>1, <2>2, <2>3, <2>4, <2>5, <2>6, <2>7, <2>8, <2>9, <2>10, <2>11,
       <2>12, <2>13, <2>14, <2>15, <2>16 DEF Step
<1>5. ASSUME NEW p \in Processes, Crash(p)
      PROVE  ConnectionsShare'
  BY <1>5 DEF Crash
<1>6. CASE UNCHANGED dbvars
  BY <1>6 DEF dbvars
<1> QED BY <1>1, <1>2, <1>3, <1>4, <1>5, <1>6 DEF DbNext

\* Every step keeps the journal with its file.
LEMMA StepJournal ==
    ASSUME DbInvariant, [DbNext]_dbvars
    PROVE  JournalIsOfFile'
<1> USE Constants DEF files, processes, DbInvariant, LockInvariant, At, Goto, Continue,
            End, JournalIsOfFile, RestoreIsPrepared, ConnectionsShare, JournalIsHot,
            RestoreSteps, Writing, Unusable, DbTypeOK, Steps, IsCurrent
<1>1. CASE Tick
  BY <1>1 DEF Tick
<1>2. ASSUME NEW p \in Processes, Begin(p)
      PROVE  JournalIsOfFile'
  <2>1. ASSUME NEW n \in Nat, NEW b \in Backups \cup {None}, Share(p, n, b)
        PROVE  JournalIsOfFile'
    BY <2>1 DEF Share
  <2>2. ASSUME NEW b \in Backups, TakeExclusive(p, b)
        PROVE  JournalIsOfFile'
    BY <2>2 DEF TakeExclusive
  <2>3. 0..MaxTransactions \subseteq Nat /\ 0 \in Nat
    BY LimitsAssumption
  <2> QED BY <1>2, <2>1, <2>2, <2>3 DEF Begin
<1>3. ASSUME NEW p \in Processes, RollBackJournal(p)
      PROVE  JournalIsOfFile'
  BY <1>3 DEF RollBackJournal
<1>4. ASSUME NEW p \in Processes, Step(p)
      PROVE  JournalIsOfFile'
  <2>1. CASE Open(p)
    BY <2>1 DEF Open
  <2>2. CASE BeginTransaction(p)
    BY <2>2 DEF BeginTransaction
  <2>3. CASE RollBackTransaction(p)
    BY <2>3 DEF RollBackTransaction
  <2>4. CASE \E content \in Contents : Commit(p, content)
    BY <2>4 DEF Commit
  <2>5. CASE BeginBackup(p)
    BY <2>5 DEF BeginBackup
  <2>6. CASE FinishBackup(p)
    BY <2>6 DEF FinishBackup
  <2>7. CASE Finish(p)
    BY <2>7 DEF Finish
  <2>8. CASE Validate(p)
    BY <2>8 DEF Validate
  <2>9. CASE BeginSnapshot(p)
    BY <2>9 DEF BeginSnapshot
  <2>10. CASE FinishSnapshot(p)
    BY <2>10 DEF FinishSnapshot
  <2>11. CASE ClearTemporary(p)
    BY <2>11 DEF ClearTemporary
  <2>12. CASE Stage(p)
    BY <2>12 DEF Stage
  <2>13. CASE Replace(p)
    BY <2>13 DEF Replace
  <2>14. CASE RemoveSidecars(p)
    BY <2>14 DEF RemoveSidecars
  <2>15. CASE Verify(p)
    BY <2>15 DEF Verify
  <2>16. CASE Fail(p)
    BY <2>16 DEF Fail
  <2> QED
    BY <1>4, <2>1, <2>2, <2>3, <2>4, <2>5, <2>6, <2>7, <2>8, <2>9, <2>10, <2>11,
       <2>12, <2>13, <2>14, <2>15, <2>16 DEF Step
<1>5. ASSUME NEW p \in Processes, Crash(p)
      PROVE  JournalIsOfFile'
  BY <1>5 DEF Crash
<1>6. CASE UNCHANGED dbvars
  BY <1>6 DEF dbvars
<1> QED BY <1>1, <1>2, <1>3, <1>4, <1>5, <1>6 DEF DbNext

\* Every step keeps what a restore has prepared.
LEMMA StepRestore ==
    ASSUME DbInvariant, [DbNext]_dbvars
    PROVE  RestoreIsPrepared'
<1> USE Constants DEF files, processes, DbInvariant, LockInvariant, At, Goto, Continue,
            End, RestoreIsPrepared, LocksMatchSteps, RestoreIsAlone, RestoreSteps,
            JournalIsHot, JournalIsOfFile, SnapshotIsPossible, IsCurrent, Unusable,
            Writing, DbTypeOK
<1>1. CASE Tick
  BY <1>1 DEF Tick
<1>2. ASSUME NEW p \in Processes, Begin(p)
      PROVE  RestoreIsPrepared'
  <2>1. ASSUME NEW n \in Nat, NEW b \in Backups \cup {None}, Share(p, n, b)
        PROVE  RestoreIsPrepared'
    BY <2>1 DEF Share
  <2>2. ASSUME NEW b \in Backups, TakeExclusive(p, b)
        PROVE  RestoreIsPrepared'
    BY <2>2 DEF TakeExclusive
  <2>3. 0..MaxTransactions \subseteq Nat /\ 0 \in Nat
    BY LimitsAssumption
  <2> QED BY <1>2, <2>1, <2>2, <2>3 DEF Begin
<1>3. ASSUME NEW p \in Processes, RollBackJournal(p)
      PROVE  RestoreIsPrepared'
  BY <1>3 DEF RollBackJournal
<1>4. ASSUME NEW p \in Processes, Step(p)
      PROVE  RestoreIsPrepared'
  <2>1. CASE Open(p)
    BY <2>1 DEF Open
  <2>2. CASE BeginTransaction(p)
    BY <2>2 DEF BeginTransaction
  <2>3. CASE RollBackTransaction(p)
    BY <2>3 DEF RollBackTransaction
  <2>4. CASE \E content \in Contents : Commit(p, content)
    BY <2>4 DEF Commit
  <2>5. CASE BeginBackup(p)
    BY <2>5 DEF BeginBackup
  <2>6. CASE FinishBackup(p)
    BY <2>6 DEF FinishBackup
  <2>7. CASE Finish(p)
    BY <2>7 DEF Finish
  <2>8. CASE Validate(p)
    BY <2>8 DEF Validate
  <2>9. CASE BeginSnapshot(p)
    BY <2>9 DEF BeginSnapshot
  <2>10. CASE FinishSnapshot(p)
    BY <2>10 DEF FinishSnapshot
  <2>11. CASE ClearTemporary(p)
    BY <2>11 DEF ClearTemporary
  <2>12. CASE Stage(p)
    BY <2>12 DEF Stage
  <2>13. CASE Replace(p)
    BY <2>13 DEF Replace
  <2>14. CASE RemoveSidecars(p)
    BY <2>14 DEF RemoveSidecars
  <2>15. CASE Verify(p)
    BY <2>15 DEF Verify
  <2>16. CASE Fail(p)
    BY <2>16 DEF Fail
  <2> QED
    BY <1>4, <2>1, <2>2, <2>3, <2>4, <2>5, <2>6, <2>7, <2>8, <2>9, <2>10, <2>11,
       <2>12, <2>13, <2>14, <2>15, <2>16 DEF Step
<1>5. ASSUME NEW p \in Processes, Crash(p)
      PROVE  RestoreIsPrepared'
  BY <1>5 DEF Crash
<1>6. CASE UNCHANGED dbvars
  BY <1>6 DEF dbvars
<1> QED BY <1>1, <1>2, <1>3, <1>4, <1>5, <1>6 DEF DbNext

\* The files as an operator finds or leaves them, and no process.
LEMMA InitInvariant == DbInit => DbInvariant
<1> SUFFICES ASSUME DbInit PROVE DbInvariant
  OBVIOUS
<1> USE Constants DEF DbInit, DbInvariant, LockInvariant, RestoreSteps, JournalIsHot, At
<1>1. DbTypeOK
  BY DEF DbTypeOK, Files, Unusable, Steps
<1>2. LocksMatchSteps /\ RestoreIsAlone /\ ConnectionsShare
  BY DEF LocksMatchSteps, RestoreIsAlone, ConnectionsShare
<1>3. JournalIsOfFile /\ RestoreIsPrepared
  BY DEF JournalIsOfFile, RestoreIsPrepared, Unusable
<1> QED BY <1>1, <1>2, <1>3

-------------------------------------------------------------------------------
(* Theorems *)

\* The strengthened invariant: every step keeps it from the start.
THEOREM DbInvariantHolds == DbSpec => []DbInvariant
<1>1. DbInvariant /\ [DbNext]_dbvars => DbInvariant'
  BY StepType, StepLocks, StepAlone, StepConnections, StepJournal, StepRestore
     DEF DbInvariant, LockInvariant
<1> QED BY InitInvariant, <1>1, PTL DEF DbSpec

\* No connection outlives the file it was opened on, for any number of
\* processes, whichever fail or die.
THEOREM RestoreExcludesCommands == DbSpec => []ConnectionsAreCurrent
<1>1. DbInvariant => ConnectionsAreCurrent
  BY DEF DbInvariant, ConnectionsShare, ConnectionsAreCurrent
<1> QED BY <1>1, DbInvariantHolds, PTL

\* No journal is rolled back into a file that a restore put in place.
THEOREM JournalsBelong == DbSpec => []JournalBelongs
<1>1. DbInvariant => JournalBelongs
  BY Constants DEF DbInvariant, JournalIsOfFile, JournalBelongs, Unusable
<1> QED BY <1>1, DbInvariantHolds, PTL

\* A restore that reports success left the chosen copy in place.
THEOREM RestoresAreTrue == DbSpec => []RestoredIsSource
<1>1. DbInvariant => RestoredIsSource
  BY DEF DbInvariant, RestoreIsPrepared, RestoredIsSource, RestoreSteps, At
<1> QED BY <1>1, DbInvariantHolds, PTL

\* What the next command reads, where the invariant holds.
LEMMA RowsAreRead ==
    ASSUME DbInvariant
    PROVE  /\ JournalIsHot => RowsAsRead = journal
           /\ ~JournalIsHot /\ live # "missing" => RowsAsRead = live
           /\ live = "missing" => RowsAsRead = None
  BY Constants DEF DbInvariant, JournalIsOfFile, RowsAsRead, Unusable

\* The rows and the snapshots are those of a durable database: transactions
\* and restores change them, crashes and failures do not, and a restore
\* replaces only rows that a snapshot holds.
LEMMA StepRefines ==
    ASSUME DbInvariant, DbInvariant', [DbNext]_dbvars
    PROVE  [Durable!Next]_(Durable!rvars)
<1> USE DEF files, processes, Durable!rvars, JournalIsHot
<1>a. /\ JournalIsHot' => RowsAsRead' = journal'
      /\ ~JournalIsHot' /\ live' # "missing" => RowsAsRead' = live'
      /\ live' = "missing" => RowsAsRead' = None
  BY Constants DEF DbInvariant, JournalIsOfFile, RowsAsRead, Unusable
<1>1. ASSUME UNCHANGED <<live, journal, inode, snapshots>>
      PROVE  UNCHANGED <<RowsAsRead, snapshots, inode>>
  BY <1>1 DEF RowsAsRead
<1>2. CASE Tick
  BY <1>1, <1>2 DEF Tick
<1>3. ASSUME NEW p \in Processes, Begin(p) \/ Crash(p)
      PROVE  UNCHANGED Durable!rvars
  BY <1>1, <1>3 DEF Begin, Share, TakeExclusive, Crash
<1>4. ASSUME NEW p \in Processes, RollBackJournal(p)
      PROVE  UNCHANGED Durable!rvars
  <2>1. live' = journal /\ journal \in Contents
    BY <1>4 DEF RollBackJournal, DbInvariant, LockInvariant, DbTypeOK, JournalIsOfFile
  <2> QED BY <1>4, <2>1, <1>a, RowsAreRead, Constants DEF RollBackJournal, Unusable
<1>5. ASSUME NEW p \in Processes, Step(p)
      PROVE  [Durable!Next]_(Durable!rvars)
  <2>1. CASE Open(p)
    BY <2>1, <1>a, RowsAreRead, Constants
       DEF Open, IsCurrent, Unusable, Durable!Next, Durable!Write
  <2>2. CASE BeginTransaction(p)
    <3>1. live \in Contents /\ journal' = live
      BY <2>2 DEF BeginTransaction, DbInvariant, ConnectionsShare, JournalIsOfFile, At
    <3> QED BY <2>2, <3>1, <1>a, RowsAreRead, Constants DEF BeginTransaction, Unusable
  <2>3. CASE RollBackTransaction(p)
    <3>1. live' = journal /\ journal \in Contents
      BY <2>3
         DEF RollBackTransaction, DbInvariant, LockInvariant, DbTypeOK, JournalIsOfFile
    <3> QED BY <2>3, <3>1, <1>a, RowsAreRead, Constants DEF RollBackTransaction, Unusable
  <2>4. CASE \E content \in Contents : Commit(p, content)
    BY <2>4, <1>a, Constants DEF Commit, Continue, Unusable, Durable!Next, Durable!Write
  <2>5. CASE FinishSnapshot(p)
    <3>1. RowsAsRead = live /\ RowsAsRead' = RowsAsRead
      BY <2>5, <1>a, RowsAreRead
         DEF FinishSnapshot, Continue, DbInvariant, RestoreIsPrepared, RestoreSteps, At
    <3> QED BY <2>5, <3>1 DEF FinishSnapshot, Continue, Durable!Next, Durable!Keep
  <2>6. CASE Replace(p)
    <3>1. RowsAsRead = live /\ live \in snapshots /\ temporary \in Contents
      BY <2>6, RowsAreRead
         DEF Replace, DbInvariant, RestoreIsPrepared, RestoreSteps, At
    <3>2. RowsAsRead' = temporary
      BY <2>6, <3>1, <1>a, Constants
         DEF Replace, Continue, DbInvariant, RestoreIsPrepared, RestoreSteps, At, Unusable
    <3> QED BY <2>6, <3>1, <3>2 DEF Replace, Durable!Next, Durable!Restore
  <2>7. CASE RemoveSidecars(p)
    BY <2>7, <1>1
       DEF RemoveSidecars, DbInvariant, RestoreIsPrepared, RestoreSteps, At
  <2>8. CASE \/ BeginBackup(p) \/ FinishBackup(p) \/ Finish(p) \/ Validate(p)
             \/ BeginSnapshot(p) \/ ClearTemporary(p) \/ Stage(p) \/ Verify(p) \/ Fail(p)
    BY <2>8, <1>1
       DEF BeginBackup, FinishBackup, Finish, Validate, BeginSnapshot, ClearTemporary,
           Stage, Verify, Fail
  <2> QED BY <1>5, <2>1, <2>2, <2>3, <2>4, <2>5, <2>6, <2>7, <2>8 DEF Step
<1>6. CASE UNCHANGED dbvars
  BY <1>6, <1>1 DEF dbvars
<1> QED BY <1>2, <1>3, <1>4, <1>5, <1>6 DEF DbNext

\* Database implements DurableRows, for every instance.
THEOREM DatabaseIsDurable == DbSpec => ImplementsDurableRows
<1>1. DbInit => Durable!Init
  BY Constants DEF DbInit, Durable!Init, RowsAsRead, JournalIsHot, Unusable
<1>2. DbInvariant /\ DbInvariant' /\ [DbNext]_dbvars => [Durable!Next]_(Durable!rvars)
  BY StepRefines
<1> QED
  BY <1>1, <1>2, DbInvariantHolds, PTL DEF DbSpec, ImplementsDurableRows, Durable!Spec

\* Every variable keeps its type.
THEOREM DbTypeCorrect == DbSpec => []DbTypeOK
<1>1. DbInvariant => DbTypeOK
  BY DEF DbInvariant, LockInvariant
<1> QED BY <1>1, DbInvariantHolds, PTL

===============================================================================
