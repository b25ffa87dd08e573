------------------------- MODULE InstallTransaction -------------------------
(***************************************************************************)
(* The installer's journaled transaction (InstallTransaction.cs), run by a   *)
(* process that holds the operation lock of the installation.  The disk      *)
(* (live, backup, prep, config, journal) outlives the process; mem, shot,    *)
(* todo, origin and pc are the process and are lost when it dies.  Every     *)
(* rename, delete and journal write is a step of its own: between any two of *)
(* them the process may die, and each of them may fail and throw.            *)
(*                                                                           *)
(* Contents are abstracted to the number of the operation that prepared      *)
(* them.  A journal is taken to be readable and to pass ValidateJournal.     *)
(***************************************************************************)
EXTENDS Integers

CONSTANTS
  NumEntries,    \* paths an update may replace
  Directories,   \* the ones that are directories; the rest are files
  MaxOps         \* bound: transactions prepared

ASSUME NumEntriesOK == NumEntries \in Nat \ {0}
ASSUME MaxOpsOK == MaxOps \in Nat

Entries == 1..NumEntries

None == -1       \* the path does not exist
Part == -2       \* a directory of which a recursive delete left a part
Whole == 0..MaxOps
Contents == {None, Part} \cup Whole

VARIABLES
  live,      \* DestinationPath of each entry
  backup,    \* BackupPath of each entry, under the work root
  prep,      \* PreparedPath of each entry, in scratch space
  config,    \* the runtime's Config.toml
  journal,   \* the recovery journal on disk
  mem,       \* _journal, the process's copy
  shot,      \* configSnapshot of the caller
  todo,      \* entries the loop of Publish or RollBack has not finished
  origin,    \* what called RollBack: "recover", "publish" or "dispose"
  op,        \* number of the latest operation
  pc         \* where the process is; "idle" when nobody holds the lock

disk == <<live, backup, prep, config, journal>>
vars == <<live, backup, prep, config, journal, mem, shot, todo, origin, op, pc>>

Configs == [exists : BOOLEAN, dvd : Whole, retro : Whole]
NoConfig == [exists |-> FALSE, dvd |-> 0, retro |-> 0]

States == {"none", "Prepared", "Published", "Committed", "RolledBack"}
Journals == [state : States, entries : SUBSET Entries, existed : SUBSET Entries,
             planned : BOOLEAN, snap : Configs]

\* state "none": no journal file.
NoJournal == [state |-> "none", entries |-> {}, existed |-> {},
              planned |-> FALSE, snap |-> NoConfig]

Unfinished == journal.state \in {"Prepared", "Published"}

Init ==
  /\ live \in [Entries -> {None, 0}]
  /\ backup = [e \in Entries |-> None]
  /\ prep   = [e \in Entries |-> None]
  /\ config \in [exists : BOOLEAN, dvd : {0}, retro : {0}]
  /\ journal = NoJournal
  /\ mem = NoJournal
  /\ shot = NoConfig
  /\ todo = {}
  /\ origin = "recover"
  /\ op = 0
  /\ pc = "idle"

-----------------------------------------------------------------------------
(* Taking the lock recovers first.                                           *)

Goto(label) == pc' = label

\* The lock file is opened without sharing: while one process is not idle any
\* other fails at once.
Acquire ==
  /\ pc = "idle"
  /\ Goto("recover")
  /\ UNCHANGED <<disk, mem, shot, todo, origin, op>>

RollBack(from, copy) ==
  /\ origin' = from
  /\ mem' = copy
  /\ todo' = copy.entries
  /\ Goto("rollback")

Recover_IgnoresPrepared ==
  /\ pc = "recover"
  /\ IF journal.state = "Published"
     THEN RollBack("recover", journal)
     ELSE Goto("scratch") /\ UNCHANGED <<mem, todo, origin>>
  /\ UNCHANGED <<disk, shot, op>>

Recover ==
  /\ pc = "recover"
  /\ \/ /\ journal.state = "none"
        /\ Goto("scratch")
        /\ UNCHANGED <<mem, todo, origin>>
     \/ /\ journal.state \in {"Committed", "RolledBack"}
        /\ Goto("reclean")
        /\ UNCHANGED <<mem, todo, origin>>
     \/ /\ Unfinished
        /\ RollBack("recover", journal)
  /\ UNCHANGED <<disk, shot, op>>

\* Deleting scratch trees; a failure leaves some of them.
DropPrepared(kept) == prep' = [e \in Entries |-> IF e \in kept THEN prep[e] ELSE None]

\* InstallScratchSpace.Recover; when it throws, so does Acquire.
RecoverScratch ==
  /\ pc = "scratch"
  /\ \/ DropPrepared({}) /\ Goto("ready")
     \/ \E kept \in SUBSET Entries : DropPrepared(kept) /\ Goto("idle")
  /\ UNCHANGED <<live, backup, config, journal, mem, shot, todo, origin, op>>

\* The operation ends, or fails and unwinds: the scratch space is disposed of,
\* which may fail silently, and the lock is released.
Release ==
  /\ pc \in {"ready", "begin", "fail"}
  /\ \E kept \in SUBSET Entries : DropPrepared(kept)
  /\ mem' = NoJournal
  /\ Goto("idle")
  /\ UNCHANGED <<live, backup, config, journal, shot, todo, origin, op>>

\* The process dies, wherever it is.
Crash ==
  /\ pc # "idle"
  /\ mem' = NoJournal
  /\ shot' = NoConfig
  /\ todo' = {}
  /\ origin' = "recover"
  /\ Goto("idle")
  /\ UNCHANGED <<disk, op>>

-----------------------------------------------------------------------------
(* One transaction.                                                          *)

\* The operation stages what it will publish; one lock may see several.
Prepare ==
  /\ pc = "ready"
  /\ op < MaxOps
  /\ op' = op + 1
  /\ \E part \in (SUBSET Entries) \ {{}} :
       prep' = [e \in Entries |-> IF e \in part THEN op + 1 ELSE None]
  /\ Goto("begin")
  /\ UNCHANGED <<live, backup, config, journal, mem, shot, todo, origin>>

Prepared == {e \in Entries : prep[e] # None}
Originals_Everywhere(part) == {e \in Entries : live[e] # None}
Originals(part) == {e \in part : live[e] # None}

\* Refused, by way of Release, while a journal exists.
Begin ==
  /\ pc = "begin"
  /\ journal.state = "none"
  /\ shot' = config
  /\ journal' = [NoJournal EXCEPT !.state = "Prepared", !.entries = Prepared,
                                  !.existed = Originals(Prepared)]
  /\ mem' = journal'
  /\ todo' = Prepared
  /\ Goto("publish")
  /\ UNCHANGED <<live, backup, prep, config, origin, op>>

IsFirst(e, set) == e \in set /\ \A f \in set : e <= f
IsLast(e, set)  == e \in set /\ \A f \in set : f <= e

\* Publish takes the entries in order: the old destination moves aside ...
MoveAside(e) ==
  /\ pc = "publish"
  /\ IsFirst(e, todo)
  /\ IF e \in mem.existed
     THEN /\ backup' = [backup EXCEPT ![e] = live[e]]
          /\ live' = [live EXCEPT ![e] = None]
     ELSE UNCHANGED <<backup, live>>
  /\ Goto("movein")
  /\ UNCHANGED <<prep, config, journal, mem, shot, todo, origin, op>>

MoveIn_Copies(e) ==
  /\ pc = "movein"
  /\ IsFirst(e, todo)
  /\ live' = [live EXCEPT ![e] = prep[e]]
  /\ todo' = todo \ {e}
  /\ Goto("publish")
  /\ UNCHANGED <<backup, prep, config, journal, mem, shot, origin, op>>

\* ... and the prepared one takes its place.
MoveIn(e) ==
  /\ pc = "movein"
  /\ IsFirst(e, todo)
  /\ live' = [live EXCEPT ![e] = prep[e]]
  /\ prep' = [prep EXCEPT ![e] = None]
  /\ todo' = todo \ {e}
  /\ Goto("publish")
  /\ UNCHANGED <<backup, config, journal, mem, shot, origin, op>>

\* Set a field of the journal and write it.
WriteJournal(new) ==
  /\ mem' = new
  /\ journal' = new

PublishDone ==
  /\ pc = "publish"
  /\ todo = {}
  /\ WriteJournal([mem EXCEPT !.state = "Published"])
  /\ Goto("published")
  /\ UNCHANGED <<live, backup, prep, config, shot, todo, origin, op>>

\* Publish rolls back itself; if that fails too, Dispose tries once more.
PublishFails ==
  /\ pc \in {"publish", "movein"}
  /\ RollBack("publish", mem)
  /\ UNCHANGED <<disk, shot, op>>

WithPreimage == [mem EXCEPT !.planned = TRUE, !.snap = shot]

\* The configuration's preimage is journaled before the first change to it.
RecordRuntimeConfigurationMutation ==
  /\ pc = "published"
  /\ WriteJournal(WithPreimage)
  /\ Goto("config")
  /\ UNCHANGED <<live, backup, prep, config, shot, todo, origin, op>>

\* The installer sets both paths, or only the first; a repair only the second.
SetDvdRoot ==
  /\ pc = "config"
  /\ config' = [config EXCEPT !.exists = TRUE, !.dvd = op]
  /\ Goto("dvdset")
  /\ UNCHANGED <<live, backup, prep, journal, mem, shot, todo, origin, op>>

SetRetroRewindRoot ==
  /\ pc \in {"config", "dvdset"}
  /\ config' = [config EXCEPT !.exists = TRUE, !.retro = op]
  /\ Goto("retroset")
  /\ UNCHANGED <<live, backup, prep, journal, mem, shot, todo, origin, op>>

Commit ==
  /\ pc \in {"published", "dvdset", "retroset"}
  /\ WriteJournal([mem EXCEPT !.state = "Committed"])
  /\ Goto("clean")
  /\ UNCHANGED <<live, backup, prep, config, shot, todo, origin, op>>

\* Recording, changing the configuration or committing throws: Dispose rolls
\* back with the copy in memory, which a failed write may have run ahead of.
Dispose ==
  /\ \/ pc \in {"published", "config", "dvdset", "retroset"} /\ RollBack("dispose", mem)
     \/ pc = "published" /\ RollBack("dispose", WithPreimage)
  /\ UNCHANGED <<disk, shot, op>>

-----------------------------------------------------------------------------
(* RollBack, entry by entry in reverse order.                                *)

\* A file goes at once; a directory's delete may be cut short.
Delete(e) == \E left \in {None} \cup (IF e \in Directories THEN {Part} ELSE {}) :
               live' = [live EXCEPT ![e] = left]

\* The two states in which RollBackEntry throws.
BackupMissing(e) == backup[e] = None /\ e \in mem.existed /\ live[e] = None
Ambiguous(e) == /\ backup[e] = None /\ e \notin mem.existed
                /\ live[e] # None /\ prep[e] # None

\* What was published goes, for the backup to return or for good.
DeletePublished(e) ==
  /\ pc = "rollback"
  /\ IsLast(e, todo)
  /\ live[e] # None
  /\ backup[e] # None \/ (e \notin mem.existed /\ ~Ambiguous(e))
  /\ Delete(e)
  /\ UNCHANGED <<backup, prep, config, journal, mem, shot, todo, origin, op, pc>>

MoveBack(e) ==
  /\ pc = "rollback"
  /\ IsLast(e, todo)
  /\ backup[e] # None
  /\ live[e] = None
  /\ live' = [live EXCEPT ![e] = backup[e]]
  /\ backup' = [backup EXCEPT ![e] = None]
  /\ todo' = todo \ {e}
  /\ UNCHANGED <<prep, config, journal, mem, shot, origin, op, pc>>

InPlace_KeepsPublished(e) ==
  /\ pc = "rollback"
  /\ IsLast(e, todo)
  /\ e \in mem.existed <=> live[e] # None
  /\ todo' = todo \ {e}
  /\ UNCHANGED <<disk, mem, shot, origin, op, pc>>

\* No backup, and the original (or the absence of one) is in place.
InPlace(e) ==
  /\ pc = "rollback"
  /\ IsLast(e, todo)
  /\ backup[e] = None
  /\ e \in mem.existed <=> live[e] # None
  /\ todo' = todo \ {e}
  /\ UNCHANGED <<disk, mem, shot, origin, op, pc>>

RestoreConfig ==
  /\ pc = "rollback"
  /\ todo = {}
  /\ config' = IF mem.planned THEN mem.snap ELSE config
  /\ Goto("restored")
  /\ UNCHANGED <<live, backup, prep, journal, mem, shot, todo, origin, op>>

MarkRolledBack ==
  /\ pc = "restored"
  /\ WriteJournal([mem EXCEPT !.state = "RolledBack"])
  /\ Goto("rolled")
  /\ UNCHANGED <<live, backup, prep, config, shot, todo, origin, op>>

\* Something threw before the transaction was finished.
RollBackFails ==
  /\ pc \in {"rollback", "restored"}
  /\ \/ /\ origin = "publish"
        /\ RollBack("dispose", mem)
     \/ /\ origin # "publish"
        /\ Goto(IF origin = "recover" THEN "idle" ELSE "fail")
        /\ mem' = NoJournal
        /\ todo' = {}
        /\ UNCHANGED origin
  /\ UNCHANGED <<disk, shot, op>>

-----------------------------------------------------------------------------
(* Removing the work root and then the journal: after a commit ("clean"),    *)
(* after a rollback ("rolled"), and when Recover finds either left undone    *)
(* ("reclean").                                                              *)

CleanBackup(e) ==
  /\ pc \in {"clean", "reclean", "rolled"}
  /\ backup[e] # None
  /\ backup' = [backup EXCEPT ![e] = None]
  /\ UNCHANGED <<live, prep, config, journal, mem, shot, todo, origin, op, pc>>

\* Where the process goes on when cleaning is over.
AfterCleaning ==
  IF pc = "clean" THEN "ready"
  ELSE IF pc = "reclean" \/ origin = "recover" THEN "scratch" ELSE "fail"

CleanDone_JournalFirst ==
  /\ pc \in {"clean", "reclean", "rolled"}
  /\ journal' = NoJournal
  /\ mem' = NoJournal
  /\ Goto(AfterCleaning)
  /\ UNCHANGED <<live, backup, prep, config, shot, todo, origin, op>>

CleanDone ==
  /\ pc \in {"clean", "reclean", "rolled"}
  /\ \A e \in Entries : backup[e] = None
  /\ journal' = NoJournal
  /\ mem' = NoJournal
  /\ Goto(AfterCleaning)
  /\ UNCHANGED <<live, backup, prep, config, shot, todo, origin, op>>

\* Commit swallows the failure, Recover and RollBack throw.
CleanFails ==
  /\ pc \in {"clean", "reclean", "rolled"}
  /\ mem' = NoJournal
  /\ Goto(IF AfterCleaning = "scratch" THEN "idle" ELSE AfterCleaning)
  /\ UNCHANGED <<disk, shot, todo, origin, op>>

-----------------------------------------------------------------------------
Publish ==
  \/ Begin \/ PublishDone \/ PublishFails
  \/ RecordRuntimeConfigurationMutation \/ SetDvdRoot \/ SetRetroRewindRoot
  \/ Commit \/ Dispose
  \/ \E e \in Entries : MoveAside(e) \/ MoveIn(e)

Restore ==
  \/ RestoreConfig \/ MarkRolledBack \/ RollBackFails
  \/ \E e \in Entries : DeletePublished(e) \/ MoveBack(e) \/ InPlace(e)

Clean == CleanDone \/ CleanFails \/ \E e \in Entries : CleanBackup(e)

Next ==
  \/ Acquire \/ Recover \/ RecoverScratch \/ Release \/ Crash \/ Prepare
  \/ Publish \/ Restore \/ Clean

Spec == Init /\ [][Next]_vars

-----------------------------------------------------------------------------
\* Every variable has its type, and a journal remembers originals only of the
\* entries it names.
TypeOK ==
  /\ live \in [Entries -> Contents]
  /\ backup \in [Entries -> {None} \cup Whole]
  /\ prep \in [Entries -> {None} \cup Whole]
  /\ config \in Configs
  /\ journal \in Journals
  /\ mem \in Journals
  /\ shot \in Configs
  /\ todo \subseteq Entries
  /\ origin \in {"recover", "publish", "dispose"}
  /\ op \in Whole
  /\ pc \in {"idle", "recover", "scratch", "ready", "begin", "publish", "movein",
             "published", "config", "dvdset", "retroset", "rollback", "restored",
             "rolled", "clean", "reclean", "fail"}
  /\ journal.existed \subseteq journal.entries

\* What Recover makes of the disk as it is: an unfinished transaction's backups
\* and preimage count, its published contents do not.
RecoveredFiles ==
  [e \in Entries |->
    CASE Unfinished /\ backup[e] # None -> backup[e]
      [] Unfinished /\ backup[e] = None /\ e \in journal.entries \ journal.existed -> None
      [] OTHER -> live[e]]
RecoveredConfig == IF Unfinished /\ journal.planned THEN journal.snap ELSE config

\* The update under way: what the operation has prepared, and from Begin until
\* the journal says Committed or RolledBack, whoever runs it, what the journal
\* names.
Staged ==
  IF pc = "begin" THEN [part |-> Prepared, release |-> op]
  ELSE IF Unfinished THEN [part |-> journal.entries, release |-> op]
  ELSE [part |-> {}, release |-> 0]

Atomic == INSTANCE AtomicInstall
            WITH Slots <- Entries, Releases <- 1..MaxOps, Absent <- None,
                 files <- RecoveredFiles, settings <- RecoveredConfig,
                 staged <- Staged

\* Publish, Commit and RollBack are one atomic update of the entries that the
\* operation prepared: wherever the process dies or throws, in recovery too,
\* the next holder of the lock finds every one of them old, with the old
\* configuration, or every one of them new.
ImplementsAtomic == Atomic!Spec

\* RollBackEntry never meets the states in which it refuses to go on (backup
\* missing, prepared and published both present), however often a rollback was
\* cut short before.
RecoveryNeverRefuses ==
  pc = "rollback" => \A e \in todo : ~BackupMissing(e) /\ ~Ambiguous(e)

\* An operation that got past Acquire finds no half-deleted directory and no
\* transaction left to roll back.
LockHolderSeesWhole ==
  pc \in {"ready", "begin"} =>
    ~Unfinished /\ \A e \in Entries : live[e] # Part

\* The journal outlives the backups: an original moved aside is always named by
\* a journal that recovery will find.
BackupsNamed ==
  \A e \in Entries : backup[e] # None => e \in journal.entries
=============================================================================
