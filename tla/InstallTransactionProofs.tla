---------------------- MODULE InstallTransactionProofs ----------------------
(* Theorems about InstallTransaction for any number of entries, any of them  *)
(* directories, and any number of transactions, failures and crashes.        *)
EXTENDS InstallTransaction, TLAPS

-----------------------------------------------------------------------------
(* The inductive invariant.  DiskInv speaks of the disk alone and so holds   *)
(* in whatever state the process dies; the rest says how far the process has *)
(* come.                                                                     *)

\* An original is in place or in its backup, and nothing is lost to a partial
\* delete that rolling back does not replace.
DiskInv ==
  /\ BackupsNamed
  /\ journal.state = "none" => journal.entries = {}
  /\ Unfinished =>
       \A e \in Entries :
         /\ e \notin journal.existed => backup[e] = None
         /\ e \in journal.existed /\ backup[e] = None => live[e] \in Whole
         /\ e \in journal.entries \ journal.existed /\ live[e] # None => prep[e] = None
  /\ \A e \in Entries :
       live[e] = Part => /\ Unfinished
                         /\ e \in journal.entries
                         /\ backup[e] # None \/ e \notin journal.existed

\* Outside a transaction.
IdleInv ==
  /\ pc = "scratch" => journal.state = "none"
  /\ pc \in {"ready", "begin"} => journal.state \in {"none", "Committed"}
  /\ pc = "begin" => /\ \A e \in Entries : prep[e] \in {None, op}
                     /\ \E e \in Entries : prep[e] # None
  /\ pc = "clean" => journal.state = "Committed"
  /\ pc = "rolled" => journal.state = "RolledBack"
  /\ pc = "reclean" => journal.state \in {"Committed", "RolledBack"}

\* From Begin to Commit the two journals agree and published entries are new.
ForwardInv ==
  pc \in {"publish", "movein", "published", "config", "dvdset", "retroset"} =>
    /\ mem = journal
    /\ journal.entries # {}
    /\ todo \subseteq journal.entries
    /\ \A e \in journal.entries \ todo : live[e] = op

PublishInv ==
  /\ pc \in {"publish", "movein"} =>
       /\ journal.state = "Prepared"
       /\ ~journal.planned
       /\ shot = config
       /\ \A e \in todo : prep[e] = op
  /\ pc = "publish" => \A e \in todo : backup[e] = None
  /\ pc = "movein" =>
       \A e \in todo : IF IsFirst(e, todo)
                       THEN live[e] = None /\ (e \in journal.existed => backup[e] # None)
                       ELSE backup[e] = None

\* What has been done to the configuration since its preimage was recorded.
ConfigInv ==
  /\ pc \in {"published", "config", "dvdset", "retroset"} =>
       journal.state = "Published" /\ todo = {}
  /\ pc = "published" => ~journal.planned /\ shot = config
  /\ pc \in {"config", "dvdset", "retroset"} => journal.planned
  /\ pc = "config" => config = journal.snap
  /\ pc = "dvdset" => config = [exists |-> TRUE, dvd |-> op, retro |-> journal.snap.retro]
  /\ pc = "retroset" => \E dvd \in {journal.snap.dvd, op} :
                          config = [exists |-> TRUE, dvd |-> dvd, retro |-> op]

\* Rolling back: what is done is as it was, whatever the memory copy knows
\* beyond the journal has not happened yet.
RollBackInv ==
  /\ pc \in {"rollback", "restored"} =>
       /\ Unfinished
       /\ mem.entries = journal.entries
       /\ mem.existed = journal.existed
       /\ todo \subseteq journal.entries
       /\ journal.planned => mem.planned /\ mem.snap = journal.snap
       /\ mem.planned /\ ~journal.planned => mem.snap = config
       /\ \A e \in journal.entries \ todo :
            backup[e] = None /\ (e \notin journal.existed => live[e] = None)
  /\ pc = "restored" => /\ todo = {}
                        /\ mem.planned => config = mem.snap

IInv ==
  /\ TypeOK
  /\ DiskInv
  /\ IdleInv
  /\ ForwardInv
  /\ PublishInv
  /\ ConfigInv
  /\ RollBackInv

-----------------------------------------------------------------------------
(* Every action preserves every part.                                        *)

\* What the sets the variables range over contain.
LEMMA Members ==
  /\ None \in Contents /\ Part \in Contents /\ Whole \subseteq Contents
  /\ 0 \in Whole
  /\ NoConfig \in Configs
  /\ NoJournal \in Journals
  /\ \A n \in Whole : n # None /\ n # Part
BY MaxOpsOK DEF None, Part, Contents, Whole, NoConfig, NoJournal, Configs, Journals, States

\* The fields of a journal have their types.
LEMMA JournalFields ==
  \A j \in Journals :
    /\ j.state \in States /\ j.entries \subseteq Entries /\ j.existed \subseteq Entries
    /\ j.planned \in BOOLEAN /\ j.snap \in Configs
BY DEF Journals

\* The type invariant is preserved; that a journal's originals are among its
\* entries needs the agreement of the two copies.
LEMMA TypeStep == IInv /\ [Next]_vars => TypeOK'
<1> SUFFICES ASSUME IInv, [Next]_vars PROVE TypeOK'
  OBVIOUS
<1> USE Members DEF IInv, TypeOK, Goto
<1>1. CASE Acquire
  BY <1>1 DEF Acquire, disk
<1>2. CASE Recover
  BY <1>2, JournalFields DEF Recover, RollBack, disk
<1>3. CASE RecoverScratch
  BY <1>3 DEF RecoverScratch, DropPrepared
<1>4. CASE Release
  BY <1>4 DEF Release, DropPrepared
<1>5. CASE Crash
  BY <1>5 DEF Crash, disk
<1>6. CASE Prepare
  <2>1. op' \in Whole
    BY <1>6, MaxOpsOK DEF Prepare, Whole
  <2> QED BY <1>6, <2>1 DEF Prepare
<1>7. CASE Begin
  <2>1. Originals(Prepared) \subseteq Prepared /\ Prepared \subseteq Entries
    BY DEF Prepared, Originals
  <2>2. journal' = [state |-> "Prepared", entries |-> Prepared,
                    existed |-> Originals(Prepared), planned |-> FALSE,
                    snap |-> NoConfig]
    BY <1>7 DEF Begin, NoJournal
  <2>3. journal' \in Journals /\ journal'.existed \subseteq journal'.entries
    BY <2>1, <2>2 DEF Journals, States
  <2> QED BY <1>7, <2>1, <2>3 DEF Begin
<1>8. ASSUME NEW s \in States, WriteJournal([mem EXCEPT !.state = s]),
             mem.existed \subseteq mem.entries
      PROVE  mem' \in Journals /\ journal' \in Journals
             /\ journal'.existed \subseteq journal'.entries
  <2>1. /\ journal'.existed = mem.existed
        /\ journal'.entries = mem.entries
    BY <1>8 DEF WriteJournal, Journals
  <2>2. [mem EXCEPT !.state = s] \in Journals
    BY <1>8 DEF Journals
  <2> QED BY <1>8, <2>1, <2>2 DEF WriteJournal
<1>9. {"Published", "Committed", "RolledBack"} \subseteq States
  BY DEF States
<1>10. CASE PublishDone
  BY <1>8, <1>9, <1>10 DEF PublishDone, ForwardInv
<1>11. CASE PublishFails
  BY <1>11, JournalFields DEF PublishFails, RollBack, disk
<1>12. WithPreimage \in Journals /\ WithPreimage.entries = mem.entries
         /\ WithPreimage.existed = mem.existed
  <2>1. mem \in Journals /\ shot \in Configs
    OBVIOUS
  <2> QED BY <2>1 DEF WithPreimage, Journals
<1>13. CASE RecordRuntimeConfigurationMutation
  BY <1>12, <1>13 DEF RecordRuntimeConfigurationMutation, WriteJournal, ForwardInv
<1>14. CASE SetDvdRoot
  <2>1. config' \in Configs
    BY <1>14 DEF SetDvdRoot, Configs
  <2> QED BY <1>14, <2>1 DEF SetDvdRoot
<1>15. CASE SetRetroRewindRoot
  <2>1. config' \in Configs
    BY <1>15 DEF SetRetroRewindRoot, Configs
  <2> QED BY <1>15, <2>1 DEF SetRetroRewindRoot
<1>16. CASE Commit
  BY <1>8, <1>9, <1>16 DEF Commit, ForwardInv
<1>17. CASE Dispose
  BY <1>12, <1>17, JournalFields DEF Dispose, RollBack, disk
<1>18. ASSUME NEW e \in Entries, MoveAside(e) PROVE TypeOK'
  <2>1. e \in mem.existed => live[e] \in {None} \cup Whole
    BY <1>18 DEF MoveAside, IsFirst, ForwardInv, PublishInv, DiskInv, Unfinished
  <2> QED BY <1>18, <2>1 DEF MoveAside
<1>19. ASSUME NEW e \in Entries, MoveIn(e) PROVE TypeOK'
  BY <1>19 DEF MoveIn
<1>20. CASE RestoreConfig
  BY <1>20, JournalFields DEF RestoreConfig
<1>21. CASE MarkRolledBack
  BY <1>8, <1>9, <1>21 DEF MarkRolledBack, RollBackInv
<1>22. CASE RollBackFails
  BY <1>22, JournalFields DEF RollBackFails, RollBack, disk
<1>23. ASSUME NEW e \in Entries, DeletePublished(e) PROVE TypeOK'
  BY <1>23 DEF DeletePublished, Delete
<1>24. ASSUME NEW e \in Entries, MoveBack(e) PROVE TypeOK'
  BY <1>24 DEF MoveBack
<1>25. ASSUME NEW e \in Entries, InPlace(e) PROVE TypeOK'
  BY <1>25 DEF InPlace, disk
<1>26. CASE CleanDone
  <2>1. journal'.existed \subseteq journal'.entries
    BY <1>26 DEF CleanDone, NoJournal
  <2> QED BY <1>26, <2>1 DEF CleanDone, AfterCleaning
<1>27. CASE CleanFails
  BY <1>27 DEF CleanFails, AfterCleaning, disk
<1>28. ASSUME NEW e \in Entries, CleanBackup(e) PROVE TypeOK'
  BY <1>28 DEF CleanBackup
<1>29. CASE UNCHANGED vars
  BY <1>29 DEF vars
<1> QED BY <1>1, <1>2, <1>3, <1>4, <1>5, <1>6, <1>7, <1>10, <1>11, <1>13,
           <1>14, <1>15, <1>16, <1>17, <1>18, <1>19, <1>20, <1>21, <1>22,
           <1>23, <1>24, <1>25, <1>26, <1>27, <1>28, <1>29
           DEF Next, Publish, Restore, Clean

\* No step, a crash included, loses an original or leaves a partial tree that
\* rolling back would keep.
LEMMA DiskStep == IInv /\ [Next]_vars => DiskInv'
<1> SUFFICES ASSUME IInv, [Next]_vars PROVE DiskInv'
  OBVIOUS
<1> USE Members DEF IInv, DiskInv, BackupsNamed
<1>1. CASE UNCHANGED <<live, backup, prep, journal>>
  BY <1>1 DEF Unfinished
<1>2. CASE RecoverScratch \/ Release
  <2>1. /\ UNCHANGED <<live, backup, journal>>
        /\ \A e \in Entries : prep'[e] \in {prep[e], None}
    BY <1>2 DEF RecoverScratch, Release, DropPrepared
  <2> QED BY <2>1 DEF Unfinished
<1>3. CASE Prepare
  BY <1>3 DEF Prepare, IdleInv, Unfinished
<1>4. CASE Begin
  <2>1. /\ UNCHANGED <<live, backup, prep>>
        /\ journal.state = "none" /\ journal'.state = "Prepared"
        /\ journal'.entries = Prepared
        /\ journal'.existed = Originals(Prepared)
    BY <1>4 DEF Begin, NoJournal
  <2>2. \A e \in Entries : backup[e] = None /\ live[e] # Part
    BY <2>1 DEF Unfinished
  <2>3. \A e \in Entries : live[e] # None => live[e] \in Whole
    BY <2>2 DEF TypeOK, Contents
  <2> QED BY <2>1, <2>2, <2>3 DEF Prepared, Originals, Unfinished
<1>5. CASE PublishDone \/ RecordRuntimeConfigurationMutation
  <2>1. /\ UNCHANGED <<live, backup, prep>>
        /\ Unfinished /\ Unfinished'
        /\ journal'.entries = journal.entries
        /\ journal'.existed = journal.existed
    <3>1. CASE PublishDone
      BY <3>1 DEF PublishDone, WriteJournal, Unfinished, ForwardInv, PublishInv, TypeOK,
         Journals
    <3>2. CASE RecordRuntimeConfigurationMutation
      BY <3>2 DEF RecordRuntimeConfigurationMutation, WriteJournal, WithPreimage, Unfinished,
         ForwardInv, ConfigInv, TypeOK, Journals
    <3> QED BY <1>5, <3>1, <3>2
  <2>2. journal'.state # "none"
    BY <2>1 DEF Unfinished
  <2> QED BY <2>1, <2>2
<1>6. CASE Commit
  <2>1. /\ UNCHANGED <<live, backup>>
        /\ journal'.state = "Committed"
        /\ journal'.entries = journal.entries
    BY <1>6 DEF Commit, WriteJournal, ForwardInv, TypeOK, Journals
  <2>2. \A e \in journal.entries : live[e] = op /\ op \in Whole
    BY <1>6 DEF Commit, ForwardInv, ConfigInv, TypeOK
  <2>3. \A e \in Entries : live[e] # Part
    BY <2>2
  <2> QED BY <2>1, <2>3 DEF Unfinished
<1>7. CASE MarkRolledBack
  <2>1. /\ UNCHANGED <<live, backup>>
        /\ journal'.state = "RolledBack"
        /\ journal'.entries = journal.entries
    BY <1>7 DEF MarkRolledBack, WriteJournal, RollBackInv, TypeOK, Journals
  <2>2. \A e \in journal.entries :
          backup[e] = None /\ (e \notin journal.existed => live[e] = None)
    BY <1>7 DEF MarkRolledBack, RollBackInv
  <2>3. \A e \in Entries : live[e] # Part
    BY <2>2 DEF None, Part
  <2> QED BY <2>1, <2>3 DEF Unfinished
<1>8. ASSUME NEW e \in Entries, MoveAside(e) PROVE DiskInv'
  <2>1. e \in journal.entries /\ mem = journal /\ UNCHANGED <<prep, journal>>
        /\ Unfinished /\ backup[e] = None
    BY <1>8 DEF MoveAside, IsFirst, ForwardInv, PublishInv, Unfinished
  <2>2. CASE e \notin journal.existed
    BY <1>1, <1>8, <2>1, <2>2 DEF MoveAside
  <2>3. CASE e \in journal.existed
    <3>1. live[e] \in Whole
      BY <2>1, <2>3
    <3>2. \A f \in Entries : /\ backup'[f] = IF f = e THEN live[e] ELSE backup[f]
                             /\ live'[f] = IF f = e THEN None ELSE live[f]
      BY <1>8, <2>1, <2>3 DEF MoveAside, TypeOK
    <3>3. None # Part
      BY DEF None, Part
    <3> QED BY <2>1, <2>3, <3>1, <3>2, <3>3 DEF Unfinished
  <2> QED BY <2>2, <2>3
<1>9. ASSUME NEW e \in Entries, MoveIn(e) PROVE DiskInv'
  <2>1. /\ e \in journal.entries /\ UNCHANGED <<backup, journal>>
        /\ e \in journal.existed => backup[e] # None
        /\ prep[e] = op
    BY <1>9 DEF MoveIn, IsFirst, ForwardInv, PublishInv
  <2>2. \A f \in Entries : /\ live'[f] = IF f = e THEN op ELSE live[f]
                           /\ prep'[f] = IF f = e THEN None ELSE prep[f]
    BY <1>9, <2>1 DEF MoveIn, TypeOK
  <2>3. op \in Whole
    BY DEF TypeOK
  <2> QED BY <2>1, <2>2, <2>3 DEF Unfinished
<1>10. ASSUME NEW e \in Entries, DeletePublished(e) PROVE DiskInv'
  <2>1. /\ UNCHANGED <<backup, prep, journal>>
        /\ Unfinished
        /\ e \in journal.entries
        /\ live[e] # None
        /\ backup[e] # None \/ (e \notin journal.existed /\ prep[e] = None)
    BY <1>10 DEF DeletePublished, IsLast, Ambiguous, RollBackInv
  <2>2. \A f \in Entries \ {e} : live'[f] = live[f]
    BY <1>10 DEF DeletePublished, Delete, TypeOK
  <2>3. e \notin journal.existed \/ backup[e] # None
    BY <2>1
  <2> QED BY <2>1, <2>2, <2>3 DEF Unfinished
<1>11. ASSUME NEW e \in Entries, MoveBack(e) PROVE DiskInv'
  <2>1. /\ UNCHANGED <<prep, journal>>
        /\ backup[e] \in Whole
        /\ Unfinished
        /\ \A f \in Entries : /\ live'[f] = IF f = e THEN backup[e] ELSE live[f]
                              /\ backup'[f] = IF f = e THEN None ELSE backup[f]
    BY <1>11 DEF MoveBack, RollBackInv, TypeOK
  <2>2. e \in journal.existed
    BY <1>11, <2>1 DEF MoveBack
  <2> QED BY <2>1, <2>2 DEF Unfinished
<1>12. CASE CleanDone
  <2>1. /\ UNCHANGED <<live, backup, prep>>
        /\ journal'.state = "none" /\ journal'.entries = {}
        /\ \A e \in Entries : backup[e] = None
        /\ ~Unfinished
    BY <1>12 DEF CleanDone, NoJournal, IdleInv, Unfinished
  <2> QED BY <2>1 DEF Unfinished
<1>13. ASSUME NEW e \in Entries, CleanBackup(e) PROVE DiskInv'
  <2>1. /\ UNCHANGED <<live, prep, journal>>
        /\ ~Unfinished
        /\ \A f \in Entries : backup'[f] \in {backup[f], None}
    BY <1>13 DEF CleanBackup, IdleInv, Unfinished, TypeOK
  <2> QED BY <2>1 DEF Unfinished
<1>14. CASE \/ Acquire \/ Recover \/ Crash \/ PublishFails \/ SetDvdRoot \/ SetRetroRewindRoot
            \/ Dispose \/ RestoreConfig \/ RollBackFails \/ CleanFails
            \/ \E e \in Entries : InPlace(e)
  BY <1>1, <1>14, Zenon DEF Acquire, Recover, Crash, PublishFails, SetDvdRoot,
     SetRetroRewindRoot, Dispose, RestoreConfig, RollBackFails, CleanFails, InPlace, disk
<1>15. CASE UNCHANGED vars
  BY <1>1, <1>15 DEF vars
<1> QED BY <1>2, <1>3, <1>4, <1>5, <1>6, <1>7, <1>8, <1>9, <1>10, <1>11, <1>12,
           <1>13, <1>14, <1>15 DEF Next, Publish, Restore, Clean

\* Where the process can be, by what the next step leaves it at.
LEMMA Goes ==
  /\ Acquire => pc' = "recover"
  /\ Recover => pc' \in {"scratch", "reclean", "rollback"}
  /\ RecoverScratch => pc' \in {"ready", "idle"}
  /\ Release \/ Crash => pc' = "idle"
  /\ Prepare => pc' = "begin"
  /\ PublishFails \/ Dispose => pc' = "rollback"
  /\ MarkRolledBack => pc' = "rolled"
  /\ RollBackFails => pc' \in {"rollback", "idle", "fail"}
  /\ CleanDone => pc' \in {"ready", "scratch", "fail"}
  /\ CleanFails => pc' \in {"ready", "idle", "fail"}
  /\ \A e \in Entries : CleanBackup(e) => pc' \in {"clean", "reclean", "rolled"}
BY DEF Acquire, Recover, RecoverScratch, Release, Crash, Prepare, PublishFails, Dispose,
   MarkRolledBack, RollBackFails, CleanDone, CleanFails, CleanBackup, AfterCleaning,
   RollBack, Goto

\* What is known of the journal outside a transaction is preserved.
LEMMA IdleStep == IInv /\ [Next]_vars => IdleInv'
<1> SUFFICES ASSUME IInv, [Next]_vars PROVE IdleInv'
  OBVIOUS
<1> USE DEF IInv, IdleInv, Goto
<1>1. CASE Acquire \/ Release \/ Crash \/ PublishFails \/ Dispose \/ RollBackFails
  BY <1>1, Goes DEF IdleInv
<1>2. CASE Recover \/ RecoverScratch
  BY <1>2 DEF Recover, RollBack, RecoverScratch, disk
<1>3. CASE Prepare
  BY <1>3, Members DEF Prepare, TypeOK, Whole, None
<1>4. CASE Begin \/ PublishDone \/ RecordRuntimeConfigurationMutation
           \/ SetDvdRoot \/ SetRetroRewindRoot \/ RestoreConfig
  BY <1>4 DEF Begin, PublishDone, RecordRuntimeConfigurationMutation, SetDvdRoot,
     SetRetroRewindRoot, RestoreConfig
<1>5. CASE Commit
  BY <1>5 DEF Commit, WriteJournal, TypeOK, Journals
<1>6. CASE MarkRolledBack
  BY <1>6 DEF MarkRolledBack, WriteJournal, TypeOK, Journals
<1>7. CASE \E e \in Entries : MoveAside(e) \/ MoveIn(e) \/ DeletePublished(e)
                              \/ MoveBack(e) \/ InPlace(e)
  BY <1>7 DEF MoveAside, MoveIn, DeletePublished, MoveBack, InPlace
<1>8. CASE CleanDone
  BY <1>8, Goes DEF CleanDone, NoJournal
<1>9. CASE CleanFails
  BY <1>9 DEF CleanFails, AfterCleaning, disk
<1>10. CASE \E e \in Entries : CleanBackup(e)
  BY <1>10 DEF CleanBackup
<1>11. CASE UNCHANGED vars
  BY <1>11 DEF vars
<1> QED BY <1>1, <1>2, <1>3, <1>4, <1>5, <1>6, <1>7, <1>8, <1>9, <1>10, <1>11
           DEF Next, Publish, Restore, Clean

\* Steps that leave the way from Begin to Commit, or happen outside it.
LEMMA OffForward ==
  IInv /\ (\/ Acquire \/ Recover \/ RecoverScratch \/ Release \/ Crash \/ Prepare
           \/ PublishFails \/ Commit \/ Dispose \/ Restore \/ Clean)
    => pc' \notin {"publish", "movein", "published", "config", "dvdset", "retroset"}
<1> SUFFICES ASSUME IInv, \/ Acquire \/ Recover \/ RecoverScratch \/ Release \/ Crash
                          \/ Prepare \/ PublishFails \/ Commit \/ Dispose \/ Restore \/ Clean
             PROVE  pc' \notin {"publish", "movein", "published", "config", "dvdset",
                                "retroset"}
  OBVIOUS
<1>1. CASE Restore
  BY <1>1, Goes DEF Restore, RestoreConfig, DeletePublished, MoveBack, InPlace, Goto
<1>2. CASE Clean
  BY <1>2, Goes DEF Clean
<1>3. CASE Commit
  BY <1>3 DEF Commit, Goto
<1> QED BY <1>1, <1>2, <1>3, Goes

\* The two journals agree up to Commit, and what was published is new.
LEMMA ForwardStep == IInv /\ [Next]_vars => ForwardInv'
<1> SUFFICES ASSUME IInv, [Next]_vars PROVE ForwardInv'
  OBVIOUS
<1> USE DEF IInv, ForwardInv, Goto
<1>1. CASE \/ Acquire \/ Recover \/ RecoverScratch \/ Release \/ Crash \/ Prepare
           \/ PublishFails \/ Commit \/ Dispose \/ Restore \/ Clean
  BY <1>1, OffForward
<1>2. CASE Begin
  <2>1. mem' = journal' /\ journal'.entries = Prepared /\ todo' = Prepared
    BY <1>2 DEF Begin, NoJournal
  <2>2. Prepared # {}
    BY <1>2 DEF Begin, IdleInv, Prepared
  <2> QED BY <2>1, <2>2
<1>3. CASE PublishDone \/ RecordRuntimeConfigurationMutation
  <2>1. /\ UNCHANGED <<live, op, todo>>
        /\ mem' = journal'
        /\ journal'.entries = journal.entries
    BY <1>3 DEF PublishDone, RecordRuntimeConfigurationMutation, WriteJournal, WithPreimage,
       TypeOK, Journals
  <2> QED BY <1>3, <2>1 DEF PublishDone, RecordRuntimeConfigurationMutation
<1>4. CASE SetDvdRoot \/ SetRetroRewindRoot
  BY <1>4 DEF SetDvdRoot, SetRetroRewindRoot
<1>5. ASSUME NEW e \in Entries, MoveAside(e) PROVE ForwardInv'
  <2>1. /\ pc = "publish" /\ e \in todo
        /\ UNCHANGED <<journal, mem, op, todo>>
        /\ \A f \in Entries \ {e} : live'[f] = live[f]
    BY <1>5 DEF MoveAside, IsFirst, TypeOK
  <2>2. journal.entries \subseteq Entries
    BY JournalFields DEF TypeOK
  <2> QED BY <2>1, <2>2
<1>6. ASSUME NEW e \in Entries, MoveIn(e) PROVE ForwardInv'
  <2>1. /\ pc = "movein" /\ e \in todo /\ todo' = todo \ {e}
        /\ UNCHANGED <<journal, mem, op>>
        /\ live'[e] = op
        /\ \A f \in Entries \ {e} : live'[f] = live[f]
    BY <1>6 DEF MoveIn, IsFirst, PublishInv, TypeOK
  <2>2. journal.entries \subseteq Entries
    BY JournalFields DEF TypeOK
  <2> QED BY <2>1, <2>2
<1>7. CASE UNCHANGED vars
  BY <1>7 DEF vars
<1> QED BY <1>1, <1>2, <1>3, <1>4, <1>5, <1>6, <1>7 DEF Next, Publish

\* What Publish has not come to yet is as Begin left it.
LEMMA PublishStep == IInv /\ [Next]_vars => PublishInv'
<1> SUFFICES ASSUME IInv, [Next]_vars PROVE PublishInv'
  OBVIOUS
<1> USE DEF IInv, PublishInv, Goto
<1>1. CASE \/ Acquire \/ Recover \/ RecoverScratch \/ Release \/ Crash \/ Prepare
           \/ PublishFails \/ Commit \/ Dispose \/ Restore \/ Clean
  BY <1>1, OffForward
<1>2. CASE Begin
  <2>1. /\ UNCHANGED <<live, backup, prep, config, op>>
        /\ journal'.state = "Prepared" /\ ~journal'.planned
        /\ todo' = Prepared /\ shot' = config /\ pc' = "publish"
    BY <1>2 DEF Begin, NoJournal
  <2>2. \A e \in Prepared : prep[e] = op /\ backup[e] = None
    BY <1>2 DEF Begin, Prepared, IdleInv, DiskInv, BackupsNamed
  <2> QED BY <2>1, <2>2
<1>3. CASE PublishDone \/ RecordRuntimeConfigurationMutation \/ SetDvdRoot
           \/ SetRetroRewindRoot
  BY <1>3 DEF PublishDone, RecordRuntimeConfigurationMutation, SetDvdRoot,
     SetRetroRewindRoot
<1>4. ASSUME NEW e \in Entries, MoveAside(e) PROVE PublishInv'
  <2>1. /\ pc = "publish" /\ pc' = "movein"
        /\ UNCHANGED <<prep, config, journal, shot, todo, op>>
        /\ e \in todo
    BY <1>4 DEF MoveAside, IsFirst
  <2>2. \A f \in todo : IsFirst(f, todo) => f = e
    BY <1>4, NumEntriesOK DEF MoveAside, IsFirst, TypeOK, Entries
  <2>3. IsFirst(e, todo)
    BY <1>4 DEF MoveAside
  <2>4. \A f \in Entries \ {e} : backup'[f] = backup[f]
    BY <1>4 DEF MoveAside, TypeOK
  <2>5. /\ mem = journal /\ Unfinished
        /\ e \in journal.entries
        /\ backup[e] = None /\ prep[e] = op
    BY <2>1 DEF ForwardInv, Unfinished
  <2>6. live'[e] = None /\ (e \in journal.existed => backup'[e] # None)
    <3>1. op # None
      BY Members DEF TypeOK
    <3>2. e \notin journal.existed => live[e] = None
      BY <2>5, <3>1 DEF DiskInv
    <3>3. e \in journal.existed => live[e] # None
      BY <2>5, Members DEF DiskInv
    <3> QED BY <1>4, <2>5, <3>2, <3>3 DEF MoveAside, TypeOK
  <2>7. \A f \in todo : IsFirst(f, todo)' <=> IsFirst(f, todo)
    BY <2>1 DEF IsFirst
  <2> QED BY <2>1, <2>2, <2>3, <2>4, <2>6, <2>7 DEF TypeOK
<1>5. ASSUME NEW e \in Entries, MoveIn(e) PROVE PublishInv'
  <2>1. /\ pc = "movein" /\ pc' = "publish"
        /\ UNCHANGED <<backup, config, journal, shot, op>>
        /\ todo' = todo \ {e}
        /\ \A f \in Entries \ {e} : prep'[f] = prep[f]
    BY <1>5 DEF MoveIn, TypeOK
  <2>2. \A f \in todo' : ~IsFirst(f, todo)
    BY <1>5, <2>1, NumEntriesOK DEF MoveIn, IsFirst, TypeOK, Entries
  <2> QED BY <2>1, <2>2 DEF TypeOK
<1>6. CASE UNCHANGED vars
  BY <1>6 DEF vars, IsFirst
<1> QED BY <1>1, <1>2, <1>3, <1>4, <1>5, <1>6 DEF Next, Publish

\* The configuration differs from its preimage only in what this operation set.
LEMMA ConfigStep == IInv /\ [Next]_vars => ConfigInv'
<1> SUFFICES ASSUME IInv, [Next]_vars PROVE ConfigInv'
  OBVIOUS
<1> USE DEF IInv, ConfigInv, Goto
<1>1. CASE \/ Acquire \/ Recover \/ RecoverScratch \/ Release \/ Crash \/ Prepare
           \/ PublishFails \/ Commit \/ Dispose \/ Restore \/ Clean
  BY <1>1, OffForward
<1>2. CASE Begin \/ \E e \in Entries : MoveAside(e) \/ MoveIn(e)
  BY <1>2 DEF Begin, MoveAside, MoveIn
<1>3. CASE PublishDone
  BY <1>3 DEF PublishDone, WriteJournal, ForwardInv, PublishInv, TypeOK, Journals
<1>4. CASE RecordRuntimeConfigurationMutation
  BY <1>4 DEF RecordRuntimeConfigurationMutation, WriteJournal, WithPreimage, ForwardInv,
     TypeOK, Journals
<1>5. CASE SetDvdRoot
  <2>1. config' = [exists |-> TRUE, dvd |-> op, retro |-> config.retro]
    BY <1>5 DEF SetDvdRoot, TypeOK, Configs
  <2> QED BY <1>5, <2>1 DEF SetDvdRoot
<1>6. CASE SetRetroRewindRoot
  <2>1. config' = [exists |-> TRUE, dvd |-> config.dvd, retro |-> op]
    BY <1>6 DEF SetRetroRewindRoot, TypeOK, Configs
  <2>2. config.dvd \in {journal.snap.dvd, op}
    BY <1>6 DEF SetRetroRewindRoot
  <2>3. /\ pc' = "retroset"
        /\ UNCHANGED <<journal, todo, op>>
        /\ journal.state = "Published" /\ todo = {} /\ journal.planned
    BY <1>6 DEF SetRetroRewindRoot
  <2> QED BY <2>1, <2>2, <2>3
<1>7. CASE UNCHANGED vars
  BY <1>7 DEF vars
<1> QED BY <1>1, <1>2, <1>3, <1>4, <1>5, <1>6, <1>7 DEF Next, Publish

\* Rolling back restores entry by entry, from a copy that is never behind the
\* journal.
LEMMA RollBackStep == IInv /\ [Next]_vars => RollBackInv'
<1> SUFFICES ASSUME IInv, [Next]_vars PROVE RollBackInv'
  OBVIOUS
<1> USE DEF IInv, RollBackInv, Goto
<1>1. CASE \/ Acquire \/ RecoverScratch \/ Release \/ Crash \/ Prepare
           \/ MarkRolledBack \/ Clean
  BY <1>1, Goes DEF Clean
<1>2. CASE \/ Begin \/ PublishDone \/ RecordRuntimeConfigurationMutation
           \/ SetDvdRoot \/ SetRetroRewindRoot \/ Commit
           \/ \E e \in Entries : MoveAside(e) \/ MoveIn(e)
  BY <1>2 DEF Begin, PublishDone, RecordRuntimeConfigurationMutation, SetDvdRoot,
     SetRetroRewindRoot, Commit, MoveAside, MoveIn
<1>3. CASE Recover
  BY <1>3 DEF Recover, RollBack, Unfinished, disk
<1>4. CASE PublishFails
  BY <1>4 DEF PublishFails, RollBack, ForwardInv, PublishInv, Unfinished, disk
<1>5. CASE Dispose
  <2>1. /\ WithPreimage.entries = mem.entries
        /\ WithPreimage.existed = mem.existed
        /\ WithPreimage.planned
        /\ WithPreimage.snap = shot
    BY DEF WithPreimage, TypeOK, Journals
  <2>2. /\ pc' = "rollback"
        /\ todo' = journal.entries
        /\ UNCHANGED <<live, backup, config, journal>>
        /\ Unfinished
        /\ mem = journal
        /\ mem' = mem \/ (mem' = WithPreimage /\ pc = "published")
    BY <1>5, <2>1 DEF Dispose, RollBack, ForwardInv, ConfigInv, Unfinished, disk
  <2> QED BY <2>1, <2>2 DEF ConfigInv, Unfinished
<1>6. CASE RestoreConfig
  BY <1>6 DEF RestoreConfig, Unfinished
<1>7. CASE RollBackFails
  BY <1>7 DEF RollBackFails, RollBack, Unfinished, disk
<1>8. ASSUME NEW e \in Entries, DeletePublished(e) PROVE RollBackInv'
  <2>1. /\ pc = "rollback" /\ e \in todo
        /\ UNCHANGED <<backup, config, journal, mem, todo, pc>>
        /\ \A f \in Entries \ {e} : live'[f] = live[f]
    BY <1>8 DEF DeletePublished, Delete, IsLast, TypeOK
  <2>2. journal.entries \subseteq Entries
    BY JournalFields DEF TypeOK
  <2> QED BY <2>1, <2>2 DEF Unfinished
<1>9. ASSUME NEW e \in Entries, MoveBack(e) PROVE RollBackInv'
  <2>1. /\ pc = "rollback" /\ e \in todo /\ todo' = todo \ {e}
        /\ UNCHANGED <<config, journal, mem, pc>>
        /\ backup'[e] = None /\ backup[e] # None
        /\ \A f \in Entries \ {e} : live'[f] = live[f] /\ backup'[f] = backup[f]
    BY <1>9 DEF MoveBack, IsLast, TypeOK
  <2>2. journal.entries \subseteq Entries
    BY JournalFields DEF TypeOK
  <2>3. e \in journal.existed
    BY <2>1 DEF DiskInv
  <2> QED BY <2>1, <2>2, <2>3 DEF Unfinished
<1>10. ASSUME NEW e \in Entries, InPlace(e) PROVE RollBackInv'
  BY <1>10 DEF InPlace, IsLast, Unfinished, disk
<1>11. CASE UNCHANGED vars
  BY <1>11 DEF vars, Unfinished
<1> QED BY <1>1, <1>2, <1>3, <1>4, <1>5, <1>6, <1>7, <1>8, <1>9, <1>10, <1>11
           DEF Next, Publish, Restore

-----------------------------------------------------------------------------
\* The inductive invariant holds throughout.
LEMMA Invariance == Spec => []IInv
<1>1. Init => IInv
  <2> SUFFICES ASSUME Init PROVE IInv
    OBVIOUS
  <2>1. TypeOK
    BY Members, Zenon DEF Init, TypeOK, NoJournal, Configs
  <2>2. journal.state = "none" /\ journal.entries = {} /\ pc = "idle"
    BY DEF Init, NoJournal
  <2>3. \A e \in Entries : backup[e] = None /\ live[e] # Part
    BY DEF Init, None, Part
  <2>4. DiskInv
    BY <2>2, <2>3 DEF DiskInv, BackupsNamed, Unfinished
  <2> QED BY <2>1, <2>2, <2>4 DEF IInv, IdleInv, ForwardInv, PublishInv, ConfigInv, RollBackInv
<1>2. IInv /\ [Next]_vars => IInv'
  BY TypeStep, DiskStep, IdleStep, ForwardStep, PublishStep, ConfigStep, RollBackStep
     DEF IInv
<1> QED BY <1>1, <1>2, PTL DEF Spec

\* Types, for every number of entries and transactions.
THEOREM TypeCorrect == Spec => []TypeOK
BY Invariance, PTL DEF IInv

\* A backup is always named by the journal that recovery reads: CleanDone takes
\* the journal away only after the work root.
THEOREM OriginalsNamed == Spec => []BackupsNamed
BY Invariance, PTL DEF IInv, DiskInv

\* RollBackEntry never throws for a missing backup or an ambiguous entry, after
\* any number of crashes and failed rollbacks.
THEOREM RecoveryProceeds == Spec => []RecoveryNeverRefuses
<1>1. IInv => RecoveryNeverRefuses
  <2> SUFFICES ASSUME IInv, pc = "rollback", NEW e \in todo
               PROVE  ~BackupMissing(e) /\ ~Ambiguous(e)
    BY DEF RecoveryNeverRefuses
  <2>1. /\ Unfinished /\ e \in journal.entries /\ e \in Entries
        /\ mem.existed = journal.existed
    BY DEF IInv, RollBackInv, TypeOK
  <2> QED BY <2>1, Members DEF IInv, DiskInv, BackupMissing, Ambiguous
<1> QED BY <1>1, Invariance, PTL

\* Acquire hands over a whole installation: no partial tree, nothing to roll back.
THEOREM HolderSeesWhole == Spec => []LockHolderSeesWhole
<1>1. IInv => LockHolderSeesWhole
  BY DEF IInv, DiskInv, IdleInv, LockHolderSeesWhole, Unfinished
<1> QED BY <1>1, Invariance, PTL

-----------------------------------------------------------------------------
(* The transaction is atomic.                                                *)

\* What recovery would restore is settled path by path.
LEMMA FilesPointwise ==
  ASSUME \A e \in Entries : RecoveredFiles'[e] = RecoveredFiles[e]
  PROVE  RecoveredFiles' = RecoveredFiles
BY DEF RecoveredFiles

\* Only Commit changes what recovery makes of the disk.
LEMMA OnlyCommit ==
  IInv /\ IInv' /\ [Next]_vars /\ ~Commit =>
    UNCHANGED <<RecoveredFiles, RecoveredConfig>>
<1> SUFFICES ASSUME IInv, IInv', [Next]_vars, ~Commit
             PROVE  UNCHANGED <<RecoveredFiles, RecoveredConfig>>
  OBVIOUS
<1> USE DEF IInv
<1>1. CASE UNCHANGED <<live, backup, config, journal>>
  BY <1>1 DEF RecoveredFiles, RecoveredConfig, Unfinished
<1>2. CASE Begin
  <2>1. /\ UNCHANGED <<live, backup, config>>
        /\ journal.state = "none"
        /\ journal'.state = "Prepared"
        /\ ~journal'.planned
        /\ journal'.entries = Prepared
        /\ journal'.existed = Originals(Prepared)
    BY <1>2 DEF Begin, NoJournal
  <2>2. \A e \in Entries : backup[e] = None
    BY <2>1 DEF DiskInv, BackupsNamed
  <2>3. \A e \in Entries : e \in journal'.entries \ journal'.existed => live[e] = None
    BY <2>1 DEF Originals
  <2> QED BY <2>1, <2>2, <2>3 DEF RecoveredFiles, RecoveredConfig, Unfinished
<1>3. CASE PublishDone
  <2>1. /\ UNCHANGED <<live, backup, config>>
        /\ Unfinished /\ Unfinished'
        /\ journal'.entries = journal.entries
        /\ journal'.existed = journal.existed
        /\ ~journal.planned /\ ~journal'.planned
    BY <1>3 DEF PublishDone, WriteJournal, Unfinished, ForwardInv, PublishInv,
       TypeOK, Journals
  <2> QED BY <2>1 DEF RecoveredFiles, RecoveredConfig
<1>4. CASE RecordRuntimeConfigurationMutation
  <2>1. /\ UNCHANGED <<live, backup, config>>
        /\ Unfinished /\ Unfinished'
        /\ journal'.entries = journal.entries
        /\ journal'.existed = journal.existed
        /\ ~journal.planned
        /\ journal'.planned /\ journal'.snap = config
    BY <1>4 DEF RecordRuntimeConfigurationMutation, WriteJournal, WithPreimage, Unfinished,
       ForwardInv, ConfigInv, TypeOK, Journals
  <2> QED BY <2>1 DEF RecoveredFiles, RecoveredConfig
<1>5. CASE SetDvdRoot \/ SetRetroRewindRoot
  <2>1. UNCHANGED <<live, backup, journal>> /\ Unfinished /\ journal.planned
    BY <1>5 DEF SetDvdRoot, SetRetroRewindRoot, ConfigInv, Unfinished
  <2> QED BY <2>1 DEF RecoveredFiles, RecoveredConfig, Unfinished
<1>6. ASSUME NEW e \in Entries, MoveAside(e)
      PROVE  UNCHANGED <<RecoveredFiles, RecoveredConfig>>
  <2>1. UNCHANGED <<config, journal>> /\ Unfinished /\ e \in journal.entries
        /\ mem = journal /\ backup[e] = None
    BY <1>6 DEF MoveAside, IsFirst, ForwardInv, PublishInv, Unfinished
  <2>2. e \in mem.existed => live[e] # None
    BY <2>1, Members DEF DiskInv, TypeOK
  <2>3. \A f \in Entries : RecoveredFiles'[f] = RecoveredFiles[f]
    BY <1>6, <2>1, <2>2 DEF MoveAside, RecoveredFiles, Unfinished, TypeOK
  <2> QED BY <2>1, <2>3, FilesPointwise DEF RecoveredConfig, Unfinished
<1>7. ASSUME NEW e \in Entries, MoveIn(e)
      PROVE  UNCHANGED <<RecoveredFiles, RecoveredConfig>>
  <2>1. /\ UNCHANGED <<backup, config, journal>> /\ Unfinished
        /\ e \in journal.entries
        /\ e \in journal.existed => backup[e] # None
    BY <1>7 DEF MoveIn, IsFirst, ForwardInv, PublishInv, Unfinished
  <2>2. \A f \in Entries : RecoveredFiles'[f] = RecoveredFiles[f]
    BY <1>7, <2>1 DEF MoveIn, RecoveredFiles, Unfinished, TypeOK
  <2> QED BY <2>1, <2>2, FilesPointwise DEF RecoveredConfig, Unfinished
<1>8. CASE RestoreConfig
  BY <1>8 DEF RestoreConfig, RollBackInv, RecoveredFiles, RecoveredConfig, Unfinished
<1>9. CASE MarkRolledBack
  <2>1. /\ UNCHANGED <<live, backup, config>>
        /\ Unfinished /\ ~Unfinished'
        /\ journal.planned => config = journal.snap
        /\ \A e \in journal.entries :
             backup[e] = None /\ (e \notin journal.existed => live[e] = None)
    BY <1>9 DEF MarkRolledBack, WriteJournal, Unfinished, RollBackInv, TypeOK, Journals
  <2>2. \A e \in Entries : backup[e] = None
    BY <2>1 DEF DiskInv, BackupsNamed
  <2>3. \A e \in Entries : RecoveredFiles'[e] = RecoveredFiles[e]
    BY <2>1, <2>2 DEF RecoveredFiles
  <2> QED BY <2>1, <2>3, FilesPointwise DEF RecoveredConfig
<1>10. ASSUME NEW e \in Entries, DeletePublished(e)
       PROVE  UNCHANGED <<RecoveredFiles, RecoveredConfig>>
  <2>1. /\ UNCHANGED <<backup, config, journal>> /\ Unfinished
        /\ e \in journal.entries
        /\ backup[e] # None \/ e \notin journal.existed
        /\ \E left : live' = [live EXCEPT ![e] = left]
    BY <1>10 DEF DeletePublished, Delete, IsLast, RollBackInv
  <2>2. \A f \in Entries : RecoveredFiles'[f] = RecoveredFiles[f]
    BY <2>1 DEF RecoveredFiles, Unfinished, TypeOK
  <2> QED BY <2>1, <2>2, FilesPointwise DEF RecoveredConfig, Unfinished
<1>11. ASSUME NEW e \in Entries, MoveBack(e)
       PROVE  UNCHANGED <<RecoveredFiles, RecoveredConfig>>
  <2>1. /\ UNCHANGED <<config, journal>> /\ Unfinished
        /\ backup[e] # None
        /\ e \in journal.existed
    BY <1>11 DEF MoveBack, RollBackInv, DiskInv
  <2>2. \A f \in Entries : RecoveredFiles'[f] = RecoveredFiles[f]
    BY <1>11, <2>1 DEF MoveBack, RecoveredFiles, Unfinished, TypeOK
  <2> QED BY <2>1, <2>2, FilesPointwise DEF RecoveredConfig, Unfinished
<1>12. CASE CleanDone \/ \E e \in Entries : CleanBackup(e)
  <2>1. UNCHANGED <<live, config>> /\ ~Unfinished /\ ~Unfinished'
    BY <1>12 DEF CleanDone, CleanBackup, NoJournal, IdleInv, Unfinished
  <2> QED BY <2>1 DEF RecoveredFiles, RecoveredConfig
<1>13. CASE Acquire \/ Recover \/ RecoverScratch \/ Release \/ Crash \/ Prepare
            \/ PublishFails \/ Dispose \/ RollBackFails \/ CleanFails
            \/ \E e \in Entries : InPlace(e)
  BY <1>1, <1>13, Zenon DEF Acquire, Recover, RecoverScratch, Release, Crash, Prepare,
     PublishFails, Dispose, RollBackFails, CleanFails, InPlace, disk
<1>14. CASE UNCHANGED vars
  BY <1>1, <1>14 DEF vars
<1> QED BY <1>2, <1>3, <1>4, <1>5, <1>6, <1>7, <1>8, <1>9, <1>10, <1>11, <1>12,
           <1>13, <1>14 DEF Next, Publish, Restore, Clean

\* Outside "begin", the update under way is a matter of the journal and op.
LEMMA StagedKept ==
  ASSUME op' = op, Unfinished' <=> Unfinished,
         Unfinished => journal'.entries = journal.entries,
         pc # "begin", pc' # "begin"
  PROVE  Staged' = Staged
BY DEF Staged

\* What Staged is where no transaction is under way.
LEMMA NothingStaged ==
  ASSUME pc # "begin", ~Unfinished
  PROVE  Staged = Atomic!Nothing
BY DEF Staged, Atomic!Nothing

\* At "begin" no journal is unfinished and something is prepared.
LEMMA StagedAtBegin ==
  ASSUME IInv, pc = "begin"
  PROVE  /\ ~Unfinished
         /\ Prepared \in (SUBSET Entries) \ {{}}
         /\ Staged = [part |-> Prepared, release |-> op]
         /\ Staged # Atomic!Nothing
<1>1. ~Unfinished /\ Prepared # {} /\ Prepared \in SUBSET Entries
  BY DEF IInv, IdleInv, Unfinished, Prepared
<1>2. Staged = [part |-> Prepared, release |-> op]
  BY DEF Staged
<1> QED BY <1>1, <1>2 DEF Atomic!Nothing

\* An unfinished journal names at least one entry, and Staged what it names.
LEMMA StagedByJournal ==
  ASSUME pc # "begin", Unfinished
  PROVE  Staged = [part |-> journal.entries, release |-> op]
BY DEF Staged

\* Preparing stages an update; Begin journals exactly what was prepared; the
\* journal goes on naming it until it says Committed or RolledBack, by whatever
\* process; giving up before Begin and MarkRolledBack abandon it.
LEMMA OnlyStagesOrAbandons ==
  IInv /\ IInv' /\ [Next]_vars /\ ~Commit =>
    \/ Staged' = Staged
    \/ Staged = Atomic!Nothing /\ Staged' \in [part : (SUBSET Entries) \ {{}}, release : 1..MaxOps]
    \/ Staged # Atomic!Nothing /\ Staged' = Atomic!Nothing
<1> DEFINE Conclusion ==
      \/ Staged' = Staged
      \/ Staged = Atomic!Nothing /\ Staged' \in [part : (SUBSET Entries) \ {{}}, release : 1..MaxOps]
      \/ Staged # Atomic!Nothing /\ Staged' = Atomic!Nothing
<1> SUFFICES ASSUME IInv, IInv', [Next]_vars, ~Commit
             PROVE  Conclusion
  OBVIOUS
<1>1. CASE Prepare
  <2>1. /\ pc = "ready" /\ pc' = "begin" /\ UNCHANGED journal
        /\ op' = op + 1 /\ op < MaxOps /\ op \in Whole
    BY <1>1 DEF Prepare, Goto, IInv, TypeOK
  <2>2. Staged = Atomic!Nothing
    <3>1. ~Unfinished
      BY <2>1 DEF IInv, IdleInv, Unfinished
    <3> QED BY <2>1, <3>1, NothingStaged
  <2>3. Staged' = [part |-> Prepared', release |-> op'] /\ Prepared' \in (SUBSET Entries) \ {{}}
    <3>1. Prepared' # {} /\ Prepared' \in SUBSET Entries
      BY <2>1 DEF IInv, IdleInv, Prepared
    <3> QED BY <2>1, <3>1 DEF Staged
  <2>4. op' \in 1..MaxOps
    BY <2>1, MaxOpsOK DEF Whole
  <2> QED BY <2>2, <2>3, <2>4
<1>2. CASE Begin
  <2>1. /\ pc = "begin" /\ pc' = "publish" /\ op' = op
        /\ journal'.state = "Prepared" /\ journal'.entries = Prepared
    BY <1>2 DEF Begin, Goto, NoJournal
  <2>2. Staged' = [part |-> Prepared, release |-> op]
    BY <2>1 DEF Staged, Unfinished
  <2> QED BY <2>1, <2>2 DEF Staged
<1>3. CASE pc = "begin" /\ pc' = "idle" /\ UNCHANGED <<journal, op>>
  <2>1. ~Unfinished /\ Staged # Atomic!Nothing
    BY <1>3, StagedAtBegin
  <2>2. Staged' = Atomic!Nothing
    BY <1>3, <2>1 DEF Staged, Unfinished, Atomic!Nothing
  <2> QED BY <2>1, <2>2
<1>4. CASE pc # "begin" /\ pc' # "begin" /\ UNCHANGED <<journal, op>>
  BY <1>4, StagedKept DEF Unfinished
<1>5. CASE PublishDone \/ RecordRuntimeConfigurationMutation
  <2>1. /\ pc \in {"publish", "published"} /\ pc' \in {"published", "config"} /\ op' = op
    BY <1>5 DEF PublishDone, RecordRuntimeConfigurationMutation, Goto
  <2>2. mem = journal /\ mem \in Journals /\ Unfinished
    BY <2>1 DEF IInv, ForwardInv, PublishInv, ConfigInv, TypeOK, Unfinished
  <2>3. journal'.entries = journal.entries /\ Unfinished'
    <3>1. CASE PublishDone
      BY <2>2, <3>1 DEF PublishDone, WriteJournal, Unfinished, Journals
    <3>2. CASE RecordRuntimeConfigurationMutation
      BY <2>2, <3>2 DEF RecordRuntimeConfigurationMutation, WithPreimage, WriteJournal,
         Unfinished, Journals
    <3> QED BY <1>5, <3>1, <3>2
  <2> QED BY <2>1, <2>2, <2>3, StagedKept
<1>6. CASE MarkRolledBack
  <2>1. /\ pc = "restored" /\ pc' = "rolled" /\ op' = op
        /\ Unfinished /\ ~Unfinished'
    BY <1>6 DEF MarkRolledBack, WriteJournal, Goto, Unfinished, IInv, RollBackInv, TypeOK, Journals
  <2>2. Staged' = Atomic!Nothing
    BY <2>1 DEF Staged, Atomic!Nothing
  <2> QED BY <2>2
<1>7. CASE CleanDone
  <2>1. /\ pc # "begin" /\ pc' # "begin" /\ op' = op
        /\ ~Unfinished /\ ~Unfinished'
    BY <1>7 DEF CleanDone, AfterCleaning, Goto, NoJournal, IInv, IdleInv, Unfinished
  <2> QED BY <2>1, StagedKept
<1>8. CASE Release \/ Crash
  <2>1. pc' = "idle" /\ UNCHANGED <<journal, op>>
    BY <1>8 DEF Release, Crash, Goto, disk
  <2> QED BY <1>3, <1>4, <2>1
<1>9. CASE Acquire \/ Recover \/ RecoverScratch
  BY <1>4, <1>9 DEF Acquire, Recover, RecoverScratch, RollBack, Goto, disk
<1>10. CASE PublishFails \/ Dispose \/ RollBackFails \/ RestoreConfig
            \/ SetDvdRoot \/ SetRetroRewindRoot
  <2>1. pc # "begin" /\ pc' # "begin" /\ UNCHANGED <<journal, op>>
    BY <1>10 DEF PublishFails, Dispose, RollBackFails, RestoreConfig, RollBack, SetDvdRoot,
       SetRetroRewindRoot, Goto, disk
  <2> QED BY <1>4, <2>1
<1>11. CASE CleanFails
  BY <1>4, <1>11 DEF CleanFails, AfterCleaning, Goto, disk
<1>12. CASE \E e \in Entries : MoveAside(e) \/ MoveIn(e)
  BY <1>4, <1>12 DEF MoveAside, MoveIn, Goto
<1>13. CASE \E e \in Entries : DeletePublished(e) \/ MoveBack(e) \/ InPlace(e)
  BY <1>4, <1>13 DEF DeletePublished, MoveBack, InPlace, disk
<1>14. CASE \E e \in Entries : CleanBackup(e)
  BY <1>4, <1>14 DEF CleanBackup
<1>15. CASE UNCHANGED vars
  BY <1>15 DEF vars, Staged, Unfinished, Prepared
<1> HIDE DEF Conclusion
<1> QED BY <1>1, <1>2, <1>5, <1>6, <1>7, <1>8, <1>9, <1>10, <1>11, <1>12, <1>13, <1>14,
           <1>15 DEF Next, Publish, Restore, Clean

\* Commit is the atomic update: every entry that was staged becomes new, no
\* other path changes, and the configuration changes with them.
LEMMA CommitUpdates == IInv /\ Commit => Atomic!Update
<1> SUFFICES ASSUME IInv, Commit PROVE Atomic!Update
  OBVIOUS
<1> USE DEF IInv
<1>1. /\ UNCHANGED <<live, backup, config>>
      /\ pc # "begin" /\ pc' # "begin"
      /\ Unfinished /\ ~Unfinished'
      /\ journal.entries \in (SUBSET Entries) \ {{}}
      /\ \A e \in journal.entries : live[e] = op
      /\ op \in Whole
  BY DEF Commit, WriteJournal, Goto, Unfinished, ForwardInv, ConfigInv, TypeOK, Journals
<1>2. RecoveredFiles' = [e \in Entries |-> IF e \in journal.entries THEN op
                                            ELSE RecoveredFiles[e]]
  <2>1. \A e \in Entries : e \notin journal.entries => RecoveredFiles[e] = live[e]
    BY DEF RecoveredFiles, DiskInv, BackupsNamed
  <2>2. RecoveredFiles' = [e \in Entries |-> live[e]]
    BY <1>1 DEF RecoveredFiles
  <2> QED BY <1>1, <2>1, <2>2
<1>3. RecoveredConfig' = config
  BY <1>1 DEF RecoveredConfig
<1>4. \/ RecoveredConfig' = RecoveredConfig
      \/ RecoveredConfig' \in [exists : {TRUE},
                                 dvd    : {RecoveredConfig.dvd, op},
                                 retro  : {RecoveredConfig.retro, op}]
  <2>1. CASE pc = "published"
    BY <1>3, <2>1 DEF RecoveredConfig, ConfigInv
  <2>2. CASE pc # "published"
    <3>1. RecoveredConfig = journal.snap
      BY <1>1, <2>2 DEF Commit, RecoveredConfig, ConfigInv
    <3>2. CASE pc = "dvdset"
      <4>1. config = [exists |-> TRUE, dvd |-> op, retro |-> journal.snap.retro]
        BY <3>2 DEF ConfigInv
      <4> QED BY <1>3, <3>1, <4>1
    <3>3. CASE pc = "retroset"
      <4>1. PICK dvd \in {journal.snap.dvd, op} :
              config = [exists |-> TRUE, dvd |-> dvd, retro |-> op]
        BY <3>3 DEF ConfigInv
      <4> QED BY <1>3, <3>1, <4>1
    <3> QED BY <2>2, <3>2, <3>3 DEF Commit
  <2> QED BY <2>1, <2>2
<1>5. Staged = [part |-> journal.entries, release |-> op] /\ Staged # Atomic!Nothing
  <2>1. Staged = [part |-> journal.entries, release |-> op]
    BY <1>1, StagedByJournal
  <2> QED BY <1>1, <2>1 DEF Atomic!Nothing
<1>6. Staged' = Atomic!Nothing
  BY <1>1 DEF Staged, Atomic!Nothing
<1> QED BY <1>2, <1>4, <1>5, <1>6 DEF Atomic!Update

\* The journaled transaction implements AtomicInstall for every number of
\* entries and transactions: whatever dies or throws and wherever, also inside
\* recovery, what recovery restores has either every entry that the operation
\* prepared in its new version and no other entry changed, or none of them.
THEOREM TransactionIsAtomic == Spec => ImplementsAtomic
<1>1. Init => Atomic!Init
  <2> SUFFICES ASSUME Init PROVE Atomic!Init
    OBVIOUS
  <2>1. ~Unfinished
    BY DEF Init, NoJournal, Unfinished
  <2>2. RecoveredFiles = [e \in Entries |-> live[e]] /\ RecoveredConfig = config
    BY <2>1 DEF RecoveredFiles, RecoveredConfig
  <2>3. Staged = Atomic!Nothing
    BY <2>1, NothingStaged DEF Init
  <2> QED BY <2>2, <2>3 DEF Init, Atomic!Init
<1>2. IInv /\ IInv' /\ [Next]_vars =>
        [Atomic!Stage \/ Atomic!Update \/ Atomic!Abandon]_<<RecoveredFiles, RecoveredConfig, Staged>>
  <2>1. CASE Commit
    BY <2>1, CommitUpdates
  <2>2. CASE ~Commit
    BY <2>2, OnlyCommit, OnlyStagesOrAbandons DEF Atomic!Stage, Atomic!Abandon
  <2> QED BY <2>1, <2>2
<1> QED BY <1>1, <1>2, Invariance, PTL DEF Spec, ImplementsAtomic, Atomic!Spec
=============================================================================
