---------------------------- MODULE NandSafeFile ----------------------------
(***************************************************************************)
(* One NAND save file on the host (nand_async.cpp, nand_api.cpp, nand_isfs   *)
(* .cpp; POSIX build).  The file and its scratch copy ".nandsafe.tmp" are    *)
(* two names in one directory; the data is in inodes.  The guest holds       *)
(* NANDFileInfo blocks, whose descriptors are never reused, and runs one     *)
(* library call at a time: what can come between two steps of a close is the *)
(* death of the process or of the machine, and each host call may fail.      *)
(*                                                                           *)
(* Contents are a function from blocks to the number of the write that put   *)
(* the block there.  The file is not rksys.dat and no FaceLib resource, so   *)
(* NandCheckSystemSaveRead and SeedFaceLibResource have nothing to do.       *)
(***************************************************************************)
EXTENDS Integers, FiniteSets

CONSTANTS
  Infos,        \* the guest's NANDFileInfo blocks
  Blocks,       \* parts of the file a single NANDWrite may touch
  NumInodes,    \* bound: inodes in use at one time
  MaxWrites,    \* bound: writes
  MaxOpens,     \* bound: calls that open the file
  Faults        \* host calls that may fail

ASSUME NumInodesOK == NumInodes \in Nat \ {0}
ASSUME MaxWritesOK == MaxWrites \in Nat
ASSUME MaxOpensOK == MaxOpens \in Nat
ASSUME FaultsOK ==
  Faults \subseteq {"copy", "open", "flush", "rename", "remove", "dirsync"}

VARIABLES
  file,      \* inode the file's name refers to, 0 when there is none
  temp,      \* inode of the scratch name, 0 when there is none
  platter,   \* what file may be after the power fails
  content,   \* data of each inode, page cache included
  synced,    \* inodes whose data is on the platter as it is
  handle,    \* the g_fileHandles entry of each block's descriptor
  flag,      \* openFlag of each block
  closing,   \* the close in progress
  wrote,     \* number of the latest write
  opens,     \* calls so far that open the file
  promise,   \* contents a crash may leave; {} when nothing is promised
  contended  \* a live scratch file was discarded under its writer

host == <<file, temp, platter, content, synced>>
vars == <<file, temp, platter, content, synced, handle, flag, closing, wrote, opens,
          promise, contended>>

Inodes == 1..NumInodes
Torn == -1          \* a block the power failed on
Contents == [Blocks -> {Torn} \cup 0..MaxWrites]
Empty == [b \in Blocks |-> 0]
Garbage == [b \in Blocks |-> Torn]

Modes == {"read", "write"}
Handles == [inode : 0..NumInodes, shadow : BOOLEAN, mode : Modes]
NoHandle == [inode |-> 0, shadow |-> FALSE, mode |-> "read"]
Flags == {"closed", "open", "safe", "ios"}
Closings == [stage : {"none", "rename", "sync"}, info : Infos, inode : 0..NumInodes]

Live(i) == handle[i].inode # 0
Quiet == closing.stage = "none"

InUse == platter \cup {file, temp, closing.inode} \cup {handle[i].inode : i \in Infos}

\* The inode a file that is created gets: the first one nothing refers to.
Fresh == {n \in Inodes \ InUse : \A m \in Inodes \ InUse : n <= m}

\* The outcomes of a host call.
Outcomes(call) == IF call \in Faults THEN BOOLEAN ELSE {TRUE}

Init ==
  /\ file = 1
  /\ temp = 0
  /\ platter = {file}
  /\ content = [n \in Inodes |-> Empty]
  /\ synced = {file}
  /\ handle = [i \in Infos |-> NoHandle]
  /\ flag = [i \in Infos |-> "closed"]
  /\ closing \in [stage : {"none"}, info : Infos, inode : {0}]
  /\ wrote = 0
  /\ opens = 0
  /\ promise = {Empty}
  /\ contended = FALSE

-----------------------------------------------------------------------------
(* Opening.                                                                  *)

\* The guest opens into a block it has no open file in.
Opening(i) ==
  /\ Quiet
  /\ ~Live(i)
  /\ opens < MaxOpens
  /\ opens' = opens + 1

\* AllocateFd, then the descriptor and the flag go to the guest's block.
Opens(i, n, shadow, mode, f) ==
  /\ handle' = [handle EXCEPT ![i] = [inode |-> n, shadow |-> shadow, mode |-> mode]]
  /\ flag' = [flag EXCEPT ![i] = f]

Refuses == UNCHANGED <<handle, flag>>

\* DiscardStaleSafeTemp: TRUE in ok when nothing is left under the scratch name.
Discard(ok) == ok \in (IF temp = 0 THEN {TRUE} ELSE Outcomes("remove"))

\* copy_file onto a scratch name that is free.
Seeds(n) ==
  /\ temp' = n
  /\ content' = [content EXCEPT ![n] = content[file]]
  /\ synced' = synced \ {n}

\* The copy or the fopen of the scratch file failed and NandRemove follows,
\* which may fail too and leave a part of the copy.
SeedFails(n) ==
  /\ Faults \cap {"copy", "open"} # {}
  /\ \E removed \in Outcomes("remove") : temp' = IF removed THEN 0 ELSE n

Spoilt(n) == [content EXCEPT ![n] = Garbage]

\* fopen of the file itself, when the inodes hold data of which clean is synced.
\* A write open whose "r+b" fails tries "w+b", which creates the file or empties
\* the one that is there.
OpensInPlace(i, mode, data, clean) ==
  \/ /\ file # 0
     /\ Opens(i, file, FALSE, mode, "open")
     /\ content' = data
     /\ synced' = clean
     /\ UNCHANGED <<file, platter, promise>>
  \/ /\ mode = "write"
     /\ file # 0
     /\ "open" \in Faults
     /\ Opens(i, file, FALSE, mode, "open")
     /\ content' = [data EXCEPT ![file] = Empty]
     /\ synced' = clean \ {file}
     /\ promise' = {}
     /\ UNCHANGED <<file, platter>>
  \/ /\ mode = "write"
     /\ file = 0
     /\ \E n \in Fresh :
          /\ file' = n
          /\ platter' = platter \cup {n}
          /\ content' = [data EXCEPT ![n] = Empty]
          /\ synced' = clean \ {n}
          /\ Opens(i, n, FALSE, mode, "open")
     /\ promise' = {}
  \/ /\ file = 0 \/ "open" \in Faults
     /\ Refuses
     /\ content' = data
     /\ synced' = clean
     /\ UNCHANGED <<file, platter, promise>>

IsHostPathOpen == \E i \in Infos : Live(i)

NANDOpen_Careless(i, mode) ==
  /\ Opening(i)
  /\ \/ /\ mode = "read" \/ file = 0
        /\ OpensInPlace(i, mode, content, synced)
        /\ UNCHANGED temp
     \/ /\ mode = "write"
        /\ file # 0
        /\ \E n \in Fresh : Seeds(n) /\ Opens(i, n, TRUE, mode, "open")
        /\ UNCHANGED <<file, platter, promise>>
  /\ UNCHANGED <<closing, wrote, contended>>

\* NANDOpen: a write open of an existing file that nobody else has open goes to
\* a scratch copy.  Everything that goes wrong on the way there falls back to
\* the file itself.
NANDOpen(i, mode) ==
  /\ Opening(i)
  /\ \/ /\ mode = "read" \/ file = 0 \/ IsHostPathOpen
        /\ OpensInPlace(i, mode, content, synced)
        /\ UNCHANGED temp
     \/ /\ mode = "write"
        /\ file # 0
        /\ ~IsHostPathOpen
        /\ Discard(FALSE)
        /\ OpensInPlace(i, mode, content, synced)
        /\ UNCHANGED temp
     \/ /\ mode = "write"
        /\ file # 0
        /\ ~IsHostPathOpen
        /\ Discard(TRUE)
        /\ \E n \in Fresh : Seeds(n) /\ Opens(i, n, TRUE, mode, "open")
        /\ UNCHANGED <<file, platter, promise>>
     \/ /\ mode = "write"
        /\ file # 0
        /\ ~IsHostPathOpen
        /\ Discard(TRUE)
        /\ \E n \in Fresh : /\ SeedFails(n)
                            /\ OpensInPlace(i, mode, Spoilt(n), synced \ {n})
  /\ UNCHANGED <<closing, wrote, contended>>

\* NANDSafeOpen for writing.  Unlike NANDOpen it does not ask whether the file
\* is open, so the scratch file it discards may be another block's.
SafeOpenWrite(i) ==
  /\ file # 0
  /\ Discard(TRUE)
  /\ LET robs == \E j \in Infos : Live(j) /\ handle[j].shadow
     IN  /\ contended' = (contended \/ robs)
         /\ promise' = IF robs THEN {} ELSE promise
  /\ \E n \in Fresh : \/ Seeds(n) /\ Opens(i, n, TRUE, "write", "safe")
                      \/ /\ SeedFails(n)
                         /\ Refuses
                         /\ content' = Spoilt(n)
                         /\ synced' = synced \ {n}

NANDSafeOpen(i, mode) ==
  /\ Opening(i)
  /\ \/ /\ mode = "read"
        /\ \/ file # 0 /\ Opens(i, file, FALSE, mode, "safe")
           \/ (file = 0 \/ "open" \in Faults) /\ Refuses
        /\ UNCHANGED <<temp, content, synced, promise, contended>>
     \/ /\ mode = "write"
        /\ SafeOpenWrite(i)
     \/ /\ mode = "write"
        /\ file = 0 \/ Discard(FALSE)
        /\ Refuses
        /\ UNCHANGED <<temp, content, synced, promise, contended>>
  /\ UNCHANGED <<file, platter, closing, wrote>>

\* IOS_Open never creates and never makes a scratch copy.
NAND_IOS_Open(i, mode) ==
  /\ Opening(i)
  /\ file # 0
  /\ Opens(i, file, FALSE, mode, "ios")
  /\ UNCHANGED <<host, closing, wrote, promise, contended>>

-----------------------------------------------------------------------------
(* Data and names.                                                           *)

\* NANDWrite and IOS_Write: fwrite and fflush, no fsync.
NANDWrite(i, b) ==
  /\ Quiet
  /\ Live(i)
  /\ handle[i].mode = "write"
  /\ wrote < MaxWrites
  /\ wrote' = wrote + 1
  /\ content' = [content EXCEPT ![handle[i].inode][b] = wrote + 1]
  /\ synced' = synced \ {handle[i].inode}
  /\ promise' = IF ~handle[i].shadow /\ handle[i].inode \in platter \cup {file}
                THEN {} ELSE promise
  /\ UNCHANGED <<file, temp, platter, handle, flag, closing, opens, contended>>

\* NANDDelete and ISFS DELETE.
NANDDelete ==
  /\ Quiet
  /\ file # 0
  /\ file' = 0
  /\ platter' = platter \cup {0}
  /\ promise' = {}
  /\ UNCHANGED <<temp, content, synced, handle, flag, closing, wrote, opens, contended>>

CreatesNew ==
  /\ file = 0
  /\ \E n \in Fresh :
       /\ file' = n
       /\ platter' = platter \cup {n}
       /\ content' = [content EXCEPT ![n] = Empty]
       /\ synced' = synced \ {n}

NANDCreate ==
  /\ Quiet
  /\ CreatesNew
  /\ UNCHANGED <<temp, handle, flag, closing, wrote, opens, promise, contended>>

\* ISFS CREATEFILE opens with "wb" whether or not the file exists.
ISFS_CreateFile ==
  /\ Quiet
  /\ \/ CreatesNew
     \/ /\ file # 0
        /\ content' = [content EXCEPT ![file] = Empty]
        /\ synced' = synced \ {file}
        /\ UNCHANGED <<file, platter>>
  /\ promise' = {}
  /\ UNCHANGED <<temp, handle, flag, closing, wrote, opens, contended>>

-----------------------------------------------------------------------------
(* Closing.                                                                  *)

OthersLive(i) == \E j \in Infos \ {i} : Live(j)

\* The entry leaves g_fileHandles before anything else happens.
Erases(i) ==
  /\ handle' = [handle EXCEPT ![i] = NoHandle]
  /\ contended' = (contended /\ OthersLive(i))

\* A handle on the file itself: the flush of a writable one is all there is.
CloseInPlace(i) ==
  /\ ~handle[i].shadow
  /\ Erases(i)
  /\ \/ /\ handle[i].mode = "read"
        /\ flag' = [flag EXCEPT ![i] = "closed"]
        /\ UNCHANGED synced
     \/ /\ handle[i].mode = "write"
        /\ flag' = [flag EXCEPT ![i] = "closed"]
        /\ synced' = synced \cup {handle[i].inode}
     \/ /\ handle[i].mode = "write"
        /\ "flush" \in Faults
        /\ UNCHANGED <<flag, synced>>
  /\ UNCHANGED <<temp, closing>>

CommitFlush_NoSync(i) ==
  /\ handle[i].shadow
  /\ handle' = [handle EXCEPT ![i] = NoHandle]
  /\ contended' = contended
  /\ closing' = [stage |-> "rename", info |-> i, inode |-> handle[i].inode]
  /\ UNCHANGED <<temp, synced, flag>>

\* A shadow: flushed, or dropped when the flush fails.
CommitFlush(i) ==
  /\ handle[i].shadow
  /\ handle' = [handle EXCEPT ![i] = NoHandle]
  /\ \/ /\ synced' = synced \cup {handle[i].inode}
        /\ closing' = [stage |-> "rename", info |-> i, inode |-> handle[i].inode]
        /\ UNCHANGED <<temp, contended>>
     \/ /\ "flush" \in Faults
        /\ \E removed \in Outcomes("remove") : temp' = IF removed THEN 0 ELSE temp
        /\ contended' = (contended /\ OthersLive(i))
        /\ UNCHANGED <<synced, closing>>
  /\ UNCHANGED flag

\* NANDClose takes blocks opened by NANDOpen and NANDSafeClose any block.
CommitAndCloseFd(i) ==
  /\ Quiet
  /\ Live(i)
  /\ flag[i] \in {"open", "safe"}
  /\ CloseInPlace(i) \/ CommitFlush(i)
  /\ UNCHANGED <<file, platter, content, wrote, opens, promise>>

\* NANDClose of a descriptor that is gone reports success.
CloseMissing(i) ==
  /\ Quiet
  /\ ~Live(i)
  /\ flag[i] = "open"
  /\ flag' = [flag EXCEPT ![i] = "closed"]
  /\ UNCHANGED <<host, handle, closing, wrote, opens, promise, contended>>

NAND_IOS_Close(i) ==
  /\ Quiet
  /\ Live(i)
  /\ flag[i] = "ios"
  /\ Erases(i)
  /\ flag' = [flag EXCEPT ![i] = "closed"]
  /\ UNCHANGED <<host, closing, wrote, opens, promise>>

Idle_Stuck == closing' = [stage |-> "done", info |-> closing.info, inode |-> 0]

Idle == closing' = [stage |-> "none", info |-> closing.info, inode |-> 0]
StillContended == contended' = (contended /\ IsHostPathOpen)

\* AtomicReplaceHostFile renames whatever the scratch name refers to.
CommitRename ==
  /\ closing.stage = "rename"
  /\ \/ /\ temp # 0
        /\ file' = temp
        /\ temp' = 0
        /\ platter' = platter \cup {temp}
        /\ closing' = [closing EXCEPT !.stage = "sync"]
        /\ UNCHANGED contended
     \/ /\ temp = 0 \/ "rename" \in Faults
        /\ \E removed \in Outcomes("remove") : temp' = IF removed THEN 0 ELSE temp
        /\ Idle
        /\ StillContended
        /\ UNCHANGED <<file, platter>>
  /\ UNCHANGED <<content, synced, handle, flag, wrote, opens, promise>>

\* The directory's fsync, whose outcome is not looked at, and the reply.
CommitDone ==
  /\ closing.stage = "sync"
  /\ \E ok \in Outcomes("dirsync") :
       /\ platter' = IF ok THEN {file} ELSE platter
       /\ promise' = IF contended THEN {}
                     ELSE IF ok THEN {content[closing.inode]}
                     ELSE IF promise = {} THEN {}
                     ELSE promise \cup {content[closing.inode]}
  /\ flag' = [flag EXCEPT ![closing.info] = "closed"]
  /\ Idle
  /\ StillContended
  /\ UNCHANGED <<file, temp, content, synced, handle, wrote, opens>>

-----------------------------------------------------------------------------
(* The process or the machine dies.                                          *)

\* The contents of a commit that is under way: its caller has no answer yet.
Publishing == IF closing.stage = "sync" THEN {content[closing.inode]} ELSE {}

Dies ==
  /\ handle' = [i \in Infos |-> NoHandle]
  /\ flag' = [i \in Infos |-> "closed"]
  /\ Idle
  /\ promise' = IF promise = {} THEN {} ELSE promise \cup Publishing
  /\ contended' = FALSE
  /\ UNCHANGED <<wrote, opens>>

Crash ==
  /\ Dies
  /\ UNCHANGED host

\* Names that were not synced may be back as they were, a discarded scratch
\* file among them, and data that was not synced may be lost.
PowerLoss ==
  /\ Dies
  /\ file' \in platter
  /\ temp' \in {0} \cup {n \in Inodes \ platter : \A m \in Inodes \ platter : n <= m}
  /\ platter' = {file'}
  /\ synced' = Inodes
  /\ \E lost \in BOOLEAN :
       content' = [n \in Inodes |-> IF n \notin platter \/ (lost /\ n \notin synced)
                                    THEN Garbage ELSE content[n]]

-----------------------------------------------------------------------------
Next ==
  \/ \E i \in Infos, mode \in Modes : \/ NANDOpen(i, mode)
                                      \/ NANDSafeOpen(i, mode)
                                      \/ NAND_IOS_Open(i, mode)
  \/ \E i \in Infos, b \in Blocks : NANDWrite(i, b)
  \/ \E i \in Infos : CommitAndCloseFd(i) \/ CloseMissing(i) \/ NAND_IOS_Close(i)
  \/ NANDDelete \/ NANDCreate \/ ISFS_CreateFile
  \/ CommitRename \/ CommitDone
  \/ Crash \/ PowerLoss

Spec == Init /\ [][Next]_vars

-----------------------------------------------------------------------------
\* Every variable has its type.
TypeOK ==
  /\ file \in 0..NumInodes
  /\ temp \in 0..NumInodes
  /\ platter \subseteq 0..NumInodes
  /\ content \in [Inodes -> Contents]
  /\ synced \subseteq Inodes
  /\ handle \in [Infos -> Handles]
  /\ flag \in [Infos -> Flags]
  /\ closing \in Closings
  /\ wrote \in 0..MaxWrites
  /\ opens \in 0..MaxOpens
  /\ promise \subseteq Contents
  /\ contended \in BOOLEAN

\* AtomicReplaceHostFile: "Either the old or the new contents survive a crash;
\* there is no window where the target is truncated or partial", and what
\* NANDClose or NANDSafeClose acknowledged is what a crash leaves.  Every inode
\* the name may refer to after a crash has, synced, contents that were
\* acknowledged or that the close in progress is publishing.
Durable ==
  promise # {} =>
    \A n \in platter \cup {file} :
      n # 0 /\ n \in synced /\ content[n] \in promise \cup Publishing

\* IsHostPathOpen keeps one writer's scratch file from being discarded or
\* published by another: as long as NANDSafeOpen took none from under its
\* writer, a live shadow is the only one and owns the scratch name, and no
\* other block writes to it.
ScratchOwned ==
  ~contended =>
    \A i \in Infos : Live(i) /\ handle[i].shadow =>
      /\ temp = handle[i].inode
      /\ temp \notin platter \cup {file}
      /\ \A j \in Infos \ {i} : handle[j].inode # temp

\* The comment in NANDSafeClose, "Leave openFlag alone: NandUtil_safeClose
\* retries transient failures": a block that still says it is open has a
\* descriptor to close.
RetryPossible ==
  Quiet => \A i \in Infos : flag[i] = "safe" => Live(i)
=============================================================================
