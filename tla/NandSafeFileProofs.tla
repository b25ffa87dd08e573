------------------------- MODULE NandSafeFileProofs -------------------------
(***************************************************************************)
(* The save file survives, for any number of blocks, inodes, writes and      *)
(* opens and any set of host calls that may fail.                            *)
(***************************************************************************)
EXTENDS NandSafeFile, TLAPS

\* What the host's names and the table of handles are between any two steps,
\* which Durable and ScratchOwned rest on.
Bookkeeping ==
  /\ contended => promise = {}
  /\ Quiet <=> closing.inode = 0
  /\ closing.stage = "rename" /\ ~contended =>
       /\ closing.inode = temp
       /\ temp \in synced
       /\ temp \notin platter \cup {file}
       /\ \A i \in Infos : handle[i].inode # temp
  /\ closing.stage = "sync" /\ ~contended =>
       /\ closing.inode = file
       /\ temp = 0
       /\ file \in synced \cap platter

Inv == TypeOK /\ Bookkeeping /\ Durable /\ ScratchOwned

-----------------------------------------------------------------------------
(* Types.                                                                    *)

\* The contents the model itself writes are contents.
LEMMA SpecialContents == Empty \in Contents /\ Garbage \in Contents
BY MaxWritesOK DEF Empty, Garbage, Contents, Torn

\* Opening puts a well-typed entry into the table.
LEMMA OpensTyped ==
  ASSUME TypeOK, NEW i \in Infos, NEW n \in 0..NumInodes, NEW s \in BOOLEAN,
         NEW mode \in Modes, NEW f \in Flags, Opens(i, n, s, mode, f)
  PROVE  handle' \in [Infos -> Handles] /\ flag' \in [Infos -> Flags]
BY DEF TypeOK, Opens, Handles, Flags

\* A fresh inode is one that nothing refers to.
LEMMA FreshApart ==
  ASSUME NEW n \in Fresh
  PROVE  /\ n \in Inodes
         /\ n \notin platter \cup {file, temp, closing.inode}
         /\ \A i \in Infos : handle[i].inode # n
BY DEF Fresh, InUse

\* Opening in place keeps the types, whatever the scratch copy left behind.
LEMMA InPlaceTyped ==
  ASSUME TypeOK, NEW i \in Infos, NEW mode \in Modes,
         NEW data \in [Inodes -> Contents], NEW clean \in SUBSET Inodes,
         OpensInPlace(i, mode, data, clean)
  PROVE  /\ handle' \in [Infos -> Handles]
         /\ flag' \in [Infos -> Flags]
         /\ content' \in [Inodes -> Contents]
         /\ synced' \in SUBSET Inodes
         /\ file' \in 0..NumInodes
         /\ platter' \in SUBSET (0..NumInodes)
         /\ promise' \in SUBSET Contents
<1>0. "open" \in Flags /\ FALSE \in BOOLEAN /\ file \in 0..NumInodes
  BY DEF Flags, TypeOK
<1>1. CASE file # 0 /\ Opens(i, file, FALSE, mode, "open") /\ content' = data
           /\ synced' = clean /\ UNCHANGED <<file, platter, promise>>
  BY <1>0, <1>1, OpensTyped DEF TypeOK
<1>2. CASE file # 0 /\ Opens(i, file, FALSE, mode, "open")
           /\ content' = [data EXCEPT ![file] = Empty]
           /\ synced' = clean \ {file} /\ promise' = {} /\ UNCHANGED <<file, platter>>
  BY <1>0, <1>2, OpensTyped, SpecialContents DEF TypeOK
<1>3. ASSUME NEW n \in Fresh, file' = n, platter' = platter \cup {n},
             content' = [data EXCEPT ![n] = Empty], synced' = clean \ {n},
             Opens(i, n, FALSE, mode, "open"), promise' = {}
      PROVE  /\ handle' \in [Infos -> Handles]
             /\ flag' \in [Infos -> Flags]
             /\ content' \in [Inodes -> Contents]
             /\ synced' \in SUBSET Inodes
             /\ file' \in 0..NumInodes
             /\ platter' \in SUBSET (0..NumInodes)
             /\ promise' \in SUBSET Contents
  <2>1. n \in Inodes /\ n \in 0..NumInodes
    BY <1>3, FreshApart, NumInodesOK DEF Inodes
  <2>2. QED  BY <1>0, <1>3, <2>1, OpensTyped, SpecialContents DEF TypeOK
<1>4. CASE Refuses /\ content' = data /\ synced' = clean
           /\ UNCHANGED <<file, platter, promise>>
  BY <1>4 DEF TypeOK, Refuses
<1>5. QED  BY <1>1, <1>2, <1>3, <1>4 DEF OpensInPlace

\* Seeding the scratch file keeps the types.
LEMMA SeedsTyped ==
  ASSUME TypeOK, NEW n \in Inodes, file # 0
  PROVE  /\ Seeds(n) => /\ temp' \in 0..NumInodes
                        /\ content' \in [Inodes -> Contents]
                        /\ synced' \in SUBSET Inodes
         /\ SeedFails(n) => temp' \in 0..NumInodes
         /\ Spoilt(n) \in [Inodes -> Contents]
<1>0. n \in 0..NumInodes /\ 0 \in 0..NumInodes /\ file \in Inodes
  BY NumInodesOK DEF Inodes, TypeOK
<1>1. Seeds(n) => /\ temp' \in 0..NumInodes
                  /\ content' \in [Inodes -> Contents]
                  /\ synced' \in SUBSET Inodes
  BY <1>0 DEF Seeds, TypeOK
<1>2. SeedFails(n) => temp' \in 0..NumInodes
  BY <1>0 DEF SeedFails
<1>3. Spoilt(n) \in [Inodes -> Contents]
  BY <1>0, SpecialContents DEF Spoilt, TypeOK
<1>4. QED  BY <1>1, <1>2, <1>3

\* NANDOpen keeps the types.
LEMMA NANDOpenTyped ==
  ASSUME TypeOK, NEW i \in Infos, NEW mode \in Modes, NANDOpen(i, mode)
  PROVE  TypeOK'
<1>0. /\ opens' \in 0..MaxOpens
      /\ UNCHANGED <<closing, wrote, contended>>
  BY MaxOpensOK DEF NANDOpen, Opening, TypeOK
<1>1. ASSUME OpensInPlace(i, mode, content, synced), UNCHANGED temp
      PROVE  TypeOK'
  BY <1>0, <1>1, InPlaceTyped DEF TypeOK
<1>2. ASSUME NEW n \in Fresh, file # 0, Seeds(n), Opens(i, n, TRUE, mode, "open"),
             UNCHANGED <<file, platter, promise>>
      PROVE  TypeOK'
  <2>1. n \in Inodes /\ n \in 0..NumInodes /\ "open" \in Flags /\ TRUE \in BOOLEAN
    BY <1>2, FreshApart, NumInodesOK DEF Inodes, Flags
  <2>2. QED  BY <1>0, <1>2, <2>1, SeedsTyped, OpensTyped DEF TypeOK
<1>3. ASSUME NEW n \in Fresh, file # 0, SeedFails(n),
             OpensInPlace(i, mode, Spoilt(n), synced \ {n})
      PROVE  TypeOK'
  <2>1. n \in Inodes
    BY <1>3, FreshApart
  <2>2. Spoilt(n) \in [Inodes -> Contents] /\ temp' \in 0..NumInodes
        /\ synced \ {n} \in SUBSET Inodes
    BY <1>3, <2>1, SeedsTyped DEF TypeOK
  <2>3. /\ handle' \in [Infos -> Handles]
        /\ flag' \in [Infos -> Flags]
        /\ content' \in [Inodes -> Contents]
        /\ synced' \in SUBSET Inodes
        /\ file' \in 0..NumInodes
        /\ platter' \in SUBSET (0..NumInodes)
        /\ promise' \in SUBSET Contents
    BY <1>3, <2>2, InPlaceTyped
  <2>4. QED  BY <1>0, <2>2, <2>3 DEF TypeOK
<1>4. QED  BY <1>1, <1>2, <1>3 DEF NANDOpen

\* NANDSafeOpen keeps the types.
LEMMA NANDSafeOpenTyped ==
  ASSUME TypeOK, NEW i \in Infos, NEW mode \in Modes, NANDSafeOpen(i, mode)
  PROVE  TypeOK'
<1>0. /\ opens' \in 0..MaxOpens
      /\ UNCHANGED <<file, platter, closing, wrote>>
      /\ "safe" \in Flags /\ "write" \in Modes /\ TRUE \in BOOLEAN /\ FALSE \in BOOLEAN
      /\ file \in 0..NumInodes
  BY MaxOpensOK DEF NANDSafeOpen, Opening, TypeOK, Flags, Modes
<1>1. CASE /\ Opens(i, file, FALSE, mode, "safe") \/ Refuses
           /\ UNCHANGED <<temp, content, synced, promise, contended>>
  <2>1. handle' \in [Infos -> Handles] /\ flag' \in [Infos -> Flags]
    BY <1>0, <1>1, OpensTyped DEF Refuses, TypeOK
  <2>2. QED  BY <1>0, <1>1, <2>1 DEF TypeOK
<1>2. CASE SafeOpenWrite(i)
  <2>0. promise' \in SUBSET Contents /\ contended' \in BOOLEAN /\ file # 0
    BY <1>2 DEF SafeOpenWrite, TypeOK
  <2>1. PICK n \in Fresh : \/ Seeds(n) /\ Opens(i, n, TRUE, "write", "safe")
                           \/ /\ SeedFails(n)
                              /\ Refuses
                              /\ content' = Spoilt(n)
                              /\ synced' = synced \ {n}
    BY <1>2 DEF SafeOpenWrite
  <2>2. n \in Inodes /\ n \in 0..NumInodes
    BY FreshApart, NumInodesOK DEF Inodes
  <2>3. CASE Seeds(n) /\ Opens(i, n, TRUE, "write", "safe")
    BY <1>0, <2>0, <2>2, <2>3, SeedsTyped, OpensTyped DEF TypeOK
  <2>4. CASE SeedFails(n) /\ Refuses /\ content' = Spoilt(n) /\ synced' = synced \ {n}
    BY <1>0, <2>0, <2>2, <2>4, SeedsTyped DEF TypeOK, Refuses
  <2>5. QED  BY <2>1, <2>3, <2>4
<1>3. QED  BY <1>1, <1>2 DEF NANDSafeOpen

\* The remaining calls keep the types.
LEMMA CallsTyped ==
  ASSUME TypeOK
  PROVE  /\ \A i \in Infos, mode \in Modes : NAND_IOS_Open(i, mode) => TypeOK'
         /\ \A i \in Infos, b \in Blocks : NANDWrite(i, b) => TypeOK'
         /\ NANDDelete \/ NANDCreate \/ ISFS_CreateFile => TypeOK'
<1>1. ASSUME NEW i \in Infos, NEW mode \in Modes, NAND_IOS_Open(i, mode)
      PROVE  TypeOK'
  <2>1. "ios" \in Flags /\ FALSE \in BOOLEAN /\ file \in 0..NumInodes
    BY DEF Flags, TypeOK
  <2>2. handle' \in [Infos -> Handles] /\ flag' \in [Infos -> Flags]
    BY <1>1, <2>1, OpensTyped DEF NAND_IOS_Open
  <2>3. QED  BY <1>1, <2>2, MaxOpensOK DEF NAND_IOS_Open, Opening, TypeOK, host
<1>2. ASSUME NEW i \in Infos, NEW b \in Blocks, NANDWrite(i, b)
      PROVE  TypeOK'
  <2>1. handle[i].inode \in Inodes /\ wrote + 1 \in 0..MaxWrites
    BY <1>2, NumInodesOK, MaxWritesOK DEF NANDWrite, Live, TypeOK, Handles, Inodes
  <2>2. content' \in [Inodes -> Contents]
    BY <1>2, <2>1 DEF NANDWrite, TypeOK, Contents
  <2>3. QED  BY <1>2, <2>1, <2>2 DEF NANDWrite, TypeOK
<1>3. ASSUME CreatesNew
      PROVE  /\ file' \in 0..NumInodes /\ platter' \in SUBSET (0..NumInodes)
             /\ content' \in [Inodes -> Contents] /\ synced' \in SUBSET Inodes
  <2>1. PICK n \in Fresh : /\ file' = n
                           /\ platter' = platter \cup {n}
                           /\ content' = [content EXCEPT ![n] = Empty]
                           /\ synced' = synced \ {n}
    BY <1>3 DEF CreatesNew
  <2>2. n \in Inodes /\ n \in 0..NumInodes
    BY FreshApart, NumInodesOK DEF Inodes
  <2>3. QED  BY <2>1, <2>2, SpecialContents DEF TypeOK
<1>4. ASSUME NANDDelete \/ NANDCreate \/ ISFS_CreateFile
      PROVE  TypeOK'
  <2>1. CASE NANDDelete
    BY <2>1, NumInodesOK DEF NANDDelete, TypeOK
  <2>2. CASE NANDCreate
    BY <2>2, <1>3 DEF NANDCreate, TypeOK
  <2>3. CASE ISFS_CreateFile
    BY <2>3, <1>3, SpecialContents DEF ISFS_CreateFile, TypeOK
  <2>4. QED  BY <1>4, <2>1, <2>2, <2>3
<1>5. QED  BY <1>1, <1>2, <1>4

\* Closing and dying keep the types.
LEMMA ClosesTyped ==
  ASSUME TypeOK, Bookkeeping
  PROVE  /\ \A i \in Infos :
              CommitAndCloseFd(i) \/ CloseMissing(i) \/ NAND_IOS_Close(i) => TypeOK'
         /\ CommitRename \/ CommitDone => TypeOK'
         /\ Crash \/ PowerLoss => TypeOK'
<1>0. NoHandle \in Handles /\ "closed" \in Flags
  BY NumInodesOK DEF NoHandle, Handles, Modes, Flags
<1>1. ASSUME NEW i \in Infos, CommitAndCloseFd(i)
      PROVE  TypeOK'
  <2>0. handle[i].inode \in Inodes /\ handle[i].inode \in 0..NumInodes
    BY <1>1, NumInodesOK DEF CommitAndCloseFd, Live, TypeOK, Handles, Inodes
  <2>1. CASE CloseInPlace(i)
    BY <1>0, <1>1, <2>0, <2>1 DEF CommitAndCloseFd, CloseInPlace, Erases, TypeOK
  <2>2. CASE CommitFlush(i)
    <3>1. closing' \in Closings
      BY <2>0, <2>2 DEF CommitFlush, Closings, TypeOK
    <3>2. temp' \in 0..NumInodes /\ synced' \in SUBSET Inodes
      BY <2>0, <2>2, NumInodesOK DEF CommitFlush, TypeOK
    <3>3. contended' \in BOOLEAN
      BY <2>2 DEF CommitFlush, TypeOK
    <3>4. QED  BY <1>0, <1>1, <2>2, <3>1, <3>2, <3>3 DEF CommitAndCloseFd, CommitFlush, TypeOK
  <2>3. QED  BY <1>1, <2>1, <2>2 DEF CommitAndCloseFd
<1>2. ASSUME NEW i \in Infos, CloseMissing(i) \/ NAND_IOS_Close(i)
      PROVE  TypeOK'
  BY <1>0, <1>2 DEF CloseMissing, NAND_IOS_Close, Erases, TypeOK, host
<1>3. Idle => closing' \in Closings
  BY NumInodesOK DEF Idle, Closings, TypeOK
<1>4. ASSUME CommitRename
      PROVE  TypeOK'
  <2>1. closing' \in Closings
    BY <1>3, <1>4 DEF CommitRename, Closings, TypeOK
  <2>2. file' \in 0..NumInodes /\ temp' \in 0..NumInodes /\ platter' \in SUBSET (0..NumInodes)
    BY <1>4, NumInodesOK DEF CommitRename, TypeOK
  <2>3. contended' \in BOOLEAN
    BY <1>4 DEF CommitRename, StillContended, TypeOK
  <2>4. QED  BY <1>4, <2>1, <2>2, <2>3 DEF CommitRename, TypeOK
<1>5. Publishing \in SUBSET Contents
      /\ (closing.stage = "sync" => content[closing.inode] \in Contents)
  <2>1. closing.stage = "sync" => closing.inode \in Inodes
    BY NumInodesOK DEF Bookkeeping, Quiet, TypeOK, Closings, Inodes
  <2>2. QED  BY <2>1 DEF Publishing, TypeOK
<1>6. ASSUME CommitDone
      PROVE  TypeOK'
  <2>1. promise' \in SUBSET Contents /\ platter' \in SUBSET (0..NumInodes)
    BY <1>5, <1>6 DEF CommitDone, TypeOK
  <2>2. flag' \in [Infos -> Flags]
    BY <1>0, <1>6 DEF CommitDone, TypeOK
  <2>3. closing' \in Closings /\ contended' \in BOOLEAN
    BY <1>3, <1>6 DEF CommitDone, StillContended, TypeOK
  <2>4. QED  BY <1>6, <2>1, <2>2, <2>3 DEF CommitDone, TypeOK
<1>7. ASSUME Dies
      PROVE  /\ handle' \in [Infos -> Handles] /\ flag' \in [Infos -> Flags]
             /\ closing' \in Closings /\ promise' \in SUBSET Contents
             /\ contended' \in BOOLEAN /\ wrote' \in 0..MaxWrites
             /\ opens' \in 0..MaxOpens
  BY <1>0, <1>3, <1>5, <1>7 DEF Dies, TypeOK
<1>8. ASSUME Crash
      PROVE  TypeOK'
  BY <1>7, <1>8 DEF Crash, TypeOK, host
<1>9. ASSUME PowerLoss
      PROVE  TypeOK'
  <2>1. file' \in 0..NumInodes /\ temp' \in 0..NumInodes
        /\ platter' \in SUBSET (0..NumInodes) /\ synced' \in SUBSET Inodes
    BY <1>9, NumInodesOK DEF PowerLoss, TypeOK, Inodes
  <2>2. content' \in [Inodes -> Contents]
    BY <1>9, SpecialContents DEF PowerLoss, TypeOK
  <2>3. QED  BY <1>7, <1>9, <2>1, <2>2 DEF PowerLoss, TypeOK
<1>10. QED  BY <1>1, <1>2, <1>4, <1>6, <1>8, <1>9

-----------------------------------------------------------------------------
(* The save survives.                                                        *)

\* A handle that is opened in place disturbs neither the promised contents nor
\* the scratch file of a writer.  data and clean agree with content and synced
\* on every inode the name may refer to.
LEMMA InPlaceSafe ==
  ASSUME Inv, Quiet, NEW i \in Infos, NEW mode \in Modes, NEW data, NEW clean,
         \A m \in platter \cup {file} :
            m \in synced => m \in clean /\ data[m] = content[m],
         ~Live(i),
         OpensInPlace(i, mode, data, clean),
         UNCHANGED temp \/ ~IsHostPathOpen,
         UNCHANGED <<closing, contended>>
  PROVE  Bookkeeping' /\ Durable' /\ ScratchOwned'
<1>0. Quiet' /\ closing'.inode = 0 /\ Publishing = {} /\ Publishing' = {}
  BY DEF Inv, Bookkeeping, Quiet, Publishing
<1>1. promise' = promise \/ promise' = {}
  BY DEF OpensInPlace
<1>2. Bookkeeping'
  BY <1>0, <1>1 DEF Inv, Bookkeeping, Quiet
<1>3. Durable'
  <2>1. CASE promise' = {}
    BY <2>1 DEF Durable
  <2>2. CASE promise' # {}
    <3>0. promise # {}
      BY <1>1, <2>2
    <3>1. file # 0
      BY <3>0 DEF Inv, Durable
    <3>2. promise' = promise /\ file' = file /\ platter' = platter /\ content' = data
          /\ synced' = clean
      BY <2>2, <3>1 DEF OpensInPlace
    <3>3. QED  BY <1>0, <3>0, <3>2 DEF Inv, Durable
  <2>3. QED  BY <2>1, <2>2
<1>4. ScratchOwned'
  <2>0. SUFFICES ASSUME ~contended, NEW k \in Infos, handle'[k].inode # 0, handle'[k].shadow
                 PROVE  /\ temp' = handle'[k].inode
                        /\ temp' \notin platter' \cup {file'}
                        /\ \A j \in Infos \ {k} : handle'[j].inode # temp'
    BY DEF ScratchOwned, Live
  <2>1. handle'[k] = handle[k]
    BY <2>0 DEF OpensInPlace, Opens, Refuses, Inv, TypeOK
  <2>2. temp' = temp
    BY <2>0, <2>1 DEF IsHostPathOpen, Live
  <2>3. /\ temp = handle[k].inode
        /\ temp \notin platter \cup {file}
        /\ \A j \in Infos \ {k} : handle[j].inode # temp
    BY <2>0, <2>1 DEF Inv, ScratchOwned, Live
  <2>4. temp \notin platter' \cup {file'}
    BY <2>3, FreshApart DEF OpensInPlace
  <2>5. ASSUME NEW j \in Infos \ {k}
        PROVE  handle'[j].inode # temp
    <3>1. handle'[j] = handle[j] \/ handle'[j].inode = file
          \/ \E n \in Fresh : handle'[j].inode = n
      BY <2>5 DEF OpensInPlace, Opens, Refuses, Inv, TypeOK
    <3>2. QED  BY <2>3, <2>5, <3>1, FreshApart
  <2>6. QED  BY <2>1, <2>2, <2>3, <2>4, <2>5
<1>5. QED  BY <1>2, <1>3, <1>4

\* A new scratch file that is its block's own.  others says that no block has a
\* live one.
LEMMA SeedSafe ==
  ASSUME Inv, Quiet, NEW i \in Infos, NEW n \in Fresh, NEW f, file # 0,
         Seeds(n), Opens(i, n, TRUE, "write", f),
         UNCHANGED <<file, platter, closing>>,
         contended' \/ \A j \in Infos : ~(Live(j) /\ handle[j].shadow),
         contended' => promise' = {},
         promise' \in {{}, promise}
  PROVE  Bookkeeping' /\ Durable' /\ ScratchOwned'
<1>0. Quiet' /\ closing'.inode = 0 /\ Publishing = {} /\ Publishing' = {}
  BY DEF Inv, Bookkeeping, Quiet, Publishing
<1>1. /\ n \in Inodes
      /\ n \notin platter \cup {file}
      /\ \A j \in Infos : handle[j].inode # n
  BY FreshApart
<1>2. Bookkeeping'
  BY <1>0 DEF Inv, Bookkeeping, Quiet
<1>3. Durable'
  <2>1. \A m \in platter \cup {file} : m \in synced => m \in synced' /\ content'[m] = content[m]
    BY <1>1 DEF Seeds, Inv, TypeOK
  <2>2. QED  BY <1>0, <2>1 DEF Inv, Durable
<1>4. ScratchOwned'
  <2>0. SUFFICES ASSUME ~contended', NEW k \in Infos, handle'[k].inode # 0, handle'[k].shadow
                 PROVE  /\ temp' = handle'[k].inode
                        /\ temp' \notin platter' \cup {file'}
                        /\ \A j \in Infos \ {k} : handle'[j].inode # temp'
    BY DEF ScratchOwned, Live
  <2>1. k = i
    BY <2>0 DEF Opens, Live, Inv, TypeOK
  <2>2. handle'[i].inode = n /\ temp' = n /\ \A j \in Infos \ {i} : handle'[j] = handle[j]
    BY DEF Opens, Seeds, Inv, TypeOK
  <2>3. QED  BY <1>1, <2>1, <2>2
<1>5. QED  BY <1>2, <1>3, <1>4

\* The three ways to open the file.
LEMMA OpensSafe ==
  ASSUME Inv, NEW i \in Infos, NEW mode \in Modes,
         NANDOpen(i, mode) \/ NANDSafeOpen(i, mode) \/ NAND_IOS_Open(i, mode)
  PROVE  Bookkeeping' /\ Durable' /\ ScratchOwned'
<1>0. Quiet /\ ~Live(i) /\ closing' = closing
  BY DEF NANDOpen, NANDSafeOpen, NAND_IOS_Open, Opening
<1>1. ASSUME NEW n \in Fresh
      PROVE  \A m \in platter \cup {file} :
               m \in synced => m \in synced \ {n} /\ Spoilt(n)[m] = content[m]
  BY <1>1, FreshApart DEF Spoilt, Inv, TypeOK
<1>2. CASE NANDOpen(i, mode)
  <2>0. contended' = contended
    BY <1>2 DEF NANDOpen
  <2>1. CASE OpensInPlace(i, mode, content, synced) /\ UNCHANGED temp
    BY <1>0, <2>0, <2>1, InPlaceSafe
  <2>2. ASSUME NEW n \in Fresh, mode = "write", file # 0, ~IsHostPathOpen, Seeds(n),
               Opens(i, n, TRUE, mode, "open"), UNCHANGED <<file, platter, promise>>
        PROVE  Bookkeeping' /\ Durable' /\ ScratchOwned'
    <3>1. \A j \in Infos : ~(Live(j) /\ handle[j].shadow)
      BY <2>2 DEF IsHostPathOpen
    <3>2. contended' => promise' = {}
      BY <2>0, <2>2 DEF Inv, Bookkeeping
    <3>3. QED  BY <1>0, <2>0, <2>2, <3>1, <3>2, SeedSafe
  <2>3. ASSUME NEW n \in Fresh, ~IsHostPathOpen,
               OpensInPlace(i, mode, Spoilt(n), synced \ {n})
        PROVE  Bookkeeping' /\ Durable' /\ ScratchOwned'
    BY <1>0, <1>1, <2>0, <2>3, InPlaceSafe
  <2>4. QED  BY <1>2, <2>1, <2>2, <2>3 DEF NANDOpen
<1>3. ASSUME UNCHANGED <<file, platter, promise, contended>>,
             \/ Refuses
             \/ \E f \in Flags : Opens(i, file, FALSE, mode, f) /\ temp' = temp,
             \A m \in platter \cup {file} :
               m \in synced => m \in synced' /\ content'[m] = content[m],
             temp' = temp \/ \A j \in Infos : ~(Live(j) /\ handle[j].shadow)
      PROVE  Bookkeeping' /\ Durable' /\ ScratchOwned'
  <2>0. Quiet' /\ closing'.inode = 0 /\ Publishing = {} /\ Publishing' = {}
    BY <1>0 DEF Inv, Bookkeeping, Quiet, Publishing
  <2>1. Bookkeeping'
    BY <1>3, <2>0 DEF Inv, Bookkeeping, Quiet
  <2>2. Durable'
    BY <1>3, <2>0 DEF Inv, Durable
  <2>3. ScratchOwned'
    BY <1>3 DEF Inv, ScratchOwned, Live, Opens, Refuses, TypeOK
  <2>4. QED  BY <2>1, <2>2, <2>3
<1>4. CASE NANDSafeOpen(i, mode)
  <2>0. UNCHANGED <<file, platter>> /\ "safe" \in Flags
    BY <1>4 DEF NANDSafeOpen, Flags
  <2>1. CASE /\ Opens(i, file, FALSE, mode, "safe") \/ Refuses
             /\ UNCHANGED <<temp, content, synced, promise, contended>>
    BY <1>3, <2>0, <2>1
  <2>2. CASE SafeOpenWrite(i)
    <3>0. /\ contended' = (contended \/ \E j \in Infos : Live(j) /\ handle[j].shadow)
          /\ promise' = IF \E j \in Infos : Live(j) /\ handle[j].shadow THEN {} ELSE promise
          /\ file # 0
      BY <2>2 DEF SafeOpenWrite
    <3>1. contended' => promise' = {}
      BY <3>0 DEF Inv, Bookkeeping
    <3>2. ASSUME NEW n \in Fresh, Seeds(n), Opens(i, n, TRUE, "write", "safe")
          PROVE  Bookkeeping' /\ Durable' /\ ScratchOwned'
      BY <1>0, <2>0, <3>0, <3>1, <3>2, SeedSafe
    <3>3. ASSUME NEW n \in Fresh, SeedFails(n), Refuses, content' = Spoilt(n),
                 synced' = synced \ {n}
          PROVE  Bookkeeping' /\ Durable' /\ ScratchOwned'
      <4>1. CASE contended'
        <5>1. Bookkeeping'
          BY <1>0, <3>1, <4>1 DEF Inv, Bookkeeping, Quiet
        <5>2. Durable' /\ ScratchOwned'
          BY <3>1, <4>1 DEF Durable, ScratchOwned
        <5>3. QED  BY <5>1, <5>2
      <4>2. CASE ~contended'
        BY <1>1, <1>3, <2>0, <3>0, <3>3, <4>2 DEF Inv, TypeOK
      <4>3. QED  BY <4>1, <4>2
    <3>4. QED  BY <2>2, <3>2, <3>3 DEF SafeOpenWrite
  <2>3. QED  BY <1>4, <2>1, <2>2 DEF NANDSafeOpen
<1>5. CASE NAND_IOS_Open(i, mode)
  <2>1. "ios" \in Flags
    BY DEF Flags
  <2>2. QED  BY <1>3, <1>5, <2>1 DEF NAND_IOS_Open, host
<1>6. QED  BY <1>2, <1>4, <1>5

\* A write through a shadow reaches no inode the name may refer to; one in place
\* ends the promise.
LEMMA WriteSafe ==
  ASSUME Inv, NEW i \in Infos, NEW b \in Blocks, NANDWrite(i, b)
  PROVE  Bookkeeping' /\ Durable' /\ ScratchOwned'
<1>0. Quiet /\ Publishing = {} /\ Publishing' = {} /\ UNCHANGED <<file, temp, platter, handle, closing, contended>>
  BY DEF NANDWrite, Quiet, Publishing
<1>1. Bookkeeping'
  BY <1>0 DEF NANDWrite, Inv, Bookkeeping, Quiet
<1>2. ScratchOwned'
  BY <1>0 DEF Inv, ScratchOwned, Live
<1>3. Durable'
  <2>0. SUFFICES ASSUME promise' # {}
                 PROVE  Durable'
    BY DEF Durable
  <2>1. promise' = promise /\ promise # {} /\ ~contended
    BY <2>0 DEF NANDWrite, Inv, Bookkeeping
  <2>2. handle[i].inode \notin platter \cup {file}
    <3>1. CASE handle[i].shadow
      BY <2>1, <3>1 DEF NANDWrite, Inv, ScratchOwned
    <3>2. CASE ~handle[i].shadow
      BY <2>0, <3>2 DEF NANDWrite
    <3>3. QED  BY <3>1, <3>2
  <2>3. \A m \in platter \cup {file} :
          m \in synced => m \in synced' /\ content'[m] = content[m]
    BY <2>2 DEF NANDWrite, Inv, TypeOK
  <2>4. QED  BY <1>0, <2>1, <2>3 DEF Inv, Durable
<1>4. QED  BY <1>1, <1>2, <1>3

\* Deleting and creating the file by name.
LEMMA NamesSafe ==
  ASSUME Inv, NANDDelete \/ NANDCreate \/ ISFS_CreateFile
  PROVE  Bookkeeping' /\ Durable' /\ ScratchOwned'
<1>0. Quiet /\ UNCHANGED <<temp, handle, closing, contended>>
  BY DEF NANDDelete, NANDCreate, ISFS_CreateFile
<1>1. promise' = {}
  BY DEF NANDDelete, NANDCreate, ISFS_CreateFile, CreatesNew, Inv, Durable
<1>2. Bookkeeping'
  BY <1>0, <1>1 DEF Inv, Bookkeeping, Quiet
<1>3. Durable'
  BY <1>1 DEF Durable
<1>4. ScratchOwned'
  <2>1. platter' \cup {file'} \subseteq platter \cup {file, 0} \cup Fresh
    BY DEF NANDDelete, NANDCreate, ISFS_CreateFile, CreatesNew
  <2>2. QED  BY <1>0, <2>1, FreshApart DEF Inv, ScratchOwned, Live
<1>5. QED  BY <1>2, <1>3, <1>4

\* A handle leaves the table and nothing is published: what is left is as good as
\* before.
LEMMA EraseSafe ==
  ASSUME Inv, Quiet, NEW i \in Infos,
         handle' = [handle EXCEPT ![i] = NoHandle],
         contended' = (contended /\ OthersLive(i)),
         UNCHANGED <<file, platter, content, closing, promise>>,
         synced \subseteq synced',
         temp' = temp \/ (handle[i].shadow /\ Live(i))
  PROVE  Bookkeeping' /\ Durable' /\ ScratchOwned'
<1>0. Quiet' /\ closing'.inode = 0 /\ Publishing = {} /\ Publishing' = {}
  BY DEF Inv, Bookkeeping, Quiet, Publishing
<1>1. Bookkeeping'
  BY <1>0 DEF Inv, Bookkeeping, Quiet
<1>2. Durable'
  BY <1>0 DEF Inv, Durable
<1>3. ScratchOwned'
  <2>0. SUFFICES ASSUME ~contended', NEW k \in Infos, handle'[k].inode # 0, handle'[k].shadow
                 PROVE  /\ temp' = handle'[k].inode
                        /\ temp' \notin platter' \cup {file'}
                        /\ \A j \in Infos \ {k} : handle'[j].inode # temp'
    BY DEF ScratchOwned, Live
  <2>1. k # i /\ handle'[k] = handle[k] /\ \A j \in Infos : j # i => handle'[j] = handle[j]
    BY <2>0 DEF NoHandle, Inv, TypeOK
  <2>2. ~contended
    BY <2>0, <2>1 DEF OthersLive, Live
  <2>3. /\ temp = handle[k].inode
        /\ temp \notin platter \cup {file}
        /\ \A j \in Infos \ {k} : handle[j].inode # temp
    BY <2>0, <2>1, <2>2 DEF Inv, ScratchOwned, Live
  <2>4. temp' = temp
    BY <2>0, <2>1, <2>2, <2>3 DEF Inv, ScratchOwned, Live
  <2>5. handle'[i].inode # temp
    BY <2>0, <2>1, <2>3 DEF NoHandle, Inv, TypeOK
  <2>6. QED  BY <2>1, <2>3, <2>4, <2>5
<1>4. QED  BY <1>1, <1>2, <1>3

\* The calls that close a block.
LEMMA ClosesSafe ==
  ASSUME Inv, NEW i \in Infos,
         CommitAndCloseFd(i) \/ CloseMissing(i) \/ NAND_IOS_Close(i)
  PROVE  Bookkeeping' /\ Durable' /\ ScratchOwned'
<1>1. CASE CloseMissing(i)
  <2>1. UNCHANGED <<file, temp, platter, content, synced, handle, closing, promise, contended>>
    BY <1>1 DEF CloseMissing, host
  <2>2. QED  BY <2>1 DEF Inv, Bookkeeping, Durable, ScratchOwned, Quiet, Publishing, Live
<1>2. CASE NAND_IOS_Close(i)
  BY <1>2, EraseSafe DEF NAND_IOS_Close, Erases, host
<1>3. CASE CommitAndCloseFd(i) /\ CloseInPlace(i)
  BY <1>3, EraseSafe DEF CommitAndCloseFd, CloseInPlace, Erases
<1>4. CASE CommitAndCloseFd(i) /\ CommitFlush(i)
  <2>0. Quiet /\ Live(i) /\ handle[i].shadow /\ UNCHANGED <<file, platter, content, promise>>
        /\ handle' = [handle EXCEPT ![i] = NoHandle]
    BY <1>4 DEF CommitAndCloseFd, CommitFlush
  <2>1. CASE contended' = (contended /\ OthersLive(i)) /\ UNCHANGED <<synced, closing>>
    BY <2>0, <2>1, EraseSafe
  <2>2. CASE /\ synced' = synced \cup {handle[i].inode}
             /\ closing' = [stage |-> "rename", info |-> i, inode |-> handle[i].inode]
             /\ UNCHANGED <<temp, contended>>
    <3>0. handle[i].inode # 0 /\ handle'[i].inode = 0
          /\ \A j \in Infos : j # i => handle'[j] = handle[j]
      BY <2>0 DEF Live, NoHandle, Inv, TypeOK
    <3>1. ~contended => /\ temp = handle[i].inode
                        /\ temp \notin platter \cup {file}
                        /\ \A j \in Infos \ {i} : handle[j].inode # temp
      BY <2>0 DEF Inv, ScratchOwned
    <3>2. Bookkeeping'
      BY <2>0, <2>2, <3>0, <3>1 DEF Inv, Bookkeeping, Quiet
    <3>3. Durable'
      <4>1. Publishing = {} /\ Publishing' = {}
        BY <2>0, <2>2 DEF Publishing, Quiet
      <4>2. QED  BY <2>0, <2>2, <4>1 DEF Inv, Durable
    <3>4. ScratchOwned'
      BY <2>2, <3>0, <3>1 DEF Inv, ScratchOwned, Live
    <3>5. QED  BY <3>2, <3>3, <3>4
  <2>3. QED  BY <1>4, <2>1, <2>2 DEF CommitFlush
<1>5. QED  BY <1>1, <1>2, <1>3, <1>4 DEF CommitAndCloseFd

\* The steps of a commit.
LEMMA CommitSafe ==
  ASSUME Inv, CommitRename \/ CommitDone
  PROVE  Bookkeeping' /\ Durable' /\ ScratchOwned'
<1>0. ~contended => \A k \in Infos : ~(Live(k) /\ handle[k].shadow)
  BY DEF CommitRename, CommitDone, Inv, Bookkeeping, ScratchOwned, Live, Quiet
<1>1. handle' = handle
  BY DEF CommitRename, CommitDone
<1>2. ScratchOwned'
  <2>0. contended' = contended \/ contended' = (contended /\ IsHostPathOpen)
    BY DEF CommitRename, CommitDone, StillContended
  <2>1. ~contended' => \A k \in Infos : ~(Live(k)' /\ handle'[k].shadow)
    <3>1. ~contended' => \A k \in Infos : ~(Live(k) /\ handle[k].shadow)
      BY <1>0, <2>0, Zenon DEF IsHostPathOpen
    <3>2. QED  BY <1>1, <3>1 DEF Live
  <2>2. QED  BY <2>1 DEF ScratchOwned
<1>3. contended' => contended
  BY DEF CommitRename, CommitDone, StillContended
<1>4. CASE closing.stage = "rename" /\ Idle /\ StillContended
           /\ UNCHANGED <<file, platter, content, synced, promise>>
  <2>1. Quiet' /\ closing'.inode = 0 /\ Publishing = {} /\ Publishing' = {}
    BY <1>4 DEF Idle, Quiet, Publishing
  <2>2. Bookkeeping'
    BY <1>3, <1>4, <2>1 DEF Inv, Bookkeeping, Quiet
  <2>3. Durable'
    BY <1>4, <2>1 DEF Inv, Durable
  <2>4. QED  BY <1>2, <2>2, <2>3
<1>5. CASE /\ closing.stage = "rename" /\ temp # 0 /\ file' = temp /\ temp' = 0
           /\ platter' = platter \cup {temp}
           /\ closing' = [closing EXCEPT !.stage = "sync"]
           /\ UNCHANGED <<content, synced, promise, contended>>
  <2>1. closing'.stage = "sync" /\ closing'.inode = closing.inode /\ closing.inode # 0
    BY <1>5 DEF Inv, TypeOK, Closings, Bookkeeping, Quiet
  <2>2. ~contended => closing.inode = temp /\ temp \in synced
    BY <1>5 DEF Inv, Bookkeeping
  <2>3. Bookkeeping'
    BY <1>5, <2>1, <2>2 DEF Inv, Bookkeeping, Quiet
  <2>4. Durable'
    <3>1. Publishing = {} /\ Publishing' = {content[closing.inode]}
      BY <1>5, <2>1 DEF Publishing
    <3>2. promise # {} => ~contended
      BY DEF Inv, Bookkeeping
    <3>3. QED  BY <1>5, <2>2, <3>1, <3>2 DEF Inv, Durable
  <2>5. QED  BY <1>2, <2>3, <2>4
<1>6. CASE CommitDone
  <2>1. Quiet' /\ closing'.inode = 0 /\ Publishing' = {}
        /\ Publishing = {content[closing.inode]}
    BY <1>6 DEF CommitDone, Idle, Quiet, Publishing
  <2>2. contended' => promise' = {}
    BY <1>3, <1>6 DEF CommitDone
  <2>3. Bookkeeping'
    BY <2>1, <2>2 DEF Bookkeeping, Quiet
  <2>4. Durable'
    <3>1. SUFFICES ASSUME promise' # {}
                   PROVE  Durable'
      BY DEF Durable
    <3>2. ~contended /\ closing.inode = file /\ file \in synced /\ file # 0
          /\ UNCHANGED <<file, content, synced>>
      BY <1>6, <3>1 DEF CommitDone, Inv, Bookkeeping, Quiet
    <3>3. CASE platter' = {file} /\ promise' = {content[closing.inode]}
      BY <2>1, <3>2, <3>3 DEF Durable
    <3>4. CASE platter' = platter /\ promise # {}
               /\ promise' = promise \cup {content[closing.inode]}
      BY <2>1, <3>2, <3>4 DEF Inv, Durable
    <3>5. QED  BY <1>6, <3>1, <3>2, <3>3, <3>4 DEF CommitDone
  <2>5. QED  BY <1>2, <2>3, <2>4
<1>7. QED  BY <1>4, <1>5, <1>6 DEF CommitRename

\* What the process or the machine leaves behind is promised contents.
LEMMA DiesSafe ==
  ASSUME Inv, Crash \/ PowerLoss
  PROVE  Bookkeeping' /\ Durable' /\ ScratchOwned'
<1>0. Dies
  BY DEF Crash, PowerLoss
<1>1. Quiet' /\ closing'.inode = 0 /\ Publishing' = {} /\ ~contended'
  BY <1>0 DEF Dies, Idle, Quiet, Publishing
<1>2. Bookkeeping'
  BY <1>1 DEF Bookkeeping, Quiet
<1>3. ScratchOwned'
  BY <1>0 DEF Dies, ScratchOwned, Live, NoHandle
<1>4. Durable'
  <2>0. SUFFICES ASSUME promise # {}, promise' = promise \cup Publishing
                 PROVE  Durable'
    BY <1>0 DEF Dies, Durable
  <2>1. \A n \in platter \cup {file} : n # 0 /\ n \in synced /\ content[n] \in promise'
    BY <2>0 DEF Inv, Durable
  <2>2. CASE Crash
    BY <1>1, <2>1, <2>2 DEF Crash, host, Durable
  <2>3. CASE PowerLoss
    <3>1. file' \in platter /\ file' \in Inodes /\ platter' = {file'} /\ synced' = Inodes
      BY <2>1, <2>3, NumInodesOK DEF PowerLoss, Inv, TypeOK, Inodes
    <3>2. content'[file'] = content[file']
      BY <2>1, <2>3, <3>1 DEF PowerLoss
    <3>3. QED  BY <1>1, <2>1, <3>1, <3>2 DEF Durable
  <2>4. QED  BY <2>2, <2>3
<1>5. QED  BY <1>2, <1>3, <1>4

-----------------------------------------------------------------------------
\* The invariant is inductive.
LEMMA Invariance == Spec => []Inv
<1>1. Init => Inv
  <2>1. ASSUME Init
        PROVE  Inv
    <3>0. 1 \in Inodes /\ 1 \in 0..NumInodes /\ 0 \in 0..NumInodes
      BY NumInodesOK DEF Inodes
    <3>1. TypeOK
      <4>1. handle \in [Infos -> Handles] /\ flag \in [Infos -> Flags]
        BY <2>1, <3>0 DEF Init, Handles, NoHandle, Modes, Flags
      <4>2. closing \in Closings
        BY <2>1, <3>0 DEF Init, Closings
      <4>3. content \in [Inodes -> Contents] /\ promise \subseteq Contents
        BY <2>1, SpecialContents DEF Init
      <4>4. wrote \in 0..MaxWrites /\ opens \in 0..MaxOpens
        BY <2>1, MaxWritesOK, MaxOpensOK DEF Init
      <4>5. /\ file \in 0..NumInodes /\ temp \in 0..NumInodes
            /\ platter \subseteq 0..NumInodes /\ synced \subseteq Inodes
            /\ contended \in BOOLEAN
        BY <2>1, <3>0 DEF Init
      <4>6. QED  BY <4>1, <4>2, <4>3, <4>4, <4>5 DEF TypeOK
    <3>2. Bookkeeping /\ Durable /\ ScratchOwned
      BY <2>1, <3>0 DEF Init, Bookkeeping, Durable, ScratchOwned, Quiet, Live, NoHandle, Publishing
    <3>3. QED  BY <3>1, <3>2 DEF Inv
  <2>2. QED  BY <2>1
<1>2. Inv /\ [Next]_vars => Inv'
  <2>0. SUFFICES ASSUME Inv, [Next]_vars
                 PROVE  Inv'
    OBVIOUS
  <2>1. ASSUME NEW i \in Infos, NEW mode \in Modes,
               NANDOpen(i, mode) \/ NANDSafeOpen(i, mode) \/ NAND_IOS_Open(i, mode)
        PROVE  Inv'
    BY <2>0, <2>1, OpensSafe, NANDOpenTyped, NANDSafeOpenTyped, CallsTyped DEF Inv
  <2>2. ASSUME NEW i \in Infos, NEW b \in Blocks, NANDWrite(i, b)
        PROVE  Inv'
    BY <2>0, <2>2, WriteSafe, CallsTyped DEF Inv
  <2>3. ASSUME NEW i \in Infos, CommitAndCloseFd(i) \/ CloseMissing(i) \/ NAND_IOS_Close(i)
        PROVE  Inv'
    BY <2>0, <2>3, ClosesSafe, ClosesTyped DEF Inv
  <2>4. CASE NANDDelete \/ NANDCreate \/ ISFS_CreateFile
    BY <2>0, <2>4, NamesSafe, CallsTyped DEF Inv
  <2>5. CASE CommitRename \/ CommitDone
    BY <2>0, <2>5, CommitSafe, ClosesTyped DEF Inv
  <2>6. CASE Crash \/ PowerLoss
    BY <2>0, <2>6, DiesSafe, ClosesTyped DEF Inv
  <2>7. CASE UNCHANGED vars
    BY <2>0, <2>7 DEF vars, Inv, TypeOK, Bookkeeping, Durable, ScratchOwned, Quiet, Live, Publishing
  <2>8. QED  BY <2>0, <2>1, <2>2, <2>3, <2>4, <2>5, <2>6, <2>7 DEF Next
<1>3. QED  BY <1>1, <1>2, PTL DEF Spec

\* Every reachable state of the save file is typed.
THEOREM TypeCorrect == Spec => []TypeOK
<1>1. Inv => TypeOK  BY DEF Inv
<1>2. QED  BY <1>1, Invariance, PTL

\* What a close acknowledged, or is about to, is what a crash of the process or
\* of the machine leaves: AtomicReplaceHostFile has no window.
THEOREM AcknowledgedSurvives == Spec => []Durable
<1>1. Inv => Durable  BY DEF Inv
<1>2. QED  BY <1>1, Invariance, PTL

\* A writer's scratch file is its own as long as no NANDSafeOpen took it.
THEOREM ScratchIsOwned == Spec => []ScratchOwned
<1>1. Inv => ScratchOwned  BY DEF Inv
<1>2. QED  BY <1>1, Invariance, PTL
=============================================================================
