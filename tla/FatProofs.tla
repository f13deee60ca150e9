----------------------------- MODULE FatProofs -----------------------------
(***************************************************************************)
(* What Fat checks on six entries and three files, for every size of the   *)
(* table and of the disk, any contents of the memory that holds the table, *)
(* and any number of files, of clusters in them and of mounts.             *)
(*                                                                         *)
(* What a mount has promised stays true because allocate_cluster gives     *)
(* away only entries that are 0, and nothing that matters is ever 0: not   *)
(* the directory's chain (Chain), not the clusters of a whole file         *)
(* (Intact), and not those that write_file_fun has in its variables        *)
(* (InHand).  The chain of a damaged file is in none of these.             *)
(***************************************************************************)
EXTENDS Fat, FiniteSetTheorems, SequenceTheorems, WellFoundedInduction, TLAPS

Entry == [file : 0 .. Old, first : Entries]
Slots == [Slot -> Entry]
Content == [of : (0 .. Old) \X Nat, slots : Slots]
Looks == [Slot -> {Free, Taken}]     \* what data may look like
Op == [file : 0 .. MaxFiles, need : Nat, cluster : Entries \cup {OffDisk}, buffer : Slots,
       index : {-1, 0}, slot : Slot \cup {NoSlot}, cur : Entries, prev : Entries,
       first : Entries, i : Nat, then : {"ready", "walk"}]

\* The states of a write in which its slot is known.
Located == {"alloc", "data", "entry"}

Typed ==
  /\ disk \in [Data -> Content] /\ table \subseteq Entries /\ spoilt \in BOOLEAN
  /\ FAT \in [Entries -> Entries \cup {OffDisk, EOC}] /\ hint \in 0 .. ints_per_fat
  /\ pc \in {"off", "ready"} \cup Writing \cup Walking \cup Stopped
  /\ op \in Op /\ op.i <= op.need
  /\ pc \in Writing \ {"locate"} => op.cluster \in Entries
  /\ pc \in Writing \ {"entry"} => op.i < op.need
  /\ mounts \in 0 .. MaxMounts /\ next \in 0 .. MaxFiles
  /\ parts \in [File -> Seq(Entries)] /\ marked \in BOOLEAN

(***************************************************************************)
(* The write under way is that of the newest file, which no directory      *)
(* names yet; its variables are the last clusters it was given.            *)
(***************************************************************************)
Names(slots) == {slots[s].file : s \in Slot} \cap File
Earlier == {f \in File : f <= next /\ (pc \in Writing => f # next)}

Newest ==
  /\ \A f \in File : f > next => parts[f] = <<>>
  /\ \A c \in Data : Names(disk[c].slots) \subseteq Earlier
  /\ pc \in Writing => op.file = next /\ op.file \in File /\ Names(op.buffer) \subseteq Earlier

Head0(q) == IF q = <<>> THEN 0 ELSE q[1]

Current ==
  pc \in Writing =>
    LET q == parts[op.file] IN
    /\ pc \in {"locate", "extend"} => q = <<>> /\ op.i = 0 /\ op.first = 0 /\ op.prev = 0
    /\ pc \in {"alloc", "entry"} => Len(q) = op.i
    /\ pc = "data" => Len(q) = op.i + 1 /\ op.cur = q[Len(q)]
    /\ pc \in {"alloc", "data"} => op.prev = IF op.i = 0 THEN 0 ELSE q[op.i]
    /\ pc \in Located => Head0(q) \in {0, op.first} /\ (q = <<>> => op.first = 0)

(***************************************************************************)
(* The table in memory.                                                    *)
(***************************************************************************)
Running == marked /\ pc \notin {"off"} \cup Stopped

Clusters(f) == {parts[f][p] : p \in DOMAIN parts[f]}

\* D holds the clusters of the directory.
Chain(D) ==
  /\ D \subseteq Entries \ {0} /\ Root \in D
  /\ \A e \in D : FAT[e] \in D \cup {EOC}
  /\ pc \in {"locate", "extend"} => op.cluster \in D
  /\ pc \in Located => op.cluster \in D \cup {0}
  /\ \A f \in File : Whole(f) => Clusters(f) \cap D = {}
  /\ pc \in {"alloc", "data"} => op.prev \notin D
  /\ pc = "data" => op.cur \notin D

\* The cluster that put_data is about to link is the end of its own chain.
Follows(f, p) ==
  IF p < Len(parts[f]) /\ ~(pc = "data" /\ f = op.file /\ p = op.i) THEN parts[f][p + 1] ELSE EOC

Intact ==
  \A f \in File : Whole(f) =>
    /\ \A p \in DOMAIN parts[f] : FAT[parts[f][p]] = Follows(f, p)
    /\ \A g \in File : Whole(g) => \A p \in DOMAIN parts[f], q \in DOMAIN parts[g] :
         parts[f][p] = parts[g][q] => f = g /\ p = q

Ending(c) == c # 0 => FAT[c] = EOC /\ \A f \in File \ {op.file} : Whole(f) => c \notin Clusters(f)

InHand ==
  /\ pc \in {"alloc", "data"} => Ending(op.prev)
  /\ pc = "data" => Ending(op.cur) /\ (op.cur = op.prev => op.cur = 0)

(***************************************************************************)
(* The disk.                                                               *)
(***************************************************************************)
Written ==
  pc \in Located /\ Whole(op.file) =>
    \A p \in 1 .. op.i : disk[parts[op.file][p]].of = <<op.file, p>>

RootKind == disk[Root].of[1] = 0 \/ disk[Root].slots = Empty

\* What the write will put back into the root directory is what it holds.
Same(slots) ==
  slots = disk[Root].slots \/ (disk[Root].slots = Empty /\ Names(slots) = {})

Unused(slots, slot) == (Pairs(slots) = {} /\ slot = 0) \/ slots[slot].file = 0

Buffered ==
  pc \in Located /\ op.cluster = Root =>
    Same(op.buffer) /\ op.slot \in Slot /\ Unused(op.buffer, op.slot)

Sound(D) == Chain(D) /\ Intact /\ InHand /\ Written /\ Buffered

Writes == Newest /\ Current /\ RootKind

IInv ==
  /\ Typed /\ Writes /\ EntryAfterData
  /\ Running => \E D \in SUBSET Entries : Sound(D)

-----------------------------------------------------------------------------
(***************************************************************************)
(* Numbers.  The size of the table is a product; nothing but its being     *)
(* larger than the disk is used of it.                                     *)
(***************************************************************************)
LEMMA Sizes ==
  /\ ints_per_fat \in Nat /\ LastCluster \in Nat
  /\ LastCluster < ints_per_fat /\ 2 < LastCluster
  /\ DirsPerCluster \in Nat /\ 1 < DirsPerCluster
  /\ MaxFiles \in Nat \ {0} /\ MaxLength \in Nat \ {0} /\ MaxMounts \in Nat \ {0}
<1>1. EntriesPerSector \in Nat /\ SectorsPerFat \in Nat
  BY FatConstants
<1>2. ints_per_fat \in Nat
  BY <1>1 DEF ints_per_fat
<1> QED BY <1>2, FatConstants DEF Entries

LEMMA Ranges ==
  /\ Entries \subseteq Nat /\ 0 \in Entries /\ Root \in Data /\ Root \in Entries
  /\ Data \subseteq Entries /\ 0 \notin Data
  /\ EOC \notin Entries /\ EOC \in Nat /\ EOC # 0
  /\ \A e \in Entries : e < EOC
  /\ File \subseteq Nat \ {0} /\ Old \notin File /\ Old # 0 /\ Old \in Nat
  /\ Slot \subseteq Nat /\ 0 \in Slot /\ 1 \in Slot
  /\ NoSlot \notin Slot /\ OffDisk \notin Entries /\ OffDisk # 0
  /\ ~(OffDisk >= EOC) /\ ~(OffDisk <= LastCluster)
<1> USE Sizes
<1> HIDE DEF ints_per_fat
<1> QED BY DEF Entries, Root, Data, EOC, File, Old, Slot, NoSlot, OffDisk

LEMMA Contents ==
  /\ Free \in Entry /\ Taken \in Entry
  /\ Empty \in Slots /\ Looks \subseteq Slots
  /\ \A slots \in Slots : Directory(slots) \in Content
  /\ \A f \in 0 .. Old, p \in Nat : Part(f, p) \in Content
  /\ NoOp \in Op
  /\ Names(Empty) = {} /\ \A slots \in Looks : Names(slots) = {}
<1>1. Free \in Entry /\ Taken \in Entry /\ Old \in 0 .. Old /\ 0 \in 0 .. Old
  BY Ranges DEF Free, Taken, Entry
<1>2. Empty \in Slots /\ Looks \subseteq Slots
  BY <1>1 DEF Empty, Looks, Slots
<1>3. \A slots \in Slots : Directory(slots) \in Content
  BY <1>1, Ranges DEF Directory, Content
<1>4. \A f \in 0 .. Old, p \in Nat : Part(f, p) \in Content
  BY <1>2 DEF Part, Content
<1>5. NoOp \in Op
  BY <1>2, Ranges, Sizes DEF NoOp, Op
<1>6. Names(Empty) = {} /\ \A slots \in Looks : Names(slots) = {}
  <2>1. Free.file \notin File /\ Taken.file \notin File
    BY Ranges DEF Free, Taken
  <2>2. ASSUME NEW slots \in Looks PROVE Names(slots) = {}
    <3>1. \A s \in Slot : slots[s] \in {Free, Taken}
      BY DEF Looks
    <3> QED BY <2>1, <3>1 DEF Names
  <2>3. Empty \in Looks
    BY DEF Empty, Looks
  <2> QED BY <2>2, <2>3
<1> QED BY <1>1, <1>2, <1>3, <1>4, <1>5, <1>6

LEMMA SmallestNumber ==
  ASSUME NEW S \in SUBSET Nat, S # {}
  PROVE  Min(S) \in S /\ \A x \in S : Min(S) <= x
<1> DEFINE Less == OpToRel(<, Nat)
<1>1. IsWellFoundedOn(Less, Nat)
  BY NatLessThanWellFounded
<1>2. \A x, y \in Nat : x < y => <<x, y>> \in Less
  BY DEF OpToRel
<1> HIDE DEF Less
<1>3. PICK n \in S : \A x \in S : <<x, n>> \notin Less
  BY <1>1, WFMin
<1>4. ASSUME NEW x \in S PROVE n <= x
  <2>1. n \in Nat /\ x \in Nat
    OBVIOUS
  <2>2. ~(x < n)
    BY <1>2, <1>3, <2>1
  <2> QED BY <2>1, <2>2
<1> QED BY <1>4 DEF Min

-----------------------------------------------------------------------------
(***************************************************************************)
(* Types.                                                                  *)
(***************************************************************************)
LEMMA FreeOnes ==
  ASSUME Typed
  PROVE  /\ Ahead \subseteq Entries /\ Behind \subseteq Entries
         /\ \A e \in Ahead \cup Behind : FAT[e] = 0
         /\ \A e \in Entries : FAT[e] = 0 => e \in Ahead \cup Behind
         /\ FreeIn(0, ints_per_fat - 1) = {e \in Entries : FAT[e] = 0}
<1> DEFINE n == ints_per_fat
<1>1. n \in Nat /\ hint \in 0 .. n
  BY Sizes DEF Typed
<1> HIDE DEF n
<1> QED BY <1>1 DEF Ahead, Behind, FreeIn, Entries, n

\* What allocate_cluster finds is free, and it finds nothing only when nothing is.
LEMMA Found ==
  ASSUME Typed
  PROVE  /\ \A c \in FreeCluster : c \in Entries /\ FAT[c] = 0
         /\ FreeCluster = {} => FreeIn(0, ints_per_fat - 1) = {}
         /\ 0 \notin FreeCluster \/ FAT[0] = 0
<1>1. \A c \in FreeCluster : c \in Ahead \cup Behind
  BY DEF FreeCluster
<1>2. Ahead \subseteq Nat /\ Behind \subseteq Nat
  BY FreeOnes, Ranges
<1>3. FreeCluster = {} => Ahead = {} /\ Behind = {}
  <2>1. Ahead # {} => Min(Ahead) \in Ahead
    BY <1>2, SmallestNumber
  <2>2. Behind # {} => Min(Behind) \in Behind
    BY <1>2, SmallestNumber
  <2> QED BY <2>1, <2>2 DEF FreeCluster
<1> QED BY <1>1, <1>3, FreeOnes

LEMMA Read ==
  ASSUME Typed, NEW c, NEW slots \in get_directory(c)
  PROVE  slots \in Slots
<1>1. CASE c \in Data /\ disk[c].of[1] = 0
  BY <1>1 DEF get_directory, Typed, Content
<1>2. CASE ~(c \in Data /\ disk[c].of[1] = 0)
  <2>1. slots \in Looks
    BY <1>2 DEF get_directory, Looks
  <2> QED BY <2>1, Contents
<1> QED BY <1>1, <1>2

LEMMA Put ==
  ASSUME Typed, NEW c, NEW content \in Content, put_cluster(c, content)
  PROVE  /\ disk' \in [Data -> Content] /\ table' \subseteq Entries /\ spoilt' \in BOOLEAN
         /\ \A d \in Data : disk'[d] = IF d = c THEN content ELSE disk[d]
<1>1. CASE c \in Data
  BY <1>1 DEF put_cluster, Typed
<1>2. CASE c \notin Data
  BY <1>2 DEF put_cluster, Typed
<1> QED BY <1>1, <1>2

\* The slot the entry goes to: free, unless no two slots in a row are.
LEMMA Indexed ==
  ASSUME Typed, NEW slots \in Slots, Index(slots) # 0
  PROVE  Index(slots) + 1 \in Slot /\ Unused(slots, Index(slots) + 1)
<1>1. op.index \in {-1, 0}
  BY DEF Typed, Op
<1>2. CASE Pairs(slots) = {}
  <2>1. Index(slots) = -1
    BY <1>1, <1>2 DEF Index
  <2>2. Index(slots) + 1 = 0
    BY <2>1
  <2> QED BY <1>2, <2>2, Ranges DEF Unused
<1>3. CASE Pairs(slots) # {}
  <2>1. Pairs(slots) \subseteq Nat
    BY Ranges DEF Pairs
  <2>2. Index(slots) = Min(Pairs(slots))
    BY <1>3 DEF Index
  <2>3. Index(slots) \in Pairs(slots)
    BY <2>1, <2>2, <1>3, SmallestNumber
  <2> QED BY <2>3 DEF Pairs, Unused
<1> QED BY <1>2, <1>3

LEMMA Restarted ==
  ASSUME Typed, NEW how \in {"off"} \cup Stopped, Ends(how)
  PROVE  Typed'
<1>1. how \notin Writing /\ pc' = how
  BY DEF Writing, Stopped, Ends
<1>2. FAT' \in [Entries -> Entries \cup {OffDisk, EOC}] /\ hint' \in 0 .. ints_per_fat
  BY Ranges, Sizes DEF Ends, Unset
<1>3. op' \in Op /\ op'.i <= op'.need
  BY Contents DEF Ends, NoOp
<1>4. UNCHANGED <<disk, table, spoilt, mounts, next, parts, marked>>
  BY DEF Ends, medium, history
<1> QED BY <1>1, <1>2, <1>3, <1>4 DEF Typed

LEMMA TypedInit == Init => Typed
<1> SUFFICES ASSUME Init PROVE Typed
  OBVIOUS
<1>1. PICK root \in Roots :
        disk = [c \in Data |->
                  IF c = Root
                  THEN Directory([s \in Slot |-> IF s \in root THEN Taken ELSE Free])
                  ELSE Part(Old, c)]
  BY DEF Init
<1>2. [s \in Slot |-> IF s \in root THEN Taken ELSE Free] \in Slots
  BY Contents DEF Slots
<1>3. Old \in 0 .. Old /\ Data \subseteq Nat
  BY Ranges
<1>4. disk \in [Data -> Content]
  BY <1>1, <1>2, <1>3, Contents
<1>5. table \subseteq Entries /\ spoilt \in BOOLEAN
  BY FatConstants DEF Init
<1>6. FAT \in [Entries -> Entries \cup {OffDisk, EOC}] /\ hint \in 0 .. ints_per_fat
  BY Ranges, Sizes DEF Init, Unset
<1>7. op \in Op /\ op.i <= op.need
  BY Contents DEF Init, NoOp
<1>8. <<>> \in Seq(Entries)
  BY EmptySeq
<1>9. parts \in [File -> Seq(Entries)] /\ marked \in BOOLEAN
  BY <1>8 DEF Init
<1>10. pc = "off" /\ mounts \in 0 .. MaxMounts /\ next \in 0 .. MaxFiles
  BY Sizes DEF Init
<1> QED BY <1>4, <1>5, <1>6, <1>7, <1>9, <1>10 DEF Typed, Writing

LEMMA Typed_init_fs == Typed /\ init_fs => Typed'
<1> SUFFICES ASSUME Typed, init_fs PROVE Typed'
  OBVIOUS
<1>1. FAT' \in [Entries -> Entries \cup {OffDisk, EOC}]
  <2>1. Leftover \cup {0, EOC} \subseteq Entries \cup {OffDisk, EOC}
    BY FatConstants, Ranges
  <2> QED BY <2>1 DEF init_fs
<1>2. hint' \in 0 .. ints_per_fat /\ mounts' \in 0 .. MaxMounts
  BY Sizes DEF init_fs, Typed
<1>3. op' \in Op /\ op'.i <= op'.need
  BY Contents DEF init_fs, NoOp
<1>4. <<>> \in Seq(Entries)
  BY EmptySeq
<1>5. parts' \in [File -> Seq(Entries)] /\ marked' \in BOOLEAN
  BY <1>4 DEF init_fs
<1>6. pc' = "ready" /\ UNCHANGED <<disk, table, spoilt, next>>
  BY DEF init_fs, medium
<1> QED BY <1>1, <1>2, <1>3, <1>5, <1>6 DEF Typed, Writing

LEMMA Typed_init_fs_fails == Typed /\ init_fs_fails => Typed'
<1> SUFFICES ASSUME Typed, init_fs_fails PROVE Typed'
  OBVIOUS
<1>1. pc' \in {"off"} \cup Stopped /\ pc' \notin Writing
  BY DEF init_fs_fails, Stopped, Writing
<1>2. mounts' \in 0 .. MaxMounts
  BY Sizes DEF init_fs_fails, Typed
<1>3. UNCHANGED <<disk, table, spoilt, FAT, hint, op, next, parts, marked>>
  BY DEF init_fs_fails, medium
<1> QED BY <1>1, <1>2, <1>3 DEF Typed

LEMMA Typed_write_file_fun ==
  ASSUME Typed, NEW length \in Nat \ {0}, NEW then \in {"ready", "walk"},
         write_file_fun(length, then)
  PROVE  Typed'
<1>1. next' \in 0 .. MaxFiles
  BY Sizes DEF write_file_fun, Typed
<1>2. op' \in Op /\ op'.i = 0 /\ op'.need = length /\ op'.cluster = Root
  BY Contents, <1>1, Sizes DEF write_file_fun, Op, NoOp
<1>3. pc' = "locate" /\ UNCHANGED <<disk, table, spoilt, FAT, hint, mounts, parts, marked>>
  BY DEF write_file_fun, medium
<1> QED BY <1>1, <1>2, <1>3, Ranges DEF Typed, Writing

LEMMA Typed_caller == Typed /\ caller => Typed'
<1> SUFFICES ASSUME Typed, caller PROVE Typed'
  OBVIOUS
<1>1. CASE write_file
  <2>1. 1 .. MaxLength \subseteq Nat \ {0}
    BY Sizes
  <2> QED BY <1>1, <2>1, Typed_write_file_fun DEF write_file
<1>2. CASE mkdir
  BY <1>2, Typed_write_file_fun DEF mkdir
<1>3. CASE \E how \in Walking, from \in Entries : walk(how, from)
  <2>1. PICK how \in Walking, from \in Entries : walk(how, from)
    BY <1>3
  <2>2. op' \in Op /\ op'.i <= op'.need
    BY <2>1, Contents DEF walk, Op, NoOp
  <2>3. pc' \in Walking /\ pc' \notin Writing
    BY <2>1 DEF walk, Walking, Writing
  <2>4. UNCHANGED <<disk, table, spoilt, FAT, hint, mounts, next, parts, marked>>
    BY <2>1 DEF walk, medium, history
  <2> QED BY <2>2, <2>3, <2>4 DEF Typed
<1>4. populate_dir => \E how \in Walking, from \in Entries : walk(how, from)
  BY Ranges DEF populate_dir, Walking
<1>5. read_file => \E how \in Walking, from \in Entries : walk(how, from)
  <2>1. \A s \in Slot : disk[Root].slots[s].first \in Entries
    BY Ranges DEF Typed, Content, Slots, Entry
  <2> QED BY <2>1 DEF read_file, Walking
<1>6. CASE destroy_fs
  BY <1>6, Restarted DEF destroy_fs
<1> QED BY <1>1, <1>2, <1>3, <1>4, <1>5, <1>6 DEF caller

LEMMA OnTheDisk == Typed /\ Writable(op.cluster) => op.cluster \in Entries
<1> SUFFICES ASSUME Typed, Writable(op.cluster) PROVE op.cluster \in Entries
  OBVIOUS
<1>1. op.cluster \in Entries \cup {OffDisk} /\ op.cluster <= LastCluster
  BY DEF Writable, Typed, Op
<1> QED BY <1>1, Ranges

LEMMA Typed_locate_entries == Typed /\ locate_entries => Typed'
<1> SUFFICES ASSUME Typed, locate_entries PROVE Typed'
  OBVIOUS
<1>1. PICK slots \in get_directory(op.cluster) :
        IF Index(slots) # 0
        THEN /\ op' = [op EXCEPT !.buffer = slots, !.slot = Index(slots) + 1]
             /\ pc' = "alloc"
        ELSE /\ op' = [op EXCEPT !.buffer = slots, !.index = 0]
             /\ pc' = "extend"
  BY DEF locate_entries
<1>2. slots \in Slots
  BY Read
<1>3. Index(slots) # 0 => Index(slots) + 1 \in Slot
  BY <1>2, Indexed
<1>4. op' \in Op /\ op'.i = op.i /\ op'.need = op.need /\ op'.cluster = op.cluster
  <2>1. op \in Op
    BY DEF Typed
  <2>2. CASE Index(slots) # 0
    BY <1>1, <1>2, <1>3, <2>1, <2>2 DEF Op
  <2>3. CASE Index(slots) = 0
    BY <1>1, <1>2, <2>1, <2>3 DEF Op
  <2> QED BY <2>2, <2>3
<1>5. pc = "locate" /\ pc' \in {"alloc", "extend"}
  BY <1>1 DEF locate_entries
<1>6. UNCHANGED <<disk, table, spoilt, FAT, hint, mounts, next, parts, marked>>
  BY DEF locate_entries, medium, history
<1>7. op.cluster \in Entries
  BY OnTheDisk DEF locate_entries
<1> QED BY <1>4, <1>5, <1>6, <1>7 DEF Typed, Writing

LEMMA Typed_next_cluster == Typed /\ next_cluster => Typed'
<1> SUFFICES ASSUME Typed, next_cluster PROVE Typed'
  OBVIOUS
<1>1. FAT[op.cluster] \in Entries \cup {OffDisk}
  <2>1. op.cluster \in Entries /\ FAT[op.cluster] < EOC
    BY DEF Typed, next_cluster, Writing
  <2>2. ~(EOC < EOC)
    <3>1. PICK n \in Nat : n = EOC
      BY Ranges
    <3> QED BY <3>1
  <2> QED BY <2>1, <2>2 DEF Typed
<1>2. op' \in Op /\ op'.i = op.i /\ op'.need = op.need /\ op'.cluster = FAT[op.cluster]
  BY <1>1 DEF Typed, next_cluster, Op
<1>3. pc = "extend" /\ pc' = "locate"
  BY DEF next_cluster
<1>4. UNCHANGED <<disk, table, spoilt, FAT, hint, mounts, next, parts, marked>>
  BY DEF next_cluster, medium, history
<1> QED BY <1>1, <1>2, <1>3, <1>4 DEF Typed, Writing

\* allocate_cluster clears what it returns.
LEMMA Cleared ==
  ASSUME Typed, NEW c \in Entries, put_cluster(c, Directory(Empty))
  PROVE  /\ disk' \in [Data -> Content] /\ table' \subseteq Entries /\ spoilt' \in BOOLEAN
         /\ \A d \in Data : disk'[d] = IF d = c THEN Directory(Empty) ELSE disk[d]
<1>1. Directory(Empty) \in Content
  BY Contents
<1> QED BY <1>1, Put

LEMMA NextHint == \A c \in Entries : c + 1 \in 0 .. ints_per_fat
<1> DEFINE n == ints_per_fat
<1>1. n \in Nat
  BY Sizes
<1> HIDE DEF n
<1> QED BY <1>1 DEF Entries, n

LEMMA Typed_extend == Typed /\ extend => Typed'
<1> SUFFICES ASSUME Typed, extend PROVE Typed'
  OBVIOUS
<1>1. PICK c \in FreeCluster :
        /\ Writable(c) /\ c # 0
        /\ put_cluster(c, Directory(Empty))
        /\ FAT' = [Marked(FAT, c) EXCEPT ![op.cluster] = c]
        /\ hint' = c + 1
        /\ op' = [op EXCEPT !.cluster = c]
  BY DEF extend
<1>2. c \in Entries
  BY Found
<1>3. disk' \in [Data -> Content] /\ table' \subseteq Entries /\ spoilt' \in BOOLEAN
  BY <1>1, <1>2, Cleared
<1>4. FAT' \in [Entries -> Entries \cup {OffDisk, EOC}]
  BY <1>1, <1>2 DEF Marked, Typed
<1>5. hint' \in 0 .. ints_per_fat
  BY <1>1, <1>2, NextHint
<1>6. op' \in Op /\ op'.i = op.i /\ op'.need = op.need /\ op'.cluster = c
  BY <1>1, <1>2 DEF Typed, Op
<1>7. pc = "extend" /\ pc' = "locate"
  BY DEF extend
<1>8. UNCHANGED <<mounts, next, parts, marked>>
  BY DEF extend, history
<1> QED BY <1>2, <1>3, <1>4, <1>5, <1>6, <1>7, <1>8 DEF Typed, Writing

LEMMA Typed_extend_fails == Typed /\ extend_fails => Typed'
<1> SUFFICES ASSUME Typed, extend_fails PROVE Typed'
  OBVIOUS
<1>1. FAT' \in [Entries -> Entries \cup {OffDisk, EOC}]
  BY DEF extend_fails, Typed
<1>2. hint' \in 0 .. ints_per_fat
  BY Sizes DEF extend_fails, Typed
<1>3. op' \in Op /\ op'.i = op.i /\ op'.need = op.need /\ op'.cluster = 0
  BY Ranges DEF extend_fails, Typed, Op
<1>4. spoilt' \in BOOLEAN
  BY DEF extend_fails, Typed
<1>5. pc = "extend" /\ pc' = "alloc" /\ UNCHANGED <<disk, table>>
  BY DEF extend_fails
<1>6. UNCHANGED <<mounts, next, parts, marked>>
  BY DEF extend_fails, history
<1> QED BY <1>1, <1>2, <1>3, <1>4, <1>5, <1>6, Ranges DEF Typed, Writing

LEMMA Typed_Given ==
  ASSUME Typed, NEW c \in Entries, Given(c)
  PROVE  /\ op' \in Op /\ op'.i = op.i /\ op'.need = op.need /\ op'.cluster = op.cluster
         /\ pc' = "data"
         /\ parts' \in [File -> Seq(Entries)]
<1>1. op' \in Op /\ op'.i = op.i /\ op'.need = op.need /\ op'.cluster = op.cluster
  <2>1. op \in Op /\ op' = [op EXCEPT !.cur = c, !.first = IF @ = 0 THEN c ELSE @]
    BY DEF Given, Typed
  <2>2. (IF op.first = 0 THEN c ELSE op.first) \in Entries
    BY <2>1 DEF Op
  <2> QED BY <2>1, <2>2 DEF Op
<1>2. pc' = "data"
  BY DEF Given
<1>3. parts' = [parts EXCEPT ![op.file] = Append(parts[op.file], c)]
  BY DEF Given
<1>4. \A f \in File : Append(parts[f], c) \in Seq(Entries)
  BY AppendProperties DEF Typed
<1> QED BY <1>1, <1>2, <1>3, <1>4 DEF Typed

LEMMA Typed_allocate_cluster == Typed /\ allocate_cluster => Typed'
<1> SUFFICES ASSUME Typed, allocate_cluster PROVE Typed'
  OBVIOUS
<1>1. PICK c \in FreeCluster :
        /\ Writable(c)
        /\ put_cluster(c, Directory(Empty))
        /\ FAT' = Marked(FAT, c)
        /\ hint' = c + 1
        /\ Given(c)
  BY DEF allocate_cluster
<1>2. c \in Entries
  BY Found
<1>3. disk' \in [Data -> Content] /\ table' \subseteq Entries /\ spoilt' \in BOOLEAN
  BY <1>1, <1>2, Cleared
<1>4. FAT' \in [Entries -> Entries \cup {OffDisk, EOC}]
  BY <1>1, <1>2 DEF Marked, Typed
<1>5. hint' \in 0 .. ints_per_fat
  BY <1>1, <1>2, NextHint
<1>6. /\ op' \in Op /\ op'.i = op.i /\ op'.need = op.need /\ op'.cluster = op.cluster
      /\ pc' = "data" /\ parts' \in [File -> Seq(Entries)]
  BY <1>1, <1>2, Typed_Given
<1>7. pc = "alloc" /\ UNCHANGED <<mounts, next, marked>>
  BY DEF allocate_cluster
<1> QED BY <1>3, <1>4, <1>5, <1>6, <1>7 DEF Typed, Writing

LEMMA Typed_allocate_fails == Typed /\ allocate_fails => Typed'
<1> SUFFICES ASSUME Typed, allocate_fails PROVE Typed'
  OBVIOUS
<1>1. /\ op' \in Op /\ op'.i = op.i /\ op'.need = op.need /\ op'.cluster = op.cluster
      /\ pc' = "data" /\ parts' \in [File -> Seq(Entries)]
  BY Typed_Given, Ranges DEF allocate_fails
<1>2. pc = "alloc" /\ UNCHANGED <<disk, table, spoilt, FAT, hint, mounts, next, marked>>
  BY DEF allocate_fails, medium
<1> QED BY <1>1, <1>2 DEF Typed, Writing

LEMMA Typed_put_data == Typed /\ put_data => Typed'
<1> SUFFICES ASSUME Typed, put_data PROVE Typed'
  OBVIOUS
<1>1. /\ op.file \in 0 .. MaxFiles /\ op.cur \in Entries /\ op.prev \in Entries
      /\ op.i \in Nat /\ op.need \in Nat /\ op.i < op.need
  BY DEF Typed, Op, put_data, Writing
<1>2. Part(op.file, op.i + 1) \in Content
  BY <1>1, Contents, Sizes DEF Old
<1>3. disk' \in [Data -> Content] /\ table' \subseteq Entries /\ spoilt' \in BOOLEAN
  BY <1>2, Put DEF put_data
<1>4. FAT' \in [Entries -> Entries \cup {OffDisk, EOC}]
  BY <1>1 DEF put_data, Linking, Typed
<1>5. op' \in Op /\ op'.i = op.i + 1 /\ op'.need = op.need /\ op'.cluster = op.cluster
  <2>1. PICK k : k = op.i + 1
    OBVIOUS
  <2>2. k \in Nat /\ op \in Op
    BY <1>1, <2>1 DEF Typed
  <2>3. op' = [op EXCEPT !.prev = op.cur, !.i = k]
    BY <2>1 DEF put_data
  <2>4. op'.i = k /\ op'.need = op.need /\ op'.cluster = op.cluster
    BY <2>2, <2>3 DEF Op
  <2>5. op' \in Op
    BY <1>1, <2>2, <2>3 DEF Op
  <2> QED BY <2>1, <2>4, <2>5
<1>6. /\ pc = "data" /\ pc' \in {"entry", "alloc"}
      /\ pc' = "alloc" => op.i + 1 # op.need
  BY DEF put_data
<1>7. UNCHANGED <<hint, mounts, next, parts, marked>>
  BY DEF put_data, history
<1> QED BY <1>1, <1>3, <1>4, <1>5, <1>6, <1>7 DEF Typed, Writing

LEMMA Typed_put_entry == Typed /\ put_entry => Typed'
<1> SUFFICES ASSUME Typed, put_entry PROVE Typed'
  OBVIOUS
<1>1. op \in Op /\ op.then \in {"ready", "walk"}
  BY DEF Typed, Op
<1>2. [file |-> op.file, first |-> op.first] \in Entry
  BY <1>1, Sizes DEF Op, Entry, Old
<1> DEFINE new == [s \in Slot |-> IF s = op.slot THEN [file |-> op.file, first |-> op.first]
                                                 ELSE op.buffer[s]]
<1>3. new \in Slots
  BY <1>1, <1>2 DEF Op, Slots
<1>4. put_cluster(op.cluster, Directory(new))
  BY DEF put_entry
<1> HIDE DEF new
<1>5. disk' \in [Data -> Content] /\ table' \subseteq Entries /\ spoilt' \in BOOLEAN
  BY <1>3, <1>4, Contents, Put
<1>6. op' \in Op /\ op'.i <= op'.need
  BY Contents DEF put_entry, NoOp
<1>7. pc' \in {"ready", "walk"}
  BY <1>1 DEF put_entry
<1>8. UNCHANGED <<FAT, hint, mounts, next, parts, marked>>
  BY DEF put_entry, history
<1> QED BY <1>5, <1>6, <1>7, <1>8 DEF Typed, Writing, Walking

LEMMA Typed_walk_on == Typed /\ walk_on => Typed'
<1> SUFFICES ASSUME Typed, walk_on PROVE Typed'
  OBVIOUS
<1>1. op.cluster \in Entries
  BY OnTheDisk DEF walk_on
<1>2. get_next_cluster_id(op.cluster) \subseteq Entries \cup {OffDisk}
  <2>1. FAT[op.cluster] \in Entries \cup {OffDisk, EOC}
    BY <1>1 DEF Typed
  <2>2. CASE FAT[op.cluster] \in Entries
    BY <2>2, Ranges DEF get_next_cluster_id
  <2>3. CASE FAT[op.cluster] = EOC
    BY <2>3, Ranges DEF get_next_cluster_id
  <2>4. CASE FAT[op.cluster] = OffDisk
    BY <2>4, Ranges DEF get_next_cluster_id
  <2> QED BY <2>1, <2>2, <2>3, <2>4
<1>3. PICK c \in Entries \cup {OffDisk} : op' = [op EXCEPT !.cluster = c]
  BY <1>2 DEF walk_on
<1>4. op' \in Op /\ op'.i = op.i /\ op'.need = op.need
  BY <1>3 DEF Typed, Op
<1>5. /\ pc \in Walking /\ pc \notin Writing
      /\ UNCHANGED <<disk, table, spoilt, FAT, hint, pc, mounts, next, parts, marked>>
  BY DEF walk_on, medium, history, Walking, Writing
<1> QED BY <1>4, <1>5 DEF Typed

LEMMA Ended == Typed /\ (destroy_fs \/ restart \/ bad_entry \/ write_error \/ off_disk)
                => \E how \in {"off"} \cup Stopped : Ends(how)
BY DEF destroy_fs, restart, bad_entry, write_error, off_disk, Stopped

LEMMA TypedNext == Typed /\ [Next]_vars => Typed'
<1> SUFFICES ASSUME Typed, [Next]_vars PROVE Typed'
  OBVIOUS
<1>1. CASE UNCHANGED vars
  BY <1>1 DEF Typed, vars, medium, history
<1>2. CASE destroy_fs \/ restart \/ bad_entry \/ write_error \/ off_disk
  BY <1>2, Ended, Restarted
<1> QED BY <1>1, <1>2, Typed_init_fs, Typed_init_fs_fails, Typed_caller, Typed_locate_entries, Typed_next_cluster,
           Typed_extend, Typed_extend_fails, Typed_allocate_cluster, Typed_allocate_fails,
           Typed_put_data, Typed_put_entry, Typed_walk_on
        DEF Next, write_steps

\* Every state of Fat is of the types it declares.
THEOREM FatTypeCorrect == Spec => []TypeOK
<1>1. Typed => TypeOK
  <2> SUFFICES ASSUME Typed PROVE TypeOK
    OBVIOUS
  <2>1. \A c \in Data : disk[c].slots \in [Slot -> [file : 0 .. Old, first : Entries]]
    BY DEF Typed, Content, Slots, Entry
  <2>2. /\ op.index \in Slot \cup {-1} /\ op.slot \in Slot \cup {NoSlot}
        /\ {op.cur, op.prev, op.first} \subseteq Entries
    BY Ranges DEF Typed, Op
  <2>3. op.i \in 0 .. op.need
    BY DEF Typed, Op
  <2> QED BY <2>1, <2>2, <2>3 DEF Typed, TypeOK
<1> QED BY <1>1, TypedInit, TypedNext, PTL DEF Spec

-----------------------------------------------------------------------------
(***************************************************************************)
(* The write under way, and the file it is of.                             *)
(***************************************************************************)
LEMMA EarlierGrows ==
  ASSUME Typed, next' = next, pc' \in Writing => pc \in Writing
  PROVE  Earlier \subseteq Earlier'
BY DEF Earlier

\* Steps that write no cluster and give none to a file.
LEMMA WritesKept ==
  ASSUME Typed, Writes, UNCHANGED <<disk, parts, next>>, pc' \notin Writing
  PROVE  Writes'
<1>1. Earlier \subseteq Earlier'
  BY EarlierGrows
<1>2. Newest'
  BY <1>1 DEF Writes, Newest, Names
<1>3. Current'
  BY DEF Current, Writing, Located
<1>4. RootKind'
  BY DEF Writes, RootKind
<1> QED BY <1>2, <1>3, <1>4 DEF Writes

LEMMA WritesInit == Init => Writes
<1> SUFFICES ASSUME Init PROVE Writes
  OBVIOUS
<1>1. PICK root \in Roots :
        disk = [c \in Data |->
                  IF c = Root
                  THEN Directory([s \in Slot |-> IF s \in root THEN Taken ELSE Free])
                  ELSE Part(Old, c)]
  BY DEF Init
<1> DEFINE slots == [s \in Slot |-> IF s \in root THEN Taken ELSE Free]
<1>2. Names(slots) = {}
  BY Ranges DEF Names, Free, Taken
<1>3. disk[Root] = Directory(slots) /\ \A c \in Data \ {Root} : disk[c] = Part(Old, c)
  BY <1>1, Ranges
<1> HIDE DEF slots
<1>4. \A c \in Data : Names(disk[c].slots) = {}
  <2>1. disk[Root].slots = slots
    BY <1>3 DEF Directory
  <2>2. ASSUME NEW c \in Data \ {Root} PROVE disk[c].slots = Empty
    <3>1. disk[c] = Part(Old, c)
      BY <1>3
    <3>2. Part(Old, c).slots = Empty
      BY DEF Part
    <3> QED BY <3>1, <3>2
  <2>3. Names(Empty) = {}
    BY Contents
  <2>4. ASSUME NEW c \in Data PROVE disk[c].slots = slots \/ disk[c].slots = Empty
    BY <2>1, <2>2
  <2> QED BY <1>2, <2>3, <2>4 DEF Names
<1>5. pc \notin Writing /\ \A f \in File : parts[f] = <<>>
  BY DEF Init, Writing
<1>6. Newest
  BY <1>4, <1>5 DEF Newest
<1>7. RootKind
  BY <1>3 DEF RootKind, Directory
<1> QED BY <1>5, <1>6, <1>7 DEF Writes, Current

LEMMA Writes_init_fs == Typed /\ Writes /\ init_fs => Writes'
<1> SUFFICES ASSUME Typed, Writes, init_fs PROVE Writes'
  OBVIOUS
<1>1. UNCHANGED <<disk, next>> /\ pc' = "ready" /\ pc' \notin Writing
  BY DEF init_fs, medium, Writing
<1>2. \A f \in File : parts'[f] = <<>>
  BY DEF init_fs
<1>3. Earlier \subseteq Earlier'
  BY <1>1, EarlierGrows
<1>4. Newest'
  BY <1>1, <1>2, <1>3 DEF Writes, Newest, Names
<1>5. Current' /\ RootKind'
  BY <1>1 DEF Writes, Current, RootKind, Located
<1> QED BY <1>4, <1>5 DEF Writes

LEMMA Writes_write_file_fun ==
  ASSUME Typed, Writes, NEW length \in Nat \ {0}, NEW then, write_file_fun(length, then)
  PROVE  Writes'
<1>1. /\ pc = "ready" /\ pc' = "locate" /\ pc \notin Writing /\ pc' \in Writing
      /\ UNCHANGED <<disk, parts>>
  BY DEF write_file_fun, medium, Writing
<1>2. next' = next + 1 /\ next \in Nat /\ next' \in File
  BY Sizes DEF write_file_fun, Typed, File
<1>3. /\ op'.file = next' /\ op'.buffer = Empty /\ op'.i = 0 /\ op'.first = 0
      /\ op'.prev = 0
  BY DEF write_file_fun, NoOp
<1>4. \A f \in File : f <= next => f <= next' /\ f # next'
  BY <1>2, Ranges
<1>5. \A f \in File : f > next' => f > next
  BY <1>2, Ranges
<1>6. parts'[next'] = <<>>
  <2>1. next' > next
    BY <1>2
  <2> QED BY <1>1, <1>2, <2>1 DEF Writes, Newest
<1>7. Earlier \subseteq Earlier'
  BY <1>1, <1>4 DEF Earlier
<1>8. Newest'
  <2>1. \A f \in File : f > next' => parts'[f] = <<>>
    BY <1>1, <1>5 DEF Writes, Newest
  <2>2. \A c \in Data : Names(disk'[c].slots) \subseteq Earlier'
    BY <1>1, <1>7 DEF Writes, Newest
  <2>3. Names(op'.buffer) = {}
    BY <1>3, Contents
  <2> QED BY <1>2, <1>3, <2>1, <2>2, <2>3 DEF Newest, Names
<1>9. Current'
  BY <1>1, <1>3, <1>6 DEF Current, Located
<1>10. RootKind'
  BY <1>1 DEF Writes, RootKind
<1> QED BY <1>8, <1>9, <1>10 DEF Writes

LEMMA Walked ==
  ASSUME caller, ~write_file, ~mkdir, ~destroy_fs
  PROVE  /\ pc = "ready" /\ pc' \in Walking
         /\ UNCHANGED <<disk, table, spoilt, FAT, hint, mounts, next, parts, marked>>
BY DEF caller, populate_dir, read_file, walk, medium, history, Walking

LEMMA Writes_caller == Typed /\ Writes /\ caller => Writes'
<1> SUFFICES ASSUME Typed, Writes, caller PROVE Writes'
  OBVIOUS
<1>1. CASE write_file
  <2>1. 1 .. MaxLength \subseteq Nat \ {0}
    BY Sizes
  <2> QED BY <1>1, <2>1, Writes_write_file_fun DEF write_file
<1>2. CASE mkdir
  BY <1>2, Writes_write_file_fun DEF mkdir
<1>3. CASE destroy_fs
  BY <1>3, WritesKept DEF destroy_fs, Ends, medium, history, Writing
<1>4. CASE ~write_file /\ ~mkdir /\ ~destroy_fs
  BY <1>4, Walked, WritesKept DEF Writing, Walking
<1> QED BY <1>1, <1>2, <1>3, <1>4

LEMMA Writes_locate_entries == Typed /\ Writes /\ locate_entries => Writes'
<1> SUFFICES ASSUME Typed, Writes, locate_entries PROVE Writes'
  OBVIOUS
<1>1. PICK slots \in get_directory(op.cluster) :
        IF Index(slots) # 0
        THEN /\ op' = [op EXCEPT !.buffer = slots, !.slot = Index(slots) + 1]
             /\ pc' = "alloc"
        ELSE /\ op' = [op EXCEPT !.buffer = slots, !.index = 0]
             /\ pc' = "extend"
  BY DEF locate_entries
<1>2. op \in Op
  BY DEF Typed
<1>3. /\ op'.buffer = slots /\ op'.file = op.file /\ op'.i = op.i /\ op'.first = op.first
      /\ op'.prev = op.prev
  BY <1>1, <1>2 DEF Op
<1>4. pc = "locate" /\ pc' \in {"alloc", "extend"} /\ UNCHANGED <<disk, parts, next>>
  BY <1>1 DEF locate_entries, medium, history
<1>5. Earlier \subseteq Earlier'
  BY <1>4, EarlierGrows DEF Writing
<1>6. Names(slots) \subseteq Earlier
  <2>1. CASE slots \in Looks
    BY <2>1, Contents
  <2>2. CASE op.cluster \in Data /\ slots = disk[op.cluster].slots
    BY <2>2 DEF Writes, Newest
  <2> QED BY <2>1, <2>2 DEF get_directory, Looks
<1>7. Newest'
  <2>1. op.file = next /\ op.file \in File
    BY <1>4 DEF Writes, Newest, Writing
  <2>2. /\ \A f \in File : f > next' => parts'[f] = <<>>
        /\ \A c \in Data : Names(disk'[c].slots) \subseteq Earlier'
    BY <1>4, <1>5 DEF Writes, Newest
  <2> QED BY <1>3, <1>4, <1>5, <1>6, <2>1, <2>2 DEF Newest, Names
<1>8. Current'
  <2>1. parts[op.file] = <<>> /\ op.i = 0 /\ op.first = 0 /\ op.prev = 0
    BY <1>4 DEF Writes, Current, Writing
  <2>2. parts'[op'.file] = <<>> /\ op'.i = 0 /\ op'.first = 0 /\ op'.prev = 0
    BY <1>3, <1>4, <2>1
  <2>3. Len(parts'[op'.file]) = 0
    BY <2>2
  <2> QED BY <1>4, <2>2, <2>3 DEF Current, Located, Head0
<1>9. RootKind'
  BY <1>4 DEF Writes, RootKind
<1> QED BY <1>7, <1>8, <1>9 DEF Writes

LEMMA Writes_next_cluster == Typed /\ Writes /\ next_cluster => Writes'
<1> SUFFICES ASSUME Typed, Writes, next_cluster PROVE Writes'
  OBVIOUS
<1>1. /\ op'.buffer = op.buffer /\ op'.file = op.file /\ op'.i = op.i /\ op'.first = op.first
      /\ op'.prev = op.prev
  BY DEF next_cluster, Typed, Op
<1>2. pc = "extend" /\ pc' = "locate" /\ UNCHANGED <<disk, parts, next>>
  BY DEF next_cluster, medium, history
<1>3. Earlier \subseteq Earlier'
  BY <1>2, EarlierGrows DEF Writing
<1>4. Newest'
  BY <1>1, <1>2, <1>3 DEF Writes, Newest, Names, Writing
<1>5. Current'
  BY <1>1, <1>2 DEF Writes, Current, Located, Writing
<1>6. RootKind'
  BY <1>2 DEF Writes, RootKind
<1> QED BY <1>4, <1>5, <1>6 DEF Writes

\* A cluster that is written: cleared, a part of a file, or a directory.
LEMMA NewestWritten ==
  ASSUME Typed, Newest, NEW c, NEW content \in Content, put_cluster(c, content),
         Names(content.slots) = {}, next' = next, pc \in Writing => pc' \in Writing,
         pc' \in Writing => pc \in Writing
  PROVE  \A d \in Data : Names(disk'[d].slots) \subseteq Earlier'
<1>1. Earlier \subseteq Earlier'
  BY EarlierGrows
<1>2. ASSUME NEW d \in Data PROVE disk'[d] \in {content, disk[d]}
  BY Put
<1>3. ASSUME NEW d \in Data PROVE Names(disk'[d].slots) \subseteq Earlier'
  <2>1. CASE disk'[d] = content
    BY <2>1
  <2>2. CASE disk'[d] = disk[d]
    BY <1>1, <2>2 DEF Newest
  <2> QED BY <1>2, <2>1, <2>2
<1> QED BY <1>3

LEMMA RootWritten ==
  ASSUME Typed, RootKind, NEW c, NEW content \in Content, put_cluster(c, content),
         content.of[1] = 0 \/ content.slots = Empty
  PROVE  RootKind'
<1>1. disk'[Root] \in {content, disk[Root]}
  BY Put, Ranges
<1> QED BY <1>1 DEF RootKind

LEMMA Blank ==
  /\ Directory(Empty) \in Content /\ Directory(Empty).slots = Empty
  /\ Directory(Empty).of[1] = 0 /\ Names(Directory(Empty).slots) = {}
<1>1. Directory(Empty).slots = Empty
  BY DEF Directory
<1>2. Directory(Empty).of[1] = 0
  BY DEF Directory
<1> QED BY <1>1, <1>2, Contents

LEMMA Writes_extend == Typed /\ Writes /\ extend => Writes'
<1> SUFFICES ASSUME Typed, Writes, extend PROVE Writes'
  OBVIOUS
<1>1. PICK c \in FreeCluster :
        put_cluster(c, Directory(Empty)) /\ op' = [op EXCEPT !.cluster = c]
  BY DEF extend
<1>2. /\ op'.buffer = op.buffer /\ op'.file = op.file /\ op'.i = op.i /\ op'.first = op.first
      /\ op'.prev = op.prev
  BY <1>1 DEF Typed, Op
<1>3. pc = "extend" /\ pc' = "locate" /\ UNCHANGED <<parts, next>>
  BY DEF extend, history
<1>4. \A d \in Data : Names(disk'[d].slots) \subseteq Earlier'
  BY <1>1, <1>3, Blank, NewestWritten DEF Writes, Writing
<1>5. Earlier \subseteq Earlier'
  BY <1>3, EarlierGrows DEF Writing
<1>6. Newest'
  BY <1>2, <1>3, <1>4, <1>5 DEF Writes, Newest, Names, Writing
<1>7. Current'
  BY <1>2, <1>3 DEF Writes, Current, Located, Writing
<1>8. RootKind'
  BY <1>1, Blank, RootWritten DEF Writes
<1> QED BY <1>6, <1>7, <1>8 DEF Writes

LEMMA Writes_extend_fails == Typed /\ Writes /\ extend_fails => Writes'
<1> SUFFICES ASSUME Typed, Writes, extend_fails PROVE Writes'
  OBVIOUS
<1>1. /\ op'.buffer = op.buffer /\ op'.file = op.file /\ op'.i = op.i /\ op'.first = op.first
      /\ op'.prev = op.prev
  BY DEF extend_fails, Typed, Op
<1>2. pc = "extend" /\ pc' = "alloc" /\ UNCHANGED <<disk, parts, next>>
  BY DEF extend_fails, history
<1>3. Earlier \subseteq Earlier'
  BY <1>2, EarlierGrows DEF Writing
<1>4. Newest'
  BY <1>1, <1>2, <1>3 DEF Writes, Newest, Names, Writing
<1>5. Current'
  <2>1. parts[op.file] = <<>> /\ op.i = 0 /\ op.first = 0 /\ op.prev = 0
    BY <1>2 DEF Writes, Current, Writing
  <2>2. parts'[op'.file] = <<>> /\ op'.i = 0 /\ op'.first = 0 /\ op'.prev = 0
    BY <1>1, <1>2, <2>1
  <2>3. Len(parts'[op'.file]) = 0
    BY <2>2
  <2> QED BY <1>2, <2>2, <2>3 DEF Current, Located, Head0
<1>6. RootKind'
  BY <1>2 DEF Writes, RootKind
<1> QED BY <1>4, <1>5, <1>6 DEF Writes

\* What the file that is written has been given, and what is given to it next.
LEMMA Given_parts ==
  ASSUME Typed, Writes, pc = "alloc", NEW c \in Entries, Given(c), next' = next
  PROVE  /\ op.file \in File /\ op.file = next /\ op'.file = op.file
         /\ op'.i = op.i /\ op.i \in Nat /\ op'.prev = op.prev /\ op'.cur = c
         /\ op'.buffer = op.buffer /\ op'.cluster = op.cluster /\ op'.slot = op.slot
         /\ op'.first = IF op.first = 0 THEN c ELSE op.first
         /\ parts[op.file] \in Seq(Entries) /\ Len(parts[op.file]) = op.i
         /\ parts'[op.file] \in Seq(Entries) /\ Len(parts'[op.file]) = op.i + 1
         /\ \A p \in 1 .. op.i : parts'[op.file][p] = parts[op.file][p]
         /\ parts'[op.file][op.i + 1] = c
         /\ \A f \in File \ {op.file} : parts'[f] = parts[f]
<1>1. op \in Op /\ op.i \in Nat
  BY DEF Typed, Op
<1>2. op' = [op EXCEPT !.cur = c, !.first = IF op.first = 0 THEN c ELSE op.first]
  BY DEF Given
<1>3. /\ op'.file = op.file /\ op'.i = op.i /\ op'.prev = op.prev /\ op'.cur = c
      /\ op'.buffer = op.buffer /\ op'.cluster = op.cluster /\ op'.slot = op.slot
      /\ op'.first = IF op.first = 0 THEN c ELSE op.first
  BY <1>1, <1>2 DEF Op
<1>4. op.file \in File /\ op.file = next
  BY DEF Writes, Newest, Writing
<1>5. Len(parts[op.file]) = op.i
  BY DEF Writes, Current, Writing
<1>6. PICK q \in Seq(Entries) : q = parts[op.file]
  BY <1>4 DEF Typed
<1>7. parts' = [parts EXCEPT ![op.file] = Append(q, c)]
  BY <1>6 DEF Given
<1>8. /\ Append(q, c) \in Seq(Entries) /\ Len(Append(q, c)) = Len(q) + 1
      /\ \A p \in 1 .. Len(q) : Append(q, c)[p] = q[p]
      /\ Append(q, c)[Len(q) + 1] = c
  BY AppendProperties
<1>9. parts'[op.file] = Append(q, c) /\ \A f \in File \ {op.file} : parts'[f] = parts[f]
  BY <1>4, <1>7 DEF Typed
<1> QED BY <1>1, <1>3, <1>4, <1>5, <1>6, <1>8, <1>9

LEMMA WritesGiven ==
  ASSUME Typed, Writes, pc = "alloc", NEW c \in Entries, Given(c), next' = next
  PROVE  /\ \A f \in File : f > next' => parts'[f] = <<>>
         /\ Current'
<1> DEFINE q == parts[op.file]
<1> DEFINE r == parts'[op.file]
<1>1. /\ op.file \in File /\ op.file = next /\ op'.file = op.file
      /\ op'.i = op.i /\ op.i \in Nat /\ op'.prev = op.prev /\ op'.cur = c
      /\ op'.first = IF op.first = 0 THEN c ELSE op.first
      /\ q \in Seq(Entries) /\ Len(q) = op.i
      /\ r \in Seq(Entries) /\ Len(r) = op.i + 1
      /\ \A p \in 1 .. op.i : r[p] = q[p]
      /\ r[op.i + 1] = c
      /\ \A f \in File \ {op.file} : parts'[f] = parts[f]
  BY Given_parts
<1>2. pc' = "data"
  BY DEF Given
<1>3. /\ op.prev = IF op.i = 0 THEN 0 ELSE q[op.i]
      /\ Head0(q) \in {0, op.first} /\ (q = <<>> => op.first = 0)
  BY DEF Writes, Current, Writing, Located
<1>4. \A f \in File : f > next' => parts'[f] = <<>>
  <2>1. \A f \in File : f > next => f # op.file
    BY <1>1, Ranges
  <2> QED BY <1>1, <2>1 DEF Writes, Newest
<1>5. parts'[op'.file] = r
  BY <1>1
<1> HIDE DEF q, r
<1>6. Head0(r) \in {0, op'.first} /\ r # <<>>
  <2>1. r # <<>>
    BY <1>1
  <2>2. Head0(r) = r[1]
    BY <2>1 DEF Head0
  <2>3. CASE op.i = 0
    <3>1. q = <<>>
      BY <1>1, <2>3, EmptySeq
    <3>2. r[1] = c /\ op'.first = c
      BY <1>1, <1>3, <2>3, <3>1
    <3> QED BY <2>1, <2>2, <3>2
  <2>4. CASE op.i # 0
    <3>1. q # <<>> /\ r[1] = q[1]
      BY <1>1, <2>4
    <3>2. Head0(q) = r[1]
      BY <3>1 DEF Head0
    <3>3. r[1] \in {0, op.first}
      BY <1>3, <3>2
    <3>4. r[1] \in {0, op'.first}
      BY <1>1, <3>3
    <3> QED BY <2>1, <2>2, <3>4
  <2> QED BY <2>1, <2>3, <2>4
<1>7. op'.prev = IF op'.i = 0 THEN 0 ELSE r[op'.i]
  BY <1>1, <1>3
<1>8. Current'
  BY <1>1, <1>2, <1>5, <1>6, <1>7 DEF Current, Located
<1> QED BY <1>4, <1>8

LEMMA Writes_allocate_cluster == Typed /\ Writes /\ allocate_cluster => Writes'
<1> SUFFICES ASSUME Typed, Writes, allocate_cluster PROVE Writes'
  OBVIOUS
<1>1. PICK c \in FreeCluster : put_cluster(c, Directory(Empty)) /\ Given(c)
  BY DEF allocate_cluster
<1>2. c \in Entries
  BY Found
<1>3. pc = "alloc" /\ pc' = "data" /\ next' = next
  BY <1>1 DEF allocate_cluster, Given
<1>4. Current' /\ \A f \in File : f > next' => parts'[f] = <<>>
  BY <1>1, <1>2, <1>3, WritesGiven
<1>5. \A d \in Data : Names(disk'[d].slots) \subseteq Earlier'
  BY <1>1, <1>3, Blank, NewestWritten DEF Writes, Writing
<1>6. Earlier \subseteq Earlier'
  BY <1>3, EarlierGrows DEF Writing
<1>7. op.file \in File /\ op.file = next /\ op'.file = op.file /\ op'.buffer = op.buffer
  BY <1>1, <1>2, <1>3, Given_parts
<1>8. Names(op.buffer) \subseteq Earlier
  BY <1>3 DEF Writes, Newest, Writing
<1>9. Newest'
  BY <1>3, <1>4, <1>5, <1>6, <1>7, <1>8 DEF Newest, Names
<1>10. RootKind'
  BY <1>1, Blank, RootWritten DEF Writes
<1> QED BY <1>4, <1>9, <1>10 DEF Writes

LEMMA Writes_allocate_fails == Typed /\ Writes /\ allocate_fails => Writes'
<1> SUFFICES ASSUME Typed, Writes, allocate_fails PROVE Writes'
  OBVIOUS
<1>1. 0 \in Entries /\ Given(0)
  BY Ranges DEF allocate_fails
<1>2. pc = "alloc" /\ pc' = "data" /\ next' = next /\ disk' = disk
  BY <1>1 DEF allocate_fails, Given, medium
<1>3. Current' /\ \A f \in File : f > next' => parts'[f] = <<>>
  BY <1>1, <1>2, WritesGiven
<1>4. Earlier \subseteq Earlier'
  BY <1>2, EarlierGrows DEF Writing
<1>5. op.file \in File /\ op.file = next /\ op'.file = op.file /\ op'.buffer = op.buffer
  BY <1>1, <1>2, Given_parts
<1>6. Names(op.buffer) \subseteq Earlier /\ \A c \in Data : Names(disk[c].slots) \subseteq Earlier
  BY <1>2 DEF Writes, Newest, Writing
<1>7. Newest'
  BY <1>2, <1>3, <1>4, <1>5, <1>6 DEF Newest, Names
<1>8. RootKind'
  BY <1>2 DEF Writes, RootKind
<1> QED BY <1>3, <1>7, <1>8 DEF Writes

\* The variables after put_data.
LEMMA Put_data ==
  ASSUME Typed, put_data
  PROVE  /\ pc = "data" /\ pc' \in {"entry", "alloc"}
         /\ op.i \in Nat /\ op'.i = op.i + 1 /\ op'.prev = op.cur /\ op'.cur = op.cur
         /\ op'.file = op.file /\ op'.first = op.first /\ op'.buffer = op.buffer
         /\ op'.cluster = op.cluster /\ op'.slot = op.slot
         /\ UNCHANGED <<parts, next, marked>>
<1>1. PICK k : k = op.i + 1
  OBVIOUS
<1>2. op \in Op /\ op' = [op EXCEPT !.prev = op.cur, !.i = k]
  BY <1>1 DEF put_data, Typed
<1>3. op'.i = k /\ op'.prev = op.cur /\ op'.cur = op.cur
  BY <1>2 DEF Op
<1>4. /\ op'.file = op.file /\ op'.first = op.first /\ op'.buffer = op.buffer
      /\ op'.cluster = op.cluster /\ op'.slot = op.slot
  BY <1>2 DEF Op
<1>5. pc = "data" /\ pc' \in {"entry", "alloc"}
  BY DEF put_data
<1>6. op.i \in Nat /\ UNCHANGED <<parts, next, marked>>
  BY <1>2 DEF put_data, history, Op
<1> QED BY <1>1, <1>3, <1>4, <1>5, <1>6

LEMMA PartContent ==
  ASSUME Typed, put_data
  PROVE  Part(op.file, op.i + 1) \in Content
<1>1. op.file \in 0 .. MaxFiles /\ op.i + 1 \in Nat
  BY DEF Typed, Op
<1> QED BY <1>1, Contents, Sizes DEF Old

LEMMA Writes_put_data == Typed /\ Writes /\ put_data => Writes'
<1> SUFFICES ASSUME Typed, Writes, put_data PROVE Writes'
  OBVIOUS
<1>1. /\ pc = "data" /\ pc' \in {"entry", "alloc"}
      /\ op.i \in Nat /\ op'.i = op.i + 1 /\ op'.prev = op.cur
      /\ op'.file = op.file /\ op'.first = op.first /\ op'.buffer = op.buffer
      /\ UNCHANGED <<parts, next>>
  BY Put_data
<1> DEFINE content == Part(op.file, op.i + 1)
<1>2. content \in Content /\ put_cluster(op.cur, content)
  BY PartContent DEF put_data
<1>3. content.slots = Empty /\ Names(content.slots) = {}
  <2>1. content.slots = Empty
    BY DEF Part
  <2>2. Names(Empty) = {}
    BY Contents
  <2> QED BY <2>1, <2>2
<1> HIDE DEF content
<1>4. \A d \in Data : Names(disk'[d].slots) \subseteq Earlier'
  BY <1>1, <1>2, <1>3, NewestWritten DEF Writes, Writing
<1>5. Earlier \subseteq Earlier'
  BY <1>1, EarlierGrows DEF Writing
<1>6. Newest'
  BY <1>1, <1>4, <1>5 DEF Writes, Newest, Names, Writing
<1>7. Current'
  <2>1. /\ Len(parts[op.file]) = op.i + 1 /\ op.cur = parts[op.file][Len(parts[op.file])]
        /\ Head0(parts[op.file]) \in {0, op.first}
        /\ parts[op.file] = <<>> => op.first = 0
    BY <1>1 DEF Writes, Current, Writing, Located
  <2>2. parts'[op'.file] = parts[op.file]
    BY <1>1
  <2>3. PICK k \in Nat : k = op.i + 1 /\ k # 0
    BY <1>1
  <2> QED BY <1>1, <2>1, <2>2, <2>3 DEF Current, Located
<1>8. RootKind'
  BY <1>2, <1>3, RootWritten DEF Writes
<1> QED BY <1>6, <1>7, <1>8 DEF Writes

\* The directory cluster that put_entry writes.
Entered == [s \in Slot |-> IF s = op.slot THEN [file |-> op.file, first |-> op.first]
                                          ELSE op.buffer[s]]

LEMMA EnteredSlots ==
  ASSUME Typed, put_entry
  PROVE  /\ Entered \in Slots /\ put_cluster(op.cluster, Directory(Entered))
         /\ Names(Entered) \subseteq Names(op.buffer) \cup {op.file}
<1>1. op \in Op
  BY DEF Typed
<1>2. [file |-> op.file, first |-> op.first] \in Entry
  BY <1>1, Sizes DEF Op, Entry, Old
<1>3. op.buffer \in [Slot -> Entry]
  BY <1>1 DEF Op, Slots
<1>4. Entered \in Slots
  BY <1>2, <1>3 DEF Entered, Slots
<1>5. put_cluster(op.cluster, Directory(Entered))
  BY DEF put_entry, Entered
<1>6. ASSUME NEW s \in Slot
      PROVE  Entered[s].file = op.file \/ Entered[s].file = op.buffer[s].file
  BY DEF Entered
<1>7. Names(Entered) \subseteq Names(op.buffer) \cup {op.file}
  BY <1>6 DEF Names
<1> QED BY <1>4, <1>5, <1>7

LEMMA Writes_put_entry == Typed /\ Writes /\ put_entry => Writes'
<1> SUFFICES ASSUME Typed, Writes, put_entry PROVE Writes'
  OBVIOUS
<1>1. pc = "entry" /\ pc' \notin Writing /\ UNCHANGED <<parts, next>>
  BY DEF put_entry, history, Typed, Op, Writing
<1>2. /\ Entered \in Slots /\ put_cluster(op.cluster, Directory(Entered))
      /\ Names(Entered) \subseteq Names(op.buffer) \cup {op.file}
  BY EnteredSlots
<1>3. Directory(Entered) \in Content
  BY <1>2, Contents
<1>4. Directory(Entered).slots = Entered /\ Directory(Entered).of[1] = 0
  BY DEF Directory
<1>5. op.file = next /\ op.file \in File /\ Names(op.buffer) \subseteq Earlier
  BY <1>1 DEF Writes, Newest, Writing
<1>6. Earlier \subseteq Earlier'
  BY <1>1, EarlierGrows
<1>7. op.file \in Earlier'
  <2>1. next <= next /\ next \in File
    BY <1>5, Sizes DEF Typed
  <2> QED BY <1>1, <1>5, <2>1 DEF Earlier
<1>8. ASSUME NEW d \in Data PROVE Names(disk'[d].slots) \subseteq Earlier'
  <2>1. disk'[d] = Directory(Entered) \/ disk'[d] = disk[d]
    BY <1>2, <1>3, Put
  <2>2. CASE disk'[d] = Directory(Entered)
    <3>1. disk'[d].slots = Entered
      BY <1>4, <2>2
    <3> QED BY <1>2, <1>5, <1>6, <1>7, <3>1
  <2>3. CASE disk'[d] = disk[d]
    BY <1>6, <2>3 DEF Writes, Newest
  <2> QED BY <2>1, <2>2, <2>3
<1>9. Newest'
  BY <1>1, <1>8 DEF Writes, Newest, Names
<1>10. Current'
  BY <1>1 DEF Current, Located, Writing
<1>11. RootKind'
  BY <1>2, <1>3, <1>4, RootWritten DEF Writes
<1> QED BY <1>9, <1>10, <1>11 DEF Writes

LEMMA WritesNext == Typed /\ Writes /\ [Next]_vars => Writes'
<1> SUFFICES ASSUME Typed, Writes, [Next]_vars PROVE Writes'
  OBVIOUS
<1>1. CASE UNCHANGED vars
  BY <1>1 DEF Writes, Newest, Current, RootKind, Earlier, Names, Head0, vars, medium, history
<1>2. CASE destroy_fs \/ restart \/ bad_entry \/ write_error \/ off_disk
  <2>1. PICK how \in {"off"} \cup Stopped : Ends(how)
    BY <1>2, Ended
  <2> QED BY <2>1, WritesKept DEF Ends, medium, history, Writing, Stopped
<1>3. CASE walk_on
  BY <1>3, WritesKept DEF walk_on, medium, history, Writing, Walking
<1>4. CASE init_fs_fails
  BY <1>4, WritesKept DEF init_fs_fails, medium, Writing
<1> QED BY <1>1, <1>2, <1>3, <1>4, Writes_init_fs, Writes_caller, Writes_locate_entries,
           Writes_next_cluster, Writes_extend, Writes_extend_fails, Writes_allocate_cluster,
           Writes_allocate_fails, Writes_put_data, Writes_put_entry
        DEF Next, write_steps

-----------------------------------------------------------------------------
(***************************************************************************)
(* The table and the disk.                                                 *)
(***************************************************************************)
Mounted(D) == Typed /\ Writes /\ EntryAfterData /\ Running /\ D \in SUBSET Entries /\ Sound(D)

LEMMA WholeParts ==
  ASSUME Typed, NEW f \in File, Whole(f)
  PROVE  /\ parts[f] \in Seq(Entries) /\ Len(parts[f]) \in Nat \ {0}
         /\ DOMAIN parts[f] = 1 .. Len(parts[f])
         /\ \A p \in DOMAIN parts[f] : parts[f][p] \in Data /\ parts[f][p] # 0
         /\ \A p \in DOMAIN parts[f] : Follows(f, p) # 0
         /\ \A p \in DOMAIN parts[f] : parts[f][p] \in Clusters(f)
<1>1. PICK q \in Seq(Entries) : q = parts[f]
  BY DEF Typed
<1>2. q # <<>> /\ \A p \in DOMAIN q : q[p] \in Data
  BY <1>1 DEF Whole
<1>3. Len(q) \in Nat /\ DOMAIN q = 1 .. Len(q) /\ Len(q) # 0
  BY <1>2, EmptySeq
<1>4. \A p \in DOMAIN q : q[p] # 0
  BY <1>2, Ranges
<1>5. \A p \in DOMAIN q : p < Len(q) => p + 1 \in DOMAIN q
  BY <1>3
<1>6. \A p \in DOMAIN q : Follows(f, p) # 0
  BY <1>1, <1>4, <1>5, Ranges DEF Follows
<1> QED BY <1>1, <1>2, <1>3, <1>4, <1>6 DEF Clusters

LEMMA SameParts ==
  ASSUME NEW f \in File, parts'[f] = parts[f]
  PROVE  (Whole(f)' <=> Whole(f)) /\ Clusters(f)' = Clusters(f)
BY DEF Whole, Clusters

\* What is free is neither the directory's nor a file's.
LEMMA InUse ==
  ASSUME NEW D, Mounted(D), NEW c \in Entries, FAT[c] = 0
  PROVE  /\ c \notin D /\ c # Root
         /\ \A f \in File : Whole(f) => c \notin Clusters(f)
         /\ pc \in {"alloc", "data"} /\ op.prev # 0 => c # op.prev
<1>1. Typed /\ Chain(D) /\ Intact /\ InHand
  BY DEF Mounted, Sound
<1>2. c \notin D
  BY <1>1, Ranges DEF Chain
<1>3. c # Root
  BY <1>1, <1>2 DEF Chain
<1>4. ASSUME NEW f \in File, Whole(f), c \in Clusters(f) PROVE FALSE
  <2>1. PICK p \in DOMAIN parts[f] : c = parts[f][p]
    BY <1>4 DEF Clusters
  <2>2. Follows(f, p) # 0
    BY <1>1, <1>4, WholeParts
  <2>3. FAT[parts[f][p]] = Follows(f, p)
    BY <1>1, <1>4 DEF Intact
  <2> QED BY <2>1, <2>2, <2>3
<1>5. pc \in {"alloc", "data"} /\ op.prev # 0 => FAT[op.prev] = EOC
  BY <1>1 DEF InHand, Ending
<1> QED BY <1>2, <1>3, <1>4, <1>5, Ranges

LEMMA EntriesKeep ==
  ASSUME EntryAfterData, UNCHANGED <<disk, parts, marked>>
  PROVE  EntryAfterData'
BY DEF EntryAfterData, Whole, EntriesOf

LEMMA IntactKeeps ==
  ASSUME Intact, UNCHANGED <<FAT, parts>>, pc # "data", pc' # "data"
  PROVE  Intact'
<1>1. ASSUME NEW f \in File, NEW p PROVE Follows(f, p)' = Follows(f, p)
  BY DEF Follows
<1>2. \A f \in File : Whole(f)' <=> Whole(f)
  BY SameParts
<1> QED BY <1>1, <1>2 DEF Intact

\* The chain of the directory, while the table and the files stay as they are.
LEMMA ChainKeeps ==
  ASSUME NEW D, Chain(D), UNCHANGED <<FAT, parts>>,
         pc' \in {"locate", "extend"} => op'.cluster \in D,
         pc' \in Located => op'.cluster \in D \cup {0},
         pc' \in {"alloc", "data"} => op'.prev \notin D,
         pc' # "data"
  PROVE  Chain(D)'
<1>1. \A f \in File : (Whole(f)' <=> Whole(f)) /\ Clusters(f)' = Clusters(f)
  BY SameParts
<1> QED BY <1>1 DEF Chain

LEMMA Ready ==
  ASSUME NEW D, Mounted(D), UNCHANGED <<disk, FAT, parts, marked>>,
         pc # "data", pc' \in {"ready"} \cup Walking \/ (pc' = "locate" /\ op'.cluster \in D)
  PROVE  EntryAfterData' /\ Sound(D)'
<1>1. Chain(D) /\ Intact /\ EntryAfterData
  BY DEF Mounted, Sound
<1>2. EntryAfterData'
  BY <1>1, EntriesKeep
<1>3. pc' # "data" /\ pc' \notin Located
  BY DEF Located, Walking
<1>4. Intact'
  BY <1>1, <1>3, IntactKeeps
<1>5. Chain(D)'
  BY <1>1, <1>3, ChainKeeps DEF Located, Walking
<1>6. (InHand /\ Written /\ Buffered)'
  BY <1>3 DEF InHand, Written, Buffered, Located
<1> QED BY <1>2, <1>4, <1>5, <1>6 DEF Sound

LEMMA Sound_write_file_fun ==
  ASSUME NEW D, Mounted(D), NEW length, NEW then, write_file_fun(length, then)
  PROVE  EntryAfterData' /\ Sound(D)'
<1>1. pc = "ready" /\ pc' = "locate" /\ UNCHANGED <<disk, FAT, parts, marked>>
  BY DEF write_file_fun, medium
<1>2. op'.cluster = Root
  BY DEF write_file_fun, NoOp
<1>3. Root \in D
  BY DEF Mounted, Sound, Chain
<1> QED BY <1>1, <1>2, <1>3, Ready

LEMMA Sound_next_cluster ==
  ASSUME NEW D, Mounted(D), next_cluster
  PROVE  EntryAfterData' /\ Sound(D)'
<1>1. /\ pc = "extend" /\ pc' = "locate" /\ UNCHANGED <<disk, FAT, parts, marked>>
      /\ FAT[op.cluster] < EOC
  BY DEF next_cluster, medium, history
<1>2. op'.cluster = FAT[op.cluster]
  BY DEF next_cluster, Mounted, Typed, Op
<1>3. op.cluster \in D /\ FAT[op.cluster] \in D \cup {EOC}
  BY <1>1 DEF Mounted, Sound, Chain
<1>4. ~(EOC < EOC)
  <2>1. PICK n \in Nat : n = EOC
    BY Ranges
  <2> QED BY <2>1
<1> QED BY <1>1, <1>2, <1>3, <1>4, Ready

LEMMA Sound_locate_entries ==
  ASSUME NEW D, Mounted(D), locate_entries
  PROVE  EntryAfterData' /\ Sound(D)'
<1>1. PICK slots \in get_directory(op.cluster) :
        IF Index(slots) # 0
        THEN /\ op' = [op EXCEPT !.buffer = slots, !.slot = Index(slots) + 1]
             /\ pc' = "alloc"
        ELSE /\ op' = [op EXCEPT !.buffer = slots, !.index = 0]
             /\ pc' = "extend"
  BY DEF locate_entries
<1>2. Typed /\ Writes /\ Chain(D) /\ Intact /\ EntryAfterData
  BY DEF Mounted, Sound
<1>3. op \in Op
  BY <1>2 DEF Typed
<1>4. /\ op'.buffer = slots /\ op'.file = op.file /\ op'.i = op.i /\ op'.prev = op.prev
      /\ op'.cluster = op.cluster
  BY <1>1, <1>3 DEF Op
<1>5. pc = "locate" /\ pc' \in {"alloc", "extend"} /\ UNCHANGED <<disk, FAT, parts, marked>>
  BY <1>1 DEF locate_entries, medium, history
<1>6. op.i = 0 /\ op.prev = 0 /\ op.cluster \in D /\ 0 \notin D
  BY <1>2, <1>5 DEF Writes, Current, Writing, Chain
<1>7. EntryAfterData'
  BY <1>2, <1>5, EntriesKeep
<1>8. Intact'
  BY <1>2, <1>5, IntactKeeps
<1>9. Chain(D)'
  BY <1>2, <1>4, <1>5, <1>6, ChainKeeps
<1>10. InHand'
  BY <1>4, <1>5, <1>6 DEF InHand, Ending
<1>11. Written'
  BY <1>4, <1>6 DEF Written
<1>12. ASSUME pc' = "alloc", op.cluster = Root
       PROVE  Same(slots)' /\ op'.slot \in Slot /\ Unused(slots, op'.slot)
  <2>1. Index(slots) # 0
    BY <1>1, <1>12
  <2>2. op'.slot = Index(slots) + 1
    BY <1>1, <1>3, <2>1 DEF Op
  <2>3. slots \in Slots
    BY <1>2, Read
  <2>4. op'.slot \in Slot /\ Unused(slots, op'.slot)
    BY <1>2, <2>1, <2>2, <2>3, Indexed
  <2>5. slots = disk[Root].slots \/ (disk[Root].slots = Empty /\ Names(slots) = {})
    <3>1. CASE disk[Root].of[1] = 0
      BY <1>12, <3>1, Ranges DEF get_directory
    <3>2. CASE disk[Root].of[1] # 0
      <4>1. disk[Root].slots = Empty
        BY <1>2, <3>2 DEF Writes, RootKind
      <4>2. slots \in Looks
        BY <1>12, <3>2 DEF get_directory, Looks
      <4> QED BY <4>1, <4>2, Contents
    <3> QED BY <3>1, <3>2
  <2> QED BY <1>5, <2>4, <2>5 DEF Same
<1>13. Buffered'
  BY <1>4, <1>5, <1>12 DEF Buffered, Located, Same, Unused
<1> QED BY <1>7, <1>8, <1>9, <1>10, <1>11, <1>13 DEF Sound

LEMMA NotRoot ==
  ASSUME Typed, NEW c, c # Root, NEW content \in Content, put_cluster(c, content)
  PROVE  disk'[Root] = disk[Root]
BY Put, Ranges

\* A cluster that is cleared or written away from the directory and from whole files.
LEMMA ElsewhereEntries ==
  ASSUME Typed, EntryAfterData, marked' = marked, disk'[Root] = disk[Root],
         \A f \in File : Whole(f) /\ Whole(f)' /\ EntriesOf(f) # {} =>
           \A p \in DOMAIN parts[f] : disk'[parts[f][p]] = disk[parts[f][p]],
         \A f \in File : EntriesOf(f) # {} => parts'[f] = parts[f]
  PROVE  EntryAfterData'
<1>1. \A f \in File : EntriesOf(f)' = EntriesOf(f)
  BY DEF EntriesOf
<1> SUFFICES ASSUME marked', NEW f \in File, Whole(f)', NEW s \in EntriesOf(f)'
             PROVE  /\ disk'[Root].slots[s].first = parts'[f][1]
                    /\ \A p \in DOMAIN parts'[f] : disk'[parts'[f][p]].of = <<f, p>>
  BY DEF EntryAfterData
<1>2. s \in EntriesOf(f) /\ parts'[f] = parts[f]
  BY <1>1
<1>3. Whole(f)
  BY <1>2, SameParts
<1>4. /\ disk[Root].slots[s].first = parts[f][1]
      /\ \A p \in DOMAIN parts[f] : disk[parts[f][p]].of = <<f, p>>
  BY <1>2, <1>3 DEF EntryAfterData
<1>5. \A p \in DOMAIN parts[f] : disk'[parts[f][p]] = disk[parts[f][p]]
  BY <1>2, <1>3
<1>6. disk'[Root].slots[s].first = parts'[f][1]
  BY <1>2, <1>4
<1>7. ASSUME NEW p \in DOMAIN parts'[f] PROVE disk'[parts'[f][p]].of = <<f, p>>
  <2>1. p \in DOMAIN parts[f] /\ parts'[f][p] = parts[f][p]
    BY <1>2
  <2>2. disk'[parts[f][p]] = disk[parts[f][p]] /\ disk[parts[f][p]].of = <<f, p>>
    BY <1>4, <1>5, <2>1
  <2>3. disk'[parts'[f][p]] = disk'[parts[f][p]]
    BY <2>1
  <2> QED BY <2>2, <2>3
<1> QED BY <1>6, <1>7

\* The file that is written has no entry yet.
LEMMA NoEntryYet ==
  ASSUME Typed, Writes, pc \in Writing
  PROVE  EntriesOf(op.file) = {} /\ op.file \in File
<1>1. op.file = next /\ op.file \in File
  BY DEF Writes, Newest
<1>2. op.file \notin Earlier
  BY <1>1 DEF Earlier
<1>3. op.file \notin Names(disk[Root].slots)
  BY <1>2, Ranges DEF Writes, Newest
<1> QED BY <1>1, <1>3 DEF Names, EntriesOf

LEMMA ClearedEntries ==
  ASSUME NEW D, Mounted(D), NEW c \in Entries, FAT[c] = 0,
         put_cluster(c, Directory(Empty)), marked' = marked,
         \A f \in File : EntriesOf(f) # {} => parts'[f] = parts[f]
  PROVE  EntryAfterData' /\ disk'[Root] = disk[Root]
<1>1. Typed /\ EntryAfterData
  BY DEF Mounted
<1>2. c # Root /\ \A f \in File : Whole(f) => c \notin Clusters(f)
  BY InUse
<1>3. disk'[Root] = disk[Root]
  BY <1>1, <1>2, Blank, NotRoot
<1>4. ASSUME NEW f \in File, Whole(f), NEW p \in DOMAIN parts[f]
      PROVE  disk'[parts[f][p]] = disk[parts[f][p]]
  <2>1. parts[f][p] \in Data /\ parts[f][p] \in Clusters(f)
    BY <1>1, <1>4, WholeParts
  <2>2. parts[f][p] # c
    BY <1>2, <1>4, <2>1
  <2> QED BY <1>1, <2>1, <2>2, Cleared
<1>5. EntryAfterData'
  BY <1>1, <1>3, <1>4, ElsewhereEntries
<1> QED BY <1>3, <1>5

LEMMA Sound_extend ==
  ASSUME NEW D, Mounted(D), extend
  PROVE  EntryAfterData' /\ \E E \in SUBSET Entries : Sound(E)'
<1>1. PICK c \in FreeCluster :
        /\ Writable(c) /\ c # 0
        /\ put_cluster(c, Directory(Empty))
        /\ FAT' = [Marked(FAT, c) EXCEPT ![op.cluster] = c]
        /\ hint' = c + 1
        /\ op' = [op EXCEPT !.cluster = c]
  BY DEF extend
<1>2. Typed /\ Writes /\ Chain(D) /\ Intact /\ D \in SUBSET Entries
  BY DEF Mounted, Sound
<1>3. c \in Entries /\ FAT[c] = 0
  BY <1>2, Found
<1>4. c \notin D /\ \A f \in File : Whole(f) => c \notin Clusters(f)
  BY <1>3, InUse
<1>5. /\ pc = "extend" /\ pc' = "locate" /\ UNCHANGED <<parts, marked>>
      /\ pc' \notin Located /\ op'.cluster = c
  BY <1>1, <1>2 DEF extend, history, Located, Typed, Op
<1>6. EntryAfterData'
  BY <1>1, <1>3, <1>5, ClearedEntries
<1>7. op.cluster \in D /\ op.cluster # c
  BY <1>4, <1>5, <1>2 DEF Chain
<1>8. /\ FAT'[c] = EOC /\ FAT'[op.cluster] = c
      /\ \A e \in Entries \ {c, op.cluster} : FAT'[e] = FAT[e]
  <2>1. PICK fat \in [Entries -> Entries \cup {OffDisk, EOC}] : fat = Marked(FAT, c)
    BY <1>2, <1>3 DEF Marked, Typed
  <2>2. fat[c] = EOC /\ \A e \in Entries \ {c} : fat[e] = FAT[e]
    BY <1>2, <1>3, <2>1 DEF Marked, Typed
  <2>3. FAT' = [fat EXCEPT ![op.cluster] = c]
    BY <1>1, <2>1
  <2> QED BY <1>2, <1>3, <1>7, <2>2, <2>3
<1>9. \A f \in File : (Whole(f)' <=> Whole(f)) /\ Clusters(f)' = Clusters(f)
  BY <1>5, SameParts
<1> DEFINE E == D \cup {c}
<1>10. Chain(E)'
  <2>1. E \subseteq Entries \ {0} /\ Root \in E
    BY <1>1, <1>2, <1>3 DEF Chain
  <2>2. \A e \in E : FAT'[e] \in E \cup {EOC}
    <3>1. ASSUME NEW e \in D, e # op.cluster PROVE FAT'[e] \in D \cup {EOC}
      BY <1>2, <1>4, <1>8, <3>1 DEF Chain
    <3> QED BY <1>8, <3>1
  <2>3. \A f \in File : Whole(f)' => Clusters(f)' \cap E = {}
    BY <1>2, <1>4, <1>9 DEF Chain
  <2>4. op'.cluster \in E
    BY <1>5
  <2> HIDE DEF E
  <2> QED BY <1>5, <2>1, <2>2, <2>3, <2>4 DEF Chain
<1>11. Intact'
  <2>1. ASSUME NEW f \in File, Whole(f), NEW p \in DOMAIN parts[f]
        PROVE  FAT'[parts[f][p]] = FAT[parts[f][p]]
    <3>1. parts[f][p] \in Clusters(f) /\ parts[f][p] \in Entries
      BY <1>2, <2>1, WholeParts, Ranges
    <3>2. parts[f][p] # c /\ parts[f][p] # op.cluster
      BY <1>2, <1>4, <1>7, <2>1, <3>1 DEF Chain
    <3> QED BY <1>8, <3>1, <3>2
  <2>2. ASSUME NEW f \in File, NEW p PROVE Follows(f, p)' = Follows(f, p)
    BY <1>5 DEF Follows
  <2> QED BY <1>2, <1>5, <1>9, <2>1, <2>2 DEF Intact
<1>12. (InHand /\ Written /\ Buffered)'
  BY <1>5 DEF InHand, Written, Buffered, Located
<1>13. E \in SUBSET Entries
  BY <1>2, <1>3
<1>14. Sound(E)'
  <2> HIDE DEF E
  <2> QED BY <1>10, <1>11, <1>12 DEF Sound
<1> QED BY <1>6, <1>13, <1>14

LEMMA Sound_extend_fails ==
  ASSUME NEW D, Mounted(D), extend_fails
  PROVE  EntryAfterData' /\ Sound(D)'
<1>1. Typed /\ Writes /\ Chain(D) /\ Intact /\ EntryAfterData
  BY DEF Mounted, Sound
<1>2. /\ pc = "extend" /\ pc' = "alloc" /\ UNCHANGED <<disk, parts, marked>>
      /\ FreeCluster \subseteq {0}
  BY DEF extend_fails, history
<1>3. op'.i = op.i /\ op'.prev = op.prev /\ op'.cluster = 0
  BY <1>1 DEF extend_fails, Typed, Op
<1>4. op.i = 0 /\ op.prev = 0 /\ 0 \notin D
  BY <1>1, <1>2 DEF Writes, Current, Writing, Chain
<1>5. \A e \in Entries \ {0} : FAT'[e] = FAT[e]
  BY <1>2 DEF extend_fails
<1>6. EntryAfterData'
  BY <1>1, <1>2, EntriesKeep
<1>7. \A f \in File : (Whole(f)' <=> Whole(f)) /\ Clusters(f)' = Clusters(f)
  BY <1>2, SameParts
<1>8. Chain(D)'
  BY <1>1, <1>2, <1>3, <1>4, <1>5, <1>7 DEF Chain, Located
<1>9. Intact'
  <2>1. ASSUME NEW f \in File, Whole(f), NEW p \in DOMAIN parts[f]
        PROVE  FAT'[parts[f][p]] = FAT[parts[f][p]]
    BY <1>1, <1>5, <2>1, WholeParts, Ranges
  <2>2. ASSUME NEW f \in File, NEW p PROVE Follows(f, p)' = Follows(f, p)
    BY <1>2 DEF Follows
  <2> QED BY <1>1, <1>2, <1>7, <2>1, <2>2 DEF Intact
<1>10. InHand'
  BY <1>2, <1>3, <1>4 DEF InHand, Ending
<1>11. Written'
  BY <1>3, <1>4 DEF Written
<1>12. Buffered'
  BY <1>3, Ranges DEF Buffered
<1> QED BY <1>6, <1>8, <1>9, <1>10, <1>11, <1>12 DEF Sound

\* A part of a whole file is one it had, or the one it has just been given.
LEMMA GivenWhole ==
  ASSUME Typed, Writes, pc = "alloc", NEW c \in Entries, Given(c), next' = next
  PROVE  \A f \in File : Whole(f)' => \A p \in DOMAIN parts'[f] :
           \/ /\ Whole(f) /\ p \in DOMAIN parts[f] /\ parts'[f][p] = parts[f][p]
              /\ parts'[f][p] \in Clusters(f) /\ Follows(f, p)' = Follows(f, p)
           \/ /\ f = op.file /\ p = op.i + 1 /\ parts'[f][p] = c /\ c \in Data
              /\ Follows(f, p)' = EOC
<1> DEFINE q == parts[op.file]
<1> DEFINE r == parts'[op.file]
<1>1. /\ op.file \in File /\ op'.file = op.file /\ op'.i = op.i /\ op.i \in Nat
      /\ q \in Seq(Entries) /\ Len(q) = op.i
      /\ r \in Seq(Entries) /\ Len(r) = op.i + 1
      /\ \A p \in 1 .. op.i : r[p] = q[p]
      /\ r[op.i + 1] = c
      /\ \A f \in File \ {op.file} : parts'[f] = parts[f]
  BY Given_parts
<1>2. pc' = "data" /\ pc # "data"
  BY DEF Given
<1>3. DOMAIN q = 1 .. op.i /\ DOMAIN r = 1 .. op.i + 1
  BY <1>1
<1> SUFFICES ASSUME NEW f \in File, Whole(f)', NEW p \in DOMAIN parts'[f]
             PROVE  \/ /\ Whole(f) /\ p \in DOMAIN parts[f] /\ parts'[f][p] = parts[f][p]
                       /\ parts'[f][p] \in Clusters(f) /\ Follows(f, p)' = Follows(f, p)
                    \/ /\ f = op.file /\ p = op.i + 1 /\ parts'[f][p] = c /\ c \in Data
                       /\ Follows(f, p)' = EOC
  OBVIOUS
<1>4. CASE f # op.file
  <2>1. parts'[f] = parts[f] /\ Whole(f)
    BY <1>1, <1>4, SameParts
  <2>2. parts'[f][p] \in Clusters(f)
    BY <2>1 DEF Clusters
  <2>3. Follows(f, p)' = Follows(f, p)
    BY <1>1, <1>4, <2>1 DEF Follows
  <2> QED BY <2>1, <2>2, <2>3
<1>5. CASE f = op.file /\ p = op.i + 1
  <2>1. parts'[f][p] = c
    BY <1>1, <1>5
  <2>2. c \in Data
    BY <2>1 DEF Whole
  <2>3. Len(parts'[f]) = op.i + 1 /\ ~(p < op.i + 1)
    BY <1>1, <1>5
  <2>4. Follows(f, p)' = EOC
    BY <1>5, <2>3 DEF Follows
  <2> QED BY <1>5, <2>1, <2>2, <2>4
<1>6. CASE f = op.file /\ p # op.i + 1
  <2>1. p \in 1 .. op.i /\ p \in DOMAIN parts[f]
    <3>1. p \in DOMAIN r
      BY <1>6
    <3> HIDE DEF q, r
    <3>2. p \in 1 .. op.i
      BY <1>1, <1>3, <1>6, <3>1
    <3>3. p \in DOMAIN q
      BY <1>3, <3>2
    <3> QED BY <1>6, <3>2, <3>3 DEF q
  <2>2. parts'[f][p] = parts[f][p]
    BY <1>1, <1>6, <2>1
  <2>3. \A k \in DOMAIN parts[f] : parts[f][k] \in Data
    <3>1. \A k \in DOMAIN r : r[k] \in Data
      BY <1>6 DEF Whole
    <3> HIDE DEF q, r
    <3>2. \A k \in DOMAIN q : k \in DOMAIN r /\ r[k] = q[k]
      BY <1>1, <1>3
    <3> QED BY <1>6, <3>1, <3>2 DEF q
  <2>4. Whole(f)
    <3>1. parts[f] # <<>>
      BY <2>1
    <3> QED BY <2>3, <3>1 DEF Whole
  <2>5. parts'[f][p] \in Clusters(f)
    BY <2>1, <2>2 DEF Clusters
  <2>6. CASE p = op.i
    <3>1. Follows(f, p) = EOC
      BY <1>1, <1>2, <1>6, <2>6 DEF Follows
    <3>2. Follows(f, p)' = EOC
      BY <1>1, <1>2, <1>6, <2>6 DEF Follows
    <3> QED BY <2>1, <2>2, <2>4, <2>5, <3>1, <3>2
  <2>7. CASE p # op.i
    <3>1. p + 1 \in 1 .. op.i /\ p < op.i /\ p < op.i + 1
      BY <1>1, <2>1, <2>7
    <3>2. Follows(f, p) = q[p + 1]
      BY <1>1, <1>2, <1>6, <3>1 DEF Follows
    <3>3. Follows(f, p)' = r[p + 1]
      BY <1>1, <1>2, <1>6, <2>7, <3>1 DEF Follows
    <3>4. r[p + 1] = q[p + 1]
      BY <1>1, <3>1
    <3> QED BY <2>1, <2>2, <2>4, <2>5, <3>2, <3>3, <3>4
  <2> QED BY <2>6, <2>7
<1> QED BY <1>4, <1>5, <1>6

\* The cluster is free, or the 0 that says that none is.
LEMMA SoundGiven ==
  ASSUME NEW D, Mounted(D), pc = "alloc", NEW c \in Entries, Given(c), next' = next,
         c # 0 => FAT[c] = 0 /\ FAT'[c] = EOC,
         \A e \in Entries \ {c} : FAT'[e] = FAT[e],
         \A d \in Data \ {c} : disk'[d] = disk[d]
  PROVE  Sound(D)'
<1>1. Typed /\ Writes /\ Chain(D) /\ Intact /\ InHand /\ Written /\ Buffered /\ D \in SUBSET Entries
  BY DEF Mounted, Sound
<1>2. /\ op.file \in File /\ op'.file = op.file /\ op'.i = op.i /\ op.i \in Nat
      /\ op'.prev = op.prev /\ op'.cur = c
      /\ op'.buffer = op.buffer /\ op'.cluster = op.cluster /\ op'.slot = op.slot
      /\ \A f \in File \ {op.file} : parts'[f] = parts[f]
  BY <1>1, Given_parts
<1>3. pc' = "data"
  BY DEF Given
<1>4. \A f \in File : Whole(f)' => \A p \in DOMAIN parts'[f] :
           \/ /\ Whole(f) /\ p \in DOMAIN parts[f] /\ parts'[f][p] = parts[f][p]
              /\ parts'[f][p] \in Clusters(f) /\ Follows(f, p)' = Follows(f, p)
           \/ /\ f = op.file /\ p = op.i + 1 /\ parts'[f][p] = c /\ c \in Data
              /\ Follows(f, p)' = EOC
  BY <1>1, GivenWhole
<1>5. /\ c # Root /\ c \notin D
      /\ \A f \in File : Whole(f) => c \notin Clusters(f)
      /\ op.prev # 0 => c # op.prev
  <2>1. CASE c = 0
    <3>1. \A f \in File : Whole(f) => 0 \notin Clusters(f)
      BY Ranges DEF Whole, Clusters
    <3> QED BY <1>1, <2>1, <3>1, Ranges DEF Chain
  <2>2. CASE c # 0
    BY <2>2, InUse
  <2> QED BY <2>1, <2>2
<1>6. Chain(D)'
  <2>1. ASSUME NEW f \in File, Whole(f)' PROVE Clusters(f)' \cap D = {}
    <3>1. ASSUME NEW p \in DOMAIN parts'[f] PROVE parts'[f][p] \notin D
      <4>1. Whole(f) => Clusters(f) \cap D = {}
        BY <1>1 DEF Chain
      <4> QED BY <1>4, <1>5, <2>1, <4>1
    <3> QED BY <3>1 DEF Clusters
  <2>2. \A e \in D : FAT'[e] \in D \cup {EOC}
    BY <1>1, <1>5 DEF Chain
  <2>3. D \subseteq Entries \ {0} /\ Root \in D /\ op'.cluster \in D \cup {0}
    BY <1>1, <1>2 DEF Chain, Located
  <2>4. op'.prev \notin D /\ op'.cur \notin D
    BY <1>1, <1>2, <1>5 DEF Chain
  <2> QED BY <1>3, <2>1, <2>2, <2>3, <2>4 DEF Chain
<1>7. Intact'
  <2>1. ASSUME NEW f \in File, Whole(f)', NEW p \in DOMAIN parts'[f]
        PROVE  FAT'[parts'[f][p]] = Follows(f, p)'
    <3>1. CASE /\ Whole(f) /\ p \in DOMAIN parts[f] /\ parts'[f][p] = parts[f][p]
               /\ parts'[f][p] \in Clusters(f) /\ Follows(f, p)' = Follows(f, p)
      <4>1. parts[f][p] \in Entries /\ parts[f][p] # c
        BY <1>1, <1>5, <3>1, WholeParts, Ranges
      <4>2. FAT[parts[f][p]] = Follows(f, p)
        BY <1>1, <3>1 DEF Intact
      <4> QED BY <3>1, <4>1, <4>2
    <3>2. CASE /\ f = op.file /\ p = op.i + 1 /\ parts'[f][p] = c /\ c \in Data
               /\ Follows(f, p)' = EOC
      BY <3>2, Ranges
    <3> QED BY <1>4, <2>1, <3>1, <3>2
  <2>2. ASSUME NEW f \in File, Whole(f)', NEW g \in File, Whole(g)',
               NEW p \in DOMAIN parts'[f], NEW k \in DOMAIN parts'[g],
               parts'[f][p] = parts'[g][k]
        PROVE  f = g /\ p = k
    <3>1. CASE parts'[f][p] = c
      <4>1. f = op.file /\ p = op.i + 1
        BY <1>4, <1>5, <2>2, <3>1
      <4>2. g = op.file /\ k = op.i + 1
        BY <1>4, <1>5, <2>2, <3>1
      <4> QED BY <4>1, <4>2
    <3>2. CASE parts'[f][p] # c
      <4>1. Whole(f) /\ p \in DOMAIN parts[f] /\ parts'[f][p] = parts[f][p]
        BY <1>4, <2>2, <3>2
      <4>2. Whole(g) /\ k \in DOMAIN parts[g] /\ parts'[g][k] = parts[g][k]
        BY <1>4, <2>2, <3>2
      <4>3. parts[f][p] = parts[g][k]
        BY <2>2, <4>1, <4>2
      <4> QED BY <1>1, <4>1, <4>2, <4>3 DEF Intact
    <3> QED BY <3>1, <3>2
  <2> QED BY <2>1, <2>2 DEF Intact
<1>8. InHand'
  <2>1. \A f \in File \ {op.file} : (Whole(f)' <=> Whole(f)) /\ Clusters(f)' = Clusters(f)
    BY <1>2, SameParts
  <2>2. Ending(op.prev)'
    <3>1. op.prev \in Entries
      BY <1>1 DEF Typed, Op
    <3>2. Ending(op.prev)
      BY <1>1 DEF InHand
    <3> QED BY <1>2, <1>5, <2>1, <3>1, <3>2 DEF Ending
  <2>3. Ending(op.cur)'
    BY <1>2, <1>5, <2>1 DEF Ending
  <2>4. op'.cur = op'.prev => op'.cur = 0
    BY <1>2, <1>5
  <2> QED BY <1>3, <2>2, <2>3, <2>4 DEF InHand
<1>9. Written'
  <2>1. PICK f \in File : f = op.file
    BY <1>2
  <2>2. op'.file = f /\ op'.i = op.i
    BY <1>2, <2>1
  <2>3. ASSUME Whole(f)', NEW p \in 1 .. op.i
        PROVE  disk'[parts'[f][p]].of = <<f, p>>
    <3>1. p # op.i + 1 /\ p \in DOMAIN parts'[f]
      <4>1. /\ parts'[f] \in Seq(Entries) /\ Len(parts'[f]) = op.i + 1 /\ op.i \in Nat
        BY <1>1, <2>1, Given_parts
      <4> QED BY <4>1
    <3>2. Whole(f) /\ parts'[f][p] = parts[f][p] /\ p \in DOMAIN parts[f]
      BY <1>4, <2>3, <3>1
    <3>3. parts[f][p] \in Data /\ parts[f][p] \in Clusters(f)
      BY <1>1, <3>2, WholeParts
    <3>4. parts[f][p] \in Data \ {c}
      BY <1>5, <3>2, <3>3
    <3>5. disk[parts[f][p]].of = <<f, p>>
      BY <1>1, <2>1, <3>2 DEF Written, Located
    <3> QED BY <3>2, <3>4, <3>5
  <2>4. Whole(op.file)' => Whole(f)'
    BY <2>2 DEF Whole
  <2> QED BY <2>2, <2>3, <2>4 DEF Written
<1>10. Buffered'
  <2>1. disk'[Root] = disk[Root]
    BY <1>5, Ranges
  <2> QED BY <1>1, <1>2, <1>3, <2>1 DEF Buffered, Located, Same, Unused
<1> QED BY <1>6, <1>7, <1>8, <1>9, <1>10 DEF Sound

LEMMA Sound_allocate_cluster ==
  ASSUME NEW D, Mounted(D), allocate_cluster
  PROVE  EntryAfterData' /\ Sound(D)'
<1>1. PICK c \in FreeCluster :
        /\ put_cluster(c, Directory(Empty))
        /\ FAT' = Marked(FAT, c)
        /\ Given(c)
  BY DEF allocate_cluster
<1>2. Typed /\ Writes
  BY DEF Mounted
<1>3. c \in Entries /\ FAT[c] = 0
  BY <1>2, Found
<1>4. pc = "alloc" /\ next' = next /\ marked' = marked
  BY DEF allocate_cluster
<1>5. \A f \in File : EntriesOf(f) # {} => parts'[f] = parts[f]
  <2>1. EntriesOf(op.file) = {}
    BY <1>2, <1>4, NoEntryYet DEF Writing
  <2> QED BY <1>1, <1>2, <1>3, <1>4, <2>1, Given_parts
<1>6. EntryAfterData'
  BY <1>1, <1>3, <1>4, <1>5, ClearedEntries
<1>7. FAT'[c] = EOC /\ \A e \in Entries \ {c} : FAT'[e] = FAT[e]
  BY <1>1, <1>2, <1>3 DEF Marked, Typed
<1>8. \A d \in Data \ {c} : disk'[d] = disk[d]
  BY <1>1, <1>2, <1>3, Cleared
<1>9. Sound(D)'
  BY <1>1, <1>3, <1>4, <1>7, <1>8, SoundGiven
<1> QED BY <1>6, <1>9

LEMMA Sound_allocate_fails ==
  ASSUME NEW D, Mounted(D), allocate_fails
  PROVE  EntryAfterData' /\ Sound(D)'
<1>1. Typed /\ Writes /\ EntryAfterData
  BY DEF Mounted
<1>2. /\ 0 \in Entries /\ Given(0) /\ pc = "alloc"
      /\ UNCHANGED <<disk, FAT, next, marked>>
  BY Ranges DEF allocate_fails, medium
<1>3. \A f \in File : EntriesOf(f) # {} => parts'[f] = parts[f]
  <2>1. EntriesOf(op.file) = {}
    BY <1>1, <1>2, NoEntryYet DEF Writing
  <2> QED BY <1>1, <1>2, <2>1, Given_parts
<1>4. EntryAfterData'
  BY <1>1, <1>2, <1>3, ElsewhereEntries
<1>5. Sound(D)'
  BY <1>2, SoundGiven
<1> QED BY <1>4, <1>5

\* The cluster that is written is the last of its file; so is the one it is linked to.
LEMMA LastPart ==
  ASSUME Typed, Writes, pc = "data", Whole(op.file)
  PROVE  /\ op.file \in File /\ op.i \in Nat
         /\ DOMAIN parts[op.file] = 1 .. op.i + 1 /\ Len(parts[op.file]) = op.i + 1
         /\ op.cur = parts[op.file][op.i + 1] /\ op.cur \in Data
         /\ op.prev = IF op.i = 0 THEN 0 ELSE parts[op.file][op.i]
         /\ op.i # 0 => op.prev # 0
<1>1. op.file \in File /\ op.i \in Nat
  BY DEF Writes, Newest, Writing, Typed, Op
<1>2. /\ Len(parts[op.file]) = op.i + 1 /\ op.cur = parts[op.file][Len(parts[op.file])]
      /\ op.prev = IF op.i = 0 THEN 0 ELSE parts[op.file][op.i]
  BY DEF Writes, Current, Writing
<1>3. PICK q : q = parts[op.file]
  OBVIOUS
<1>4. /\ q \in Seq(Entries) /\ DOMAIN q = 1 .. Len(q)
      /\ \A p \in DOMAIN q : q[p] \in Data /\ q[p] # 0
  BY <1>1, <1>3, WholeParts
<1>5. Len(q) = op.i + 1 /\ op.cur = q[op.i + 1]
  BY <1>2, <1>3
<1>6. op.i + 1 \in DOMAIN q /\ (op.i # 0 => op.i \in DOMAIN q)
  BY <1>1, <1>4, <1>5
<1>7. op.cur \in Data /\ (op.i # 0 => op.prev # 0)
  BY <1>2, <1>3, <1>4, <1>5, <1>6
<1> QED BY <1>1, <1>2, <1>3, <1>4, <1>5, <1>7

LEMMA Linked_put_data ==
  ASSUME NEW D, Mounted(D), put_data
  PROVE  /\ \A e \in Entries : (op.prev = 0 \/ e # op.prev) => FAT'[e] = FAT[e]
         /\ op.prev # 0 => FAT'[op.prev] = op.cur
<1>1. FAT \in [Entries -> Entries \cup {OffDisk, EOC}] /\ op.prev \in Entries
  BY DEF Mounted, Typed, Op
<1>2. FAT' = IF op.prev = 0 THEN FAT ELSE [FAT EXCEPT ![op.prev] = op.cur]
  BY DEF put_data, Linking
<1> QED BY <1>1, <1>2

LEMMA Intact_put_data ==
  ASSUME NEW D, Mounted(D), put_data
  PROVE  Intact'
<1>1. Typed /\ Writes /\ Intact /\ InHand
  BY DEF Mounted, Sound
<1>2. pc = "data" /\ pc' # "data" /\ parts' = parts
  <2>1. pc = "data" /\ pc' \in {"entry", "alloc"} /\ parts' = parts
    BY <1>1, Put_data
  <2> QED BY <2>1
<1>3. \A f \in File : Whole(f)' <=> Whole(f)
  BY <1>2, SameParts
<1>4. ASSUME NEW f \in File, Whole(f), NEW p \in DOMAIN parts[f]
      PROVE  FAT'[parts[f][p]] = Follows(f, p)'
  <2>1. FAT[parts[f][p]] = Follows(f, p)
    BY <1>1, <1>4 DEF Intact
  <2>2. parts[f][p] \in Entries /\ parts[f][p] \in Clusters(f)
    BY <1>1, <1>4, WholeParts, Ranges
  <2>3. CASE f # op.file
    <3>1. op.prev = 0 \/ parts[f][p] # op.prev
      BY <1>1, <1>2, <1>4, <2>2, <2>3 DEF InHand, Ending
    <3>2. FAT'[parts[f][p]] = FAT[parts[f][p]]
      BY <2>2, <3>1, Linked_put_data
    <3>3. Follows(f, p)' = Follows(f, p)
      BY <1>2, <2>3 DEF Follows
    <3> QED BY <2>1, <3>2, <3>3
  <2>4. CASE f = op.file /\ p = op.i
    <3>1. PICK q : q = parts[f]
      OBVIOUS
    <3>2. /\ op.i \in Nat /\ DOMAIN q = 1 .. op.i + 1 /\ Len(q) = op.i + 1
          /\ op.cur = q[op.i + 1] /\ (op.i # 0 => op.prev # 0 /\ op.prev = q[op.i])
      BY <1>1, <1>2, <1>4, <2>4, <3>1, LastPart
    <3>3. op.i # 0
      BY <1>4, <2>4, <3>1, <3>2
    <3>4. FAT'[q[p]] = op.cur
      BY <2>4, <3>2, <3>3, Linked_put_data
    <3>5. Follows(f, p)' = q[p + 1]
      BY <1>2, <2>4, <3>1, <3>2 DEF Follows
    <3> QED BY <2>4, <3>1, <3>2, <3>4, <3>5
  <2>5. CASE f = op.file /\ p # op.i
    <3>1. op.prev = 0 \/ parts[f][p] # op.prev
      <4>1. op.i # 0 => op.i \in DOMAIN parts[f] /\ op.prev = parts[f][op.i]
        BY <1>1, <1>2, <1>4, <2>5, LastPart
      <4>2. op.i = 0 => op.prev = 0
        BY <1>1, <1>2, <1>4, <2>5, LastPart
      <4>3. op.i # 0 => parts[f][p] # parts[f][op.i]
        BY <1>1, <1>4, <2>5, <4>1 DEF Intact
      <4> QED BY <4>1, <4>2, <4>3
    <3>2. FAT'[parts[f][p]] = FAT[parts[f][p]]
      BY <2>2, <3>1, Linked_put_data
    <3>3. Follows(f, p)' = Follows(f, p)
      BY <1>2, <2>5 DEF Follows
    <3> QED BY <2>1, <3>2, <3>3
  <2> QED BY <2>3, <2>4, <2>5
<1>5. \A f \in File : Whole(f) => \A g \in File : Whole(g) =>
        \A p \in DOMAIN parts[f], k \in DOMAIN parts[g] :
          parts[f][p] = parts[g][k] => f = g /\ p = k
  BY <1>1 DEF Intact
<1> QED BY <1>2, <1>3, <1>4, <1>5 DEF Intact

LEMMA Sound_put_data ==
  ASSUME NEW D, Mounted(D), put_data
  PROVE  EntryAfterData' /\ Sound(D)'
<1>1. /\ Typed /\ Writes /\ EntryAfterData /\ D \in SUBSET Entries
      /\ Chain(D) /\ Intact /\ InHand /\ Written /\ Buffered
  BY DEF Mounted, Sound
<1>2. /\ pc = "data" /\ pc' \in {"entry", "alloc"}
      /\ op.i \in Nat /\ op'.i = op.i + 1 /\ op'.prev = op.cur
      /\ op'.file = op.file /\ op'.buffer = op.buffer
      /\ op'.cluster = op.cluster /\ op'.slot = op.slot
      /\ UNCHANGED <<parts, marked>>
  BY <1>1, Put_data
<1>3. Part(op.file, op.i + 1) \in Content /\ put_cluster(op.cur, Part(op.file, op.i + 1))
  BY <1>1, PartContent DEF put_data
<1>4. /\ disk' \in [Data -> Content]
      /\ \A d \in Data : disk'[d] = IF d = op.cur THEN Part(op.file, op.i + 1) ELSE disk[d]
  BY <1>1, <1>3, Put
<1>5. \A f \in File : (Whole(f)' <=> Whole(f)) /\ Clusters(f)' = Clusters(f)
  BY <1>2, SameParts
<1>6. op.cur \notin D /\ op.prev \notin D /\ Root \in D /\ op.cur \in Entries
  BY <1>1, <1>2 DEF Chain, Typed, Op
<1>7. disk'[Root] = disk[Root]
  BY <1>4, <1>6, Ranges
<1>8. EntryAfterData'
  <2>1. EntriesOf(op.file) = {}
    BY <1>1, <1>2, NoEntryYet DEF Writing
  <2>2. ASSUME NEW f \in File, Whole(f), f # op.file, NEW p \in DOMAIN parts[f]
        PROVE  disk'[parts[f][p]] = disk[parts[f][p]]
    <3>1. parts[f][p] \in Data /\ parts[f][p] # 0 /\ parts[f][p] \in Clusters(f)
      BY <1>1, <2>2, WholeParts
    <3>2. op.cur # 0 => op.cur \notin Clusters(f)
      BY <1>1, <1>2, <2>2 DEF InHand, Ending
    <3> QED BY <1>4, <3>1, <3>2
  <2> QED BY <1>1, <1>2, <1>7, <2>1, <2>2, ElsewhereEntries
<1>9. Chain(D)'
  <2>1. \A e \in D : FAT'[e] \in D \cup {EOC}
    <3>1. ASSUME NEW e \in D PROVE e \in Entries /\ e # op.prev
      BY <1>1, <1>6
    <3>2. \A e \in D : FAT'[e] = FAT[e]
      BY <3>1, Linked_put_data
    <3> QED BY <1>1, <3>2 DEF Chain
  <2>2. D \subseteq Entries \ {0} /\ Root \in D /\ op'.cluster \in D \cup {0}
    BY <1>1, <1>2 DEF Chain, Located
  <2>3. \A f \in File : Whole(f)' => Clusters(f)' \cap D = {}
    BY <1>1, <1>5 DEF Chain
  <2> QED BY <1>2, <1>6, <2>1, <2>2, <2>3 DEF Chain
<1>10. Intact'
  BY Intact_put_data
<1>11. InHand'
  <2>1. Ending(op.cur) /\ (op.cur = op.prev => op.cur = 0)
    BY <1>1, <1>2 DEF InHand
  <2>2. op.cur # 0 => FAT'[op.cur] = FAT[op.cur]
    BY <1>6, <2>1, Linked_put_data
  <2>3. Ending(op.prev)'
    BY <1>2, <1>5, <2>1, <2>2 DEF Ending
  <2> QED BY <1>2, <2>3 DEF InHand
<1>12. Written'
  <2> DEFINE f == op.file
  <2>1. ASSUME Whole(f), NEW p \in 1 .. op.i + 1
        PROVE  disk'[parts[f][p]].of = <<f, p>>
    <3>1. /\ f \in File /\ DOMAIN parts[f] = 1 .. op.i + 1
          /\ op.cur = parts[f][op.i + 1] /\ op.cur \in Data
      BY <1>1, <1>2, <2>1, LastPart
    <3>2. CASE p = op.i + 1
      <4>1. disk'[parts[f][p]] = Part(f, op.i + 1)
        BY <1>4, <3>1, <3>2
      <4>2. Part(f, op.i + 1).of = <<f, op.i + 1>>
        BY DEF Part
      <4> QED BY <3>2, <4>1, <4>2
    <3>3. CASE p # op.i + 1
      <4>1. p \in 1 .. op.i /\ op.i + 1 \in 1 .. op.i + 1
        BY <1>2, <3>3
      <4>2. parts[f][p] # op.cur /\ parts[f][p] \in Data
        <5>1. parts[f][p] # parts[f][op.i + 1]
          BY <1>1, <2>1, <3>1, <3>3, <4>1 DEF Intact
        <5>2. parts[f][p] \in Data
          BY <1>1, <2>1, <3>1, WholeParts
        <5> QED BY <3>1, <5>1, <5>2
      <4>3. disk[parts[f][p]].of = <<f, p>>
        BY <1>1, <1>2, <2>1, <4>1 DEF Written, Located
      <4> QED BY <1>4, <4>2, <4>3
    <3> QED BY <3>2, <3>3
  <2>2. Whole(op.file)' => Whole(op.file)
    BY <1>2 DEF Whole
  <2>3. parts'[op'.file] = parts[op.file] /\ 1 .. op'.i = 1 .. op.i + 1
    BY <1>2
  <2> QED BY <1>2, <2>1, <2>2, <2>3 DEF Written
<1>13. Buffered'
  BY <1>1, <1>2, <1>7 DEF Buffered, Located, Same, Unused
<1> QED BY <1>8, <1>9, <1>10, <1>11, <1>12, <1>13 DEF Sound

LEMMA Sound_put_entry ==
  ASSUME NEW D, Mounted(D), put_entry
  PROVE  EntryAfterData' /\ Sound(D)'
<1>1. /\ Typed /\ Writes /\ EntryAfterData /\ D \in SUBSET Entries
      /\ Chain(D) /\ Intact /\ Written /\ Buffered
  BY DEF Mounted, Sound
<1>2. /\ pc = "entry" /\ pc' \in {"ready", "walk"} /\ pc' # "data"
      /\ UNCHANGED <<FAT, parts, marked>>
  BY <1>1 DEF put_entry, history, Typed, Op
<1>3. Entered \in Slots /\ put_cluster(op.cluster, Directory(Entered))
  BY <1>1, EnteredSlots
<1>4. Directory(Entered) \in Content /\ Directory(Entered).slots = Entered
  BY <1>3, Contents DEF Directory
<1>5. \A d \in Data : disk'[d] = IF d = op.cluster THEN Directory(Entered) ELSE disk[d]
  BY <1>1, <1>3, <1>4, Put
<1>6. op.cluster \in D \cup {0}
  BY <1>1, <1>2 DEF Chain, Located
<1>7. ASSUME NEW f \in File, Whole(f), NEW p \in DOMAIN parts[f]
      PROVE  disk'[parts[f][p]] = disk[parts[f][p]]
  <2>1. parts[f][p] \in Data /\ parts[f][p] # 0 /\ parts[f][p] \in Clusters(f)
    BY <1>1, <1>7, WholeParts
  <2>2. parts[f][p] \notin D
    BY <1>1, <1>7, <2>1 DEF Chain
  <2> QED BY <1>5, <1>6, <2>1, <2>2
<1>8. EntryAfterData'
  <2>1. CASE op.cluster # Root
    <3>1. disk'[Root] = disk[Root]
      BY <1>5, <2>1, Ranges
    <3> QED BY <1>1, <1>2, <1>7, <3>1, ElsewhereEntries
  <2>2. CASE op.cluster = Root
    <3>1. disk'[Root].slots = Entered
      BY <1>4, <1>5, <2>2, Ranges
    <3>2. ASSUME NEW f \in File, Whole(f), NEW s \in Slot, Entered[s].file = f
          PROVE  /\ Entered[s].first = parts[f][1]
                 /\ \A p \in DOMAIN parts[f] : disk[parts[f][p]].of = <<f, p>>
      <4>1. CASE s = op.slot
        <5>1. Entered[s] = [file |-> op.file, first |-> op.first]
          BY <4>1 DEF Entered
        <5>2. f = op.file /\ Entered[s].first = op.first
          BY <3>2, <5>1
        <5>3. Len(parts[f]) = op.i /\ Head0(parts[f]) \in {0, op.first}
          BY <1>1, <1>2, <5>2 DEF Writes, Current, Writing, Located
        <5>4. /\ DOMAIN parts[f] = 1 .. op.i /\ Len(parts[f]) \in Nat \ {0}
              /\ \A p \in DOMAIN parts[f] : parts[f][p] # 0
          BY <1>1, <3>2, <5>3, WholeParts
        <5>5. parts[f] # <<>> /\ parts[f][1] # 0
          <6>1. 1 \in DOMAIN parts[f]
            BY <5>3, <5>4
          <6> QED BY <3>2, <5>4, <6>1 DEF Whole
        <5>6. op.first = parts[f][1]
          BY <5>3, <5>5 DEF Head0
        <5>7. \A p \in 1 .. op.i : disk[parts[f][p]].of = <<f, p>>
          BY <1>1, <1>2, <3>2, <5>2 DEF Written, Located
        <5> QED BY <5>2, <5>4, <5>6, <5>7
      <4>2. CASE s # op.slot
        <5>1. Entered[s] = op.buffer[s]
          BY <4>2 DEF Entered
        <5>2. f \in Names(op.buffer)
          BY <3>2, <5>1 DEF Names
        <5>3. op.buffer = disk[Root].slots
          BY <1>1, <1>2, <2>2, <5>2 DEF Buffered, Located, Same
        <5>4. s \in EntriesOf(f) /\ disk[Root].slots[s].first = Entered[s].first
          BY <3>2, <5>1, <5>3 DEF EntriesOf
        <5> QED BY <1>1, <1>2, <3>2, <5>4 DEF Mounted, Running, EntryAfterData
      <4> QED BY <4>1, <4>2
    <3>3. ASSUME NEW f \in File, Whole(f)', NEW s \in EntriesOf(f)'
          PROVE  /\ disk'[Root].slots[s].first = parts'[f][1]
                 /\ \A p \in DOMAIN parts'[f] : disk'[parts'[f][p]].of = <<f, p>>
      <4>1. Whole(f) /\ parts'[f] = parts[f]
        BY <1>2, <3>3, SameParts
      <4>2. s \in Slot /\ Entered[s].file = f
        BY <3>1, <3>3 DEF EntriesOf
      <4>3. /\ Entered[s].first = parts[f][1]
            /\ \A p \in DOMAIN parts[f] : disk[parts[f][p]].of = <<f, p>>
        BY <3>2, <4>1, <4>2
      <4>4. \A p \in DOMAIN parts[f] : disk'[parts[f][p]] = disk[parts[f][p]]
        BY <1>7, <4>1
      <4>5. \A p \in DOMAIN parts[f] : disk'[parts[f][p]].of = <<f, p>>
        BY <4>3, <4>4
      <4>6. disk'[Root].slots[s].first = parts[f][1]
        BY <3>1, <4>3
      <4> QED BY <1>2, <4>5, <4>6
    <3> QED BY <3>3 DEF EntryAfterData
  <2> QED BY <2>1, <2>2
<1>9. Intact'
  BY <1>1, <1>2, IntactKeeps
<1>10. Chain(D)'
  BY <1>1, <1>2, ChainKeeps DEF Located
<1>11. (InHand /\ Written /\ Buffered)'
  BY <1>2 DEF InHand, Written, Buffered, Located
<1> QED BY <1>8, <1>9, <1>10, <1>11 DEF Sound

\* A table whose root entry is marked: the root directory is one cluster.
LEMMA Sound_init_fs ==
  ASSUME Typed, init_fs
  PROVE  EntryAfterData' /\ (marked' => \E D \in SUBSET Entries : Sound(D)')
<1>1. \A f \in File : parts'[f] = <<>>
  BY DEF init_fs
<1>2. \A f \in File : ~Whole(f)'
  BY <1>1 DEF Whole
<1>3. EntryAfterData'
  BY <1>2 DEF EntryAfterData
<1>4. pc' = "ready"
  BY DEF init_fs
<1>5. ASSUME marked' PROVE Sound({Root})'
  <2>1. FAT'[Root] \in Entries \cup {OffDisk, EOC} /\ FAT'[Root] >= EOC
    BY <1>5, Typed_init_fs, Ranges DEF init_fs, Typed
  <2>2. FAT'[Root] = EOC
    <3>1. \A e \in Entries : ~(e >= EOC)
      BY Ranges
    <3> QED BY <2>1, <3>1, Ranges
  <2>3. Chain({Root})'
    BY <1>2, <1>4, <2>2, Ranges DEF Chain, Located
  <2>4. Intact'
    BY <1>2 DEF Intact
  <2>5. (InHand /\ Written /\ Buffered)'
    BY <1>4 DEF InHand, Written, Buffered, Located
  <2> QED BY <2>3, <2>4, <2>5 DEF Sound
<1>6. {Root} \in SUBSET Entries
  BY Ranges
<1> QED BY <1>3, <1>5, <1>6

\* Every step but that of init_fs and those that end the machine's run.
Goes == (caller /\ ~destroy_fs) \/ (write_steps /\ ~off_disk) \/ walk_on

LEMMA GoesOn ==
  ASSUME Goes
  PROVE  /\ pc \notin {"off"} \cup Stopped /\ marked' = marked
<1>1. CASE caller /\ ~destroy_fs
  BY <1>1 DEF caller, write_file, mkdir, write_file_fun, populate_dir, read_file, walk,
              history, Stopped
<1>2. CASE locate_entries \/ next_cluster \/ extend \/ extend_fails
  BY <1>2 DEF locate_entries, next_cluster, extend, extend_fails, history, Stopped
<1>3. CASE allocate_cluster \/ allocate_fails \/ put_data \/ put_entry \/ walk_on
  BY <1>3 DEF allocate_cluster, allocate_fails, put_data, put_entry, walk_on, history, Stopped,
              Walking
<1> QED BY <1>1, <1>2, <1>3 DEF Goes, write_steps

LEMMA Sound_caller ==
  ASSUME NEW D, Mounted(D), caller, ~destroy_fs
  PROVE  EntryAfterData' /\ Sound(D)'
<1>1. CASE write_file \/ mkdir
  BY <1>1, Sound_write_file_fun DEF write_file, mkdir
<1>2. CASE ~write_file /\ ~mkdir
  BY <1>2, Walked, Ready
<1> QED BY <1>1, <1>2

LEMMA SoundGoes ==
  ASSUME NEW D, Mounted(D), Goes
  PROVE  EntryAfterData' /\ \E E \in SUBSET Entries : Sound(E)'
<1>1. D \in SUBSET Entries
  BY DEF Mounted
<1>2. CASE extend
  BY <1>2, Sound_extend
<1>3. CASE walk_on
  BY <1>1, <1>3, Ready DEF walk_on, medium, history, Walking
<1>4. CASE (caller /\ ~destroy_fs) \/ locate_entries \/ next_cluster \/ extend_fails
  BY <1>1, <1>4, Sound_caller, Sound_locate_entries, Sound_next_cluster, Sound_extend_fails
<1>5. CASE allocate_cluster \/ allocate_fails \/ put_data \/ put_entry
  BY <1>1, <1>5, Sound_allocate_cluster, Sound_allocate_fails, Sound_put_data, Sound_put_entry
<1> QED BY <1>2, <1>3, <1>4, <1>5 DEF Goes, write_steps

LEMMA Steps ==
  ASSUME Typed, [Next]_vars
  PROVE  \/ init_fs \/ init_fs_fails \/ Goes \/ UNCHANGED vars
         \/ \E how \in {"off"} \cup Stopped : Ends(how)
BY Ended DEF Next, Goes, write_steps

LEMMA SoundStutters ==
  ASSUME NEW D, Sound(D), UNCHANGED vars
  PROVE  Sound(D)'
<1>1. UNCHANGED <<disk, FAT, pc, op, parts>>
  BY DEF vars, medium, history
<1>2. \A f \in File : (Whole(f)' <=> Whole(f)) /\ Clusters(f)' = Clusters(f)
  BY <1>1, SameParts
<1>3. Chain(D)'
  BY <1>1, <1>2 DEF Sound, Chain
<1>4. Intact'
  <2>1. \A f \in File : \A p : Follows(f, p)' = Follows(f, p)
    BY <1>1 DEF Follows
  <2> QED BY <1>1, <1>2, <2>1 DEF Sound, Intact
<1>5. InHand'
  <2>1. \A c : Ending(c)' <=> Ending(c)
    BY <1>1, <1>2 DEF Ending
  <2> QED BY <1>1, <2>1 DEF Sound, InHand, Ending
<1>6. Written'
  BY <1>1 DEF Sound, Written, Whole
<1>7. Buffered'
  BY <1>1 DEF Sound, Buffered, Same, Unused
<1> QED BY <1>3, <1>4, <1>5, <1>6, <1>7 DEF Sound

LEMMA IInvInit == Init => IInv
<1> SUFFICES ASSUME Init PROVE IInv
  OBVIOUS
<1>1. Typed /\ Writes
  BY TypedInit, WritesInit
<1>2. marked = FALSE
  BY DEF Init
<1> QED BY <1>1, <1>2 DEF IInv, EntryAfterData, Running

LEMMA IInvNext == IInv /\ [Next]_vars => IInv'
<1> SUFFICES ASSUME IInv, [Next]_vars PROVE IInv'
  OBVIOUS
<1>1. Typed /\ Writes /\ EntryAfterData
  BY DEF IInv
<1>2. Typed' /\ Writes'
  BY <1>1, TypedNext, WritesNext
<1>3. EntryAfterData' /\ (Running' => \E D \in SUBSET Entries : Sound(D)')
  <2>1. CASE init_fs
    BY <1>1, <2>1, Sound_init_fs DEF Running
  <2>2. CASE init_fs_fails \/ \E how \in {"off"} \cup Stopped : Ends(how)
    <3>1. pc' \in {"off"} \cup Stopped /\ UNCHANGED <<disk, parts, marked>>
      BY <2>2 DEF init_fs_fails, Ends, medium, history, Stopped
    <3>2. EntryAfterData'
      BY <1>1, <3>1, EntriesKeep
    <3> QED BY <3>1, <3>2 DEF Running
  <2>3. CASE UNCHANGED vars
    <3>1. UNCHANGED <<disk, parts, marked, pc>>
      BY <2>3 DEF vars, medium, history
    <3>2. EntryAfterData'
      BY <1>1, <3>1, EntriesKeep
    <3>3. Running' => Running
      BY <3>1 DEF Running
    <3> QED BY <2>3, <3>2, <3>3, SoundStutters DEF IInv
  <2>4. CASE Goes /\ marked
    <3>1. Running
      BY <2>4, GoesOn DEF Running
    <3>2. PICK D \in SUBSET Entries : Sound(D)
      BY <3>1 DEF IInv
    <3>3. Mounted(D)
      BY <1>1, <3>1, <3>2 DEF Mounted
    <3> QED BY <2>4, <3>3, SoundGoes
  <2>5. CASE Goes /\ ~marked
    <3>1. ~marked'
      BY <2>5, GoesOn
    <3> QED BY <3>1 DEF EntryAfterData, Running
  <2> QED BY <1>1, <2>1, <2>2, <2>3, <2>4, <2>5, Steps
<1>4. Running' => \E D \in SUBSET Entries : Sound(D)'
  BY <1>3
<1> QED BY <1>2, <1>3, <1>4 DEF IInv

-----------------------------------------------------------------------------
(***************************************************************************)
(* What the volume promises.                                               *)
(***************************************************************************)
\* Whenever the machine stops, an entry on the disk that a mount with a marked root has
\* written for a whole file has its data there.
THEOREM EntriesFollowData == Spec => []EntryAfterData
<1>1. IInv => EntryAfterData
  BY DEF IInv
<1> QED BY <1>1, IInvInit, IInvNext, PTL DEF Spec

\* While the root is marked the clusters of a whole file are one chain in memory, which it
\* shares with none.
THEOREM ChainsStayLinked == Spec => []Linked
<1>1. IInv => Linked
  <2> SUFFICES ASSUME IInv, pc \notin {"off", "data"} \cup Stopped, marked PROVE Linked
    BY DEF Linked
  <2>1. Typed /\ Intact /\ pc # "data"
    BY DEF IInv, Running, Sound
  <2>2. ASSUME NEW f \in File, Whole(f), NEW p \in DOMAIN parts[f]
        PROVE  FAT[parts[f][p]] = IF p < Len(parts[f]) THEN parts[f][p + 1] ELSE EOC
    <3>1. FAT[parts[f][p]] = Follows(f, p)
      BY <2>1, <2>2 DEF Intact
    <3> QED BY <2>1, <3>1 DEF Follows
  <2>3. ASSUME NEW f \in File, Whole(f), NEW g \in File, Whole(g),
               NEW p \in DOMAIN parts[f], NEW q \in DOMAIN parts[g],
               parts[f][p] = parts[g][q]
        PROVE  f = g /\ p = q
    BY <2>1, <2>3 DEF Intact
  <2> QED BY <2>2, <2>3 DEF Linked
<1> QED BY <1>1, IInvInit, IInvNext, PTL DEF Spec

\* A file is refused a cluster when no entry of the table is free.
THEOREM SearchIsComplete == Spec => NoSpace
<1>1. Typed /\ [Next]_vars =>
        [pc = "alloc" /\ op'.cur = 0 /\ pc' = "data"
           => count_free_clusters = 0 \/ FAT[0] = 0]_vars
  <2> SUFFICES ASSUME Typed, [Next]_vars, pc = "alloc", op'.cur = 0, pc' = "data"
               PROVE  count_free_clusters = 0 \/ FAT[0] = 0
    OBVIOUS
  <2>1. allocate_cluster \/ allocate_fails
    <3>1. ~init_fs /\ ~init_fs_fails /\ ~UNCHANGED vars /\ ~walk_on
      BY DEF init_fs, init_fs_fails, walk_on, vars, Walking
    <3>2. ~(caller /\ ~destroy_fs)
      BY DEF caller, write_file, mkdir, write_file_fun, populate_dir, read_file, walk
    <3>3. ~locate_entries /\ ~next_cluster /\ ~extend /\ ~extend_fails
      BY DEF locate_entries, next_cluster, extend, extend_fails
    <3>4. ~put_data /\ ~put_entry
      BY DEF put_data, put_entry
    <3>5. ~\E how \in {"off"} \cup Stopped : Ends(how)
      BY DEF Ends, Stopped
    <3> QED BY <3>1, <3>2, <3>3, <3>4, <3>5, Steps DEF Goes, write_steps
  <2>2. CASE allocate_cluster
    <3>1. PICK c \in FreeCluster : op' = [op EXCEPT !.cur = c, !.first = IF @ = 0 THEN c ELSE @]
      BY <2>2 DEF allocate_cluster, Given
    <3>2. op'.cur = c
      BY <3>1 DEF Typed, Op
    <3> QED BY <3>1, <3>2, Found
  <2>3. CASE allocate_fails
    <3>1. FreeIn(0, ints_per_fat - 1) = {}
      BY <2>3, Found DEF allocate_fails
    <3> QED BY <3>1, FS_EmptySet DEF count_free_clusters
  <2> QED BY <2>1, <2>2, <2>3
<1> QED BY <1>1, TypedInit, TypedNext, PTL DEF Spec, NoSpace

\* Only put_entry writes to the root directory.
LEMMA RootKept ==
  ASSUME NEW D, Mounted(D), Goes, ~put_entry
  PROVE  disk'[Root] = disk[Root]
<1>1. Typed
  BY DEF Mounted
<1>2. CASE extend \/ allocate_cluster
  <2>1. PICK c \in FreeCluster : put_cluster(c, Directory(Empty))
    BY <1>2 DEF extend, allocate_cluster
  <2>2. c \in Entries /\ FAT[c] = 0
    BY <1>1, Found
  <2>3. c # Root
    BY <2>2, InUse
  <2> QED BY <1>1, <2>1, <2>3, Blank, NotRoot
<1>3. CASE put_data
  <2>1. pc = "data"
    BY <1>3 DEF put_data
  <2>2. op.cur # Root
    BY <2>1 DEF Mounted, Sound, Chain
  <2>3. Part(op.file, op.i + 1) \in Content /\ put_cluster(op.cur, Part(op.file, op.i + 1))
    BY <1>1, <1>3, PartContent DEF put_data
  <2> QED BY <1>1, <2>2, <2>3, NotRoot
<1>4. CASE caller /\ ~destroy_fs
  BY <1>4 DEF caller, write_file, mkdir, write_file_fun, populate_dir, read_file, walk, medium
<1>5. CASE locate_entries \/ next_cluster \/ extend_fails \/ allocate_fails \/ walk_on
  BY <1>5 DEF locate_entries, next_cluster, extend_fails, allocate_fails, walk_on, medium
<1> QED BY <1>2, <1>3, <1>4, <1>5 DEF Goes, write_steps

LEMMA EntryReplaced ==
  ASSUME NEW D, Mounted(D), put_entry, NEW s \in Slot,
         disk[Root].slots[s].file # 0, disk'[Root].slots[s] # disk[Root].slots[s]
  PROVE  Pairs(disk[Root].slots) = {} /\ s = 0
<1>1. Typed /\ Buffered
  BY DEF Mounted, Sound
<1>2. Entered \in Slots /\ put_cluster(op.cluster, Directory(Entered))
  BY <1>1, EnteredSlots
<1>3. Directory(Entered) \in Content /\ Directory(Entered).slots = Entered
  BY <1>2, Contents DEF Directory
<1>4. op.cluster = Root
  BY <1>1, <1>2, <1>3, NotRoot
<1>5. disk'[Root].slots[s] = Entered[s]
  BY <1>1, <1>2, <1>3, <1>4, Put, Ranges
<1>6. Same(op.buffer) /\ Unused(op.buffer, op.slot)
  BY <1>1, <1>4 DEF put_entry, Buffered, Located
<1>7. disk[Root].slots # Empty
  BY DEF Empty, Free
<1>8. op.buffer = disk[Root].slots
  BY <1>6, <1>7 DEF Same
<1>9. s = op.slot
  BY <1>5, <1>8 DEF Entered
<1> QED BY <1>6, <1>8, <1>9 DEF Unused

\* While the root is marked, an entry of it is replaced only when it has no room for
\* another, and only the first one (fat.c:563).
THEOREM EntriesStay == Spec => EntriesKept
<1>1. IInv /\ [Next]_vars =>
        [marked => \A s \in Slot :
           disk[Root].slots[s].file # 0 /\ disk'[Root].slots[s] # disk[Root].slots[s]
             => Pairs(disk[Root].slots) = {} /\ s = 0]_vars
  <2> SUFFICES ASSUME IInv, [Next]_vars, marked, NEW s \in Slot,
                      disk[Root].slots[s].file # 0,
                      disk'[Root].slots[s] # disk[Root].slots[s]
               PROVE  Pairs(disk[Root].slots) = {} /\ s = 0
    OBVIOUS
  <2>1. Goes
    <3>1. ~init_fs /\ ~init_fs_fails /\ ~UNCHANGED vars
      BY DEF init_fs, init_fs_fails, vars, medium
    <3>2. ~\E how \in {"off"} \cup Stopped : Ends(how)
      BY DEF Ends, medium
    <3> QED BY <3>1, <3>2, Steps DEF IInv
  <2>2. Running
    BY <2>1, GoesOn DEF Running
  <2>3. PICK D \in SUBSET Entries : Mounted(D)
    BY <2>2 DEF IInv, Mounted
  <2>4. put_entry
    BY <2>1, <2>3, RootKept
  <2> QED BY <2>3, <2>4, EntryReplaced
<1> QED BY <1>1, IInvInit, IInvNext, PTL DEF Spec, EntriesKept

=============================================================================
