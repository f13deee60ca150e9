-------------------------------- MODULE Fat --------------------------------
(***************************************************************************)
(* fat.c and the sector writes of ata_pio.c: the file allocation table in  *)
(* memory, the clusters of the disk, and the functions of fat.h that a     *)
(* kernel that mounts a volume calls.  Every disk access is a step; the    *)
(* disk may report an error and the machine may stop between any two.      *)
(*                                                                         *)
(* init_fs reads sector s of the table into FAT[j * 128 + j], for every s: *)
(* the entries of the last sector end up on the diagonal, and the rest of  *)
(* the table is what kmalloc's block held before.  The table is never      *)
(* written to the disk.                                                    *)
(*                                                                         *)
(* A cluster is one sector: with more of them ata_pio_read48 advances its  *)
(* buffer by half a sector, which is left out.  Clusters 0 and 1 lie in    *)
(* front of the data area, on the last sectors of the table.  A name is    *)
(* the number of its file; what a directory entry says besides its first   *)
(* cluster, and the memory it is read into, are left out.                  *)
(***************************************************************************)
EXTENDS Integers, Sequences, FiniteSets, FiniteSetsExt

CONSTANTS
  EntriesPerSector,   \* 512 / 4
  SectorsPerFat,
  LastCluster,        \* the last cluster that the disk has
  DirsPerCluster,     \* cluster_size / 32
  Leftover,           \* values that memory may hold where init_fs reads nothing (none
                      \* of them above 0x0FFFFFFF, which would differ from EOC only in
                      \* the 24 bits that get_next_cluster_id takes of it)
  Roots,              \* root directories at first: the slots taken
  FatsOnDisk,         \* tables at first: the clusters not free
  MaxFiles, MaxLength, MaxMounts    \* bounds: files written, their clusters, mounts

ints_per_fat == EntriesPerSector * SectorsPerFat
Entries == 0 .. ints_per_fat - 1
EOC == ints_per_fat + 1     \* stands for 0x0FFFFFF8 to 0x0FFFFFFF
OffDisk == ints_per_fat     \* any other number beyond the table, such as the 24 bits of EOC
Data == 2 .. LastCluster
Root == 2

ASSUME FatConstants ==
  /\ EntriesPerSector \in Nat \ {0}
  /\ SectorsPerFat \in Nat /\ SectorsPerFat >= EntriesPerSector
  /\ LastCluster \in Entries /\ LastCluster > 2
  /\ DirsPerCluster \in Nat /\ DirsPerCluster > 1
  /\ Leftover \subseteq Entries \cup {OffDisk, EOC}
  /\ Roots \subseteq SUBSET (0 .. DirsPerCluster - 1)
  /\ FatsOnDisk \subseteq SUBSET Entries
  /\ {MaxFiles, MaxLength, MaxMounts} \subseteq Nat \ {0}

File == 1 .. MaxFiles
Old == MaxFiles + 1       \* any file or directory that was there at first
Slot == 0 .. DirsPerCluster - 1

\* A directory entry: the file, 0 when the slot is free, and its first cluster.
Free == [file |-> 0, first |-> 0]
Taken == [file |-> Old, first |-> 0]
Empty == [s \in Slot |-> Free]

\* What a cluster holds: part p of file f, or a directory (part 0 of file 0).
Directory(slots) == [of |-> <<0, 0>>, slots |-> slots]
Part(f, p) == [of |-> <<f, p>>, slots |-> Empty]

VARIABLES
  disk,       \* its data area: the content of each cluster
  table,      \* its table: the clusters that are not free
  spoilt,     \* its table has been overwritten with data
  FAT, hint,  \* the table in memory, cluster_alloc_hint
  pc, op,     \* the call under way, and its variables
  mounts, next,   \* mounts, files written so far
  parts,      \* history: the clusters allocated for each file of this mount
  marked      \* history: after init_fs the root was a chain of one cluster

medium == <<disk, table, spoilt>>
history == <<mounts, next, parts, marked>>
vars == <<medium, FAT, hint, pc, op, history>>

\* write_file_fun's variables: the file, the clusters it requires, the directory
\* cluster, root_cluster, locate_entries' index, the slot of the entry, the current,
\* the previous and the first cluster, how many are written, and what comes then.
NoSlot == -1
NoOp == [file |-> 0, need |-> 0, cluster |-> Root, buffer |-> Empty, index |-> -1,
         slot |-> NoSlot, cur |-> 0, prev |-> 0, first |-> 0, i |-> 0, then |-> "ready"]

Writing == {"locate", "extend", "alloc", "data", "entry"}
Walking == {"walk", "read"}
Stopped == {"panic", "hang", "wild"}

TypeOK ==
  /\ \A c \in Data : disk[c].slots \in [Slot -> [file : 0 .. Old, first : Entries]]
  /\ table \subseteq Entries /\ spoilt \in BOOLEAN
  /\ FAT \in [Entries -> Entries \cup {OffDisk, EOC}]
  /\ hint \in 0 .. ints_per_fat
  /\ pc \in {"off", "ready"} \cup Writing \cup Walking \cup Stopped
  /\ op.index \in Slot \cup {-1} /\ op.slot \in Slot \cup {NoSlot}
  /\ {op.cur, op.prev, op.first} \subseteq Entries
  /\ op.i \in 0 .. op.need
  /\ mounts \in 0 .. MaxMounts /\ next \in 0 .. MaxFiles
  /\ parts \in [File -> Seq(Entries)] /\ marked \in BOOLEAN

Unset == [e \in Entries |-> 0]

Init ==
  /\ \E root \in Roots :
       disk = [c \in Data |->
                 IF c = Root THEN Directory([s \in Slot |-> IF s \in root THEN Taken ELSE Free])
                             ELSE Part(Old, c)]
  /\ table \in FatsOnDisk /\ spoilt = FALSE
  /\ FAT = Unset /\ hint = 0
  /\ pc = "off" /\ op = NoOp
  /\ mounts = 0 /\ next = 0
  /\ parts = [f \in File |-> <<>>] /\ marked = FALSE

-----------------------------------------------------------------------------
(***************************************************************************)
(* Mounting, and everything that ends it.                                  *)
(***************************************************************************)
\* The entry init_fs leaves at FAT[j * EntriesPerSector + j]: the last sector's j-th.
Diagonal(j) == j * EntriesPerSector + j
LastRead(j) == (SectorsPerFat - 1) * EntriesPerSector + j
OnDisk(e) == IF e \in table THEN EOC ELSE 0

Loaded(fat) ==
  \A j \in 0 .. EntriesPerSector - 1 :
    IF spoilt THEN fat[Diagonal(j)] \in Leftover ELSE fat[Diagonal(j)] = OnDisk(LastRead(j))

NotLoaded == Entries \ {Diagonal(j) : j \in 0 .. EntriesPerSector - 1}

init_fs ==
  /\ pc = "off" /\ mounts < MaxMounts
  /\ FAT' \in [Entries -> Leftover \cup {0, EOC}]
  /\ Loaded(FAT') /\ \A e \in NotLoaded : FAT'[e] \in Leftover
  /\ hint' = 0
  /\ pc' = "ready" /\ op' = NoOp
  /\ mounts' = mounts + 1
  /\ parts' = [f \in File |-> <<>>] /\ marked' = (FAT'[Root] >= EOC)
  /\ UNCHANGED <<medium, next>>

\* There is no drive, or no answer from it; or its volume is not FAT32, and the
\* caller gets a structure that has been freed, which is not followed further.
init_fs_fails ==
  /\ pc = "off" /\ mounts < MaxMounts
  /\ pc' \in {"off", "hang", "wild"}
  /\ mounts' = mounts + 1
  /\ UNCHANGED <<medium, FAT, hint, op, next, parts, marked>>

\* Nothing uses the memory of a machine that does not go on.
Ends(how) ==
  /\ pc' = how
  /\ FAT' = Unset /\ hint' = 0 /\ op' = NoOp
  /\ UNCHANGED <<medium, history>>

destroy_fs == pc = "ready" /\ Ends("off")

\* The machine is switched off or reset; a panic and a hang end no other way.
restart == pc # "off" /\ Ends("off")

-----------------------------------------------------------------------------
(***************************************************************************)
(* The disk.  ata_pio_write48 panics on an error, also that of a sector    *)
(* the disk does not have; ata_pio_read48 only waits for data.             *)
(***************************************************************************)
put_cluster(c, content) ==
  IF c \in Data THEN disk' = [disk EXCEPT ![c] = content] /\ UNCHANGED <<table, spoilt>>
                ELSE spoilt' = TRUE /\ UNCHANGED <<disk, table>>

Writable(c) == c <= LastCluster

\* What a cluster may look like to one that takes it for a directory: data looks
\* like anything.
get_directory(c) ==
  IF c \in Data /\ disk[c].of[1] = 0 THEN {disk[c].slots} ELSE [Slot -> {Free, Taken}]

-----------------------------------------------------------------------------
(***************************************************************************)
(* allocate_cluster: the first free entry from the hint on, then before    *)
(* it.  A cluster found is marked, cleared on the disk, and returned.      *)
(***************************************************************************)
FreeIn(from, to) == {i \in from .. to : FAT[i] = 0}

Ahead == FreeIn(hint, ints_per_fat - 1)
Behind == FreeIn(0, hint - 1)

\* Slip: the entries in front of the hint are not searched.
FreeCluster_NoWrap == {i \in Ahead : i = Min(Ahead)}

FreeCluster == {i \in Ahead : i = Min(Ahead)} \cup {i \in Behind : Ahead = {} /\ i = Min(Behind)}

\* Slip: the cluster is not marked.
Marked_Not(fat, c) == fat

Marked(fat, c) == [fat EXCEPT ![c] = EOC]

count_free_clusters == Cardinality(FreeIn(0, ints_per_fat - 1))

-----------------------------------------------------------------------------
(***************************************************************************)
(* The calls.  write_file writes at least one cluster; mkdir writes one    *)
(* and then reads the directory it is in.                                  *)
(***************************************************************************)
write_file_fun(length, then) ==
  /\ pc = "ready" /\ next < MaxFiles
  /\ next' = next + 1
  /\ op' = [NoOp EXCEPT !.file = next + 1, !.need = length, !.then = then]
  /\ pc' = "locate"
  /\ UNCHANGED <<medium, FAT, hint, mounts, parts, marked>>

write_file == \E length \in 1 .. MaxLength : write_file_fun(length, "ready")
mkdir == write_file_fun(1, "walk")

(***************************************************************************)
(* locate_entries wants two free slots in a row.  if(index) takes -1, no   *)
(* such slots, for found, and 0, the first two slots, for not found; the 0 *)
(* stays when the next cluster has none.  The entry then goes to the second*)
(* slot: the first one of a full directory.                                *)
(***************************************************************************)
Pairs(slots) == {s \in Slot : s + 1 \in Slot /\ slots[s].file = 0 /\ slots[s + 1].file = 0}

\* Slip: the index is that of the pair's second slot.
Index_Second(slots) == IF Pairs(slots) = {} THEN op.index ELSE Min(Pairs(slots)) + 1

Index(slots) == IF Pairs(slots) = {} THEN op.index ELSE Min(Pairs(slots))

locate_entries ==
  /\ pc = "locate" /\ Writable(op.cluster)
  /\ \E slots \in get_directory(op.cluster) :
       IF Index(slots) # 0
       THEN /\ op' = [op EXCEPT !.buffer = slots, !.slot = Index(slots) + 1]
            /\ pc' = "alloc"
       ELSE /\ op' = [op EXCEPT !.buffer = slots, !.index = 0]
            /\ pc' = "extend"
  /\ UNCHANGED <<medium, FAT, hint, history>>

\* The chain goes on.
next_cluster ==
  /\ pc = "extend" /\ FAT[op.cluster] < EOC
  /\ op' = [op EXCEPT !.cluster = FAT[op.cluster]]
  /\ pc' = "locate"
  /\ UNCHANGED <<medium, FAT, hint, history>>

\* It ends: a cluster is added.
extend ==
  /\ pc = "extend" /\ FAT[op.cluster] >= EOC
  /\ \E c \in FreeCluster :
       /\ Writable(c) /\ c # 0
       /\ put_cluster(c, Directory(Empty))
       /\ FAT' = [Marked(FAT, c) EXCEPT ![op.cluster] = c]
       /\ hint' = c + 1
       /\ op' = [op EXCEPT !.cluster = c]
  /\ pc' = "locate"
  /\ UNCHANGED history

\* It returns NULL: there is no slot, and found_cluster keeps its 0.
extend_fails ==
  /\ pc = "extend" /\ FAT[op.cluster] >= EOC /\ FreeCluster \subseteq {0}
  /\ FAT' = [e \in Entries |-> IF e \in FreeCluster THEN EOC ELSE FAT[e]]
  /\ hint' = IF FreeCluster = {} THEN hint ELSE 1
  /\ spoilt' = (spoilt \/ FreeCluster # {})
  /\ op' = [op EXCEPT !.cluster = 0, !.slot = NoSlot]
  /\ pc' = "alloc"
  /\ UNCHANGED <<disk, table, history>>

(***************************************************************************)
(* The clusters of the file, one by one: allocated and cleared, written,   *)
(* and linked to the one before.  When none is free, allocate_cluster      *)
(* returns 0, and cluster 0 is written and linked to.                      *)
(***************************************************************************)
Given(c) == /\ op' = [op EXCEPT !.cur = c, !.first = IF @ = 0 THEN c ELSE @]
            /\ parts' = [parts EXCEPT ![op.file] = Append(@, c)]
            /\ pc' = "data"

allocate_cluster ==
  /\ pc = "alloc"
  /\ \E c \in FreeCluster :
       /\ Writable(c)
       /\ put_cluster(c, Directory(Empty))
       /\ FAT' = Marked(FAT, c)
       /\ hint' = c + 1
       /\ Given(c)
  /\ UNCHANGED <<mounts, next, marked>>

allocate_fails ==
  /\ pc = "alloc" /\ FreeCluster = {}
  /\ Given(0)
  /\ UNCHANGED <<medium, FAT, hint, mounts, next, marked>>

\* Slip: the clusters of a file are not linked.
Linking_Not(c) == FAT

Linking(c) == IF op.prev = 0 THEN FAT ELSE [FAT EXCEPT ![op.prev] = c]

put_data ==
  /\ pc = "data"
  /\ put_cluster(op.cur, Part(op.file, op.i + 1))
  /\ FAT' = Linking(op.cur)
  /\ op' = [op EXCEPT !.prev = op.cur, !.i = @ + 1]
  /\ pc' = IF op.i + 1 = op.need THEN "entry" ELSE "alloc"
  /\ UNCHANGED <<hint, history>>

\* The directory cluster is written last.
put_entry ==
  /\ pc = "entry"
  /\ put_cluster(op.cluster,
       Directory([s \in Slot |-> IF s = op.slot THEN [file |-> op.file, first |-> op.first]
                                                ELSE op.buffer[s]]))
  /\ pc' = op.then
  /\ op' = NoOp
  /\ UNCHANGED <<FAT, hint, history>>

\* The drive reports an error.
write_error ==
  /\ \/ pc \in {"data", "entry"}
     \/ pc = "alloc" /\ FreeCluster # {}
     \/ pc = "extend" /\ FAT[op.cluster] >= EOC /\ FreeCluster # {}
  /\ Ends("panic")

\* A cluster that is not on the disk: a write panics, a read waits for ever.
off_disk ==
  \/ /\ pc \in {"locate"} \cup Walking /\ ~Writable(op.cluster)
     /\ Ends("hang")
  \/ /\ pc \in {"extend", "alloc"} /\ \E c \in FreeCluster : ~Writable(c)
     /\ pc = "extend" => FAT[op.cluster] >= EOC
     /\ Ends("panic")

-----------------------------------------------------------------------------
(***************************************************************************)
(* populate_dir and read_file follow a chain with get_next_cluster_id,     *)
(* which masks the entry to 24 bits: no end of a chain is ever seen, and   *)
(* the walk runs off the disk or in a circle.  populate_dir also stops at  *)
(* a long name that fills all of the next cluster.                         *)
(***************************************************************************)
get_next_cluster_id(c) ==
  CASE FAT[c] \in Entries -> {FAT[c]}
    [] FAT[c] = EOC -> {OffDisk}
    [] FAT[c] = OffDisk -> Entries \cup {OffDisk}

walk(how, from) ==
  /\ pc = "ready" /\ pc' = how
  /\ op' = [NoOp EXCEPT !.cluster = from]
  /\ UNCHANGED <<medium, FAT, hint, history>>

populate_dir == walk("walk", Root)
read_file == \E s \in Slot :
  disk[Root].slots[s].file \in File /\ walk("read", disk[Root].slots[s].first)

walk_on ==
  /\ pc \in Walking /\ Writable(op.cluster)
  /\ \E c \in get_next_cluster_id(op.cluster) : op' = [op EXCEPT !.cluster = c]
  /\ UNCHANGED <<medium, FAT, hint, pc, history>>

\* A slot that was taken at first may be part of a long name.
bad_entry ==
  /\ pc = "walk" /\ Writable(op.cluster)
  /\ \E slots \in get_directory(op.cluster) : slots[DirsPerCluster - 1] = Taken
  /\ \E c \in get_next_cluster_id(op.cluster) :
       Writable(c) /\ \E slots \in get_directory(c) : \A s \in Slot : slots[s] = Taken
  /\ Ends("panic")

caller == write_file \/ mkdir \/ populate_dir \/ read_file \/ destroy_fs

write_steps ==
  \/ locate_entries \/ next_cluster \/ extend \/ extend_fails
  \/ allocate_cluster \/ allocate_fails \/ put_data \/ put_entry \/ off_disk

Next ==
  \/ init_fs \/ init_fs_fails \/ caller \/ write_steps
  \/ walk_on \/ bad_entry \/ write_error \/ restart

\* A call that is under way goes on; nobody has to make one, and nothing has to fail.
Spec == Init /\ [][Next]_vars /\ WF_vars(write_steps)

-----------------------------------------------------------------------------
(***************************************************************************)
(* A file is whole when the allocator gave it clusters of the data area    *)
(* only: neither one in front of it, nor the 0 of a full volume.           *)
(*                                                                         *)
(* init_fs loads the diagonal of the table only, so that the root may look *)
(* free, or part of a chain, whatever the disk says: then nothing is       *)
(* promised.  The properties guarded by marked are about the other mounts, *)
(* those after which the table holds the root as a chain of one cluster.   *)
(***************************************************************************)
Whole(f) == parts[f] # <<>> /\ \A p \in DOMAIN parts[f] : parts[f][p] \in Data

EntriesOf(f) == {s \in Slot : disk[Root].slots[s].file = f}

(***************************************************************************)
(* No entry reaches the disk before the data it stands for, whenever the   *)
(* machine stops: an entry of a whole file leads to the first cluster of   *)
(* it, and each of its clusters holds its part and is not given away to    *)
(* another file later in this mount, also when others meet a full volume,  *)
(* provided that the mount found the root marked.                          *)
(***************************************************************************)
EntryAfterData ==
  marked => \A f \in File : Whole(f) =>
    \A s \in EntriesOf(f) :
      /\ disk[Root].slots[s].first = parts[f][1]
      /\ \A p \in DOMAIN parts[f] : disk[parts[f][p]].of = <<f, p>>

(***************************************************************************)
(* In memory the clusters of a whole file are one chain, in the order of   *)
(* its parts, and no cluster is in two places, however often the volume    *)
(* was full meanwhile: so list_directory counts its clusters and no others.*)
(* The mount has found the root marked, and no cluster is being linked.    *)
(* (The entries of a damaged file promise nothing: linking to cluster 0    *)
(* frees its last cluster, and the chain goes on leading there when that   *)
(* cluster is another file's.)                                             *)
(***************************************************************************)
Linked ==
  pc \notin {"off", "data"} \cup Stopped /\ marked => \A f \in File : Whole(f) =>
    /\ \A p \in DOMAIN parts[f] :
         FAT[parts[f][p]] = IF p < Len(parts[f]) THEN parts[f][p + 1] ELSE EOC
    /\ \A g \in File : Whole(g) => \A p \in DOMAIN parts[f], q \in DOMAIN parts[g] :
         parts[f][p] = parts[g][q] => f = g /\ p = q

(***************************************************************************)
(* A file is only ever refused a cluster when count_free_clusters counts   *)
(* none: wherever the hint is, the whole table is searched.  (A table with *)
(* a free entry 0 has that one given away, with the same result.)          *)
(***************************************************************************)
NoSpace ==
  [][pc = "alloc" /\ op'.cur = 0 /\ pc' = "data"
       => count_free_clusters = 0 \/ FAT[0] = 0]_vars

(***************************************************************************)
(* In a mount that found the root marked, an entry of the root directory   *)
(* is overwritten only when no two slots in a row are free there, and then *)
(* only the one in the first slot (fat.c:563): no entry is lost to a root  *)
(* with room, though it is written back from a buffer that was read before *)
(* the data was written.  NoEntryLost says so of a full root too.          *)
(***************************************************************************)
EntriesKept ==
  [][marked => \A s \in Slot :
       disk[Root].slots[s].file # 0 /\ disk'[Root].slots[s] # disk[Root].slots[s]
         => Pairs(disk[Root].slots) = {} /\ s = 0]_vars

(***************************************************************************)
(* In a mount that found the root marked, a write comes to its end or to a *)
(* panic, and does not wait for a cluster that the disk does not have: the *)
(* directory's chain never leads into a circle, and it is extended only    *)
(* while there are free clusters.  (Where the root looks free, and its     *)
(* entry is 0, locate_entries may go round cluster 0 for ever.)            *)
(***************************************************************************)
Finishes == pc \in Writing /\ marked ~> pc \notin Writing \cup {"hang"}

-----------------------------------------------------------------------------
(***************************************************************************)
(* fat.c:564 "found": the slots that a write takes were found free, so     *)
(* that no entry of the root is ever lost to another.  The code does not   *)
(* see to it: a directory without room gives index -1, which if(index)     *)
(* takes for found.                                                        *)
(***************************************************************************)
NoEntryLost ==
  [][marked => \A s \in Slot :
       disk[Root].slots[s].file # 0 => disk'[Root].slots[s] = disk[Root].slots[s]]_vars
=============================================================================
