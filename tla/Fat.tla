-------------------------------- MODULE Fat --------------------------------
(***************************************************************************)
(* The FAT16 reader (src/fs/fat.c), which task_hd runs while it handles    *)
(* DEV_OPEN: read_vbr_16 reads the table and the root directory into       *)
(* memory, read_file looks a path up there and reads a piece of the file   *)
(* cluster by cluster.                                                     *)
(*                                                                         *)
(* A byte of the disk is its place <<cluster, index>>, so a result shows   *)
(* where every byte came from.  The disk is chosen at the start and holds  *)
(* a proper file system; the driver under hd_read_bytes is HdDriver.       *)
(***************************************************************************)
EXTENDS Integers, Sequences, SequencesExt

CONSTANTS
  ONE_CLUSTER_BYTES,
  Cluster,           \* the clusters of the data area: 2, 3, ...
  PerSector,         \* directory entries in a sector: SECTOR_SIZE / ENTRY_SIZE
  RootSlots,         \* directory entries in the root directory
  MAX_ENTRIES,       \* the array fs_dir_entrys: 128
  PartStart,         \* the sectors at which a first partition may begin
  MaxSize            \* bound: the size of the file in bytes

EOC == 65528    \* 0xFFF8: the end of a chain
partition_offest_sectors == 1    \* where read_fat takes the partition to begin

ASSUME FatAssumption ==
  /\ ONE_CLUSTER_BYTES \in Nat \ {0} /\ \A c \in Cluster : c \in Nat /\ 2 <= c /\ c < EOC
  /\ PerSector \in Nat \ {0} /\ RootSlots \in Nat /\ MAX_ENTRIES \in Nat
  /\ PartStart \subseteq Nat /\ MaxSize \in Nat

\* What a slot of a directory holds: the end mark (first byte 0), a deleted
\* entry (0xE5), two files, a directory, or a part of a long name, which
\* check_dir_valid takes for a file.
Slot == {"end", "deleted", "A.TXT", "B.TXT", "DIR", "lfn"}

VARIABLES
  part_start_sec,   \* where the first partition begins
  root,        \* the slots of the root directory on disk
  fat,         \* the file allocation table: A.TXT has a chain, the rest is free
  file_size,   \* the size of A.TXT
  chain,       \* the clusters of A.TXT in order
  slot,        \* read_root_dirs: the slot it looks at
  dirs,        \* the list of FS_DIR_ENTRYs that hangs on root_fs_entry->next
  at,          \* "mount", "ready", "assert", or "wild": led by what it never read
  result       \* of the last read_file: the request, the bytes in buf, the value

fatVars == <<part_start_sec, root, fat, file_size, chain, slot, dirs, at, result>>
image == <<part_start_sec, root, fat, file_size, chain>>

cdiv(a, b) == (a + b - 1) \div b

\* The names of a directory are different.
ProperRoot(r) ==
  \A j, k \in 1 .. RootSlots :
    r[j] = r[k] /\ r[j] \in {"A.TXT", "B.TXT", "DIR"} => j = k

none == [path |-> <<>>, offest |-> 0, count |-> 0, entry |-> 0, bytes |-> <<>>, value |-> 0]

FatInit ==
  /\ part_start_sec \in PartStart
  /\ root \in {r \in [1 .. RootSlots -> Slot] : ProperRoot(r)}
  /\ file_size \in 1 .. MaxSize
  /\ chain \in {c \in [1 .. cdiv(file_size, ONE_CLUSTER_BYTES) -> Cluster] : IsInjective(c)}
  /\ fat = [c \in Cluster |->
              IF \E k \in DOMAIN chain : chain[k] = c
              THEN LET k == CHOOSE k \in DOMAIN chain : chain[k] = c
                   IN IF k = Len(chain) THEN EOC ELSE chain[k + 1]
              ELSE 0]
  /\ slot = 1 /\ dirs = <<>> /\ at = "mount" /\ result = none

----------------------------------------------------------------------------
(* Chains *)

\* The table in memory is the disk's only where read_fat looked for it; the root
\* directory and the data are found through the partition table.
table_loaded == part_start_sec = partition_offest_sectors

\* 0 after the last cluster; in a table that is loaded.
get_next_cluster(cur_cluster) ==
  IF fat[cur_cluster] >= EOC THEN 0 ELSE fat[cur_cluster]

offest_ignored(start_cluster, offest) == start_cluster

get_offest_cluster(start_cluster, offest) ==
  LET cur_cluster[k \in 0 .. offest \div ONE_CLUSTER_BYTES] ==
        IF k = 0 THEN start_cluster ELSE get_next_cluster(cur_cluster[k - 1])
  IN  cur_cluster[offest \div ONE_CLUSTER_BYTES]

data(cluster, from, n) == [k \in 1 .. n |-> <<cluster, from + k - 1>>]

\* The cluster is read whole and a part of it copied; 0 asks for all the rest.
read_one_cluster(cluster, start_offest, n) ==
  data(cluster, start_offest, IF n = 0 THEN ONE_CLUSTER_BYTES - start_offest ELSE n)

\* The loop `while(size)': it ends with the chain, too.  A size of 0 reads nothing.
read_cluster_chain[n \in Nat] ==
  [cluster \in Cluster |->
     IF n = 0 THEN <<>>
     ELSE LET read_size == IF n > ONE_CLUSTER_BYTES THEN ONE_CLUSTER_BYTES ELSE n
              next == get_next_cluster(cluster)
          IN data(cluster, 0, read_size)
             \o (IF next = 0 THEN <<>> ELSE read_cluster_chain[n - read_size][next])]

----------------------------------------------------------------------------
(* read_root_dirs: one slot in each step *)

free == MAX_ENTRIES - Len(dirs)

\* A file, or a directory (its read_sub_dirs asks read_cluster_chain for 0 bytes
\* and finds nothing): the next free FS_DIR_ENTRY goes to the end of the list.
root_entry ==
  /\ at = "mount" /\ slot <= RootSlots
  /\ root[slot] \notin {"end", "deleted"}
  /\ \/ free > 0 /\ dirs' = Append(dirs, root[slot]) /\ slot' = slot + 1 /\ UNCHANGED at
     \/ free = 0 /\ at' = "assert" /\ UNCHANGED <<dirs, slot>>
  /\ UNCHANGED <<image, result>>

root_deleted ==
  /\ at = "mount" /\ slot <= RootSlots /\ root[slot] = "deleted"
  /\ slot' = slot + 1
  /\ UNCHANGED <<image, dirs, at, result>>

after_end_of_sector(k) == PerSector * cdiv(k, PerSector) + 1

\* The end mark ends the loop over the entries and the one over the sectors.
after_end(k) == RootSlots + 1

root_end ==
  /\ at = "mount" /\ slot <= RootSlots /\ root[slot] = "end"
  /\ slot' = after_end(slot)
  /\ UNCHANGED <<image, dirs, at, result>>

root_done ==
  /\ at = "mount" /\ slot > RootSlots
  /\ at' = "ready"
  /\ UNCHANGED <<image, slot, dirs, result>>

----------------------------------------------------------------------------
(* Paths: an entry of the list is its place in it, 0 is the null pointer.  *)
(* Look-ups begin at an entry: read_file has the case of an empty list.    *)

find_last(p, filename) ==
  IF \E k \in p .. Len(dirs) : dirs[k] = filename
  THEN CHOOSE k \in p .. Len(dirs) : dirs[k] = filename /\ \A j \in k + 1 .. Len(dirs) :
                                                              dirs[j] # filename
  ELSE Len(dirs)

\* The first of the entries from p on with that name.
find_entry(p, filename) ==
  IF \E k \in p .. Len(dirs) : dirs[k] = filename
  THEN CHOOSE k \in p .. Len(dirs) : dirs[k] = filename /\ \A j \in p .. k - 1 :
                                                              dirs[j] # filename
  ELSE 0

\* A path is a file name, or a directory and the path from there on, which is
\* looked up from the entry of the directory itself.
find_dir_entry(p, path) ==
  LET ret[k \in 1 .. Len(path)] ==
        IF k = 1 THEN find_entry(p, path[1])
        ELSE IF ret[k - 1] = 0 THEN 0 ELSE find_entry(ret[k - 1], path[k])
  IN  ret[Len(path)]

\* assert(ret->dir_ent.file_attr & ATTR_DIRECTORY) along the way.
passes_file(path) == Len(path) > 1 /\ find_entry(1, path[1]) # 0 /\ path[1] # "DIR"

----------------------------------------------------------------------------
(* read_file *)

\* What read_one_cluster gets of the request: up to the end of its cluster.
first_part(offest, count) ==
  LET offest_in_cluster == offest % ONE_CLUSTER_BYTES
  IN IF count + offest_in_cluster > ONE_CLUSTER_BYTES
     THEN ONE_CLUSTER_BYTES - offest_in_cluster ELSE count

\* The asserts of read_file and read_one_cluster.
fits(offest, count) ==
  /\ file_size >= offest + count
  /\ (offest % ONE_CLUSTER_BYTES) + first_part(offest, count) <= ONE_CLUSTER_BYTES

\* The file A.TXT: a count of 0 asks for the rest of it.  Requests begin inside
\* the file.  root_fs_entry.next is only set by the first entry of the root
\* directory: without one, get_file_dir hands on whatever is there, and only a null
\* pointer fails the assert.
read_file(path, offest, n) ==
  LET entry == find_dir_entry(1, path)
      count == IF n = 0 THEN file_size - offest ELSE n
      offest_cluster == get_offest_cluster(chain[1], offest)
      part == first_part(offest, count)
      next == get_next_cluster(offest_cluster)
      rest == IF next = 0 THEN <<>> ELSE read_cluster_chain[count - part][next]
  IN /\ at = "ready" /\ offest < file_size
     /\ \/ dirs = <<>> /\ at' \in {"assert", "wild"} /\ UNCHANGED result
        \/ /\ dirs # <<>>
           /\ passes_file(path) \/ (entry # 0 /\ ~fits(offest, count))
           /\ at' = "assert" /\ UNCHANGED result
        \/ /\ dirs # <<>> /\ ~passes_file(path) /\ entry = 0
           /\ result' = [none EXCEPT !.path = path]
           /\ UNCHANGED at
        \/ /\ dirs # <<>> /\ ~passes_file(path) /\ entry # 0 /\ fits(offest, count)
           /\ table_loaded
           /\ result' = [path |-> path, offest |-> offest, count |-> count, entry |-> entry,
                         bytes |-> read_one_cluster(offest_cluster, offest % ONE_CLUSTER_BYTES,
                                                    part) \o rest,
                         value |-> part + Len(rest)]
           /\ UNCHANGED at
        \/ /\ dirs # <<>> /\ ~passes_file(path) /\ entry # 0 /\ fits(offest, count)
           /\ ~table_loaded /\ at' = "wild" /\ UNCHANGED result
     /\ UNCHANGED <<image, slot, dirs>>

Path == {<<"A.TXT">>, <<"DIR", "A.TXT">>, <<"B.TXT", "A.TXT">>}

FatNext ==
  \/ root_entry \/ root_deleted \/ root_end \/ root_done
  \/ \E path \in Path, offest \in 0 .. MaxSize - 1, n \in 0 .. MaxSize :
       read_file(path, offest, n)

FatSpec == FatInit /\ [][FatNext]_fatVars

----------------------------------------------------------------------------

\* The slots in front of the end mark that are not deleted.
Live == {k \in 1 .. RootSlots : root[k] # "deleted" /\ \A j \in 1 .. k : root[j] # "end"}

\* The list in memory is the root directory on the disk: every entry in front
\* of the end mark that is not deleted, once, in order, over all its sectors.  (Of an
\* empty directory the code keeps only dir_cnt = 0: there is no list to follow.)
RootListed ==
  at = "ready" =>
    \E spot \in [1 .. Len(dirs) -> Live] :
      /\ \A m, n \in 1 .. Len(dirs) : m < n => spot[m] < spot[n]
      /\ \A k \in Live : \E n \in 1 .. Len(dirs) : spot[n] = k
      /\ \A n \in 1 .. Len(dirs) : dirs[n] = root[spot[n]]

\* A file of a root directory that is not empty is found under its name, and nothing
\* else is, although the list is walked from its first entry only.
RootLookup ==
  at = "ready" /\ dirs # <<>> => \A f \in {"A.TXT", "B.TXT"} :
    LET entry == find_dir_entry(1, <<f>>)
    IN IF \E k \in Live : root[k] = f THEN dirs[entry] = f ELSE entry = 0

\* The bytes of A.TXT, in their order: k counts from 0.
Byte(k) == <<chain[k \div ONE_CLUSTER_BYTES + 1], k % ONE_CLUSTER_BYTES>>

\* For a file of the root directory read_file returns the bytes from offest on, as
\* many as were asked for, however the clusters lie on the disk and wherever the piece
\* begins and ends in them; nothing more is written to buf.  (A path with a directory
\* in it is none of these: the comment at fat.c:437 means the file in the directory,
\* the code answers with one of the root directory.)
ReadsExactly ==
  at = "ready" /\ result.entry # 0 /\ Len(result.path) = 1 =>
    /\ result.value = result.count
    /\ result.bytes = [k \in 1 .. result.count |-> Byte(result.offest + k - 1)]
=============================================================================
