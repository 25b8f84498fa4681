-------------------------------- MODULE Recover --------------------------------
(***************************************************************************)
(* file-directory-tree/src/recover.c: main reads the directories of a      *)
(* FAT16 disk into a tree, deleted entries included, prints the tree,      *)
(* creates its files below the working directory and frees it.  What a     *)
(* file holds is where on the disk it was read.                            *)
(***************************************************************************)
EXTENDS DirectoryTree

CONSTANTS
    BPB,
    DISK_SIZE,
    STACK_DEPTH, \* calls of follow that the stack has room for
    Disks        \* a disk gives the entries of the root directory, 0, and of
                 \* the directories in clusters; what follows them is zero

VARIABLES
    disk,
    pos,         \* of the file `disk`
    calls,       \* the calls of follow: the node, and prev_offset of its caller
    nodes,
    output,
    todo,        \* calls of create_directory_tree_helper still to be made
    fs,          \* what was created: path -> "directory" or contents
    freed,
    status       \* the function main is in, "done", "overflow", or the kind of
                 \* assertion that failed, "assert read" or "assert create"

vars == <<disk, pos, calls, nodes, output, todo, fs, freed, status>>

-----------------------------------------------------------------------------
(* fat16.c: places on a disk and the entries of directories.  bpb is the   *)
(* record of the fields of the BIOS parameter block that are used; the     *)
(* attribute of an entry is the set of its bits.                           *)

NUL == 0
SPACE == 32
DOT == 46
QUESTION == 63
DELETED == 229

sizeof_directory_entry_t == 32

get_root_directory_location(bpb) ==
    (1 + bpb.reserved_sectors + (bpb.num_fats * bpb.sectors_per_fat)) * bpb.bytes_per_sector

\* Of unsigned numbers, so that it also holds for the cluster 0 of an empty
\* file, where the last term is negative.
get_offset_from_cluster(cluster, bpb) ==
    get_root_directory_location(bpb) + (bpb.max_root_entries * sizeof_directory_entry_t)
      + ((cluster - 2) * bpb.sectors_per_cluster * bpb.bytes_per_sector)

is_directory(entry) == "SUBDIRECTORY" \in entry.attribute

is_hidden(entry) ==
    \/ entry.filename[1] = DOT \/ entry.filename[2] = DOT
    \/ entry.attribute = {}
    \/ entry.attribute \cap {"HIDDEN", "SYSTEM", "VOLUME_LABEL"} # {}

\* What comes before the first c.
Before(s, c) ==
    LET Clear(k) == \A j \in 1 .. k : s[j] # c IN
    SubSeq(s, 1, CHOOSE k \in 0 .. Len(s) : Clear(k) /\ (k < Len(s) => ~Clear(k + 1)))

\* Deleted entries keep their place; the mark is shown as a question mark.
\* The result ends at the first NUL, as strings do.
get_file_name(entry) ==
    LET base == Before(entry.filename, SPACE)
        shown == [k \in DOMAIN base |-> IF base[k] = DELETED THEN QUESTION ELSE base[k]]
        full == IF entry.extension[1] # SPACE
                THEN shown \o <<DOT>> \o Before(entry.extension, SPACE) ELSE shown IN
    Before(full, NUL)

-----------------------------------------------------------------------------
(* The disk.                                                               *)

ZeroEntry == [filename |-> <<NUL, NUL>>, extension |-> <<NUL>>, attribute |-> {},
              first_cluster |-> 0, file_size |-> 0]

\* Where a FAT16 disk with a boot sector before the partition has a directory.
DirectoryAt(d) ==
    LET root == BPB.bytes_per_sector
                  + ((BPB.reserved_sectors + (BPB.num_fats * BPB.sectors_per_fat)) * BPB.bytes_per_sector)
        clusters == root + (32 * BPB.max_root_entries) IN
    IF d = 0 THEN root
    ELSE clusters + ((d - 2) * BPB.sectors_per_cluster * BPB.bytes_per_sector)

\* fread of an entry.
EntryAt(at) ==
    LET Here(d) == {k \in DOMAIN disk[d] : at = DirectoryAt(d) + ((k - 1) * 32)} IN
    IF \E d \in DOMAIN disk : Here(d) # {}
    THEN LET d == CHOOSE d \in DOMAIN disk : Here(d) # {} IN
         disk[d][CHOOSE k \in Here(d) : TRUE]
    ELSE ZeroEntry

\* fread(file_entry, size, 1, disk) returns 1: not for a size of 0.
ReadsOne(at, size) == size > 0 /\ at + size <= DISK_SIZE

Init ==
    /\ disk \in Disks
    /\ pos = get_root_directory_location(BPB)
    /\ nodes = <<init_directory_node(ROOT)>>
    /\ calls = <<[node |-> 1, prev |-> pos]>>
    /\ output = <<>> /\ todo = <<>> /\ fs = <<>> /\ freed = <<>>
    /\ status = "follow"

-----------------------------------------------------------------------------
(* follow                                                                  *)

Caller == calls[Len(calls)]

\* variant: the position is not restored behind the call of follow
Return_NoSeek(prev, next) == next

\* Where reading goes on behind the call of follow in follow_directory.
Return(prev, next) == prev

follow_file(entry, next) ==
    LET offset == get_offset_from_cluster(entry.first_cluster, BPB) IN
    IF ~ReadsOne(offset, entry.file_size)
    THEN status' = "assert read" /\ UNCHANGED <<pos, nodes, calls>>
    ELSE /\ \E node \in {init_file_node(get_file_name(entry), entry.file_size,
                                        [at |-> offset, size |-> entry.file_size])} :
               nodes' = add_child_directory_tree(Append(nodes, node), Caller.node)
         /\ pos' = next
         /\ UNCHANGED <<calls, status>>

follow_directory(entry, next) ==
    IF Len(calls) = STACK_DEPTH
    THEN status' = "overflow" /\ UNCHANGED <<pos, nodes, calls>>
    ELSE
    /\ \E dir_node \in {init_directory_node(get_file_name(entry))} :
          nodes' = add_child_directory_tree(Append(nodes, dir_node), Caller.node)
    /\ pos' = get_offset_from_cluster(entry.first_cluster, BPB)
    /\ calls' = Append(calls, [node |-> Len(nodes) + 1, prev |-> next])
    /\ UNCHANGED status

\* An entry is read; the loop of follow ends or the entry is followed.
follow ==
    /\ status = "follow"
    /\ IF pos + sizeof_directory_entry_t > DISK_SIZE
       THEN status' = "assert read" /\ UNCHANGED <<pos, nodes, calls>>
       ELSE \E entry \in {EntryAt(pos)} :
            LET next == pos + sizeof_directory_entry_t IN
            IF get_file_name(entry) = <<>>
            THEN /\ calls' = SubSeq(calls, 1, Len(calls) - 1)
                 /\ pos' = Return(Caller.prev, next)
                 /\ status' = IF Len(calls) = 1 THEN "print" ELSE "follow"
                 /\ UNCHANGED nodes
            ELSE \/ is_hidden(entry) /\ pos' = next /\ UNCHANGED <<nodes, calls, status>>
                 \/ ~is_hidden(entry) /\ is_directory(entry) /\ follow_directory(entry, next)
                 \/ ~is_hidden(entry) /\ ~is_directory(entry) /\ follow_file(entry, next)
    /\ UNCHANGED <<disk, output, todo, fs, freed>>

-----------------------------------------------------------------------------
(* The rest of main.                                                       *)

print ==
    /\ status = "print"
    /\ output' = print_directory_tree(nodes, 1)
    /\ todo' = <<[node |-> 1, path |-> <<>>]>>
    /\ status' = "create"
    /\ UNCHANGED <<disk, pos, calls, nodes, fs, freed>>

\* The path that is passed on to the children.
Below(path, new_path) == new_path

\* create_directory_tree_helper for one node: fopen "w" replaces a file,
\* mkdir fails if there is one.
create ==
    /\ status = "create" /\ todo # <<>>
    /\ LET node == nodes[Head(todo).node]
           path == Head(todo).path
           new_path == Append(path, node.name)
           Made(what) == [p \in DOMAIN fs \cup {new_path} |->
                            IF p = new_path THEN what ELSE fs[p]] IN
       IF \/ node.type = FILE_TYPE /\ new_path \in DOMAIN fs /\ fs[new_path].kind = DIRECTORY_TYPE
          \/ node.type = DIRECTORY_TYPE /\ new_path \in DOMAIN fs
       THEN status' = "assert create" /\ UNCHANGED <<fs, todo>>
       ELSE IF node.type = FILE_TYPE
       THEN /\ fs' = Made([kind |-> FILE_TYPE, contents |-> node.contents])
            /\ todo' = Tail(todo)
            /\ UNCHANGED status
       ELSE /\ fs' = Made([kind |-> DIRECTORY_TYPE])
            /\ todo' = [k \in DOMAIN node.children |->
                          [node |-> node.children[k], path |-> Below(path, new_path)]]
                         \o Tail(todo)
            /\ UNCHANGED status
    /\ UNCHANGED <<disk, pos, calls, nodes, output, freed>>

free ==
    /\ status = "create" /\ todo = <<>>
    /\ freed' = free_directory_tree(nodes, 1)
    /\ status' = "done"
    /\ UNCHANGED <<disk, pos, calls, nodes, output, todo, fs>>

Next == follow \/ print \/ create \/ free

Spec == Init /\ [][Next]_vars

-----------------------------------------------------------------------------
\* What the entries of a disk stand for, independent of how they are read:
\* the paths below a directory with what is there, and the entry it is from.
Visible(d) == {k \in DOMAIN disk[d] : ~ \/ disk[d][k].filename[1] = DOT
                                        \/ disk[d][k].attribute \cap {"ARCHIVE", "SUBDIRECTORY"} = {}
                                        \/ "HIDDEN" \in disk[d][k].attribute}

RECURSIVE Holds(_, _)
Holds(d, path) ==
    UNION {LET e == disk[d][k]
               p == Append(path, get_file_name(e)) IN
           IF "SUBDIRECTORY" \in e.attribute
           THEN {[path |-> p, what |-> [kind |-> DIRECTORY_TYPE], of |-> <<d, k>>]}
                \cup Holds(e.first_cluster, p)
           ELSE {[path |-> p, of |-> <<d, k>>,
                  what |-> [kind |-> FILE_TYPE, contents |->
                              [at |-> DirectoryAt(e.first_cluster), size |-> e.file_size]]]} :
           k \in Visible(d)}

Recoverable ==
    Holds(0, <<ROOT>>) \cup {[path |-> <<ROOT>>, what |-> [kind |-> DIRECTORY_TYPE], of |-> <<>>]}

\* Every node is freed, once, and no directory before its children, which are
\* reached through it.
FreesAll ==
    LET Place(n) == {k \in DOMAIN freed : freed[k] = n} IN
    \A n \in DOMAIN nodes :
        /\ \E k \in DOMAIN freed : Place(n) = {k}
        /\ nodes[n].type = DIRECTORY_TYPE =>
              \A c \in DOMAIN nodes[n].children :
                  \A j \in Place(nodes[n].children[c]), k \in Place(n) : j < k

EmptyFiles ==
    {x \in Recoverable : x.what.kind = FILE_TYPE /\ x.what.contents.size = 0}

\* When main gets to its end, every file and directory of the disk that is not
\* hidden is created at its path, a file with the bytes of its clusters, and
\* nothing else is.  Where several have one path, as deleted ones may once their
\* first letter is lost, one of the files is there.  Assertions of recover.c and
\* directory_tree.c fail in two cases only: assert(read == 1) of follow_file for
\* a file of size 0, of which fread reads no item, so that nothing of a disk
\* with such a file is recovered, and mkdir or fopen where one of several with
\* one path is a directory.  The search comes to an end, since "." and ".." are
\* not followed, and every node is freed, once, after the nodes that are
\* reached through it.
RecoversAll ==
    /\ status # "overflow"
    /\ status = "assert read" => EmptyFiles # {}
    /\ status = "assert create" =>
          \E x, y \in Recoverable : x # y /\ x.path = y.path /\ x.what.kind = DIRECTORY_TYPE
    /\ status \in {"print", "create", "done"} => EmptyFiles = {}
    /\ status = "done" =>
          /\ DOMAIN fs = {x.path : x \in Recoverable}
          /\ \A p \in DOMAIN fs : \E x \in Recoverable : x.path = p /\ x.what = fs[p]
          /\ FreesAll

\* The path of the k-th line that was printed.
RECURSIVE PathOf(_)
PathOf(k) ==
    IF output[k].level = 0 THEN <<output[k].name>>
    ELSE LET above == {j \in 1 .. k - 1 : output[j].level = output[k].level - 1} IN
         Append(PathOf(CHOOSE j \in above : \A i \in above : i <= j), output[k].name)

\* The lines that print_directory_tree prints, read by their indentation, are
\* the paths of all that is recovered, each as often as the disk has it, and the
\* entries of a directory are in the order of strcmp.  (Nothing is printed unless
\* all files were read.)
ListingMatches ==
    status \in {"done", "assert create"} =>
        /\ \A p \in {PathOf(k) : k \in DOMAIN output} \cup {x.path : x \in Recoverable} :
              Cardinality({k \in DOMAIN output : PathOf(k) = p})
                = Cardinality({x \in Recoverable : x.path = p})
        /\ \A j, k \in DOMAIN output :
              j < k /\ Len(PathOf(j)) = Len(PathOf(k)) /\ Front(PathOf(j)) = Front(PathOf(k)) =>
                  ~Less(output[k].name, output[j].name)

================================================================================
