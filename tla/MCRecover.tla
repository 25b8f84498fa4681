------------------------------- MODULE MCRecover -------------------------------
(* Disks for the model checker.                                            *)
EXTENDS Recover, FiniteSets

\* Clusters of six entries, and a root directory of four.
MCBPB == [bytes_per_sector |-> 64, sectors_per_cluster |-> 3, reserved_sectors |-> 1,
          num_fats |-> 2, max_root_entries |-> 4, sectors_per_fat |-> 1]

Entry(f, e, a, c, n) ==
    [filename |-> f, extension |-> e, attribute |-> a, first_cluster |-> c, file_size |-> n]

Blank == <<SPACE>>
File(f, e, c) == Entry(f, e, {"ARCHIVE"}, c, 40)
Dir(f, c) == Entry(f, Blank, {"SUBDIRECTORY"}, c, 0)

\* "." and ".." of a directory
Dots(c, above) == <<Dir(<<DOT, SPACE>>, c), Dir(<<DOT, DOT>>, above)>>

Files ==
    {File(<<65, SPACE>>, Blank, 4),       \* A
     File(<<65, 66>>, <<88>>, 5),         \* AB.X
     File(<<DELETED, 66>>, Blank, 6),     \* ?B, another and a ?A
     File(<<DELETED, 66>>, Blank, 7),
     File(<<DELETED, 65>>, Blank, 6),
     Entry(<<67, SPACE>>, Blank, {"ARCHIVE"}, 0, 0)}   \* C, which is empty
Hidden == {Entry(<<66, SPACE>>, Blank, {"ARCHIVE", "HIDDEN"}, 4, 40),
           Entry(<<66, 66>>, Blank, {"VOLUME_LABEL"}, 0, 0),
           Entry(<<66, 67>>, Blank, {}, 4, 40)}
D2 == {Dir(<<66, 65>>, 2), Dir(<<DELETED, 65>>, 2)}
D3 == {Dir(<<66, SPACE>>, 3)}

Refers(dir, c) == Cardinality({k \in DOMAIN dir : is_directory(dir[k]) /\ dir[k].first_cluster = c})

\* Names differ until they have lost their first letter.
Clash(dir) ==
    \E j, k \in DOMAIN dir :
        /\ j # k /\ get_file_name(dir[j]) = get_file_name(dir[k])
        /\ dir[j].filename[1] = DELETED => dir[j] = dir[k]

\* Disks with the given files on which each directory has one entry.
Of(files, hidden) ==
    LET Fill(S, n) == {s \in SeqOf(S, n) : ~Clash(s)} IN
    {[d \in {0, 2, 3} |-> CASE d = 0 -> r
                            [] d = 2 -> Dots(2, 0) \o s
                            [] d = 3 -> Dots(3, IF Refers(r, 3) = 1 THEN 0 ELSE 2) \o t] :
        <<r, s, t>> \in
          {<<r, s, t>> \in Fill(files \cup hidden \cup D2 \cup D3, 3)
                             \X Fill(files \cup D3, 2) \X Fill(files, 1) :
             LET of2 == Refers(r, 2)
                 of3 == Refers(r, 3) + Refers(s, 3) IN
             /\ of2 <= 1 /\ of3 <= 1
             /\ of2 = 0 => s = <<>>
             /\ of3 = 0 => t = <<>>}}

MCDisks == Of(Files, Hidden)
================================================================================
