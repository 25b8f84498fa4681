----------------------------- MODULE DirectoryTree -----------------------------
(***************************************************************************)
(* file-directory-tree/src/directory_tree.c: a tree of files and           *)
(* directories.  The heap is a sequence of nodes, a pointer is a place in  *)
(* it, and a name is a sequence of character codes.                        *)
(***************************************************************************)
EXTENDS Integers, Sequences, SequencesExt

FILE_TYPE == "FILE_TYPE"
DIRECTORY_TYPE == "DIRECTORY_TYPE"

ROOT == <<82, 79, 79, 84>>

\* strcmp(s, t) < 0
Less(s, t) ==
    \E k \in 1 .. Len(t) :
        /\ \A j \in 1 .. k - 1 : j <= Len(s) /\ s[j] = t[j]
        /\ k > Len(s) \/ s[k] < t[k]

init_file_node(name, size, contents) ==
    [type |-> FILE_TYPE, name |-> name, size |-> size, contents |-> contents]

init_directory_node(name) ==
    [type |-> DIRECTORY_TYPE, name |-> name, children |-> <<>>]

\* variant: the last child is not compared
Smallest_Short(nodes, children, i) ==
    CHOOSE j \in i .. Len(children) :
        /\ j = i \/ j < Len(children)
        /\ \A k \in i .. Len(children) - 1 :
              LET a == nodes[children[j]].name
                  b == nodes[children[k]].name IN
              ~Less(b, a) /\ (k < j => Less(a, b))

\* min_idx after the inner loop of sorted_dir: the first of the smallest names
Smallest(nodes, children, i) ==
    CHOOSE j \in i .. Len(children) :
        \A k \in i .. Len(children) :
            LET a == nodes[children[j]].name
                b == nodes[children[k]].name IN
            ~Less(b, a) /\ (k < j => Less(a, b))

sorted_dir(nodes, children) ==
    LET after[i \in 0 .. Len(children)] ==
          IF i = 0 THEN children
          ELSE LET c == after[i - 1]
                   min_idx == Smallest(nodes, c, i) IN
               [c EXCEPT ![i] = c[min_idx], ![min_idx] = c[i]] IN
    after[Len(children)]

\* The child is the last node of the heap.
add_child_directory_tree(nodes, dnode) ==
    [nodes EXCEPT ![dnode].children = sorted_dir(nodes, Append(@, Len(nodes)))]

\* The lines that are printed for a node: how deep below it, and the name.
print_directory_tree(nodes, node) ==
    LET Deeper(lines) == [k \in DOMAIN lines |-> [lines[k] EXCEPT !.level = @ + 1]]
        lines[n \in DOMAIN nodes] ==
          <<[level |-> 0, name |-> nodes[n].name]>> \o
          IF nodes[n].type = FILE_TYPE THEN <<>>
          ELSE FlattenSeq([k \in DOMAIN nodes[n].children |->
                             Deeper(lines[nodes[n].children[k]])]) IN
    lines[node]

\* The nodes in the order they are freed.
free_directory_tree(nodes, node) ==
    LET freed[n \in DOMAIN nodes] ==
          (IF nodes[n].type = FILE_TYPE THEN <<>>
           ELSE FlattenSeq([k \in DOMAIN nodes[n].children |->
                              freed[nodes[n].children[k]]])) \o <<n>> IN
    freed[node]
================================================================================
