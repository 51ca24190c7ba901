------------------------------- MODULE PathTree ------------------------------
(***************************************************************************)
(* Path: the operations of path.hpp that change the file system.  A path   *)
(* is the sequence of its names and whether it ends with a separator;      *)
(* paths are relative to the current directory, which is there.            *)
(***************************************************************************)
EXTENDS Integers, Sequences, SequencesExt

CONSTANTS Names,      \* names of files and directories
          MaxDepth    \* bound: names of a path

ASSUME PathTreeAssumption == MaxDepth \in Nat \ {0}

VARIABLES tree,       \* what is on disk: from paths to "dir" or "file"
          terminated, \* an exception left a noexcept function
          done        \* history: the last operation, its path and its tree

treeVars == <<tree, terminated, done>>

Nodes == UNION {[1..n -> Names] : n \in 1..MaxDepth}
TreePaths == [parts : Nodes, trailing : BOOLEAN]

\* The node and the directories above it, without the current one.
Above(node) == {SubSeq(node, 1, n) : n \in 1..Len(node) - 1}
Below(node) == {k \in DOMAIN tree : IsPrefix(node, k)}

TreeInit == tree = [k \in {} |-> "dir"] /\ terminated = FALSE
             /\ done = [op |-> "none"]

-----------------------------------------------------------------------------
\* exists, is_directory
exists(node) == node \in DOMAIN tree
is_directory(node) == exists(node) /\ tree[node] = "dir"

has_filename(p) == ~p.trailing
has_parent_path(p) == Len(p.parts) > 1 \/ p.trailing

\* remove_trailing_separator, copy_without_trailing_separator
remove_trailing_separator(p) ==
    IF has_filename(p) THEN p ELSE [p EXCEPT !.trailing = FALSE]

\* Mutant: the parent is taken whether or not the path ends with a separator.
Directory_Parent(p) ==
    IF Len(p.parts) > 1 THEN Front(p.parts) ELSE p.parts

\* The directory that create_dir makes: the parent of a path that names a
\* file, unless it has none.
Directory(p) ==
    IF has_filename(p) /\ has_parent_path(p) THEN Front(p.parts) ELSE p.parts

\* fs::create_directories throws if a file is in the way.
create_dir(p) ==
    LET wanted == Above(Directory(p)) \cup {Directory(p)}
        blocked == \E k \in wanted : exists(k) /\ ~is_directory(k)
    IN  /\ terminated' = blocked
        /\ IF blocked
           THEN \* up to the file, as create_directories makes them in order
                LET bad == CHOOSE k \in wanted : exists(k) /\ ~is_directory(k)
                IN  tree' = [k \in DOMAIN tree \cup Above(bad) |->
                               IF exists(k) THEN tree[k] ELSE "dir"]
           ELSE tree' = [k \in DOMAIN tree \cup wanted |->
                           IF exists(k) THEN tree[k] ELSE "dir"]
        /\ done' = [op |-> "create_dir", path |-> p, before |-> tree]

\* remove_all of a directory, remove of a file; nothing if it is not there.
Removed(node) == Below(node)

remove_path(node) ==
    /\ tree' = [k \in DOMAIN tree \ Removed(node) |-> tree[k]]
    /\ done' = [op |-> "remove", path |-> node, before |-> tree]
    /\ UNCHANGED terminated

\* Another part of the program puts a file into a directory that exists.
put_file(node) ==
    /\ ~exists(node)
    /\ Len(node) > 1 => is_directory(Front(node))
    /\ tree' = [k \in DOMAIN tree \cup {node} |->
                  IF k = node THEN "file" ELSE tree[k]]
    /\ done' = [op |-> "put"]
    /\ UNCHANGED terminated

TreeNext ==
    /\ ~terminated
    /\ \/ \E p \in TreePaths : create_dir(p)
       \/ \E node \in Nodes : remove_path(node) \/ put_file(node)

TreeSpec == TreeInit /\ [][TreeNext]_treeVars

-----------------------------------------------------------------------------
(***************************************************************************)
(* Correctness.                                                            *)
(***************************************************************************)

\* Whatever is on disk is in a directory, after any mix of the operations.
TreeClosed == \A k \in DOMAIN tree : \A d \in Above(k) : is_directory(d)

\* create_dir leaves every file and directory as it was and ends with the
\* directory there that a file of that path, or a directory of that path,
\* is to be put into; so a separator taken off by remove_trailing_separator
\* names another directory.  Of one name without a separator, a file that
\* has no parent, nothing is said: the code makes it a directory.
CreateDirExact ==
    done.op = "create_dir" =>
        /\ \A k \in DOMAIN done.before : k \in DOMAIN tree /\ tree[k] = done.before[k]
        /\ ~terminated =>
             LET p == done.path IN
             /\ Len(p.parts) > 1 => is_directory(Front(p.parts))
             /\ p.trailing => is_directory(p.parts)
             /\ ~p.trailing /\ Len(p.parts) > 1 /\ p.parts \notin DOMAIN done.before
                   => ~exists(p.parts)
             /\ LET q == remove_trailing_separator(p) IN
                Len(p.parts) > 1 => (Directory(q) = Directory(p) <=> q = p)

\* remove leaves nothing of the path and everything else.
RemoveExact ==
    done.op = "remove" =>
        /\ ~exists(done.path)
        /\ \A k \in DOMAIN done.before :
              k \in DOMAIN tree \/ IsPrefix(done.path, k)

\* Path's operations keep the tree closed and change what they say they do.
TreeExact == TreeClosed /\ CreateDirExact /\ RemoveExact
=============================================================================
