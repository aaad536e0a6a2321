----------------------------- MODULE SourceTree -----------------------------
(***************************************************************************)
(* The tree of an organization's directories and documents.  A node's      *)
(* place is its path, the ids from its root to itself (an ltree), so       *)
(* nothing in the database ties a node to its parent; the file of an       *)
(* uploaded document lies in a storage that no transaction covers.         *)
(*                                                                         *)
(* A request creates nodes or deletes a subtree.  It reads what is         *)
(* committed when it reads it, and its writes show at its commit.  A file  *)
(* is named by the id of the node it was saved for.                        *)
(***************************************************************************)
EXTENDS Integers, SequencesExt

CONSTANTS
    Actors,     \* requests in flight together
    MaxNodes,   \* bound: nodes created altogether
    MaxSitemap  \* bound: pages of one sitemap

ASSUME SourceTreeAssumption == MaxNodes \in Nat /\ MaxSitemap \in Nat \ {0}

VARIABLES
    rows,    \* committed: id -> [type, path]
    files,   \* files in the storage
    next,    \* the next id of the sequence
    pc, mem, \* where each request is, and what it holds
    raced,   \* history: nodes committed under a subtree whose deletion had begun
    rolled   \* history: nodes whose deletion was rolled back after it had come to the files

vars == <<rows, files, next, pc, mem, raced, rolled>>

Source == [type : {"directory", "file", "web"}, path : Seq(1..MaxNodes)]

\* LocalStorage: what it holds after a file is saved, or some are deleted.
save(key)    == files \cup {key}
delete(keys) == files \ keys

NoMem == [type |-> "none", parent |-> 0, ids |-> {}, paths |-> <<>>, raced |-> FALSE,
          target |-> <<>>, listed |-> {}, gone |-> {}]

Init ==
    /\ rows = <<>> /\ files = {} /\ next = 1
    /\ pc = [a \in Actors |-> "idle"] /\ mem = [a \in Actors |-> NoMem]
    /\ raced = {} /\ rolled = {}

Go(a, from, to) == pc[a] = from /\ pc' = [pc EXCEPT ![a] = to]
End(a) == pc' = [pc EXCEPT ![a] = "idle"] /\ mem' = [mem EXCEPT ![a] = NoMem]

\* path <@ target
Under(target, path) == IsPrefix(target, path)
Subtree(target) == {n \in DOMAIN rows : Under(target, rows[n].path)}
-----------------------------------------------------------------------------
(***************************************************************************)
(* create_directory, create_file_source, create_url_source, import_sitemap.*)
(***************************************************************************)
\* The parent named is one the console shows.
Takes(a, type, count) ==
    /\ Go(a, "idle", "placing") /\ next + count <= MaxNodes + 1
    /\ next' = next + count
    /\ \E parent \in {0} \cup DOMAIN rows :
        mem' = [mem EXCEPT ![a].type = type, ![a].parent = parent,
                           ![a].ids = next..(next + count - 1)]
    /\ UNCHANGED <<rows, raced, rolled>>

create_directory(a) == Takes(a, "directory", 1) /\ UNCHANGED files
import_sitemap(a)   == \E n \in 1..MaxSitemap : Takes(a, "web", n) /\ UNCHANGED files

\* Mutant of create_file_source: an upload that could not be saved is placed all the same.
CreateUnsaved(a) ==
    /\ Takes(a, "file", 1)
    /\ files' = files \/ files' = save(next)

\* The file is saved before there is a row to name it.
create_file_source(a) == Takes(a, "file", 1) /\ files' = save(next)

\* _resolve_path, once for each node; where it raises, see Fails.
ParentPath(parent) == IF parent = 0 THEN <<>> ELSE rows[parent].path
resolve_path(a) ==
    LET m == mem[a]
        id == CHOOSE i \in m.ids : \A j \in m.ids : i <= j
    IN  /\ pc[a] = "placing"
        /\ m.parent = 0 \/ (m.parent \in DOMAIN rows /\ rows[m.parent].type = "directory")
        /\ mem' = [mem EXCEPT ![a].ids = @ \ {id},
                              ![a].paths = Append(@, Append(ParentPath(m.parent), id))]
        /\ pc' = [pc EXCEPT ![a] = IF m.ids = {id} THEN "placed" ELSE "placing"]
        /\ UNCHANGED <<rows, files, next, raced, rolled>>

IdsOf(paths) == {Last(paths[i]) : i \in DOMAIN paths}
PathOf(paths, n) == paths[CHOOSE i \in DOMAIN paths : Last(paths[i]) = n]

CommitNodes(a) ==
    LET new == IdsOf(mem[a].paths) IN
    /\ pc[a] = "placed"
    /\ rows' = [n \in DOMAIN rows \cup new |->
                   IF n \in new THEN [type |-> mem[a].type, path |-> PathOf(mem[a].paths, n)]
                   ELSE rows[n]]
    /\ raced' = IF \/ mem[a].raced
                   \/ \E b \in Actors : /\ pc[b] \in {"sweeping", "deleted"}
                                        /\ Under(mem[b].target, mem[a].paths[1])
                THEN raced \cup new ELSE raced
    /\ End(a)
    /\ UNCHANGED <<files, next, rolled>>
-----------------------------------------------------------------------------
(***************************************************************************)
(* delete_source.                                                          *)
(***************************************************************************)
FindTarget(a) ==
    /\ Go(a, "idle", "found")
    /\ \E n \in DOMAIN rows : mem' = [mem EXCEPT ![a].target = rows[n].path]
    /\ UNCHANGED <<rows, files, next, raced, rolled>>

ListSubtree(a) ==
    /\ Go(a, "found", "listed")
    /\ mem' = [mem EXCEPT ![a].listed = Subtree(mem[a].target)]
    /\ UNCHANGED <<rows, files, next, raced, rolled>>

\* A file that cannot be deleted is logged and left.
DeleteFiles(a) ==
    /\ Go(a, "listed", "emptied")
    /\ \E kept \in SUBSET (mem[a].listed \cap files) : files' = delete(mem[a].listed \ kept)
    /\ UNCHANGED <<rows, next, mem, raced, rolled>>

\* Mutant of StartSweep: the rows that were listed, by id.
SweepListed(a) ==
    /\ Go(a, "emptied", "sweeping")
    /\ mem' = [mem EXCEPT ![a].gone = mem[a].listed \cap DOMAIN rows]
    /\ UNCHANGED <<rows, files, next, raced, rolled>>

\* The DELETE starts, with what is under the path now, listed or not: it sees
\* nothing that is committed later, however long it waits.
StartSweep(a) ==
    /\ Go(a, "emptied", "sweeping")
    /\ mem' = [mem EXCEPT ![a].gone = Subtree(mem[a].target)]
    /\ UNCHANGED <<rows, files, next, raced, rolled>>

\* A row another deletion has deleted and not committed is waited for.
Waits(a) == \E b \in Actors \ {a} : pc[b] = "deleted" /\ mem[b].gone \cap mem[a].gone # {}

\* It deletes those that are still there.
DeleteRows(a) ==
    /\ ~ Waits(a)
    /\ Go(a, "sweeping", "deleted")
    /\ mem' = [mem EXCEPT ![a].gone = @ \cap DOMAIN rows]
    /\ UNCHANGED <<rows, files, next, raced, rolled>>

CommitDelete(a) ==
    /\ pc[a] = "deleted"
    /\ rows' = [n \in DOMAIN rows \ mem[a].gone |-> rows[n]]
    /\ pc' = [pc EXCEPT ![a] = "idle"]
    /\ mem' = [b \in Actors |->
                  IF b = a THEN NoMem
                  ELSE [mem[b] EXCEPT !.raced =
                           \/ @
                           \/ mem[b].paths # <<>> /\ Under(mem[a].target, mem[b].paths[1])]]
    /\ UNCHANGED <<files, next, raced, rolled>>

\* No parent, a parent that is no directory, the queue, the database, a crash:
\* the transaction is rolled back, what was done to the files stays done.
Fails(a) ==
    /\ pc[a] # "idle" /\ End(a)
    /\ rolled' = IF pc[a] \in {"emptied", "sweeping", "deleted"} THEN rolled \cup mem[a].listed ELSE rolled
    /\ UNCHANGED <<rows, files, next, raced>>

Next ==
    \E a \in Actors :
        \/ create_directory(a) \/ create_file_source(a) \/ import_sitemap(a)
        \/ resolve_path(a) \/ CommitNodes(a)
        \/ FindTarget(a) \/ ListSubtree(a) \/ DeleteFiles(a)
        \/ StartSweep(a) \/ DeleteRows(a) \/ CommitDelete(a) \/ Fails(a)

Spec == Init /\ [][Next]_vars
-----------------------------------------------------------------------------
TypeOK ==
    /\ DOMAIN rows \subseteq 1..MaxNodes /\ \A n \in DOMAIN rows : rows[n] \in Source
    /\ files \subseteq 1..MaxNodes /\ next \in 1..(MaxNodes + 1)
    /\ pc \in [Actors -> {"idle", "placing", "placed", "found", "listed", "emptied",
                       "sweeping", "deleted"}]
    /\ raced \subseteq 1..MaxNodes /\ rolled \subseteq 1..MaxNodes

(***************************************************************************)
(* get_tree: rows by depth, each added to its parent's children if the     *)
(* parent came before it, and to the roots if not.                         *)
(***************************************************************************)
\* path ~ 'parent.*{1,}', or every row
Selected(parent) ==
    {n \in DOMAIN rows : parent = 0 \/ (n # parent /\ Under(rows[parent].path, rows[n].path))}

Parents(nodes, n) == {p \in nodes : rows[p].path = Front(rows[n].path)}
Children(nodes, p) == {n \in nodes : p \in Parents(nodes, n)}

\* Mutant of Roots: a node is a root if its path says so.
PathRoots(nodes) == {n \in nodes : Len(rows[n].path) = 1}

Roots(nodes) == {n \in nodes : Parents(nodes, n) = {}}

Shown(nodes) ==
    LET Below[depth \in 0..MaxNodes] ==
            IF depth = 0 THEN Roots(nodes)
            ELSE UNION {Children(nodes, p) : p \in Below[depth - 1]}
    IN  UNION {Below[depth] : depth \in 0..MaxNodes}

(***************************************************************************)
(* A tree shows every row asked for, those included whose directory was    *)
(* deleted while they were created.                                        *)
(***************************************************************************)
TreeShowsAll ==
    \A parent \in {0} \cup DOMAIN rows : Shown(Selected(parent)) = Selected(parent)

(***************************************************************************)
(* A deletion takes the whole subtree: a node whose directory is gone was  *)
(* committed after the deletion of that directory's rows had begun.        *)
(***************************************************************************)
OrphansWereRaced ==
    \A n \in DOMAIN rows : Parents(DOMAIN rows, n) = {} =>
        Len(rows[n].path) = 1 \/ \E i \in DOMAIN rows[n].path : rows[n].path[i] \in raced

(***************************************************************************)
(* An uploaded document has its file, unless a deletion has come to it     *)
(* that is under way or was rolled back.                                   *)
(***************************************************************************)
RowHasFile ==
    \A n \in DOMAIN rows : rows[n].type = "file" =>
        \/ n \in files \cup rolled
        \/ \E a \in Actors : pc[a] \in {"emptied", "sweeping", "deleted"} /\ n \in mem[a].listed
=============================================================================
