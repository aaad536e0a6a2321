-------------------------- MODULE SourceTreeProofs --------------------------
(***************************************************************************)
(* Proofs about SourceTree, for any number of requests in flight and any   *)
(* number of nodes, and about Ops, for any requests and any hours.         *)
(***************************************************************************)
EXTENDS SourceTree, Ops, SequenceTheorems, WellFoundedInduction, TLAPS

Ids   == 1..MaxNodes
Paths == Seq(Ids)
Types == {"directory", "file", "web"}

\* What a request holds.
Memory == [type : Types \cup {"none"}, parent : {0} \cup Ids, ids : SUBSET Ids, paths : Seq(Paths),
           raced : BOOLEAN, target : Paths, listed : SUBSET Ids, gone : SUBSET Ids]

States   == {"idle", "placing", "placed", "found", "listed", "emptied", "sweeping", "deleted"}
Creating == {"placing", "placed"}
Deleting == {"found", "listed", "emptied", "sweeping", "deleted"}

\* The nodes a request has taken ids for and not committed.
Held(a) == mem[a].ids \cup {Last(mem[a].paths[i]) : i \in 1..Len(mem[a].paths)}

\* What a request holds, by where it is.
Holds(a) ==
    /\ pc[a] = "idle" => mem[a] = NoMem
    /\ pc[a] \in Creating => mem[a].type \in Types /\ mem[a].target = <<>>
    /\ pc[a] \in Creating => mem[a].listed = {} /\ mem[a].gone = {}
    /\ pc[a] = "placing" => mem[a].ids # {} /\ \E low, high \in Nat : mem[a].ids = low..high
    /\ pc[a] = "placed" => mem[a].ids = {} /\ mem[a].paths # <<>>
    /\ pc[a] \in Deleting => mem[a].ids = {} /\ mem[a].paths = <<>> /\ mem[a].target # <<>>
    /\ \A i \in 1..Len(mem[a].paths) : mem[a].paths[i] # <<>>

Typed ==
    /\ TypeOK
    /\ \A n \in DOMAIN rows : rows[n].path # <<>> /\ Last(rows[n].path) = n
    /\ mem \in [Actors -> Memory]
    /\ \A a \in Actors : Holds(a)

\* The nodes a request knows of: the parent it was given, what it deletes.
Seen(a) ==
    {mem[a].parent} \cup mem[a].listed \cup mem[a].gone
        \cup {n \in Ids : pc[a] \in Deleting /\ n = Last(mem[a].target)}

\* An id that is taken and not committed is known to the request that took it alone.
Fresh ==
    /\ \A n \in DOMAIN rows : n < next
    /\ \A a \in Actors :
        /\ \A n \in Seen(a) : n < next
        /\ \A n \in Held(a) :
            /\ n < next /\ n \notin DOMAIN rows
            /\ \A b \in Actors : n \notin Seen(b) /\ (n \in Held(b) => b = a)

\* An upload that is being placed has its file.
Saved == \A a \in Actors : mem[a].type = "file" => Held(a) \subseteq files

\* One of the nodes on a node's path was created under a subtree whose deletion had begun.
Tainted(n) == \E i \in 1..Len(rows[n].path) : rows[n].path[i] \in raced

\* A deletion lists, and deletes, what is under its target; what it leaves there raced it.
Sweeps(a) ==
    /\ pc[a] \in {"listed", "emptied", "sweeping", "deleted"} =>
        \A n \in DOMAIN rows \cap mem[a].listed : Under(mem[a].target, rows[n].path)
    /\ pc[a] \in {"sweeping", "deleted"} =>
        \A n \in DOMAIN rows :
            /\ n \in mem[a].gone => Under(mem[a].target, rows[n].path)
            /\ n \in mem[a].listed => n \in mem[a].gone
            /\ Under(mem[a].target, rows[n].path) => n \in mem[a].gone \/ Tainted(n)

\* The nodes of one request lie in one place: in a directory that is there, or
\* in one that went while they were being created.
Places(a) ==
    \A i \in 1..Len(mem[a].paths) :
        /\ Front(mem[a].paths[i]) = Front(mem[a].paths[1])
        /\ IF mem[a].parent = 0 THEN Front(mem[a].paths[i]) = <<>>
           ELSE IF mem[a].parent \in DOMAIN rows THEN rows[mem[a].parent].path = Front(mem[a].paths[i])
           ELSE mem[a].raced

Rooted ==
    \A n \in DOMAIN rows :
        \/ Len(rows[n].path) = 1 \/ Tainted(n)
        \/ \E p \in DOMAIN rows : rows[p].path = Front(rows[n].path)
-----------------------------------------------------------------------------
(***************************************************************************)
(* Paths.                                                                  *)
(***************************************************************************)
LEMMA Extended ==
    ASSUME NEW s \in Paths, NEW x \in Ids
    PROVE  /\ Append(s, x) \in Paths /\ Append(s, x) # <<>> /\ Len(Append(s, x)) = Len(s) + 1
           /\ Last(Append(s, x)) = x /\ Front(Append(s, x)) = s
<1>1. /\ Append(s, x) \in Paths /\ Len(Append(s, x)) = Len(s) + 1 /\ Append(s, x)[Len(s) + 1] = x
      /\ \A i \in 1..Len(s) : Append(s, x)[i] = s[i]
  BY DEF Paths
<1>2. Front(Append(s, x)) = s
  BY <1>1 DEF Front, Paths
<1> QED  BY <1>1, <1>2 DEF Last, Paths

LEMMA Split ==
    ASSUME NEW s \in Paths, s # <<>>
    PROVE  /\ Front(s) \in Paths /\ Last(s) \in Ids /\ s = Append(Front(s), Last(s))
           /\ Len(s) \in Nat \ {0} /\ Len(Front(s)) = Len(s) - 1 /\ s[Len(s)] = Last(s)
<1>1. Len(s) \in Nat \ {0} /\ \A i \in 1..Len(s) : s[i] \in Ids
  BY DEF Paths
<1>2. Front(s) \in Paths /\ Len(Front(s)) = Len(s) - 1 /\ \A i \in 1..(Len(s) - 1) : Front(s)[i] = s[i]
  <2> DEFINE n == Len(s) - 1
  <2>1. n \in Int /\ 1 \in Int /\ n >= 0 /\ \A i \in 1..n : s[i] \in Ids
    BY <1>1
  <2> HIDE DEF n
  <2>2. /\ SubSeq(s, 1, n) \in Seq(Ids) /\ Len(SubSeq(s, 1, n)) = IF 1 <= n THEN n - 1 + 1 ELSE 0
        /\ \A i \in 1..(n - 1 + 1) : SubSeq(s, 1, n)[i] = s[1 + i - 1]
    BY <2>1, SubSeqProperties
  <2>3. /\ Len(SubSeq(s, 1, n)) = n /\ \A i \in 1..n : SubSeq(s, 1, n)[i] = s[i]
    BY <2>1, <2>2
  <2> QED  BY <2>2, <2>3 DEF n, Front, Paths
<1>3. Last(s) = s[Len(s)] /\ Last(s) \in Ids
  BY <1>1 DEF Last
<1>4. s = Append(Front(s), Last(s))
  BY <1>1, <1>2, <1>3 DEF Paths
<1> QED  BY <1>1, <1>2, <1>3, <1>4

\* A path lies under another when it begins with it.
LEMMA UnderIs ==
    ASSUME NEW s \in Paths, NEW t \in Paths
    PROVE  Under(t, s) <=> Len(t) <= Len(s) /\ \A i \in 1..Len(t) : t[i] = s[i]
<1>1. Len(s) \in Nat /\ Len(t) \in Nat
  BY DEF Paths
<1>2. CASE Len(t) <= Len(s)
  <2>1. /\ Len(SubSeq(t, 1, Len(t))) = Len(t) /\ Len(SubSeq(s, 1, Len(t))) = Len(t)
        /\ \A i \in 1..Len(t) : SubSeq(t, 1, Len(t))[i] = t[i] /\ SubSeq(s, 1, Len(t))[i] = s[i]
        /\ SubSeq(t, 1, Len(t)) \in Paths /\ SubSeq(s, 1, Len(t)) \in Paths
    BY <1>1, <1>2 DEF Paths
  <2>2. SubSeq(t, 1, Len(t)) = SubSeq(s, 1, Len(t)) <=> \A i \in 1..Len(t) : t[i] = s[i]
    BY <1>1, <2>1 DEF Paths
  <2> QED  BY <1>2, <2>2 DEF Under, IsPrefix
<1>3. CASE ~ (Len(t) <= Len(s))
  BY <1>3 DEF Under, IsPrefix
<1> QED  BY <1>2, <1>3

LEMMA UnderExtended ==
    ASSUME NEW s \in Paths, NEW t \in Paths, NEW x \in Ids
    PROVE  /\ Under(t, s) => Under(t, Append(s, x))
           /\ Under(t, Append(s, x)) => Under(t, s) \/ t = Append(s, x)
<1>1. /\ Len(s) \in Nat /\ Len(t) \in Nat /\ Append(s, x) \in Paths
      /\ Len(Append(s, x)) = Len(s) + 1 /\ \A i \in 1..Len(s) : Append(s, x)[i] = s[i]
  BY DEF Paths
<1> DEFINE longer == Append(s, x)
<1>4. /\ Under(t, s) <=> Len(t) <= Len(s) /\ \A i \in 1..Len(t) : t[i] = s[i]
      /\ Under(t, longer) <=> Len(t) <= Len(longer) /\ \A i \in 1..Len(t) : t[i] = longer[i]
  BY <1>1, UnderIs
<1> HIDE DEF longer
<1>5. /\ longer \in Paths /\ Len(longer) = Len(s) + 1 /\ \A i \in 1..Len(s) : longer[i] = s[i]
  BY <1>1 DEF longer
<1>2. Under(t, s) => Under(t, longer)
  BY <1>1, <1>4, <1>5
<1>3. ASSUME Under(t, longer), ~ Under(t, s)  PROVE t = longer
  <2>1. Len(t) = Len(s) + 1 /\ \A i \in 1..Len(t) : t[i] = longer[i]
    BY <1>1, <1>3, <1>4, <1>5
  <2> QED  BY <1>5, <2>1, SeqEqual DEF Paths
<1> QED  BY <1>2, <1>3 DEF longer
-----------------------------------------------------------------------------
(***************************************************************************)
(* What a request holds, and how a step changes it.                        *)
(***************************************************************************)
LEMMA Bounds == MaxNodes \in Nat /\ MaxSitemap \in Nat \ {0}
BY SourceTreeAssumption

LEMMA NoMemIsMemory == NoMem \in Memory
BY DEF NoMem, Memory, Types, Paths

LEMMA Fields ==
    ASSUME NEW m \in Memory
    PROVE  /\ m.type \in Types \cup {"none"} /\ m.parent \in {0} \cup Ids /\ m.ids \subseteq Ids
           /\ m.paths \in Seq(Paths) /\ m.raced \in BOOLEAN /\ m.target \in Paths
           /\ m.listed \subseteq Ids /\ m.gone \subseteq Ids /\ Len(m.paths) \in Nat
           /\ DOMAIN m.paths = 1..Len(m.paths)
           /\ \A i \in 1..Len(m.paths) : m.paths[i] \in Paths
<1>1. m.paths \in Seq(Paths)
  BY DEF Memory
<1>2. Len(m.paths) \in Nat /\ DOMAIN m.paths = 1..Len(m.paths) /\ \A i \in 1..Len(m.paths) : m.paths[i] \in Paths
  BY <1>1
<1> QED  BY <1>1, <1>2 DEF Memory

With(m, type, parent, ids) == [m EXCEPT !.type = type, !.parent = parent, !.ids = ids]
Resolved(m, id, path) == [m EXCEPT !.ids = @ \ {id}, !.paths = Append(@, path)]
Targets(m, target) == [m EXCEPT !.target = target]
Lists(m, nodes) == [m EXCEPT !.listed = nodes]
Deletes(m, nodes) == [m EXCEPT !.gone = nodes]
Races(m, yes) == [m EXCEPT !.raced = yes]

LEMMA WithHolds ==
    ASSUME NEW m \in Memory, NEW type \in Types, NEW parent \in {0} \cup Ids, NEW ids \in SUBSET Ids
    PROVE  LET n == With(m, type, parent, ids) IN
           /\ n \in Memory /\ n.type = type /\ n.parent = parent /\ n.ids = ids
           /\ n.paths = m.paths /\ n.raced = m.raced /\ n.target = m.target
           /\ n.listed = m.listed /\ n.gone = m.gone
BY DEF With, Memory

LEMMA ResolvedHolds ==
    ASSUME NEW m \in Memory, NEW id \in Ids, NEW path \in Paths
    PROVE  LET n == Resolved(m, id, path) IN
           /\ n \in Memory /\ n.type = m.type /\ n.parent = m.parent /\ n.ids = m.ids \ {id}
           /\ n.paths = Append(m.paths, path) /\ n.raced = m.raced /\ n.target = m.target
           /\ n.listed = m.listed /\ n.gone = m.gone
<1>1. Append(m.paths, path) \in Seq(Paths) /\ m.ids \ {id} \in SUBSET Ids
  BY Fields
<1>2. Resolved(m, id, path) = [m EXCEPT !.ids = m.ids \ {id}, !.paths = Append(m.paths, path)]
  BY DEF Resolved, Memory
<1> QED  BY <1>1, <1>2 DEF Memory

LEMMA TargetsHolds ==
    ASSUME NEW m \in Memory, NEW target \in Paths
    PROVE  LET n == Targets(m, target) IN
           /\ n \in Memory /\ n.type = m.type /\ n.parent = m.parent /\ n.ids = m.ids
           /\ n.paths = m.paths /\ n.raced = m.raced /\ n.target = target
           /\ n.listed = m.listed /\ n.gone = m.gone
BY DEF Targets, Memory

LEMMA ListsHolds ==
    ASSUME NEW m \in Memory, NEW nodes \in SUBSET Ids
    PROVE  LET n == Lists(m, nodes) IN
           /\ n \in Memory /\ n.type = m.type /\ n.parent = m.parent /\ n.ids = m.ids
           /\ n.paths = m.paths /\ n.raced = m.raced /\ n.target = m.target
           /\ n.listed = nodes /\ n.gone = m.gone
BY DEF Lists, Memory

LEMMA DeletesHolds ==
    ASSUME NEW m \in Memory, NEW nodes \in SUBSET Ids
    PROVE  LET n == Deletes(m, nodes) IN
           /\ n \in Memory /\ n.type = m.type /\ n.parent = m.parent /\ n.ids = m.ids
           /\ n.paths = m.paths /\ n.raced = m.raced /\ n.target = m.target
           /\ n.listed = m.listed /\ n.gone = nodes
BY DEF Deletes, Memory

LEMMA RacesHolds ==
    ASSUME NEW m \in Memory, NEW yes \in BOOLEAN
    PROVE  LET n == Races(m, yes) IN
           /\ n \in Memory /\ n.type = m.type /\ n.parent = m.parent /\ n.ids = m.ids
           /\ n.paths = m.paths /\ n.raced = yes /\ n.target = m.target
           /\ n.listed = m.listed /\ n.gone = m.gone
BY DEF Races, Memory

\* The tables and the requests, as the proofs use them.
LEMMA Tables ==
    ASSUME Typed
    PROVE  /\ DOMAIN rows \subseteq Ids /\ files \subseteq Ids /\ next \in 1..(MaxNodes + 1)
           /\ raced \subseteq Ids /\ rolled \subseteq Ids
           /\ pc \in [Actors -> States] /\ mem \in [Actors -> Memory]
           /\ \A a \in Actors : pc[a] \in States /\ mem[a] \in Memory /\ Holds(a)
           /\ \A n \in DOMAIN rows :
                 /\ rows[n].type \in Types /\ rows[n].path \in Paths
                 /\ rows[n].path # <<>> /\ Last(rows[n].path) = n
<1>1. /\ DOMAIN rows \subseteq Ids /\ files \subseteq Ids /\ next \in 1..(MaxNodes + 1)
      /\ raced \subseteq Ids /\ rolled \subseteq Ids
      /\ pc \in [Actors -> States] /\ mem \in [Actors -> Memory]
      /\ \A n \in DOMAIN rows : rows[n] \in Source
  BY DEF Typed, TypeOK, Ids, States
<1>2. \A n \in DOMAIN rows : rows[n].type \in Types /\ rows[n].path \in Paths
  BY <1>1 DEF Source, Types, Paths, Ids
<1> QED  BY <1>1, <1>2 DEF Typed

\* A step of one request that leaves the rows alone.
LEMMA TypedMove ==
    ASSUME Typed, NEW a \in Actors, NEW to \in States, NEW m \in Memory,
           pc' = [pc EXCEPT ![a] = to], mem' = [mem EXCEPT ![a] = m], rows' = rows,
           files' \subseteq Ids, next' \in 1..(MaxNodes + 1), raced' \subseteq Ids, rolled' \subseteq Ids,
           Holds(a)'
    PROVE  Typed'
<1>1. pc' \in [Actors -> States] /\ mem' \in [Actors -> Memory]
  BY Tables
<1>2. \A b \in Actors : b # a => pc'[b] = pc[b] /\ mem'[b] = mem[b]
  BY Tables
<1>3. \A b \in Actors : Holds(b)'
  BY <1>2 DEF Typed, Holds
<1>4. TypeOK'
  BY <1>1 DEF Typed, TypeOK, States, Ids
<1> QED  BY <1>1, <1>3, <1>4 DEF Typed

LEMMA Ended ==
    ASSUME Typed, NEW a \in Actors, End(a)
    PROVE  /\ pc' = [pc EXCEPT ![a] = "idle"] /\ mem' = [mem EXCEPT ![a] = NoMem]
           /\ pc'[a] = "idle" /\ mem'[a] = NoMem
           /\ pc' \in [Actors -> States] /\ mem' \in [Actors -> Memory]
           /\ \A b \in Actors : b # a => pc'[b] = pc[b] /\ mem'[b] = mem[b]
BY Tables, NoMemIsMemory DEF End, States

\* What each step does to the request that takes it.
LEMMA TakesStep ==
    ASSUME Typed, NEW a \in Actors, NEW type \in Types, NEW count \in 1..MaxSitemap, Takes(a, type, count)
    PROVE  \E parent \in {0} \cup DOMAIN rows :
             LET ids == next..(next + count - 1) IN
             /\ pc[a] = "idle" /\ mem[a] = NoMem /\ pc' = [pc EXCEPT ![a] = "placing"]
             /\ mem' = [mem EXCEPT ![a] = With(NoMem, type, parent, ids)]
             /\ next' = next + count /\ next' \in 1..(MaxNodes + 1) /\ ids \in SUBSET Ids /\ ids # {}
             /\ UNCHANGED <<rows, raced, rolled>>
<1>1. PICK parent \in {0} \cup DOMAIN rows :
         mem' = [mem EXCEPT ![a].type = type, ![a].parent = parent, ![a].ids = next..(next + count - 1)]
  BY DEF Takes
<1>2. /\ pc[a] = "idle" /\ pc' = [pc EXCEPT ![a] = "placing"] /\ next + count <= MaxNodes + 1
      /\ next' = next + count /\ UNCHANGED <<rows, raced, rolled>>
  BY DEF Takes, Go
<1>3. mem[a] = NoMem
  BY <1>2, Tables DEF Holds
<1>4. mem' = [mem EXCEPT ![a] = With(NoMem, type, parent, next..(next + count - 1))]
  BY <1>1, <1>3, Tables DEF With
<1>5. /\ next + count \in 1..(MaxNodes + 1) /\ next..(next + count - 1) \in SUBSET Ids
      /\ next \in next..(next + count - 1)
  BY <1>2, Bounds, Tables DEF Ids
<1> QED  BY <1>1, <1>2, <1>3, <1>4, <1>5

LEMMA FindStep ==
    ASSUME Typed, NEW a \in Actors, FindTarget(a)
    PROVE  \E n \in DOMAIN rows :
             /\ pc[a] = "idle" /\ mem[a] = NoMem /\ pc' = [pc EXCEPT ![a] = "found"]
             /\ mem' = [mem EXCEPT ![a] = Targets(NoMem, rows[n].path)]
             /\ UNCHANGED <<rows, files, next, raced, rolled>>
<1>1. /\ pc[a] = "idle" /\ pc' = [pc EXCEPT ![a] = "found"] /\ UNCHANGED <<rows, files, next, raced, rolled>>
      /\ \E n \in DOMAIN rows : mem' = [mem EXCEPT ![a].target = rows[n].path]
  BY DEF FindTarget, Go
<1>2. mem[a] = NoMem
  BY <1>1, Tables DEF Holds
<1> QED  BY <1>1, <1>2, Tables DEF Targets

LEMMA ListStep ==
    ASSUME Typed, NEW a \in Actors, ListSubtree(a)
    PROVE  /\ pc[a] = "found" /\ pc' = [pc EXCEPT ![a] = "listed"]
           /\ mem' = [mem EXCEPT ![a] = Lists(mem[a], Subtree(mem[a].target))]
           /\ Subtree(mem[a].target) \in SUBSET Ids
           /\ UNCHANGED <<rows, files, next, raced, rolled>>
BY Tables DEF ListSubtree, Go, Lists, Subtree

LEMMA EmptyStep ==
    ASSUME Typed, NEW a \in Actors, DeleteFiles(a)
    PROVE  /\ pc[a] = "listed" /\ pc' = [pc EXCEPT ![a] = "emptied"] /\ mem' = [mem EXCEPT ![a] = mem[a]]
           /\ mem' = mem
           /\ files' \subseteq files /\ files \ mem[a].listed \subseteq files'
           /\ UNCHANGED <<rows, next, raced, rolled>>
BY Tables DEF DeleteFiles, Go, delete

LEMMA SweepingStep ==
    ASSUME Typed, NEW a \in Actors, StartSweep(a)
    PROVE  /\ pc[a] = "emptied" /\ pc' = [pc EXCEPT ![a] = "sweeping"]
           /\ mem' = [mem EXCEPT ![a] = Deletes(mem[a], Subtree(mem[a].target))]
           /\ Subtree(mem[a].target) \in SUBSET Ids
           /\ UNCHANGED <<rows, files, next, raced, rolled>>
BY Tables DEF StartSweep, Go, Deletes, Subtree

LEMMA DeleteStep ==
    ASSUME Typed, NEW a \in Actors, DeleteRows(a)
    PROVE  /\ pc[a] = "sweeping" /\ pc' = [pc EXCEPT ![a] = "deleted"]
           /\ mem' = [mem EXCEPT ![a] = Deletes(mem[a], mem[a].gone \cap DOMAIN rows)]
           /\ mem[a].gone \cap DOMAIN rows \in SUBSET Ids
           /\ UNCHANGED <<rows, files, next, raced, rolled>>
BY Tables DEF DeleteRows, Go, Deletes

LEMMA ResolveStep ==
    ASSUME Typed, NEW a \in Actors, resolve_path(a)
    PROVE  \E id \in mem[a].ids, place \in Paths :
             /\ pc[a] = "placing" /\ id \in Ids
             /\ \/ mem[a].parent = 0 /\ place = <<>>
                \/ mem[a].parent \in DOMAIN rows /\ place = rows[mem[a].parent].path
             /\ mem' = [mem EXCEPT ![a] = Resolved(mem[a], id, Append(place, id))]
             /\ pc' = [pc EXCEPT ![a] = IF mem[a].ids = {id} THEN "placed" ELSE "placing"]
             /\ \E low, high \in Nat : mem[a].ids \ {id} = low..high
             /\ UNCHANGED <<rows, files, next, raced, rolled>>
<1> DEFINE m == mem[a]
           id == CHOOSE i \in m.ids : \A j \in m.ids : i <= j
           place == ParentPath(m.parent)
<1>1. /\ pc[a] = "placing" /\ (m.parent = 0 \/ m.parent \in DOMAIN rows)
      /\ mem' = [mem EXCEPT ![a].ids = @ \ {id}, ![a].paths = Append(@, Append(place, id))]
      /\ pc' = [pc EXCEPT ![a] = IF m.ids = {id} THEN "placed" ELSE "placing"]
      /\ UNCHANGED <<rows, files, next, raced, rolled>>
  BY DEF resolve_path
<1>2. m \in Memory /\ m.ids # {} /\ m.ids \subseteq Ids
  BY <1>1, Tables, Fields DEF Holds
<1>3. PICK low \in Nat, high \in Nat : m.ids = low..high
  BY <1>1, Tables DEF Holds
<1>4. id = low
  <2>1. low \in m.ids /\ \A j \in m.ids : low <= j
    BY <1>2, <1>3
  <2>2. id \in m.ids /\ \A j \in m.ids : id <= j
    BY <2>1
  <2> QED  BY <1>3, <2>1, <2>2
<1>5. m.ids \ {id} = (low + 1)..high
  <2>1. (low..high) \ {low} = (low + 1)..high
    OBVIOUS
  <2> QED  BY <1>3, <1>4, <2>1
<1>6. place \in Paths /\ id \in m.ids
  BY <1>1, <1>2, <1>3, <1>4, Tables DEF ParentPath, Paths
<1> HIDE DEF id
<1>7. mem' = [mem EXCEPT ![a] = Resolved(m, id, Append(place, id))]
  BY <1>1, Tables DEF Resolved
<1>8. \/ m.parent = 0 /\ place = <<>>
      \/ m.parent \in DOMAIN rows /\ place = rows[m.parent].path
  <2>1. \A n \in DOMAIN rows : n # 0
    BY Tables DEF Ids
  <2> QED  BY <1>1, <2>1 DEF ParentPath
<1>9. \E from, to \in Nat : m.ids \ {id} = from..to
  <2> WITNESS low + 1 \in Nat, high \in Nat
  <2> QED  BY <1>5
<1>10. id \in Ids
  BY <1>2, <1>6
<1> HIDE DEF place
<1> QED  BY <1>1, <1>6, <1>7, <1>8, <1>9, <1>10

\* Of several paths that end in a node, one is taken.
LEMMA PathTaken ==
    ASSUME NEW paths \in Seq(Paths), NEW n \in IdsOf(paths)
    PROVE  \E i \in 1..Len(paths) : PathOf(paths, n) = paths[i] /\ Last(paths[i]) = n
<1>1. DOMAIN paths = 1..Len(paths)
  OBVIOUS
<1>2. \E i \in DOMAIN paths : Last(paths[i]) = n
  BY DEF IdsOf
<1> DEFINE i == CHOOSE i \in DOMAIN paths : Last(paths[i]) = n
<1>3. i \in DOMAIN paths /\ Last(paths[i]) = n
  BY <1>2
<1> QED  BY <1>1, <1>3 DEF PathOf

\* The rows of a request appear together, under their ids.
LEMMA CommitStep ==
    ASSUME Typed, NEW a \in Actors, CommitNodes(a)
    PROVE  /\ pc[a] = "placed" /\ End(a) /\ UNCHANGED <<files, next, rolled>>
           /\ DOMAIN rows' = DOMAIN rows \cup Held(a)
           /\ \A n \in DOMAIN rows : n \notin Held(a) => rows'[n] = rows[n]
           /\ \A n \in Held(a) :
                 /\ rows'[n].type = mem[a].type
                 /\ \E i \in 1..Len(mem[a].paths) :
                      rows'[n].path = mem[a].paths[i] /\ Last(mem[a].paths[i]) = n
           /\ raced \subseteq raced' /\ raced' \subseteq raced \cup Held(a)
           /\ mem[a].raced => Held(a) \subseteq raced'
           /\ \A b \in Actors : pc[b] \in {"sweeping", "deleted"} /\ Under(mem[b].target, mem[a].paths[1])
                                  => Held(a) \subseteq raced'
<1>1. mem[a] \in Memory /\ pc[a] = "placed" /\ mem[a].ids = {}
  BY Tables DEF CommitNodes, Holds
<1>2. IdsOf(mem[a].paths) = Held(a)
  BY <1>1, Fields DEF IdsOf, Held
<1>3. /\ End(a) /\ UNCHANGED <<files, next, rolled>>
      /\ rows' = [n \in DOMAIN rows \cup Held(a) |->
                     IF n \in Held(a) THEN [type |-> mem[a].type, path |-> PathOf(mem[a].paths, n)]
                     ELSE rows[n]]
      /\ raced' = IF \/ mem[a].raced
                     \/ \E b \in Actors : /\ pc[b] \in {"sweeping", "deleted"}
                                          /\ Under(mem[b].target, mem[a].paths[1])
                  THEN raced \cup Held(a) ELSE raced
  BY <1>2 DEF CommitNodes
<1>4. ASSUME NEW n \in Held(a)
      PROVE  \E i \in 1..Len(mem[a].paths) :
                PathOf(mem[a].paths, n) = mem[a].paths[i] /\ Last(mem[a].paths[i]) = n
  BY <1>1, <1>2, Fields, PathTaken
<1> QED  BY <1>1, <1>3, <1>4

\* The rows that were deleted disappear together; who created under them has raced.
LEMMA SweepStep ==
    ASSUME Typed, NEW a \in Actors, CommitDelete(a)
    PROVE  /\ pc[a] = "deleted" /\ pc' = [pc EXCEPT ![a] = "idle"] /\ mem'[a] = NoMem
           /\ mem' \in [Actors -> Memory]
           /\ \A b \in Actors : b # a =>
                 mem'[b] = Races(mem[b], \/ mem[b].raced
                                         \/ mem[b].paths # <<>> /\ Under(mem[a].target, mem[b].paths[1]))
           /\ DOMAIN rows' = DOMAIN rows \ mem[a].gone
           /\ \A n \in DOMAIN rows' : rows'[n] = rows[n]
           /\ UNCHANGED <<files, next, raced, rolled>>
<1> DEFINE yes(b) == \/ mem[b].raced
                     \/ mem[b].paths # <<>> /\ Under(mem[a].target, mem[b].paths[1])
<1>1. /\ pc[a] = "deleted" /\ pc' = [pc EXCEPT ![a] = "idle"]
      /\ rows' = [n \in DOMAIN rows \ mem[a].gone |-> rows[n]]
      /\ UNCHANGED <<files, next, raced, rolled>>
  BY DEF CommitDelete
<1>2. mem' = [b \in Actors |-> IF b = a THEN NoMem ELSE Races(mem[b], yes(b))]
  BY DEF CommitDelete, Races
<1>3. \A b \in Actors : yes(b) \in BOOLEAN
  BY SMT
<1> HIDE DEF yes
<1>4. \A b \in Actors : Races(mem[b], yes(b)) \in Memory
  BY <1>3, Tables, RacesHolds
<1>5. mem' \in [Actors -> Memory] /\ mem'[a] = NoMem
      /\ \A b \in Actors : b # a => mem'[b] = Races(mem[b], yes(b))
  BY <1>2, <1>4, NoMemIsMemory
<1> QED  BY <1>1, <1>5 DEF yes
-----------------------------------------------------------------------------
(***************************************************************************)
(* Type correctness.                                                       *)
(***************************************************************************)
LEMMA HeldAreIds == ASSUME Typed, NEW a \in Actors  PROVE Held(a) \subseteq Ids
<1>1. mem[a] \in Memory /\ \A i \in 1..Len(mem[a].paths) : mem[a].paths[i] # <<>>
  BY Tables DEF Holds
<1>2. \A i \in 1..Len(mem[a].paths) : Last(mem[a].paths[i]) \in Ids
  BY <1>1, Fields, Split
<1> QED  BY <1>1, <1>2, Fields DEF Held

LEMMA NoMemHolds == ASSUME NEW a, pc[a] = "idle", mem[a] = NoMem  PROVE Holds(a)
BY DEF Holds, NoMem, Creating, Deleting

LEMMA NoMemEmpty ==
    /\ NoMem.paths = <<>> /\ NoMem.ids = {} /\ NoMem.target = <<>> /\ NoMem.listed = {}
    /\ NoMem.gone = {} /\ NoMem.parent = 0 /\ Len(NoMem.paths) = 0
BY DEF NoMem

LEMMA RacesSame == ASSUME NEW m \in Memory  PROVE Races(m, m.raced) = m
BY DEF Races, Memory

LEMMA TypedTakes ==
    ASSUME Typed, NEW a \in Actors, NEW type \in Types, NEW count \in 1..MaxSitemap, Takes(a, type, count),
           files' \subseteq Ids
    PROVE  Typed'
<1>1. PICK parent \in {0} \cup DOMAIN rows :
         LET ids == next..(next + count - 1) IN
         /\ pc' = [pc EXCEPT ![a] = "placing"]
         /\ mem' = [mem EXCEPT ![a] = With(NoMem, type, parent, ids)]
         /\ next' \in 1..(MaxNodes + 1) /\ ids \in SUBSET Ids /\ ids # {}
         /\ UNCHANGED <<rows, raced, rolled>>
  BY TakesStep
<1> DEFINE ids == next..(next + count - 1)
           m == With(NoMem, type, parent, ids)
<1>2. next \in Nat /\ next + count - 1 \in Nat
  BY Tables
<1>3. ids \in SUBSET Ids /\ ids # {} /\ \E low, high \in Nat : ids = low..high
  BY <1>1, <1>2
<1> HIDE DEF ids
<1>4. /\ m \in Memory /\ m.type = type /\ m.ids = ids /\ m.paths = <<>>
      /\ m.target = <<>> /\ m.listed = {} /\ m.gone = {}
  BY <1>3, WithHolds, NoMemIsMemory, NoMemEmpty, Tables
<1>5. pc' = [pc EXCEPT ![a] = "placing"] /\ mem' = [mem EXCEPT ![a] = m]
  BY <1>1 DEF ids
<1> HIDE DEF m
<1>6. pc'[a] = "placing" /\ mem'[a] = m
  BY <1>5, Tables
<1>7. Holds(a)'
  <2>1. Len(m.paths) = 0 /\ \E low, high \in Nat : m.ids = low..high
    BY <1>3, <1>4
  <2>2. \A i \in 1..Len(m.paths) : m.paths[i] # <<>>
    BY <2>1
  <2> HIDE DEF m
  <2> QED  BY <1>3, <1>4, <1>6, <2>1, <2>2 DEF Holds, Creating, Deleting
<1> QED  BY <1>1, <1>4, <1>5, <1>7, Tables, TypedMove DEF States

LEMMA TypedCreate ==
    ASSUME Typed, NEW a \in Actors, create_directory(a) \/ create_file_source(a) \/ import_sitemap(a)
    PROVE  Typed'
<1>1. CASE create_directory(a)
  BY <1>1, TypedTakes, Tables, Bounds DEF create_directory, Types
<1>2. CASE create_file_source(a)
  <2>1. Takes(a, "file", 1) /\ files' = files \cup {next}
    BY <1>2 DEF create_file_source, save
  <2>2. next \in Ids
    BY <2>1, Tables, Bounds DEF Takes, Ids
  <2> QED  BY <2>1, <2>2, TypedTakes, Tables, Bounds DEF Types
<1>3. CASE import_sitemap(a)
  BY <1>3, TypedTakes, Tables DEF import_sitemap, Types
<1> QED  BY <1>1, <1>2, <1>3

LEMMA TypedResolve == ASSUME Typed, NEW a \in Actors, resolve_path(a)  PROVE Typed'
<1>1. PICK id \in mem[a].ids, place \in Paths :
         /\ pc[a] = "placing" /\ id \in Ids
         /\ mem' = [mem EXCEPT ![a] = Resolved(mem[a], id, Append(place, id))]
         /\ pc' = [pc EXCEPT ![a] = IF mem[a].ids = {id} THEN "placed" ELSE "placing"]
         /\ \E low, high \in Nat : mem[a].ids \ {id} = low..high
         /\ UNCHANGED <<rows, files, next, raced, rolled>>
  BY ResolveStep
<1> DEFINE path == Append(place, id)
           m == Resolved(mem[a], id, path)
           to == IF mem[a].ids = {id} THEN "placed" ELSE "placing"
<1>2. path \in Paths /\ path # <<>> /\ mem[a] \in Memory /\ Holds(a)
  BY <1>1, Extended, Tables
<1>3. mem' = [mem EXCEPT ![a] = m] /\ pc' = [pc EXCEPT ![a] = to]
  BY <1>1
<1> HIDE DEF path
<1>4. /\ m \in Memory /\ m.type = mem[a].type /\ m.ids = mem[a].ids \ {id}
      /\ m.paths = Append(mem[a].paths, path) /\ m.target = mem[a].target
      /\ m.listed = mem[a].listed /\ m.gone = mem[a].gone
  BY <1>1, <1>2, ResolvedHolds
<1> HIDE DEF m
<1>5. m.paths # <<>> /\ \A i \in 1..Len(m.paths) : m.paths[i] # <<>>
  <2>1. /\ mem[a].paths \in Seq(Paths) /\ Len(mem[a].paths) \in Nat
        /\ \A i \in 1..Len(mem[a].paths) : mem[a].paths[i] # <<>>
    BY <1>2, Fields DEF Holds
  <2>2. /\ Len(m.paths) = Len(mem[a].paths) + 1 /\ m.paths[Len(mem[a].paths) + 1] = path
        /\ \A i \in 1..Len(mem[a].paths) : m.paths[i] = mem[a].paths[i]
    BY <1>2, <1>4, <2>1
  <2>3. \A i \in 1..(Len(mem[a].paths) + 1) : i \in 1..Len(mem[a].paths) \/ i = Len(mem[a].paths) + 1
    BY <2>1
  <2> QED  BY <1>2, <1>4, <2>1, <2>2, <2>3
<1>6. pc'[a] = to /\ mem'[a] = m /\ to \in {"placed", "placing"} /\ to \in States
  BY <1>3, Tables DEF States
<1>7. to = "placed" <=> m.ids = {}
  BY <1>1, <1>4
<1>8. \E low, high \in Nat : m.ids = low..high
  BY <1>1, <1>4
<1> HIDE DEF to
<1>9. Holds(a)'
  <2>1. mem[a].type \in Types /\ mem[a].target = <<>> /\ mem[a].listed = {} /\ mem[a].gone = {}
    BY <1>1, <1>2 DEF Holds, Creating
  <2>2. m.type \in Types /\ m.target = <<>> /\ m.listed = {} /\ m.gone = {}
    BY <1>4, <2>1
  <2> QED  BY <1>5, <1>6, <1>7, <1>8, <2>2 DEF Holds, Creating, Deleting
<1>10. UNCHANGED <<rows, files, next, raced, rolled>>
  BY <1>1
<1> QED  BY <1>3, <1>4, <1>6, <1>9, <1>10, Tables, TypedMove

LEMMA TypedFind == ASSUME Typed, NEW a \in Actors, FindTarget(a)  PROVE Typed'
<1>1. PICK n \in DOMAIN rows :
         /\ pc' = [pc EXCEPT ![a] = "found"] /\ mem' = [mem EXCEPT ![a] = Targets(NoMem, rows[n].path)]
         /\ UNCHANGED <<rows, files, next, raced, rolled>>
  BY FindStep
<1> DEFINE m == Targets(NoMem, rows[n].path)
<1>2. rows[n].path \in Paths /\ rows[n].path # <<>>
  BY Tables
<1>3. m \in Memory /\ m.ids = {} /\ m.paths = <<>> /\ m.target = rows[n].path
  BY <1>2, TargetsHolds, NoMemIsMemory, NoMemEmpty
<1>4. mem' = [mem EXCEPT ![a] = m]
  BY <1>1
<1> HIDE DEF m
<1>5. pc'[a] = "found" /\ mem'[a] = m
  BY <1>1, <1>4, Tables
<1>6. Holds(a)'
  BY <1>2, <1>3, <1>5 DEF Holds, Creating, Deleting
<1> QED  BY <1>1, <1>3, <1>4, <1>6, Tables, TypedMove DEF States

\* A deletion that goes on holds what it did and the nodes it has found.
LEMMA TypedSweep ==
    ASSUME Typed, NEW a \in Actors, ListSubtree(a) \/ DeleteFiles(a) \/ StartSweep(a) \/ DeleteRows(a)
    PROVE  Typed'
<1>0. mem[a] \in Memory /\ Holds(a) /\ files \subseteq Ids
  BY Tables
<1>1. ASSUME NEW m \in Memory, NEW to \in {"listed", "emptied", "sweeping", "deleted"}, pc[a] \in Deleting,
             pc' = [pc EXCEPT ![a] = to], mem' = [mem EXCEPT ![a] = m], files' \subseteq files,
             m.ids = mem[a].ids, m.paths = mem[a].paths, m.target = mem[a].target,
             UNCHANGED <<rows, next, raced, rolled>>
      PROVE  Typed'
  <2>1. pc'[a] = to /\ mem'[a] = m
    BY <1>1, Tables
  <2>2. Holds(a)'
    BY <1>0, <1>1, <2>1 DEF Holds, Creating, Deleting
  <2> QED  BY <1>0, <1>1, <2>2, Tables, TypedMove DEF States
<1>2. CASE ListSubtree(a)
  BY <1>0, <1>1, <1>2, ListStep, ListsHolds DEF Deleting
<1>3. CASE DeleteFiles(a)
  BY <1>0, <1>1, <1>3, EmptyStep DEF Deleting
<1>4. CASE DeleteRows(a)
  BY <1>0, <1>1, <1>4, DeleteStep, DeletesHolds DEF Deleting
<1>5. CASE StartSweep(a)
  BY <1>0, <1>1, <1>5, SweepingStep, DeletesHolds DEF Deleting
<1> QED  BY <1>2, <1>3, <1>4, <1>5

LEMMA TypedCommit == ASSUME Typed, NEW a \in Actors, CommitNodes(a)  PROVE Typed'
<1>1. mem[a] \in Memory /\ mem[a].type \in Types /\ Held(a) \subseteq Ids
      /\ \A i \in 1..Len(mem[a].paths) : mem[a].paths[i] \in Paths /\ mem[a].paths[i] # <<>>
  <2>1. pc[a] = "placed"
    BY CommitStep
  <2>2. mem[a] \in Memory /\ Holds(a)
    BY Tables
  <2>3. \A i \in 1..Len(mem[a].paths) : mem[a].paths[i] \in Paths
    BY <2>2, Fields
  <2>4. Held(a) \subseteq Ids
    BY HeldAreIds
  <2> QED  BY <2>1, <2>2, <2>3, <2>4 DEF Holds, Creating
<1>2. ASSUME NEW n \in DOMAIN rows'
      PROVE  rows'[n] \in Source /\ rows'[n].path # <<>> /\ Last(rows'[n].path) = n
  <2>1. CASE n \in Held(a)
    <3>1. PICK i \in 1..Len(mem[a].paths) : rows'[n].path = mem[a].paths[i] /\ Last(mem[a].paths[i]) = n
      BY <2>1, CommitStep
    <3>2. rows'[n] = [type |-> mem[a].type, path |-> PathOf(mem[a].paths, n)]
      <4>1. IdsOf(mem[a].paths) = Held(a)
        BY <1>1, CommitStep, Tables, Fields DEF IdsOf, Held, Holds
      <4> QED  BY <2>1, <4>1 DEF CommitNodes
    <3> QED  BY <1>1, <3>1, <3>2 DEF Source, Types, Paths, Ids
  <2>2. CASE n \notin Held(a)
    <3>1. n \in DOMAIN rows /\ rows'[n] = rows[n]
      BY <2>2, CommitStep
    <3> QED  BY <3>1 DEF Typed, TypeOK
  <2> QED  BY <2>1, <2>2
<1>3. DOMAIN rows' \subseteq Ids /\ raced' \subseteq Ids
  BY <1>1, CommitStep, Tables
<1>4. pc' \in [Actors -> States] /\ mem' \in [Actors -> Memory]
  BY CommitStep, Ended
<1>5. ASSUME NEW b \in Actors  PROVE Holds(b)'
  <2>1. CASE b = a
    <3>1. pc'[b] = "idle" /\ mem'[b] = NoMem
      BY <2>1, CommitStep, Ended
    <3> QED  BY <3>1, NoMemEmpty DEF Holds, Creating, Deleting
  <2>2. CASE b # a
    <3>1. pc'[b] = pc[b] /\ mem'[b] = mem[b] /\ Holds(b)
      <4>1. End(a)
        BY CommitStep
      <4> QED  BY <2>2, <4>1, Ended, Tables
    <3> QED  BY <3>1 DEF Holds
  <2> QED  BY <2>1, <2>2
<1>6. TypeOK'
  BY <1>2, <1>3, <1>4, CommitStep, Tables DEF TypeOK, Ids, States
<1> QED  BY <1>2, <1>4, <1>5, <1>6 DEF Typed

LEMMA TypedDelete == ASSUME Typed, NEW a \in Actors, CommitDelete(a)  PROVE Typed'
<1>1. \A n \in DOMAIN rows' : n \in DOMAIN rows /\ rows'[n] = rows[n]
  BY SweepStep
<1>2. ASSUME NEW b \in Actors  PROVE Holds(b)'
  <2>1. CASE b = a
    <3>1. pc'[b] = "idle" /\ mem'[b] = NoMem
      BY <2>1, SweepStep, Tables
    <3> QED  BY <3>1, NoMemEmpty DEF Holds, Creating, Deleting
  <2>2. CASE b # a
    <3> DEFINE yes == \/ mem[b].raced
                      \/ mem[b].paths # <<>> /\ Under(mem[a].target, mem[b].paths[1])
    <3>1. pc'[b] = pc[b] /\ mem'[b] = Races(mem[b], yes) /\ Holds(b) /\ mem[b] \in Memory
      BY <2>2, SweepStep, Tables
    <3>2. yes \in BOOLEAN
      BY SMT
    <3> HIDE DEF yes
    <3>3. /\ mem'[b].type = mem[b].type /\ mem'[b].ids = mem[b].ids /\ mem'[b].paths = mem[b].paths
          /\ mem'[b].target = mem[b].target /\ mem'[b].listed = mem[b].listed /\ mem'[b].gone = mem[b].gone
      BY <3>1, <3>2, RacesHolds
    <3>4. mem'[b] = NoMem \/ pc[b] # "idle"
      <4>1. CASE pc[b] = "idle"
        <5>1. mem[b] = NoMem
          BY <3>1, <4>1 DEF Holds
        <5>2. mem[b].raced = FALSE /\ mem[b].paths = <<>>
          BY <5>1 DEF NoMem
        <5>3. yes = mem[b].raced
          BY <5>2 DEF yes
        <5> QED  BY <3>1, <5>1, <5>3, RacesSame
      <4> QED  BY <4>1
    <3> QED  BY <3>1, <3>3, <3>4 DEF Holds
  <2> QED  BY <2>1, <2>2
<1>3. pc' \in [Actors -> States] /\ mem' \in [Actors -> Memory]
  BY SweepStep, Tables DEF States
<1>4. TypeOK'
  BY <1>1, <1>3, SweepStep, Tables DEF Typed, TypeOK, Ids, States
<1> QED  BY <1>1, <1>2, <1>3, <1>4 DEF Typed

LEMMA TypedFails == ASSUME Typed, NEW a \in Actors, Fails(a)  PROVE Typed'
<1>1. End(a) /\ UNCHANGED <<rows, files, next, raced>> /\ rolled' \subseteq rolled \cup mem[a].listed
  BY DEF Fails
<1>2. mem[a].listed \subseteq Ids
  BY Tables, Fields
<1>3. Holds(a)'
  BY <1>1, Ended, NoMemEmpty DEF Holds, Creating, Deleting
<1> QED  BY <1>1, <1>2, <1>3, Ended, NoMemIsMemory, Tables, TypedMove DEF States

LEMMA TypedInit == ASSUME Init  PROVE Typed
<1>1. /\ DOMAIN rows = {} /\ files = {} /\ next = 1 /\ raced = {} /\ rolled = {}
      /\ pc = [a \in Actors |-> "idle"] /\ mem = [a \in Actors |-> NoMem]
  BY DEF Init
<1>2. TypeOK
  BY <1>1, Bounds DEF TypeOK
<1>3. \A a \in Actors : Holds(a)
  BY <1>1, NoMemHolds
<1> QED  BY <1>1, <1>2, <1>3, NoMemIsMemory DEF Typed

LEMMA TypedNext == ASSUME Typed, [Next]_vars  PROVE Typed'
<1>1. CASE UNCHANGED vars
  BY <1>1 DEF vars, Typed, TypeOK, Holds
<1>2. CASE Next
  BY <1>2, TypedCreate, TypedResolve, TypedFind, TypedSweep, TypedCommit, TypedDelete, TypedFails DEF Next
<1> QED  BY <1>1, <1>2

\* Rows, files and what each request holds keep their types, and a node's path
\* ends in the node.
THEOREM TypeCorrect == Spec => []Typed
<1>1. Init => Typed
  BY TypedInit
<1>2. Typed /\ [Next]_vars => Typed'
  BY TypedNext
<1> QED  BY <1>1, <1>2, PTL DEF Spec
-----------------------------------------------------------------------------
(***************************************************************************)
(* Ids are nobody else's until they are committed.                         *)
(***************************************************************************)
LEMMA FreshKept ==
    ASSUME Typed, Fresh, next' = next, DOMAIN rows' \subseteq DOMAIN rows,
           \A b \in Actors : Held(b)' \subseteq Held(b) /\ Seen(b)' \subseteq Seen(b) \cup DOMAIN rows \cup {0}
    PROVE  Fresh'
<1>1. \A a \in Actors : 0 \notin Held(a)
  BY HeldAreIds DEF Ids
<1>2. next \in Nat /\ 0 < next
  BY Tables
<1>3. ASSUME NEW a \in Actors, NEW n \in Held(a)'
      PROVE  /\ n < next' /\ n \notin DOMAIN rows'
             /\ \A b \in Actors : n \notin Seen(b)' /\ (n \in Held(b)' => b = a)
  BY <1>1, <1>3 DEF Fresh
<1>4. \A a \in Actors : \A n \in Seen(a)' : n < next'
  BY <1>2 DEF Fresh
<1> QED  BY <1>3, <1>4 DEF Fresh

\* What a request holds and sees goes by what is in its memory.
LEMMA Same ==
    ASSUME NEW b, mem'[b] = mem[b], pc'[b] = pc[b]
    PROVE  Held(b)' = Held(b) /\ Seen(b)' = Seen(b)
BY DEF Held, Seen

LEMMA Emptied ==
    ASSUME NEW b, mem'[b] = NoMem, pc'[b] = "idle"
    PROVE  Held(b)' = {} /\ Seen(b)' = {0}
BY NoMemEmpty DEF Held, Seen, Deleting

LEMMA SweeperHolds ==
    ASSUME Typed, NEW a \in Actors, pc[a] \in Deleting \cup {"idle"}
    PROVE  Held(a) = {} /\ mem[a].ids = {} /\ mem[a].paths = <<>>
<1>1. mem[a].ids = {} /\ mem[a].paths = <<>>
  BY Tables, NoMemEmpty DEF Holds
<1> QED  BY <1>1 DEF Held

LEMMA FreshTakes ==
    ASSUME Typed, Fresh, NEW a \in Actors, NEW type \in Types, NEW count \in 1..MaxSitemap, Takes(a, type, count)
    PROVE  Fresh' /\ Held(a)' = next..(next + count - 1)
<1>1. PICK parent \in {0} \cup DOMAIN rows :
         LET ids == next..(next + count - 1) IN
         /\ pc[a] = "idle" /\ pc' = [pc EXCEPT ![a] = "placing"]
         /\ mem' = [mem EXCEPT ![a] = With(NoMem, type, parent, ids)]
         /\ next' = next + count /\ ids \in SUBSET Ids
         /\ UNCHANGED <<rows, raced, rolled>>
  BY TakesStep
<1> DEFINE ids == next..(next + count - 1)
<1>2. /\ pc'[a] = "placing" /\ mem'[a] = With(NoMem, type, parent, ids)
      /\ \A b \in Actors : b # a => mem'[b] = mem[b] /\ pc'[b] = pc[b]
  BY <1>1, Tables
<1>3. /\ next \in Nat /\ next' \in Nat /\ next < next' /\ 0 < next /\ \A n \in ids : ~ (n < next) /\ n < next' /\ n # 0
  BY <1>1, Tables, Bounds
<1>4. ids \in SUBSET Ids
  BY <1>1
<1> HIDE DEF ids
<1>5. /\ mem'[a].ids = ids /\ mem'[a].paths = <<>> /\ mem'[a].parent = parent
      /\ mem'[a].listed = {} /\ mem'[a].gone = {}
  BY <1>2, <1>4, WithHolds, NoMemIsMemory, NoMemEmpty, Tables, SMTT(30)
<1>6. Held(a)' = ids /\ Seen(a)' = {parent}
  BY <1>2, <1>5 DEF Held, Seen, Deleting
<1>7. \A b \in Actors : b # a => Held(b)' = Held(b) /\ Seen(b)' = Seen(b)
  BY <1>2, Same
<1>8. \A n \in DOMAIN rows : n < next /\ n \in Nat
  BY Tables DEF Fresh, Ids
<1>9. \A b \in Actors : Held(b) \subseteq Ids /\ \A n \in Held(b) : n \in Nat /\ n # 0
  BY HeldAreIds DEF Ids
<1>10. \A b \in Actors : \A n \in Seen(b) : n \in Nat
  <2> TAKE b \in Actors
  <2>1. mem[b].parent \in Nat /\ mem[b].listed \subseteq Nat /\ mem[b].gone \subseteq Nat
    BY Tables, Fields, Bounds DEF Ids
  <2> QED  BY <2>1 DEF Seen, Ids
<1>11. Fresh'
  <2>1. \A n \in DOMAIN rows' : n < next'
    BY <1>1, <1>3, <1>8
  <2>2. ASSUME NEW b \in Actors, NEW n \in Seen(b)'  PROVE n < next'
    <3>1. CASE b = a
      <4>1. n = parent
        BY <1>6, <2>2, <3>1
      <4> QED  BY <1>3, <1>8, <4>1
    <3>2. CASE b # a
      <4>1. n \in Seen(b) /\ n < next /\ n \in Nat
        BY <1>7, <1>10, <2>2, <3>2 DEF Fresh
      <4> QED  BY <1>3, <4>1
    <3> QED  BY <3>1, <3>2
  <2>3. ASSUME NEW b \in Actors, NEW n \in Held(b)'
        PROVE  /\ n < next' /\ n \notin DOMAIN rows'
               /\ \A c \in Actors : n \notin Seen(c)' /\ (n \in Held(c)' => c = b)
    <3>1. CASE b = a
      <4>1. n \in ids /\ n < next' /\ ~ (n < next) /\ n # 0
        BY <1>3, <1>6, <2>3, <3>1
      <4>2. n \notin DOMAIN rows /\ n # parent
        BY <1>8, <4>1
      <4>3. \A c \in Actors : n \notin Seen(c) /\ n \notin Held(c)
        BY <4>1 DEF Fresh
      <4> QED  BY <1>1, <1>6, <1>7, <3>1, <4>1, <4>2, <4>3
    <3>2. CASE b # a
      <4>1. /\ n \in Held(b) /\ n < next /\ n \notin DOMAIN rows /\ n \in Nat /\ n # 0
            /\ \A c \in Actors : n \notin Seen(c) /\ (n \in Held(c) => c = b)
        BY <1>7, <1>9, <2>3, <3>2 DEF Fresh
      <4>2. n \notin ids /\ n # parent /\ n < next'
        BY <1>3, <4>1
      <4> QED  BY <1>1, <1>6, <1>7, <3>2, <4>1, <4>2
    <3> QED  BY <3>1, <3>2
  <2> QED  BY <2>1, <2>2, <2>3 DEF Fresh
<1> QED  BY <1>6, <1>11 DEF ids

LEMMA HeldResolve ==
    ASSUME Typed, NEW a \in Actors, resolve_path(a)
    PROVE  Held(a)' = Held(a) /\ Seen(a)' = Seen(a)
<1>1. PICK id \in mem[a].ids, place \in Paths :
         /\ pc[a] = "placing" /\ id \in Ids
         /\ mem' = [mem EXCEPT ![a] = Resolved(mem[a], id, Append(place, id))]
         /\ pc' = [pc EXCEPT ![a] = IF mem[a].ids = {id} THEN "placed" ELSE "placing"]
  BY ResolveStep
<1> DEFINE path == Append(place, id)
<1>2. path \in Paths /\ Last(path) = id /\ mem[a] \in Memory /\ mem'[a] = Resolved(mem[a], id, path)
  BY <1>1, Extended, Tables
<1>3. pc'[a] \in {"placed", "placing"}
  BY <1>1, Tables
<1> HIDE DEF path
<1>4. /\ mem'[a].ids = mem[a].ids \ {id} /\ mem'[a].paths = Append(mem[a].paths, path)
      /\ mem'[a].parent = mem[a].parent /\ mem'[a].listed = mem[a].listed /\ mem'[a].gone = mem[a].gone
  BY <1>1, <1>2, ResolvedHolds
<1>5. Seen(a)' = Seen(a)
  BY <1>1, <1>3, <1>4 DEF Seen, Deleting
<1> DEFINE old == mem[a].paths
           new == mem'[a].paths
<1>6. old \in Seq(Paths) /\ Len(old) \in Nat
  BY <1>2, Fields
<1>7. /\ Len(new) = Len(old) + 1 /\ new[Len(old) + 1] = path
      /\ \A i \in 1..Len(old) : new[i] = old[i]
  BY <1>2, <1>4, <1>6
<1> HIDE DEF old, new
<1>8. {Last(new[i]) : i \in 1..Len(new)} = {Last(old[i]) : i \in 1..Len(old)} \cup {id}
  <2>1. 1..Len(new) = 1..Len(old) \cup {Len(old) + 1}
    BY <1>6, <1>7
  <2>2. \A i \in 1..Len(old) : Last(new[i]) = Last(old[i])
    BY <1>7
  <2>3. Last(new[Len(old) + 1]) = id
    BY <1>2, <1>7
  <2> QED  BY <2>1, <2>2, <2>3
<1>9. Held(a)' = (mem[a].ids \ {id}) \cup {Last(new[i]) : i \in 1..Len(new)}
  BY <1>4 DEF Held, new
<1>10. Held(a) = mem[a].ids \cup {Last(old[i]) : i \in 1..Len(old)}
  BY DEF Held, old
<1> QED  BY <1>5, <1>8, <1>9, <1>10

\* The steps of a deletion before its commit.
Deletion(a) ==
    FindTarget(a) \/ ListSubtree(a) \/ DeleteFiles(a) \/ StartSweep(a) \/ DeleteRows(a)

\* A request that deletes sees the rows that are there.
LEMMA SeenSweeping ==
    ASSUME Typed, NEW a \in Actors, Deletion(a)
    PROVE  /\ Held(a)' = {} /\ Seen(a)' \subseteq Seen(a) \cup DOMAIN rows \cup {0}
           /\ \A b \in Actors : b # a => mem'[b] = mem[b] /\ pc'[b] = pc[b]
           /\ UNCHANGED <<rows, next, raced, rolled>> /\ files' \subseteq files
           /\ files \ mem[a].listed \subseteq files'
<1>0. mem[a] \in Memory /\ Subtree(mem[a].target) \subseteq DOMAIN rows
  BY Tables DEF Subtree
<1>1. CASE FindTarget(a)
  <2>1. PICK n \in DOMAIN rows :
          /\ pc' = [pc EXCEPT ![a] = "found"] /\ mem' = [mem EXCEPT ![a] = Targets(NoMem, rows[n].path)]
          /\ UNCHANGED <<rows, files, next, raced, rolled>>
    BY <1>1, FindStep
  <2>2. /\ pc'[a] = "found" /\ mem'[a] = Targets(NoMem, rows[n].path)
        /\ \A b \in Actors : b # a => mem'[b] = mem[b] /\ pc'[b] = pc[b]
    BY <2>1, Tables
  <2>3. rows[n].path \in Paths /\ Last(rows[n].path) = n
    BY Tables
  <2>4. /\ mem'[a].ids = {} /\ mem'[a].paths = <<>> /\ mem'[a].parent = 0 /\ mem'[a].listed = {}
        /\ mem'[a].gone = {} /\ mem'[a].target = rows[n].path
    BY <2>2, <2>3, TargetsHolds, NoMemIsMemory, NoMemEmpty
  <2>5. Held(a)' = {} /\ Seen(a)' \subseteq {0, n}
    BY <2>3, <2>4 DEF Held, Seen
  <2> QED  BY <2>1, <2>2, <2>5
<1>2. ASSUME NEW m \in Memory, NEW to \in States, pc[a] \in Deleting, to \in Deleting,
             pc' = [pc EXCEPT ![a] = to], mem' = [mem EXCEPT ![a] = m],
             m.ids = mem[a].ids, m.paths = mem[a].paths, m.target = mem[a].target, m.parent = mem[a].parent,
             m.listed \subseteq mem[a].listed \cup DOMAIN rows, m.gone \subseteq mem[a].gone \cup DOMAIN rows
      PROVE  /\ Held(a)' = {} /\ Seen(a)' \subseteq Seen(a) \cup DOMAIN rows
             /\ \A b \in Actors : b # a => mem'[b] = mem[b] /\ pc'[b] = pc[b]
  <2>1. /\ pc'[a] = to /\ mem'[a] = m /\ \A b \in Actors : b # a => mem'[b] = mem[b] /\ pc'[b] = pc[b]
    BY <1>2, Tables
  <2>2. Held(a)' = {}
    BY <1>2, <2>1, SweeperHolds DEF Held
  <2> QED  BY <1>2, <2>1, <2>2 DEF Seen
<1>3. CASE ListSubtree(a)
  BY <1>0, <1>2, <1>3, ListStep, ListsHolds DEF Deleting, States
<1>4. CASE DeleteFiles(a)
  BY <1>0, <1>2, <1>4, EmptyStep DEF Deleting, States
<1>5. CASE DeleteRows(a)
  <2>1. /\ pc[a] = "sweeping" /\ pc' = [pc EXCEPT ![a] = "deleted"]
        /\ mem' = [mem EXCEPT ![a] = Deletes(mem[a], mem[a].gone \cap DOMAIN rows)]
        /\ mem[a].gone \cap DOMAIN rows \in SUBSET Ids
        /\ UNCHANGED <<rows, files, next, raced, rolled>>
    BY <1>5, DeleteStep
  <2> DEFINE m == Deletes(mem[a], mem[a].gone \cap DOMAIN rows)
  <2>2. /\ m \in Memory /\ m.ids = mem[a].ids /\ m.paths = mem[a].paths /\ m.target = mem[a].target
        /\ m.parent = mem[a].parent /\ m.listed = mem[a].listed /\ m.gone = mem[a].gone \cap DOMAIN rows
    BY <1>0, <2>1, DeletesHolds
  <2> HIDE DEF m
  <2>3. pc[a] \in Deleting /\ "deleted" \in States /\ "deleted" \in Deleting
    BY <2>1 DEF Deleting, States
  <2>4. mem' = [mem EXCEPT ![a] = m]
    BY <2>1 DEF m
  <2> QED  BY <1>2, <2>1, <2>2, <2>3, <2>4
<1>6. CASE StartSweep(a)
  BY <1>0, <1>2, <1>6, SweepingStep, DeletesHolds DEF Deleting, States
<1> QED  BY <1>1, <1>3, <1>4, <1>5, <1>6 DEF Deletion

\* Who deletes leaves what the others hold, and tells them that they have raced.
LEMMA SweepLeaves ==
    ASSUME Typed, NEW a \in Actors, CommitDelete(a), NEW b \in Actors, b # a
    PROVE  /\ pc'[b] = pc[b] /\ Held(b)' = Held(b) /\ Seen(b)' = Seen(b)
           /\ mem'[b].type = mem[b].type /\ mem'[b].parent = mem[b].parent
           /\ mem'[b].paths = mem[b].paths /\ mem'[b].target = mem[b].target
           /\ mem'[b].listed = mem[b].listed /\ mem'[b].gone = mem[b].gone
           /\ mem[b].raced => mem'[b].raced
           /\ mem[b].paths # <<>> /\ Under(mem[a].target, mem[b].paths[1]) => mem'[b].raced
<1> DEFINE yes == \/ mem[b].raced
                  \/ mem[b].paths # <<>> /\ Under(mem[a].target, mem[b].paths[1])
<1>1. pc'[b] = pc[b] /\ mem'[b] = Races(mem[b], yes) /\ mem[b] \in Memory
  BY SweepStep, Tables
<1>2. yes \in BOOLEAN
  BY SMT
<1>3. (mem[b].raced => yes) /\ (mem[b].paths # <<>> /\ Under(mem[a].target, mem[b].paths[1]) => yes)
  OBVIOUS
<1> HIDE DEF yes
<1>4. /\ mem'[b].type = mem[b].type /\ mem'[b].parent = mem[b].parent /\ mem'[b].ids = mem[b].ids
      /\ mem'[b].paths = mem[b].paths /\ mem'[b].target = mem[b].target
      /\ mem'[b].listed = mem[b].listed /\ mem'[b].gone = mem[b].gone /\ mem'[b].raced = yes
  BY <1>1, <1>2, RacesHolds
<1>5. Held(b)' = Held(b) /\ Seen(b)' = Seen(b)
  BY <1>1, <1>4 DEF Held, Seen
<1> QED  BY <1>1, <1>3, <1>4, <1>5

LEMMA FreshNext == ASSUME Typed, Fresh, [Next]_vars  PROVE Fresh'
<1>1. CASE UNCHANGED vars
  BY <1>1 DEF vars, Fresh, Held, Seen
<1>2. ASSUME NEW a \in Actors, NEW type \in Types, NEW count \in 1..MaxSitemap, Takes(a, type, count)
      PROVE  Fresh'
  BY <1>2, FreshTakes
<1>3. ASSUME NEW a \in Actors, resolve_path(a)  PROVE Fresh'
  <2>1. UNCHANGED <<rows, next>> /\ \A b \in Actors : b # a => mem'[b] = mem[b] /\ pc'[b] = pc[b]
    BY <1>3, ResolveStep, Tables
  <2>2. \A b \in Actors : Held(b)' = Held(b) /\ Seen(b)' = Seen(b)
    BY <1>3, <2>1, HeldResolve, Same
  <2> QED  BY <2>1, <2>2, FreshKept
<1>4. ASSUME NEW a \in Actors, CommitNodes(a)  PROVE Fresh'
  <2>1. /\ DOMAIN rows' = DOMAIN rows \cup Held(a) /\ next' = next /\ Held(a)' = {} /\ Seen(a)' = {0}
        /\ \A b \in Actors : b # a => Held(b)' = Held(b) /\ Seen(b)' = Seen(b)
    <3>1. End(a) /\ DOMAIN rows' = DOMAIN rows \cup Held(a) /\ next' = next
      BY <1>4, CommitStep
    <3>2. /\ pc'[a] = "idle" /\ mem'[a] = NoMem
          /\ \A b \in Actors : b # a => mem'[b] = mem[b] /\ pc'[b] = pc[b]
      BY <3>1, Ended
    <3> QED  BY <3>1, <3>2, Emptied, Same
  <2>2. next \in Nat /\ 0 < next /\ \A b \in Actors : 0 \notin Held(b)
    BY Tables, HeldAreIds DEF Ids
  <2>3. \A n \in DOMAIN rows' : n < next'
    BY <2>1 DEF Fresh
  <2>4. \A b \in Actors : \A n \in Seen(b)' : n < next'
    BY <2>1, <2>2 DEF Fresh
  <2>5. ASSUME NEW b \in Actors, NEW n \in Held(b)'
        PROVE  /\ n < next' /\ n \notin DOMAIN rows'
               /\ \A c \in Actors : n \notin Seen(c)' /\ (n \in Held(c)' => c = b)
    <3>1. b # a /\ n \in Held(b) /\ n # 0
      BY <2>1, <2>2, <2>5
    <3> QED  BY <2>1, <3>1 DEF Fresh
  <2> QED  BY <2>3, <2>4, <2>5 DEF Fresh
<1>5. ASSUME NEW a \in Actors, Deletion(a)
      PROVE  Fresh'
  BY <1>5, SeenSweeping, Same, FreshKept
<1>6. ASSUME NEW a \in Actors, CommitDelete(a)  PROVE Fresh'
  <2>1. Held(a)' = {} /\ Seen(a)' = {0}
    BY <1>6, SweepStep, Emptied, Tables
  <2>2. \A b \in Actors : b # a => Held(b)' = Held(b) /\ Seen(b)' = Seen(b)
    BY <1>6, SweepLeaves
  <2> QED  BY <1>6, <2>1, <2>2, SweepStep, FreshKept
<1>7. ASSUME NEW a \in Actors, Fails(a)  PROVE Fresh'
  <2>1. End(a) /\ UNCHANGED <<rows, next>>
    BY <1>7 DEF Fails
  <2>2. Held(a)' = {} /\ Seen(a)' = {0} /\ \A b \in Actors : b # a => Held(b)' = Held(b) /\ Seen(b)' = Seen(b)
    BY <2>1, Ended, Emptied, Same
  <2> QED  BY <2>1, <2>2, FreshKept
<1>8. ASSUME NEW a \in Actors, create_directory(a) \/ create_file_source(a) \/ import_sitemap(a)
      PROVE  Fresh'
  BY <1>2, <1>8, Bounds DEF create_directory, create_file_source, import_sitemap, Types
<1> QED  BY <1>1, <1>3, <1>4, <1>5, <1>6, <1>7, <1>8 DEF Next, Deletion
-----------------------------------------------------------------------------
(***************************************************************************)
(* Where nodes lie, and what deletions find.                               *)
(***************************************************************************)
AllSweep == \A a \in Actors : Sweeps(a)
AllPlace == \A a \in Actors : Places(a)

\* The steps that write no row: they go on with one request.
RowsStay(a) ==
    \/ create_directory(a) \/ create_file_source(a) \/ import_sitemap(a) \/ resolve_path(a)
    \/ Deletion(a) \/ Fails(a)

LEMMA Created ==
    ASSUME NEW a \in Actors, create_directory(a) \/ create_file_source(a) \/ import_sitemap(a)
    PROVE  /\ \E type \in Types, count \in 1..MaxSitemap : Takes(a, type, count)
           /\ files' = files \/ files' = files \cup {next}
<1>1. 1 \in 1..MaxSitemap
  BY Bounds
<1> QED  BY <1>1 DEF create_directory, create_file_source, import_sitemap, save, Types

LEMMA RowsStayFrame ==
    ASSUME Typed, NEW a \in Actors, RowsStay(a)
    PROVE  /\ UNCHANGED <<rows, raced>>
           /\ \A b \in Actors : b # a => mem'[b] = mem[b] /\ pc'[b] = pc[b]
<1>1. CASE create_directory(a) \/ create_file_source(a) \/ import_sitemap(a)
  <2>1. PICK type \in Types, count \in 1..MaxSitemap : Takes(a, type, count)
    BY <1>1, Created
  <2> QED  BY <2>1, TakesStep, Tables
<1>2. CASE resolve_path(a)
  BY <1>2, ResolveStep, Tables
<1>3. CASE Deletion(a)
  BY <1>3, SeenSweeping
<1>4. CASE Fails(a)
  BY <1>4, Ended DEF Fails
<1> QED  BY <1>1, <1>2, <1>3, <1>4 DEF RowsStay

LEMMA SweepsSame ==
    ASSUME NEW b, Sweeps(b), mem'[b] = mem[b], pc'[b] = pc[b], UNCHANGED <<rows, raced>>
    PROVE  Sweeps(b)'
BY DEF Sweeps, Tainted

\* A deletion lists what is under its target, and deletes what is.
LEMMA SweepsStay ==
    ASSUME Typed, AllSweep, NEW a \in Actors, RowsStay(a)
    PROVE  AllSweep'
<1>1. \A b \in Actors : b # a => Sweeps(b)'
  BY RowsStayFrame, SweepsSame DEF AllSweep
<1>2. CASE pc'[a] \notin {"listed", "emptied", "sweeping", "deleted"}
  BY <1>1, <1>2 DEF AllSweep, Sweeps
<1>3. CASE ListSubtree(a)
  <2>1. /\ pc'[a] = "listed" /\ mem'[a] = Lists(mem[a], Subtree(mem[a].target)) /\ rows' = rows
        /\ mem[a] \in Memory /\ Subtree(mem[a].target) \in SUBSET Ids
    BY <1>3, ListStep, Tables
  <2>2. mem'[a].listed = Subtree(mem[a].target) /\ mem'[a].target = mem[a].target
    BY <2>1, ListsHolds
  <2>3. Sweeps(a)'
    BY <2>1, <2>2 DEF Sweeps, Subtree
  <2> QED  BY <1>1, <2>3 DEF AllSweep
<1>4. CASE DeleteFiles(a)
  <2>1. pc[a] = "listed" /\ pc'[a] = "emptied" /\ mem'[a] = mem[a] /\ rows' = rows
    BY <1>4, EmptyStep, Tables
  <2>2. Sweeps(a)'
    BY <2>1 DEF AllSweep, Sweeps
  <2> QED  BY <1>1, <2>2 DEF AllSweep
<1>5. CASE StartSweep(a)
  <2>1. /\ pc[a] = "emptied" /\ pc'[a] = "sweeping" /\ mem'[a] = Deletes(mem[a], Subtree(mem[a].target))
        /\ rows' = rows /\ mem[a] \in Memory /\ Subtree(mem[a].target) \in SUBSET Ids
    BY <1>5, SweepingStep, Tables
  <2>2. /\ mem'[a].gone = Subtree(mem[a].target) /\ mem'[a].target = mem[a].target
        /\ mem'[a].listed = mem[a].listed
    BY <2>1, DeletesHolds
  <2>3. \A n \in DOMAIN rows : n \in Subtree(mem[a].target) <=> Under(mem[a].target, rows[n].path)
    BY DEF Subtree
  <2>4. \A n \in DOMAIN rows \cap mem[a].listed : Under(mem[a].target, rows[n].path)
    BY <2>1 DEF AllSweep, Sweeps
  <2>5. Sweeps(a)'
    BY <2>1, <2>2, <2>3, <2>4 DEF Sweeps
  <2> QED  BY <1>1, <2>5 DEF AllSweep
<1>10. CASE DeleteRows(a)
  <2>1. /\ pc[a] = "sweeping" /\ pc'[a] = "deleted"
        /\ mem'[a] = Deletes(mem[a], mem[a].gone \cap DOMAIN rows) /\ UNCHANGED <<rows, raced>>
        /\ mem[a] \in Memory /\ mem[a].gone \cap DOMAIN rows \in SUBSET Ids
    BY <1>10, DeleteStep, Tables
  <2>2. /\ mem'[a].gone = mem[a].gone \cap DOMAIN rows /\ mem'[a].target = mem[a].target
        /\ mem'[a].listed = mem[a].listed
    BY <2>1, DeletesHolds
  <2>3. Sweeps(a)'
    BY <2>1, <2>2 DEF AllSweep, Sweeps, Tainted
  <2> QED  BY <1>1, <2>3 DEF AllSweep
<1>6. CASE create_directory(a) \/ create_file_source(a) \/ import_sitemap(a)
  <2>1. PICK type \in Types, count \in 1..MaxSitemap : Takes(a, type, count)
    BY <1>6, Created
  <2> QED  BY <1>2, <2>1, TakesStep, Tables
<1>7. CASE resolve_path(a)
  BY <1>2, <1>7, ResolveStep, Tables
<1>8. CASE FindTarget(a)
  BY <1>2, <1>8, FindStep, Tables
<1>9. CASE Fails(a)
  BY <1>2, <1>9, Ended DEF Fails
<1> QED  BY <1>3, <1>4, <1>5, <1>6, <1>7, <1>8, <1>9, <1>10 DEF RowsStay, Deletion

LEMMA PlacesSame ==
    ASSUME NEW b, Places(b), mem'[b] = mem[b], rows' = rows
    PROVE  Places(b)'
BY DEF Places

LEMMA PlacesEmpty == ASSUME NEW b, mem[b].paths = <<>>  PROVE Places(b)
<1>1. Len(mem[b].paths) = 0
  OBVIOUS
<1> QED  BY <1>1 DEF Places

\* Each path a request resolves is in the place of the ones before it.
LEMMA PlacesResolve ==
    ASSUME Typed, AllPlace, NEW a \in Actors, resolve_path(a)
    PROVE  Places(a)'
<1>1. PICK id \in mem[a].ids, place \in Paths :
         /\ id \in Ids
         /\ \/ mem[a].parent = 0 /\ place = <<>>
            \/ mem[a].parent \in DOMAIN rows /\ place = rows[mem[a].parent].path
         /\ mem' = [mem EXCEPT ![a] = Resolved(mem[a], id, Append(place, id))]
         /\ UNCHANGED <<rows, files, next, raced, rolled>>
  BY ResolveStep
<1> DEFINE path == Append(place, id)
           old == mem[a].paths
           new == mem'[a].paths
<1>2. path \in Paths /\ Front(path) = place /\ mem[a] \in Memory /\ mem'[a] = Resolved(mem[a], id, path)
  BY <1>1, Extended, Tables
<1> HIDE DEF path
<1>3. /\ new = Append(old, path) /\ mem'[a].parent = mem[a].parent /\ mem'[a].raced = mem[a].raced
      /\ old \in Seq(Paths) /\ Len(old) \in Nat
  <2>1. mem[a].paths \in Seq(Paths) /\ Len(mem[a].paths) \in Nat
    BY <1>2, Fields
  <2>2. id \in Ids
    BY <1>1
  <2>3. mem'[a].paths = Append(mem[a].paths, path) /\ mem'[a].parent = mem[a].parent
    BY <1>2, <2>2, ResolvedHolds
  <2>4. mem'[a].raced = mem[a].raced
    BY <1>2, <2>2, ResolvedHolds
  <2> QED  BY <2>1, <2>3, <2>4
<1>4. \A n \in DOMAIN rows : n # 0
  BY Tables DEF Ids
<1>5. \A i \in 1..Len(old) :
         /\ Front(old[i]) = Front(old[1])
         /\ IF mem[a].parent = 0 THEN Front(old[i]) = <<>>
            ELSE IF mem[a].parent \in DOMAIN rows THEN rows[mem[a].parent].path = Front(old[i])
            ELSE mem[a].raced
  BY DEF AllPlace, Places
<1> HIDE DEF old, new
<1>6. /\ Len(new) = Len(old) + 1 /\ new[Len(old) + 1] = path /\ \A i \in 1..Len(old) : new[i] = old[i]
  BY <1>2, <1>3
<1>7. ASSUME NEW i \in 1..Len(new)
      PROVE  /\ Front(new[i]) = place
             /\ IF mem[a].parent = 0 THEN Front(new[i]) = <<>>
                ELSE mem[a].parent \in DOMAIN rows /\ rows[mem[a].parent].path = Front(new[i])
  <2>1. CASE i \in 1..Len(old)
    BY <1>1, <1>4, <1>5, <1>6, <2>1
  <2>2. CASE i = Len(old) + 1
    BY <1>1, <1>2, <1>4, <1>6, <2>2
  <2> QED  BY <1>3, <1>6, <2>1, <2>2
<1>8. 1 \in 1..Len(new)
  BY <1>3, <1>6
<1> QED  BY <1>1, <1>3, <1>7, <1>8 DEF Places, new

LEMMA PlacesStay ==
    ASSUME Typed, AllPlace, NEW a \in Actors, RowsStay(a)
    PROVE  AllPlace'
<1>1. \A b \in Actors : b # a => Places(b)'
  BY RowsStayFrame, PlacesSame DEF AllPlace
<1>2. CASE mem'[a].paths = <<>>
  <2>1. Places(a)'
    <3>1. Len(mem'[a].paths) = 0
      BY <1>2
    <3> QED  BY <3>1 DEF Places
  <2> QED  BY <1>1, <2>1 DEF AllPlace
<1>3. CASE resolve_path(a)
  BY <1>1, <1>3, PlacesResolve DEF AllPlace
<1>4. CASE create_directory(a) \/ create_file_source(a) \/ import_sitemap(a)
  <2>1. PICK type \in Types, count \in 1..MaxSitemap : Takes(a, type, count)
    BY <1>4, Created
  <2>2. PICK parent \in {0} \cup DOMAIN rows :
          LET ids == next..(next + count - 1) IN
          mem' = [mem EXCEPT ![a] = With(NoMem, type, parent, ids)] /\ ids \in SUBSET Ids
    BY <2>1, TakesStep
  <2>3. mem'[a] = With(NoMem, type, parent, next..(next + count - 1))
    BY <2>2, Tables
  <2>4. mem'[a].paths = <<>>
    BY <2>2, <2>3, WithHolds, NoMemIsMemory, NoMemEmpty, Tables
  <2> QED  BY <1>2, <2>4
<1>5. CASE Deletion(a)
  <2>1. Typed' /\ pc'[a] \in Deleting
    BY <1>5, TypedFind, TypedSweep, FindStep, ListStep, EmptyStep, SweepingStep, DeleteStep, Tables
       DEF Deleting, Deletion
  <2>2. mem'[a].paths = <<>>
    BY <2>1 DEF Typed, Holds
  <2> QED  BY <1>2, <2>2
<1>6. CASE Fails(a)
  <2>1. mem'[a].paths = <<>>
    BY <1>6, Ended, NoMemEmpty DEF Fails
  <2> QED  BY <1>2, <2>1
<1> QED  BY <1>3, <1>4, <1>5, <1>6 DEF RowsStay

LEMMA TaintedKept ==
    ASSUME NEW n, rows'[n] = rows[n], raced \subseteq raced', Tainted(n)
    PROVE  Tainted(n)'
BY DEF Tainted

\* The paths a request commits, and where they lie.
LEMMA NewPaths ==
    ASSUME Typed, Fresh, AllPlace, NEW a \in Actors, CommitNodes(a), NEW n \in Held(a)
    PROVE  /\ rows'[n].path \in Paths /\ rows'[n].path # <<>> /\ Last(rows'[n].path) = n
           /\ n \in Ids /\ n \notin DOMAIN rows
           /\ Front(rows'[n].path) = Front(mem[a].paths[1])
           /\ mem[a].paths[1] \in Paths /\ mem[a].paths[1] # <<>>
           /\ \/ Front(rows'[n].path) = <<>>
              \/ mem[a].parent \in DOMAIN rows /\ rows[mem[a].parent].path = Front(rows'[n].path)
              \/ mem[a].raced
           /\ \A b \in Actors : n \notin Seen(b)
<1>1. PICK i \in 1..Len(mem[a].paths) : rows'[n].path = mem[a].paths[i] /\ Last(mem[a].paths[i]) = n
  BY CommitStep
<1>2. /\ mem[a] \in Memory /\ Len(mem[a].paths) \in Nat
      /\ \A j \in 1..Len(mem[a].paths) : mem[a].paths[j] \in Paths /\ mem[a].paths[j] # <<>>
  BY Tables, Fields DEF Holds
<1>3. 1 \in 1..Len(mem[a].paths)
  BY <1>1, <1>2
<1>4. Places(a)
  BY DEF AllPlace
<1>5. /\ Front(rows'[n].path) = Front(mem[a].paths[1])
      /\ \/ Front(rows'[n].path) = <<>>
         \/ mem[a].parent \in DOMAIN rows /\ rows[mem[a].parent].path = Front(rows'[n].path)
         \/ mem[a].raced
  BY <1>1, <1>4 DEF Places
<1>6. n \in Ids /\ n \notin DOMAIN rows /\ \A b \in Actors : n \notin Seen(b)
  BY HeldAreIds DEF Fresh
<1> QED  BY <1>1, <1>2, <1>3, <1>5, <1>6

LEMMA OldRows ==
    ASSUME Typed, Fresh, NEW a \in Actors, CommitNodes(a), NEW n \in DOMAIN rows
    PROVE  n \in DOMAIN rows' /\ rows'[n] = rows[n] /\ (Tainted(n) => Tainted(n)')
<1>1. n \notin Held(a)
  BY DEF Fresh
<1> QED  BY <1>1, CommitStep, TaintedKept

\* A node that is raced has its own id on its path.
LEMMA NewTainted ==
    ASSUME Typed, Fresh, AllPlace, NEW a \in Actors, CommitNodes(a), NEW n \in Held(a), Held(a) \subseteq raced'
    PROVE  Tainted(n)'
<1>1. /\ Len(rows'[n].path) \in Nat \ {0} /\ rows'[n].path[Len(rows'[n].path)] = n
  BY NewPaths, Split
<1> QED  BY <1>1 DEF Tainted

LEMMA SweepsCommit ==
    ASSUME Typed, Fresh, AllPlace, AllSweep, NEW a \in Actors, CommitNodes(a)
    PROVE  AllSweep'
<1> SUFFICES ASSUME NEW b \in Actors  PROVE Sweeps(b)'
  BY DEF AllSweep
<1>1. CASE b = a
  <2>1. pc'[b] = "idle"
    BY <1>1, CommitStep, Ended
  <2> QED  BY <2>1 DEF Sweeps
<1>2. CASE b # a
  <2>1. mem'[b] = mem[b] /\ pc'[b] = pc[b]
    <3>1. End(a)
      BY CommitStep
    <3> QED  BY <1>2, <3>1, Ended
  <2>2. Sweeps(b)
    BY DEF AllSweep
  <2>3. \A n \in DOMAIN rows' : n \in DOMAIN rows \/ n \in Held(a)
    BY CommitStep
  <2>4. \A n \in Held(a) : n \notin mem[b].listed /\ n \notin mem[b].gone
    BY NewPaths DEF Seen
  <2>5. pc[b] \in {"listed", "emptied", "sweeping", "deleted"} =>
          \A n \in DOMAIN rows' \cap mem[b].listed : Under(mem[b].target, rows'[n].path)
    BY <2>2, <2>3, <2>4, OldRows DEF Sweeps
  <2>6. ASSUME pc[b] \in {"sweeping", "deleted"}, NEW n \in DOMAIN rows'
        PROVE  /\ n \in mem[b].gone => Under(mem[b].target, rows'[n].path)
               /\ n \in mem[b].listed => n \in mem[b].gone
               /\ Under(mem[b].target, rows'[n].path) => n \in mem[b].gone \/ Tainted(n)'
    <3>1. CASE n \in DOMAIN rows
      BY <2>2, <2>6, <3>1, OldRows DEF Sweeps
    <3>2. CASE n \in Held(a)
      <4> SUFFICES ASSUME Under(mem[b].target, rows'[n].path)  PROVE Tainted(n)'
        BY <2>4, <3>2
      <4> DEFINE place == Front(mem[a].paths[1])
                 first == Last(mem[a].paths[1])
                 target == mem[b].target
      <4>1. /\ place \in Paths /\ first \in Ids /\ mem[a].paths[1] = Append(place, first)
            /\ rows'[n].path = Append(place, n) /\ n \in Ids /\ target \in Paths
        BY <3>2, NewPaths, Split, Tables, Fields
      <4>2. target # Append(place, n)
        <5>1. Last(target) # n
          BY <2>6, <3>2, NewPaths DEF Seen, Deleting
        <5>2. Last(Append(place, n)) = n
          BY <4>1, Extended
        <5> QED  BY <5>1, <5>2
      <4>3. Under(target, mem[a].paths[1])
        <5> HIDE DEF place, first, target
        <5>1. Under(target, Append(place, n))
          BY <4>1 DEF target
        <5>2. Under(target, place)
          BY <4>1, <4>2, <5>1, UnderExtended
        <5>3. Under(target, Append(place, first))
          BY <4>1, <5>2, UnderExtended
        <5> QED  BY <4>1, <5>3
      <4>4. Held(a) \subseteq raced'
        BY <2>6, <4>3, CommitStep
      <4> QED  BY <3>2, <4>4, NewTainted
    <3> QED  BY <2>3, <3>1, <3>2
  <2> QED  BY <2>1, <2>5, <2>6 DEF Sweeps
<1> QED  BY <1>1, <1>2

LEMMA PlacesCommit ==
    ASSUME Typed, Fresh, AllPlace, NEW a \in Actors, CommitNodes(a)
    PROVE  AllPlace'
<1> SUFFICES ASSUME NEW b \in Actors  PROVE Places(b)'
  BY DEF AllPlace
<1>0. End(a) /\ \A n \in DOMAIN rows : rows'[n] = rows[n]
  BY CommitStep, OldRows
<1>1. CASE b = a
  <2>1. Len(mem'[b].paths) = 0
    BY <1>0, <1>1, Ended, NoMemEmpty
  <2> QED  BY <2>1 DEF Places
<1>2. CASE b # a
  <2>1. mem'[b] = mem[b] /\ Places(b)
    BY <1>0, <1>2, Ended DEF AllPlace
  <2>2. mem[b].parent \notin Held(a)
    BY DEF Fresh, Seen
  <2>3. mem[b].parent \in DOMAIN rows' <=> mem[b].parent \in DOMAIN rows
    BY <2>2, CommitStep
  <2> QED  BY <1>0, <2>1, <2>3 DEF Places
<1> QED  BY <1>1, <1>2

LEMMA RootedCommit ==
    ASSUME Typed, Fresh, AllPlace, Rooted, NEW a \in Actors, CommitNodes(a)
    PROVE  Rooted'
<1> SUFFICES ASSUME NEW n \in DOMAIN rows'
             PROVE  \/ Len(rows'[n].path) = 1 \/ Tainted(n)'
                    \/ \E p \in DOMAIN rows' : rows'[p].path = Front(rows'[n].path)
  BY DEF Rooted
<1>1. CASE n \in DOMAIN rows
  BY <1>1, OldRows DEF Rooted
<1>2. CASE n \in Held(a)
  <2>1. CASE Front(rows'[n].path) = <<>>
    <3> DEFINE path == rows'[n].path
    <3>1. path \in Paths /\ path # <<>> /\ Front(path) = <<>>
      BY <1>2, <2>1, NewPaths
    <3> HIDE DEF path
    <3>2. Len(Front(path)) = Len(path) - 1 /\ Len(path) \in Nat /\ Len(Front(path)) = 0
      BY <3>1, Split
    <3>3. Len(path) = 1
      BY <3>2
    <3> QED  BY <3>3 DEF path
  <2>2. CASE mem[a].parent \in DOMAIN rows /\ rows[mem[a].parent].path = Front(rows'[n].path)
    BY <2>2, OldRows
  <2>3. CASE mem[a].raced
    BY <1>2, <2>3, CommitStep, NewTainted
  <2> QED  BY <1>2, <2>1, <2>2, <2>3, NewPaths
<1> QED  BY <1>1, <1>2, CommitStep

\* A node that survives a deletion of its directory was created while it ran.
LEMMA RootedDelete ==
    ASSUME Typed, AllSweep, Rooted, NEW a \in Actors, CommitDelete(a)
    PROVE  Rooted'
<1> SUFFICES ASSUME NEW n \in DOMAIN rows'
             PROVE  \/ Len(rows'[n].path) = 1 \/ Tainted(n)'
                    \/ \E p \in DOMAIN rows' : rows'[p].path = Front(rows'[n].path)
  BY DEF Rooted
<1>1. /\ n \in DOMAIN rows /\ rows'[n] = rows[n] /\ n \notin mem[a].gone /\ raced' = raced
      /\ DOMAIN rows' = DOMAIN rows \ mem[a].gone
  BY SweepStep
<1>2. Tainted(n) => Tainted(n)'
  BY <1>1, TaintedKept
<1>3. ASSUME NEW p \in DOMAIN rows, rows[p].path = Front(rows[n].path), p \in mem[a].gone
      PROVE  Tainted(n)
  <2>1. /\ Under(mem[a].target, rows[p].path)
        /\ Under(mem[a].target, rows[n].path) => n \in mem[a].gone \/ Tainted(n)
    BY <1>1, <1>3, SweepStep DEF AllSweep, Sweeps
  <2>2. /\ rows[p].path \in Paths /\ Last(rows[n].path) \in Ids /\ mem[a].target \in Paths
        /\ rows[n].path = Append(rows[p].path, Last(rows[n].path))
    BY <1>1, <1>3, Tables, Fields, Split
  <2>3. Under(mem[a].target, rows[n].path)
    <3>1. Under(mem[a].target, Append(rows[p].path, Last(rows[n].path)))
      BY <2>1, <2>2, UnderExtended
    <3> QED  BY <2>2, <3>1
  <2> QED  BY <1>1, <2>1, <2>3
<1>4. CASE \E p \in DOMAIN rows : rows[p].path = Front(rows[n].path)
  <2>1. PICK p \in DOMAIN rows : rows[p].path = Front(rows[n].path)
    BY <1>4
  <2>2. CASE p \in mem[a].gone
    BY <1>2, <1>3, <2>1, <2>2
  <2>3. CASE p \notin mem[a].gone
    BY <1>1, <2>1, <2>3, SweepStep
  <2> QED  BY <2>2, <2>3
<1> QED  BY <1>1, <1>2, <1>4 DEF Rooted

LEMMA SweepsDelete ==
    ASSUME Typed, AllSweep, NEW a \in Actors, CommitDelete(a)
    PROVE  AllSweep'
<1> SUFFICES ASSUME NEW b \in Actors  PROVE Sweeps(b)'
  BY DEF AllSweep
<1>1. \A n \in DOMAIN rows' : n \in DOMAIN rows /\ rows'[n] = rows[n] /\ (Tainted(n) => Tainted(n)')
  BY SweepStep, TaintedKept
<1>2. CASE b = a
  <2>1. pc'[b] = "idle"
    BY <1>2, SweepStep, Tables
  <2> QED  BY <2>1 DEF Sweeps
<1>3. CASE b # a
  <2>1. /\ pc'[b] = pc[b] /\ mem'[b].target = mem[b].target /\ mem'[b].listed = mem[b].listed
        /\ mem'[b].gone = mem[b].gone /\ Sweeps(b)
    BY <1>3, SweepLeaves DEF AllSweep
  <2> QED  BY <1>1, <2>1 DEF Sweeps
<1> QED  BY <1>2, <1>3

LEMMA PlacesDelete ==
    ASSUME Typed, AllSweep, AllPlace, NEW a \in Actors, CommitDelete(a)
    PROVE  AllPlace'
<1> SUFFICES ASSUME NEW b \in Actors  PROVE Places(b)'
  BY DEF AllPlace
<1>1. CASE b = a
  <2>1. Len(mem'[b].paths) = 0
    BY <1>1, SweepStep, NoMemEmpty
  <2> QED  BY <2>1 DEF Places
<1>2. CASE b # a
  <2>1. /\ mem'[b].parent = mem[b].parent /\ mem'[b].paths = mem[b].paths /\ (mem[b].raced => mem'[b].raced)
        /\ mem[b].paths # <<>> /\ Under(mem[a].target, mem[b].paths[1]) => mem'[b].raced
        /\ Places(b)
    BY <1>2, SweepLeaves DEF AllPlace
  <2>2. DOMAIN rows' = DOMAIN rows \ mem[a].gone /\ \A n \in DOMAIN rows' : rows'[n] = rows[n]
    BY SweepStep
  <2>3. ASSUME mem[b].parent \in DOMAIN rows, mem[b].parent \in mem[a].gone, NEW i \in 1..Len(mem[b].paths)
        PROVE  mem'[b].raced
    <3>1. /\ mem[b] \in Memory /\ Len(mem[b].paths) \in Nat /\ mem[a].target \in Paths
          /\ \A j \in 1..Len(mem[b].paths) : mem[b].paths[j] \in Paths /\ mem[b].paths[j] # <<>>
      BY Tables, Fields DEF Holds
    <3>2. 1 \in 1..Len(mem[b].paths) /\ mem[b].paths # <<>>
      BY <2>3, <3>1
    <3>3. mem[b].parent # 0
      BY <2>3, Tables DEF Ids
    <3>4. rows[mem[b].parent].path = Front(mem[b].paths[1])
      BY <2>1, <2>3, <3>2, <3>3 DEF Places
    <3>5. Under(mem[a].target, Front(mem[b].paths[1]))
      <4>1. Under(mem[a].target, rows[mem[b].parent].path)
        BY <2>3, SweepStep DEF AllSweep, Sweeps
      <4> QED  BY <3>4, <4>1
    <3>6. /\ Front(mem[b].paths[1]) \in Paths /\ Last(mem[b].paths[1]) \in Ids
          /\ mem[b].paths[1] = Append(Front(mem[b].paths[1]), Last(mem[b].paths[1]))
      BY <3>1, <3>2, Split
    <3>7. Under(mem[a].target, mem[b].paths[1])
      <4>1. Under(mem[a].target, Append(Front(mem[b].paths[1]), Last(mem[b].paths[1])))
        BY <3>1, <3>5, <3>6, UnderExtended
      <4> QED  BY <3>6, <4>1
    <3> QED  BY <2>1, <3>2, <3>7
  <2> QED  BY <2>1, <2>2, <2>3 DEF Places
<1> QED  BY <1>1, <1>2

TreeInv == Typed /\ Fresh /\ AllSweep /\ AllPlace /\ Rooted

LEMMA TreeInit == ASSUME Init  PROVE TreeInv
<1>1. Typed /\ DOMAIN rows = {} /\ next = 1 /\ \A a \in Actors : pc[a] = "idle" /\ mem[a] = NoMem
  BY TypedInit DEF Init
<1>2. \A a \in Actors : Len(mem[a].paths) = 0 /\ Held(a) = {} /\ Seen(a) = {0}
  BY <1>1, NoMemEmpty DEF Held, Seen, Deleting
<1>3. Fresh /\ Rooted
  BY <1>1, <1>2 DEF Fresh, Rooted
<1>4. AllPlace
  BY <1>2 DEF AllPlace, Places
<1>5. AllSweep
  BY <1>1 DEF AllSweep, Sweeps
<1> QED  BY <1>1, <1>3, <1>4, <1>5 DEF TreeInv

LEMMA TreeNext == ASSUME TreeInv, [Next]_vars  PROVE TreeInv'
<1>0. Typed' /\ Fresh'
  BY TypedNext, FreshNext DEF TreeInv
<1>1. CASE UNCHANGED vars
  BY <1>0, <1>1 DEF vars, TreeInv, AllSweep, Sweeps, AllPlace, Places, Rooted, Tainted
<1>2. ASSUME NEW a \in Actors, RowsStay(a)  PROVE TreeInv'
  <2>1. UNCHANGED <<rows, raced>>
    BY <1>2, RowsStayFrame DEF TreeInv
  <2>2. Rooted'
    BY <2>1 DEF TreeInv, Rooted, Tainted
  <2> QED  BY <1>0, <1>2, <2>2, SweepsStay, PlacesStay DEF TreeInv
<1>3. ASSUME NEW a \in Actors, CommitNodes(a)  PROVE TreeInv'
  BY <1>0, <1>3, SweepsCommit, PlacesCommit, RootedCommit DEF TreeInv
<1>4. ASSUME NEW a \in Actors, CommitDelete(a)  PROVE TreeInv'
  BY <1>0, <1>4, SweepsDelete, PlacesDelete, RootedDelete DEF TreeInv
<1> QED  BY <1>1, <1>2, <1>3, <1>4 DEF Next, RowsStay, Deletion

\* A deletion takes the whole subtree (delete_source): a node whose directory is
\* gone was committed, or lies under one that was, after the rows of that
\* directory had begun to be deleted.
THEOREM NobodyIsOrphanedUnraced == Spec => []OrphansWereRaced
<1>1. Init => TreeInv
  BY TreeInit
<1>2. TreeInv /\ [Next]_vars => TreeInv'
  BY TreeNext
<1>3. TreeInv => OrphansWereRaced
  <2> SUFFICES ASSUME TreeInv, NEW n \in DOMAIN rows, Parents(DOMAIN rows, n) = {}
               PROVE  Len(rows[n].path) = 1 \/ \E i \in DOMAIN rows[n].path : rows[n].path[i] \in raced
    BY DEF OrphansWereRaced
  <2>1. Len(rows[n].path) = 1 \/ Tainted(n)
    BY DEF TreeInv, Rooted, Parents
  <2>2. rows[n].path \in Paths
    BY Tables DEF TreeInv
  <2>3. DOMAIN rows[n].path = 1..Len(rows[n].path)
    BY <2>2 DEF Paths
  <2> QED  BY <2>1, <2>3 DEF Tainted
<1> QED  BY <1>1, <1>2, <1>3, PTL DEF Spec
-----------------------------------------------------------------------------
(***************************************************************************)
(* Files.                                                                  *)
(***************************************************************************)
LEMMA SavedNext == ASSUME Typed, Fresh, Saved, [Next]_vars  PROVE Saved'
<1>1. CASE UNCHANGED vars
  BY <1>1 DEF vars, Saved, Held
<1>2. ASSUME NEW a \in Actors, NEW type \in Types, NEW count \in 1..MaxSitemap, Takes(a, type, count),
             files \subseteq files', type = "file" => count = 1 /\ next \in files'
      PROVE  Saved'
  <2>1. PICK parent \in {0} \cup DOMAIN rows :
          LET ids == next..(next + count - 1) IN
          mem' = [mem EXCEPT ![a] = With(NoMem, type, parent, ids)] /\ ids \in SUBSET Ids
          /\ pc' = [pc EXCEPT ![a] = "placing"]
    BY <1>2, TakesStep
  <2>2. /\ mem'[a] = With(NoMem, type, parent, next..(next + count - 1))
        /\ \A b \in Actors : b # a => mem'[b] = mem[b] /\ pc'[b] = pc[b]
    BY <2>1, Tables
  <2>3. mem'[a].type = type
    BY <2>1, <2>2, WithHolds, NoMemIsMemory, Tables
  <2>4. Held(a)' = next..(next + count - 1)
    BY <1>2, FreshTakes
  <2>5. type = "file" => Held(a)' = {next}
    <3>1. next \in Nat
      BY Tables
    <3>2. count = 1 => next..(next + count - 1) = {next}
      BY <3>1
    <3> QED  BY <1>2, <2>4, <3>2
  <2>6. \A b \in Actors : b # a => Held(b)' = Held(b)
    BY <2>2, Same
  <2> QED  BY <1>2, <2>2, <2>3, <2>5, <2>6 DEF Saved
<1>3. ASSUME NEW a \in Actors, create_directory(a) \/ create_file_source(a) \/ import_sitemap(a)
      PROVE  Saved'
  <2>1. CASE create_directory(a)
    BY <1>2, <2>1, Bounds DEF create_directory, Types
  <2>2. CASE create_file_source(a)
    BY <1>2, <2>2, Bounds DEF create_file_source, save, Types
  <2>3. CASE import_sitemap(a)
    BY <1>2, <2>3 DEF import_sitemap, Types
  <2> QED  BY <1>3, <2>1, <2>2, <2>3
<1>4. ASSUME NEW a \in Actors, \A b \in Actors : b # a => Held(b)' = Held(b) /\ mem'[b].type = mem[b].type,
             mem'[a].type = mem[a].type \/ Held(a)' = {}, Held(a)' \subseteq Held(a),
             \A b \in Actors : b # a => Held(b) \cap files \subseteq files', files' = files \/ Held(a)' = {}
      PROVE  Saved'
  BY <1>4 DEF Saved
<1>5. ASSUME NEW a \in Actors, resolve_path(a)  PROVE Saved'
  <2>1. Held(a)' = Held(a) /\ files' = files /\ \A b \in Actors : b # a => mem'[b] = mem[b] /\ pc'[b] = pc[b]
    BY <1>5, HeldResolve, ResolveStep, Tables
  <2>2. mem'[a].type = mem[a].type
    BY <1>5, ResolveStep, ResolvedHolds, Extended, Tables
  <2> QED  BY <1>4, <2>1, <2>2, Same
<1>6. ASSUME NEW a \in Actors, CommitNodes(a) \/ Fails(a)  PROVE Saved'
  <2>1. End(a) /\ files' = files
    BY <1>6, CommitStep DEF Fails
  <2>2. /\ Held(a)' = {}
        /\ \A b \in Actors : b # a => mem'[b] = mem[b] /\ Held(b)' = Held(b)
    BY <2>1, Ended, Emptied, Same
  <2> QED  BY <1>4, <2>1, <2>2
<1>7. ASSUME NEW a \in Actors, Deletion(a)
      PROVE  Saved'
  <2>1. /\ Held(a)' = {} /\ files \ mem[a].listed \subseteq files'
        /\ \A b \in Actors : b # a => mem'[b] = mem[b] /\ pc'[b] = pc[b]
    BY <1>7, SeenSweeping
  <2>2. \A b \in Actors : Held(b) \cap mem[a].listed = {}
    BY DEF Fresh, Seen
  <2> QED  BY <1>4, <2>1, <2>2, Same
<1>8. ASSUME NEW a \in Actors, CommitDelete(a)  PROVE Saved'
  <2>1. Held(a)' = {} /\ files' = files
    BY <1>8, SweepStep, Emptied, Tables
  <2>2. \A b \in Actors : b # a => Held(b)' = Held(b) /\ mem'[b].type = mem[b].type
    BY <1>8, SweepLeaves
  <2> QED  BY <1>4, <2>1, <2>2
<1> QED  BY <1>1, <1>3, <1>5, <1>6, <1>7, <1>8 DEF Next, Deletion

\* A node's file is there, or a deletion has come to it.
Covered(n) ==
    n \in files \cup rolled \/ \E a \in Actors : pc[a] \in {"emptied", "sweeping", "deleted"} /\ n \in mem[a].listed

LEMMA CoveredKept ==
    ASSUME NEW a \in Actors, NEW n, Covered(n), rolled \subseteq rolled',
           \A b \in Actors : b # a => mem'[b].listed = mem[b].listed /\ pc'[b] = pc[b],
           n \in files => n \in files' \/ Covered(n)',
           pc[a] \in {"emptied", "sweeping", "deleted"} /\ n \in mem[a].listed => Covered(n)'
    PROVE  Covered(n)'
BY DEF Covered

LEMMA FilesNext == ASSUME TreeInv, Saved, RowHasFile, [Next]_vars  PROVE RowHasFile'
<1>0. Typed /\ Fresh /\ \A n \in DOMAIN rows : rows[n].type = "file" => Covered(n)
  BY DEF TreeInv, RowHasFile, Covered
<1>1. SUFFICES ASSUME NEW n \in DOMAIN rows', rows'[n].type = "file"  PROVE Covered(n)'
  BY DEF RowHasFile, Covered
<1>2. CASE UNCHANGED vars
  BY <1>0, <1>1, <1>2 DEF vars, Covered
<1>3. ASSUME NEW a \in Actors, rows' = rows, pc[a] \notin {"emptied", "sweeping", "deleted"}, files \subseteq files', rolled' = rolled,
             \A b \in Actors : b # a => mem'[b] = mem[b] /\ pc'[b] = pc[b]
      PROVE  Covered(n)'
  BY <1>0, <1>1, <1>3, CoveredKept
<1>4. ASSUME NEW a \in Actors, create_directory(a) \/ create_file_source(a) \/ import_sitemap(a)
      PROVE  Covered(n)'
  <2>1. PICK type \in Types, count \in 1..MaxSitemap : Takes(a, type, count)
    BY <1>4, Created
  <2>2. /\ rows' = rows /\ pc[a] = "idle" /\ rolled' = rolled
        /\ \A b \in Actors : b # a => mem'[b] = mem[b] /\ pc'[b] = pc[b]
    BY <1>0, <2>1, TakesStep, Tables
  <2> QED  BY <1>3, <1>4, <2>2, Created
<1>5. ASSUME NEW a \in Actors, resolve_path(a)  PROVE Covered(n)'
  <2>1. /\ rows' = rows /\ pc[a] = "placing" /\ rolled' = rolled /\ files' = files
        /\ \A b \in Actors : b # a => mem'[b] = mem[b] /\ pc'[b] = pc[b]
    BY <1>0, <1>5, ResolveStep, Tables
  <2> QED  BY <1>3, <2>1
<1>6. ASSUME NEW a \in Actors, CommitNodes(a)  PROVE Covered(n)'
  <2>1. /\ End(a) /\ pc[a] = "placed" /\ files' = files /\ rolled' = rolled
    BY <1>0, <1>6, CommitStep
  <2>2. \A b \in Actors : b # a => mem'[b] = mem[b] /\ pc'[b] = pc[b]
    BY <1>0, <2>1, Ended
  <2>3. CASE n \in Held(a)
    <3>1. mem[a].type = "file"
      BY <1>0, <1>1, <1>6, <2>3, CommitStep
    <3> QED  BY <2>1, <2>3, <3>1 DEF Saved, Covered
  <2>4. CASE n \notin Held(a)
    <3>1. n \in DOMAIN rows /\ rows'[n] = rows[n]
      BY <1>0, <1>1, <1>6, <2>4, CommitStep
    <3> QED  BY <1>0, <1>1, <2>1, <2>2, <3>1, CoveredKept
  <2> QED  BY <2>3, <2>4
<1>7. ASSUME NEW a \in Actors, FindTarget(a) \/ ListSubtree(a)  PROVE Covered(n)'
  <2>1. /\ rows' = rows /\ pc[a] \notin {"emptied", "sweeping", "deleted"} /\ files' = files /\ rolled' = rolled
        /\ \A b \in Actors : b # a => mem'[b] = mem[b] /\ pc'[b] = pc[b]
    BY <1>0, <1>7, FindStep, ListStep, SeenSweeping DEF Deletion
  <2> QED  BY <1>3, <2>1
<1>8. ASSUME NEW a \in Actors, DeleteFiles(a) \/ StartSweep(a) \/ DeleteRows(a)  PROVE Covered(n)'
  <2>1. /\ rows' = rows /\ rolled' = rolled /\ files \ mem[a].listed \subseteq files'
        /\ \A b \in Actors : b # a => mem'[b] = mem[b] /\ pc'[b] = pc[b]
    BY <1>0, <1>8, SeenSweeping DEF Deletion
  <2>2. pc'[a] \in {"emptied", "sweeping", "deleted"} /\ mem'[a].listed = mem[a].listed
    <3>1. CASE DeleteFiles(a)
      BY <1>0, <3>1, EmptyStep, Tables
    <3>2. CASE StartSweep(a)
      BY <1>0, <3>2, SweepingStep, DeletesHolds, Tables
    <3>3. CASE DeleteRows(a)
      <4>1. /\ pc'[a] = "deleted" /\ mem'[a] = Deletes(mem[a], mem[a].gone \cap DOMAIN rows)
            /\ mem[a].gone \cap DOMAIN rows \in SUBSET Ids /\ mem[a] \in Memory
        BY <1>0, <3>3, DeleteStep, Tables
      <4> QED  BY <4>1, DeletesHolds
    <3> QED  BY <1>8, <3>1, <3>2, <3>3
  <2>3. n \in mem[a].listed => Covered(n)'
    BY <2>2 DEF Covered
  <2> QED  BY <1>0, <1>1, <2>1, <2>3, CoveredKept
<1>9. ASSUME NEW a \in Actors, CommitDelete(a)  PROVE Covered(n)'
  <2>1. /\ n \in DOMAIN rows /\ rows'[n] = rows[n] /\ n \notin mem[a].gone /\ files' = files /\ rolled' = rolled
        /\ pc[a] = "deleted"
    BY <1>0, <1>1, <1>9, SweepStep
  <2>2. \A b \in Actors : b # a => mem'[b].listed = mem[b].listed /\ pc'[b] = pc[b]
    BY <1>0, <1>9, SweepLeaves
  <2>3. n \notin mem[a].listed
    BY <2>1 DEF TreeInv, AllSweep, Sweeps
  <2> QED  BY <1>0, <1>1, <2>1, <2>2, <2>3, CoveredKept
<1>10. ASSUME NEW a \in Actors, Fails(a)  PROVE Covered(n)'
  <2>1. /\ End(a) /\ UNCHANGED <<rows, files>> /\ rolled \subseteq rolled'
        /\ pc[a] \in {"emptied", "sweeping", "deleted"} => mem[a].listed \subseteq rolled'
    BY <1>10 DEF Fails
  <2>2. \A b \in Actors : b # a => mem'[b] = mem[b] /\ pc'[b] = pc[b]
    BY <1>0, <2>1, Ended
  <2>3. pc[a] \in {"emptied", "sweeping", "deleted"} /\ n \in mem[a].listed => Covered(n)'
    BY <2>1 DEF Covered
  <2> QED  BY <1>0, <1>1, <2>1, <2>2, <2>3, CoveredKept
<1> QED  BY <1>2, <1>4, <1>5, <1>6, <1>7, <1>8, <1>9, <1>10 DEF Next

\* An uploaded document has its file (create_file_source saves it before there is
\* a row), unless a deletion has come to it that is under way or was rolled back.
THEOREM DocumentsHaveFiles == Spec => []RowHasFile
<1>1. Init => TreeInv /\ Saved /\ RowHasFile
  <2> SUFFICES ASSUME Init  PROVE TreeInv /\ Saved /\ RowHasFile
    OBVIOUS
  <2>1. DOMAIN rows = {} /\ \A a \in Actors : mem[a] = NoMem
    BY DEF Init
  <2>2. \A a \in Actors : mem[a].type # "file"
    BY <2>1 DEF NoMem
  <2> QED  BY <2>1, <2>2, TreeInit DEF Saved, RowHasFile
<1>2. TreeInv /\ Saved /\ RowHasFile /\ [Next]_vars => (TreeInv /\ Saved /\ RowHasFile)'
  BY TreeNext, SavedNext, FilesNext DEF TreeInv
<1> QED  BY <1>1, <1>2, PTL DEF Spec
-----------------------------------------------------------------------------
(***************************************************************************)
(* Induction over the natural numbers, as a statement about sets.          *)
(***************************************************************************)
LEMMA Least ==
    ASSUME NEW T \in SUBSET Nat, T # {}
    PROVE  \E n \in T : \A m \in T : n <= m
<1> DEFINE R == OpToRel(<, Nat)
<1>1. \A m, n \in Nat : <<m, n>> \in R <=> m < n
  BY DEF OpToRel
<1>2. IsWellFoundedOn(R, Nat)
  BY NatLessThanWellFounded
<1> HIDE DEF R
<1>3. PICK n \in T : \A m \in T : <<m, n>> \notin R
  BY <1>2, WFMin
<1>4. \A m \in T : ~ (m < n)
  BY <1>1, <1>3
<1> QED  BY <1>4

LEMMA Induction ==
    ASSUME NEW S, 0 \in S, \A n \in Nat : n \in S => n + 1 \in S
    PROVE  Nat \subseteq S
<1> DEFINE T == Nat \ S
<1>1. SUFFICES ASSUME T # {}  PROVE FALSE
  OBVIOUS
<1>2. PICK n \in T : \A m \in T : n <= m
  BY <1>1, Least
<1>3. n - 1 \in Nat /\ n - 1 \notin T
  BY <1>2
<1> QED  BY <1>3

\* A function defined from its predecessor's value exists.
Iterates(f, start, step, n) == f[0] = start /\ \A d \in 1..n : f[d] = step[f[d - 1]]

LEMMA Iterated ==
    ASSUME NEW A, NEW start \in A, NEW step \in [A -> A], NEW n \in Nat
    PROVE  \E f \in [0..n -> A] : Iterates(f, start, step, n)
<1> USE DEF Iterates
<1> DEFINE Is(f, k) == f \in [0..k -> A] /\ Iterates(f, start, step, k)
           S == {k \in Nat : \E f : Is(f, k)}
<1>1. 0 \in S
  <2>1. Is([d \in 0..0 |-> start], 0)
    OBVIOUS
  <2> QED  BY <2>1
<1>2. ASSUME NEW k \in Nat, k \in S  PROVE k + 1 \in S
  <2>1. PICK f : Is(f, k)
    BY <1>2
  <2> DEFINE g == [d \in 0..(k + 1) |-> IF d = k + 1 THEN step[f[k]] ELSE f[d]]
  <2>2. Is(g, k + 1)
    <3>1. f[k] \in A /\ \A d \in 0..k : f[d] \in A /\ d \in 0..(k + 1) /\ d # k + 1
      BY <2>1
    <3>2. \A d \in 0..(k + 1) : d = k + 1 \/ d \in 0..k
      OBVIOUS
    <3>3. g \in [0..(k + 1) -> A]
      BY <3>1, <3>2
    <3>4. g[k + 1] = step[f[k]] /\ \A d \in 0..k : g[d] = f[d]
      BY <3>1
    <3> HIDE DEF g
    <3>5. ASSUME NEW d \in 1..(k + 1)  PROVE g[d] = step[g[d - 1]]
      <4>1. CASE d = k + 1
        <5>1. d - 1 = k /\ k \in 0..k
          BY <4>1
        <5> QED  BY <3>4, <4>1, <5>1
      <4>2. CASE d # k + 1
        <5>1. d \in 1..k /\ d \in 0..k /\ d - 1 \in 0..k
          BY <4>2
        <5> QED  BY <2>1, <3>4, <5>1
      <4> QED  BY <4>1, <4>2
    <3> QED  BY <2>1, <3>3, <3>4, <3>5
  <2> HIDE DEF g, Is
  <2> QED  BY <2>2
<1> HIDE DEF S
<1>3. n \in S
  BY <1>1, <1>2, Induction
<1> QED  BY <1>3 DEF S
-----------------------------------------------------------------------------
(***************************************************************************)
(* The tree that is shown.                                                 *)
(***************************************************************************)
\* Ids are taken in order: a node's id exceeds those above it, and so the
\* number of them.
Deep(a) ==
    /\ \A n \in mem[a].ids : mem[a].parent < n
    /\ \A i \in 1..Len(mem[a].paths) : Len(mem[a].paths[i]) <= Last(mem[a].paths[i])

Shallow == (\A n \in DOMAIN rows : Len(rows[n].path) <= n) /\ \A a \in Actors : Deep(a)

LEMMA DeepEmpty ==
    ASSUME NEW b, mem'[b].ids = {}, mem'[b].paths = <<>>
    PROVE  Deep(b)'
BY DEF Deep

LEMMA DeepResolve ==
    ASSUME Typed, Shallow, NEW a \in Actors, resolve_path(a)
    PROVE  Deep(a)'
<1>1. PICK id \in mem[a].ids, place \in Paths :
        /\ id \in Ids
        /\ \/ mem[a].parent = 0 /\ place = <<>>
           \/ mem[a].parent \in DOMAIN rows /\ place = rows[mem[a].parent].path
        /\ mem' = [mem EXCEPT ![a] = Resolved(mem[a], id, Append(place, id))]
  BY ResolveStep
<1>2. /\ Append(place, id) \in Paths /\ Len(Append(place, id)) = Len(place) + 1
      /\ Last(Append(place, id)) = id
  BY <1>1, Extended
<1>3. /\ mem[a] \in Memory /\ mem'[a].ids = mem[a].ids \ {id} /\ mem'[a].parent = mem[a].parent
      /\ mem'[a].paths = Append(mem[a].paths, Append(place, id))
  <2>1. PICK path : path = Append(place, id)
    OBVIOUS
  <2>2. mem[a] \in Memory /\ mem'[a] = Resolved(mem[a], id, path)
    BY <1>1, <2>1, Tables
  <2>3. path \in Paths /\ id \in Ids
    BY <1>1, <1>2, <2>1
  <2>4. /\ mem'[a].ids = mem[a].ids \ {id} /\ mem'[a].parent = mem[a].parent
        /\ mem'[a].paths = Append(mem[a].paths, path)
    BY <2>2, <2>3, ResolvedHolds
  <2> QED  BY <2>1, <2>2, <2>4
<1>4. mem[a].parent < id /\ mem[a].parent \in Nat /\ id \in Nat
  <2>1. mem[a].parent \in {0} \cup Ids
    BY <1>3, Fields
  <2> QED  BY <1>1, <2>1 DEF Shallow, Deep, Ids
<1>5. Len(place) + 1 <= id
  <2>1. CASE mem[a].parent = 0 /\ place = <<>>
    BY <1>4, <2>1
  <2>2. CASE mem[a].parent \in DOMAIN rows /\ place = rows[mem[a].parent].path
    <3>1. Len(place) <= mem[a].parent /\ Len(place) \in Nat
      BY <2>2 DEF Shallow, Paths
    <3> QED  BY <1>4, <3>1
  <2> QED  BY <1>1, <2>1, <2>2
<1>6. \A n \in mem'[a].ids : mem'[a].parent < n
  BY <1>3 DEF Shallow, Deep
<1>7. ASSUME NEW i \in 1..Len(mem'[a].paths)  PROVE Len(mem'[a].paths[i]) <= Last(mem'[a].paths[i])
  <2>1. mem[a].paths \in Seq(Paths) /\ Len(mem[a].paths) \in Nat
    BY <1>3, Fields
  <2>2. \/ i \in 1..Len(mem[a].paths) /\ mem'[a].paths[i] = mem[a].paths[i]
        \/ mem'[a].paths[i] = Append(place, id)
    BY <1>2, <1>3, <2>1
  <2> QED  BY <1>2, <1>5, <2>2 DEF Shallow, Deep
<1> QED  BY <1>6, <1>7 DEF Deep

LEMMA DeepTakes ==
    ASSUME Typed, Fresh, NEW a \in Actors, NEW type \in Types, NEW count \in 1..MaxSitemap,
           Takes(a, type, count)
    PROVE  Deep(a)'
<1>1. PICK parent \in {0} \cup DOMAIN rows :
        LET ids == next..(next + count - 1) IN
        /\ mem' = [mem EXCEPT ![a] = With(NoMem, type, parent, ids)] /\ ids \in SUBSET Ids
  BY TakesStep
<1>2. parent \in {0} \cup Ids /\ next \in Nat /\ parent < next
  BY <1>1, Tables DEF Fresh, Ids
<1>3. mem'[a] = With(NoMem, type, parent, next..(next + count - 1))
  BY <1>1, Tables
<1>4. /\ mem'[a].parent = parent /\ mem'[a].ids = next..(next + count - 1) /\ mem'[a].paths = NoMem.paths
  BY <1>1, <1>2, <1>3, WithHolds, NoMemIsMemory
<1>5. NoMem.paths = <<>>
  BY DEF NoMem
<1> QED  BY <1>2, <1>4, <1>5 DEF Deep, Ids

LEMMA ShallowNext == ASSUME Typed, Fresh, Shallow, [Next]_vars  PROVE Shallow'
<1>1. CASE UNCHANGED vars
  BY <1>1 DEF vars, Shallow, Deep
<1>2. ASSUME NEW a \in Actors, RowsStay(a)  PROVE Shallow'
  <2>1. rows' = rows /\ \A b \in Actors : b # a => mem'[b] = mem[b]
    BY <1>2, RowsStayFrame
  <2>2. Deep(a)'
    <3>1. CASE create_directory(a) \/ create_file_source(a) \/ import_sitemap(a)
      BY <3>1, Created, DeepTakes
    <3>2. CASE resolve_path(a)
      BY <3>2, DeepResolve
    <3>3. CASE Deletion(a)
      <4>1. pc'[a] \in Deleting /\ Typed'
        BY <3>3, TypedFind, TypedSweep, FindStep, ListStep, EmptyStep, SweepingStep, DeleteStep, Tables
       DEF Deleting, Deletion
      <4>2. mem'[a].ids = {} /\ mem'[a].paths = <<>>
        BY <4>1 DEF Typed, Holds
      <4> QED  BY <4>2, DeepEmpty
    <3>4. CASE Fails(a)
      BY <3>4, Ended, NoMemEmpty, DeepEmpty DEF Fails
    <3> QED  BY <1>2, <3>1, <3>2, <3>3, <3>4 DEF RowsStay
  <2> QED  BY <2>1, <2>2 DEF Shallow, Deep
<1>3. ASSUME NEW a \in Actors, CommitNodes(a)  PROVE Shallow'
  <2>1. \A b \in Actors : Deep(b)'
    <3>1. mem'[a] = NoMem /\ \A b \in Actors : b # a => mem'[b] = mem[b]
      <4>1. End(a)
        BY <1>3, CommitStep
      <4> QED  BY <4>1, Ended
    <3>2. Deep(a)'
      BY <3>1, NoMemEmpty, DeepEmpty
    <3> QED  BY <3>1, <3>2 DEF Shallow, Deep
  <2>2. ASSUME NEW n \in DOMAIN rows'  PROVE Len(rows'[n].path) <= n
    <3>1. CASE n \in Held(a)
      BY <1>3, <3>1, CommitStep DEF Shallow, Deep
    <3>2. CASE n \notin Held(a)
      BY <1>3, <2>2, <3>2, CommitStep DEF Shallow
    <3> QED  BY <3>1, <3>2
  <2> QED  BY <2>1, <2>2 DEF Shallow
<1>4. ASSUME NEW a \in Actors, CommitDelete(a)  PROVE Shallow'
  <2>1. \A n \in DOMAIN rows' : n \in DOMAIN rows /\ rows'[n] = rows[n]
    BY <1>4, SweepStep
  <2>2. ASSUME NEW b \in Actors  PROVE Deep(b)'
    <3>1. CASE b = a
      BY <1>4, <3>1, SweepStep, NoMemEmpty, DeepEmpty
    <3>2. CASE b # a
      <4> DEFINE yes == \/ mem[b].raced
                        \/ mem[b].paths # <<>> /\ Under(mem[a].target, mem[b].paths[1])
      <4>1. yes \in BOOLEAN
        BY SMT
      <4>2. mem'[b] = Races(mem[b], yes)
        BY <1>4, <3>2, SweepStep
      <4> HIDE DEF yes
      <4>3. mem'[b].parent = mem[b].parent /\ mem'[b].ids = mem[b].ids /\ mem'[b].paths = mem[b].paths
        BY <4>1, <4>2, Tables, RacesHolds
      <4> QED  BY <4>3 DEF Shallow, Deep
    <3> QED  BY <3>1, <3>2
  <2> QED  BY <2>1, <2>2 DEF Shallow
<1> QED  BY <1>1, <1>2, <1>3, <1>4 DEF Next, RowsStay, Deletion

\* The levels get_tree comes to.
LEMMA Levels ==
    ASSUME NEW nodes
    PROVE  \E f : /\ f[0] = Roots(nodes)
                  /\ \A d \in 1..MaxNodes : f[d] = UNION {Children(nodes, p) : p \in f[d - 1]}
                  /\ \A d \in 0..MaxNodes : f[d] \subseteq nodes
                  /\ Shown(nodes) = UNION {f[d] : d \in 0..MaxNodes}
<1> DEFINE A == SUBSET nodes
           step == [s \in A |-> UNION {Children(nodes, p) : p \in s}]
           Below[depth \in 0..MaxNodes] ==
              IF depth = 0 THEN Roots(nodes)
              ELSE UNION {Children(nodes, p) : p \in Below[depth - 1]}
<1>1. Shown(nodes) = UNION {Below[depth] : depth \in 0..MaxNodes}
  BY DEF Shown
<1>2. Roots(nodes) \in A /\ step \in [A -> A]
  BY DEF Roots, Children
<1>3. PICK g \in [0..MaxNodes -> A] : Iterates(g, Roots(nodes), step, MaxNodes)
  <2> HIDE DEF A, step, Below
  <2> QED  BY <1>2, Bounds, Iterated
<1>4. g = [depth \in 0..MaxNodes |->
             IF depth = 0 THEN Roots(nodes) ELSE UNION {Children(nodes, p) : p \in g[depth - 1]}]
  <2>1. ASSUME NEW d \in 0..MaxNodes, d # 0  PROVE g[d] = UNION {Children(nodes, p) : p \in g[d - 1]}
    <3>1. d \in 1..MaxNodes /\ d - 1 \in 0..MaxNodes
      BY <2>1, Bounds
    <3> QED  BY <1>3, <3>1 DEF Iterates
  <2> QED  BY <1>3, <2>1 DEF Iterates
<1>5. Below = [depth \in 0..MaxNodes |->
                 IF depth = 0 THEN Roots(nodes) ELSE UNION {Children(nodes, p) : p \in Below[depth - 1]}]
  BY <1>4
<1> HIDE DEF Below
<1>6. Below[0] = Roots(nodes)
  BY <1>5, Bounds
<1>7. \A d \in 1..MaxNodes : Below[d] = UNION {Children(nodes, p) : p \in Below[d - 1]}
  <2>1. \A d \in 1..MaxNodes : d \in 0..MaxNodes /\ d # 0
    BY Bounds
  <2> QED  BY <1>5, <2>1
<1>8. \A d \in 0..MaxNodes : Below[d] \subseteq nodes
  <2>1. \A d \in 0..MaxNodes : d = 0 \/ d \in 1..MaxNodes
    BY Bounds
  <2> QED  BY <1>6, <1>7, <2>1 DEF Roots, Children
<1> QED  BY <1>1, <1>6, <1>7, <1>8

LEMMA AllShown ==
    ASSUME Typed, Shallow, NEW nodes \in SUBSET DOMAIN rows
    PROVE  Shown(nodes) = nodes
<1>1. PICK f : /\ f[0] = Roots(nodes)
               /\ \A d \in 1..MaxNodes : f[d] = UNION {Children(nodes, p) : p \in f[d - 1]}
               /\ \A d \in 0..MaxNodes : f[d] \subseteq nodes
               /\ Shown(nodes) = UNION {f[d] : d \in 0..MaxNodes}
  BY Levels
<1> DEFINE S == {k \in Nat : \A n \in nodes : Len(rows[n].path) = k => \E d \in 0..MaxNodes : d < k /\ n \in f[d]}
<1>2. \A n \in nodes : /\ rows[n].path \in Paths /\ rows[n].path # <<>>
                       /\ Len(rows[n].path) \in Nat \ {0} /\ Len(rows[n].path) <= MaxNodes
                       /\ Len(Front(rows[n].path)) = Len(rows[n].path) - 1
  <2>1. ASSUME NEW n \in nodes
        PROVE  /\ rows[n].path \in Paths /\ rows[n].path # <<>>
               /\ Len(rows[n].path) <= n /\ n \in Ids
    BY Tables DEF Shallow
  <2> QED  BY <2>1, Split, Bounds DEF Ids
<1>3. 0 \in S
  BY <1>2
<1>4. ASSUME NEW k \in Nat, k \in S  PROVE k + 1 \in S
  <2> SUFFICES ASSUME NEW n \in nodes, Len(rows[n].path) = k + 1
               PROVE  \E d \in 0..MaxNodes : d < k + 1 /\ n \in f[d]
    OBVIOUS
  <2>1. CASE Parents(nodes, n) = {}
    <3>1. n \in f[0]
      BY <1>1, <2>1 DEF Roots
    <3> QED  BY <3>1, Bounds
  <2>2. CASE Parents(nodes, n) # {}
    <3>1. PICK p \in nodes : rows[p].path = Front(rows[n].path)
      BY <2>2 DEF Parents
    <3>2. Len(rows[p].path) = k
      BY <1>2, <3>1
    <3>3. PICK d \in 0..MaxNodes : d < k /\ p \in f[d]
      BY <1>4, <3>2
    <3>4. d + 1 \in 1..MaxNodes /\ d + 1 < k + 1 /\ d + 1 \in 0..MaxNodes /\ d + 1 - 1 = d
      BY <1>2, <3>3, Bounds
    <3>5. n \in Children(nodes, p)
      BY <3>1 DEF Children, Parents
    <3>6. f[d + 1] = UNION {Children(nodes, q) : q \in f[d]}
      BY <1>1, <3>4
    <3>7. n \in f[d + 1]
      BY <3>3, <3>5, <3>6
    <3> QED  BY <3>4, <3>7
  <2> QED  BY <2>1, <2>2
<1>5. Nat \subseteq S
  <2> HIDE DEF S
  <2> QED  BY <1>3, <1>4, Induction
<1>6. \A n \in nodes : \E d \in 0..MaxNodes : n \in f[d]
  BY <1>2, <1>5
<1> QED  BY <1>1, <1>6

\* get_tree shows every row it was asked for, those included whose directory
\* was deleted while they were created.
THEOREM NothingIsHidden == Spec => []TreeShowsAll
<1>1. Init => Shallow
  BY DEF Init, Shallow, Deep, NoMem
<1>2. TreeInv /\ Shallow /\ [Next]_vars => Shallow'
  BY ShallowNext DEF TreeInv
<1>3. TreeInv /\ Shallow => TreeShowsAll
  <2> SUFFICES ASSUME Typed, Shallow, NEW parent \in {0} \cup DOMAIN rows
               PROVE  Shown(Selected(parent)) = Selected(parent)
    BY DEF TreeInv, TreeShowsAll
  <2>1. Selected(parent) \in SUBSET DOMAIN rows
    BY DEF Selected
  <2> QED  BY <2>1, AllShown
<1> QED  BY <1>1, <1>2, <1>3, TreeInit, TreeNext, PTL DEF Spec

-----------------------------------------------------------------------------
(***************************************************************************)
(* Ops: the switch of a managed service. An update of the row is a record  *)
(* of some of its columns.                                                 *)
(***************************************************************************)
Columns == {"desired", "offAt", "observed"}
Observed == {"", "running", "stopped", "partial", "starting", "stopping", "error"}

\* An update of the row: some of its columns, each with a value it may have.
Update(p) ==
    /\ DOMAIN p \subseteq Columns
    /\ "desired" \in DOMAIN p => p.desired \in {"on", "off"}
    /\ "offAt" \in DOMAIN p => p.offAt \in Nat
    /\ "observed" \in DOMAIN p => p.observed \in Observed

\* What the memory m of transaction t is between its steps.
TxShape(t, m) ==
    /\ DOMAIN m = {"pc", "seen", "put", "ask", "claimed"}
    /\ m.pc \in {"idle", "loaded", "flushed", "committed"}
    /\ m.claimed \in BOOLEAN
    /\ Update(m.put)
    /\ (t \in Procs /\ m.pc \in {"loaded", "committed"}) => m.seen \in [wanted : BOOLEAN]
    /\ (t \in Requests /\ m.pc = "loaded") =>
          (m.ask = AskList \/ m.ask \in [on : {"on", "off"}, offAt : Nat])
    /\ (t = "report" /\ m.pc = "loaded") => m.ask \in [observed : Observed]

SwitchShape ==
    /\ OpsTypeOK
    /\ now \in Nat
    /\ DOMAIN tx = Transactions
    /\ \A t \in Transactions : TxShape(t, tx[t])

\* Whoever has something to write holds the row, and who has claimed the end of
\* a time holds a row whose time has run out.
Claims ==
    \A t \in Transactions :
        /\ tx[t].put # Nothing => lock = t
        /\ tx[t].claimed => lock = t /\ Expired(row)

SwitchInv == SwitchShape /\ Claims

-----------------------------------------------------------------------------
\* An update of a row is a row, and an update on another is an update.
LEMMA UpdatedRow ==
    ASSUME NEW r \in ManagedService, NEW p, Update(p)
    PROVE  Updated(r, p) \in ManagedService
  <1>1. DOMAIN r = Columns
    BY DEF ManagedService, Columns
  <1>2. DOMAIN Updated(r, p) = Columns
    BY <1>1 DEF Update, Updated
  <1>3. Updated(r, p) = [c \in Columns |-> IF c \in DOMAIN p THEN p[c] ELSE r[c]]
    BY <1>1 DEF Update, Updated
  <1>4. Updated(r, p) = [desired |-> Updated(r, p).desired, offAt |-> Updated(r, p).offAt, observed |-> Updated(r, p).observed]
    BY <1>3 DEF Columns
  <1>5. Updated(r, p).desired \in {"on", "off"} /\ Updated(r, p).offAt \in Nat /\ Updated(r, p).observed \in Observed
    BY <1>3 DEF Update, Columns, ManagedService, Observed
  <1> QED
    BY <1>4, <1>5 DEF ManagedService, Observed

LEMMA UpdatesAdd ==
    ASSUME NEW p, NEW q, Update(p), Update(q)
    PROVE  Update(Updated(q, p))
  <1>1. Updated(q, p) = [c \in (DOMAIN p) \cup (DOMAIN q) |-> IF c \in DOMAIN p THEN p[c] ELSE q[c]]
    BY DEF Updated
  <1> QED
    BY <1>1 DEF Update

LEMMA ChangedUpdates ==
    ASSUME NEW p, NEW seen, Update(p)
    PROVE  Update(Changed(p, seen))
  BY DEF Update, Changed

LEMMA NothingUpdates == Update(Nothing)
  BY DEF Nothing, Update

LEMMA NothingWritten ==
    ASSUME NEW r \in ManagedService
    PROVE  Updated(r, Nothing) = r
  <1>1. DOMAIN Nothing = {}
    BY DEF Nothing
  <1>2. r = [column \in DOMAIN r |-> r[column]]
    BY DEF ManagedService
  <1> QED
    BY <1>1, <1>2 DEF Updated
-----------------------------------------------------------------------------
\* A transaction at rest.
LEMMA IdleShape == \A t : TxShape(t, Idle)
  <1>1. DOMAIN Idle = {"pc", "seen", "put", "ask", "claimed"}
    BY DEF Idle
  <1>2. Idle.pc = "idle" /\ Idle.put = Nothing /\ Idle.claimed = FALSE
    BY DEF Idle
  <1> QED
    BY <1>1, <1>2, NothingUpdates DEF TxShape

LEMMA SwitchInit == OpsInit => SwitchInv
  <1> SUFFICES ASSUME OpsInit PROVE SwitchInv
    OBVIOUS
  <1>1. \A t \in Transactions : tx[t] = Idle
    BY DEF OpsInit
  <1>2. OpsTypeOK /\ now \in Nat
    <2>1. row \in ManagedService
      BY OpsAssumption DEF OpsInit, OpsAssumption, ManagedService
    <2> QED
      BY <2>1 DEF OpsInit, OpsTypeOK
  <1>3. \A t \in Transactions : TxShape(t, tx[t])
    BY <1>1, IdleShape
  <1>4. Claims
    BY <1>1 DEF Claims, Idle
  <1> QED
    BY <1>2, <1>3, <1>4 DEF SwitchInv, SwitchShape, OpsInit
-----------------------------------------------------------------------------
\* One transaction moves: the shape of the others is as it was.
LEMMA OneMoves ==
    ASSUME SwitchShape, NEW t \in Transactions, NEW m, TxShape(t, m), tx' = [tx EXCEPT ![t] = m]
    PROVE  DOMAIN tx' = Transactions /\ \A u \in Transactions : TxShape(u, tx'[u])
  BY DEF SwitchShape

\* load_services: what is claimed is locked, and what was kept is kept.
LEMMA BeginStep ==
    ASSUME SwitchInv, NEW t \in Transactions, NEW ask, expire_auto_off(t, ask),
           t \in Requests => (ask = AskList \/ ask \in [on : {"on", "off"}, offAt : Nat]),
           t = "report" => ask \in [observed : Observed],
           UNCHANGED <<row, off, now, containers>>
    PROVE  SwitchInv'
  <1> DEFINE seen == Kept(t, IF Expired(row) THEN Updated(row, SwitchedOff) ELSE row)
             m == [pc |-> "loaded", ask |-> ask, claimed |-> Expired(row), seen |-> seen,
                   put |-> IF Expired(row) THEN SwitchedOff ELSE Nothing]
  <1>1. tx' = [tx EXCEPT ![t] = m]
    BY DEF expire_auto_off, Loaded
  <1>2. Update(m.put)
    BY NothingUpdates DEF Update, SwitchedOff, Columns
  <1>3. t \in Procs => seen \in [wanted : BOOLEAN]
    BY DEF Kept, traces_wanted
  <1>4. Expired(row) \in BOOLEAN
    BY DEF Expired
  <1>5. TxShape(t, m)
    <2> HIDE DEF seen
    <2> QED
      BY <1>2, <1>3, <1>4 DEF TxShape
  <1>6. \A u \in Transactions \ {t} : tx'[u] = tx[u]
    BY <1>1 DEF SwitchInv, SwitchShape
  <1>7. tx'[t] = m
    BY <1>1 DEF SwitchInv, SwitchShape
  <1> HIDE DEF seen
  <1>8. tx'[t].put = (IF Expired(row) THEN SwitchedOff ELSE Nothing) /\ tx'[t].claimed = Expired(row)
    BY <1>7
  <1> HIDE DEF m
  <1>9. SwitchShape'
    <2>1. DOMAIN tx' = Transactions /\ \A u \in Transactions : TxShape(u, tx'[u])
      BY <1>1, <1>5, OneMoves DEF SwitchInv
    <2>2. lock' \in Transactions \cup {Nobody}
      BY DEF expire_auto_off, SwitchInv, SwitchShape, OpsTypeOK
    <2> QED
      BY <2>1, <2>2 DEF SwitchInv, SwitchShape, OpsTypeOK
  <1>10. Expired(row)' <=> Expired(row)
    BY DEF Expired
  <1>11. Claims'
    <2>1. \A u \in Transactions \ {t} : lock = u => lock' = u
      BY OpsAssumption DEF expire_auto_off, OpsAssumption, Transactions, Procs, Nobody
    <2>2. Expired(row) => lock' = t
      BY DEF expire_auto_off
    <2> QED
      BY <1>6, <1>8, <1>10, <2>1, <2>2 DEF Claims, SwitchInv
  <1> QED
    BY <1>9, <1>11 DEF SwitchInv

\* The flush takes the lock, or has it.
LEMMA FlushStep ==
    ASSUME SwitchInv, NEW t \in Transactions \ Procs, NEW values, Update(values), Flush(t, values),
           UNCHANGED <<row, now, containers>>, off' \in [Procs -> BOOLEAN]
    PROVE  SwitchInv'
  <1> DEFINE put == Updated(tx[t].put, Changed(values, tx[t].seen))
             m == [tx[t] EXCEPT !.pc = "flushed", !.seen = Nothing, !.put = put]
  <1>1. tx' = [tx EXCEPT ![t] = m]
    BY DEF Flush, SwitchInv, SwitchShape, TxShape
  <1>2. Update(put)
    BY UpdatesAdd, ChangedUpdates DEF SwitchInv, SwitchShape, TxShape
  <1> HIDE DEF put
  <1>3. TxShape(t, m)
    BY <1>2 DEF SwitchInv, SwitchShape, TxShape
  <1>4. (\A u \in Transactions \ {t} : tx'[u] = tx[u]) /\ tx'[t] = m
    BY <1>1 DEF SwitchInv, SwitchShape
  <1>5. m.claimed = tx[t].claimed
    BY DEF SwitchInv, SwitchShape, TxShape
  <1> HIDE DEF m
  <1>6. SwitchShape'
    <2>1. DOMAIN tx' = Transactions /\ \A u \in Transactions : TxShape(u, tx'[u])
      BY <1>1, <1>3, OneMoves DEF SwitchInv
    <2> QED
      BY <2>1 DEF SwitchInv, SwitchShape, OpsTypeOK, Flush
  <1>7. Expired(row)' <=> Expired(row)
    BY DEF Expired
  <1>8. Claims'
    <2>1. \A u \in Transactions \ {t} : lock # u
      BY OpsAssumption DEF Flush, OpsAssumption, Transactions, Procs, Nobody
    <2>2. lock' = t
      BY DEF Flush
    <2> QED
      BY <1>4, <1>5, <1>7, <2>1, <2>2 DEF Claims, SwitchInv
  <1> QED
    BY <1>6, <1>8 DEF SwitchInv

\* Transactions end, or a loop's goes on with what it read: who is not among them
\* finds the row as it was if it holds it.
LEMMA EndsStep ==
    ASSUME SwitchInv, NEW ended \in SUBSET Transactions, NEW rest,
           \A t \in ended : TxShape(t, rest[t]) /\ rest[t].put = Nothing /\ rest[t].claimed = FALSE,
           tx' = [t \in Transactions |-> IF t \in ended THEN rest[t] ELSE tx[t]],
           row' \in ManagedService, lock' \in Transactions \cup {Nobody},
           lock \notin ended => UNCHANGED <<row, lock>>,
           off' \in [Procs -> BOOLEAN], UNCHANGED <<now, containers>>
    PROVE  SwitchInv'
  <1>1. SwitchShape'
    BY DEF SwitchInv, SwitchShape, OpsTypeOK
  <1>2. ASSUME NEW t \in Transactions
        PROVE  /\ tx'[t].put # Nothing => lock' = t
               /\ tx'[t].claimed => lock' = t /\ Expired(row)'
    <2>1. CASE t \in ended
      BY <2>1
    <2>2. CASE t \notin ended
      <3>1. tx'[t] = tx[t]
        BY <2>2
      <3>2. lock = t => UNCHANGED <<row, lock>>
        BY <2>2
      <3>3. UNCHANGED <<row, now>> => (Expired(row)' <=> Expired(row))
        BY DEF Expired
      <3> QED
        BY <3>1, <3>2, <3>3 DEF SwitchInv, Claims
    <2> QED
      BY <2>1, <2>2
  <1> QED
    BY <1>1, <1>2 DEF SwitchInv, Claims

\* A step that leaves the transactions and the row alone.
LEMMA HostStep ==
    ASSUME SwitchInv, UNCHANGED <<row, lock, tx, off>>, now' \in Nat, now' >= now,
           containers' \in {"running", "stopped", "partial"}
    PROVE  SwitchInv'
  <1>1. Expired(row) => Expired(row)'
    <2>1. row.offAt \in Nat /\ now \in Nat
      BY DEF SwitchInv, SwitchShape, OpsTypeOK, ManagedService
    <2>2. row.offAt <= now => row.offAt <= now'
      BY <2>1
    <2> QED
      BY <2>2 DEF Expired
  <1>2. Claims'
    BY <1>1 DEF SwitchInv, Claims
  <1> QED
    BY <1>2 DEF SwitchInv, SwitchShape, OpsTypeOK
-----------------------------------------------------------------------------
LEMMA RequestsAreApart ==
    /\ Requests \cap Procs = {} /\ "report" \notin Requests \cup Procs
    /\ Requests \subseteq Transactions /\ Procs \subseteq Transactions /\ "report" \in Transactions
  BY OpsAssumption DEF OpsAssumption, Procs, Transactions

LEMMA ArrivesStep ==
    ASSUME SwitchInv, NEW q \in Requests, Arrives(q)
    PROVE  SwitchInv'
  <1>1. PICK ask \in Asks : expire_auto_off(q, ask)
    BY DEF Arrives
  <1>2. ask = AskList \/ ask \in [on : {"on", "off"}, offAt : Nat]
    BY OpsAssumption DEF Asks, OpsAssumption, SwitchInv, SwitchShape
  <1> QED
    BY <1>1, <1>2, BeginStep, RequestsAreApart DEF Arrives, Host

LEMMA ListServicesStep ==
    ASSUME SwitchInv, NEW q \in Requests, list_services(q)
    PROVE  SwitchInv'
  <1> DEFINE m == [tx[q] EXCEPT !.pc = "flushed", !.seen = Nothing]
  <1>1. q \in Transactions /\ q \notin Procs
    BY RequestsAreApart
  <1>2. tx' = [tx EXCEPT ![q] = m]
    BY DEF list_services, SwitchInv, SwitchShape, TxShape
  <1>3. TxShape(q, m) /\ m.put = tx[q].put /\ m.claimed = tx[q].claimed
    BY <1>1 DEF SwitchInv, SwitchShape, TxShape
  <1>4. (\A u \in Transactions \ {q} : tx'[u] = tx[u]) /\ tx'[q] = m
    BY <1>1, <1>2 DEF SwitchInv, SwitchShape
  <1> HIDE DEF m
  <1>5. SwitchShape'
    <2>1. DOMAIN tx' = Transactions /\ \A u \in Transactions : TxShape(u, tx'[u])
      BY <1>1, <1>2, <1>3, OneMoves DEF SwitchInv
    <2> QED
      BY <2>1 DEF SwitchInv, SwitchShape, OpsTypeOK, list_services, Host
  <1>6. Expired(row)' <=> Expired(row)
    BY DEF Expired, list_services, Host
  <1>7. Claims'
    BY <1>3, <1>4, <1>6 DEF Claims, SwitchInv, list_services
  <1> QED
    BY <1>5, <1>7 DEF SwitchInv

LEMMA SwitchStep ==
    ASSUME SwitchInv, NEW q \in Requests, switch(q)
    PROVE  SwitchInv'
  <1>1. tx[q].ask \in [on : {"on", "off"}, offAt : Nat]
    BY RequestsAreApart DEF SwitchInv, SwitchShape, TxShape, switch, Flush
  <1>2. Update(Chosen(q))
    BY <1>1 DEF Update, Chosen, Columns
  <1>3. off' \in [Procs -> BOOLEAN]
    BY DEF switch, traces_wanted, SwitchInv, SwitchShape, OpsTypeOK
  <1> QED
    BY <1>2, <1>3, FlushStep, RequestsAreApart DEF switch, Host

LEMMA RecordStep ==
    ASSUME SwitchInv, record_reports
    PROVE  SwitchInv'
  <1>1. tx["report"].ask \in [observed : Observed]
    BY RequestsAreApart DEF SwitchInv, SwitchShape, TxShape, record_reports, Flush
  <1>2. Update(tx["report"].ask)
    BY <1>1 DEF Update, Columns
  <1>3. off' \in [Procs -> BOOLEAN]
    BY DEF record_reports, traces_wanted, SwitchInv, SwitchShape, OpsTypeOK
  <1> QED
    BY <1>2, <1>3, FlushStep, RequestsAreApart DEF record_reports, Host

LEMMA ReportStep ==
    ASSUME SwitchInv, Report
    PROVE  SwitchInv'
  <1>1. PICK seen \in Observed : expire_auto_off("report", [observed |-> seen])
    <2>1. containers \in Observed /\ transition \in Observed /\ "error" \in Observed
      BY DEF SwitchInv, SwitchShape, OpsTypeOK, Observed, transition
    <2> QED
      BY <2>1 DEF Report
  <1> QED
    BY <1>1, BeginStep, RequestsAreApart DEF Report

LEMMA FollowStep ==
    ASSUME SwitchInv, NEW p \in Procs, Follow(p)
    PROVE  SwitchInv'
  BY BeginStep, RequestsAreApart DEF Follow, Host

LEMMA FollowSyncStep ==
    ASSUME SwitchInv, NEW p \in Procs, FollowSync(p)
    PROVE  SwitchInv'
  <1> DEFINE ended == {p}
             rest == [t \in ended |-> Idle]
  <1>1. \A t \in ended : TxShape(t, rest[t]) /\ rest[t].put = Nothing /\ rest[t].claimed = FALSE
    BY IdleShape DEF Idle
  <1>2. p \in Transactions /\ DOMAIN tx = Transactions
    BY RequestsAreApart DEF SwitchInv, SwitchShape
  <1>3. tx' = [t \in Transactions |-> IF t \in ended THEN rest[t] ELSE tx[t]]
    BY <1>2 DEF FollowSync
  <1>4. off' \in [Procs -> BOOLEAN]
    BY <1>2 DEF FollowSync, SwitchInv, SwitchShape, OpsTypeOK, TxShape
  <1>5. row' \in ManagedService /\ lock' \in Transactions \cup {Nobody} /\ UNCHANGED <<row, lock, now, containers>>
    BY DEF FollowSync, Host, SwitchInv, SwitchShape, OpsTypeOK
  <1>6. ended \in SUBSET Transactions
    BY RequestsAreApart
  <1>7. lock \notin ended => UNCHANGED <<row, lock>>
    BY <1>5
  <1> HIDE DEF ended, rest
  <1> QED
    BY <1>1, <1>2, <1>3, <1>4, <1>5, <1>6, <1>7, EndsStep

LEMMA RowCommitStep ==
    ASSUME SwitchInv, NEW t \in Transactions, Commit(t)
    PROVE  SwitchInv'
  <1> DEFINE m == IF t \in Procs THEN [Idle EXCEPT !.pc = "committed", !.seen = tx[t].seen] ELSE Idle
             ended == {t}
             rest == [u \in ended |-> m]
  <1>1. DOMAIN tx = Transactions
    BY DEF SwitchInv, SwitchShape
  <1>2. TxShape(t, m) /\ m.put = Nothing /\ m.claimed = FALSE
    <2>1. CASE t \in Procs
      <3>1. m = [pc |-> "committed", seen |-> tx[t].seen, put |-> Nothing, ask |-> Nothing, claimed |-> FALSE]
        BY <2>1 DEF Idle
      <3>2. tx[t].seen \in [wanted : BOOLEAN]
        BY <2>1 DEF Commit, Ready, SwitchInv, SwitchShape, TxShape
      <3> HIDE DEF m
      <3> QED
        BY <2>1, <3>1, <3>2, NothingUpdates, RequestsAreApart DEF TxShape
    <2>2. CASE t \notin Procs
      BY <2>2, IdleShape DEF Idle
    <2> QED
      BY <2>1, <2>2
  <1>3. tx' = [u \in Transactions |-> IF u \in ended THEN rest[u] ELSE tx[u]]
    BY <1>1 DEF Commit
  <1>4. row' \in ManagedService
    BY UpdatedRow DEF Commit, SwitchInv, SwitchShape, TxShape, OpsTypeOK
  <1>5. lock # t => UNCHANGED <<row, lock>>
    BY NothingWritten DEF Commit, Unlocked, SwitchInv, SwitchShape, Claims, OpsTypeOK
  <1>6. lock' \in Transactions \cup {Nobody}
    BY DEF Commit, Unlocked, SwitchInv, SwitchShape, OpsTypeOK
  <1>7. off' \in [Procs -> BOOLEAN] /\ UNCHANGED <<now, containers>>
    BY DEF Commit, Host, SwitchInv, SwitchShape, OpsTypeOK
  <1>8. \A u \in ended : TxShape(u, rest[u]) /\ rest[u].put = Nothing /\ rest[u].claimed = FALSE
    BY <1>2
  <1>9. ended \in SUBSET Transactions
    BY RequestsAreApart
  <1>10. lock \notin ended => UNCHANGED <<row, lock>>
    BY <1>5
  <1> HIDE DEF ended, rest, m
  <1> QED
    BY <1>3, <1>4, <1>5, <1>6, <1>7, <1>8, <1>9, <1>10, EndsStep

LEMMA RollbackStep ==
    ASSUME SwitchInv, NEW t \in Transactions, Rollback(t)
    PROVE  SwitchInv'
  <1> DEFINE ended == {t}
             rest == [u \in ended |-> Idle]
  <1>1. tx' = [u \in Transactions |-> IF u \in ended THEN rest[u] ELSE tx[u]]
    BY DEF Rollback, SwitchInv, SwitchShape
  <1>2. \A u \in ended : TxShape(u, rest[u]) /\ rest[u].put = Nothing /\ rest[u].claimed = FALSE
    BY IdleShape DEF Idle
  <1>3. row' \in ManagedService /\ off' \in [Procs -> BOOLEAN] /\ UNCHANGED <<row, now, containers>>
    BY DEF Rollback, Host, SwitchInv, SwitchShape, OpsTypeOK
  <1>4. lock' \in Transactions \cup {Nobody} /\ (lock # t => lock' = lock)
    BY DEF Rollback, Unlocked, SwitchInv, SwitchShape, OpsTypeOK
  <1>5. ended \in SUBSET Transactions
    BY RequestsAreApart
  <1>6. lock \notin ended => UNCHANGED <<row, lock>>
    BY <1>3, <1>4
  <1> HIDE DEF ended, rest
  <1> QED
    BY <1>1, <1>2, <1>3, <1>4, <1>5, <1>6, EndsStep

LEMMA RestartStep ==
    ASSUME SwitchInv, NEW p \in Procs, Restart(p)
    PROVE  SwitchInv'
  <1> DEFINE lost == IF p = "worker" THEN {"worker"} ELSE Transactions \ {"worker"}
             rest == [u \in lost |-> Idle]
  <1>1. lost \in SUBSET Transactions
    BY RequestsAreApart DEF Procs
  <1>2. tx' = [u \in Transactions |-> IF u \in lost THEN rest[u] ELSE tx[u]]
    BY DEF Restart
  <1>3. \A u \in lost : TxShape(u, rest[u]) /\ rest[u].put = Nothing /\ rest[u].claimed = FALSE
    BY IdleShape DEF Idle
  <1>4. row' \in ManagedService /\ off' \in [Procs -> BOOLEAN] /\ UNCHANGED <<row, now, containers>>
    BY DEF Restart, Host, SwitchInv, SwitchShape, OpsTypeOK
  <1>5. lock' \in Transactions \cup {Nobody} /\ (lock \notin lost => lock' = lock)
    BY DEF Restart, SwitchInv, SwitchShape, OpsTypeOK
  <1> HIDE DEF lost, rest
  <1> QED
    BY <1>1, <1>2, <1>3, <1>4, <1>5, EndsStep

LEMMA AgentStep ==
    ASSUME SwitchInv,
           MinutePasses \/ Act \/ ComposeWorks \/ ComposeFails \/ ContainerDies \/ AgentRestarts \/ Hour
    PROVE  SwitchInv'
  <1>1. UNCHANGED <<row, lock, tx, off>>
    BY DEF MinutePasses, Act, ComposeWorks, ComposeFails, ContainerDies, AgentRestarts, Hour
  <1>2. now' \in Nat /\ now' >= now
    <2>1. now' = now \/ now' = now + 1
      BY DEF MinutePasses, Act, ComposeWorks, ComposeFails, ContainerDies, AgentRestarts, Hour
    <2>2. now \in Nat
      BY DEF SwitchInv, SwitchShape
    <2> QED
      BY <2>1, <2>2
  <1>3. containers' \in {"running", "stopped", "partial"}
    BY DEF MinutePasses, Act, ComposeWorks, ComposeFails, ContainerDies, AgentRestarts, Hour,
           SwitchInv, SwitchShape, OpsTypeOK
  <1> QED
    BY <1>1, <1>2, <1>3, HostStep

LEMMA SwitchStays == SwitchInv /\ [OpsNext]_opsVars => SwitchInv'
  <1> SUFFICES ASSUME SwitchInv, [OpsNext]_opsVars PROVE SwitchInv'
    OBVIOUS
  <1>1. CASE UNCHANGED opsVars
    <2>1. UNCHANGED <<row, lock, tx, off, now, containers>>
      BY <1>1 DEF opsVars
    <2> QED
      BY <2>1, HostStep DEF SwitchInv, SwitchShape, OpsTypeOK
  <1>2. ASSUME NEW q \in Requests, Arrives(q) \/ list_services(q) \/ switch(q)
        PROVE  SwitchInv'
    BY <1>2, ArrivesStep, ListServicesStep, SwitchStep
  <1>3. ASSUME NEW p \in Procs, Follow(p) \/ FollowSync(p) \/ Restart(p)
        PROVE  SwitchInv'
    BY <1>3, FollowStep, FollowSyncStep, RestartStep
  <1>4. ASSUME NEW t \in Transactions, Commit(t) \/ Rollback(t)
        PROVE  SwitchInv'
    BY <1>4, RowCommitStep, RollbackStep
  <1> QED
    BY <1>1, <1>2, <1>3, <1>4, ReportStep, RecordStep, AgentStep DEF OpsNext

LEMMA SwitchAlways == OpsSpec => []SwitchInv
  BY SwitchInit, SwitchStays, PTL DEF OpsSpec

(***************************************************************************)
(* The row of managed_services keeps its shape, whatever updates of some   *)
(* of its columns are committed, and each process's flag is a flag.        *)
(***************************************************************************)
THEOREM SwitchTyped == OpsSpec => []OpsTypeOK
  <1>1. SwitchInv => OpsTypeOK
    BY DEF SwitchInv, SwitchShape
  <1> QED
    BY <1>1, SwitchAlways, PTL

(***************************************************************************)
(* _expire_auto_off: an audit entry ops.service_auto_off is committed only *)
(* by the step that ends a time which had run out, however many requests,  *)
(* reports and loops look at the same moment.                              *)
(***************************************************************************)
THEOREM AutoOffEarned == OpsSpec => AutoOffIsEarned
  <1>1. SwitchInv => \A t \in Transactions : tx[t].claimed /\ Commit(t) => Expired(row)
    BY DEF SwitchInv, Claims
  <1>2. SwitchInv /\ [OpsNext]_opsVars
            => [\A t \in Transactions : tx[t].claimed /\ Commit(t) => Expired(row)]_opsVars
    BY <1>1
  <1> QED
    BY <1>2, SwitchAlways, PTL DEF OpsSpec, AutoOffIsEarned
=============================================================================
