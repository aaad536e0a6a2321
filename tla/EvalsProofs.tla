---------------------------- MODULE EvalsProofs -----------------------------
(***************************************************************************)
(* Proofs about Evals, for any sets of runs, items, files, replies and     *)
(* outcomes.                                                               *)
(***************************************************************************)
EXTENDS Evals, FiniteSetTheorems, SequenceTheorems, WellFoundedInduction, TLAPS

-----------------------------------------------------------------------------
(***************************************************************************)
(* The scores of a delivery, read off its rows in the order of the items.  *)
(***************************************************************************)
Good(R)    == {x \in R : ~ x.error}
UpTo(R, x) == {q \in R : ~ q.error /\ q.item <= x.item}
Rank(R, x) == Cardinality(UpTo(R, x))
ScoresIn(R) ==
    [i \in 1..Cardinality(Good(R)) |-> (CHOOSE x \in R : ~ x.error /\ Rank(R, x) = i).scores]

(* The rows that carry scores are numbered without a gap.                  *)
Ranked(R) ==
    /\ IsFiniteSet(R)
    /\ \A x \in Good(R) : Rank(R, x) \in 1..Cardinality(Good(R))
    /\ \A x, y \in Good(R) : Rank(R, x) = Rank(R, y) => x = y
    /\ \A i \in 1..Cardinality(Good(R)) : \E x \in Good(R) : Rank(R, x) = i

Itemized(R) == \A x \in R : x.error \in BOOLEAN /\ x.item \in Nat

LEMMA ScoredIsScores ==
  ASSUME NEW r, NEW t PROVE Scored(r, t) = ScoresIn(RowsOf(r, t))
  BY DEF Scored, ScoresIn, Good, Rank, UpTo

(* No row, no scores.                                                      *)
LEMMA NothingRanked == Ranked({}) /\ ScoresIn({}) = <<>> /\ Good({}) = {}
<1>1. Good({}) = {}
  BY DEF Good
<1>2. Cardinality(Good({})) = 0
  BY <1>1, FS_EmptySet
<1>3. Ranked({})
  BY <1>1, <1>2, FS_EmptySet DEF Ranked
<1>4. ScoresIn({}) = <<>>
  BY <1>2 DEF ScoresIn
<1>5. QED
  BY <1>1, <1>3, <1>4

LEMMA ScoresEmpty ==
  ASSUME NEW R, Ranked(R) PROVE ScoresIn(R) = <<>> <=> Good(R) = {}
<1>1. IsFiniteSet(Good(R))
  BY FS_Subset DEF Ranked, Good
<1>2. Cardinality(Good(R)) \in Nat /\ (Cardinality(Good(R)) = 0 <=> Good(R) = {})
  BY <1>1, FS_CardinalityType, FS_EmptySet
<1>3. DOMAIN ScoresIn(R) = 1..Cardinality(Good(R))
  BY DEF ScoresIn
<1>4. ScoresIn(R) = <<>> => Cardinality(Good(R)) = 0
  BY <1>2, <1>3
<1>5. Cardinality(Good(R)) = 0 => ScoresIn(R) = <<>>
  BY DEF ScoresIn
<1>6. QED
  BY <1>2, <1>4, <1>5

(* What a sequence with one more element is.                               *)
LEMMA AppendIs ==
  ASSUME NEW S, NEW s \in Seq(S), NEW e \in S, NEW out \in Seq(S), Len(out) = Len(s) + 1,
         \A i \in 1..Len(s) : out[i] = s[i], out[Len(s) + 1] = e
  PROVE  out = Append(s, e)
<1>1. Append(s, e) \in Seq(S) /\ Len(Append(s, e)) = Len(out)
  OBVIOUS
<1>2. ASSUME NEW i \in 1..Len(out) PROVE out[i] = Append(s, e)[i]
  OBVIOUS
<1>3. QED
  BY <1>1, <1>2, SeqEqual

(* The row of a later item goes to the end, if it carries scores at all.   *)
Grown(R, new) == /\ Ranked(R \cup {new})
                 /\ Cardinality(R \cup {new}) = Cardinality(R) + 1
                 /\ new.error => ScoresIn(R \cup {new}) = ScoresIn(R)
                 /\ ~ new.error => ScoresIn(R \cup {new}) = Append(ScoresIn(R), new.scores)

LEMMA RankedAdd ==
  ASSUME NEW R, Ranked(R), Itemized(R), NEW new, new.error \in BOOLEAN, new.item \in Nat,
         \A x \in R : x.item < new.item
  PROVE  Grown(R, new)
<1> DEFINE N == R \cup {new}
           n == Cardinality(Good(R))
<1>1. new \notin R /\ IsFiniteSet(R) /\ IsFiniteSet(N) /\ Cardinality(N) = Cardinality(R) + 1
  <2>1. new \notin R
    BY DEF Itemized
  <2>2. QED
    BY <2>1, FS_AddElement DEF Ranked
<1>2. IsFiniteSet(Good(R)) /\ n \in Nat
  BY <1>1, FS_Subset, FS_CardinalityType DEF Good
<1>3. \A x \in R : UpTo(N, x) = UpTo(R, x) /\ Rank(N, x) = Rank(R, x)
  <2>1. ASSUME NEW x \in R PROVE ~ (new.item <= x.item)
    BY DEF Itemized
  <2>2. ASSUME NEW x \in R PROVE UpTo(N, x) = UpTo(R, x)
    BY <2>1 DEF UpTo
  <2>3. QED
    BY <2>2 DEF Rank
<1>4. CASE new.error
  <2>1. Good(N) = Good(R)
    BY <1>4 DEF Good
  <2>2. \A x \in Good(R) : x \in R
    BY DEF Good
  <2>3. Ranked(N)
    BY <1>1, <1>3, <2>1, <2>2 DEF Ranked
  <2>4. ASSUME NEW i \in 1..n
        PROVE  (CHOOSE x \in N : ~ x.error /\ Rank(N, x) = i) =
               (CHOOSE x \in R : ~ x.error /\ Rank(R, x) = i)
    <3>1. \A x : (x \in N /\ ~ x.error /\ Rank(N, x) = i) <=> (x \in R /\ ~ x.error /\ Rank(R, x) = i)
      BY <1>3, <1>4
    <3>2. QED
      BY <3>1, Zenon
  <2>5. ScoresIn(N) = ScoresIn(R)
    <3>1. ScoresIn(N) = [i \in 1..n |-> (CHOOSE x \in N : ~ x.error /\ Rank(N, x) = i).scores]
      BY <2>1 DEF ScoresIn
    <3>2. ScoresIn(R) = [i \in 1..n |-> (CHOOSE x \in R : ~ x.error /\ Rank(R, x) = i).scores]
      BY DEF ScoresIn
    <3> DEFINE F(i) == (CHOOSE x \in N : ~ x.error /\ Rank(N, x) = i).scores
               G(i) == (CHOOSE x \in R : ~ x.error /\ Rank(R, x) = i).scores
    <3>3. ASSUME NEW i \in 1..n PROVE F(i) = G(i)
      BY <2>4, Zenon
    <3>4. ScoresIn(N) = [i \in 1..n |-> F(i)] /\ ScoresIn(R) = [i \in 1..n |-> G(i)]
      BY <3>1, <3>2
    <3> HIDE DEF F, G
    <3>5. QED
      BY <3>3, <3>4
  <2>6. QED
    BY <1>1, <1>4, <2>3, <2>5 DEF Grown
<1>5. CASE ~ new.error
  <2>1. Good(N) = Good(R) \cup {new} /\ new \notin Good(R)
    BY <1>1, <1>5 DEF Good
  <2>2. Cardinality(Good(N)) = n + 1
    BY <1>2, <2>1, FS_AddElement
  <2>3. UpTo(N, new) = Good(N)
    BY <1>5 DEF UpTo, Good, Itemized
  <2>4. Rank(N, new) = n + 1
    BY <2>2, <2>3 DEF Rank
  <2>5. \A x \in Good(R) : x \in R /\ Rank(N, x) = Rank(R, x) /\ Rank(N, x) \in 1..n
    BY <1>3 DEF Good, Ranked
  <2>6. Ranked(N)
    <3>1. ASSUME NEW x \in Good(N) PROVE Rank(N, x) \in 1..(n + 1)
      <4>1. CASE x = new
        BY <1>2, <2>4, <4>1
      <4>2. CASE x \in Good(R)
        <5>1. Rank(N, x) \in 1..n
          BY <2>5, <4>2
        <5>2. QED
          BY <1>2, <5>1
      <4>3. QED
        BY <2>1, <4>1, <4>2
    <3>2. ASSUME NEW x \in Good(N), NEW y \in Good(N), Rank(N, x) = Rank(N, y) PROVE x = y
      <4>1. ASSUME NEW z \in Good(R) PROVE Rank(N, z) # n + 1
        <5>1. Rank(N, z) \in 1..n
          BY <2>5
        <5>2. QED
          BY <1>2, <5>1
      <4>2. x = new <=> y = new
        BY <2>1, <2>4, <3>2, <4>1
      <4>3. x \in Good(R) /\ y \in Good(R) => x = y
        BY <2>5, <3>2 DEF Ranked
      <4>4. QED
        BY <2>1, <4>2, <4>3
    <3>3. \A i \in 1..(n + 1) : \E x \in Good(N) : Rank(N, x) = i
      BY <1>2, <2>1, <2>4, <2>5 DEF Ranked
    <3>4. QED
      BY <1>1, <2>2, <3>1, <3>2, <3>3 DEF Ranked
  <2>7. ASSUME NEW i \in 1..n
        PROVE  ScoresIn(N)[i] = ScoresIn(R)[i]
    <3>1. \A x : (x \in N /\ ~ x.error /\ Rank(N, x) = i) <=> (x \in R /\ ~ x.error /\ Rank(R, x) = i)
      BY <1>2, <1>3, <2>4
    <3>2. (CHOOSE x \in N : ~ x.error /\ Rank(N, x) = i) =
          (CHOOSE x \in R : ~ x.error /\ Rank(R, x) = i)
      BY <3>1, Zenon
    <3>3. i \in 1..Cardinality(Good(N))
      BY <1>2, <2>2
    <3>4. ScoresIn(N)[i] = (CHOOSE x \in N : ~ x.error /\ Rank(N, x) = i).scores
      BY <3>3, Zenon DEF ScoresIn
    <3>5. ScoresIn(R)[i] = (CHOOSE x \in R : ~ x.error /\ Rank(R, x) = i).scores
      BY Zenon DEF ScoresIn
    <3>6. QED
      BY <3>2, <3>4, <3>5, Zenon
  <2>8. ScoresIn(N)[n + 1] = new.scores
    <3>1. \A x : (x \in N /\ ~ x.error /\ Rank(N, x) = n + 1) <=> x = new
      BY <1>2, <1>5, <2>1, <2>4, <2>5 DEF Good
    <3>2. (CHOOSE x \in N : ~ x.error /\ Rank(N, x) = n + 1) = new
      BY <3>1
    <3>3. n + 1 \in 1..Cardinality(Good(N))
      BY <1>2, <2>2
    <3>4. QED
      BY <3>2, <3>3 DEF ScoresIn
  <2>9. ScoresIn(N) = Append(ScoresIn(R), new.scores)
    <3> DEFINE S == {ScoresIn(R)[i] : i \in 1..n} \cup {new.scores}
    <3>1. ScoresIn(R) \in Seq(S) /\ Len(ScoresIn(R)) = n
      BY <1>2 DEF ScoresIn
    <3>2. ASSUME NEW i \in 1..(n + 1) PROVE ScoresIn(N)[i] \in S
      <4>1. CASE i = n + 1
        BY <2>8, <4>1
      <4>2. CASE i # n + 1
        <5>1. i \in 1..n
          BY <1>2, <4>2
        <5>2. QED
          BY <2>7, <5>1
      <4>3. QED
        BY <4>1, <4>2
    <3>3. ScoresIn(N) = [i \in 1..(n + 1) |-> ScoresIn(N)[i]]
      BY <2>2 DEF ScoresIn
    <3> DEFINE old == ScoresIn(R)
               out == ScoresIn(N)
    <3>4. \A i \in 1..n : out[i] = old[i]
      BY <2>7
    <3>5. old \in Seq(S) /\ Len(old) = n /\ out[n + 1] = new.scores /\ n \in Nat
      BY <1>2, <2>8, <3>1
    <3>6. new.scores \in S
      OBVIOUS
    <3>7. (\A i \in 1..(n + 1) : out[i] \in S) /\ out = [i \in 1..(n + 1) |-> out[i]]
      BY <3>2, <3>3
    <3> HIDE DEF old, out, n, S
    <3>8. out \in Seq(S) /\ Len(out) = n + 1
      BY <3>5, <3>7
    <3>9. out = Append(old, new.scores)
      BY <3>4, <3>5, <3>6, <3>8, AppendIs
    <3>10. QED
      BY <3>9 DEF old, out
  <2>10. QED
    BY <1>1, <1>5, <2>6, <2>9 DEF Grown
<1>6. QED
  BY <1>4, <1>5
-----------------------------------------------------------------------------
(***************************************************************************)
(* Sums.  The library's fold takes the elements of a set one by one; a     *)
(* function that does so exists, by induction over the subsets, which is   *)
(* stated about a set of them.                                             *)
(***************************************************************************)
LEMMA Subsets ==
  ASSUME NEW S, IsFiniteSet(S), NEW Proven,
         \A T \in SUBSET S : (\A U \in SUBSET T : U # T => U \in Proven) => T \in Proven
  PROVE  \A T \in SUBSET S : T \in Proven
<1> DEFINE R == StrictSubsetOrdering(S)
           Bad == {T \in SUBSET S : T \notin Proven}
<1>1. IsWellFoundedOn(R, SUBSET S)
  BY FS_StrictSubsetOrderingWellFounded, FS_FiniteSubsetsOfFinite
<1>2. \A T, U \in SUBSET S : (U \subseteq T /\ U # T) => <<U, T>> \in R
  BY DEF StrictSubsetOrdering
<1>3. SUFFICES ASSUME Bad # {} PROVE FALSE
  OBVIOUS
<1>4. Bad \subseteq SUBSET S
  OBVIOUS
<1> HIDE DEF R, Bad
<1>5. PICK T \in Bad : \A U \in Bad : ~ (<<U, T>> \in R)
  BY <1>1, <1>3, <1>4, WFMin
<1>6. T \in SUBSET S /\ T \notin Proven
  BY <1>5 DEF Bad
<1>7. ASSUME NEW U \in SUBSET T, U # T PROVE U \in Proven
  <2>1. U \in SUBSET S /\ <<U, T>> \in R
    BY <1>2, <1>6, <1>7
  <2>2. QED
    BY <1>5, <2>1 DEF Bad
<1>8. QED
  BY <1>6, <1>7

Picked(T) == CHOOSE x \in T : TRUE
Rest(T)   == T \ {Picked(T)}

LEMMA RestIsLess ==
  ASSUME NEW T, T # {}
  PROVE  Picked(T) \in T /\ Rest(T) \in SUBSET T /\ Rest(T) # T
<1>1. Picked(T) \in T
  BY DEF Picked
<1>2. QED
  BY <1>1 DEF Rest

(* The partial sums of the values v[i], i in S.                            *)
SumsUp(S, v, f) ==
    f = [T \in SUBSET S |-> IF T = {} THEN 0 ELSE f[Rest(T)] + v[Picked(T)]]

LEMMA SummedAt ==
  ASSUME NEW S, NEW v, NEW f, SumsUp(S, v, f), NEW T \in SUBSET S
  PROVE  f[T] = IF T = {} THEN 0 ELSE f[Rest(T)] + v[Picked(T)]
  BY DEF SumsUp

LEMMA SumsAgree ==
  ASSUME NEW S, IsFiniteSet(S), NEW v, NEW f, SumsUp(S, v, f),
         NEW T \in SUBSET S, NEW g, SumsUp(T, v, g)
  PROVE  \A U \in SUBSET T : f[U] = g[U]
<1> DEFINE Proven == {U \in SUBSET T : f[U] = g[U]}
<1>1. IsFiniteSet(T)
  BY FS_Subset
<1>2. ASSUME NEW U \in SUBSET T, \A V \in SUBSET U : V # U => V \in Proven
      PROVE  U \in Proven
  <2>1. U \in SUBSET S
    OBVIOUS
  <2>2. f[U] = (IF U = {} THEN 0 ELSE f[Rest(U)] + v[Picked(U)])
    BY <2>1, SummedAt
  <2>3. g[U] = (IF U = {} THEN 0 ELSE g[Rest(U)] + v[Picked(U)])
    BY SummedAt
  <2>4. U # {} => f[Rest(U)] = g[Rest(U)]
    BY <1>2, RestIsLess
  <2>5. QED
    BY <2>2, <2>3, <2>4
<1> HIDE DEF Proven
<1>3. \A U \in SUBSET T : U \in Proven
  BY <1>1, <1>2, Subsets
<1>4. QED
  BY <1>3 DEF Proven

LEMMA SumsExist ==
  ASSUME NEW S, IsFiniteSet(S), NEW v
  PROVE  \E f : SumsUp(S, v, f)
<1> DEFINE Proven == {T \in SUBSET S : \E f : SumsUp(T, v, f)}
<1>1. ASSUME NEW T \in SUBSET S, \A U \in SUBSET T : U # T => U \in Proven
      PROVE  T \in Proven
  <2> DEFINE h(U) == CHOOSE g : SumsUp(U, v, g)
             f == [U \in SUBSET T |-> IF U = {} THEN 0 ELSE h(Rest(U))[Rest(U)] + v[Picked(U)]]
  <2>1. \A U \in SUBSET T : U # T => SumsUp(U, v, h(U))
    BY <1>1
  <2>2. \A U \in SUBSET T : IsFiniteSet(U)
    BY FS_Subset
  <2> HIDE DEF h
  <2>3. ASSUME NEW V \in SUBSET T, V # T PROVE f[V] = h(V)[V]
    <3>1. SumsUp(V, v, h(V)) /\ V \in SUBSET V /\ IsFiniteSet(V)
      BY <2>1, <2>2, <2>3
    <3>2. h(V)[V] = IF V = {} THEN 0 ELSE h(V)[Rest(V)] + v[Picked(V)]
      BY <3>1, SummedAt
    <3>3. CASE V = {}
      BY <3>2, <3>3 DEF f
    <3>4. CASE V # {}
      <4>1. Rest(V) \in SUBSET V /\ Rest(V) # V /\ Rest(V) # T
        BY <2>3, <3>4, RestIsLess
      <4>2. SumsUp(Rest(V), v, h(Rest(V)))
        BY <2>1, <4>1
      <4>3. h(V)[Rest(V)] = h(Rest(V))[Rest(V)]
        BY <3>1, <4>1, <4>2, SumsAgree
      <4>4. QED
        BY <3>2, <3>4, <4>3
    <3>5. QED
      BY <3>3, <3>4
  <2>4. \A U \in SUBSET T : U # {} => f[Rest(U)] = h(Rest(U))[Rest(U)]
    <3>1. \A U \in SUBSET T : U # {} => Rest(U) \in SUBSET T /\ Rest(U) # T
      BY RestIsLess
    <3>2. QED
      BY <2>3, <3>1
  <2>5. f = [U \in SUBSET T |-> IF U = {} THEN 0 ELSE f[Rest(U)] + v[Picked(U)]]
    BY <2>4
  <2>6. QED
    BY <2>5 DEF SumsUp
<1> HIDE DEF Proven
<1>2. S \in Proven
  BY <1>1, Subsets
<1>3. QED
  BY <1>2 DEF Proven

(* Of two lists that are as long as each other, the one that is no lower   *)
(* anywhere has a sum that is no lower.                                    *)
LEMMA SumsCompare ==
  ASSUME NEW S, IsFiniteSet(S), NEW v \in [S -> Nat], NEW w \in [S -> Nat],
         \A i \in S : v[i] <= w[i], NEW f, SumsUp(S, v, f), NEW g, SumsUp(S, w, g)
  PROVE  f[S] \in Nat /\ g[S] \in Nat /\ f[S] <= g[S]
<1> DEFINE Proven == {T \in SUBSET S : f[T] \in Nat /\ g[T] \in Nat /\ f[T] <= g[T]}
<1>1. ASSUME NEW T \in SUBSET S, \A U \in SUBSET T : U # T => U \in Proven
      PROVE  T \in Proven
  <2>1. f[T] = (IF T = {} THEN 0 ELSE f[Rest(T)] + v[Picked(T)])
    BY SummedAt
  <2>2. g[T] = (IF T = {} THEN 0 ELSE g[Rest(T)] + w[Picked(T)])
    BY SummedAt
  <2>3. CASE T = {}
    BY <2>1, <2>2, <2>3
  <2>4. CASE T # {}
    <3>1. Picked(T) \in S /\ Rest(T) \in Proven
      BY <1>1, <2>4, RestIsLess
    <3>2. v[Picked(T)] \in Nat /\ w[Picked(T)] \in Nat /\ v[Picked(T)] <= w[Picked(T)]
      BY <3>1
    <3>3. f[Rest(T)] \in Nat /\ g[Rest(T)] \in Nat /\ f[Rest(T)] <= g[Rest(T)]
      BY <3>1
    <3>4. QED
      BY <2>1, <2>2, <2>4, <3>2, <3>3
  <2>5. QED
    BY <2>3, <2>4
<1> HIDE DEF Proven
<1>2. S \in Proven
  BY <1>1, Subsets
<1>3. QED
  BY <1>2 DEF Proven

(* One more element adds its value, whichever is taken first.              *)
LEMMA SumsAdd ==
  ASSUME NEW S, IsFiniteSet(S), NEW v \in [S -> Nat], NEW f, SumsUp(S, v, f)
  PROVE  \A T \in SUBSET S : f[T] \in Nat /\ \A x \in S \ T : f[T \cup {x}] = f[T] + v[x]
<1> DEFINE Proven == {T \in SUBSET S : f[T] \in Nat /\ \A x \in S \ T : f[T \cup {x}] = f[T] + v[x]}
<1>1. ASSUME NEW T \in SUBSET S, \A U \in SUBSET T : U # T => U \in Proven
      PROVE  T \in Proven
  <2>1. f[T] = (IF T = {} THEN 0 ELSE f[Rest(T)] + v[Picked(T)])
    <3>1. SumsUp(S, v, f)
      OBVIOUS
    <3>2. QED
      BY <3>1 DEF SumsUp
  <2>2. f[T] \in Nat
    <3>1. CASE T = {}
      BY <2>1, <3>1
    <3>2. CASE T # {}
      <4>1. Picked(T) \in S /\ f[Rest(T)] \in Nat
        BY <1>1, <3>2, RestIsLess
      <4>2. QED
        BY <2>1, <3>2, <4>1
    <3>3. QED
      BY <3>1, <3>2
  <2>3. ASSUME NEW x \in S \ T PROVE f[T \cup {x}] = f[T] + v[x]
    <3> DEFINE U == T \cup {x}
               y == Picked(U)
    <3>1. U \in SUBSET S /\ U # {}
      OBVIOUS
    <3>2. f[U] = f[Rest(U)] + v[y] /\ y \in U
      BY <3>1, SummedAt, RestIsLess
    <3>3. Rest(U) = U \ {y}
      BY DEF Rest
    <3> HIDE DEF y
    <3>4. CASE y = x
      BY <3>2, <3>3, <3>4
    <3>5. CASE y # x
      <4> DEFINE V == T \ {y}
      <4>1. y \in T /\ Rest(U) = V \cup {x} /\ T = V \cup {y}
        BY <3>2, <3>3, <3>5
      <4>2. V \in SUBSET T /\ V # T /\ x \in S \ V /\ y \in S \ V
        BY <4>1
      <4>3. V \in Proven
        BY <1>1, <4>2
      <4> HIDE DEF V
      <4>4. f[V] \in Nat /\ f[V \cup {x}] = f[V] + v[x] /\ f[V \cup {y}] = f[V] + v[y]
        BY <4>2, <4>3
      <4>5. v[x] \in Nat /\ v[y] \in Nat
        BY <4>2
      <4> HIDE DEF U
      <4>6. f[U] = (f[V] + v[x]) + v[y] /\ f[T] = f[V] + v[y]
        BY <3>2, <4>1, <4>4
      <4>7. f[U] = f[T] + v[x]
        BY <4>4, <4>5, <4>6
      <4>8. QED
        BY <4>7 DEF U
    <3>6. QED
      BY <3>4, <3>5
  <2>4. QED
    BY <2>2, <2>3
<1> HIDE DEF Proven
<1>2. \A T \in SUBSET S : T \in Proven
  BY <1>1, Subsets
<1>3. QED
  BY <1>2 DEF Proven

(* The total of a function is the sum of all its values.                   *)
LEMMA TotalSums ==
  ASSUME NEW S, IsFiniteSet(S), NEW v, DOMAIN v = S
  PROVE  \E f : SumsUp(S, v, f) /\ Total(v) = f[S]
<1> DEFINE Folds(f) == f = [T \in SUBSET S |->
                               IF T = {} THEN 0
                               ELSE f[T \ {CHOOSE x \in T : TRUE}] + v[CHOOSE x \in T : TRUE]]
           iter == CHOOSE f : Folds(f)
<1>1. Total(v) = iter[S]
  BY DEF Total, FoldFunction, FoldFunctionOnSet, MapThenFoldSet
<1>2. \A f : SumsUp(S, v, f) <=> Folds(f)
  BY DEF SumsUp, Rest, Picked
<1> HIDE DEF Folds
<1>3. \E f : Folds(f)
  BY <1>2, SumsExist
<1>4. Folds(iter)
  BY <1>3, Zenon
<1> HIDE DEF iter
<1>5. QED
  BY <1>1, <1>2, <1>4

LEMMA TotalIsNat ==
  ASSUME NEW S, IsFiniteSet(S), NEW v \in [S -> Nat]
  PROVE  Total(v) \in Nat
<1>1. PICK f : SumsUp(S, v, f) /\ Total(v) = f[S]
  BY TotalSums
<1>2. \A T \in SUBSET S : f[T] \in Nat
  BY <1>1, SumsAdd
<1>3. QED
  BY <1>1, <1>2

(* The prices of a set of rows: nothing for none, and one more row adds    *)
(* its own.                                                                *)
Priced(R) == \A x \in R : x.cost \in Nat /\ x.judged \in Nat

LEMMA NothingPriced == PriceOf({}) = 0
<1> DEFINE v == [row \in {} |-> row.cost + row.judged]
<1>1. PICK f : SumsUp({}, v, f) /\ Total(v) = f[{}]
  BY FS_EmptySet, TotalSums
<1>2. f[{}] = 0
  BY <1>1, SummedAt
<1>3. QED
  BY <1>1, <1>2 DEF PriceOf

LEMMA PriceAdd ==
  ASSUME NEW R, IsFiniteSet(R), Priced(R), NEW new, new \notin R,
         new.cost \in Nat, new.judged \in Nat
  PROVE  PriceOf(R) \in Nat /\ PriceOf(R \cup {new}) = PriceOf(R) + (new.cost + new.judged)
<1> DEFINE N == R \cup {new}
           v == [row \in R |-> row.cost + row.judged]
           w == [row \in N |-> row.cost + row.judged]
<1>1. IsFiniteSet(N)
  BY FS_AddElement
<1>2. v \in [R -> Nat] /\ w \in [N -> Nat] /\ w[new] = new.cost + new.judged /\ \A x \in R : v[x] = w[x]
  BY DEF Priced
<1>3. PriceOf(R) = Total(v) /\ PriceOf(N) = Total(w)
  BY DEF PriceOf
<1> HIDE DEF v, w
<1>4. PICK f : SumsUp(R, v, f) /\ Total(v) = f[R]
  BY <1>2, TotalSums
<1>5. PICK g : SumsUp(N, w, g) /\ Total(w) = g[N]
  BY <1>1, <1>2, TotalSums
<1>6. g[R] \in Nat /\ g[N] = g[R] + w[new]
  BY <1>1, <1>2, <1>5, SumsAdd
<1>7. SumsUp(R, w, f)
  <2>1. \A T \in SUBSET R : T # {} => v[Picked(T)] = w[Picked(T)]
    BY <1>2, RestIsLess
  <2>2. [T \in SUBSET R |-> IF T = {} THEN 0 ELSE f[Rest(T)] + v[Picked(T)]] =
        [T \in SUBSET R |-> IF T = {} THEN 0 ELSE f[Rest(T)] + w[Picked(T)]]
    BY <2>1
  <2>3. QED
    BY <1>4, <2>2 DEF SumsUp
<1>8. g[R] = f[R]
  BY <1>1, <1>5, <1>7, SumsAgree
<1>9. QED
  BY <1>2, <1>3, <1>4, <1>5, <1>6, <1>8

-----------------------------------------------------------------------------
(***************************************************************************)
(* The inductive invariant.  Every variable keeps its shape: what a summary *)
(* or a row of scores holds is left to the formulas that compute it.       *)
(***************************************************************************)
Read     == UNION {LET New == Imported(file.csv, file.entries) IN {New[i] : i \in DOMAIN New}
                   : file \in Files}
Contents == ItemKinds \cup {ItemOf(e) : e \in Read}
Statuses == {"none", "flushed", "lost", "pending", "running", "done", "failed"}
Jobs     == {"none", "queued", "loaded", "scoring", "ended"}

IsRun(x) ==
    /\ DOMAIN x = DOMAIN NoRun
    /\ x.status \in Statuses
    /\ x.bot \in BOOLEAN /\ x.pinned \in BOOLEAN /\ x.baseline \in BOOLEAN
    /\ x.metrics \in SUBSET MetricNames
    /\ x.total \in Nat /\ x.done \in Nat /\ x.cost \in Nat

IsMem(x) ==
    /\ DOMAIN x = DOMAIN NoMem
    /\ x.graph \in {"none", "pinned", "own", "default"}
    /\ x.total \in Nat /\ x.next \in Nat /\ x.cost \in Nat /\ x.judged \in Nat

AreRuns(f) == DOMAIN f = Runs /\ \A r \in Runs : IsRun(f[r])
AreMems(f) == DOMAIN f = Runs /\ \A r \in Runs : IsMem(f[r])
AreRows(R) ==
    /\ IsFiniteSet(R)
    /\ \A x \in R : x.run \in Runs /\ x.item \in Nat /\ x.try \in Nat /\ x.error \in BOOLEAN
    /\ Priced(R)

Typed ==
    /\ dataset \in {"live", "gone"} /\ items \in Seq(Contents)
    /\ botLive \in BOOLEAN /\ ownPipeline \in BOOLEAN
    /\ AreRuns(run) /\ created \in Seq(Runs) /\ AreRows(rows)
    /\ job \in [Runs -> Jobs] /\ AreMems(mem)
    /\ tries \in [Runs -> Nat] /\ spent \in [Runs -> Nat]
    /\ mishaps \in Nat

(* A run that was started has something to score, one that is gone counts  *)
(* nothing, and no worker is at one that is not committed.                 *)
Begun(r) ==
    /\ (Stored(r) \/ run[r].status = "flushed") => items # <<>>
    /\ ~ Stored(r) => run[r].done = 0
    /\ job[r] \in {"loaded", "scoring"} => run[r].status \notin {"none", "flushed"}

(* What a delivery writes it writes under its own number.                  *)
Delivered(r) == \A x \in rows : x.run = r => x.try \in 1..tries[r]

(* A delivery that has just been loaded has done nothing yet.              *)
RowsFor(R, r, t) == {x \in R : x.run = r /\ x.try = t}
Fresh(r) == job[r] = "loaded" =>
    /\ tries[r] >= 1 /\ mem[r].total >= 1 /\ mem[r].next = 1 /\ mem[r].scores = <<>>
    /\ mem[r].cost = 0 /\ mem[r].judged = 0
    /\ RowsFor(rows, r, tries[r]) = {}

(* While it scores, it holds the scores and the prices of its own rows,    *)
(* one row for each item it has passed, and the run counts them.           *)
Passed(m, R) ==
    /\ m.total >= 1 /\ m.next \in 1..(m.total + 1)
    /\ Cardinality(R) = m.next - 1 /\ {x.item : x \in R} = 1..(m.next - 1)
    /\ Ranked(R) /\ m.scores = ScoresIn(R) /\ m.cost + m.judged = PriceOf(R)
Scoring(r) == job[r] = "scoring" /\ Stored(r) =>
    /\ tries[r] >= 1 /\ run[r].status = "running" /\ run[r].total = mem[r].total
    /\ run[r].done = mem[r].next - 1
    /\ Passed(mem[r], RowsFor(rows, r, tries[r]))

(* What a run that is over says is what the rows of one delivery say.      *)
Counted(r) == \E t \in 0..tries[r] :
    run[r].done = Cardinality(RowsFor(rows, r, t)) \/ run[r].done = 0
Says(x, R) ==
    /\ Ranked(R)
    /\ {row.item : row \in R} = 1..x.total /\ x.done = x.total
    /\ x.summary = Summarise(ScoresIn(R)) /\ x.cost = PriceOf(R)
    /\ x.status = "failed" <=> Good(R) = {}
Told(r) == run[r].status \in {"done", "failed"} =>
    \E t \in 1..tries[r] : Says(run[r], RowsFor(rows, r, t))

(* The graph is chosen before the first item and kept.                     *)
Pinned(r) == job[r] \in {"loaded", "scoring"} /\ run[r].pinned => mem[r].graph = "pinned"

Kept(r) == /\ Begun(r) /\ Delivered(r) /\ Fresh(r) /\ Scoring(r)
           /\ Counted(r) /\ Told(r) /\ Pinned(r)

EvalInv == Typed /\ \A r \in Runs : Kept(r)

-----------------------------------------------------------------------------
(***************************************************************************)
(* What the actions put into a run and into a worker's memory.             *)
(***************************************************************************)
LEMMA Empties == IsRun(NoRun) /\ IsMem(NoMem)
  BY DEF IsRun, NoRun, IsMem, NoMem, Statuses

(* Prices are natural numbers.                                             *)
LEMMA ResultCosts ==
  ASSUME NEW r \in Runs, run[r].metrics \in SUBSET MetricNames, NEW item, NEW result \in Results(r, item)
  PROVE  result.error \in BOOLEAN /\ result.cost \in Nat /\ result.judged \in Nat /\ result.spends \in Nat
<1>1. IsFiniteSet(MetricNames)
  <2>1. ASSUME NEW a, NEW b, NEW c PROVE IsFiniteSet({a, b, c})
    <3>1. IsFiniteSet({a} \cup {b}) /\ IsFiniteSet(({a} \cup {b}) \cup {c})
      BY FS_Singleton, FS_AddElement
    <3>2. {a, b, c} = ({a} \cup {b}) \cup {c}
      OBVIOUS
    <3>3. QED
      BY <3>1, <3>2
  <2>2. IsFiniteSet(JudgeMetrics)
    BY <2>1 DEF JudgeMetrics
  <2> DEFINE most == {"retrieval_recall", "context_precision", "citation_rate"}
  <2>3. IsFiniteSet(most)
    BY <2>1
  <2>4. IsFiniteSet(most \cup {"answered"})
    BY <2>3, FS_AddElement
  <2>5. MetricNames = (most \cup {"answered"}) \cup JudgeMetrics
    BY DEF MetricNames
  <2> HIDE DEF most
  <2>6. QED
    BY <2>2, <2>4, <2>5, FS_Union
<1>2. ASSUME NEW asked \in SUBSET MetricNames, NEW reply \in [asked -> Replies]
      PROVE  JudgeCost(asked, reply) \in Nat /\ Total([m \in asked |-> reply[m].spends]) \in Nat
  <2>1. IsFiniteSet(asked)
    BY <1>1, FS_Subset
  <2>2. \A m \in asked : reply[m].cost \in Nat /\ reply[m].spends \in Nat
    BY EvalsAssumption
  <2> DEFINE cost   == [m \in asked |-> reply[m].cost]
             spends == [m \in asked |-> reply[m].spends]
  <2>3. cost \in [asked -> Nat] /\ spends \in [asked -> Nat]
    BY <2>2
  <2> HIDE DEF cost, spends
  <2>4. Total(cost) \in Nat /\ Total(spends) \in Nat
    BY <2>1, <2>3, TotalIsNat
  <2>5. QED
    BY <2>4 DEF JudgeCost, cost, spends
<1>3. PICK o \in Outcomes :
        result \in (IF o.raises THEN {Raised(o)} ELSE _score_item(r, item, o))
  BY DEF Results
<1>4. o.cost \in Nat /\ o.spends \in Nat
  BY EvalsAssumption
<1>5. CASE o.raises
  <2>1. result = Raised(o)
    BY <1>3, <1>5
  <2>2. QED
    BY <1>4, <2>1 DEF Raised
<1>6. CASE ~ o.raises
  <2> DEFINE asked == {m \in run[r].metrics : AsksJudge(m, Sample(item, o))}
  <2> DEFINE row(reply) ==
        [error |-> FALSE,
         scores |-> [m \in run[r].metrics |->
                        ScoreOf(m, Sample(item, o), IF m \in asked THEN reply[m] ELSE [kind |-> "none"])],
         cost |-> o.cost, judged |-> JudgeCost(asked, reply),
         spends |-> o.spends + Total([m \in asked |-> reply[m].spends])]
  <2>1. result \in _score_item(r, item, o)
    BY <1>3, <1>6
  <2>2. PICK reply \in [asked -> Replies] : result = row(reply)
    BY <2>1, Zenon DEF _score_item
  <2>3. /\ result.error = FALSE /\ result.judged = JudgeCost(asked, reply) /\ result.cost = o.cost
        /\ result.spends = o.spends + Total([m \in asked |-> reply[m].spends])
    BY <2>2
  <2>4. asked \in SUBSET MetricNames
    OBVIOUS
  <2> HIDE DEF asked
  <2>5. QED
    BY <1>2, <1>4, <2>2, <2>3, <2>4
<1>7. QED
  BY <1>5, <1>6

(* What a row is written from.                                             *)
LEMMA RowFields ==
  ASSUME NEW r, NEW result
  PROVE  LET row == _score_row(r, result) IN
         /\ row.run = r /\ row.item = mem[r].next /\ row.try = tries[r]
         /\ row.error = result.error /\ row.scores = result.scores
         /\ row.cost = result.cost /\ row.judged = result.judged
  BY DEF _score_row

(* A file adds items.                                                      *)
LEMMA FilesAdd ==
  ASSUME NEW file \in Files, items \in Seq(Contents)
  PROVE  LET New == Imported(file.csv, file.entries)
             more == items \o [i \in DOMAIN New |-> ItemOf(New[i])]
         IN  more \in Seq(Contents) /\ (items # <<>> => more # <<>>) /\ Len(more) >= Len(items)
<1> DEFINE New == Imported(file.csv, file.entries)
           its == [i \in DOMAIN New |-> ItemOf(New[i])]
<1>1. New \in Seq({New[i] : i \in DOMAIN New})
  BY EvalsAssumption DEF IsList
<1>2. \A i \in DOMAIN New : ItemOf(New[i]) \in Contents
  BY DEF Contents, Read
<1> HIDE DEF New
<1>3. its \in Seq(Contents)
  <2>1. DOMAIN New = 1..Len(New) /\ Len(New) \in Nat
    BY <1>1
  <2>2. QED
    BY <1>2, <2>1
<1> HIDE DEF its
<1>4. items \o its \in Seq(Contents) /\ (items # <<>> => items \o its # <<>>) /\ Len(items \o its) >= Len(items)
  BY <1>3
<1>5. QED
  BY <1>4 DEF its, New

(* What one entry of a table is changed to.                                *)
LEMMA PutRun ==
  ASSUME NEW f, AreRuns(f), NEW r \in Runs, NEW new, IsRun(new)
  PROVE  AreRuns([f EXCEPT ![r] = new])
  BY DEF AreRuns

LEMMA PutMem ==
  ASSUME NEW f, AreMems(f), NEW r \in Runs, NEW new, IsMem(new)
  PROVE  AreMems([f EXCEPT ![r] = new])
  BY DEF AreMems

LEMMA RunFlags ==
  ASSUME NEW x, IsRun(x)
  PROVE  IsRun([x EXCEPT !.bot = FALSE]) /\ IsRun([x EXCEPT !.pinned = FALSE])
  BY DEF IsRun, NoRun

LEMMA SetStatus ==
  ASSUME NEW f, AreRuns(f), NEW r \in Runs, NEW status \in Statuses
  PROVE  AreRuns([f EXCEPT ![r].status = status])
<1>1. IsRun([f[r] EXCEPT !.status = status])
  BY DEF IsRun, NoRun, AreRuns
<1>2. [f EXCEPT ![r].status = status] = [f EXCEPT ![r] = [f[r] EXCEPT !.status = status]]
  BY DEF AreRuns
<1>3. QED
  BY <1>1, <1>2, PutRun

LEMMA SetDone ==
  ASSUME NEW f, AreRuns(f), NEW r \in Runs, NEW n \in Nat
  PROVE  AreRuns([f EXCEPT ![r].done = n])
<1>1. IsRun([f[r] EXCEPT !.done = n])
  BY DEF IsRun, NoRun, AreRuns
<1>2. [f EXCEPT ![r].done = n] = [f EXCEPT ![r] = [f[r] EXCEPT !.done = n]]
  BY DEF AreRuns
<1>3. QED
  BY <1>1, <1>2, PutRun

LEMMA SetRunning ==
  ASSUME NEW f, AreRuns(f), NEW r \in Runs, NEW n \in Nat
  PROVE  AreRuns([f EXCEPT ![r].status = "running", ![r].total = n, ![r].done = 0])
<1>1. IsRun([f[r] EXCEPT !.status = "running", !.total = n, !.done = 0])
  BY DEF IsRun, NoRun, AreRuns, Statuses
<1>2. [f EXCEPT ![r].status = "running", ![r].total = n, ![r].done = 0] =
      [f EXCEPT ![r] = [f[r] EXCEPT !.status = "running", !.total = n, !.done = 0]]
  BY DEF AreRuns
<1>3. QED
  BY <1>1, <1>2, PutRun

LEMMA SetFinished ==
  ASSUME NEW f, AreRuns(f), NEW r \in Runs, NEW summary, NEW n \in Nat, NEW status \in Statuses
  PROVE  AreRuns([f EXCEPT ![r].summary = summary, ![r].cost = n, ![r].status = status])
<1>1. IsRun([f[r] EXCEPT !.summary = summary, !.cost = n, !.status = status])
  BY DEF IsRun, NoRun, AreRuns
<1>2. [f EXCEPT ![r].summary = summary, ![r].cost = n, ![r].status = status] =
      [f EXCEPT ![r] = [f[r] EXCEPT !.summary = summary, !.cost = n, !.status = status]]
  BY DEF AreRuns
<1>3. QED
  BY <1>1, <1>2, PutRun

LEMMA StartFields ==
  ASSUME NEW with \in Starts
  PROVE  IsRun([NoRun EXCEPT !.status = "flushed", !.bot = TRUE, !.pinned = with.pinned,
                             !.baseline = with.baseline, !.metrics = with.metrics])
  BY EvalsAssumption DEF IsRun, NoRun, Statuses

LEMMA MemLoaded ==
  ASSUME NEW graph \in {"none", "pinned", "own", "default"}, NEW n \in Nat
  PROVE  IsMem([NoMem EXCEPT !.graph = graph, !.total = n])
  BY DEF IsMem, NoMem

LEMMA SetScored ==
  ASSUME NEW f, AreMems(f), NEW r \in Runs, NEW n \in Nat, NEW m \in Nat, NEW j \in Nat, NEW scores
  PROVE  AreMems([f EXCEPT ![r].next = n, ![r].cost = m, ![r].judged = j, ![r].scores = scores])
<1>1. IsMem([f[r] EXCEPT !.next = n, !.cost = m, !.judged = j, !.scores = scores])
  BY DEF IsMem, NoMem, AreMems
<1>2. [f EXCEPT ![r].next = n, ![r].cost = m, ![r].judged = j, ![r].scores = scores] =
      [f EXCEPT ![r] = [f[r] EXCEPT !.next = n, !.cost = m, !.judged = j, !.scores = scores]]
  BY DEF AreMems
<1>3. QED
  BY <1>1, <1>2, PutMem

-----------------------------------------------------------------------------
(* Every action keeps every variable in its shape.                         *)
LEMMA TypeStep == Typed /\ [Next]_vars => Typed'
<1> SUFFICES ASSUME Typed, [Next]_vars PROVE Typed'
  OBVIOUS
<1> USE DEF Unworked, Edited, Mishap, Api, JobEnds
<1>0. AreRuns(run) /\ AreMems(mem) /\ AreRows(rows) /\ items \in Seq(Contents) /\ created \in Seq(Runs)
  BY DEF Typed
<1>1. CASE add_item
  <2>1. PICK kind \in ItemKinds : items' = Append(items, kind)
    BY <1>1 DEF add_item
  <2>2. items' \in Seq(Contents)
    BY <1>0, <2>1 DEF Contents
  <2>3. QED
    BY <1>1, <2>2 DEF add_item, Typed
<1>2. CASE import_dataset
  <2>1. items' \in Seq(Contents)
    BY <1>0, <1>2, FilesAdd DEF import_dataset
  <2>2. QED
    BY <1>2, <2>1 DEF import_dataset, Typed
<1>3. CASE delete_dataset
  <2>1. IsRun([NoRun EXCEPT !.status = "lost"])
    BY DEF IsRun, NoRun, Statuses
  <2>2. AreRuns(run')
    BY <1>0, <1>3, <2>1 DEF delete_dataset, AreRuns
  <2>3. AreRows(rows')
    BY <1>3, FS_EmptySet DEF delete_dataset, AreRows, Priced
  <2>4. QED
    BY <1>3, <2>2, <2>3 DEF delete_dataset, Typed
<1>4. CASE delete_bot
  <2>1. \A r \in Runs : IsRun([run[r] EXCEPT !.bot = FALSE])
    BY <1>0, RunFlags DEF AreRuns
  <2>2. AreRuns(run')
    BY <1>4, <2>1 DEF delete_bot, AreRuns
  <2>3. botLive' \in BOOLEAN /\ ownPipeline' \in BOOLEAN /\ mishaps' \in Nat
    <3>1. botLive' = FALSE /\ ownPipeline' = FALSE /\ mishaps' = mishaps + 1
      BY <1>4 DEF delete_bot
    <3>2. mishaps' \in Nat
      BY <3>1 DEF Typed
    <3>3. botLive' \in BOOLEAN /\ ownPipeline' \in BOOLEAN
      BY <3>1, Zenon
    <3>4. QED
      BY <3>2, <3>3
  <2>4. QED
    BY <1>4, <2>2, <2>3 DEF delete_bot, Typed
<1>5. CASE delete_pinned
  <2>1. \A r \in Runs : IsRun([run[r] EXCEPT !.pinned = FALSE])
    BY <1>0, RunFlags DEF AreRuns
  <2>2. AreRuns(run')
    BY <1>5, <2>1 DEF delete_pinned, AreRuns
  <2>3. QED
    BY <1>5, <2>2 DEF delete_pinned, Typed
<1>6. CASE SetPipeline
  BY <1>6 DEF SetPipeline, Typed
<1>7. ASSUME NEW r \in Runs, start_run(r) PROVE Typed'
  <2>1. PICK with \in Starts :
          run' = [run EXCEPT ![r] = [NoRun EXCEPT !.status = "flushed", !.bot = TRUE,
                    !.pinned = with.pinned, !.baseline = with.baseline, !.metrics = with.metrics]]
    BY <1>7 DEF start_run
  <2>2. AreRuns(run')
    BY <1>0, <2>1, StartFields, PutRun
  <2>3. job' \in [Runs -> Jobs]
    BY <1>7 DEF start_run, Jobs, Typed
  <2>4. QED
    BY <1>7, <2>2, <2>3 DEF start_run, Typed
<1>8. ASSUME NEW r \in Runs, CommitStart(r) \/ StartLost(r) PROVE Typed'
  <2>1. PICK status \in {"pending", "lost"} : run' = [run EXCEPT ![r].status = status]
    BY <1>8 DEF CommitStart, StartLost
  <2>2. AreRuns(run')
    BY <1>0, <2>1, SetStatus DEF Statuses
  <2>3. Append(created, r) \in Seq(Runs)
    BY <1>0
  <2>4. created' \in Seq(Runs)
    BY <1>0, <1>8, <2>3 DEF CommitStart, StartLost
  <2>5. QED
    BY <1>8, <2>2, <2>4 DEF CommitStart, StartLost, Typed
<1>9. ASSUME NEW r \in Runs, Deliver(r) PROVE Typed'
  <2>1. _dag_for_run(r) \in {"none", "pinned", "own", "default"}
    BY <1>0 DEF _dag_for_run, AreRuns, IsRun, Typed
  <2>2. Len(items) \in Nat
    BY <1>0
  <2>3. PICK new : IsMem(new) /\ mem' = [mem EXCEPT ![r] = new]
    BY <1>9, <2>1, <2>2, Empties, MemLoaded DEF Deliver
  <2>4. AreMems(mem')
    BY <1>0, <2>3, PutMem
  <2>5. job' \in [Runs -> Jobs]
    BY <1>9 DEF Deliver, Jobs, Typed
  <2>6. tries' \in [Runs -> Nat]
    BY <1>9 DEF Deliver, Typed
  <2>7. QED
    BY <1>9, <2>4, <2>5, <2>6 DEF Deliver, Typed
<1>10. ASSUME NEW r \in Runs, MarkRunning(r) PROVE Typed'
  <2>1. mem[r].total \in Nat
    BY <1>0 DEF AreMems, IsMem
  <2>2. AreRuns(run')
    <3>1. \/ run' = [run EXCEPT ![r].status = "running", ![r].total = mem[r].total, ![r].done = 0]
          \/ run' = run
      BY <1>10 DEF MarkRunning
    <3>2. AreRuns([run EXCEPT ![r].status = "running", ![r].total = mem[r].total, ![r].done = 0])
      BY <1>0, <2>1, SetRunning
    <3>3. QED
      BY <1>0, <3>1, <3>2
  <2>3. AreMems(mem')
    BY <1>0, <1>10, Empties, PutMem DEF MarkRunning
  <2>4. job' \in [Runs -> Jobs]
    BY <1>10 DEF MarkRunning, Jobs, Typed
  <2>5. QED
    BY <1>10, <2>2, <2>3, <2>4 DEF MarkRunning, Typed
<1>11. ASSUME NEW r \in Runs, ScoreItem(r) PROVE Typed'
  <2>1. PICK result \in Results(r, items[mem[r].next]) : Keep(r, result, ~ result.error)
    BY <1>11 DEF ScoreItem
  <2>2. run[r].metrics \in SUBSET MetricNames /\ run[r].done \in Nat
    BY <1>0 DEF AreRuns, IsRun
  <2>3. mem[r].next \in Nat /\ mem[r].cost \in Nat /\ mem[r].judged \in Nat /\ tries[r] \in Nat
        /\ spent[r] \in Nat
    BY <1>0 DEF AreMems, IsMem, Typed
  <2>4. result.error \in BOOLEAN /\ result.cost \in Nat /\ result.judged \in Nat /\ result.spends \in Nat
    BY <2>2, ResultCosts
  <2>5. AreRuns(run')
    <3>1. run[r].done + 1 \in Nat /\ run' = [run EXCEPT ![r].done = run[r].done + 1]
      BY <2>1, <2>2 DEF Keep
    <3>2. QED
      BY <1>0, <3>1, SetDone
  <2>6. AreMems(mem')
    <3> DEFINE scores == IF ~ result.error THEN Append(mem[r].scores, result.scores) ELSE mem[r].scores
               cost   == mem[r].cost + result.cost
               judged == mem[r].judged + result.judged
    <3>1. mem' = [mem EXCEPT ![r].next = mem[r].next + 1, ![r].cost = cost, ![r].judged = judged,
                             ![r].scores = scores]
      BY <2>1 DEF Keep
    <3>2. mem[r].next + 1 \in Nat /\ cost \in Nat /\ judged \in Nat
      BY <2>3, <2>4
    <3> HIDE DEF scores, cost, judged
    <3>3. QED
      BY <1>0, <3>1, <3>2, SetScored
  <2>7. AreRows(rows')
    <3> DEFINE new == _score_row(r, result)
    <3>1. rows' = rows \cup {new}
      BY <2>1 DEF Keep
    <3>2. /\ new.run \in Runs /\ new.item \in Nat /\ new.try \in Nat /\ new.error \in BOOLEAN
          /\ new.cost \in Nat /\ new.judged \in Nat
      BY <2>3, <2>4, RowFields
    <3> HIDE DEF new
    <3>3. IsFiniteSet(rows')
      BY <1>0, <3>1, FS_AddElement DEF AreRows
    <3>4. QED
      BY <1>0, <3>1, <3>2, <3>3 DEF AreRows, Priced
  <2>8. spent' \in [Runs -> Nat]
    <3>1. spent[r] + result.spends \in Nat
      BY <2>3, <2>4
    <3>2. QED
      BY <2>1, <3>1 DEF Keep, Typed
  <2>9. QED
    BY <2>1, <2>5, <2>6, <2>7, <2>8 DEF Keep, Typed
<1>12. ASSUME NEW r \in Runs, Finish(r) PROVE Typed'
  <2>1. mem[r].cost + mem[r].judged \in Nat
    BY <1>0 DEF AreMems, IsMem
  <2> DEFINE status == IF mem[r].scores # <<>> \/ mem[r].total = 0 THEN "done" ELSE "failed"
             summary == Summarise(mem[r].scores)
  <2>2. run' = [run EXCEPT ![r].summary = summary, ![r].cost = mem[r].cost + mem[r].judged, ![r].status = status]
    BY <1>12 DEF Finish
  <2>3. status \in Statuses
    BY DEF Statuses
  <2> HIDE DEF status, summary
  <2>4. AreRuns(run')
    BY <1>0, <2>1, <2>2, <2>3, SetFinished
  <2>5. AreMems(mem')
    BY <1>0, <1>12, Empties, PutMem DEF Finish
  <2>6. job' \in [Runs -> Jobs]
    BY <1>12 DEF Finish, Jobs, Typed
  <2>7. QED
    BY <1>12, <2>4, <2>5, <2>6 DEF Finish, Typed
<1>13. ASSUME NEW r \in Runs, Acknowledge(r) \/ JobRaises(r) \/ Crash(r) PROVE Typed'
  <2>1. AreMems(mem')
    BY <1>0, <1>13, Empties, PutMem DEF Acknowledge, JobRaises, Crash
  <2>2. job' \in [Runs -> Jobs]
    BY <1>13 DEF Acknowledge, JobRaises, Crash, Jobs, Typed
  <2>3. mishaps' \in Nat
    BY <1>13 DEF Acknowledge, JobRaises, Crash, Typed
  <2>4. QED
    BY <1>13, <2>1, <2>2, <2>3 DEF Acknowledge, JobRaises, Crash, Typed
<1>14. CASE UNCHANGED vars
  BY <1>14 DEF vars, Typed
<1>15. QED
  BY <1>1, <1>2, <1>3, <1>4, <1>5, <1>6, <1>7, <1>8, <1>9, <1>10, <1>11, <1>12, <1>13, <1>14
     DEF Next

-----------------------------------------------------------------------------
(* What is not touched stays as it was.                                    *)
SameRun(q) ==
    /\ run'[q].status = run[q].status /\ run'[q].total = run[q].total /\ run'[q].done = run[q].done
    /\ run'[q].summary = run[q].summary /\ run'[q].cost = run[q].cost
    /\ run'[q].pinned => run[q].pinned
SameJob(q)  == /\ job'[q] = job[q] /\ mem'[q] = mem[q] /\ tries'[q] = tries[q] /\ spent'[q] = spent[q]
SameRows(q) == \A t : RowsFor(rows', q, t) = RowsFor(rows, q, t)
ItemsStay   == items # <<>> => items' # <<>>

LEMMA Untouched ==
  ASSUME NEW q \in Runs, Kept(q), SameRun(q), SameJob(q), SameRows(q), ItemsStay
  PROVE  Kept(q)'
<1>0. Delivered(q)'
  <2>1. ASSUME NEW x \in rows', x.run = q PROVE x \in rows
    <3>1. x \in RowsFor(rows', q, x.try)
      BY <2>1 DEF RowsFor
    <3>2. QED
      BY <3>1 DEF SameRows, RowsFor
  <2>2. QED
    BY <2>1 DEF Kept, Delivered, SameJob
<1>1. Begun(q)'
  BY DEF Kept, Begun, SameRun, SameJob, ItemsStay, Stored
<1>2. Fresh(q)'
  BY DEF Kept, Fresh, SameJob, SameRows
<1>3. Scoring(q)'
  BY DEF Kept, Scoring, SameRun, SameJob, SameRows, Stored
<1>4. Counted(q)'
  BY DEF Kept, Counted, SameRun, SameJob, SameRows
<1>5. Told(q)'
  BY DEF Kept, Told, Says, SameRun, SameJob, SameRows
<1>6. Pinned(q)'
  BY DEF Kept, Pinned, SameRun, SameJob
<1>7. QED
  BY <1>0, <1>1, <1>2, <1>3, <1>4, <1>5, <1>6 DEF Kept

(* A row of one run is of no other.                                        *)
LEMMA OtherRows ==
  ASSUME NEW new, rows' = rows \cup {new}, NEW q, new.run # q
  PROVE  SameRows(q)
  BY DEF SameRows, RowsFor

(* A worker, and a start, touch one run.                                   *)
OfRun(r) ==
    \/ start_run(r) \/ CommitStart(r) \/ StartLost(r)
    \/ Deliver(r) \/ MarkRunning(r) \/ ScoreItem(r) \/ Finish(r) \/ Acknowledge(r)
    \/ JobRaises(r) \/ Crash(r)

LEMMA OthersStay ==
  ASSUME Typed, NEW r \in Runs, OfRun(r), NEW q \in Runs, q # r
  PROVE  items' = items /\ run'[q] = run[q] /\ SameJob(q)
<1> USE DEF Unworked, Mishap, Api, JobEnds
<1>1. items' = items
  <2>1. CASE start_run(r) \/ CommitStart(r) \/ StartLost(r) \/ Deliver(r) \/ MarkRunning(r)
    BY <2>1 DEF start_run, CommitStart, StartLost, Deliver, MarkRunning
  <2>2. CASE ScoreItem(r)
    BY <2>2 DEF ScoreItem, Keep
  <2>3. CASE Finish(r) \/ Acknowledge(r) \/ JobRaises(r) \/ Crash(r)
    BY <2>3 DEF Finish, Acknowledge, JobRaises, Crash
  <2>4. QED
    BY <2>1, <2>2, <2>3 DEF OfRun
<1>2. run'[q] = run[q]
  <2>1. DOMAIN run = Runs
    BY DEF Typed, AreRuns
  <2>2. QED
    BY <2>1 DEF OfRun, start_run, CommitStart, StartLost, Deliver, MarkRunning, ScoreItem, Finish,
         Acknowledge, JobRaises, Crash, Keep
<1>3. SameJob(q)
  <2>1. DOMAIN mem = Runs /\ DOMAIN job = Runs /\ DOMAIN tries = Runs /\ DOMAIN spent = Runs
    BY DEF Typed, AreMems
  <2>2. mem'[q] = mem[q]
    BY <2>1 DEF OfRun, start_run, CommitStart, StartLost, Deliver, MarkRunning, ScoreItem, Finish,
         Acknowledge, JobRaises, Crash, Keep
  <2>3. job'[q] = job[q]
    BY <2>1 DEF OfRun, start_run, CommitStart, StartLost, Deliver, MarkRunning, ScoreItem, Finish,
         Acknowledge, JobRaises, Crash, Keep
  <2>4. tries'[q] = tries[q] /\ spent'[q] = spent[q]
    BY <2>1 DEF OfRun, start_run, CommitStart, StartLost, Deliver, MarkRunning, ScoreItem, Finish,
         Acknowledge, JobRaises, Crash, Keep
  <2>5. QED
    BY <2>2, <2>3, <2>4 DEF SameJob
<1>4. QED
  BY <1>1, <1>2, <1>3

LEMMA OneRun ==
  ASSUME Typed, NEW r \in Runs, OfRun(r), NEW q \in Runs, q # r, Kept(q)
  PROVE  Kept(q)'
<1> USE DEF Unworked, Mishap, Api, JobEnds
<1>1. items' = items /\ run'[q] = run[q] /\ SameJob(q)
  BY OthersStay
<1>4. SameRows(q)
  <2>1. CASE rows' = rows
    BY <2>1 DEF SameRows
  <2>2. CASE ScoreItem(r)
    <3>1. PICK result \in Results(r, items[mem[r].next]) : Keep(r, result, ~ result.error)
      BY <2>2 DEF ScoreItem
    <3> DEFINE new == _score_row(r, result)
    <3>2. rows' = rows \cup {new} /\ new.run # q
      BY <3>1, RowFields DEF Keep
    <3> HIDE DEF new
    <3>3. QED
      BY <3>2, OtherRows
  <2>3. QED
    BY <2>1, <2>2 DEF OfRun, start_run, CommitStart, StartLost, Deliver, MarkRunning, Finish,
         Acknowledge, JobRaises, Crash
<1>5. QED
  BY <1>1, <1>4, Untouched DEF SameRun, ItemsStay

(* What is done to datasets, bots and pipelines.                           *)
OfTenant == add_item \/ import_dataset \/ delete_dataset \/ delete_bot \/ delete_pinned \/ SetPipeline

LEMMA TenantStep ==
  ASSUME Typed, OfTenant, NEW q \in Runs, Kept(q)
  PROVE  Kept(q)'
<1> USE DEF Unworked, Mishap, Edited
<1>0. items \in Seq(Contents) /\ AreRuns(run)
  BY DEF Typed
<1>1. CASE ~ delete_dataset
  <2>1. SameJob(q) /\ SameRows(q)
    BY <1>1 DEF OfTenant, add_item, import_dataset, delete_bot, delete_pinned, SetPipeline,
         SameJob, SameRows
  <2>2. ItemsStay
    <3>1. CASE add_item
      BY <1>0, <3>1 DEF add_item, ItemsStay
    <3>2. CASE import_dataset
      BY <1>0, <3>2, FilesAdd DEF import_dataset, ItemsStay
    <3>3. CASE delete_bot \/ delete_pinned \/ SetPipeline
      BY <3>3 DEF delete_bot, delete_pinned, SetPipeline, ItemsStay
    <3>4. QED
      BY <1>1, <3>1, <3>2, <3>3 DEF OfTenant
  <2>3. SameRun(q)
    <3>1. IsRun(run[q])
      BY <1>0 DEF AreRuns
    <3>2. CASE delete_bot
      <4>1. run'[q] = [run[q] EXCEPT !.bot = FALSE]
        BY <3>2 DEF delete_bot
      <4>2. QED
        BY <3>1, <4>1 DEF SameRun, IsRun, NoRun
    <3>3. CASE delete_pinned
      <4>1. run'[q] = [run[q] EXCEPT !.pinned = FALSE]
        BY <3>3 DEF delete_pinned
      <4>2. QED
        BY <3>1, <4>1 DEF SameRun, IsRun, NoRun
    <3>4. CASE run' = run
      BY <3>4 DEF SameRun
    <3>5. QED
      BY <1>1, <3>2, <3>3, <3>4 DEF OfTenant, add_item, import_dataset, SetPipeline
  <2>4. QED
    BY <2>1, <2>2, <2>3, Untouched
<1>2. CASE delete_dataset
  <2>1. /\ rows' = {} /\ job' = job /\ mem' = mem /\ tries' = tries /\ spent' = spent
        /\ run[q].status # "flushed"
        /\ run'[q] = IF Stored(q) THEN [NoRun EXCEPT !.status = "lost"] ELSE run[q]
    BY <1>2 DEF delete_dataset
  <2>2. /\ ~ Stored(q)' /\ run'[q].status # "flushed" /\ run'[q].done = 0
        /\ (run'[q].pinned => run[q].pinned)
    <3>1. CASE Stored(q)
      BY <2>1, <3>1 DEF Stored, NoRun
    <3>2. CASE ~ Stored(q)
      BY <2>1, <3>2 DEF Stored, Kept, Begun
    <3>3. QED
      BY <3>1, <3>2
  <2>3. Begun(q)' /\ Delivered(q)'
    BY <2>1, <2>2 DEF Kept, Begun, Delivered, Stored
  <2>4. Fresh(q)'
    BY <2>1 DEF Kept, Fresh, RowsFor
  <2>5. Scoring(q)' /\ Told(q)'
    BY <2>2 DEF Scoring, Told, Stored
  <2>6. Counted(q)'
    BY <2>1, <2>2 DEF Counted, Typed
  <2>7. Pinned(q)'
    BY <2>1, <2>2 DEF Kept, Pinned
  <2>8. QED
    BY <2>3, <2>4, <2>5, <2>6, <2>7 DEF Kept
<1>3. QED
  BY <1>1, <1>2

-----------------------------------------------------------------------------
(* One lemma for each thing that happens to a run.                         *)

\* Its rows stay, and it is not being scored.
AtRest(r) == /\ rows' = rows /\ tries'[r] = tries[r] /\ items' = items
             /\ job'[r] \notin {"loaded", "scoring"}

LEMMA RestKept ==
  ASSUME Typed, NEW r \in Runs, Kept(r), AtRest(r), Begun(r)', Told(r)', Counted(r)'
  PROVE  Kept(r)'
<1>1. Delivered(r)'
  BY DEF Kept, Delivered, AtRest
<1>2. Fresh(r)' /\ Scoring(r)' /\ Pinned(r)'
  BY DEF Fresh, Scoring, Pinned, AtRest
<1>3. QED
  BY <1>1, <1>2 DEF Kept

LEMMA StartKept ==
  ASSUME Typed, NEW r \in Runs, Kept(r), start_run(r) \/ CommitStart(r) \/ StartLost(r)
  PROVE  Kept(r)'
<1> USE DEF Unworked
<1>0. AreRuns(run) /\ IsRun(run[r]) /\ DOMAIN job = Runs
  BY DEF Typed, AreRuns
<1>1. CASE start_run(r)
  <2>1. PICK with \in Starts :
          run' = [run EXCEPT ![r] = [NoRun EXCEPT !.status = "flushed", !.bot = TRUE,
                    !.pinned = with.pinned, !.baseline = with.baseline, !.metrics = with.metrics]]
    BY <1>1 DEF start_run
  <2>2. run'[r].status = "flushed" /\ run'[r].done = 0
    BY <1>0, <2>1 DEF AreRuns, NoRun
  <2>3. /\ rows' = rows /\ tries' = tries /\ spent' = spent /\ items' = items /\ mem' = mem
        /\ job'[r] = "queued" /\ items # <<>>
    BY <1>0, <1>1 DEF start_run
  <2>4. Begun(r)' /\ Told(r)'
    BY <2>2, <2>3 DEF Begun, Told, Stored
  <2>5. Counted(r)'
    BY <2>2, <2>3 DEF Counted, Typed
  <2>6. Delivered(r)' /\ Fresh(r)' /\ Scoring(r)' /\ Pinned(r)'
    BY <2>3 DEF Kept, Delivered, Fresh, Scoring, Pinned
  <2>7. QED
    BY <2>4, <2>5, <2>6 DEF Kept
<1>2. CASE CommitStart(r) \/ StartLost(r)
  <2>1. PICK status \in {"pending", "lost"} : run' = [run EXCEPT ![r].status = status]
    BY <1>2 DEF CommitStart, StartLost
  <2>2. /\ run[r].status = "flushed" /\ run'[r].status \in {"pending", "lost"}
        /\ run'[r].done = run[r].done /\ run'[r].pinned = run[r].pinned
    BY <1>0, <1>2, <2>1 DEF CommitStart, StartLost, AreRuns, IsRun, NoRun
  <2>3. /\ rows' = rows /\ tries' = tries /\ spent' = spent /\ items' = items /\ mem' = mem
        /\ job' = job
    BY <1>2 DEF CommitStart, StartLost
  <2>4. Begun(r)' /\ Told(r)'
    BY <2>2, <2>3 DEF Kept, Begun, Told, Stored
  <2>5. Counted(r)'
    BY <2>2, <2>3 DEF Kept, Counted
  <2>6. Scoring(r)'
    <3>1. job[r] # "scoring"
      BY <2>2 DEF Kept, Begun
    <3>2. QED
      BY <2>3, <3>1 DEF Scoring
  <2>7. Delivered(r)' /\ Fresh(r)' /\ Pinned(r)'
    BY <2>2, <2>3 DEF Kept, Delivered, Fresh, Pinned
  <2>8. QED
    BY <2>4, <2>5, <2>6, <2>7 DEF Kept
<1>3. QED
  BY <1>1, <1>2

LEMMA DeliverKept ==
  ASSUME Typed, NEW r \in Runs, Kept(r), Deliver(r)
  PROVE  Kept(r)'
<1> USE DEF Api, JobEnds
<1>0. DOMAIN mem = Runs /\ DOMAIN job = Runs /\ tries \in [Runs -> Nat] /\ Len(items) \in Nat
  BY DEF Typed, AreMems
<1>1. /\ rows' = rows /\ run' = run /\ items' = items
      /\ tries'[r] = tries[r] + 1 /\ job[r] = "queued"
  BY <1>0 DEF Deliver
<1>2. tries[r] \in Nat /\ tries'[r] >= 1
  BY <1>0, <1>1
<1>4. \A x \in rows : x.run = r => x.try \in 1..tries[r]
  BY DEF Kept, Delivered
<1>5. Delivered(r)'
  BY <1>1, <1>2, <1>4 DEF Delivered
<1>6. RowsFor(rows, r, tries[r] + 1) = {}
  BY <1>2, <1>4 DEF RowsFor
<1>7. Counted(r)' /\ Told(r)'
  BY <1>1, <1>2 DEF Kept, Counted, Told
<1>8. CASE Stored(r) /\ run[r].bot /\ botLive
  <2>1. job'[r] = "loaded" /\ mem'[r] = [NoMem EXCEPT !.graph = _dag_for_run(r), !.total = Len(items)]
    BY <1>0, <1>8 DEF Deliver
  <2>2. /\ mem'[r].graph = _dag_for_run(r) /\ mem'[r].total = Len(items)
        /\ mem'[r].next = 1 /\ mem'[r].scores = <<>> /\ mem'[r].cost = 0 /\ mem'[r].judged = 0
    BY <2>1 DEF NoMem
  <2>3. Len(items) >= 1
    BY <1>0, <1>8 DEF Kept, Begun, Typed
  <2>4. Begun(r)'
    BY <1>1, <1>8 DEF Kept, Begun, Stored
  <2>5. Fresh(r)'
    BY <1>1, <1>2, <1>6, <2>2, <2>3 DEF Fresh
  <2>6. Scoring(r)'
    BY <2>1 DEF Scoring
  <2>7. Pinned(r)'
    BY <1>1, <2>2 DEF Pinned, _dag_for_run
  <2>8. QED
    BY <1>5, <1>7, <2>4, <2>5, <2>6, <2>7 DEF Kept
<1>9. CASE ~ (Stored(r) /\ run[r].bot /\ botLive)
  <2>1. job'[r] = "none" /\ mem'[r] = NoMem
    BY <1>0, <1>9 DEF Deliver
  <2>2. Begun(r)'
    BY <1>1, <2>1 DEF Kept, Begun, Stored
  <2>3. Fresh(r)' /\ Scoring(r)' /\ Pinned(r)'
    BY <2>1 DEF Fresh, Scoring, Pinned
  <2>4. QED
    BY <1>5, <1>7, <2>2, <2>3 DEF Kept
<1>10. QED
  BY <1>8, <1>9

LEMMA MarkKept ==
  ASSUME Typed, NEW r \in Runs, Kept(r), MarkRunning(r)
  PROVE  Kept(r)'
<1> USE DEF Api, JobEnds
<1>0. /\ DOMAIN mem = Runs /\ DOMAIN job = Runs /\ AreRuns(run) /\ IsRun(run[r]) /\ mem[r].total \in Nat
      /\ tries[r] \in Nat
  BY DEF Typed, AreMems, AreRuns, IsMem
<1>1. rows' = rows /\ tries' = tries /\ spent' = spent /\ items' = items /\ job[r] = "loaded"
  BY DEF MarkRunning
<1>2. CASE Stored(r)
  <2>1. /\ run' = [run EXCEPT ![r].status = "running", ![r].total = mem[r].total, ![r].done = 0]
        /\ job' = [job EXCEPT ![r] = "scoring"] /\ mem' = mem
    BY <1>2 DEF MarkRunning
  <2>2. /\ run'[r].status = "running" /\ run'[r].total = mem[r].total /\ run'[r].done = 0
        /\ run'[r].pinned = run[r].pinned /\ job'[r] = "scoring"
    BY <1>0, <2>1 DEF AreRuns, IsRun, NoRun
  <2>3. /\ tries[r] >= 1 /\ mem[r].total >= 1 /\ mem[r].next = 1 /\ mem[r].scores = <<>>
        /\ mem[r].cost = 0 /\ mem[r].judged = 0
        /\ RowsFor(rows, r, tries[r]) = {}
    BY <1>1 DEF Kept, Fresh
  <2>4. Passed(mem[r], {})
    <3>1. Cardinality({}) = 0 /\ {x.item : x \in {}} = 1..0
      BY FS_EmptySet
    <3>2. QED
      BY <1>0, <2>3, <3>1, NothingRanked, NothingPriced DEF Passed
  <2>5. Scoring(r)'
    BY <1>1, <2>1, <2>2, <2>3, <2>4 DEF Scoring
  <2>6. Begun(r)' /\ Told(r)'
    BY <1>1, <1>2, <2>2 DEF Kept, Begun, Told, Stored
  <2>7. Counted(r)'
    BY <1>0, <1>1, <2>2 DEF Counted
  <2>8. Delivered(r)' /\ Fresh(r)' /\ Pinned(r)'
    BY <1>1, <2>1, <2>2 DEF Kept, Delivered, Fresh, Pinned
  <2>9. QED
    BY <2>5, <2>6, <2>7, <2>8 DEF Kept
<1>3. CASE ~ Stored(r)
  <2>1. run' = run /\ job'[r] = "none" /\ mem'[r] = NoMem
    BY <1>0, <1>3 DEF MarkRunning
  <2>2. AtRest(r)
    BY <1>1, <2>1 DEF AtRest
  <2>3. Begun(r)' /\ Told(r)' /\ Counted(r)'
    BY <1>1, <2>1 DEF Kept, Begun, Told, Counted, Stored
  <2>4. QED
    BY <2>2, <2>3, RestKept
<1>4. QED
  BY <1>2, <1>3

LEMMA EndKept ==
  ASSUME Typed, NEW r \in Runs, Kept(r), Acknowledge(r) \/ JobRaises(r) \/ Crash(r)
  PROVE  Kept(r)'
<1> USE DEF Api, JobEnds, Mishap
<1>0. DOMAIN mem = Runs /\ DOMAIN job = Runs
  BY DEF Typed, AreMems
<1>1. /\ rows' = rows /\ tries' = tries /\ spent' = spent /\ items' = items /\ run' = run
      /\ job'[r] \in {"none", "queued"} /\ mem'[r] = NoMem
  BY <1>0 DEF Acknowledge, JobRaises, Crash
<1>2. AtRest(r)
  BY <1>1 DEF AtRest
<1>3. Begun(r)' /\ Told(r)' /\ Counted(r)'
  BY <1>1 DEF Kept, Begun, Told, Counted, Stored
<1>4. QED
  BY <1>2, <1>3, RestKept

LEMMA FinishKept ==
  ASSUME Typed, NEW r \in Runs, Kept(r), Finish(r)
  PROVE  Kept(r)'
<1> USE DEF Api
<1> DEFINE R == RowsFor(rows, r, tries[r])
           status == IF mem[r].scores # <<>> \/ mem[r].total = 0 THEN "done" ELSE "failed"
           summary == Summarise(mem[r].scores)
<1>0. /\ DOMAIN mem = Runs /\ DOMAIN job = Runs /\ AreRuns(run) /\ IsRun(run[r]) /\ IsMem(mem[r])
      /\ tries[r] \in Nat
  BY DEF Typed, AreMems, AreRuns
<1>1. /\ rows' = rows /\ tries' = tries /\ spent' = spent /\ items' = items
      /\ job[r] = "scoring" /\ mem[r].next > mem[r].total /\ Stored(r)
      /\ job'[r] = "ended" /\ mem'[r] = NoMem
  BY <1>0 DEF Finish
<1>2. run' = [run EXCEPT ![r].summary = summary, ![r].cost = mem[r].cost + mem[r].judged, ![r].status = status]
  BY DEF Finish
<1>3. status \in {"done", "failed"}
  OBVIOUS
<1>4. /\ run'[r].summary = summary /\ run'[r].cost = mem[r].cost + mem[r].judged /\ run'[r].status = status
      /\ run'[r].total = run[r].total /\ run'[r].done = run[r].done
  <2> HIDE DEF status, summary
  <2>1. QED
    BY <1>0, <1>2 DEF AreRuns, IsRun, NoRun
<1>5. /\ tries[r] >= 1 /\ run[r].total = mem[r].total /\ run[r].done = mem[r].next - 1
      /\ Passed(mem[r], R)
  BY <1>1 DEF Kept, Scoring
<1>6. mem[r].next = mem[r].total + 1
  BY <1>0, <1>1, <1>5 DEF Passed, IsMem
<1>7. status = "failed" <=> Good(R) = {}
  <2>1. mem[r].total # 0 /\ mem[r].scores = ScoresIn(R) /\ Ranked(R)
    BY <1>5 DEF Passed
  <2>2. ScoresIn(R) = <<>> <=> Good(R) = {}
    BY <2>1, ScoresEmpty
  <2>3. QED
    BY <2>1, <2>2
<1>8. Says(run'[r], R)
  <2>1. {row.item : row \in R} = 1..run'[r].total /\ run'[r].done = run'[r].total
    BY <1>0, <1>4, <1>5, <1>6 DEF Passed, IsMem
  <2>2. run'[r].summary = Summarise(ScoresIn(R)) /\ run'[r].cost = PriceOf(R)
    BY <1>4, <1>5 DEF Passed
  <2> HIDE DEF status, R
  <2>3. run'[r].status = "failed" <=> Good(R) = {}
    BY <1>4, <1>7
  <2>4. Ranked(R)
    BY <1>5 DEF Passed
  <2>5. QED
    BY <2>1, <2>2, <2>3, <2>4 DEF Says
<1>9. Told(r)'
  <2>1. tries[r] \in 1..tries[r]
    BY <1>0, <1>5
  <2>2. QED
    BY <1>1, <1>8, <2>1 DEF Told
<1>10. Counted(r)' /\ Begun(r)'
  BY <1>1, <1>3, <1>4 DEF Kept, Counted, Begun, Stored
<1>11. AtRest(r)
  BY <1>1 DEF AtRest
<1>12. QED
  BY <1>9, <1>10, <1>11, RestKept

LEMMA ScoreKept ==
  ASSUME Typed, NEW r \in Runs, Kept(r), ScoreItem(r)
  PROVE  Kept(r)'
<1> USE DEF Api
<1>1. PICK result \in Results(r, items[mem[r].next]) : Keep(r, result, ~ result.error)
  BY DEF ScoreItem
<1> DEFINE R    == RowsFor(rows, r, tries[r])
           new  == _score_row(r, result)
           held == IF ~ result.error THEN Append(mem[r].scores, result.scores) ELSE mem[r].scores
<1>2. /\ DOMAIN mem = Runs /\ AreRuns(run) /\ IsRun(run[r]) /\ IsMem(mem[r]) /\ AreRows(rows)
      /\ tries[r] \in Nat
  BY DEF Typed, AreMems, AreRuns
<1>3. run[r].metrics \in SUBSET MetricNames /\ run[r].done \in Nat
  BY <1>2 DEF IsRun
<1>4. mem[r].next \in Nat /\ mem[r].cost \in Nat /\ mem[r].judged \in Nat /\ mem[r].total \in Nat
  BY <1>2 DEF IsMem
<1>5. result.error \in BOOLEAN /\ result.cost \in Nat /\ result.judged \in Nat
  BY <1>3, ResultCosts
<1>6. /\ job[r] = "scoring" /\ job' = job /\ tries' = tries /\ items' = items
      /\ Stored(r) /\ mem[r].next <= mem[r].total
  BY <1>1 DEF ScoreItem, Keep
<1>7. /\ tries[r] >= 1 /\ run[r].status = "running" /\ run[r].total = mem[r].total
      /\ run[r].done = mem[r].next - 1 /\ Passed(mem[r], R)
  BY <1>6 DEF Kept, Scoring
<1>8. /\ run'[r].done = run[r].done + 1 /\ run'[r].status = run[r].status
      /\ run'[r].total = run[r].total /\ run'[r].pinned = run[r].pinned
  <2>1. run' = [run EXCEPT ![r].done = run[r].done + 1]
    BY <1>1 DEF Keep
  <2>2. QED
    BY <1>2, <2>1 DEF AreRuns, IsRun, NoRun
<1>9. /\ mem'[r].next = mem[r].next + 1 /\ mem'[r].cost = mem[r].cost + result.cost
      /\ mem'[r].judged = mem[r].judged + result.judged
      /\ mem'[r].scores = held /\ mem'[r].total = mem[r].total /\ mem'[r].graph = mem[r].graph
  <2>1. mem' = [mem EXCEPT ![r].next = mem[r].next + 1, ![r].cost = mem[r].cost + result.cost,
                           ![r].judged = mem[r].judged + result.judged, ![r].scores = held]
    BY <1>1 DEF Keep
  <2> HIDE DEF held
  <2>2. QED
    BY <1>2, <2>1 DEF IsMem, NoMem
<1>10. Priced(R) /\ IsFiniteSet(R)
  <2>1. Priced(R)
    BY <1>2 DEF AreRows, Priced, RowsFor
  <2>2. R \subseteq rows
    BY DEF RowsFor
  <2>3. QED
    BY <1>2, <2>1, <2>2, FS_Subset DEF AreRows
<1>11. rows' = rows \cup {new} /\ new.run = r /\ new.try = tries[r] /\ new.item = mem[r].next
       /\ new.error = result.error /\ new.scores = result.scores
       /\ new.cost = result.cost /\ new.judged = result.judged
  BY <1>1, RowFields DEF Keep
<1> HIDE DEF new
<1>12. RowsFor(rows', r, tries[r]) = R \cup {new}
  BY <1>11 DEF RowsFor
<1>13. Itemized(R)
  BY <1>2 DEF AreRows, Itemized, RowsFor
<1>14. Ranked(R) /\ {x.item : x \in R} = 1..(mem[r].next - 1) /\ Cardinality(R) = mem[r].next - 1
       /\ mem[r].scores = ScoresIn(R) /\ mem[r].cost + mem[r].judged = PriceOf(R)
  BY <1>7 DEF Passed
<1> HIDE DEF R
<1>15. \A x \in R : x.item < new.item
  BY <1>4, <1>11, <1>14
<1>16. /\ Ranked(R \cup {new}) /\ Cardinality(R \cup {new}) = Cardinality(R) + 1
       /\ held = ScoresIn(R \cup {new})
  <2>1. new.error \in BOOLEAN /\ new.item \in Nat
    BY <1>4, <1>5, <1>11
  <2>2. Grown(R, new)
    BY <1>13, <1>14, <1>15, <2>1, RankedAdd
  <2>3. QED
    BY <1>11, <1>14, <2>2 DEF Grown
<1>17. {x.item : x \in R \cup {new}} = 1..mem[r].next
  <2>1. {x.item : x \in R \cup {new}} = {x.item : x \in R} \cup {new.item}
    OBVIOUS
  <2>2. mem[r].next >= 1
    BY <1>7 DEF Passed
  <2>3. QED
    BY <1>4, <1>11, <1>14, <2>1, <2>2
<1>18. Passed(mem'[r], R \cup {new})
  <2>1. new \notin R
    BY <1>13, <1>15 DEF Itemized
  <2>2. PriceOf(R \cup {new}) = PriceOf(R) + (new.cost + new.judged)
    BY <1>5, <1>10, <1>11, <2>1, PriceAdd
  <2>3. mem'[r].cost + mem'[r].judged = PriceOf(R \cup {new})
    BY <1>4, <1>5, <1>9, <1>11, <1>14, <2>2
  <2>4. QED
    BY <1>4, <1>6, <1>7, <1>9, <1>14, <1>16, <1>17, <2>3 DEF Passed
<1>19. Scoring(r)'
  BY <1>4, <1>6, <1>7, <1>8, <1>9, <1>12, <1>18 DEF Scoring
<1>20. Counted(r)'
  <2>1. run'[r].done = Cardinality(RowsFor(rows', r, tries[r]))
    BY <1>7, <1>8, <1>12, <1>14, <1>16
  <2>2. QED
    BY <1>2, <1>6, <2>1 DEF Counted
<1>21. Delivered(r)'
  BY <1>2, <1>6, <1>7, <1>11 DEF Kept, Delivered
<1>22. Begun(r)'
  BY <1>6, <1>7, <1>8 DEF Kept, Begun, Stored
<1>23. Told(r)' /\ Fresh(r)' /\ Pinned(r)'
  BY <1>6, <1>7, <1>8, <1>9 DEF Kept, Told, Fresh, Pinned
<1>24. QED
  BY <1>19, <1>20, <1>21, <1>22, <1>23 DEF Kept
-----------------------------------------------------------------------------
LEMMA InitInv == Init => EvalInv
<1> SUFFICES ASSUME Init PROVE EvalInv
  OBVIOUS
<1>1. Typed
  <2>1. AreRuns(run) /\ AreMems(mem)
    BY Empties DEF Init, AreRuns, AreMems
  <2>2. AreRows(rows)
    BY FS_EmptySet DEF Init, AreRows, Priced
  <2>3. QED
    BY <2>1, <2>2 DEF Init, Typed, Jobs
<1>2. ASSUME NEW r \in Runs PROVE Kept(r)
  <2>1. Begun(r) /\ Delivered(r) /\ Fresh(r) /\ Scoring(r) /\ Told(r) /\ Pinned(r)
    BY DEF Init, Begun, Delivered, Fresh, Scoring, Told, Pinned, Stored, NoRun
  <2>2. Counted(r)
    BY DEF Init, Counted, NoRun
  <2>3. QED
    BY <2>1, <2>2 DEF Kept
<1>3. QED
  BY <1>1, <1>2 DEF EvalInv

LEMMA StepInv == EvalInv /\ [Next]_vars => EvalInv'
<1> SUFFICES ASSUME EvalInv, [Next]_vars PROVE EvalInv'
  OBVIOUS
<1>1. Typed /\ Typed'
  BY TypeStep DEF EvalInv
<1>2. ASSUME NEW q \in Runs PROVE Kept(q)'
  <2>1. Kept(q)
    BY DEF EvalInv
  <2>2. CASE OfTenant
    BY <1>1, <2>1, <2>2, TenantStep
  <2>3. ASSUME NEW r \in Runs, OfRun(r) PROVE Kept(q)'
    <3>1. CASE q # r
      BY <1>1, <2>1, <2>3, <3>1, OneRun
    <3>2. CASE q = r
      BY <1>1, <2>1, <2>3, <3>2, StartKept, DeliverKept, MarkKept, ScoreKept, FinishKept, EndKept
         DEF OfRun
    <3>3. QED
      BY <3>1, <3>2
  <2>4. CASE UNCHANGED vars
    BY <2>1, <2>4, Untouched DEF vars, SameRun, SameJob, SameRows, ItemsStay
  <2>5. QED
    BY <2>2, <2>3, <2>4 DEF Next, OfTenant, OfRun
<1>3. QED
  BY <1>1, <1>2 DEF EvalInv

(* Nothing that is deleted, delivered again, raised or lost breaks the     *)
(* inductive invariant.                                                    *)
THEOREM Invariance == Spec => []EvalInv
  BY InitInv, StepInv, PTL DEF Spec

(* Every run, row and job keeps its shape, whatever a summary holds.       *)
THEOREM TypeCorrect == Spec => []Typed
<1>1. EvalInv => Typed
  BY DEF EvalInv
<1>2. QED
  BY Invariance, <1>1, PTL

(* A run that is over says what the rows of one delivery say: their mean,  *)
(* their number, and "failed" exactly when all of them raised, however     *)
(* often its job was delivered, and whatever was deleted meanwhile.        *)
THEOREM RunsTellTheirRows == Spec => []RunIsItsRows
<1>1. EvalInv => RunIsItsRows
  <2> SUFFICES ASSUME EvalInv, NEW r \in Runs
               PROVE  /\ \E t \in 0..tries[r] : run[r].done = Cardinality(RowsOf(r, t)) \/ run[r].done = 0
                      /\ run[r].status \in {"done", "failed"} =>
                          \E t \in 1..tries[r] :
                              /\ ReachedAll(r, t) /\ run[r].done = run[r].total
                              /\ run[r].summary = Summarise(Scored(r, t))
                              /\ run[r].status = "failed" <=> \A row \in RowsOf(r, t) : row.error
    BY DEF RunIsItsRows
  <2>1. \A t : RowsOf(r, t) = RowsFor(rows, r, t)
    BY DEF RowsOf, RowsFor
  <2>2. Counted(r) /\ Told(r)
    BY DEF EvalInv, Kept
  <2>3. \E t \in 0..tries[r] : run[r].done = Cardinality(RowsOf(r, t)) \/ run[r].done = 0
    BY <2>1, <2>2 DEF Counted
  <2>4. ASSUME run[r].status \in {"done", "failed"}
        PROVE  \E t \in 1..tries[r] :
                  /\ ReachedAll(r, t) /\ run[r].done = run[r].total
                  /\ run[r].summary = Summarise(Scored(r, t))
                  /\ run[r].status = "failed" <=> \A row \in RowsOf(r, t) : row.error
    <3>1. PICK t \in 1..tries[r] : Says(run[r], RowsFor(rows, r, t))
      BY <2>2, <2>4 DEF Told
    <3>2. ReachedAll(r, t) /\ run[r].done = run[r].total
      BY <2>1, <3>1 DEF Says, ReachedAll
    <3>3. run[r].summary = Summarise(Scored(r, t))
      BY <2>1, <3>1, ScoredIsScores DEF Says
    <3>4. run[r].status = "failed" <=> \A row \in RowsOf(r, t) : row.error
      BY <2>1, <3>1 DEF Says, Good
    <3>5. QED
      BY <3>2, <3>3, <3>4
  <2>5. QED
    BY <2>3, <2>4
<1>2. QED
  BY Invariance, <1>1, PTL

(* A run whose pin still stands is scored with the pinned version.         *)
THEOREM PinsAreHonoured == Spec => []WhatIsPinnedIsTested
<1>1. EvalInv => WhatIsPinnedIsTested
  BY DEF EvalInv, Kept, Pinned, WhatIsPinnedIsTested
<1>2. QED
  BY Invariance, <1>1, PTL

(* The price of a run is that of the delivery its summary was measured on, *)
(* whatever crashed, raised or was delivered again: that of each of its    *)
(* items once, those that raised included, and of the judge's calls.       *)
THEOREM PricesAreOfOneDelivery == Spec => []PriceIsOfOneDelivery
<1>1. EvalInv => PriceIsOfOneDelivery
  <2> SUFFICES ASSUME EvalInv, NEW r \in Runs, run[r].status \in {"done", "failed"}
               PROVE  \E t \in 1..tries[r] :
                         /\ ReachedAll(r, t)
                         /\ run[r].summary = Summarise(Scored(r, t))
                         /\ run[r].cost = PriceOf(RowsOf(r, t))
    BY DEF PriceIsOfOneDelivery
  <2>1. \A t : RowsOf(r, t) = RowsFor(rows, r, t)
    BY DEF RowsOf, RowsFor
  <2>2. PICK t \in 1..tries[r] : Says(run[r], RowsFor(rows, r, t))
    BY DEF EvalInv, Kept, Told
  <2>3. ReachedAll(r, t) /\ run[r].cost = PriceOf(RowsOf(r, t))
    BY <2>1, <2>2 DEF Says, ReachedAll
  <2>4. run[r].summary = Summarise(Scored(r, t))
    BY <2>1, <2>2, ScoredIsScores DEF Says
  <2>5. QED
    BY <2>3, <2>4
<1>2. QED
  BY Invariance, <1>1, PTL
-----------------------------------------------------------------------------
(* Sums of scores.                                                         *)
Worth(row, name) == IF name \in DOMAIN row THEN row[name] ELSE 0

LEMMA SumOfSums ==
  ASSUME NEW n \in Nat, NEW z, DOMAIN z = 1..n, NEW name
  PROVE  \E f : SumsUp(1..n, [i \in 1..n |-> Worth(z[i], name)], f) /\ SumOf(z, name) = f[1..n]
<1> DEFINE v == [i \in 1..n |-> Worth(z[i], name)]
           Folds(f) == f = [T \in SUBSET (1..n) |->
                               IF T = {} THEN 0
                               ELSE f[T \ {CHOOSE x \in T : TRUE}]
                                       + (IF name \in DOMAIN z[CHOOSE x \in T : TRUE]
                                          THEN z[CHOOSE x \in T : TRUE][name] ELSE 0)]
           iter == CHOOSE f : Folds(f)
<1>1. SumOf(z, name) = iter[1..n]
  BY DEF SumOf, FoldSeq, FoldFunction, FoldFunctionOnSet, MapThenFoldSet
<1>2. IsFiniteSet(1..n)
  BY FS_Interval
<1>3. PICK f : SumsUp(1..n, v, f)
  BY <1>2, SumsExist
<1>4. ASSUME NEW g PROVE SumsUp(1..n, v, g) <=> Folds(g)
  <2>1. \A T \in SUBSET (1..n) : T # {} =>
          v[Picked(T)] = (IF name \in DOMAIN z[Picked(T)] THEN z[Picked(T)][name] ELSE 0)
    BY RestIsLess DEF Worth
  <2> HIDE DEF v
  <2>2. [T \in SUBSET (1..n) |-> IF T = {} THEN 0 ELSE g[Rest(T)] + v[Picked(T)]] =
        [T \in SUBSET (1..n) |->
            IF T = {} THEN 0
            ELSE g[Rest(T)] + (IF name \in DOMAIN z[Picked(T)] THEN z[Picked(T)][name] ELSE 0)]
    BY <2>1
  <2>3. QED
    BY <2>2 DEF SumsUp, Rest, Picked
<1> HIDE DEF Folds
<1>5. \E g : Folds(g)
  BY <1>3, <1>4
<1>6. Folds(iter)
  BY <1>5, Zenon
<1> HIDE DEF iter, v
<1>7. SumsUp(1..n, v, iter)
  BY <1>4, <1>6
<1>8. QED
  BY <1>1, <1>7 DEF v

LEMMA SumIsNoLower ==
  ASSUME NEW n \in Nat, NEW y, NEW z, DOMAIN y = 1..n, DOMAIN z = 1..n, NEW name,
         \A i \in 1..n : /\ Worth(y[i], name) \in Nat /\ Worth(z[i], name) \in Nat
                         /\ Worth(y[i], name) <= Worth(z[i], name)
  PROVE  SumOf(y, name) \in Nat /\ SumOf(z, name) \in Nat /\ SumOf(y, name) <= SumOf(z, name)
<1> DEFINE v == [i \in 1..n |-> Worth(y[i], name)]
           w == [i \in 1..n |-> Worth(z[i], name)]
<1>1. v \in [1..n -> Nat] /\ w \in [1..n -> Nat] /\ \A i \in 1..n : v[i] <= w[i]
  OBVIOUS
<1>2. IsFiniteSet(1..n)
  <2>1. 1 \in Int /\ n \in Int
    OBVIOUS
  <2>2. QED
    BY <2>1, FS_Interval
<1>3. (\E f : SumsUp(1..n, v, f) /\ SumOf(y, name) = f[1..n])
      /\ (\E f : SumsUp(1..n, w, f) /\ SumOf(z, name) = f[1..n])
  BY SumOfSums
<1> HIDE DEF v, w
<1>4. PICK f : SumsUp(1..n, v, f) /\ SumOf(y, name) = f[1..n]
  BY <1>3
<1>5. PICK g : SumsUp(1..n, w, g) /\ SumOf(z, name) = g[1..n]
  BY <1>3
<1>6. f[1..n] \in Nat /\ g[1..n] \in Nat /\ f[1..n] <= g[1..n]
  <2> DEFINE S == 1..n
  <2>1. /\ IsFiniteSet(S) /\ v \in [S -> Nat] /\ w \in [S -> Nat] /\ \A i \in S : v[i] <= w[i]
        /\ SumsUp(S, v, f) /\ SumsUp(S, w, g)
    BY <1>1, <1>2, <1>4, <1>5
  <2> HIDE DEF S
  <2>2. f[S] \in Nat /\ g[S] \in Nat /\ f[S] <= g[S]
    BY <2>1, SumsCompare
  <2>3. QED
    BY <2>2 DEF S
<1>7. QED
  BY <1>4, <1>5, <1>6

(* A mean is no lower when its sum is.                                     *)
LEMMA RoundedGrows ==
  ASSUME NEW n \in Nat, n > 0, NEW a \in Nat, NEW b \in Nat, a <= b
  PROVE  Rounded(a, n) \in Nat /\ Rounded(b, n) \in Nat /\ Rounded(a, n) <= Rounded(b, n)
<1> DEFINE d == 2 * n
           p == 2 * a + n
           q == 2 * b + n
<1>1. d \in Nat /\ d > 0 /\ p \in Nat /\ q \in Nat /\ p <= q
  OBVIOUS
<1> HIDE DEF d, p, q
<1>2. /\ p \div d \in Int /\ q \div d \in Int
      /\ d * (p \div d) <= p /\ q < d * (q \div d) + d /\ p < d * (p \div d) + d
  BY <1>1
<1>3. ASSUME NEW x \in Int, NEW y \in Int, d * x < d * y PROVE x < y
  BY <1>1, <1>3
<1>4. p \div d <= q \div d
  <2>1. d * (p \div d) < d * (q \div d + 1)
    BY <1>1, <1>2
  <2>2. QED
    BY <1>2, <1>3, <2>1
<1>5. p \div d >= 0
  <2>1. d * (-1) < d * (p \div d)
    BY <1>1, <1>2
  <2>2. QED
    BY <1>2, <1>3, <2>1
<1>6. QED
  BY <1>2, <1>4, <1>5 DEF Rounded, d, p, q
-----------------------------------------------------------------------------
(***************************************************************************)
(* Scores are numbers: whatever is retrieved, expected or replied.         *)
(***************************************************************************)
LEMMA SharesCount ==
  ASSUME NEW list, IsList(list), list # <<>>, NEW names
  PROVE  Share(list, names) \in Nat
<1> DEFINE hits == {i \in DOMAIN list : list[i] \in names}
<1>1. Len(list) \in Nat /\ Len(list) > 0 /\ DOMAIN list = 1..Len(list)
  BY DEF IsList
<1>2. IsFiniteSet(DOMAIN list)
  <2>1. 1 \in Int /\ Len(list) \in Int
    BY <1>1
  <2>2. QED
    BY <1>1, <2>1, FS_Interval
<1>3. Cardinality(hits) \in Nat
  BY <1>2, FS_Subset, FS_CardinalityType
<1>4. ASSUME NEW h \in Nat, NEW n \in Nat, n > 0 PROVE (h * Unit) \div n \in Nat
  <2> DEFINE p == h * Unit
  <2>1. p \in Nat
    BY DEF Unit
  <2> HIDE DEF p
  <2>2. p \div n \in Int /\ p < n * (p \div n) + n
    BY <1>4, <2>1
  <2>3. ASSUME NEW x \in Int, x < 0 PROVE n * x + n <= 0
    <3>1. x + 1 <= 0 /\ n * (x + 1) = n * x + n
      BY <2>3
    <3>2. n * (x + 1) <= 0
      BY <1>4, <3>1
    <3>3. QED
      BY <3>1, <3>2
  <2>4. p \div n >= 0
    BY <1>4, <2>1, <2>2, <2>3
  <2>5. QED
    BY <2>2, <2>4 DEF p
<1> HIDE DEF hits
<1>5. QED
  BY <1>1, <1>3, <1>4 DEF Share, hits

IsReply(reply) == reply.kind = "score" => reply.value \in Int

LEMMA ScoresCount ==
  ASSUME NEW m \in MetricNames, NEW s, IsList(s.expected), IsList(s.retrieved), NEW reply, IsReply(reply)
  PROVE  ScoreOf(m, s, reply) \in Nat
<1>1. Unit \in Nat
  BY DEF Unit
<1>2. RetrievalRecall(s) \in Nat /\ ContextPrecision(s) \in Nat
  <2>1. s.expected # <<>> => Share(s.expected, ToSet(s.retrieved)) \in Nat
    BY SharesCount
  <2>2. s.retrieved # <<>> => Share(s.retrieved, ToSet(s.expected)) \in Nat
    BY SharesCount
  <2>3. RetrievalRecall(s) \in Nat
    BY <1>1, <2>1 DEF RetrievalRecall
  <2>4. QED
    BY <1>1, <2>2, <2>3 DEF ContextPrecision
<1>3. CitationRate(s) \in Nat /\ AnswerPresence(s) \in Nat
  BY <1>1 DEF CitationRate, AnswerPresence
<1>4. ParseScore(reply) \in Nat
  BY <1>1 DEF ParseScore, IsReply
<1>5. QED
  BY <1>2, <1>3, <1>4 DEF ScoreOf, MetricNames, JudgeMetrics

LEMMA ExpectedListed ==
  ASSUME NEW item \in Contents PROVE IsList(item.expected)
<1>1. CASE item \in ItemKinds
  BY <1>1, EvalsAssumption
<1>2. CASE item \notin ItemKinds
  <2>1. PICK e \in Read : item = ItemOf(e)
    BY <1>2 DEF Contents
  <2>2. PICK file \in Files : LET New == Imported(file.csv, file.entries)
                              IN  \E i \in DOMAIN New : e = New[i]
    BY <2>1 DEF Read
  <2>3. QED
    BY <2>1, <2>2, EvalsAssumption
<1>3. QED
  BY <1>1, <1>2

(* A row that did not raise has a number for each metric of its run.       *)
LEMMA ResultScores ==
  ASSUME NEW r \in Runs, run[r].metrics \in SUBSET MetricNames, NEW item \in Contents,
         NEW result \in Results(r, item), ~ result.error
  PROVE  result.scores \in [run[r].metrics -> Nat]
<1>1. PICK o \in Outcomes :
        result \in (IF o.raises THEN {Raised(o)} ELSE _score_item(r, item, o))
  BY DEF Results
<1>2. ~ o.raises
  <2>1. ASSUME o.raises PROVE result.error
    <3>1. result = Raised(o)
      BY <1>1, <2>1
    <3>2. QED
      BY <3>1 DEF Raised
  <2>2. QED
    BY <2>1
<1> DEFINE s == Sample(item, o)
           asked == {m \in run[r].metrics : AsksJudge(m, s)}
           row(reply) ==
        [error |-> FALSE,
         scores |-> [m \in run[r].metrics |->
                        ScoreOf(m, s, IF m \in asked THEN reply[m] ELSE [kind |-> "none"])],
         cost |-> o.cost, judged |-> JudgeCost(asked, reply),
         spends |-> o.spends + Total([m \in asked |-> reply[m].spends])]
<1>3. IsList(s.expected) /\ IsList(s.retrieved)
  <2>1. s.expected = item.expected /\ s.retrieved = o.retrieved
    BY DEF Sample
  <2>2. QED
    BY <1>2, <2>1, ExpectedListed, EvalsAssumption
<1>4. result \in _score_item(r, item, o)
  BY <1>1, <1>2
<1>5. PICK reply \in [asked -> Replies] : result = row(reply)
  BY <1>4, Zenon DEF _score_item
<1>6. result.scores = [m \in run[r].metrics |->
                          ScoreOf(m, s, IF m \in asked THEN reply[m] ELSE [kind |-> "none"])]
  BY <1>5
<1>7. ASSUME NEW m \in run[r].metrics
      PROVE  ScoreOf(m, s, IF m \in asked THEN reply[m] ELSE [kind |-> "none"]) \in Nat
  <2>1. CASE m \in asked
    <3>1. reply[m] \in Replies
      BY <2>1
    <3>2. IsReply(reply[m])
      BY <3>1, EvalsAssumption DEF IsReply
    <3> HIDE DEF s, asked
    <3>3. QED
      BY <1>3, <2>1, <3>2, ScoresCount
  <2>2. CASE m \notin asked
    <3> DEFINE none == [kind |-> "none"]
    <3>1. IsReply(none)
      BY DEF IsReply
    <3> HIDE DEF s, asked, none
    <3>2. ScoreOf(m, s, none) \in Nat
      BY <1>3, <3>1, ScoresCount
    <3>3. QED
      BY <2>2, <3>2 DEF none
  <2>3. QED
    BY <2>1, <2>2
<1> HIDE DEF s, asked
<1>8. QED
  BY <1>6, <1>7
-----------------------------------------------------------------------------
(***************************************************************************)
(* Every row is of a run that is stored, has a number for each of its      *)
(* metrics, and is of an item there is, which a worker that has the run    *)
(* counts, and so does the run when it is over.                            *)
(***************************************************************************)
Fits(x) ==
    /\ Stored(x.run) /\ x.item \in 1..Len(items)
    /\ ~ x.error => x.scores \in [run[x.run].metrics -> Nat]
    /\ job[x.run] \in {"loaded", "scoring"} => x.item <= mem[x.run].total
    /\ run[x.run].status \in {"done", "failed"} => x.item <= run[x.run].total
Loads(r) == job[r] \in {"loaded", "scoring"} /\ Stored(r) => mem[r].total <= Len(items)

RowsInv == (\A x \in rows : Fits(x)) /\ \A r \in Runs : Loads(r)

MoreItems == Len(items') \in Nat /\ Len(items') >= Len(items)

LEMMA StillFits ==
  ASSUME Typed, NEW x \in rows, Fits(x), MoreItems, SameJob(x.run),
         run'[x.run].status = run[x.run].status, run'[x.run].total = run[x.run].total,
         run'[x.run].metrics = run[x.run].metrics
  PROVE  Fits(x)'
<1>1. Len(items) \in Nat
  BY DEF Typed
<1>2. x.item \in 1..Len(items')
  BY <1>1 DEF Fits, MoreItems
<1>3. QED
  BY <1>2 DEF Fits, SameJob, Stored

LEMMA StillLoads ==
  ASSUME Typed, NEW q \in Runs, Loads(q), MoreItems, SameJob(q), run'[q].status = run[q].status
  PROVE  Loads(q)'
<1>1. Len(items) \in Nat /\ mem[q].total \in Nat
  BY DEF Typed, AreMems, IsMem
<1>2. QED
  BY <1>1 DEF Loads, MoreItems, SameJob, Stored

LEMMA TenantRows ==
  ASSUME Typed, RowsInv, OfTenant
  PROVE  RowsInv'
<1> USE DEF Unworked, Mishap, Edited
<1>0. items \in Seq(Contents) /\ AreRuns(run) /\ AreRows(rows)
  BY DEF Typed
<1>1. CASE ~ delete_dataset
  <2>1. rows' = rows /\ \A q : SameJob(q)
    BY <1>1 DEF OfTenant, add_item, import_dataset, delete_bot, delete_pinned, SetPipeline, SameJob
  <2>2. MoreItems
    <3>1. CASE add_item
      <4>1. PICK kind \in ItemKinds : items' = Append(items, kind)
        BY <3>1 DEF add_item
      <4>2. kind \in Contents
        BY DEF Contents
      <4>3. QED
        BY <1>0, <4>1, <4>2 DEF MoreItems
    <3>2. CASE import_dataset
      <4>1. PICK file \in Files : LET New == Imported(file.csv, file.entries)
                                  IN  items' = items \o [i \in DOMAIN New |-> ItemOf(New[i])]
        BY <3>2 DEF import_dataset
      <4>2. items' \in Seq(Contents) /\ Len(items') >= Len(items)
        BY <1>0, <4>1, FilesAdd
      <4>3. QED
        BY <4>2 DEF MoreItems
    <3>3. CASE delete_bot \/ delete_pinned \/ SetPipeline
      BY <1>0, <3>3 DEF delete_bot, delete_pinned, SetPipeline, MoreItems
    <3>4. QED
      BY <1>1, <3>1, <3>2, <3>3 DEF OfTenant
  <2>3. ASSUME NEW q \in Runs
        PROVE  /\ run'[q].status = run[q].status /\ run'[q].total = run[q].total
               /\ run'[q].metrics = run[q].metrics
    <3>1. IsRun(run[q])
      BY <1>0 DEF AreRuns
    <3>2. CASE delete_bot
      <4>1. run'[q] = [run[q] EXCEPT !.bot = FALSE]
        BY <3>2 DEF delete_bot
      <4>2. QED
        BY <3>1, <4>1 DEF IsRun, NoRun
    <3>3. CASE delete_pinned
      <4>1. run'[q] = [run[q] EXCEPT !.pinned = FALSE]
        BY <3>3 DEF delete_pinned
      <4>2. QED
        BY <3>1, <4>1 DEF IsRun, NoRun
    <3>4. CASE run' = run
      BY <3>4
    <3>5. QED
      BY <1>1, <3>2, <3>3, <3>4 DEF OfTenant, add_item, import_dataset, SetPipeline
  <2>4. ASSUME NEW x \in rows' PROVE Fits(x)'
    <3>1. x \in rows /\ x.run \in Runs /\ Fits(x)
      BY <1>0, <2>1 DEF AreRows, RowsInv
    <3>2. QED
      BY <2>1, <2>2, <2>3, <3>1, StillFits
  <2>5. ASSUME NEW q \in Runs PROVE Loads(q)'
    BY <2>1, <2>2, <2>3, StillLoads DEF RowsInv
  <2>6. QED
    BY <2>4, <2>5 DEF RowsInv
<1>2. CASE delete_dataset
  <2>1. rows' = {}
    BY <1>2 DEF delete_dataset
  <2>2. ASSUME NEW q \in Runs PROVE ~ Stored(q)'
    <3>1. run'[q] = IF Stored(q) THEN [NoRun EXCEPT !.status = "lost"] ELSE run[q]
      BY <1>2 DEF delete_dataset
    <3>2. QED
      BY <3>1 DEF Stored, NoRun
  <2>3. QED
    BY <2>1, <2>2 DEF RowsInv, Loads
<1>3. QED
  BY <1>1, <1>2

(* A row of another run.                                                   *)
LEMMA OtherFits ==
  ASSUME Typed, NEW r \in Runs, OfRun(r), RowsInv, NEW x \in rows, x.run # r
  PROVE  Fits(x)'
<1>1. x.run \in Runs /\ Fits(x)
  BY DEF Typed, AreRows, RowsInv
<1>2. items' = items /\ run'[x.run] = run[x.run] /\ SameJob(x.run)
  BY <1>1, OthersStay
<1>3. MoreItems
  BY <1>2 DEF MoreItems, Typed
<1>4. QED
  BY <1>1, <1>2, <1>3, StillFits

LEMMA OtherLoads ==
  ASSUME Typed, NEW r \in Runs, OfRun(r), RowsInv, NEW q \in Runs, q # r
  PROVE  Loads(q)'
<1>1. items' = items /\ run'[q] = run[q] /\ SameJob(q)
  BY OthersStay
<1>2. MoreItems
  BY <1>1 DEF MoreItems, Typed
<1>3. QED
  BY <1>1, <1>2, StillLoads DEF RowsInv

(* Without a row more it is enough to look at the run the step is of.      *)
LEMMA QuietRows ==
  ASSUME Typed, NEW r \in Runs, OfRun(r), RowsInv, rows' = rows, Loads(r)',
         \A x \in rows : x.run = r => Fits(x)'
  PROVE  RowsInv'
<1>1. ASSUME NEW x \in rows' PROVE Fits(x)'
  BY <1>1, OtherFits
<1>2. ASSUME NEW q \in Runs PROVE Loads(q)'
  BY OtherLoads
<1>3. QED
  BY <1>1, <1>2 DEF RowsInv

LEMMA StartRows ==
  ASSUME Typed, RowsInv, NEW r \in Runs, Kept(r), start_run(r) \/ CommitStart(r) \/ StartLost(r)
  PROVE  RowsInv'
<1> USE DEF Unworked
<1>0. AreRuns(run) /\ DOMAIN job = Runs /\ IsRun(run[r])
  BY DEF Typed, AreRuns
<1>1. rows' = rows /\ ~ Stored(r)
  BY DEF start_run, CommitStart, StartLost, Stored
<1>2. \A x \in rows : x.run # r
  BY <1>1 DEF RowsInv, Fits
<1>3. Loads(r)'
  <2>1. CASE start_run(r)
    <3>1. job'[r] = "queued"
      BY <1>0, <2>1 DEF start_run
    <3>2. QED
      BY <3>1 DEF Loads
  <2>2. CASE CommitStart(r)
    <3>1. job' = job /\ run[r].status = "flushed"
      BY <2>2 DEF CommitStart
    <3>2. QED
      BY <3>1 DEF Loads, Kept, Begun
  <2>3. CASE StartLost(r)
    <3>1. run'[r].status = "lost"
      BY <1>0, <2>3 DEF StartLost, AreRuns, IsRun, NoRun
    <3>2. QED
      BY <3>1 DEF Loads, Stored
  <2>4. QED
    BY <2>1, <2>2, <2>3
<1>4. QED
  BY <1>1, <1>2, <1>3, QuietRows DEF OfRun

LEMMA WorkerRows ==
  ASSUME Typed, RowsInv, NEW r \in Runs, Kept(r),
         Deliver(r) \/ Acknowledge(r) \/ JobRaises(r) \/ Crash(r)
  PROVE  RowsInv'
<1> USE DEF Api, JobEnds, Mishap
<1>0. DOMAIN mem = Runs /\ DOMAIN job = Runs /\ Len(items) \in Nat
  BY DEF Typed, AreMems
<1>1. rows' = rows /\ run' = run /\ items' = items
  BY DEF Deliver, Acknowledge, JobRaises, Crash
<1>2. job'[r] \notin {"loaded", "scoring"} \/ mem'[r].total = Len(items)
  <2>1. CASE Deliver(r) /\ Stored(r) /\ run[r].bot /\ botLive
    <3>1. mem'[r] = [NoMem EXCEPT !.graph = _dag_for_run(r), !.total = Len(items)]
      BY <1>0, <2>1 DEF Deliver
    <3>2. QED
      BY <3>1 DEF NoMem
  <2>2. CASE ~ (Deliver(r) /\ Stored(r) /\ run[r].bot /\ botLive)
    BY <1>0, <2>2 DEF Deliver, Acknowledge, JobRaises, Crash
  <2>3. QED
    BY <2>1, <2>2
<1>3. Loads(r)'
  BY <1>0, <1>1, <1>2 DEF Loads
<1>4. ASSUME NEW x \in rows, x.run = r PROVE Fits(x)'
  <2>1. Fits(x)
    BY DEF RowsInv
  <2>2. QED
    BY <1>0, <1>1, <1>2, <1>4, <2>1 DEF Fits, Stored
<1>5. QED
  BY <1>1, <1>3, <1>4, QuietRows DEF OfRun

LEMMA MarkRows ==
  ASSUME Typed, RowsInv, NEW r \in Runs, Kept(r), MarkRunning(r)
  PROVE  RowsInv'
<1> USE DEF Api, JobEnds
<1>0. DOMAIN mem = Runs /\ DOMAIN job = Runs /\ Len(items) \in Nat /\ AreRuns(run)
  BY DEF Typed, AreMems
<1>1. rows' = rows /\ items' = items /\ job[r] = "loaded"
  BY DEF MarkRunning
<1>2. CASE Stored(r)
  <2>1. /\ job'[r] = "scoring" /\ mem' = mem
        /\ run' = [run EXCEPT ![r].status = "running", ![r].total = mem[r].total, ![r].done = 0]
    BY <1>0, <1>2 DEF MarkRunning
  <2>2. run'[r].status = "running" /\ run'[r].metrics = run[r].metrics
    BY <1>0, <2>1 DEF AreRuns, IsRun, NoRun
  <2>3. Loads(r)'
    BY <1>1, <1>2, <2>1 DEF RowsInv, Loads
  <2>4. ASSUME NEW x \in rows, x.run = r PROVE Fits(x)'
    <3>1. Fits(x)
      BY DEF RowsInv
    <3>2. QED
      BY <1>1, <2>1, <2>2, <2>4, <3>1 DEF Fits, Stored
  <2>5. QED
    BY <1>1, <2>3, <2>4, QuietRows DEF OfRun
<1>3. CASE ~ Stored(r)
  <2>1. job'[r] = "none"
    BY <1>0, <1>3 DEF MarkRunning
  <2>2. Loads(r)' /\ \A x \in rows : x.run # r
    BY <1>3, <2>1 DEF Loads, RowsInv, Fits
  <2>3. QED
    BY <1>1, <2>2, QuietRows DEF OfRun
<1>4. QED
  BY <1>2, <1>3

LEMMA FinishRows ==
  ASSUME Typed, RowsInv, NEW r \in Runs, Kept(r), Finish(r)
  PROVE  RowsInv'
<1> USE DEF Api
<1> DEFINE status == IF mem[r].scores # <<>> \/ mem[r].total = 0 THEN "done" ELSE "failed"
           summary == Summarise(mem[r].scores)
<1>0. DOMAIN mem = Runs /\ DOMAIN job = Runs /\ AreRuns(run)
  BY DEF Typed, AreMems
<1>1. rows' = rows /\ items' = items /\ job[r] = "scoring" /\ Stored(r) /\ job'[r] = "ended"
  BY <1>0 DEF Finish
<1>2. run' = [run EXCEPT ![r].summary = summary, ![r].cost = mem[r].cost + mem[r].judged, ![r].status = status]
  BY DEF Finish
<1>3. status \in {"done", "failed"}
  OBVIOUS
<1>4. run'[r].status = status /\ run'[r].total = run[r].total /\ run'[r].metrics = run[r].metrics
  <2> HIDE DEF status, summary
  <2>1. QED
    BY <1>0, <1>2 DEF AreRuns, IsRun, NoRun
<1>5. run[r].total = mem[r].total
  BY <1>1 DEF Kept, Scoring
<1> HIDE DEF status, summary
<1>6. Loads(r)'
  BY <1>1 DEF Loads
<1>7. ASSUME NEW x \in rows, x.run = r PROVE Fits(x)'
  <2>1. Fits(x)
    BY DEF RowsInv
  <2>2. QED
    BY <1>1, <1>3, <1>4, <1>5, <1>7, <2>1 DEF Fits, Stored
<1>8. QED
  BY <1>1, <1>6, <1>7, QuietRows DEF OfRun

LEMMA ScoreRows ==
  ASSUME Typed, RowsInv, NEW r \in Runs, Kept(r), ScoreItem(r)
  PROVE  RowsInv'
<1> USE DEF Api
<1>1. PICK result \in Results(r, items[mem[r].next]) : Keep(r, result, ~ result.error)
  BY DEF ScoreItem
<1> DEFINE held == IF ~ result.error THEN Append(mem[r].scores, result.scores) ELSE mem[r].scores
<1>2. /\ DOMAIN mem = Runs /\ AreRuns(run) /\ IsRun(run[r]) /\ IsMem(mem[r])
      /\ items \in Seq(Contents) /\ run[r].metrics \in SUBSET MetricNames
  BY DEF Typed, AreMems, AreRuns, IsRun
<1>3. /\ job[r] = "scoring" /\ job' = job /\ items' = items
      /\ Stored(r) /\ mem[r].next <= mem[r].total
  BY <1>1 DEF ScoreItem, Keep
<1>4. run[r].status = "running" /\ mem[r].next \in 1..(mem[r].total + 1)
  BY <1>3 DEF Kept, Scoring, Passed
<1>5. run'[r].status = run[r].status /\ run'[r].metrics = run[r].metrics
  <2>1. run' = [run EXCEPT ![r].done = run[r].done + 1]
    BY <1>1 DEF Keep
  <2>2. QED
    BY <1>2, <2>1 DEF AreRuns, IsRun, NoRun
<1>6. mem'[r].total = mem[r].total
  <2>1. mem' = [mem EXCEPT ![r].next = mem[r].next + 1, ![r].cost = mem[r].cost + result.cost,
                           ![r].judged = mem[r].judged + result.judged, ![r].scores = held]
    BY <1>1 DEF Keep
  <2> HIDE DEF held
  <2>2. QED
    BY <1>2, <2>1 DEF IsMem, NoMem
<1>7. PICK new : /\ rows' = rows \cup {new} /\ new.run = r /\ new.item = mem[r].next
                 /\ new.error = result.error /\ new.scores = result.scores
  <2> DEFINE row == _score_row(r, result)
  <2>1. rows' = rows \cup {row}
    BY <1>1 DEF Keep
  <2>2. /\ row.run = r /\ row.item = mem[r].next
        /\ row.error = result.error /\ row.scores = result.scores
    BY RowFields
  <2> HIDE DEF row
  <2>3. QED
    BY <2>1, <2>2
<1>8. Loads(r) /\ Loads(r)'
  BY <1>3, <1>5, <1>6 DEF RowsInv, Loads, Stored
<1>9. mem[r].total \in Nat /\ mem[r].next \in 1..Len(items) /\ mem[r].next <= mem[r].total
  BY <1>2, <1>3, <1>4, <1>8 DEF IsMem, Loads
<1>10. ~ new.error => new.scores \in [run[r].metrics -> Nat]
  <2>1. items[mem[r].next] \in Contents
    BY <1>2, <1>9
  <2>2. QED
    BY <1>1, <1>2, <1>7, <2>1, ResultScores
<1>11. Fits(new)'
  BY <1>3, <1>4, <1>5, <1>6, <1>7, <1>9, <1>10 DEF Fits, Stored
<1>12. ASSUME NEW x \in rows, x.run = r PROVE Fits(x)'
  <2>1. Fits(x)
    BY DEF RowsInv
  <2>2. QED
    BY <1>3, <1>4, <1>5, <1>6, <1>12, <2>1 DEF Fits, Stored
<1>13. ASSUME NEW x \in rows' PROVE Fits(x)'
  <2>1. CASE x = new
    BY <1>11, <2>1
  <2>2. CASE x \in rows /\ x.run = r
    BY <1>12, <2>2
  <2>3. CASE x \in rows /\ x.run # r
    BY <2>3, OtherFits DEF OfRun
  <2>4. QED
    BY <1>7, <1>13, <2>1, <2>2, <2>3
<1>14. ASSUME NEW q \in Runs PROVE Loads(q)'
  BY <1>8, OtherLoads DEF OfRun
<1>15. QED
  BY <1>13, <1>14 DEF RowsInv

LEMMA RowsStep == EvalInv /\ RowsInv /\ [Next]_vars => RowsInv'
<1> SUFFICES ASSUME EvalInv, RowsInv, [Next]_vars PROVE RowsInv'
  OBVIOUS
<1>1. Typed /\ \A r \in Runs : Kept(r)
  BY DEF EvalInv
<1>2. CASE OfTenant
  BY <1>1, <1>2, TenantRows
<1>3. ASSUME NEW r \in Runs, OfRun(r) PROVE RowsInv'
  BY <1>1, <1>3, StartRows, WorkerRows, MarkRows, ScoreRows, FinishRows DEF OfRun
<1>4. CASE UNCHANGED vars
  BY <1>4 DEF vars, RowsInv, Fits, Loads, Stored
<1>5. QED
  BY <1>2, <1>3, <1>4 DEF Next, OfTenant, OfRun

LEMMA RowsInvariant == Spec => []RowsInv
<1>1. Init => RowsInv
  BY DEF Init, RowsInv, Loads, Stored, NoRun
<1>2. QED
  BY <1>1, RowsStep, Invariance, PTL DEF Spec
-----------------------------------------------------------------------------
(***************************************************************************)
(* A delivery that reached every item without an error has one row for     *)
(* each, and its scores are in the order of the items.                     *)
(***************************************************************************)
LEMMA RanksAreItems ==
  ASSUME NEW R, Ranked(R), Itemized(R), NEW n \in Nat, {x.item : x \in R} = 1..n,
         \A x \in R : ~ x.error
  PROVE  Cardinality(Good(R)) = n /\ \A x \in R : Rank(R, x) = x.item
<1>1. Good(R) = R
  BY DEF Good
<1>2. ASSUME NEW x \in R, NEW y \in R, x.item = y.item PROVE x = y
  <2>1. UpTo(R, x) = UpTo(R, y)
    BY <1>2 DEF UpTo
  <2>2. QED
    BY <1>1, <2>1 DEF Ranked, Rank
<1>3. ASSUME NEW k \in 0..n PROVE Cardinality({q \in R : q.item <= k}) = k
  <2> DEFINE U == {q \in R : q.item <= k}
             f == [q \in U |-> q.item]
  <2>1. \A q \in R : q.item \in 1..n
    OBVIOUS
  <2>2. \A i \in 1..n : \E q \in R : q.item = i
    OBVIOUS
  <2>3. f \in [U -> 1..k]
    BY <2>1
  <2>4. \A p, q \in U : f[p] = f[q] => p = q
    BY <1>2
  <2>5. \A i \in 1..k : \E q \in U : f[q] = i
    BY <2>2
  <2>6. IsFiniteSet(U)
    BY FS_Subset DEF Ranked
  <2> HIDE DEF U, f
  <2>7. f \in Bijection(U, 1..k)
    BY <2>3, <2>4, <2>5 DEF Bijection, Injection, IsInjective, Surjection
  <2>8. ExistsBijection(U, 1..k)
    BY <2>7 DEF ExistsBijection
  <2>9. Cardinality(1..k) = Cardinality(U)
    BY <2>6, <2>8, FS_Bijection
  <2>10. Cardinality(1..k) = k
    <3>1. 1 \in Int /\ k \in Int /\ k >= 0
      OBVIOUS
    <3>2. QED
      BY <3>1, FS_Interval
  <2>11. QED
    BY <2>9, <2>10 DEF U
<1>4. Cardinality(Good(R)) = n
  <2>1. \A q \in R : q.item \in 1..n
    OBVIOUS
  <2>2. R = {q \in R : q.item <= n}
    BY <2>1
  <2>3. n \in 0..n
    OBVIOUS
  <2>4. QED
    BY <1>1, <1>3, <2>2, <2>3
<1>5. ASSUME NEW x \in R PROVE Rank(R, x) = x.item
  <2>1. UpTo(R, x) = {q \in R : q.item <= x.item}
    BY DEF UpTo
  <2>2. x.item \in 0..n
    <3>1. x.item \in 1..n
      OBVIOUS
    <3>2. QED
      BY <3>1
  <2>3. QED
    BY <1>3, <2>1, <2>2 DEF Rank
<1>6. QED
  BY <1>4, <1>5

LEMMA ScoresInOrder ==
  ASSUME NEW R, Ranked(R), Itemized(R), NEW n \in Nat, {x.item : x \in R} = 1..n,
         \A x \in R : ~ x.error
  PROVE  /\ DOMAIN ScoresIn(R) = 1..n
         /\ ScoresIn(R) = [i \in 1..n |-> ScoresIn(R)[i]]
         /\ \A i \in 1..n : \E x \in R : x.item = i /\ ScoresIn(R)[i] = x.scores
<1>1. Cardinality(Good(R)) = n /\ \A x \in R : Rank(R, x) = x.item
  BY RanksAreItems
<1>2. ScoresIn(R) = [i \in 1..n |-> (CHOOSE x \in R : ~ x.error /\ Rank(R, x) = i).scores]
  BY <1>1 DEF ScoresIn
<1>3. ASSUME NEW i \in 1..n PROVE \E x \in R : x.item = i /\ ScoresIn(R)[i] = x.scores
  <2> DEFINE x == CHOOSE x \in R : ~ x.error /\ Rank(R, x) = i
  <2>1. \E y \in R : y.item = i
    OBVIOUS
  <2>2. \E y \in R : ~ y.error /\ Rank(R, y) = i
    BY <1>1, <2>1
  <2>3. x \in R /\ Rank(R, x) = i
    BY <2>2
  <2>4. ScoresIn(R)[i] = x.scores
    BY <1>2
  <2> HIDE DEF x
  <2>5. QED
    BY <1>1, <2>3, <2>4
<1>4. QED
  BY <1>2, <1>3

(***************************************************************************)
(* A run that is done, and none of whose rows raised, says the means over  *)
(* the items 1 to its total, one row for each.                             *)
(***************************************************************************)
Listed(z, r, n) ==
    /\ n \in Nat \ {0} /\ DOMAIN z = 1..n /\ z = [i \in 1..n |-> z[i]]
    /\ \A i \in 1..n : \E x \in Rows(r) : x.item = i /\ z[i] = x.scores
    /\ {x.item : x \in Rows(r)} = 1..n
    /\ run[r].summary = Summarise(z)

LEMMA DoneIsListed ==
  ASSUME EvalInv, RowsInv, NEW r \in Runs, run[r].status = "done", \A x \in Rows(r) : ~ x.error
  PROVE  \E z : Listed(z, r, run[r].total)
<1> DEFINE n == run[r].total
<1>1. PICK t \in 1..tries[r] : Says(run[r], RowsFor(rows, r, t))
  BY DEF EvalInv, Kept, Told
<1> DEFINE R == RowsFor(rows, r, t)
<1>2. n \in Nat /\ AreRows(rows)
  BY DEF EvalInv, Typed, AreRuns, IsRun
<1>3. R \subseteq Rows(r)
  BY DEF RowsFor, Rows
<1>4. /\ Ranked(R) /\ {x.item : x \in R} = 1..n /\ run[r].summary = Summarise(ScoresIn(R))
      /\ Good(R) # {}
  BY <1>1 DEF Says
<1>5. Itemized(R)
  BY <1>2 DEF Itemized, AreRows, RowsFor
<1>6. \A x \in Rows(r) : x.item \in 1..n
  <2>1. ASSUME NEW x \in Rows(r) PROVE x.item \in 1..n
    <3>1. x \in rows /\ x.run = r
      BY DEF Rows
    <3>2. Fits(x) /\ x.item \in Nat
      BY <1>2, <3>1 DEF RowsInv, AreRows
    <3>3. x.item >= 1 /\ x.item <= n
      BY <3>1, <3>2 DEF Fits
    <3>4. QED
      BY <1>2, <3>2, <3>3
  <2>2. QED
    BY <2>1
<1> HIDE DEF n, R
<1>7. \A x \in R : ~ x.error
  BY <1>3
<1> DEFINE z == ScoresIn(R)
<1>8. /\ DOMAIN z = 1..n /\ z = [i \in 1..n |-> z[i]]
      /\ \A i \in 1..n : \E x \in R : x.item = i /\ z[i] = x.scores
  BY <1>2, <1>4, <1>5, <1>7, ScoresInOrder
<1>9. n # 0
  <2>1. PICK x \in R : TRUE
    BY <1>4 DEF Good
  <2>2. x.item \in 1..n
    BY <1>4
  <2>3. QED
    BY <1>2, <2>2
<1>10. {x.item : x \in Rows(r)} = 1..n
  <2>1. \A i \in 1..n : \E x \in Rows(r) : x.item = i
    BY <1>3, <1>8
  <2>2. QED
    BY <1>6, <2>1
<1> HIDE DEF z
<1>11. run[r].summary = Summarise(z)
  BY <1>4 DEF z
<1>12. Listed(z, r, n)
  BY <1>2, <1>3, <1>8, <1>9, <1>10, <1>11 DEF Listed
<1>13. QED
  BY <1>12 DEF n

(* Its summary has the metrics it asked for, and the mean of each.         *)
LEMMA SummaryIsMeans ==
  ASSUME Typed, RowsInv, NEW r \in Runs, NEW n, NEW z, Listed(z, r, n), \A x \in Rows(r) : ~ x.error
  PROVE  /\ \A i \in 1..n : z[i] \in [run[r].metrics -> Nat]
         /\ DOMAIN run[r].summary = run[r].metrics
         /\ \A m \in run[r].metrics : run[r].summary[m] = Rounded(SumOf(z, m), n)
<1>1. n \in Nat \ {0} /\ DOMAIN z = 1..n /\ z = [i \in 1..n |-> z[i]] /\ run[r].summary = Summarise(z)
  BY DEF Listed
<1>2. ASSUME NEW i \in 1..n PROVE z[i] \in [run[r].metrics -> Nat]
  <2>1. PICK x \in Rows(r) : z[i] = x.scores
    BY DEF Listed
  <2>2. Fits(x) /\ ~ x.error /\ x.run = r
    BY DEF RowsInv, Rows
  <2>3. QED
    BY <2>1, <2>2 DEF Fits
<1>3. \A i \in 1..n : DOMAIN z[i] = run[r].metrics
  BY <1>2
<1>4. Len(z) = n
  <2> DEFINE S == {z[i] : i \in 1..n}
  <2>1. [i \in 1..n |-> z[i]] \in Seq(S)
    BY <1>1
  <2>2. z \in Seq(S)
    BY <1>1, <2>1
  <2> HIDE DEF S
  <2>3. QED
    BY <1>1, <2>2
<1>5. UNION {DOMAIN row : row \in ToSet(z)} = run[r].metrics
  <2>1. ToSet(z) = {z[i] : i \in 1..n}
    BY <1>1 DEF ToSet
  <2>2. 1 \in 1..n
    BY <1>1
  <2>3. QED
    BY <1>3, <2>1, <2>2
<1>6. Summarise(z) = [m \in run[r].metrics |-> Rounded(SumOf(z, m), n)]
  BY <1>4, <1>5 DEF Summarise
<1>7. QED
  BY <1>1, <1>2, <1>6

LEMMA LeastNatural ==
  ASSUME NEW T \in SUBSET Nat, T # {} PROVE \E n \in T : \A m \in T : n <= m
<1> DEFINE R == OpToRel(<, Nat)
<1>1. \A m, n \in Nat : <<m, n>> \in R <=> m < n
  BY DEF OpToRel
<1>2. IsWellFoundedOn(R, Nat)
  BY NatLessThanWellFounded
<1> HIDE DEF R
<1>3. PICK n \in T : \A m \in T : <<m, n>> \notin R
  BY <1>2, WFMin
<1>4. \A m \in T : ~ (m < n)
  BY <1>1, <1>3
<1>5. QED
  BY <1>4

(* There is a newest baseline if there is one.                             *)
LEMMA NewestBaseline ==
  ASSUME Typed, Baselines # {}
  PROVE  latest_baseline \in Runs /\ run[latest_baseline].status = "done"
<1>1. created \in Seq(Runs)
  BY DEF Typed
<1>2. Baselines \in SUBSET Nat /\ \A i \in Baselines : i \in 1..Len(created)
  BY <1>1 DEF Baselines
<1>4. \E i \in Baselines : \A j \in Baselines : j <= i
  <2> DEFINE L == {k \in Nat : \A j \in Baselines : j <= k}
  <2>1. L \in SUBSET Nat /\ Len(created) \in L
    BY <1>1, <1>2
  <2> HIDE DEF L
  <2>2. PICK k \in L : \A l \in L : k <= l
    BY <2>1, LeastNatural
  <2>3. k \in Nat /\ \A j \in Baselines : j <= k
    BY <2>2 DEF L
  <2>4. k \in Baselines
    <3>1. SUFFICES ASSUME k \notin Baselines PROVE FALSE
      OBVIOUS
    <3>2. \A j \in Baselines : j <= k - 1 /\ k - 1 \in Nat
      BY <1>2, <2>3, <3>1
    <3>3. k - 1 \in L
      BY <3>2 DEF L
    <3>4. QED
      BY <2>2, <2>3, <3>3
  <2>5. QED
    BY <2>3, <2>4
<1>5. PICK i \in Baselines : latest_baseline = created[i]
  BY <1>4 DEF latest_baseline
<1>6. i \in DOMAIN created /\ run[created[i]].status = "done"
  BY DEF Baselines
<1>7. QED
  BY <1>1, <1>5, <1>6

(* A metric is said to have regressed only if the candidate lacks it, the  *)
(* two runs' means are over different items, or it is lower on some item:  *)
(* neither rounding, nor rows that another delivery left behind, nor the   *)
(* order in which a worker wrote them makes a regression.                  *)
THEOREM RegressionsHaveCauses == Spec => []RegressionHasCause
<1>1. EvalInv /\ RowsInv => RegressionHasCause
  <2> SUFFICES ASSUME EvalInv, RowsInv, Baselines # {}, NEW c \in Runs, run[c].status = "done",
                      NEW m \in compare_runs(latest_baseline, c), m \in DOMAIN run[c].summary,
                      SameItems(latest_baseline, c),
                      \A x \in Rows(latest_baseline), y \in Rows(c) :
                          x.item = y.item /\ m \in DOMAIN x.scores \cap DOMAIN y.scores =>
                              ~ (y.scores[m] < x.scores[m])
               PROVE  FALSE
    BY DEF RegressionHasCause
  <2>1. PICK b \in Runs : b = latest_baseline /\ run[b].status = "done"
    BY NewestBaseline DEF EvalInv
  <2>2. Typed
    BY DEF EvalInv
  <2>3. (\A x \in Rows(b) : ~ x.error) /\ (\A y \in Rows(c) : ~ y.error)
        /\ {x.item : x \in Rows(b)} = {y.item : y \in Rows(c)}
    BY <2>1 DEF SameItems
  <2>4. PICK before : Listed(before, b, run[b].total)
    BY <2>1, <2>3, DoneIsListed
  <2>5. PICK after : Listed(after, c, run[c].total)
    BY <2>3, DoneIsListed
  <2>6. PICK n \in Nat \ {0} : n = run[b].total
    BY <2>4 DEF Listed
  <2>7. run[c].total = n
    <3>1. 1..n = 1..run[c].total /\ run[c].total \in Nat \ {0}
      BY <2>3, <2>4, <2>5, <2>6 DEF Listed
    <3>2. n \in 1..run[c].total /\ run[c].total \in 1..n
      BY <2>6, <3>1
    <3>3. QED
      BY <2>6, <3>1, <3>2
  <2>8. Listed(before, b, n) /\ Listed(after, c, n)
    BY <2>4, <2>5, <2>6, <2>7
  <2>9. /\ \A i \in 1..n : before[i] \in [run[b].metrics -> Nat]
        /\ DOMAIN run[b].summary = run[b].metrics
        /\ \A k \in run[b].metrics : run[b].summary[k] = Rounded(SumOf(before, k), n)
    BY <2>2, <2>3, <2>8, SummaryIsMeans
  <2>10. /\ \A i \in 1..n : after[i] \in [run[c].metrics -> Nat]
         /\ DOMAIN run[c].summary = run[c].metrics
         /\ \A k \in run[c].metrics : run[c].summary[k] = Rounded(SumOf(after, k), n)
    BY <2>2, <2>3, <2>8, SummaryIsMeans
  <2>11. DOMAIN before = 1..n /\ DOMAIN after = 1..n
    BY <2>8 DEF Listed
  <2>12. m \in run[c].metrics
    BY <2>10
  <2>13. \A i \in 1..n : Worth(before[i], m) \in Nat /\ Worth(after[i], m) \in Nat
    BY <2>9, <2>10 DEF Worth
  <2>14. ASSUME NEW i \in 1..n PROVE Worth(before[i], m) <= Worth(after[i], m)
    <3>1. PICK x \in Rows(b) : x.item = i /\ before[i] = x.scores
      BY <2>8 DEF Listed
    <3>2. PICK y \in Rows(c) : y.item = i /\ after[i] = y.scores
      BY <2>8 DEF Listed
    <3>3. CASE m \in run[b].metrics
      <4>1. m \in DOMAIN x.scores /\ m \in DOMAIN y.scores
        BY <2>9, <2>10, <2>12, <3>1, <3>2, <3>3
      <4>2. ~ (y.scores[m] < x.scores[m])
        BY <2>1, <3>1, <3>2, <4>1
      <4>3. Worth(before[i], m) = x.scores[m] /\ Worth(after[i], m) = y.scores[m]
        BY <3>1, <3>2, <4>1 DEF Worth
      <4>4. QED
        BY <2>13, <4>2, <4>3
    <3>4. CASE m \notin run[b].metrics
      <4>1. Worth(before[i], m) = 0
        BY <2>9, <3>4 DEF Worth
      <4>2. QED
        BY <2>13, <4>1
    <3>5. QED
      BY <3>3, <3>4
  <2>15. /\ SumOf(before, m) \in Nat /\ SumOf(after, m) \in Nat
         /\ SumOf(before, m) <= SumOf(after, m)
    BY <2>11, <2>13, <2>14, SumIsNoLower
  <2>16. /\ Rounded(SumOf(before, m), n) \in Nat /\ Rounded(SumOf(after, m), n) \in Nat
         /\ Rounded(SumOf(before, m), n) <= Rounded(SumOf(after, m), n)
    BY <2>15, RoundedGrows
  <2>17. /\ ValueIn(run[c].summary, m) \in Nat /\ ValueIn(run[b].summary, m) \in Nat
         /\ ValueIn(run[b].summary, m) <= ValueIn(run[c].summary, m)
    BY <2>9, <2>10, <2>12, <2>16 DEF ValueIn
  <2>18. ValueIn(run[c].summary, m) - ValueIn(run[b].summary, m) < -Threshold
    BY <2>1 DEF compare_runs, regressions, compare
  <2>19. QED
    BY <2>17, <2>18, EvalsAssumption
<1>2. QED
  BY Invariance, RowsInvariant, <1>1, PTL
=============================================================================
