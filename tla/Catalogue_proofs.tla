-------------------------- MODULE Catalogue_proofs --------------------------
(***************************************************************************)
(* Theorems of Catalogue and Search, for any sites, pages, scans, texts    *)
(* and bounds.  A scan and a search are made of loops over lists; what a   *)
(* loop leaves is shown by the least-number principle, for an invariant    *)
(* given as a set per turn.                                                *)
(***************************************************************************)
EXTENDS Search, Arithmetic_proofs

(* Loops.                                                                  *)

\* What holds of 0, and of each number when it holds of the one before, holds up to N.
LEMMA UpTo ==
  ASSUME NEW N \in Nat, NEW Good, 0 \in Good, \A n \in 1..N : n - 1 \in Good => n \in Good
  PROVE  \A n \in 0..N : n \in Good
<1> DEFINE Bad == {n \in 0..N : n \notin Good}
<1>1. SUFFICES ASSUME Bad # {} PROVE FALSE
  OBVIOUS
<1>2. PICK n \in Bad : \A m \in Bad : n <= m
  <2>1. Bad \subseteq Nat
    OBVIOUS
  <2> HIDE DEF Bad
  <2> QED  BY <1>1, <2>1, LeastOf
<1>3. n \in 1..N /\ n - 1 \in 0..N
  BY <1>2
<1>4. n - 1 \notin Bad
  BY <1>2, <1>3
<1> QED  BY <1>2, <1>3, <1>4

\* The bodies of the loops of a scan and of a search.
Body(kind, good, acc, x) ==
  IF kind = "keep" THEN Push(good, acc, x)
  ELSE IF kind = "last" THEN KeepLast(acc, x)
  ELSE IF kind = "first" THEN KeepFirst(acc, x)
  ELSE IF kind = "handle" THEN PutHandle(acc, x)
  ELSE IF kind = "set" THEN SetVariant(acc, x)
  ELSE IF kind = "join" THEN JoinVariant(acc, x)
  ELSE IF kind = "load" THEN acc \o good[x]
  ELSE IF kind = "enter" THEN Enter(acc, x)
  ELSE Follow(good, acc, x)

Runs(kind, good, base, s, f) ==
  f = [n \in 0..Len(s) |-> IF n = 0 THEN base ELSE Body(kind, good, f[n-1], s[n])]

\* A loop has a run.
LEMMA SomeRun ==
  ASSUME NEW kind, NEW good, NEW base, NEW s, Len(s) \in Nat
  PROVE  \E f : Runs(kind, good, base, s, f)
<1> DEFINE N == Len(s)
           Run(m, f) == f = [n \in 0..m |-> IF n = 0 THEN base ELSE Body(kind, good, f[n-1], s[n])]
           Good == {m \in 0..N : \E f : Run(m, f)}
<1>1. 0 \in Good
  <2> DEFINE f == [n \in 0..0 |-> base]
  <2>1. f = [n \in 0..0 |-> IF n = 0 THEN base ELSE Body(kind, good, f[n-1], s[n])]
    OBVIOUS
  <2> HIDE DEF f
  <2> QED  BY <2>1
<1>2. ASSUME NEW m \in 1..N, m - 1 \in Good PROVE m \in Good
  <2>1. PICK f : Run(m - 1, f)
    BY <1>2
  <2> DEFINE g == [n \in 0..m |-> IF n = m THEN Body(kind, good, f[m-1], s[m]) ELSE f[n]]
  <2>2. ASSUME NEW n \in 0..m PROVE g[n] = IF n = 0 THEN base ELSE Body(kind, good, g[n-1], s[n])
    <3>1. CASE n = m
      <4>1. g[m - 1] = f[m - 1] /\ m # 0
        OBVIOUS
      <4> QED  BY <3>1, <4>1
    <3>2. CASE n # m
      <4>1. n \in 0..(m - 1) /\ g[n] = f[n]
        BY <3>2
      <4>2. n # 0 => g[n - 1] = f[n - 1]
        BY <3>2
      <4>3. f[n] = IF n = 0 THEN base ELSE Body(kind, good, f[n-1], s[n])
        BY <2>1, <4>1
      <4> QED  BY <4>1, <4>2, <4>3
    <3> QED  BY <3>1, <3>2
  <2>3. g = [n \in 0..m |-> g[n]]
    OBVIOUS
  <2> HIDE DEF g
  <2>4. Run(m, g)
    BY <2>2, <2>3
  <2> QED  BY <2>4
<1> HIDE DEF Good
<1>3. \A m \in 0..N : m \in Good
  BY <1>1, <1>2, UpTo
<1> QED  BY <1>3 DEF Good, Runs

\* What holds before a loop and over each turn of it holds after.
LEMMA RunStays ==
  ASSUME NEW kind, NEW good, NEW base, NEW s, Len(s) \in Nat, NEW f, Runs(kind, good, base, s, f),
         NEW A, base \in A[0],
         \A n \in 1..Len(s) : \A acc \in A[n-1] : Body(kind, good, acc, s[n]) \in A[n]
  PROVE  f[Len(s)] \in A[Len(s)]
<1> DEFINE Good == {n \in 0..Len(s) : f[n] \in A[n]}
<1>1. \A n \in 0..Len(s) : f[n] = IF n = 0 THEN base ELSE Body(kind, good, f[n-1], s[n])
  BY DEF Runs
<1>2. 0 \in Good
  BY <1>1
<1>3. ASSUME NEW n \in 1..Len(s), n - 1 \in Good PROVE n \in Good
  BY <1>1, <1>3
<1> HIDE DEF Good
<1>4. \A n \in 0..Len(s) : n \in Good
  BY <1>2, <1>3, UpTo
<1> QED  BY <1>4 DEF Good

\* The same of each loop by its name.
LEMMA KeepStays ==
  ASSUME NEW good, NEW s, Len(s) \in Nat, NEW A, <<>> \in A[0],
         \A n \in 1..Len(s) : \A acc \in A[n-1] : Push(good, acc, s[n]) \in A[n]
  PROVE  Keep(s, good) \in A[Len(s)]
<1> DEFINE Eq(f) == f = [n \in 0..Len(s) |-> IF n = 0 THEN <<>> ELSE Push(good, f[n-1], s[n])]
           f == CHOOSE f : Eq(f)
<1>1. \A g : Runs("keep", good, <<>>, s, g) <=> Eq(g)
  BY DEF Runs, Body
<1>2. Eq(f)
  BY <1>1, SomeRun
<1>3. Keep(s, good) = f[Len(s)]
  BY DEF Keep, ForEach
<1>4. \A n \in 1..Len(s) : \A acc \in A[n-1] : Body("keep", good, acc, s[n]) \in A[n]
  BY DEF Body
<1> HIDE DEF Eq, f
<1>5. Runs("keep", good, <<>>, s, f)
  BY <1>1, <1>2
<1> QED  BY <1>3, <1>4, <1>5, RunStays

LEMMA FollowStays ==
  ASSUME NEW base, NEW s, Len(s) \in Nat, NEW A, <<>> \in A[0],
         \A n \in 1..Len(s) : \A acc \in A[n-1] : Follow(base, acc, s[n]) \in A[n]
  PROVE  extractLinks(s, base) \in A[Len(s)]
<1> DEFINE Eq(f) == f = [n \in 0..Len(s) |-> IF n = 0 THEN <<>> ELSE Follow(base, f[n-1], s[n])]
           f == CHOOSE f : Eq(f)
<1>1. \A g : Runs("follow", base, <<>>, s, g) <=> Eq(g)
  BY DEF Runs, Body
<1>2. Eq(f)
  BY <1>1, SomeRun
<1>3. extractLinks(s, base) = f[Len(s)]
  BY DEF extractLinks, ForEach
<1>4. \A n \in 1..Len(s) : \A acc \in A[n-1] : Body("follow", base, acc, s[n]) \in A[n]
  BY DEF Body
<1> HIDE DEF Eq, f
<1>5. Runs("follow", base, <<>>, s, f)
  BY <1>1, <1>2
<1> QED  BY <1>3, <1>4, <1>5, RunStays

LEMMA LastStays ==
  ASSUME NEW base, NEW s, Len(s) \in Nat, NEW A, base \in A[0],
         \A n \in 1..Len(s) : \A acc \in A[n-1] : KeepLast(acc, s[n]) \in A[n]
  PROVE  ForEach(KeepLast, base, s) \in A[Len(s)]
<1> DEFINE Eq(f) == f = [n \in 0..Len(s) |-> IF n = 0 THEN base ELSE KeepLast(f[n-1], s[n])]
           f == CHOOSE f : Eq(f)
<1>1. \A g : Runs("last", {}, base, s, g) <=> Eq(g)
  BY DEF Runs, Body
<1>2. Eq(f)
  BY <1>1, SomeRun
<1>3. ForEach(KeepLast, base, s) = f[Len(s)]
  BY DEF ForEach
<1>4. \A n \in 1..Len(s) : \A acc \in A[n-1] : Body("last", {}, acc, s[n]) \in A[n]
  BY DEF Body
<1> HIDE DEF Eq, f
<1>5. Runs("last", {}, base, s, f)
  BY <1>1, <1>2
<1> QED  BY <1>3, <1>4, <1>5, RunStays

LEMMA FirstStays ==
  ASSUME NEW base, NEW s, Len(s) \in Nat, NEW A, base \in A[0],
         \A n \in 1..Len(s) : \A acc \in A[n-1] : KeepFirst(acc, s[n]) \in A[n]
  PROVE  ForEach(KeepFirst, base, s) \in A[Len(s)]
<1> DEFINE Eq(f) == f = [n \in 0..Len(s) |-> IF n = 0 THEN base ELSE KeepFirst(f[n-1], s[n])]
           f == CHOOSE f : Eq(f)
<1>1. \A g : Runs("first", {}, base, s, g) <=> Eq(g)
  BY DEF Runs, Body
<1>2. Eq(f)
  BY <1>1, SomeRun
<1>3. ForEach(KeepFirst, base, s) = f[Len(s)]
  BY DEF ForEach
<1>4. \A n \in 1..Len(s) : \A acc \in A[n-1] : Body("first", {}, acc, s[n]) \in A[n]
  BY DEF Body
<1> HIDE DEF Eq, f
<1>5. Runs("first", {}, base, s, f)
  BY <1>1, <1>2
<1> QED  BY <1>3, <1>4, <1>5, RunStays

LEMMA HandleStays ==
  ASSUME NEW base, NEW s, Len(s) \in Nat, NEW A, base \in A[0],
         \A n \in 1..Len(s) : \A acc \in A[n-1] : PutHandle(acc, s[n]) \in A[n]
  PROVE  ForEach(PutHandle, base, s) \in A[Len(s)]
<1> DEFINE Eq(f) == f = [n \in 0..Len(s) |-> IF n = 0 THEN base ELSE PutHandle(f[n-1], s[n])]
           f == CHOOSE f : Eq(f)
<1>1. \A g : Runs("handle", {}, base, s, g) <=> Eq(g)
  BY DEF Runs, Body
<1>2. Eq(f)
  BY <1>1, SomeRun
<1>3. ForEach(PutHandle, base, s) = f[Len(s)]
  BY DEF ForEach
<1>4. \A n \in 1..Len(s) : \A acc \in A[n-1] : Body("handle", {}, acc, s[n]) \in A[n]
  BY DEF Body
<1> HIDE DEF Eq, f
<1>5. Runs("handle", {}, base, s, f)
  BY <1>1, <1>2
<1> QED  BY <1>3, <1>4, <1>5, RunStays

LEMMA SetStays ==
  ASSUME NEW base, NEW s, Len(s) \in Nat, NEW A, base \in A[0],
         \A n \in 1..Len(s) : \A acc \in A[n-1] : SetVariant(acc, s[n]) \in A[n]
  PROVE  ForEach(SetVariant, base, s) \in A[Len(s)]
<1> DEFINE Eq(f) == f = [n \in 0..Len(s) |-> IF n = 0 THEN base ELSE SetVariant(f[n-1], s[n])]
           f == CHOOSE f : Eq(f)
<1>1. \A g : Runs("set", {}, base, s, g) <=> Eq(g)
  BY DEF Runs, Body
<1>2. Eq(f)
  BY <1>1, SomeRun
<1>3. ForEach(SetVariant, base, s) = f[Len(s)]
  BY DEF ForEach
<1>4. \A n \in 1..Len(s) : \A acc \in A[n-1] : Body("set", {}, acc, s[n]) \in A[n]
  BY DEF Body
<1> HIDE DEF Eq, f
<1>5. Runs("set", {}, base, s, f)
  BY <1>1, <1>2
<1> QED  BY <1>3, <1>4, <1>5, RunStays

LEMMA JoinStays ==
  ASSUME NEW base, NEW s, Len(s) \in Nat, NEW A, base \in A[0],
         \A n \in 1..Len(s) : \A acc \in A[n-1] : JoinVariant(acc, s[n]) \in A[n]
  PROVE  ForEach(JoinVariant, base, s) \in A[Len(s)]
<1> DEFINE Eq(f) == f = [n \in 0..Len(s) |-> IF n = 0 THEN base ELSE JoinVariant(f[n-1], s[n])]
           f == CHOOSE f : Eq(f)
<1>1. \A g : Runs("join", {}, base, s, g) <=> Eq(g)
  BY DEF Runs, Body
<1>2. Eq(f)
  BY <1>1, SomeRun
<1>3. ForEach(JoinVariant, base, s) = f[Len(s)]
  BY DEF ForEach
<1>4. \A n \in 1..Len(s) : \A acc \in A[n-1] : Body("join", {}, acc, s[n]) \in A[n]
  BY DEF Body
<1> HIDE DEF Eq, f
<1>5. Runs("join", {}, base, s, f)
  BY <1>1, <1>2
<1> QED  BY <1>3, <1>4, <1>5, RunStays

-----------------------------------------------------------------------------
(* Lists.                                                                  *)

\* No two products of a list have one sku.
Distinct(l) == \A i, j \in DOMAIN l : l[i].sku = l[j].sku => i = j

DistinctLists == {l \in Seq(ScannedProduct) : Distinct(l)}

LEMMA MinIn ==
  ASSUME NEW S, S \subseteq Nat, S # {}
  PROVE  Min(S) \in S
BY LeastOf DEF Min

\* Where each of a list came from in another, no two from one place.
Places(l, s, at) ==
  /\ at \in [DOMAIN l -> DOMAIN s]
  /\ \A j \in DOMAIN l : l[j] = s[at[j]]
  /\ \A j, k \in DOMAIN l : at[j] = at[k] => j = k

\* Every good one of a list is in another.
Holds(l, s, good) == \A i \in DOMAIN s : s[i] \in good => \E j \in DOMAIN l : l[j] = s[i]

\* Array.filter leaves those that are good, each as often as it was.
LEMMA KeepIs ==
  ASSUME NEW T, NEW s \in Seq(T), NEW good
  PROVE  /\ Keep(s, good) \in Seq(T \cap good)
         /\ Holds(Keep(s, good), s, good)
         /\ \E at : Places(Keep(s, good), s, at)
<1> DEFINE A == [n \in 0..Len(s) |->
                  {acc \in Seq(T \cap good) :
                     /\ \A i \in 1..n : s[i] \in good => \E j \in DOMAIN acc : acc[j] = s[i]
                     /\ \E at \in [DOMAIN acc -> 1..n] : Places(acc, s, at)}]
<1>0. Len(s) \in Nat /\ DOMAIN s = 1..Len(s)
  OBVIOUS
<1>1. <<>> \in A[0]
  <2>1. Places(<<>>, s, <<>>) /\ <<>> \in [DOMAIN <<>> -> 1..0]
    BY DEF Places
  <2>2. <<>> \in Seq(T \cap good) /\ 0 \in 0..Len(s)
    BY <1>0
  <2>3. \E at \in [DOMAIN <<>> -> 1..0] : Places(<<>>, s, at)
    BY <2>1
  <2>5. \A i \in 1..0 : s[i] \in good => \E j \in DOMAIN <<>> : <<>>[j] = s[i]
    OBVIOUS
  <2> QED  BY <2>2, <2>3, <2>5
<1>2. ASSUME NEW n \in 1..Len(s), NEW acc \in A[n-1] PROVE Push(good, acc, s[n]) \in A[n]
  <2>1. n - 1 \in 0..Len(s) /\ n \in 0..Len(s) /\ s[n] \in T /\ n \in DOMAIN s
    BY <1>0
  <2>2. /\ acc \in Seq(T \cap good)
        /\ \A i \in 1..(n-1) : s[i] \in good => \E j \in DOMAIN acc : acc[j] = s[i]
        /\ \E at \in [DOMAIN acc -> 1..(n-1)] : Places(acc, s, at)
    BY <1>2, <2>1
  <2>3. PICK at \in [DOMAIN acc -> 1..(n-1)] : Places(acc, s, at)
    BY <2>2
  <2>4. \A i \in 1..(n-1) : s[i] \in good => \E j \in DOMAIN acc : acc[j] = s[i]
    BY <2>2
  <2>5. CASE s[n] \in good
    <3> DEFINE new == Append(acc, s[n])
               to == [j \in DOMAIN new |-> IF j = Len(acc) + 1 THEN n ELSE at[j]]
    <3>1. /\ new \in Seq(T \cap good) /\ DOMAIN new = DOMAIN acc \cup {Len(acc) + 1}
          /\ new[Len(acc) + 1] = s[n] /\ \A j \in DOMAIN acc : new[j] = acc[j] /\ j # Len(acc) + 1
      BY <2>1, <2>2, <2>5
    <3>2. Push(good, acc, s[n]) = new
      BY <2>5 DEF Push
    <3> HIDE DEF new
    <3>3. ASSUME NEW i \in 1..n, s[i] \in good PROVE \E j \in DOMAIN new : new[j] = s[i]
      <4>1. i = n \/ i \in 1..(n-1)
        OBVIOUS
      <4> QED  BY <2>4, <3>1, <3>3, <4>1
    <3>4. to[Len(acc) + 1] = n /\ \A j \in DOMAIN acc : to[j] = at[j] /\ at[j] \in 1..(n-1)
      BY <2>3, <3>1
    <3>5. to \in [DOMAIN new -> 1..n] /\ DOMAIN new = DOMAIN acc \cup {Len(acc) + 1}
      BY <2>1, <2>3, <3>1, <3>4
    <3> HIDE DEF to
    <3>6. Places(new, s, to)
      <4>1. to \in [DOMAIN new -> DOMAIN s]
        BY <1>0, <2>1, <3>5
      <4>2. \A j \in DOMAIN new : new[j] = s[to[j]]
        BY <2>3, <3>1, <3>4 DEF Places
      <4>3. ASSUME NEW j \in DOMAIN new, NEW k \in DOMAIN new, to[j] = to[k] PROVE j = k
        <5>1. \A i \in DOMAIN acc : to[i] # n
          BY <3>4
        <5>2. CASE j \in DOMAIN acc /\ k \in DOMAIN acc
          BY <2>3, <3>4, <4>3, <5>2 DEF Places
        <5>3. CASE j = Len(acc) + 1 \/ k = Len(acc) + 1
          BY <3>1, <3>4, <4>3, <5>1, <5>3
        <5> QED  BY <3>1, <5>2, <5>3
      <4> QED  BY <4>1, <4>2, <4>3 DEF Places
    <3> QED  BY <2>1, <3>1, <3>2, <3>3, <3>5, <3>6
  <2>6. CASE s[n] \notin good
    <3>1. Push(good, acc, s[n]) = acc
      BY <2>6 DEF Push
    <3>2. \A i \in 1..n : s[i] \in good => i \in 1..(n-1)
      BY <2>6
    <3>3. at \in [DOMAIN acc -> 1..n]
      BY <2>1, <2>3
    <3> QED  BY <2>1, <2>2, <2>3, <3>1, <3>2, <3>3
  <2> QED  BY <2>5, <2>6
<1>3. Keep(s, good) \in A[Len(s)]
  <2> HIDE DEF A
  <2> QED  BY <1>0, <1>1, <1>2, KeepStays
<1>4. Len(s) \in 0..Len(s)
  BY <1>0
<1>5. PICK kept : kept = Keep(s, good)
  OBVIOUS
<1>6. /\ kept \in Seq(T \cap good)
      /\ \A i \in 1..Len(s) : s[i] \in good => \E j \in DOMAIN kept : kept[j] = s[i]
      /\ \E at : Places(kept, s, at)
  BY <1>3, <1>4, <1>5
<1> QED  BY <1>0, <1>5, <1>6 DEF Holds

LEMMA KeepDistinct ==
  ASSUME NEW s \in DistinctLists, NEW good
  PROVE  Keep(s, good) \in DistinctLists
<1>1. s \in Seq(ScannedProduct) /\ Distinct(s)
  BY DEF DistinctLists
<1>2. PICK kept : kept = Keep(s, good)
  OBVIOUS
<1>3. kept \in Seq(ScannedProduct \cap good) /\ \E at : Places(kept, s, at)
  BY <1>1, <1>2, KeepIs
<1>4. PICK at : Places(kept, s, at)
  BY <1>3
<1>5. ASSUME NEW i \in DOMAIN kept, NEW j \in DOMAIN kept, kept[i].sku = kept[j].sku PROVE i = j
  <2>1. at[i] \in DOMAIN s /\ at[j] \in DOMAIN s /\ kept[i] = s[at[i]] /\ kept[j] = s[at[j]]
    BY <1>4 DEF Places
  <2>2. at[i] = at[j]
    BY <1>1, <1>5, <2>1 DEF Distinct
  <2> QED  BY <1>4, <2>2 DEF Places
<1>6. kept \in Seq(ScannedProduct)
  BY <1>3
<1> QED  BY <1>2, <1>5, <1>6 DEF DistinctLists, Distinct

LEMMA FirstDistinct ==
  ASSUME NEW s \in DistinctLists, NEW n \in Nat
  PROVE  First(n, s) \in DistinctLists
<1>1. s \in Seq(ScannedProduct) /\ Distinct(s)
  BY DEF DistinctLists
<1>2. CASE Len(s) > n
  <2>1. First(n, s) = SubSeq(s, 1, n)
    BY <1>2 DEF First
  <2>2. /\ SubSeq(s, 1, n) \in Seq(ScannedProduct) /\ DOMAIN SubSeq(s, 1, n) \subseteq DOMAIN s
        /\ \A i \in DOMAIN SubSeq(s, 1, n) : SubSeq(s, 1, n)[i] = s[i]
    BY <1>1, <1>2
  <2>3. Distinct(SubSeq(s, 1, n))
    <3> DEFINE t == SubSeq(s, 1, n)
    <3>1. ASSUME NEW i \in DOMAIN t, NEW j \in DOMAIN t, t[i].sku = t[j].sku PROVE i = j
      <4> HIDE DEF t
      <4>1. i \in DOMAIN s /\ j \in DOMAIN s /\ t[i] = s[i] /\ t[j] = s[j]
        BY <2>2 DEF t
      <4> QED  BY <1>1, <3>1, <4>1 DEF Distinct
    <3> QED  BY <3>1 DEF Distinct
  <2> QED  BY <2>1, <2>2, <2>3 DEF DistinctLists
<1> QED  BY <1>2 DEF First

-----------------------------------------------------------------------------
(* Variants.                                                               *)

UniqueIds ==
  {l \in Seq(ScannedVariant) : \A i, j \in DOMAIN l : l[i].id = l[j].id => i = j}

InStock(l, id) == \E i \in DOMAIN l : l[i].id = id /\ l[i].stock
HasId(l, id) == \E i \in DOMAIN l : l[i].id = id

\* Map.set of byVariantId: the variant is in, and those of other ids stay.
LEMMA SetVariantIs ==
  ASSUME NEW l \in UniqueIds, NEW v \in ScannedVariant
  PROVE  /\ SetVariant(l, v) \in UniqueIds
         /\ \E j \in DOMAIN SetVariant(l, v) : SetVariant(l, v)[j] = v
         /\ \A i \in DOMAIN l : l[i].id # v.id =>
              \E j \in DOMAIN SetVariant(l, v) : SetVariant(l, v)[j] = l[i]
<1> DEFINE twin == {i \in DOMAIN l : l[i].id = v.id}
<1>0. /\ l \in Seq(ScannedVariant) /\ Len(l) \in Nat /\ DOMAIN l = 1..Len(l)
      /\ \A i, j \in DOMAIN l : l[i].id = l[j].id => i = j
  BY DEF UniqueIds
<1>1. CASE twin = {}
  <2> DEFINE new == Append(l, v)
  <2>1. /\ new \in Seq(ScannedVariant) /\ DOMAIN new = DOMAIN l \cup {Len(l) + 1}
        /\ new[Len(l) + 1] = v /\ \A i \in DOMAIN l : new[i] = l[i]
    BY <1>0
  <2>2. SetVariant(l, v) = new
    BY <1>1 DEF SetVariant
  <2>3. \A i \in DOMAIN l : l[i].id # v.id
    BY <1>1
  <2> HIDE DEF new, twin
  <2>4. \A i, j \in DOMAIN new : new[i].id = new[j].id => i = j
    BY <1>0, <2>1, <2>3
  <2> QED  BY <2>1, <2>2, <2>4 DEF UniqueIds
<1>2. CASE twin # {}
  <2>1. PICK m : m = Min(twin)
    OBVIOUS
  <2>2. m \in twin
    <3>1. twin \subseteq Nat
      BY <1>0
    <3> HIDE DEF twin
    <3> QED  BY <1>2, <2>1, <3>1, MinIn
  <2> DEFINE new == [l EXCEPT ![m] = v]
  <2>3. /\ new \in Seq(ScannedVariant) /\ DOMAIN new = DOMAIN l
        /\ new[m] = v /\ \A i \in DOMAIN l \ {m} : new[i] = l[i]
    BY <1>0, <2>2
  <2>4. SetVariant(l, v) = new
    BY <1>2, <2>1 DEF SetVariant
  <2>5. m \in DOMAIN l /\ l[m].id = v.id
    BY <2>2
  <2> HIDE DEF new, twin
  <2>6. \A i \in DOMAIN new : new[i].id = l[i].id
    BY <2>3, <2>5
  <2>7. \A i, j \in DOMAIN new : new[i].id = new[j].id => i = j
    BY <1>0, <2>3, <2>6
  <2>8. new \in UniqueIds
    BY <2>3, <2>7 DEF UniqueIds
  <2>9. \A i \in DOMAIN l : l[i].id # v.id => \E j \in DOMAIN new : new[j] = l[i]
    BY <2>3, <2>5
  <2> QED  BY <2>3, <2>4, <2>5, <2>8, <2>9
<1> QED  BY <1>1, <1>2

\* One that either has in stock is in stock, and no id is lost.
LEMMA JoinVariantIs ==
  ASSUME NEW l \in UniqueIds, NEW v \in ScannedVariant
  PROVE  /\ JoinVariant(l, v) \in UniqueIds
         /\ HasId(JoinVariant(l, v), v.id)
         /\ v.stock => InStock(JoinVariant(l, v), v.id)
         /\ \A id : HasId(l, id) => HasId(JoinVariant(l, v), id)
         /\ \A id : InStock(l, id) => InStock(JoinVariant(l, v), id)
<1>1. PICK u : u = [v EXCEPT !.stock = @ \/ \E i \in DOMAIN l : l[i].id = v.id /\ l[i].stock]
  OBVIOUS
<1>2. u = [v EXCEPT !.stock = v.stock \/ InStock(l, v.id)]
  BY <1>1 DEF InStock
<1>3. u \in ScannedVariant /\ u.id = v.id /\ (v.stock => u.stock) /\ (InStock(l, v.id) => u.stock)
  BY <1>2 DEF ScannedVariant
<1>4. PICK new : new = SetVariant(l, u)
  OBVIOUS
<1>5. JoinVariant(l, v) = new
  BY <1>1, <1>4 DEF JoinVariant
<1>6. /\ new \in UniqueIds /\ \E j \in DOMAIN new : new[j] = u
      /\ \A i \in DOMAIN l : l[i].id # v.id => \E j \in DOMAIN new : new[j] = l[i]
  BY <1>3, <1>4, SetVariantIs
<1>7. HasId(new, v.id) /\ (v.stock => InStock(new, v.id))
  BY <1>3, <1>6 DEF HasId, InStock
<1>8. ASSUME NEW id, HasId(l, id) PROVE HasId(new, id)
  BY <1>6, <1>7, <1>8 DEF HasId
<1>9. ASSUME NEW id, InStock(l, id) PROVE InStock(new, id)
  <2>1. CASE id = v.id
    BY <1>3, <1>6, <1>9, <2>1 DEF InStock
  <2>2. CASE id # v.id
    BY <1>6, <1>9, <2>2 DEF InStock
  <2> QED  BY <2>1, <2>2
<1> QED  BY <1>5, <1>6, <1>7, <1>8, <1>9

\* mergeVariants is a list of variants of its own ids; of records that repeat no id, one that
\* either has in stock is in stock, and no id of the later record is lost.
LEMMA MergeVariantsIs ==
  ASSUME NEW vs \in Seq(ScannedVariant), NEW ws \in Seq(ScannedVariant)
  PROVE  /\ mergeVariants(vs, ws) \in UniqueIds
         /\ \A i \in DOMAIN ws : HasId(mergeVariants(vs, ws), ws[i].id)
         /\ \A id : InStock(ws, id) => InStock(mergeVariants(vs, ws), id)
         /\ vs \in UniqueIds => \A id : InStock(vs, id) => InStock(mergeVariants(vs, ws), id)
<1> DEFINE A == [n \in 0..Len(vs) |->
                  {acc \in UniqueIds : vs \in UniqueIds =>
                     \A i \in 1..n : vs[i].stock => InStock(acc, vs[i].id)}]
<1>0. /\ Len(vs) \in Nat /\ DOMAIN vs = 1..Len(vs) /\ \A i \in DOMAIN vs : vs[i] \in ScannedVariant
      /\ Len(ws) \in Nat /\ DOMAIN ws = 1..Len(ws) /\ \A i \in DOMAIN ws : ws[i] \in ScannedVariant
  OBVIOUS
<1>1. <<>> \in UniqueIds
  BY DEF UniqueIds
<1>2. <<>> \in A[0]
  BY <1>0, <1>1
<1>3. ASSUME NEW n \in 1..Len(vs), NEW acc \in A[n-1] PROVE SetVariant(acc, vs[n]) \in A[n]
  <2>1. n - 1 \in 0..Len(vs) /\ n \in 0..Len(vs) /\ n \in DOMAIN vs /\ vs[n] \in ScannedVariant
    BY <1>0
  <2>2. acc \in UniqueIds /\ (vs \in UniqueIds =>
          \A i \in 1..(n-1) : vs[i].stock => InStock(acc, vs[i].id))
    BY <1>3, <2>1
  <2>3. PICK new : new = SetVariant(acc, vs[n])
    OBVIOUS
  <2>4. /\ new \in UniqueIds /\ \E j \in DOMAIN new : new[j] = vs[n]
        /\ \A i \in DOMAIN acc : acc[i].id # vs[n].id => \E j \in DOMAIN new : new[j] = acc[i]
    BY <2>1, <2>2, <2>3, SetVariantIs
  <2>5. ASSUME vs \in UniqueIds, NEW i \in 1..n, vs[i].stock PROVE InStock(new, vs[i].id)
    <3>1. CASE i = n
      BY <2>4, <2>5, <3>1 DEF InStock
    <3>2. CASE i # n
      <4>1. i \in 1..(n-1) /\ i \in DOMAIN vs
        BY <1>0, <3>2
      <4>2. vs[i].id # vs[n].id
        BY <2>1, <2>5, <3>2, <4>1 DEF UniqueIds
      <4>3. InStock(acc, vs[i].id)
        BY <2>2, <2>5, <4>1
      <4> QED  BY <2>4, <4>2, <4>3 DEF InStock
    <3> QED  BY <3>1, <3>2
  <2> QED  BY <2>1, <2>3, <2>4, <2>5
<1>4. PICK byId : byId = ForEach(SetVariant, <<>>, vs)
  OBVIOUS
<1>5. byId \in A[Len(vs)]
  <2> HIDE DEF A
  <2> QED  BY <1>0, <1>2, <1>3, <1>4, SetStays
<1>6. /\ byId \in UniqueIds
      /\ vs \in UniqueIds => \A id : InStock(vs, id) => InStock(byId, id)
  <2>1. Len(vs) \in 0..Len(vs)
    BY <1>0
  <2>2. byId \in UniqueIds /\ (vs \in UniqueIds =>
          \A i \in 1..Len(vs) : vs[i].stock => InStock(byId, vs[i].id))
    BY <1>5, <2>1
  <2> QED  BY <1>0, <2>2 DEF InStock
<1> HIDE DEF A
<1> DEFINE B == [n \in 0..Len(ws) |->
                  {acc \in UniqueIds :
                     /\ \A i \in 1..n : HasId(acc, ws[i].id) /\ (ws[i].stock => InStock(acc, ws[i].id))
                     /\ \A id : InStock(byId, id) => InStock(acc, id)}]
<1>7. byId \in B[0]
  BY <1>0, <1>6
<1>8. ASSUME NEW n \in 1..Len(ws), NEW acc \in B[n-1] PROVE JoinVariant(acc, ws[n]) \in B[n]
  <2>1. n - 1 \in 0..Len(ws) /\ n \in 0..Len(ws) /\ ws[n] \in ScannedVariant
    BY <1>0
  <2>2. /\ acc \in UniqueIds
        /\ \A i \in 1..(n-1) : HasId(acc, ws[i].id) /\ (ws[i].stock => InStock(acc, ws[i].id))
        /\ \A id : InStock(byId, id) => InStock(acc, id)
    BY <1>8, <2>1
  <2>3. PICK new : new = JoinVariant(acc, ws[n])
    OBVIOUS
  <2>4. /\ new \in UniqueIds /\ HasId(new, ws[n].id) /\ (ws[n].stock => InStock(new, ws[n].id))
        /\ \A id : HasId(acc, id) => HasId(new, id)
        /\ \A id : InStock(acc, id) => InStock(new, id)
    BY <2>1, <2>2, <2>3, JoinVariantIs
  <2>5. ASSUME NEW i \in 1..n
        PROVE  HasId(new, ws[i].id) /\ (ws[i].stock => InStock(new, ws[i].id))
    <3>1. i = n \/ i \in 1..(n-1)
      OBVIOUS
    <3> QED  BY <2>2, <2>4, <3>1
  <2> QED  BY <2>1, <2>2, <2>3, <2>4, <2>5
<1>9. PICK merged : merged = ForEach(JoinVariant, byId, ws)
  OBVIOUS
<1>10. mergeVariants(vs, ws) = merged
  BY <1>4, <1>9 DEF mergeVariants
<1>11. merged \in B[Len(ws)]
  <2> HIDE DEF B
  <2> QED  BY <1>0, <1>7, <1>8, <1>9, JoinStays
<1>12. /\ merged \in UniqueIds
       /\ \A i \in 1..Len(ws) : HasId(merged, ws[i].id) /\ (ws[i].stock => InStock(merged, ws[i].id))
       /\ \A id : InStock(byId, id) => InStock(merged, id)
  <2>1. Len(ws) \in 0..Len(ws)
    BY <1>0
  <2> QED  BY <1>11, <2>1
<1>13. \A id : InStock(ws, id) => InStock(merged, id)
  BY <1>0, <1>12 DEF InStock
<1> HIDE DEF B
<1> QED  BY <1>0, <1>6, <1>10, <1>12, <1>13

-----------------------------------------------------------------------------
(* Products.                                                               *)

\* A choice of variants: none, or several.
Offers == {l \in UniqueIds : Len(l) # 1}
Choosable == {p \in ScannedProduct : p.variants \in Offers}

\* A product tells of a record what StockKept asks: its handle, and what it had in stock.
Covers(p, r) ==
  /\ p.sku = r.sku
  /\ r.stock => p.stock
  /\ \A id : InStock(r.variants, id) => InStock(p.variants, id)

LEMMA MergeIs ==
  ASSUME NEW a \in ScannedProduct, NEW b \in ScannedProduct
  PROVE  /\ mergeDuplicateShopifyProduct(a, b) \in ScannedProduct
         /\ mergeDuplicateShopifyProduct(a, b).sku = a.sku
         /\ mergeDuplicateShopifyProduct(a, b).name = a.name
         /\ a \in Choosable /\ b \in Choosable /\ b.sku = a.sku =>
              /\ mergeDuplicateShopifyProduct(a, b) \in Choosable
              /\ Covers(mergeDuplicateShopifyProduct(a, b), a)
              /\ Covers(mergeDuplicateShopifyProduct(a, b), b)
<1>1. PICK merged : merged = mergeVariants(a.variants, b.variants)
  OBVIOUS
<1>2. a.variants \in Seq(ScannedVariant) /\ b.variants \in Seq(ScannedVariant)
  BY DEF ScannedProduct
<1>3. /\ merged \in UniqueIds
      /\ \A i \in DOMAIN b.variants : HasId(merged, b.variants[i].id)
      /\ \A id : InStock(b.variants, id) => InStock(merged, id)
      /\ a.variants \in UniqueIds => \A id : InStock(a.variants, id) => InStock(merged, id)
  BY <1>1, <1>2, MergeVariantsIs
<1>4. PICK c : c = IF Len(merged) > 1 THEN merged ELSE a.variants
  OBVIOUS
<1>5. PICK m : m = [a EXCEPT !.stock = a.stock \/ b.stock, !.variants = c]
  OBVIOUS
<1>6. mergeDuplicateShopifyProduct(a, b) = m
  BY <1>1, <1>4, <1>5 DEF mergeDuplicateShopifyProduct
<1>7. c \in Seq(ScannedVariant)
  BY <1>2, <1>3, <1>4 DEF UniqueIds
<1>8. /\ m \in ScannedProduct /\ m.sku = a.sku /\ m.name = a.name /\ m.variants = c
      /\ (a.stock => m.stock) /\ (b.stock => m.stock)
  BY <1>5, <1>7 DEF ScannedProduct
<1>9. ASSUME a \in Choosable, b \in Choosable, b.sku = a.sku
      PROVE  m \in Choosable /\ Covers(m, a) /\ Covers(m, b)
  <2>1. a.variants \in Offers /\ b.variants \in Offers
    BY <1>9 DEF Choosable
  <2>2. Len(merged) \in Nat /\ DOMAIN merged = 1..Len(merged)
    BY <1>3 DEF UniqueIds
  <2>3. c \in Offers
    BY <1>3, <1>4, <2>1, <2>2 DEF Offers
  <2>4. \A id : InStock(a.variants, id) => InStock(c, id)
    BY <1>3, <1>4, <2>1 DEF Offers
  <2>5. Len(merged) > 1 \/ DOMAIN b.variants = {}
    <3>1. PICK k : k = Len(b.variants)
      OBVIOUS
    <3>2. k \in Nat /\ k # 1 /\ DOMAIN b.variants = 1..k
      BY <1>2, <2>1, <3>1 DEF Offers
    <3>3. CASE k = 0
      BY <3>2, <3>3
    <3>4. CASE k > 1
      <4>1. 1 \in DOMAIN b.variants /\ 2 \in DOMAIN b.variants
        BY <3>2, <3>4
      <4>2. b.variants[1].id # b.variants[2].id
        BY <2>1, <4>1 DEF Offers, UniqueIds
      <4>3. PICK i, j \in DOMAIN merged : merged[i].id = b.variants[1].id /\ merged[j].id = b.variants[2].id
        BY <1>3, <4>1 DEF HasId
      <4> QED  BY <2>2, <4>2, <4>3
    <3> QED  BY <3>2, <3>3, <3>4
  <2>6. ASSUME NEW id, InStock(b.variants, id) PROVE InStock(c, id)
    <3>1. DOMAIN b.variants # {}
      BY <2>6 DEF InStock
    <3> QED  BY <1>3, <1>4, <2>5, <2>6, <3>1
  <2> QED  BY <1>8, <1>9, <2>3, <2>4, <2>6 DEF Choosable, Covers
<1> QED  BY <1>6, <1>8, <1>9

\* To put a product at its sku's place, or at the end.
LEMMA Placed ==
  ASSUME NEW l \in DistinctLists, NEW sku, NEW x \in ScannedProduct, x.sku = sku
  PROVE  /\ IndexOf(l, sku) = {} => Append(l, x) \in DistinctLists
         /\ IndexOf(l, sku) # {} =>
              /\ Min(IndexOf(l, sku)) \in DOMAIN l
              /\ l[Min(IndexOf(l, sku))].sku = sku
              /\ [l EXCEPT ![Min(IndexOf(l, sku))] = x] \in DistinctLists
<1> DEFINE twin == IndexOf(l, sku)
<1>0. /\ l \in Seq(ScannedProduct) /\ Len(l) \in Nat /\ DOMAIN l = 1..Len(l)
      /\ \A i, j \in DOMAIN l : l[i].sku = l[j].sku => i = j
  BY DEF DistinctLists, Distinct
<1>1. twin = {i \in DOMAIN l : l[i].sku = sku}
  BY DEF IndexOf
<1>2. ASSUME twin = {} PROVE Append(l, x) \in DistinctLists
  <2> DEFINE new == Append(l, x)
  <2>1. /\ new \in Seq(ScannedProduct) /\ DOMAIN new = DOMAIN l \cup {Len(l) + 1}
        /\ new[Len(l) + 1] = x /\ \A i \in DOMAIN l : new[i] = l[i]
    BY <1>0
  <2>2. \A i \in DOMAIN l : l[i].sku # x.sku
    BY <1>1, <1>2
  <2> HIDE DEF new
  <2>3. \A i, j \in DOMAIN new : new[i].sku = new[j].sku => i = j
    BY <1>0, <2>1, <2>2
  <2> QED  BY <2>1, <2>3 DEF DistinctLists, Distinct, new
<1>3. ASSUME twin # {}
      PROVE  /\ Min(twin) \in DOMAIN l /\ l[Min(twin)].sku = sku
             /\ [l EXCEPT ![Min(twin)] = x] \in DistinctLists
  <2>1. PICK m : m = Min(twin)
    OBVIOUS
  <2>2. m \in twin
    <3>1. twin \subseteq Nat
      BY <1>0, <1>1
    <3> HIDE DEF twin
    <3> QED  BY <1>3, <2>1, <3>1, MinIn
  <2>3. m \in DOMAIN l /\ l[m].sku = sku
    BY <1>1, <2>2
  <2> DEFINE new == [l EXCEPT ![m] = x]
  <2>4. /\ new \in Seq(ScannedProduct) /\ DOMAIN new = DOMAIN l
        /\ new[m] = x /\ \A i \in DOMAIN l \ {m} : new[i] = l[i]
    BY <1>0, <2>3
  <2> HIDE DEF new, twin
  <2>5. \A i \in DOMAIN new : new[i].sku = l[i].sku
    BY <2>3, <2>4
  <2>6. \A i, j \in DOMAIN new : new[i].sku = new[j].sku => i = j
    BY <1>0, <2>4, <2>5
  <2>7. new \in DistinctLists
    BY <2>4, <2>6 DEF DistinctLists, Distinct
  <2> QED  BY <2>1, <2>3, <2>7 DEF new
<1> QED  BY <1>2, <1>3

LEMMA KeepLastIs ==
  ASSUME NEW l \in DistinctLists, NEW p \in ScannedProduct
  PROVE  KeepLast(l, p) \in DistinctLists
BY Placed DEF KeepLast

LEMMA KeepFirstIs ==
  ASSUME NEW l \in DistinctLists, NEW p \in ScannedProduct
  PROVE  KeepFirst(l, p) \in DistinctLists
BY Placed DEF KeepFirst

\* Loops that leave a list of distinct products.
LEMMA LoopsKeepDistinct ==
  ASSUME NEW l \in DistinctLists, NEW s \in Seq(ScannedProduct)
  PROVE  /\ ForEach(KeepLast, l, s) \in DistinctLists
         /\ ForEach(KeepFirst, l, s) \in DistinctLists
<1> DEFINE A == [n \in 0..Len(s) |-> DistinctLists]
<1>1. Len(s) \in Nat /\ 0 \in 0..Len(s) /\ Len(s) \in 0..Len(s) /\ \A n \in 1..Len(s) : s[n] \in ScannedProduct
  OBVIOUS
<1>2. l \in A[0]
  BY <1>1
<1>3. ASSUME NEW n \in 1..Len(s), NEW acc \in A[n-1]
      PROVE  KeepLast(acc, s[n]) \in A[n] /\ KeepFirst(acc, s[n]) \in A[n]
  <2>1. A[n-1] = DistinctLists /\ A[n] = DistinctLists /\ s[n] \in ScannedProduct
    BY <1>1
  <2> HIDE DEF A
  <2> QED  BY <1>3, <2>1, KeepLastIs, KeepFirstIs
<1>4. A[Len(s)] = DistinctLists
  BY <1>1
<1> HIDE DEF A
<1>5. ForEach(KeepLast, l, s) \in A[Len(s)]
  BY <1>1, <1>2, <1>3, LastStays
<1>6. ForEach(KeepFirst, l, s) \in A[Len(s)]
  BY <1>1, <1>2, <1>3, FirstStays
<1> QED  BY <1>4, <1>5, <1>6

\* Covering is of one thing by another, and goes on.
LEMMA CoversOn ==
  /\ \A p : Covers(p, p)
  /\ \A p, q, r : Covers(p, q) /\ Covers(q, r) => Covers(p, r)
BY DEF Covers

\* What a list of products keeps of another: its handles under their names, and, of
\* choosable records, all that they tell.
LEMMA PutHandleIs ==
  ASSUME NEW l \in DistinctLists, NEW p \in ScannedProduct
  PROVE  /\ PutHandle(l, p) \in DistinctLists
         /\ \A j \in DOMAIN PutHandle(l, p) : LET q == PutHandle(l, p)[j] IN
              \/ q.sku = p.sku /\ q.name = p.name
              \/ \E i \in DOMAIN l : q.sku = l[i].sku /\ q.name = l[i].name
         /\ l \in Seq(Choosable) /\ p \in Choosable =>
              /\ PutHandle(l, p) \in Seq(Choosable)
              /\ \E j \in DOMAIN PutHandle(l, p) : Covers(PutHandle(l, p)[j], p)
              /\ \A i \in DOMAIN l : \E j \in DOMAIN PutHandle(l, p) : Covers(PutHandle(l, p)[j], l[i])
<1>0. l \in Seq(ScannedProduct) /\ Len(l) \in Nat /\ DOMAIN l = 1..Len(l)
  BY DEF DistinctLists
<1>1. CASE IndexOf(l, p.sku) = {}
  <2>1. PICK new : new = Append(l, p)
    OBVIOUS
  <2>2. PutHandle(l, p) = new
    BY <1>1, <2>1 DEF PutHandle
  <2>3. /\ DOMAIN new = DOMAIN l \cup {Len(l) + 1}
        /\ new[Len(l) + 1] = p /\ \A i \in DOMAIN l : new[i] = l[i]
    BY <1>0, <2>1
  <2>4. new \in DistinctLists
    BY <1>1, <2>1, Placed
  <2>5. l \in Seq(Choosable) /\ p \in Choosable => new \in Seq(Choosable)
    BY <2>1
  <2> QED  BY <2>2, <2>3, <2>4, <2>5, CoversOn
<1>2. CASE IndexOf(l, p.sku) # {}
  <2>1. PICK m : m = Min(IndexOf(l, p.sku))
    OBVIOUS
  <2>2. m \in DOMAIN l /\ l[m].sku = p.sku /\ l[m] \in ScannedProduct
    <3>1. Min(IndexOf(l, p.sku)) \in DOMAIN l /\ l[Min(IndexOf(l, p.sku))].sku = p.sku
      BY <1>2, Placed
    <3> QED  BY <1>0, <2>1, <3>1
  <2>3. PICK x : x = mergeDuplicateShopifyProduct(l[m], p)
    OBVIOUS
  <2>4. /\ x \in ScannedProduct /\ x.sku = p.sku /\ x.name = l[m].name
        /\ l[m] \in Choosable /\ p \in Choosable => x \in Choosable /\ Covers(x, l[m]) /\ Covers(x, p)
    BY <2>2, <2>3, MergeIs
  <2>5. PICK new : new = [l EXCEPT ![m] = x]
    OBVIOUS
  <2>6. PutHandle(l, p) = new
    BY <1>2, <2>1, <2>3, <2>5 DEF PutHandle
  <2>7. new \in DistinctLists
    BY <1>2, <2>1, <2>4, <2>5, Placed
  <2>8. DOMAIN new = DOMAIN l /\ new[m] = x /\ \A i \in DOMAIN l \ {m} : new[i] = l[i]
    BY <1>0, <2>2, <2>5
  <2>9. ASSUME NEW j \in DOMAIN new
        PROVE  \E i \in DOMAIN l : new[j].sku = l[i].sku /\ new[j].name = l[i].name
    BY <2>2, <2>4, <2>8
  <2>10. ASSUME l \in Seq(Choosable), p \in Choosable
         PROVE  /\ new \in Seq(Choosable)
                /\ \E j \in DOMAIN new : Covers(new[j], p)
                /\ \A i \in DOMAIN l : \E j \in DOMAIN new : Covers(new[j], l[i])
    <3>1. l[m] \in Choosable
      BY <2>2, <2>10
    <3>2. x \in Choosable /\ Covers(x, l[m]) /\ Covers(x, p)
      BY <2>4, <2>10, <3>1
    <3>3. new \in Seq(Choosable)
      BY <2>2, <2>5, <2>10, <3>2
    <3> QED  BY <2>2, <2>8, <3>2, <3>3, CoversOn
  <2> QED  BY <2>6, <2>7, <2>9, <2>10
<1> QED  BY <1>1, <1>2

LEMMA ByHandleIs ==
  ASSUME NEW s \in Seq(ScannedProduct)
  PROVE  /\ ForEach(PutHandle, <<>>, s) \in DistinctLists
         /\ \A j \in DOMAIN ForEach(PutHandle, <<>>, s) : \E i \in DOMAIN s :
              /\ ForEach(PutHandle, <<>>, s)[j].sku = s[i].sku
              /\ ForEach(PutHandle, <<>>, s)[j].name = s[i].name
         /\ s \in Seq(Choosable) =>
              /\ ForEach(PutHandle, <<>>, s) \in Seq(Choosable)
              /\ \A i \in DOMAIN s : \E j \in DOMAIN ForEach(PutHandle, <<>>, s) :
                   Covers(ForEach(PutHandle, <<>>, s)[j], s[i])
<1> DEFINE A == [n \in 0..Len(s) |->
                  {acc \in DistinctLists :
                     /\ \A j \in DOMAIN acc : \E i \in 1..n : acc[j].sku = s[i].sku /\ acc[j].name = s[i].name
                     /\ s \in Seq(Choosable) =>
                          /\ acc \in Seq(Choosable)
                          /\ \A i \in 1..n : \E j \in DOMAIN acc : Covers(acc[j], s[i])}]
<1>0. Len(s) \in Nat /\ DOMAIN s = 1..Len(s)
  OBVIOUS
<1>1. <<>> \in A[0]
  BY <1>0 DEF DistinctLists, Distinct
<1>2. ASSUME NEW n \in 1..Len(s), NEW acc \in A[n-1] PROVE PutHandle(acc, s[n]) \in A[n]
  <2>1. /\ n - 1 \in 0..Len(s) /\ n \in 0..Len(s) /\ s[n] \in ScannedProduct
        /\ \A i \in 1..n : i = n \/ i \in 1..(n-1)
        /\ 1..(n-1) \subseteq 1..n /\ n \in 1..n
    BY <1>0
  <2>2. /\ acc \in DistinctLists
        /\ \A j \in DOMAIN acc : \E i \in 1..(n-1) : acc[j].sku = s[i].sku /\ acc[j].name = s[i].name
        /\ s \in Seq(Choosable) =>
             /\ acc \in Seq(Choosable)
             /\ \A i \in 1..(n-1) : \E j \in DOMAIN acc : Covers(acc[j], s[i])
    BY <1>2, <2>1
  <2>3. PICK new : new = PutHandle(acc, s[n])
    OBVIOUS
  <2>4. /\ new \in DistinctLists
        /\ \A j \in DOMAIN new :
              \/ new[j].sku = s[n].sku /\ new[j].name = s[n].name
              \/ \E i \in DOMAIN acc : new[j].sku = acc[i].sku /\ new[j].name = acc[i].name
        /\ acc \in Seq(Choosable) /\ s[n] \in Choosable =>
              /\ new \in Seq(Choosable)
              /\ \E j \in DOMAIN new : Covers(new[j], s[n])
              /\ \A i \in DOMAIN acc : \E j \in DOMAIN new : Covers(new[j], acc[i])
    BY <2>1, <2>2, <2>3, PutHandleIs
  <2>5. ASSUME NEW j \in DOMAIN new
        PROVE  \E i \in 1..n : new[j].sku = s[i].sku /\ new[j].name = s[i].name
    BY <2>1, <2>2, <2>4
  <2>6. ASSUME s \in Seq(Choosable)
        PROVE  new \in Seq(Choosable) /\ \A i \in 1..n : \E j \in DOMAIN new : Covers(new[j], s[i])
    <3>1. s[n] \in Choosable
      BY <1>0, <2>6
    <3>2. ASSUME NEW i \in 1..n PROVE \E j \in DOMAIN new : Covers(new[j], s[i])
      <4>1. CASE i = n
        BY <2>2, <2>4, <2>6, <3>1, <4>1
      <4>2. CASE i \in 1..(n-1)
        <5>1. PICK j \in DOMAIN acc : Covers(acc[j], s[i])
          BY <2>2, <2>6, <4>2
        <5>2. PICK k \in DOMAIN new : Covers(new[k], acc[j])
          BY <2>2, <2>4, <2>6, <3>1
        <5> QED  BY <5>1, <5>2, CoversOn
      <4> QED  BY <2>1, <4>1, <4>2
    <3> QED  BY <2>2, <2>4, <2>6, <3>1, <3>2
  <2> QED  BY <2>1, <2>3, <2>4, <2>5, <2>6
<1>3. PICK byHandle : byHandle = ForEach(PutHandle, <<>>, s)
  OBVIOUS
<1>4. byHandle \in A[Len(s)]
  <2> HIDE DEF A
  <2> QED  BY <1>0, <1>1, <1>2, <1>3, HandleStays
<1>5. Len(s) \in 0..Len(s)
  BY <1>0
<1>6. /\ byHandle \in DistinctLists
      /\ \A j \in DOMAIN byHandle : \E i \in 1..Len(s) : byHandle[j].sku = s[i].sku /\ byHandle[j].name = s[i].name
      /\ s \in Seq(Choosable) =>
           /\ byHandle \in Seq(Choosable)
           /\ \A i \in 1..Len(s) : \E j \in DOMAIN byHandle : Covers(byHandle[j], s[i])
  BY <1>4, <1>5
<1> QED  BY <1>0, <1>3, <1>6

\* No handle but that of a shadow of another product is lost, and what is kept tells of all.
LEMMA DedupeIs ==
  ASSUME NEW s \in Seq(ScannedProduct)
  PROVE  /\ dedupeShopifyProducts(s) \in DistinctLists
         /\ \A j \in DOMAIN dedupeShopifyProducts(s) : \E i \in DOMAIN s :
              /\ dedupeShopifyProducts(s)[j].sku = s[i].sku
              /\ dedupeShopifyProducts(s)[j].name = s[i].name
         /\ s \in Seq(Choosable) =>
              /\ dedupeShopifyProducts(s) \in Seq(Choosable)
              /\ \A i \in DOMAIN s :
                   \/ \E t \in DOMAIN s : s[t].sku = s[i].sku /\ Shadow(s[t], s)
                   \/ \E j \in DOMAIN dedupeShopifyProducts(s) : Covers(dedupeShopifyProducts(s)[j], s[i])
<1>1. PICK h : h = ForEach(PutHandle, <<>>, s)
  OBVIOUS
<1>2. PICK good : good = {p \in ToSet(h) : ~Shadow(p, h)}
  OBVIOUS
<1>3. PICK kept : kept = Keep(h, good)
  OBVIOUS
<1>4. /\ h \in DistinctLists
      /\ \A j \in DOMAIN h : \E i \in DOMAIN s : h[j].sku = s[i].sku /\ h[j].name = s[i].name
      /\ s \in Seq(Choosable) =>
           h \in Seq(Choosable) /\ \A i \in DOMAIN s : \E j \in DOMAIN h : Covers(h[j], s[i])
  BY <1>1, ByHandleIs
<1>5. kept \in DistinctLists
  BY <1>3, <1>4, KeepDistinct
<1>6. h \in Seq(ScannedProduct) /\ DOMAIN h = 1..Len(h)
  BY <1>4 DEF DistinctLists
<1>7. dedupeShopifyProducts(s) = kept
  BY <1>1, <1>2, <1>3, <1>6 DEF dedupeShopifyProducts, Unshadowed
<1>8. /\ \A i \in DOMAIN h : h[i] \in good => \E j \in DOMAIN kept : kept[j] = h[i]
      /\ \A j \in DOMAIN kept : \E i \in DOMAIN h : kept[j] = h[i]
  <2>1. h \in Seq(ScannedProduct)
    BY <1>6
  <2>2. Holds(Keep(h, good), h, good)
    BY <2>1, KeepIs
  <2>3. \E at : Places(Keep(h, good), h, at)
    BY <2>1, KeepIs
  <2> QED  BY <1>3, <2>2, <2>3 DEF Places, Holds
<1>9. ASSUME NEW j \in DOMAIN kept
      PROVE  \E i \in DOMAIN s : kept[j].sku = s[i].sku /\ kept[j].name = s[i].name
  BY <1>4, <1>8
<1>10. ASSUME s \in Seq(Choosable)
       PROVE  /\ kept \in Seq(Choosable)
              /\ \A i \in DOMAIN s :
                   \/ \E t \in DOMAIN s : s[t].sku = s[i].sku /\ Shadow(s[t], s)
                   \/ \E j \in DOMAIN kept : Covers(kept[j], s[i])
  <2>1. h \in Seq(Choosable)
    BY <1>4, <1>10
  <2>2. kept \in Seq(Choosable \cap good)
    BY <1>3, <2>1, KeepIs
  <2>3. kept \in Seq(Choosable)
    BY <2>2
  <2>4. ASSUME NEW i \in DOMAIN s, \A t \in DOMAIN s : s[t].sku = s[i].sku => ~Shadow(s[t], s)
        PROVE  \E j \in DOMAIN kept : Covers(kept[j], s[i])
    <3>1. PICK j \in DOMAIN h : Covers(h[j], s[i])
      BY <1>4, <1>10
    <3>2. PICK t \in DOMAIN s : h[j].sku = s[t].sku /\ h[j].name = s[t].name
      BY <1>4
    <3>3. s[t].sku = s[i].sku
      BY <3>1, <3>2 DEF Covers
    <3>4. ~Shadow(h[j], h)
      <4>1. SUFFICES ASSUME Shadow(h[j], h) PROVE FALSE
        OBVIOUS
      <4>2. PICK k \in DOMAIN h : h[k].sku = BaseHandle[h[j].sku] /\ h[k].sku # h[j].sku /\ h[k].name = h[j].name
        BY <4>1 DEF Shadow, ToSet
      <4>3. PICK u \in DOMAIN s : h[k].sku = s[u].sku /\ h[k].name = s[u].name
        BY <1>4
      <4>4. s[u].sku = BaseHandle[s[t].sku] /\ s[u].sku # s[t].sku /\ s[u].name = s[t].name
        BY <3>2, <4>2, <4>3
      <4>5. Shadow(s[t], s)
        BY <4>4 DEF Shadow, ToSet
      <4> QED  BY <2>4, <3>3, <4>5
    <3>5. h[j] \in good
      BY <1>2, <3>4 DEF ToSet
    <3> QED  BY <1>8, <3>1, <3>5
  <2> QED  BY <2>3, <2>4
<1> QED  BY <1>7, <1>5, <1>9, <1>10

-----------------------------------------------------------------------------
(* What the pages hold.                                                    *)

LEMMA ExtractedProducts ==
  ASSUME NEW nodes \in Seq(JsonNode), NEW base \in Place
  PROVE  extractProducts(nodes, base) \in Seq(ScannedProduct)
<1>1. PICK good : good = {n \in ToSet(nodes) : n.name # Absent /\ n.price # Absent}
  OBVIOUS
<1>2. PICK usable : usable = Keep(nodes, good)
  OBVIOUS
<1>3. usable \in Seq(JsonNode \cap good)
  BY <1>2, KeepIs
<1>4. ASSUME NEW i \in DOMAIN usable PROVE buildProduct(usable[i], base) \in ScannedProduct
  <2>1. PICK node : node = usable[i]
    OBVIOUS
  <2>2. node \in JsonNode /\ node.price # Absent /\ node.name # Absent
    BY <1>1, <1>3, <2>1
  <2>3. node.price \in Nat /\ node.stock \in BOOLEAN
    BY <2>2, CatalogueAssumption
  <2>4. (node.sku # Absent => node.sku \in Sku) /\ base.path \in Sku /\ node.name \in Name
    BY <2>2 DEF Sku, Name, Place
  <2>5. <<>> \in Seq(ScannedVariant)
    OBVIOUS
  <2> QED  BY <2>1, <2>3, <2>4, <2>5 DEF buildProduct, ScannedProduct
<1>5. Len(usable) \in Nat /\ DOMAIN usable = 1..Len(usable)
  BY <1>3
<1>6. extractProducts(nodes, base) = [i \in DOMAIN usable |-> buildProduct(usable[i], base)]
  BY <1>1, <1>2 DEF extractProducts
<1> QED  BY <1>4, <1>5, <1>6

RawVariant == [id : VariantId, price : Nat \cup {Absent}, stock : BOOLEAN]

LEMMA BuiltVariants ==
  ASSUME NEW r \in FeedRecord
  PROVE  buildScannedVariants(r.variants) \in Offers
<1>1. PICK vs : vs = r.variants
  OBVIOUS
<1>2. vs \in Seq(RawVariant)
  BY <1>1, CatalogueAssumption DEF RawVariant
<1>3. PICK good : good = {v \in ToSet(vs) : v.id # Absent /\ v.price # Absent}
  OBVIOUS
<1>4. PICK usable : usable = Keep(vs, good)
  OBVIOUS
<1>5. usable \in Seq(RawVariant \cap good) /\ \E at : Places(usable, vs, at)
  BY <1>2, <1>4, KeepIs
<1>6. PICK at : Places(usable, vs, at)
  BY <1>5
<1>7. ASSUME NEW i \in DOMAIN usable, NEW j \in DOMAIN usable, usable[i].id = usable[j].id PROVE i = j
  <2>1. at[i] \in DOMAIN vs /\ at[j] \in DOMAIN vs /\ usable[i] = vs[at[i]] /\ usable[j] = vs[at[j]]
    BY <1>6 DEF Places
  <2>2. usable[i].id # Absent
    BY <1>3, <1>5
  <2>3. at[i] = at[j]
    BY <1>1, <1>7, <2>1, <2>2, VariantAssumption
  <2> QED  BY <1>6, <2>3 DEF Places
<1>8. RawVariant \cap good \subseteq ScannedVariant
  BY <1>3 DEF RawVariant, ScannedVariant
<1>9. usable \in Seq(ScannedVariant)
  BY <1>5, <1>8
<1>10. usable \in UniqueIds
  BY <1>7, <1>9 DEF UniqueIds
<1>11. <<>> \in Offers
  BY DEF Offers, UniqueIds
<1>12. Len(usable) > 1 => usable \in Offers
  <2>1. PICK k \in Nat : k = Len(usable)
    BY <1>9
  <2>2. k > 1 => k # 1
    OBVIOUS
  <2> QED  BY <1>10, <2>1, <2>2 DEF Offers
<1>13. buildScannedVariants(r.variants) = IF Len(usable) > 1 THEN usable ELSE <<>>
  BY <1>1, <1>3, <1>4 DEF buildScannedVariants
<1> QED  BY <1>11, <1>12, <1>13

LEMMA ScannedPages ==
  ASSUME NEW page \in Seq(FeedRecord)
  PROVE  Scanned(page) \in Seq(Choosable)
<1>1. PICK good : good = {raw \in ToSet(page) : Sellable(raw)}
  OBVIOUS
<1>2. PICK usable : usable = Keep(page, good)
  OBVIOUS
<1>3. usable \in Seq(FeedRecord \cap good)
  BY <1>2, KeepIs
<1> DEFINE Of(raw) == [sku |-> raw.sku, name |-> raw.name, price |-> raw.variants[1].price,
                       stock |-> raw.variants[1].stock, variants |-> buildScannedVariants(raw.variants)]
<1>4. ASSUME NEW raw \in FeedRecord, Sellable(raw) PROVE Of(raw) \in Choosable
  <2>1. raw.variants \in Seq(RawVariant) /\ raw.variants # <<>> /\ raw.variants[1].price # Absent
    BY <1>4, CatalogueAssumption DEF Sellable, RawVariant
  <2>2. PICK vs \in Seq(RawVariant) : vs = raw.variants
    BY <2>1
  <2>3. vs[1] \in RawVariant
    BY <2>1, <2>2
  <2>4. raw.variants[1].price \in Nat /\ raw.variants[1].stock \in BOOLEAN
    BY <2>1, <2>2, <2>3 DEF RawVariant
  <2>5. raw.sku \in Sku /\ raw.name \in Name
    BY <1>4 DEF Sku, Name, Sellable
  <2>6. PICK c : c = buildScannedVariants(raw.variants)
    OBVIOUS
  <2>7. c \in Offers /\ c \in Seq(ScannedVariant)
    BY <2>6, BuiltVariants DEF Offers, UniqueIds
  <2> QED  BY <2>4, <2>5, <2>6, <2>7 DEF Choosable, ScannedProduct
<1>5. Len(usable) \in Nat /\ DOMAIN usable = 1..Len(usable)
  BY <1>3
<1>6. Scanned(page) = [i \in DOMAIN usable |-> Of(usable[i])]
  BY <1>1, <1>2 DEF Scanned
<1> HIDE DEF Of
<1>7. \A i \in DOMAIN usable : Of(usable[i]) \in Choosable
  BY <1>1, <1>3, <1>4
<1> QED  BY <1>5, <1>6, <1>7

LEMMA ChoosableProducts ==
  Seq(Choosable) \subseteq Seq(ScannedProduct)
BY DEF Choosable

\* A page of the feed, deduplicated.
LEMMA ExtractedPages ==
  ASSUME NEW page \in Seq(FeedRecord)
  PROVE  /\ extractShopifyProducts(page) \in DistinctLists
         /\ extractShopifyProducts(page) \in Seq(Choosable)
<1>1. PICK records : records = Scanned(page)
  OBVIOUS
<1>2. records \in Seq(Choosable) /\ records \in Seq(ScannedProduct)
  BY <1>1, ScannedPages, ChoosableProducts
<1> QED  BY <1>1, <1>2, DedupeIs DEF extractShopifyProducts

\* The links of a page lead to places.
LEMMA ExtractedLinks ==
  ASSUME NEW hrefs \in Seq(Place), NEW base
  PROVE  extractLinks(hrefs, base) \in Seq(Place)
<1> DEFINE A == [n \in 0..Len(hrefs) |-> Seq(Place)]
<1>1. Len(hrefs) \in Nat /\ Len(hrefs) \in 0..Len(hrefs) /\ <<>> \in A[0]
  OBVIOUS
<1>2. ASSUME NEW n \in 1..Len(hrefs), NEW acc \in A[n-1] PROVE Follow(base, acc, hrefs[n]) \in A[n]
  <2>1. hrefs[n] \in Place /\ acc \in Seq(Place) /\ A[n] = Seq(Place)
    BY <1>2
  <2> HIDE DEF A
  <2>2. Follow(base, acc, hrefs[n]) \in Seq(Place)
    BY <2>1 DEF Follow
  <2> QED  BY <2>1, <2>2
<1>3. A[Len(hrefs)] = Seq(Place)
  BY <1>1
<1>4. extractLinks(hrefs, base) \in A[Len(hrefs)]
  <2> HIDE DEF A
  <2> QED  BY <1>1, <1>2, FollowStays
<1> QED  BY <1>3, <1>4

LEMMA FirstLinks ==
  ASSUME NEW links \in Seq(Place), NEW n \in Nat
  PROVE  First(n, links) \in Seq(Place)
BY DEF First

-----------------------------------------------------------------------------
(* What a scan keeps of the records it heard of.                           *)

\* A record is of a shadow's handle.
OfShadow(heard, i) == \E t \in DOMAIN heard : heard[t].sku = heard[i].sku /\ Shadow(heard[t], heard)

\* Every record is told of, but for the shadows' ...
Told(got, heard) ==
  \A i \in DOMAIN heard : OfShadow(heard, i) \/ \E j \in DOMAIN got : Covers(got[j], heard[i])

\* ... and every product is one that was heard of.
Named(got, heard) ==
  \A j \in DOMAIN got : \E i \in DOMAIN heard : got[j].sku = heard[i].sku /\ got[j].name = heard[i].name

LEMMA DedupeTells ==
  ASSUME NEW s \in Seq(Choosable)
  PROVE  Told(dedupeShopifyProducts(s), s) /\ Named(dedupeShopifyProducts(s), s)
<1>1. s \in Seq(ScannedProduct)
  BY ChoosableProducts
<1>2. PICK d : d = dedupeShopifyProducts(s)
  OBVIOUS
<1>3. /\ \A j \in DOMAIN d : \E i \in DOMAIN s : d[j].sku = s[i].sku /\ d[j].name = s[i].name
      /\ \A i \in DOMAIN s :
           \/ \E t \in DOMAIN s : s[t].sku = s[i].sku /\ Shadow(s[t], s)
           \/ \E j \in DOMAIN d : Covers(d[j], s[i])
  BY <1>1, <1>2, DedupeIs
<1> QED  BY <1>2, <1>3 DEF Told, Named, OfShadow

\* Telling is of lists joined as of lists apart.
LEMMA JoinedTells ==
  ASSUME NEW got \in Seq(Choosable), NEW heard \in Seq(Choosable),
         NEW more \in Seq(Choosable), NEW records \in Seq(Choosable),
         Told(got, heard), Named(got, heard), Told(more, records), Named(more, records)
  PROVE  Told(got \o more, heard \o records) /\ Named(got \o more, heard \o records)
<1>1. PICK g : g = got \o more
  OBVIOUS
<1>2. PICK h : h = heard \o records
  OBVIOUS
<1>3. PICK m, n \in Nat : m = Len(got) /\ n = Len(heard)
  OBVIOUS
<1>4. /\ \A j \in DOMAIN got : j \in DOMAIN g /\ g[j] = got[j]
      /\ \A j \in DOMAIN more : m + j \in DOMAIN g /\ g[m + j] = more[j]
      /\ \A j \in DOMAIN g : j \in DOMAIN got \/ (j - m \in DOMAIN more /\ g[j] = more[j - m])
  BY <1>1, <1>3
<1>5. /\ \A i \in DOMAIN heard : i \in DOMAIN h /\ h[i] = heard[i]
      /\ \A i \in DOMAIN records : n + i \in DOMAIN h /\ h[n + i] = records[i]
      /\ \A i \in DOMAIN h : i \in DOMAIN heard \/ (i - n \in DOMAIN records /\ h[i] = records[i - n])
  BY <1>2, <1>3
<1>6. ASSUME NEW p PROVE Shadow(p, heard) \/ Shadow(p, records) => Shadow(p, h)
  <2>1. ToSet(heard) \subseteq ToSet(h) /\ ToSet(records) \subseteq ToSet(h)
    BY <1>5 DEF ToSet
  <2> QED  BY <2>1 DEF Shadow
<1>7. ASSUME NEW i \in DOMAIN h PROVE OfShadow(h, i) \/ \E j \in DOMAIN g : Covers(g[j], h[i])
  <2>1. CASE i \in DOMAIN heard
    <3>1. h[i] = heard[i]
      BY <1>5, <2>1
    <3>2. CASE OfShadow(heard, i)
      <4>1. PICK t \in DOMAIN heard : heard[t].sku = heard[i].sku /\ Shadow(heard[t], heard)
        BY <3>2 DEF OfShadow
      <4> QED  BY <1>5, <1>6, <3>1, <4>1 DEF OfShadow
    <3>3. CASE \E j \in DOMAIN got : Covers(got[j], heard[i])
      BY <1>4, <3>1, <3>3
    <3> QED  BY <2>1, <3>2, <3>3 DEF Told
  <2>2. CASE i - n \in DOMAIN records /\ h[i] = records[i - n]
    <3>1. PICK k \in DOMAIN records : k = i - n /\ h[i] = records[k]
      BY <2>2
    <3>2. CASE OfShadow(records, k)
      <4>1. PICK t \in DOMAIN records : records[t].sku = records[k].sku /\ Shadow(records[t], records)
        BY <3>2 DEF OfShadow
      <4>2. n + t \in DOMAIN h /\ h[n + t] = records[t]
        BY <1>5
      <4> QED  BY <1>6, <3>1, <4>1, <4>2 DEF OfShadow
    <3>3. CASE \E j \in DOMAIN more : Covers(more[j], records[k])
      BY <1>4, <3>1, <3>3
    <3> QED  BY <3>2, <3>3 DEF Told
  <2> QED  BY <1>5, <2>1, <2>2
<1>8. ASSUME NEW j \in DOMAIN g
      PROVE  \E i \in DOMAIN h : g[j].sku = h[i].sku /\ g[j].name = h[i].name
  <2>1. CASE j \in DOMAIN got
    <3>1. PICK i \in DOMAIN heard : got[j].sku = heard[i].sku /\ got[j].name = heard[i].name
      BY <2>1 DEF Named
    <3>2. g[j] = got[j] /\ i \in DOMAIN h /\ h[i] = heard[i]
      BY <1>4, <1>5, <2>1
    <3> QED  BY <3>1, <3>2
  <2>2. CASE j - m \in DOMAIN more /\ g[j] = more[j - m]
    <3>1. PICK i \in DOMAIN records : g[j].sku = records[i].sku /\ g[j].name = records[i].name
      BY <2>2 DEF Named
    <3>2. PICK k \in DOMAIN h : h[k] = records[i]
      BY <1>5
    <3> QED  BY <3>1, <3>2
  <2> QED  BY <1>4, <2>1, <2>2
<1> QED  BY <1>1, <1>2, <1>7, <1>8 DEF Told, Named

\* What tells of a list tells of what the list tells of.
LEMMA TellsOn ==
  ASSUME NEW d, NEW got, NEW heard, Told(d, got), Told(got, heard), Named(got, heard)
  PROVE  Told(d, heard)
<1> SUFFICES ASSUME NEW i \in DOMAIN heard, ~OfShadow(heard, i)
             PROVE  \E k \in DOMAIN d : Covers(d[k], heard[i])
  BY DEF Told
<1>1. PICK j \in DOMAIN got : Covers(got[j], heard[i])
  BY DEF Told
<1>2. ~OfShadow(got, j)
  <2>1. SUFFICES ASSUME OfShadow(got, j) PROVE FALSE
    OBVIOUS
  <2>2. PICK t \in DOMAIN got : got[t].sku = got[j].sku /\ Shadow(got[t], got)
    BY <2>1 DEF OfShadow
  <2>3. PICK k \in DOMAIN got : got[k].sku = BaseHandle[got[t].sku] /\ got[k].sku # got[t].sku
                              /\ got[k].name = got[t].name
    BY <2>2 DEF Shadow, ToSet
  <2>4. PICK u \in DOMAIN heard : got[t].sku = heard[u].sku /\ got[t].name = heard[u].name
    BY DEF Named
  <2>5. PICK v \in DOMAIN heard : got[k].sku = heard[v].sku /\ got[k].name = heard[v].name
    BY DEF Named
  <2>6. Shadow(heard[u], heard)
    BY <2>3, <2>4, <2>5 DEF Shadow, ToSet
  <2>7. heard[u].sku = heard[i].sku
    BY <1>1, <2>2, <2>4 DEF Covers
  <2> QED  BY <2>6, <2>7 DEF OfShadow
<1>3. PICK k \in DOMAIN d : Covers(d[k], got[j])
  BY <1>2 DEF Told
<1> QED  BY <1>1, <1>3, CoversOn

LEMMA DistinctCount ==
  ASSUME NEW l \in DistinctLists
  PROVE  Cardinality(ToSet(l)) = Len(l)
<1>1. PICK n \in Nat : n = Len(l) /\ DOMAIN l = 1..n
  BY DEF DistinctLists
<1>2. l \in Bijection(1..n, ToSet(l))
  BY <1>1 DEF DistinctLists, Distinct, Bijection, Injection, Surjection, IsInjective, ToSet
<1>3. ExistsBijection(1..n, ToSet(l))
  BY <1>2 DEF ExistsBijection
<1> QED  BY <1>1, <1>3, FS_CountingElements

\* What StockKept asks of a scan's end: all is told of short of the cap.
KeptOf(got, heard) == Cardinality(ToSet(got)) = maxProducts \/ Told(got, heard)

LEMMA CapKeeps ==
  ASSUME NEW d \in DistinctLists, NEW heard, Told(d, heard)
  PROVE  KeptOf(First(maxProducts, d), heard)
<1>0. maxProducts \in Nat /\ Len(d) \in Nat /\ d \in Seq(ScannedProduct)
  BY CatalogueAssumption DEF DistinctLists
<1>1. CASE Len(d) > maxProducts
  <2>1. PICK e : e = First(maxProducts, d)
    OBVIOUS
  <2>2. e = SubSeq(d, 1, maxProducts)
    BY <1>1, <2>1 DEF First
  <2>3. Len(e) = maxProducts
    BY <1>0, <1>1, <2>2
  <2>4. e \in DistinctLists
    BY <1>0, <2>1, FirstDistinct
  <2> QED  BY <2>1, <2>3, <2>4, DistinctCount DEF KeptOf
<1>2. CASE ~(Len(d) > maxProducts)
  BY <1>2 DEF First, KeptOf
<1> QED  BY <1>1, <1>2

-----------------------------------------------------------------------------
(* Scans.                                                                  *)

Resting == {Idle, Ended("done"), Ended("failed")}

Stages == {"home", "links", "feed", "scanned", "browser", "browsed", "registering"}

Running ==
  [at : Stages, by : {"onboard", "init"}, register : BOOLEAN, host : Host, site : Site,
   links : Seq(Place), feed : Nat, page : Nat,
   got : Seq(ScannedProduct), heard : Seq(ScannedProduct)]

\* A scan's products are of one sku each, but for the pages of a feed still being read;
\* it is at the links while there are some; and of the feed it keeps what it heard.
Fit(q) ==
  /\ q.at # "feed" => Distinct(q.got)
  /\ q.at = "links" => q.links # <<>>
  /\ q.at \in {"home", "links"} => q.heard = <<>>
  /\ q.at = "feed" => /\ q.got \in Seq(Choosable) /\ q.heard \in Seq(Choosable)
                      /\ Told(q.got, q.heard) /\ Named(q.got, q.heard)
  /\ q.at = "scanned" => KeptOf(q.got, q.heard)
ScanOK(q) == q \in Resting \/ (q \in Running /\ Fit(q))

Scans == DOMAIN scan = Scan /\ \A s \in Scan : ScanOK(scan[s])

LEMMA ScanAt ==
  ASSUME Scans, NEW s \in Scan, scan[s].at \in Stages
  PROVE  /\ scan[s] \in Running /\ (scan[s].at # "feed" => scan[s].got \in DistinctLists)
         /\ Fit(scan[s])
<1>1. PICK q : q = scan[s]
  OBVIOUS
<1>2. q \notin Resting
  BY <1>1 DEF Resting, Idle, Ended, Stages
<1>3. q \in Running /\ Fit(q)
  BY <1>1, <1>2 DEF Scans, ScanOK
<1>4. q.got \in Seq(ScannedProduct)
  BY <1>3 DEF Running
<1> QED  BY <1>1, <1>3, <1>4 DEF DistinctLists, Fit

\* A scan changed to one that is as it should be.
LEMMA ScanStep ==
  ASSUME Scans, NEW s \in Scan, NEW x, ScanOK(x), scan' = [scan EXCEPT ![s] = x]
  PROVE  Scans'
BY DEF Scans

LEMMA NoProducts ==
  /\ <<>> \in Seq(ScannedProduct) /\ <<>> \in Seq(Choosable) /\ Distinct(<<>>)
  /\ <<>> \in Seq(Place) /\ <<>> \in DistinctLists
  /\ Named(<<>>, <<>>) /\ \A got : Told(got, <<>>) /\ KeptOf(got, <<>>)
BY DEF Distinct, DistinctLists, Named, Told, KeptOf

LEMMA OnwardIs ==
  ASSUME NEW q \in Running, Distinct(q.got), q.heard = <<>>
  PROVE  /\ ScanOK(Onward(q)) /\ Onward(q) \in Running
         /\ Onward(q).at = "feed" => q.got = <<>>
         /\ Onward(q).got = q.got /\ Onward(q).heard = q.heard
         /\ Onward(q).at \in {"links", "feed", "scanned"}
<1>1. PICK w \in {"links", "feed", "scanned"} :
        /\ w = IF q.links # <<>> THEN "links" ELSE IF q.got = <<>> THEN "feed" ELSE "scanned"
        /\ w = "feed" => q.got = <<>>
        /\ w = "links" => q.links # <<>>
  OBVIOUS
<1>2. Onward(q) = [q EXCEPT !.at = w]
  BY <1>1 DEF Onward
<1>3. [q EXCEPT !.at = w] \in Running /\ [q EXCEPT !.at = w].at = w
      /\ [q EXCEPT !.at = w].got = q.got /\ [q EXCEPT !.at = w].heard = q.heard
      /\ [q EXCEPT !.at = w].links = q.links
  BY DEF Running, Stages
<1> QED  BY <1>1, <1>2, <1>3, NoProducts DEF ScanOK, Fit

LEMMA FetchHomeScans ==
  ASSUME Scans, NEW s \in Scan, FetchHome(s)
  PROVE  Scans'
<1>1. scan[s] \in Running /\ scan[s].got \in DistinctLists /\ scan[s].heard = <<>>
  BY ScanAt DEF FetchHome, At, Stages, Fit
<1>2. PICK q : q = scan[s]
  OBVIOUS
<1>3. q \in Running /\ Distinct(q.got) /\ q.heard = <<>>
  BY <1>1, <1>2 DEF DistinctLists
<1>4. CASE scan' = [scan EXCEPT ![s].at = "scanned"]
  <2>1. PICK x : x = [q EXCEPT !.at = "scanned"]
    OBVIOUS
  <2>2. x \in Running /\ x.got = q.got /\ x.at = "scanned" /\ x.heard = <<>>
    BY <1>3, <2>1 DEF Running, Stages
  <2>3. scan' = [scan EXCEPT ![s] = x]
    BY <1>2, <1>4, <2>1
  <2> QED  BY <1>3, <2>2, <2>3, ScanStep, NoProducts DEF ScanOK, Fit
<1>5. ASSUME NEW answer \in HomePage,
             scan' = [scan EXCEPT ![s] = Onward(
                 [@ EXCEPT !.host = MerchantOf[Last(answer.hops).site],
                           !.got = ForEach(KeepLast, <<>>, extractProducts(answer.nodes, Last(answer.hops))),
                           !.links = First(maxProductPages, extractLinks(answer.hrefs, Last(answer.hops)))])]
      PROVE Scans'
  <2>1. answer.nodes \in Seq(JsonNode) /\ answer.hops \in Seq(Place) /\ answer.hrefs \in Seq(Place)
        /\ answer.hops # <<>>
    BY CatalogueAssumption
  <2>2. PICK hops \in Seq(Place) : hops = answer.hops /\ hops # <<>>
    BY <2>1
  <2>3. PICK base : base = Last(hops)
    OBVIOUS
  <2>4. base \in Place
    BY <2>2, <2>3 DEF Last
  <2>5. PICK got : got = ForEach(KeepLast, <<>>, extractProducts(answer.nodes, base))
    OBVIOUS
  <2>6. got \in DistinctLists
    <3>1. PICK ps : ps = extractProducts(answer.nodes, base)
      OBVIOUS
    <3>2. ps \in Seq(ScannedProduct)
      BY <2>1, <2>4, <3>1, ExtractedProducts
    <3> QED  BY <2>5, <3>1, <3>2, NoProducts, LoopsKeepDistinct
  <2>7. PICK links : links = First(maxProductPages, extractLinks(answer.hrefs, base))
    OBVIOUS
  <2>8. links \in Seq(Place)
    <3>1. PICK ls : ls = extractLinks(answer.hrefs, base)
      OBVIOUS
    <3>2. ls \in Seq(Place)
      BY <2>1, <3>1, ExtractedLinks
    <3>3. maxProductPages \in Nat
      BY CatalogueAssumption
    <3> QED  BY <2>7, <3>1, <3>2, <3>3, FirstLinks
  <2>9. PICK host \in Host : host = MerchantOf[base.site]
    BY <2>4, CatalogueAssumption DEF Place
  <2>10. PICK x : x = [q EXCEPT !.host = host, !.got = got, !.links = links]
    OBVIOUS
  <2>11. x \in Running /\ x.got = got /\ x.heard = <<>>
    BY <1>3, <2>6, <2>8, <2>10 DEF Running, DistinctLists
  <2>12. scan' = [scan EXCEPT ![s] = Onward(x)]
    BY <1>2, <1>5, <2>2, <2>3, <2>5, <2>7, <2>9, <2>10
  <2>13. ScanOK(Onward(x))
    BY <2>6, <2>11, OnwardIs DEF DistinctLists
  <2> QED  BY <2>12, <2>13, ScanStep
<1> QED  BY <1>4, <1>5 DEF FetchHome

LEMMA FetchLinkScans ==
  ASSUME Scans, NEW s \in Scan, FetchLink(s)
  PROVE  Scans'
<1>1. scan[s] \in Running /\ scan[s].got \in DistinctLists /\ scan[s].links # <<>>
      /\ scan[s].heard = <<>>
  BY ScanAt DEF FetchLink, At, Stages, Fit
<1>2. PICK q : q = scan[s]
  OBVIOUS
<1>3. q \in Running /\ q.got \in DistinctLists /\ q.heard = <<>>
  BY <1>1, <1>2
<1>4. PICK answer \in LinkPage \cup {Failed} :
        scan' = [scan EXCEPT ![s] = Onward(
          [q EXCEPT !.links = Tail(@), !.got = ForEach(KeepFirst, @,
             IF answer = Failed THEN <<>> ELSE extractProducts(answer, Head(q.links)))])]
  BY <1>2 DEF FetchLink
<1>5. PICK links \in Seq(Place) : links = q.links /\ links # <<>>
  BY <1>1, <1>2, <1>3 DEF Running
<1>6. Head(links) \in Place /\ Tail(links) \in Seq(Place)
  BY <1>5
<1>7. PICK found : found = IF answer = Failed THEN <<>> ELSE extractProducts(answer, Head(q.links))
  OBVIOUS
<1>8. found \in Seq(ScannedProduct)
  <2>1. CASE answer = Failed
    BY <1>7, <2>1, NoProducts
  <2>2. CASE answer # Failed
    <3>1. answer \in Seq(JsonNode)
      BY <1>4, <2>2, CatalogueAssumption
    <3> QED  BY <1>5, <1>6, <1>7, <2>2, <3>1, ExtractedProducts
  <2> QED  BY <2>1, <2>2
<1>9. PICK got : got = ForEach(KeepFirst, q.got, found)
  OBVIOUS
<1>10. got \in DistinctLists
  <2>1. PICK l \in DistinctLists : l = q.got
    BY <1>3
  <2> QED  BY <1>8, <1>9, <2>1, LoopsKeepDistinct
<1>11. PICK x : x = [q EXCEPT !.links = Tail(links), !.got = got]
  OBVIOUS
<1>12. x \in Running /\ x.got = got /\ x.heard = <<>>
  BY <1>3, <1>6, <1>10, <1>11 DEF Running, DistinctLists
<1>13. scan' = [scan EXCEPT ![s] = Onward(x)]
  BY <1>4, <1>5, <1>7, <1>9, <1>11
<1>14. ScanOK(Onward(x))
  BY <1>10, <1>12, OnwardIs DEF DistinctLists
<1> QED  BY <1>13, <1>14, ScanStep

\* A page of a feed or of the browser, whatever it held: more of this path, the other, or an end.
LEMMA TurnIs ==
  ASSUME NEW q \in Running, q.at \in {"feed", "browser"}, NEW answer,
         NEW collected \in Seq(ScannedProduct), q.at = "browser" => Distinct(collected),
         NEW result \in DistinctLists, NEW heard \in Seq(ScannedProduct),
         q.at = "feed" => /\ collected \in Seq(Choosable) /\ heard \in Seq(Choosable)
                          /\ Told(collected, heard) /\ Named(collected, heard)
                          /\ KeptOf(result, heard)
  PROVE  ScanOK(Turn(q, answer, collected, result, heard))
<1>1. PICK x : x = Turn(q, answer, collected, result, heard)
  OBVIOUS
<1>2. CASE ~LastPage(q, answer, collected)
  <2>0. PICK n \in Nat : n = q.page + 1
    BY DEF Running
  <2>1. x = [q EXCEPT !.page = n, !.got = collected, !.heard = heard]
    BY <1>1, <1>2, <2>0 DEF Turn
  <2>2. x \in Running /\ x.at = q.at /\ x.got = collected /\ x.heard = heard
    BY <2>1 DEF Running
  <2> QED  BY <1>1, <2>2 DEF ScanOK, Fit
<1>3. CASE LastPage(q, answer, collected) /\ result = <<>> /\ q.feed < Feeds
  <2>0. PICK n \in Nat : n = q.feed + 1
    BY DEF Running
  <2>1. x = [q EXCEPT !.feed = n, !.page = 1, !.got = <<>>, !.heard = <<>>]
    BY <1>1, <1>3, <2>0 DEF Turn
  <2>2. x \in Running /\ x.at = q.at /\ x.got = <<>> /\ x.heard = <<>>
    BY <2>1, NoProducts DEF Running
  <2> QED  BY <1>1, <2>2, NoProducts DEF ScanOK, Fit
<1>4. CASE LastPage(q, answer, collected) /\ ~(result = <<>> /\ q.feed < Feeds)
  <2>1. PICK w \in {"scanned", "browsed"} : w = IF q.at = "feed" THEN "scanned" ELSE "browsed"
    OBVIOUS
  <2>2. x = [q EXCEPT !.at = w, !.got = result, !.heard = heard]
    BY <1>1, <1>4, <2>1 DEF Turn
  <2>3. x \in Running /\ x.at = w /\ x.got = result /\ x.heard = heard /\ Distinct(result)
    BY <2>2 DEF Running, Stages, DistinctLists
  <2> QED  BY <1>1, <2>1, <2>3 DEF ScanOK, Fit
<1> QED  BY <1>2, <1>3, <1>4

LEMMA FetchFeedScans ==
  ASSUME Scans, NEW s \in Scan, FetchFeed(s)
  PROVE  Scans'
<1>1. PICK q : q = scan[s]
  OBVIOUS
<1>2. q \in Running /\ q.at = "feed" /\ Fit(q)
  BY <1>1, ScanAt DEF FetchFeed, At, Stages
<1>3. /\ q.got \in Seq(Choosable) /\ q.heard \in Seq(Choosable)
      /\ Told(q.got, q.heard) /\ Named(q.got, q.heard)
  BY <1>2 DEF Fit
<1>4. PICK answer \in FeedPage \cup {Failed} :
        LET collected == IF answer = Failed THEN q.got ELSE q.got \o extractShopifyProducts(answer)
            heard == IF answer = Failed THEN q.heard ELSE q.heard \o Scanned(answer)
            result == First(maxProducts, dedupeShopifyProducts(collected))
        IN scan' = [scan EXCEPT ![s] = Turn(q, answer, collected, result, heard)]
  BY <1>1 DEF FetchFeed
<1>5. PICK collected : collected = IF answer = Failed THEN q.got ELSE q.got \o extractShopifyProducts(answer)
  OBVIOUS
<1>6. PICK heard : heard = IF answer = Failed THEN q.heard ELSE q.heard \o Scanned(answer)
  OBVIOUS
<1>7. PICK result : result = First(maxProducts, dedupeShopifyProducts(collected))
  OBVIOUS
<1>8. scan' = [scan EXCEPT ![s] = Turn(q, answer, collected, result, heard)]
  BY <1>4, <1>5, <1>6, <1>7
<1>9. /\ collected \in Seq(Choosable) /\ heard \in Seq(Choosable)
      /\ Told(collected, heard) /\ Named(collected, heard)
  <2>1. CASE answer = Failed
    BY <1>3, <1>5, <1>6, <2>1
  <2>2. CASE answer # Failed
    <3>1. answer \in Seq(FeedRecord)
      BY <2>2, CatalogueAssumption
    <3>2. PICK rs : rs = Scanned(answer)
      OBVIOUS
    <3>3. PICK ps : ps = extractShopifyProducts(answer)
      OBVIOUS
    <3>4. rs \in Seq(Choosable) /\ ps \in Seq(Choosable)
      BY <3>1, <3>2, <3>3, ExtractedPages, ScannedPages
    <3>5. ps = dedupeShopifyProducts(rs)
      BY <3>2, <3>3 DEF extractShopifyProducts
    <3>6. Told(ps, rs) /\ Named(ps, rs)
      BY <3>4, <3>5, DedupeTells
    <3>7. PICK g \in Seq(Choosable), h \in Seq(Choosable) : g = q.got /\ h = q.heard
      BY <1>3
    <3>8. Told(g \o ps, h \o rs) /\ Named(g \o ps, h \o rs)
      BY <1>3, <3>4, <3>6, <3>7, JoinedTells
    <3> QED  BY <1>5, <1>6, <2>2, <3>2, <3>3, <3>4, <3>7, <3>8
  <2> QED  BY <2>1, <2>2
<1>10. result \in DistinctLists /\ KeptOf(result, heard)
  <2>1. PICK d : d = dedupeShopifyProducts(collected)
    OBVIOUS
  <2>2. d \in DistinctLists
    BY <1>9, <2>1, DedupeIs, ChoosableProducts
  <2>3. Told(d, heard)
    BY <1>9, <2>1, DedupeTells, TellsOn
  <2>4. maxProducts \in Nat
    BY CatalogueAssumption
  <2> QED  BY <1>7, <2>1, <2>2, <2>3, <2>4, FirstDistinct, CapKeeps
<1>11. ScanOK(Turn(q, answer, collected, result, heard))
  BY <1>2, <1>9, <1>10, TurnIs, ChoosableProducts
<1> QED  BY <1>8, <1>11, ScanStep

LEMMA FetchBrowserScans ==
  ASSUME Scans, NEW s \in Scan, FetchBrowser(s)
  PROVE  Scans'
<1>1. PICK q : q = scan[s]
  OBVIOUS
<1>2. q \in Running /\ q.at = "browser" /\ q.got \in DistinctLists
  BY <1>1, ScanAt DEF FetchBrowser, At, Stages
<1>3. PICK answer \in FeedPage \cup {Failed} :
        LET collected == IF answer = Failed THEN q.got
                         ELSE ForEach(KeepFirst, q.got, extractShopifyProducts(answer))
        IN scan' = [scan EXCEPT ![s] = Turn(q, answer, collected, First(maxProducts, collected), <<>>)]
  BY <1>1 DEF FetchBrowser
<1>4. PICK collected : collected = IF answer = Failed THEN q.got
                                   ELSE ForEach(KeepFirst, q.got, extractShopifyProducts(answer))
  OBVIOUS
<1>5. PICK result : result = First(maxProducts, collected)
  OBVIOUS
<1>6. scan' = [scan EXCEPT ![s] = Turn(q, answer, collected, result, <<>>)]
  BY <1>3, <1>4, <1>5
<1>7. collected \in DistinctLists
  <2>1. CASE answer = Failed
    BY <1>2, <1>4, <2>1
  <2>2. CASE answer # Failed
    <3>1. answer \in Seq(FeedRecord)
      BY <2>2, CatalogueAssumption
    <3>2. PICK ps : ps = extractShopifyProducts(answer)
      OBVIOUS
    <3>3. ps \in Seq(ScannedProduct)
      BY <3>1, <3>2, ExtractedPages, ChoosableProducts
    <3>4. PICK l \in DistinctLists : l = q.got
      BY <1>2
    <3> QED  BY <1>4, <2>2, <3>2, <3>3, <3>4, LoopsKeepDistinct
  <2> QED  BY <2>1, <2>2
<1>8. result \in DistinctLists
  <2>1. maxProducts \in Nat
    BY CatalogueAssumption
  <2> QED  BY <1>5, <1>7, <2>1, FirstDistinct
<1>9. collected \in Seq(ScannedProduct) /\ Distinct(collected) /\ <<>> \in Seq(ScannedProduct)
  BY <1>7, NoProducts DEF DistinctLists
<1>10. ScanOK(Turn(q, answer, collected, result, <<>>))
  BY <1>2, <1>8, <1>9, TurnIs
<1> QED  BY <1>6, <1>10, ScanStep

\* The steps that fetch nothing.
Fetchless(s) ==
  \/ Begin(s) \/ Scanned_Onboard(s) \/ Scanned_Init(s) \/ RegisterMerchant(s)
  \/ RegisterUnreachable(s) \/ Browsed(s)

LEMMA OtherScans ==
  ASSUME Scans
  PROVE  /\ Restart => Scans'
         /\ \A s \in Scan : Fetchless(s) => Scans'
<1>1. \A v \in {"done", "failed"} : ScanOK(Ended(v))
  BY DEF ScanOK, Resting
<1>2. ASSUME Restart PROVE Scans'
  BY <1>1, <1>2 DEF Restart, Scans
<1>3. ASSUME NEW s \in Scan, NEW v \in {"done", "failed"}, scan' = [scan EXCEPT ![s] = Ended(v)]
      PROVE  Scans'
  BY <1>1, <1>3, ScanStep
<1>4. ASSUME NEW s \in Scan, Begin(s) PROVE Scans'
  <2>1. PICK site \in Site, by \in {"onboard", "init"}, register \in BOOLEAN :
          scan' = [scan EXCEPT ![s] =
            [at |-> "home", by |-> by, register |-> register, host |-> MerchantOf[site],
             site |-> site, links |-> <<>>, feed |-> 1, page |-> 1, got |-> <<>>, heard |-> <<>>]]
    BY <1>4 DEF Begin
  <2>2. PICK host \in Host : host = MerchantOf[site]
    BY CatalogueAssumption
  <2>3. PICK x : x = [at |-> "home", by |-> by, register |-> register, host |-> host,
             site |-> site, links |-> <<>>, feed |-> 1, page |-> 1, got |-> <<>>, heard |-> <<>>]
    OBVIOUS
  <2>4. x \in Running /\ x.got = <<>> /\ x.heard = <<>> /\ x.at = "home"
    BY <2>3, NoProducts DEF Running, Stages
  <2>5. scan' = [scan EXCEPT ![s] = x]
    BY <2>1, <2>2, <2>3
  <2> QED  BY <2>4, <2>5, NoProducts, ScanStep DEF ScanOK, Fit
<1>5. ASSUME NEW s \in Scan, Scanned_Onboard(s) PROVE Scans'
  <2>1. PICK q : q = scan[s]
    OBVIOUS
  <2>2. q \in Running
    BY <1>5, <2>1, ScanAt DEF Scanned_Onboard, At, Stages
  <2>3. PICK x : x = [q EXCEPT !.at = "browser", !.feed = 1, !.page = 1, !.got = <<>>, !.heard = <<>>]
    OBVIOUS
  <2>4. x \in Running /\ x.at = "browser" /\ x.got = <<>>
    BY <2>2, <2>3, NoProducts DEF Running, Stages
  <2>5. scan' = [scan EXCEPT ![s] = Ended("done")] \/ scan' = [scan EXCEPT ![s] = x]
    BY <1>5, <2>1, <2>3 DEF Scanned_Onboard, Publish
  <2> QED  BY <1>3, <2>4, <2>5, NoProducts, ScanStep DEF ScanOK, Fit
<1>6. ASSUME NEW s \in Scan, Scanned_Init(s) PROVE Scans'
  <2>1. PICK q : q = scan[s]
    OBVIOUS
  <2>2. q \in Running /\ Distinct(q.got)
    BY <1>6, <2>1, ScanAt DEF Scanned_Init, At, Stages, DistinctLists
  <2>3. PICK x : x = [q EXCEPT !.at = "registering", !.heard = <<>>]
    OBVIOUS
  <2>4. x \in Running /\ x.at = "registering" /\ x.got = q.got
    BY <2>2, <2>3, NoProducts DEF Running, Stages
  <2>5. \/ scan' = [scan EXCEPT ![s] = Ended("done")]
        \/ scan' = [scan EXCEPT ![s] = Ended("failed")]
        \/ scan' = [scan EXCEPT ![s] = x]
    BY <1>6, <2>1, <2>3 DEF Scanned_Init
  <2> QED  BY <1>3, <2>2, <2>4, <2>5, ScanStep DEF ScanOK, Fit
<1>7. ASSUME NEW s \in Scan, RegisterMerchant(s) PROVE Scans'
  <2>1. scan' = [scan EXCEPT ![s] = Ended("failed")] \/ scan' = [scan EXCEPT ![s] = Ended("done")]
    BY <1>7 DEF RegisterMerchant
  <2> QED  BY <1>3, <2>1
<1>8. ASSUME NEW s \in Scan, RegisterUnreachable(s) PROVE Scans'
  BY <1>3, <1>8 DEF RegisterUnreachable
<1>9. ASSUME NEW s \in Scan, Browsed(s) PROVE Scans'
  <2>1. scan' = [scan EXCEPT ![s] = Ended("failed")] \/ scan' = [scan EXCEPT ![s] = Ended("done")]
    BY <1>9 DEF Browsed, Publish
  <2> QED  BY <1>3, <2>1
<1> QED  BY <1>2, <1>4, <1>5, <1>6, <1>7, <1>8, <1>9 DEF Fetchless

\* The invariant of scanning (scanStore, fetchShopifyProductsJson, browserScanPath): a scan's list has
\* a sku once, and what is kept of a feed tells of every record the feed's pages held.
THEOREM ScansInvariant ==
  Spec => []Scans
<1>1. Init => Scans
  BY DEF Init, Scans, ScanOK, Resting
<1>2. Scans /\ [Next]_vars => Scans'
  <2>1. ASSUME Scans, Next PROVE Scans'
    <3>1. Restart \/ \E s \in Scan : Begin(s) \/ Step(s) \/ RegisterUnreachable(s)
      BY <2>1 DEF Next
    <3>2. CASE Restart
      BY <2>1, <3>2, OtherScans
    <3>3. ASSUME NEW s \in Scan, Begin(s) \/ Step(s) \/ RegisterUnreachable(s) PROVE Scans'
      <4>1. CASE FetchHome(s)
        BY <2>1, <4>1, FetchHomeScans
      <4>2. CASE FetchLink(s)
        BY <2>1, <4>2, FetchLinkScans
      <4>3. CASE FetchFeed(s)
        BY <2>1, <4>3, FetchFeedScans
      <4>4. CASE FetchBrowser(s)
        BY <2>1, <4>4, FetchBrowserScans
      <4>5. CASE Fetchless(s)
        BY <2>1, <4>5, OtherScans
      <4> QED  BY <3>3, <4>1, <4>2, <4>3, <4>4, <4>5 DEF Step, Fetchless
    <3> QED  BY <3>1, <3>2, <3>3
  <2>2. ASSUME Scans, UNCHANGED vars PROVE Scans'
    BY <2>2 DEF vars, Scans
  <2> QED  BY <2>1, <2>2
<1> QED  BY <1>1, <1>2, PTL DEF Spec

-----------------------------------------------------------------------------
(* What is listed.                                                         *)

\* Of products of one sku each, every sku has its product's price.
LEMMA PricesAre ==
  ASSUME NEW l \in DistinctLists
  PROVE  Li!PricesOf(l) # NoPrices
<1>1. l \in Seq(ScannedProduct) /\ Distinct(l) /\ DOMAIN l \subseteq Nat
  BY DEF DistinctLists
<1> DEFINE last(sku) == CHOOSE i \in DOMAIN l :
                          l[i].sku = sku /\ \A j \in DOMAIN l : l[j].sku = sku => j <= i
<1>2. ASSUME NEW sku \in Li!Skus(l) PROVE l[last(sku)].price \in Nat
  <2>1. PICK i \in DOMAIN l : l[i].sku = sku
    BY DEF Li!Skus
  <2>2. \A j \in DOMAIN l : l[j].sku = sku => j <= i
    BY <1>1, <2>1 DEF Distinct
  <2>3. last(sku) \in DOMAIN l
    BY <2>1, <2>2
  <2> HIDE DEF last
  <2>4. l[last(sku)] \in ScannedProduct
    BY <1>1, <2>3
  <2> QED  BY <2>4 DEF ScannedProduct
<1>3. Li!PricesOf(l) = [sku \in Li!Skus(l) |-> l[last(sku)].price]
  BY DEF Li!PricesOf
<1> HIDE DEF last
<1>4. Li!PricesOf(l) \in [Li!Skus(l) -> Nat]
  BY <1>2, <1>3
<1>5. Li!Skus(l) \in SUBSET Sku
  <2>1. ASSUME NEW i \in DOMAIN l PROVE l[i].sku \in Sku
    <3>1. l[i] \in ScannedProduct
      BY <1>1
    <3> QED  BY <3>1 DEF ScannedProduct
  <2> QED  BY <2>1 DEF Li!Skus
<1> QED  BY <1>4, <1>5, CatalogueAssumption

\* A store that is listed has its listing's prices.
Shops ==
  /\ listing = [h \in Host |-> listing[h]] /\ prices = [h \in Host |-> prices[h]]
  /\ \A h \in Host : \/ listing[h] = NoListing
                     \/ listing[h] \in DistinctLists /\ prices[h] = Li!PricesOf(listing[h])

\* What the route publishes is a list a buyer can shop from, and is published with its prices.
LEMMA PublishListing ==
  ASSUME Scans, Shops, NEW s \in Scan, scan[s].at \in {"scanned", "browsed"},
         toFeedProducts(scan[s].got) # <<>>, Publish(s, toFeedProducts(scan[s].got))
  PROVE  Shops' /\ [Li!Next]_(Li!vars)
<1>1. PICK q : q = scan[s]
  OBVIOUS
<1>2. q \in Running /\ q.got \in DistinctLists
  BY <1>1, ScanAt DEF Stages
<1>3. PICK h \in Host : h = q.host
  BY <1>2 DEF Running
<1>4. PICK got \in DistinctLists : got = q.got
  BY <1>2
<1>5. PICK good : good = {p \in ToSet(got) : p.price > 0}
  OBVIOUS
<1>6. PICK l : l = Keep(got, good)
  OBVIOUS
<1>7. toFeedProducts(scan[s].got) = l
  BY <1>1, <1>4, <1>5, <1>6 DEF toFeedProducts
<1>8. l \in DistinctLists
  BY <1>4, <1>6, KeepDistinct
<1>9. Li!Sound(l)
  <2>1. got \in Seq(ScannedProduct)
    BY DEF DistinctLists
  <2>2. l \in Seq(ScannedProduct \cap good)
    BY <1>6, <2>1, KeepIs
  <2>3. \A i \in DOMAIN l : l[i].price > 0
    BY <1>5, <2>2
  <2> QED  BY <1>7, <1>8, <2>3 DEF Li!Sound, DistinctLists, Distinct
<1>10. listing' = [listing EXCEPT ![h] = l] /\ prices' = [prices EXCEPT ![h] = Li!PricesOf(l)]
  BY <1>1, <1>3, <1>7 DEF Publish
<1>11. Shops'
  BY <1>8, <1>10 DEF Shops
<1>12. listing'[h] = l
  BY <1>10 DEF Shops
<1>13. CASE listing[h] # l
  <2>1. PICK new : new = listing'[h]
    OBVIOUS
  <2>2. Li!Publish(h, new)
    BY <1>9, <1>10, <1>12, <2>1 DEF Li!Publish
  <2>3. \E g \in Host : listing'[g] # listing[g] /\ Li!Publish(g, listing'[g])
    BY <1>12, <1>13, <2>1, <2>2
  <2> QED  BY <1>11, <2>3 DEF Li!Next
<1>14. CASE listing[h] = l
  <2>1. l # NoListing
    BY <1>8, CatalogueAssumption DEF DistinctLists
  <2>2. prices[h] = Li!PricesOf(l)
    BY <1>14, <2>1 DEF Shops
  <2>3. listing' = listing /\ prices' = prices
    BY <1>10, <1>14, <2>2 DEF Shops
  <2> QED  BY <1>11, <2>3 DEF Li!vars
<1> QED  BY <1>11, <1>13, <1>14

\* Prices by hand are for a store that has none, and so is not listed.
LEMMA RegisterListing ==
  ASSUME Scans, Shops, NEW s \in Scan, RegisterMerchant(s)
  PROVE  Shops' /\ [Li!Next]_(Li!vars)
<1>1. PICK q : q = scan[s]
  OBVIOUS
<1>2. q \in Running /\ q.got \in DistinctLists
  BY <1>1, ScanAt DEF RegisterMerchant, At, Stages
<1>3. PICK h \in Host : h = q.host
  BY <1>2 DEF Running
<1>4. PICK new : new = Li!PricesOf(q.got)
  OBVIOUS
<1>5. /\ listing' = listing
      /\ \/ prices' = prices
         \/ prices[h] = NoPrices /\ prices' = [prices EXCEPT ![h] = new]
  <2>1. /\ listing' = listing
        /\ \/ prices' = prices
           \/ /\ prices[scan[s].host] = NoPrices
              /\ prices' = [prices EXCEPT ![scan[s].host] = Li!PricesOf(scan[s].got)]
    BY DEF RegisterMerchant
  <2> QED  BY <1>1, <1>3, <1>4, <2>1
<1>6. CASE prices' = prices
  BY <1>5, <1>6 DEF Shops, Li!vars
<1>7. CASE prices[h] = NoPrices /\ prices' = [prices EXCEPT ![h] = new]
  <2>1. listing[h] = NoListing
    BY <1>7, PricesAre DEF Shops
  <2>2. Shops'
    BY <1>5, <1>7, <2>1 DEF Shops
  <2>3. \A g \in Host \ {h} : prices'[g] = prices[g]
    BY <1>7 DEF Shops
  <2> QED  BY <1>5, <1>7, <2>1, <2>2, <2>3 DEF Li!Next, Li!RegisterPrices
<1> QED  BY <1>5, <1>6, <1>7

LEMMA ShopsStep ==
  ASSUME Scans, Shops, [Next]_vars
  PROVE  Shops' /\ [Li!Next]_(Li!vars)
<1>1. ASSUME Shops, UNCHANGED <<listing, prices>> PROVE Shops' /\ [Li!Next]_(Li!vars)
  BY <1>1 DEF Shops, Li!vars
<1>2. ASSUME Scans, Shops, Next PROVE Shops' /\ [Li!Next]_(Li!vars)
  <2>1. Restart \/ \E s \in Scan : Begin(s) \/ Step(s) \/ RegisterUnreachable(s)
    BY <1>2 DEF Next
  <2>2. CASE Restart
    BY <1>1, <1>2, <2>2 DEF Restart
  <2>3. ASSUME NEW s \in Scan, Begin(s) \/ Step(s) \/ RegisterUnreachable(s)
        PROVE  Shops' /\ [Li!Next]_(Li!vars)
    <3>1. CASE Begin(s) \/ FetchHome(s) \/ FetchLink(s) \/ FetchFeed(s)
      BY <1>1, <1>2, <3>1 DEF Begin, FetchHome, FetchLink, FetchFeed
    <3>2. CASE FetchBrowser(s) \/ Scanned_Init(s) \/ RegisterUnreachable(s)
      BY <1>1, <1>2, <3>2 DEF FetchBrowser, Scanned_Init, RegisterUnreachable
    <3>3. CASE RegisterMerchant(s)
      BY <1>2, <3>3, RegisterListing
    <3>4. CASE Scanned_Onboard(s) \/ Browsed(s)
      <4>1. scan[s].at \in {"scanned", "browsed"}
        BY <3>4 DEF Scanned_Onboard, Browsed, At
      <4>2. \/ toFeedProducts(scan[s].got) # <<>> /\ Publish(s, toFeedProducts(scan[s].got))
            \/ UNCHANGED <<listing, prices>>
        BY <3>4 DEF Scanned_Onboard, Browsed
      <4> QED  BY <1>1, <1>2, <4>1, <4>2, PublishListing
    <3> QED  BY <2>3, <3>1, <3>2, <3>3, <3>4 DEF Step
  <2> QED  BY <2>1, <2>2, <2>3
<1> QED  BY <1>1, <1>2 DEF vars

LEMMA ShopsFirst ==
  ASSUME Init PROVE Shops /\ Li!Init
BY DEF Init, Li!Init, Shops

\* KeepsListing: the list agents shop from and the prices the gate compares a cart with change
\* together, and only to a sound list (upsertMerchant and upsertStoreCatalog, in one transaction);
\* a registration by hand never touches the prices of a store that is listed.
THEOREM ListingKept == Spec => KeepsListing
<1>1. Spec => []Shops /\ Li!Init /\ [][Li!Next]_(Li!vars)
  BY ShopsFirst, ShopsStep, ScansInvariant, PTL DEF Spec
<1> QED  BY <1>1, PTL DEF KeepsListing, Li!Spec

\* StockKept: whatever the pages of the feed repeat, and in whatever order, no handle but that of
\* a shadow is lost short of the cap, and what any record had in stock is in stock
\* (dedupeShopifyProducts within a page and across the pages, mergeDuplicateShopifyProduct).
THEOREM StockIsKept == Spec => []StockKept
<1>1. ASSUME Scans PROVE StockKept
  <2> SUFFICES ASSUME NEW s \in Scan, scan[s].at = "scanned", NEW r \in ToSet(scan[s].heard),
                      ~\E t \in ToSet(scan[s].heard) : t.sku = r.sku /\ Shadow(t, scan[s].heard),
                      Cardinality(ToSet(scan[s].got)) # maxProducts
               PROVE  \E p \in ToSet(scan[s].got) :
                        /\ p.sku = r.sku
                        /\ r.stock => p.stock
                        /\ \A v \in ToSet(r.variants) : v.stock =>
                             \E w \in ToSet(p.variants) : w.id = v.id /\ w.stock
    BY DEF StockKept, At
  <2>1. PICK q : q = scan[s]
    OBVIOUS
  <2>2. KeptOf(q.got, q.heard)
    BY <1>1, <2>1, ScanAt DEF Stages, Fit
  <2>3. Told(q.got, q.heard)
    BY <2>1, <2>2 DEF KeptOf
  <2>4. PICK i \in DOMAIN q.heard : r = q.heard[i]
    BY <2>1 DEF ToSet
  <2>5. ~OfShadow(q.heard, i)
    BY <2>1, <2>4 DEF OfShadow, ToSet
  <2>6. PICK j \in DOMAIN q.got : Covers(q.got[j], r)
    BY <2>3, <2>4, <2>5 DEF Told
  <2>7. PICK p \in ToSet(q.got) : Covers(p, r)
    BY <2>6 DEF ToSet
  <2>8. ASSUME NEW v \in ToSet(r.variants), v.stock
        PROVE  \E w \in ToSet(p.variants) : w.id = v.id /\ w.stock
    <3>1. InStock(r.variants, v.id)
      BY <2>8 DEF InStock, ToSet
    <3>2. InStock(p.variants, v.id)
      BY <2>7, <3>1 DEF Covers
    <3> QED  BY <3>2 DEF InStock, ToSet
  <2> QED  BY <2>1, <2>7, <2>8 DEF Covers
<1> QED  BY <1>1, ScansInvariant, PTL

-----------------------------------------------------------------------------
(* Rankings.                                                               *)


Found == [merchant : Host, product : ScannedProduct]
Entry == [found : Found, score : Nat]
SameKey(f, g) == f.merchant = g.merchant /\ f.product.sku = g.product.sku

\* Each found product is in a list once.
Keyed(l) == \A i, j \in DOMAIN l : SameKey(l[i], l[j]) => i = j
KeyedEntries(l) == \A i, j \in DOMAIN l : SameKey(l[i].found, l[j].found) => i = j

\* Before: compareRanked, of two entries.
InOrder(l) == \A i, j \in DOMAIN l : i < j => compareRanked(l[i], l[j])

LEMMA EntryIs ==
  ASSUME NEW e \in Entry
  PROVE  /\ e.score \in Nat /\ e.found \in Found
         /\ e.found.merchant \in Host /\ e.found.product.sku \in Sku
         /\ Collation[e.found.merchant] \in Nat /\ Collation[e.found.product.sku] \in Nat
<1>1. e.score \in Nat /\ e.found \in Found
  BY DEF Entry
<1>2. e.found.merchant \in Host /\ e.found.product \in ScannedProduct
  BY <1>1 DEF Found
<1>3. e.found.product.sku \in Sku
  BY <1>2 DEF ScannedProduct
<1>4. e.found.merchant \in DOMAIN Collation /\ e.found.product.sku \in DOMAIN Collation
  BY <1>2, <1>3, SearchAssumption
<1> QED  BY <1>1, <1>2, <1>3, <1>4, SearchAssumption

\* The comparison orders the entries, and ties none of different keys.
LEMMA ComparedIs ==
  ASSUME NEW a \in Entry, NEW b \in Entry
  PROVE  /\ ~ compareRanked(a, a)
         /\ ~ (compareRanked(a, b) /\ compareRanked(b, a))
         /\ compareRanked(a, b) \/ compareRanked(b, a) \/ SameKey(a.found, b.found)
<1>1. PICK x \in Nat, m \in Nat, k \in Nat :
        x = a.score /\ m = Collation[a.found.merchant] /\ k = Collation[a.found.product.sku]
  BY EntryIs
<1>2. PICK y \in Nat, n \in Nat, l \in Nat :
        y = b.score /\ n = Collation[b.found.merchant] /\ l = Collation[b.found.product.sku]
  BY EntryIs
<1>3. m = n => a.found.merchant = b.found.merchant
  BY <1>1, <1>2, EntryIs, SearchAssumption
<1>4. k = l => a.found.product.sku = b.found.product.sku
  BY <1>1, <1>2, EntryIs, SearchAssumption
<1>5. compareRanked(a, b) <=> x > y \/ (x = y /\ m < n) \/ (x = y /\ m = n /\ k < l)
  BY <1>1, <1>2 DEF compareRanked
<1>6. compareRanked(b, a) <=> y > x \/ (x = y /\ n < m) \/ (x = y /\ m = n /\ l < k)
  BY <1>1, <1>2 DEF compareRanked
<1>7. ~ compareRanked(a, a)
  BY <1>1 DEF compareRanked
<1>8. x > y \/ (x = y /\ m < n) \/ (x = y /\ m = n /\ k < l) \/
      y > x \/ (x = y /\ n < m) \/ (x = y /\ m = n /\ l < k) \/ (m = n /\ k = l)
  OBVIOUS
<1>9. compareRanked(a, b) \/ compareRanked(b, a) \/ SameKey(a.found, b.found)
  BY <1>3, <1>4, <1>5, <1>6, <1>8 DEF SameKey
<1>10. ~ (compareRanked(a, b) /\ compareRanked(b, a))
  BY <1>5, <1>6
<1> QED  BY <1>7, <1>9, <1>10

LEMMA ComparedOn ==
  ASSUME NEW a \in Entry, NEW b \in Entry, NEW c \in Entry,
         compareRanked(a, b), compareRanked(b, c)
  PROVE  compareRanked(a, c)
<1>1. PICK x \in Nat, m \in Nat, k \in Nat :
        x = a.score /\ m = Collation[a.found.merchant] /\ k = Collation[a.found.product.sku]
  BY EntryIs
<1>2. PICK y \in Nat, n \in Nat, l \in Nat :
        y = b.score /\ n = Collation[b.found.merchant] /\ l = Collation[b.found.product.sku]
  BY EntryIs
<1>3. PICK z \in Nat, o \in Nat, p \in Nat :
        z = c.score /\ o = Collation[c.found.merchant] /\ p = Collation[c.found.product.sku]
  BY EntryIs
<1>4. x > y \/ (x = y /\ m < n) \/ (x = y /\ m = n /\ k < l)
  BY <1>1, <1>2 DEF compareRanked
<1>5. y > z \/ (y = z /\ n < o) \/ (y = z /\ n = o /\ l < p)
  BY <1>2, <1>3 DEF compareRanked
<1>6. x > z \/ (x = z /\ m < o) \/ (x = z /\ m = o /\ k < p)
  BY <1>4, <1>5
<1> QED  BY <1>1, <1>3, <1>6 DEF compareRanked

\* Of two lists in order that hold the same, one starts as the other.
LEMMA SameStart ==
  ASSUME NEW a \in Seq(Entry), NEW b \in Seq(Entry), InOrder(a), InOrder(b), ToSet(a) = ToSet(b)
  PROVE  \A i \in DOMAIN a : i \in DOMAIN b /\ a[i] = b[i]
<1> DEFINE Bad == {i \in DOMAIN a : ~ (i \in DOMAIN b /\ a[i] = b[i])}
<1>1. SUFFICES ASSUME Bad # {} PROVE FALSE
  OBVIOUS
<1>2. PICK K \in Nat, L \in Nat : K = Len(a) /\ L = Len(b) /\ DOMAIN a = 1..K /\ DOMAIN b = 1..L
  OBVIOUS
<1>3. PICK n \in Bad : \A m \in Bad : n <= m
  <2>1. Bad \subseteq Nat
    BY <1>2
  <2> HIDE DEF Bad
  <2> QED  BY <1>1, <2>1, LeastOf
<1>4. n \in 1..K /\ ~ (n \in 1..L /\ a[n] = b[n])
  BY <1>2
<1>5. \A i \in 1..K : i < n => i \in 1..L /\ a[i] = b[i]
  BY <1>2, <1>3
<1>6. /\ \A i \in 1..K : \E j \in 1..L : a[i] = b[j]
      /\ \A j \in 1..L : \E i \in 1..K : a[i] = b[j]
  <2>1. {a[i] : i \in 1..K} = {b[j] : j \in 1..L}
    BY <1>2 DEF ToSet
  <2>2. \A i \in 1..K : a[i] \in {b[j] : j \in 1..L}
    BY <2>1
  <2>3. \A j \in 1..L : b[j] \in {a[i] : i \in 1..K}
    BY <2>1
  <2> QED  BY <2>2, <2>3
<1>7. /\ \A i \in 1..K : a[i] \in Entry
      /\ \A j \in 1..L : b[j] \in Entry
  BY <1>2
<1>8. /\ \A i, j \in 1..K : i < j => compareRanked(a[i], a[j])
      /\ \A i, j \in 1..L : i < j => compareRanked(b[i], b[j])
  BY <1>2 DEF InOrder
<1> HIDE DEF Bad
<1>9. PICK k \in 1..L : a[n] = b[k]
  BY <1>4, <1>6
<1>10. ~ (k < n)
  <2>1. SUFFICES ASSUME k < n PROVE FALSE
    OBVIOUS
  <2>2. k \in 1..K /\ a[k] = b[k]
    BY <1>4, <1>5, <2>1
  <2>3. compareRanked(a[k], a[n])
    BY <1>4, <1>8, <2>1, <2>2
  <2> QED  BY <1>4, <1>7, <1>9, <2>2, <2>3, ComparedIs
<1>11. n < k /\ n \in 1..L
  BY <1>4, <1>9, <1>10
<1>12. PICK j \in 1..K : a[j] = b[n]
  BY <1>6, <1>11
<1>13. ~ (j < n)
  <2>1. SUFFICES ASSUME j < n PROVE FALSE
    OBVIOUS
  <2>2. j \in 1..L /\ b[j] = b[n]
    BY <1>5, <1>12, <2>1
  <2>3. compareRanked(b[j], b[n])
    BY <1>8, <1>11, <2>1, <2>2
  <2> QED  BY <1>7, <1>11, <2>2, <2>3, ComparedIs
<1>14. n < j
  BY <1>4, <1>11, <1>12, <1>13
<1>15. compareRanked(a[n], a[j]) /\ compareRanked(b[n], b[k])
  BY <1>4, <1>8, <1>11, <1>14
<1> QED  BY <1>4, <1>7, <1>9, <1>12, <1>15, ComparedIs

\* What a list in order holds says what list it is.
LEMMA OneOrder ==
  ASSUME NEW a \in Seq(Entry), NEW b \in Seq(Entry), InOrder(a), InOrder(b), ToSet(a) = ToSet(b)
  PROVE  a = b
<1>1. /\ \A i \in DOMAIN a : i \in DOMAIN b /\ a[i] = b[i]
      /\ \A i \in DOMAIN b : i \in DOMAIN a
  BY SameStart
<1>2. a = [i \in DOMAIN a |-> a[i]] /\ b = [i \in DOMAIN b |-> b[i]]
  OBVIOUS
<1> QED  BY <1>1, <1>2

LEMMA EnterStays ==
  ASSUME NEW s, Len(s) \in Nat, NEW A, <<>> \in A[0],
         \A n \in 1..Len(s) : \A acc \in A[n-1] : Enter(acc, s[n]) \in A[n]
  PROVE  ForEach(Enter, <<>>, s) \in A[Len(s)]
<1> DEFINE Eq(f) == f = [n \in 0..Len(s) |-> IF n = 0 THEN <<>> ELSE Enter(f[n-1], s[n])]
           f == CHOOSE f : Eq(f)
<1>1. \A g : Runs("enter", {}, <<>>, s, g) <=> Eq(g)
  BY DEF Runs, Body
<1>2. Eq(f)
  BY <1>1, SomeRun
<1>3. ForEach(Enter, <<>>, s) = f[Len(s)]
  BY DEF ForEach
<1>4. \A n \in 1..Len(s) : \A acc \in A[n-1] : Body("enter", {}, acc, s[n]) \in A[n]
  BY DEF Body
<1> HIDE DEF Eq, f
<1>5. Runs("enter", {}, <<>>, s, f)
  BY <1>1, <1>2
<1> QED  BY <1>3, <1>4, <1>5, RunStays

\* A list with an element put in before its m-th.
Inserted(s, m, e) ==
  [i \in 1..(Len(s) + 1) |-> IF i < m THEN s[i] ELSE IF i = m THEN e ELSE s[i - 1]]

LEMMA InsertAtIs ==
  ASSUME NEW T, NEW s \in Seq(T), NEW e \in T, NEW m \in 1..Len(s)
  PROVE  InsertAt(s, m, e) = Inserted(s, m, e)
<1>1. PICK N \in Nat : N = Len(s) /\ DOMAIN s = 1..N
  OBVIOUS
<1>2. m \in 1..N
  BY <1>1
<1> DEFINE u == SubSeq(s, 1, m - 1)
           w == SubSeq(s, m, N)
<1>3. u \in Seq(T) /\ Len(u) = m - 1 /\ \A i \in 1..(m-1) : u[i] = s[i]
  BY <1>1, <1>2
<1>4. w \in Seq(T) /\ Len(w) = N - m + 1 /\ \A i \in 1..(N - m + 1) : w[i] = s[m + i - 1]
  BY <1>1, <1>2
<1>5. InsertAt(s, m, e) = (u \o <<e>>) \o w
  BY <1>1 DEF InsertAt
<1> HIDE DEF u, w
<1>6. PICK t : t = u \o <<e>>
  OBVIOUS
<1>7. t \in Seq(T) /\ Len(t) = m /\ t[m] = e /\ \A i \in 1..(m-1) : t[i] = s[i]
  BY <1>2, <1>3, <1>6
<1>8. PICK x : x = t \o w
  OBVIOUS
<1>9. x \in Seq(T) /\ Len(x) = N + 1
  <2>1. x \in Seq(T) /\ Len(x) = Len(t) + Len(w)
    <3>1. t \in Seq(T) /\ w \in Seq(T)
      BY <1>4, <1>7
    <3>2. ASSUME NEW a \in Seq(T), NEW b \in Seq(T)
          PROVE  a \o b \in Seq(T) /\ Len(a \o b) = Len(a) + Len(b)
      OBVIOUS
    <3> QED  BY <1>8, <3>1, <3>2
  <2> QED  BY <1>2, <1>4, <1>7, <2>1
<1>10. ASSUME NEW i \in 1..(N + 1)
       PROVE  x[i] = IF i < m THEN s[i] ELSE IF i = m THEN e ELSE s[i - 1]
  <2>1. CASE i <= m
    <3>1. x[i] = t[i]
      BY <1>2, <1>4, <1>7, <1>8, <2>1
    <3> QED  BY <1>2, <1>7, <2>1, <3>1
  <2>2. CASE i > m
    <3>1. x[i] = w[i - m]
      BY <1>2, <1>4, <1>7, <1>8, <2>2
    <3>2. i - m \in 1..(N - m + 1)
      BY <1>2, <2>2
    <3>3. w[i - m] = s[m + (i - m) - 1]
      BY <1>4, <3>2
    <3> QED  BY <1>2, <2>2, <3>1, <3>3
  <2> QED  BY <1>2, <2>1, <2>2
<1>11. x = [i \in 1..(N + 1) |-> x[i]]
  BY <1>9
<1> QED  BY <1>1, <1>5, <1>6, <1>8, <1>10, <1>11 DEF Inserted

\* An entry goes after those that precede it and before those it precedes.
LEMMA EnterIs ==
  ASSUME NEW s \in Seq(Entry), InOrder(s), NEW e \in Entry,
         \A i \in DOMAIN s : ~ SameKey(s[i].found, e.found)
  PROVE  /\ Enter(s, e) \in Seq(Entry) /\ InOrder(Enter(s, e))
         /\ ToSet(Enter(s, e)) = ToSet(s) \cup {e}
<1>1. PICK N \in Nat : N = Len(s) /\ DOMAIN s = 1..N
  OBVIOUS
<1>2. PICK later : later = {i \in DOMAIN s : compareRanked(e, s[i])}
  OBVIOUS
<1>3. ASSUME NEW i \in 1..N, NEW j \in 1..N, i < j PROVE compareRanked(s[i], s[j])
  BY <1>1, <1>3 DEF InOrder
<1>4. \A i \in 1..N : s[i] \in Entry
  BY <1>1
<1>5. ASSUME NEW i \in 1..N PROVE compareRanked(e, s[i]) \/ compareRanked(s[i], e)
  <2>1. s[i] \in Entry /\ ~ SameKey(s[i].found, e.found)
    BY <1>1, <1>4
  <2> QED  BY <2>1, ComparedIs
<1>6. \E m \in 1..(N + 1) : /\ Enter(s, e) = Inserted(s, m, e)
                            /\ \A i \in 1..N : i < m => compareRanked(s[i], e)
                            /\ \A i \in 1..N : i >= m => compareRanked(e, s[i])
  <2>1. CASE later = {}
    <3>1. Enter(s, e) = Append(s, e)
      BY <1>2, <2>1 DEF Enter
    <3>2. PICK t : t = Append(s, e)
      OBVIOUS
    <3>3. t = [i \in 1..(N + 1) |-> IF i < N + 1 THEN s[i] ELSE IF i = N + 1 THEN e ELSE s[i - 1]]
      <4>1. t = [i \in 1..(N + 1) |-> t[i]]
        <5>1. t \in Seq(Entry) /\ Len(t) = N + 1
          BY <1>1, <3>2
        <5> QED  BY <5>1
      <4>2. \A i \in 1..(N + 1) : t[i] = IF i < N + 1 THEN s[i] ELSE IF i = N + 1 THEN e ELSE s[i - 1]
        BY <1>1, <3>2
      <4> QED  BY <4>1, <4>2
    <3>4. Enter(s, e) = Inserted(s, N + 1, e)
      BY <1>1, <3>1, <3>2, <3>3 DEF Inserted
    <3>5. \A i \in 1..N : compareRanked(s[i], e)
      BY <1>1, <1>2, <1>5, <2>1
    <3>6. \A i \in 1..N : ~ (i >= N + 1)
      OBVIOUS
    <3> QED  BY <3>4, <3>5, <3>6
  <2>2. CASE later # {}
    <3>1. later \subseteq Nat
      BY <1>1, <1>2
    <3>2. PICK m : m = Min(later)
      OBVIOUS
    <3>3. m \in later /\ \A i \in later : m <= i
      BY <2>2, <3>1, <3>2, LeastOf DEF Min
    <3>4. m \in 1..N /\ compareRanked(e, s[m])
      BY <1>1, <1>2, <3>3
    <3>5. Enter(s, e) = InsertAt(s, m, e)
      BY <1>2, <2>2, <3>2 DEF Enter
    <3>6. Enter(s, e) = Inserted(s, m, e)
      BY <1>1, <3>4, <3>5, InsertAtIs
    <3>7. ASSUME NEW i \in 1..N, i < m PROVE compareRanked(s[i], e)
      BY <1>1, <1>2, <1>5, <3>3, <3>7
    <3>8. ASSUME NEW i \in 1..N, i >= m PROVE compareRanked(e, s[i])
      <4>1. i = m \/ compareRanked(s[m], s[i])
        BY <1>3, <3>4, <3>8
      <4> QED  BY <1>4, <3>4, <4>1, ComparedOn
    <3> QED  BY <3>4, <3>6, <3>7, <3>8
  <2> QED  BY <2>1, <2>2
<1>7. PICK m \in 1..(N + 1) : /\ Enter(s, e) = Inserted(s, m, e)
                              /\ \A i \in 1..N : i < m => compareRanked(s[i], e)
                              /\ \A i \in 1..N : i >= m => compareRanked(e, s[i])
  BY <1>6
<1>8. PICK t : t = Inserted(s, m, e)
  OBVIOUS
<1>9. t = [i \in 1..(N + 1) |-> IF i < m THEN s[i] ELSE IF i = m THEN e ELSE s[i - 1]]
  BY <1>1, <1>8 DEF Inserted
<1>10. ASSUME NEW i \in 1..(N + 1)
       PROVE  \/ i = m /\ t[i] = e
              \/ i < m /\ i \in 1..N /\ t[i] = s[i]
              \/ i > m /\ i - 1 \in 1..N /\ t[i] = s[i - 1]
  <2>1. t[i] = IF i < m THEN s[i] ELSE IF i = m THEN e ELSE s[i - 1]
    BY <1>9
  <2>2. i < m => i \in 1..N
    OBVIOUS
  <2>3. i > m => i - 1 \in 1..N
    OBVIOUS
  <2> QED  BY <2>1, <2>2, <2>3
<1>11. t \in Seq(Entry)
  <2>1. \A i \in 1..(N + 1) : t[i] \in Entry
    BY <1>4, <1>10
  <2>2. t \in [1..(N + 1) -> Entry]
    BY <1>9, <2>1
  <2> QED  BY <2>2
<1>12. DOMAIN t = 1..(N + 1)
  BY <1>9
<1>13. InOrder(t)
  <2>1. ASSUME NEW i \in 1..(N + 1), NEW j \in 1..(N + 1), i < j PROVE compareRanked(t[i], t[j])
    <3>1. CASE i = m
      <4>1. t[i] = e /\ t[j] = s[j - 1] /\ j - 1 \in 1..N /\ j - 1 >= m
        BY <1>10, <2>1, <3>1
      <4> QED  BY <1>7, <4>1
    <3>2. CASE j = m
      <4>1. t[j] = e /\ t[i] = s[i] /\ i \in 1..N /\ i < m
        BY <1>10, <2>1, <3>2
      <4> QED  BY <1>7, <4>1
    <3>3. CASE i # m /\ j # m
      <4>1. PICK k \in 1..N : t[i] = s[k] /\ ((i < m /\ k = i) \/ (i > m /\ k = i - 1))
        BY <1>10, <3>3
      <4>2. PICK l \in 1..N : t[j] = s[l] /\ ((j < m /\ l = j) \/ (j > m /\ l = j - 1))
        BY <1>10, <3>3
      <4>3. k < l
        BY <2>1, <4>1, <4>2
      <4> QED  BY <1>3, <4>1, <4>2, <4>3
    <3> QED  BY <3>1, <3>2, <3>3
  <2> QED  BY <1>12, <2>1 DEF InOrder
<1>14. ToSet(t) = ToSet(s) \cup {e}
  <2>1. ASSUME NEW x \in ToSet(t) PROVE x \in ToSet(s) \cup {e}
    <3>1. PICK i \in 1..(N + 1) : x = t[i]
      BY <1>12 DEF ToSet
    <3> QED  BY <1>1, <1>10, <3>1 DEF ToSet
  <2>2. e \in ToSet(t)
    BY <1>9, <1>12 DEF ToSet
  <2>3. ASSUME NEW i \in 1..N PROVE s[i] \in ToSet(t)
    <3>1. CASE i < m
      BY <1>9, <1>12, <3>1 DEF ToSet
    <3>2. CASE i >= m
      <4>1. i + 1 \in 1..(N + 1) /\ t[i + 1] = s[i]
        BY <1>9, <3>2
      <4> QED  BY <1>12, <4>1 DEF ToSet
    <3> QED  BY <3>1, <3>2
  <2> QED  BY <1>1, <2>1, <2>2, <2>3 DEF ToSet
<1> QED  BY <1>7, <1>8, <1>11, <1>13, <1>14

LEMMA SortIs ==
  ASSUME NEW m \in Seq(Entry), KeyedEntries(m)
  PROVE  /\ ForEach(Enter, <<>>, m) \in Seq(Entry) /\ InOrder(ForEach(Enter, <<>>, m))
         /\ ToSet(ForEach(Enter, <<>>, m)) = ToSet(m)
<1> DEFINE A == [n \in 0..Len(m) |->
                  {acc \in Seq(Entry) : InOrder(acc) /\ ToSet(acc) = {m[i] : i \in 1..n}}]
<1>0. Len(m) \in Nat /\ DOMAIN m = 1..Len(m)
  OBVIOUS
<1>1. <<>> \in A[0]
  <2>1. <<>> \in Seq(Entry) /\ InOrder(<<>>) /\ ToSet(<<>>) = {m[i] : i \in 1..0} /\ 0 \in 0..Len(m)
    BY <1>0 DEF InOrder, ToSet
  <2> QED  BY <2>1
<1>2. ASSUME NEW n \in 1..Len(m), NEW acc \in A[n-1] PROVE Enter(acc, m[n]) \in A[n]
  <2>1. n - 1 \in 0..Len(m) /\ n \in 0..Len(m) /\ m[n] \in Entry /\ n \in DOMAIN m
    BY <1>0
  <2>2. acc \in Seq(Entry) /\ InOrder(acc) /\ ToSet(acc) = {m[i] : i \in 1..(n-1)}
    BY <1>2, <2>1
  <2>3. ASSUME NEW i \in DOMAIN acc PROVE ~ SameKey(acc[i].found, m[n].found)
    <3>1. PICK j \in 1..(n-1) : acc[i] = m[j]
      BY <2>2 DEF ToSet
    <3>2. j \in DOMAIN m /\ j # n
      BY <1>0, <2>1
    <3> QED  BY <2>1, <3>1, <3>2 DEF KeyedEntries
  <2>4. PICK new : new = Enter(acc, m[n])
    OBVIOUS
  <2>5. new \in Seq(Entry) /\ InOrder(new) /\ ToSet(new) = ToSet(acc) \cup {m[n]}
    BY <2>1, <2>2, <2>3, <2>4, EnterIs
  <2>6. {m[i] : i \in 1..n} = {m[i] : i \in 1..(n-1)} \cup {m[n]}
    <3>1. 1..n = 1..(n-1) \cup {n}
      BY <1>0
    <3> QED  BY <3>1
  <2> QED  BY <2>1, <2>2, <2>4, <2>5, <2>6
<1>3. ForEach(Enter, <<>>, m) \in A[Len(m)]
  <2> HIDE DEF A
  <2> QED  BY <1>0, <1>1, <1>2, EnterStays
<1>4. PICK l : l = ForEach(Enter, <<>>, m)
  OBVIOUS
<1>5. l \in Seq(Entry) /\ InOrder(l) /\ ToSet(l) = {m[i] : i \in 1..Len(m)}
  BY <1>0, <1>3, <1>4
<1> QED  BY <1>0, <1>4, <1>5 DEF ToSet

LEMMA FirstIs ==
  ASSUME NEW T, NEW s \in Seq(T), NEW n \in Nat
  PROVE  /\ First(n, s) \in Seq(T) /\ Len(First(n, s)) <= Len(s)
         /\ \A i \in DOMAIN First(n, s) : i \in DOMAIN s /\ First(n, s)[i] = s[i]
         /\ Len(s) <= n => First(n, s) = s
<1>1. CASE Len(s) > n
  <2>1. First(n, s) = SubSeq(s, 1, n)
    BY <1>1 DEF First
  <2>2. PICK N \in Nat : N = Len(s) /\ DOMAIN s = 1..N
    OBVIOUS
  <2>3. PICK t : t = SubSeq(s, 1, n)
    OBVIOUS
  <2>4. t \in Seq(T) /\ Len(t) = n /\ \A i \in 1..n : t[i] = s[i]
    BY <1>1, <2>2, <2>3
  <2>5. DOMAIN t = 1..n /\ n <= N /\ ~ (N <= n)
    BY <1>1, <2>2, <2>4
  <2> QED  BY <2>1, <2>2, <2>3, <2>4, <2>5
<1>2. CASE ~ (Len(s) > n)
  <2>1. First(n, s) = s
    BY <1>2 DEF First
  <2> QED  BY <2>1
<1> QED  BY <1>1, <1>2

Picked(l) == [i \in DOMAIN l |-> l[i].found]

\* A ranking: the first of these entries in order.
IsRanking(results, entries, limit) ==
  \E l \in Seq(Entry) : InOrder(l) /\ ToSet(l) = entries /\ results = Picked(First(limit, l))

LEMMA RankedIs ==
  ASSUME NEW entries \in Seq(Entry), KeyedEntries(entries), NEW limit \in Nat
  PROVE  IsRanking(Ranked(entries, limit), {e \in ToSet(entries) : e.score > 0}, limit)
<1>1. PICK good : good = {e \in ToSet(entries) : e.score > 0}
  OBVIOUS
<1>2. PICK matching : matching = Keep(entries, good)
  OBVIOUS
<1>3. matching \in Seq(Entry \cap good) /\ Holds(matching, entries, good)
  BY <1>2, KeepIs
<1>4. PICK at : Places(matching, entries, at)
  BY <1>2, KeepIs
<1>5. KeyedEntries(matching)
  <2>1. \A i \in DOMAIN matching : at[i] \in DOMAIN entries /\ matching[i] = entries[at[i]]
    BY <1>4 DEF Places
  <2>2. \A i, j \in DOMAIN matching : at[i] = at[j] => i = j
    BY <1>4 DEF Places
  <2> QED  BY <2>1, <2>2 DEF KeyedEntries
<1>6. matching \in Seq(Entry)
  BY <1>3
<1>7. ToSet(matching) = good
  <2>1. \A i \in DOMAIN matching : matching[i] \in good
    BY <1>3
  <2>2. ASSUME NEW e \in good PROVE e \in ToSet(matching)
    <3>1. PICK i \in DOMAIN entries : e = entries[i]
      BY <1>1 DEF ToSet
    <3> QED  BY <1>3, <2>2, <3>1 DEF Holds, ToSet
  <2> QED  BY <2>1, <2>2 DEF ToSet
<1>8. PICK l : l = ForEach(Enter, <<>>, matching)
  OBVIOUS
<1>9. l \in Seq(Entry) /\ InOrder(l) /\ ToSet(l) = good
  BY <1>5, <1>6, <1>7, <1>8, SortIs
<1>10. Ranked(entries, limit) = Picked(First(limit, l))
  BY <1>1, <1>2, <1>8 DEF Ranked, Picked
<1> QED  BY <1>1, <1>9, <1>10 DEF IsRanking

\* Two rankings of the same entries are one.
LEMMA OneRanking ==
  ASSUME NEW entries, NEW limit, NEW r, NEW t,
         IsRanking(r, entries, limit), IsRanking(t, entries, limit)
  PROVE  r = t
<1>1. PICK l \in Seq(Entry) : InOrder(l) /\ ToSet(l) = entries /\ r = Picked(First(limit, l))
  BY DEF IsRanking
<1>2. PICK m \in Seq(Entry) : InOrder(m) /\ ToSet(m) = entries /\ t = Picked(First(limit, m))
  BY DEF IsRanking
<1>3. l = m
  BY <1>1, <1>2, OneOrder
<1> QED  BY <1>1, <1>2, <1>3

Scored(found, score) == [i \in DOMAIN found |-> [found |-> found[i], score |-> score[found[i]]]]

\* Of these products, those a search ranks.
Hits(stock, score) ==
  {e \in Entry : e.found \in stock /\ e.score = score[e.found] /\ e.score > 0}

\* A list that is narrowed, scored and ranked.
LEMMA HitsRanked ==
  ASSUME NEW all \in Seq(Found), Keyed(all), NEW good, NEW score \in [Found -> Nat], NEW limit \in Nat
  PROVE  IsRanking(Ranked(Scored(Keep(all, good), score), limit),
                   Hits(ToSet(all) \cap good, score), limit)
<1>1. PICK found : found = Keep(all, good)
  OBVIOUS
<1>2. found \in Seq(Found \cap good) /\ Holds(found, all, good)
  BY <1>1, KeepIs
<1>3. PICK at : Places(found, all, at)
  BY <1>1, KeepIs
<1>4. PICK entries : entries = Scored(found, score)
  OBVIOUS
<1>5. DOMAIN found = 1..Len(found) /\ Len(found) \in Nat
  BY <1>2
<1>6. \A i \in DOMAIN found : found[i] \in Found /\ found[i] \in good
  BY <1>2
<1>7. /\ DOMAIN entries = DOMAIN found
      /\ \A i \in DOMAIN found : entries[i] = [found |-> found[i], score |-> score[found[i]]]
  BY <1>4 DEF Scored
<1>8. \A i \in DOMAIN found : entries[i] \in Entry
  BY <1>6, <1>7 DEF Entry
<1>9. entries \in Seq(Entry)
  <2>1. entries = [i \in DOMAIN found |-> entries[i]]
    BY <1>4 DEF Scored
  <2> QED  BY <1>5, <1>8, <2>1
<1>10. KeyedEntries(entries)
  <2>1. \A i \in DOMAIN found : at[i] \in DOMAIN all /\ found[i] = all[at[i]]
    BY <1>3 DEF Places
  <2>2. \A i, j \in DOMAIN found : at[i] = at[j] => i = j
    BY <1>3 DEF Places
  <2>3. ASSUME NEW i \in DOMAIN found, NEW j \in DOMAIN found,
               SameKey(entries[i].found, entries[j].found)
        PROVE  i = j
    <3>1. SameKey(all[at[i]], all[at[j]])
      BY <1>7, <2>1, <2>3
    <3> QED  BY <2>1, <2>2, <3>1 DEF Keyed
  <2> QED  BY <1>7, <2>3 DEF KeyedEntries
<1>11. ToSet(found) = ToSet(all) \cap good
  <2>1. ASSUME NEW f \in ToSet(found) PROVE f \in ToSet(all) \cap good
    <3>1. PICK i \in DOMAIN found : f = found[i]
      BY DEF ToSet
    <3> QED  BY <1>3, <1>6, <3>1 DEF Places, ToSet
  <2>2. ASSUME NEW f \in ToSet(all) \cap good PROVE f \in ToSet(found)
    <3>1. PICK i \in DOMAIN all : f = all[i]
      BY DEF ToSet
    <3> QED  BY <1>2, <2>2, <3>1 DEF Holds, ToSet
  <2> QED  BY <2>1, <2>2
<1>12. {e \in ToSet(entries) : e.score > 0} = Hits(ToSet(all) \cap good, score)
  <2>1. ASSUME NEW e \in ToSet(entries), e.score > 0 PROVE e \in Hits(ToSet(all) \cap good, score)
    <3>1. PICK i \in DOMAIN found : e = entries[i]
      BY <1>7 DEF ToSet
    <3>2. e.found = found[i] /\ e.score = score[found[i]] /\ e \in Entry /\ found[i] \in ToSet(found)
      BY <1>7, <1>8, <3>1 DEF ToSet
    <3> QED  BY <1>11, <2>1, <3>2 DEF Hits
  <2>2. ASSUME NEW e \in Hits(ToSet(all) \cap good, score) PROVE e \in ToSet(entries) /\ e.score > 0
    <3>1. e \in Entry /\ e.found \in ToSet(found) /\ e.score = score[e.found] /\ e.score > 0
      BY <1>11 DEF Hits
    <3>2. PICK i \in DOMAIN found : e.found = found[i]
      BY <3>1 DEF ToSet
    <3>3. e = [found |-> e.found, score |-> e.score]
      BY <3>1 DEF Entry
    <3>4. e = entries[i]
      BY <1>7, <3>1, <3>2, <3>3
    <3> QED  BY <1>7, <3>1, <3>4 DEF ToSet
  <2> QED  BY <2>1, <2>2
<1> QED  BY <1>1, <1>4, <1>9, <1>10, <1>12, RankedIs

\* A search's score of a product is a number.
LEMMA ScoreIs ==
  ASSUME NEW f \in Found, NEW q \in Query
  PROVE  /\ scoreProduct(f, q) \in Nat
         /\ (\E x \in {"title", "brand"} : Whole[q][f.product.name][x] # "none")
            => scoreProduct(f, q) > 0
<1>1. f.product.name \in Name
  BY DEF Found, ScannedProduct
<1>2. ASSUME NEW x \in Field
      PROVE  \E w \in Nat : /\ w = FieldScore(Whole[q][f.product.name][x], TokenHits[q][f.product.name][x])
                            /\ Whole[q][f.product.name][x] # "none" => w > 0
  <2>1. PICK t \in Nat : t = TokenHits[q][f.product.name][x]
    BY <1>1, SearchAssumption
  <2>2. PICK w \in {"exact", "part", "none"} : w = Whole[q][f.product.name][x]
    BY <1>1, SearchAssumption
  <2>3. FieldScore(w, t) \in Nat /\ (w # "none" => FieldScore(w, t) > 0)
    BY DEF FieldScore
  <2> QED  BY <2>1, <2>2, <2>3
<1>3. PICK a \in Nat :
        /\ a = FieldScore(Whole[q][f.product.name]["title"], TokenHits[q][f.product.name]["title"])
        /\ Whole[q][f.product.name]["title"] # "none" => a > 0
  BY <1>2 DEF Field
<1>4. PICK b \in Nat :
        /\ b = FieldScore(Whole[q][f.product.name]["brand"], TokenHits[q][f.product.name]["brand"])
        /\ Whole[q][f.product.name]["brand"] # "none" => b > 0
  BY <1>2 DEF Field
<1>5. PICK d \in Nat :
        d = FieldScore(Whole[q][f.product.name]["description"],
                       TokenHits[q][f.product.name]["description"])
  BY <1>2 DEF Field
<1> DEFINE weighted(x) == FIELD_WEIGHTS[x] * FieldScore(Whole[q][f.product.name][x],
                                                        TokenHits[q][f.product.name][x])
<1>6. scoreProduct(f, q) = 3 * a + 2 * b + d
  <2>1. FIELD_WEIGHTS["title"] = 3 /\ FIELD_WEIGHTS["brand"] = 2 /\ FIELD_WEIGHTS["description"] = 1
    BY DEF FIELD_WEIGHTS
  <2>2. weighted("title") = 3 * a
    BY <1>3, <2>1
  <2>3. weighted("brand") = 2 * b
    BY <1>4, <2>1
  <2>4. weighted("description") = 1 * d
    BY <1>5, <2>1
  <2>5. scoreProduct(f, q) = weighted("title") + weighted("brand") + weighted("description")
    BY Zenon DEF scoreProduct
  <2>6. 3 * a + 2 * b + 1 * d = 3 * a + 2 * b + d
    OBVIOUS
  <2> HIDE DEF weighted
  <2> QED  BY <2>2, <2>3, <2>4, <2>5, <2>6
<1> HIDE DEF weighted
<1>7. 3 * a + 2 * b + d \in Nat /\ (a > 0 \/ b > 0 => 3 * a + 2 * b + d > 0)
  OBVIOUS
<1>8. (\E x \in {"title", "brand"} : Whole[q][f.product.name][x] # "none") => a > 0 \/ b > 0
  BY <1>3, <1>4
<1> QED  BY <1>6, <1>7, <1>8

-----------------------------------------------------------------------------
(* What the stores list.                                                   *)

\* What a set of stores list.
StockOf(S) == {f \in Found : f.merchant \in S /\ f.product \in ToSet(listing[f.merchant])}

LEMMA FeedIs ==
  ASSUME Shops, NEW h \in listStores
  PROVE  /\ listing[h] \in DistinctLists /\ h \in Host
         /\ FeedOf(h) \in Seq(Found) /\ Keyed(FeedOf(h)) /\ ToSet(FeedOf(h)) = StockOf({h})
         /\ DOMAIN FeedOf(h) = DOMAIN listing[h]
         /\ \A i \in DOMAIN FeedOf(h) : FeedOf(h)[i] = [merchant |-> h, product |-> listing[h][i]]
<1>1. PICK l \in DistinctLists : l = listing[h] /\ h \in Host
  BY DEF Shops, listStores, Carries
<1>2. l \in Seq(ScannedProduct) /\ Distinct(l)
  BY DEF DistinctLists
<1>3. PICK feed : feed = [i \in DOMAIN l |-> [merchant |-> h, product |-> l[i]]]
  OBVIOUS
<1>4. FeedOf(h) = feed
  BY <1>1, <1>3 DEF FeedOf
<1>5. DOMAIN l = 1..Len(l) /\ Len(l) \in Nat /\ \A i \in DOMAIN l : l[i] \in ScannedProduct
  BY <1>2
<1>6. DOMAIN feed = DOMAIN l /\ \A i \in DOMAIN l : feed[i] = [merchant |-> h, product |-> l[i]]
  BY <1>3
<1>7. ASSUME NEW i \in DOMAIN l PROVE feed[i] \in Found
  <2>1. h \in Host /\ l[i] \in ScannedProduct
    BY <1>1, <1>5
  <2> QED  BY <1>6, <2>1 DEF Found
<1>8. feed \in Seq(Found)
  BY <1>3, <1>5, <1>7
<1>9. Keyed(feed)
  BY <1>2, <1>6 DEF Keyed, SameKey, Distinct
<1>10. ToSet(feed) = StockOf({h})
  <2>1. ASSUME NEW f \in ToSet(feed) PROVE f \in StockOf({h})
    <3>1. PICK i \in DOMAIN l : f = feed[i]
      BY <1>6 DEF ToSet
    <3>2. f \in Found /\ f.merchant = h /\ f.product = l[i]
      BY <1>6, <1>7, <3>1
    <3>3. f.product \in ToSet(listing[f.merchant])
      BY <1>1, <3>2 DEF ToSet
    <3> QED  BY <3>2, <3>3 DEF StockOf
  <2>2. ASSUME NEW f \in StockOf({h}) PROVE f \in ToSet(feed)
    <3>1. f \in Found /\ f.merchant = h /\ f.product \in ToSet(l)
      BY <1>1 DEF StockOf
    <3>2. PICK i \in DOMAIN l : f.product = l[i]
      BY <3>1 DEF ToSet
    <3>3. f = [merchant |-> f.merchant, product |-> f.product]
      BY <3>1 DEF Found
    <3> QED  BY <1>6, <3>1, <3>2, <3>3 DEF ToSet
  <2> QED  BY <2>1, <2>2
<1> QED  BY <1>1, <1>4, <1>6, <1>8, <1>9, <1>10

LEMMA LoadStays ==
  ASSUME NEW order, Len(order) \in Nat, NEW feed,
         \A n \in 1..Len(order) : feed[order[n]] = FeedOf(order[n]),
         NEW A, <<>> \in A[0],
         \A n \in 1..Len(order) : \A acc \in A[n-1] : acc \o feed[order[n]] \in A[n]
  PROVE  loadCatalogProducts(order) \in A[Len(order)]
<1> DEFINE Eq(f) == f = [n \in 0..Len(order) |-> IF n = 0 THEN <<>> ELSE f[n-1] \o FeedOf(order[n])]
           Fed(f) == f = [n \in 0..Len(order) |-> IF n = 0 THEN <<>> ELSE f[n-1] \o feed[order[n]]]
           f == CHOOSE f : Eq(f)
<1>1. \A g : Runs("load", feed, <<>>, order, g) <=> Fed(g)
  BY DEF Runs, Body
<1>2. ASSUME NEW g PROVE Fed(g) <=> Eq(g)
  <2>1. \A n \in 0..Len(order) :
          (IF n = 0 THEN <<>> ELSE g[n-1] \o FeedOf(order[n]))
            = (IF n = 0 THEN <<>> ELSE g[n-1] \o feed[order[n]])
    OBVIOUS
  <2>2. [n \in 0..Len(order) |-> IF n = 0 THEN <<>> ELSE g[n-1] \o FeedOf(order[n])]
          = [n \in 0..Len(order) |-> IF n = 0 THEN <<>> ELSE g[n-1] \o feed[order[n]]]
    BY <2>1
  <2> QED  BY <2>2
<1>3. loadCatalogProducts(order) = f[Len(order)]
  BY DEF loadCatalogProducts, ForEach
<1>4. \A n \in 1..Len(order) : \A acc \in A[n-1] : Body("load", feed, acc, order[n]) \in A[n]
  BY DEF Body
<1>5. \E g : Runs("load", feed, <<>>, order, g)
  BY SomeRun
<1> HIDE DEF Eq, Fed
<1>6. Eq(f)
  BY <1>1, <1>2, <1>5
<1> HIDE DEF f
<1>7. PICK run : run = f
  OBVIOUS
<1>8. Runs("load", feed, <<>>, order, run)
  BY <1>1, <1>2, <1>6, <1>7
<1>9. run[Len(order)] \in A[Len(order)]
  BY <1>4, <1>8, RunStays
<1> QED  BY <1>3, <1>7, <1>9

LEMMA JoinedFeeds ==
  ASSUME NEW a \in Seq(Found), NEW b \in Seq(Found), Keyed(a), Keyed(b),
         \A i \in DOMAIN a, j \in DOMAIN b : a[i].merchant # b[j].merchant
  PROVE  /\ a \o b \in Seq(Found) /\ Keyed(a \o b)
         /\ ToSet(a \o b) = ToSet(a) \cup ToSet(b)
<1>1. PICK K \in Nat, L \in Nat : K = Len(a) /\ L = Len(b) /\ DOMAIN a = 1..K /\ DOMAIN b = 1..L
  OBVIOUS
<1>2. PICK c : c = a \o b
  OBVIOUS
<1>3. /\ c \in Seq(Found) /\ DOMAIN c = 1..(K + L)
      /\ \A i \in 1..(K + L) : c[i] = IF i <= K THEN a[i] ELSE b[i - K]
  BY <1>1, <1>2
<1>4. ASSUME NEW i \in 1..(K + L)
      PROVE  \/ i \in DOMAIN a /\ c[i] = a[i]
             \/ i - K \in DOMAIN b /\ c[i] = b[i - K]
  BY <1>1, <1>3
<1>5. /\ \A i \in DOMAIN a : i \in 1..(K + L) /\ c[i] = a[i]
      /\ \A j \in DOMAIN b : K + j \in 1..(K + L) /\ c[K + j] = b[j]
  <2>1. ASSUME NEW i \in 1..K PROVE i \in 1..(K + L) /\ c[i] = a[i]
    BY <1>3
  <2>2. ASSUME NEW j \in 1..L PROVE K + j \in 1..(K + L) /\ c[K + j] = b[j]
    <3>1. K + j \in 1..(K + L) /\ ~ (K + j <= K) /\ (K + j) - K = j
      OBVIOUS
    <3> QED  BY <1>3, <3>1
  <2> QED  BY <1>1, <2>1, <2>2
<1>6. Keyed(c)
  <2>1. ASSUME NEW i \in 1..(K + L), NEW j \in 1..(K + L), SameKey(c[i], c[j]) PROVE i = j
    <3>1. CASE i \in DOMAIN a /\ c[i] = a[i]
      <4>1. j \in DOMAIN a /\ c[j] = a[j]
        BY <1>4, <2>1, <3>1 DEF SameKey
      <4> QED  BY <2>1, <3>1, <4>1 DEF Keyed
    <3>2. CASE i - K \in DOMAIN b /\ c[i] = b[i - K]
      <4>1. j - K \in DOMAIN b /\ c[j] = b[j - K]
        BY <1>4, <2>1, <3>2 DEF SameKey
      <4>2. i - K = j - K
        BY <2>1, <3>2, <4>1 DEF Keyed
      <4> QED  BY <4>2
    <3> QED  BY <1>4, <3>1, <3>2
  <2> QED  BY <1>3, <2>1 DEF Keyed
<1>7. ToSet(c) = ToSet(a) \cup ToSet(b)
  BY <1>3, <1>4, <1>5 DEF ToSet
<1> QED  BY <1>2, <1>3, <1>6, <1>7

\* Each store is read once, in whatever order.
IsOrder(order, S) ==
  /\ order \in Seq(S) /\ ToSet(order) = S
  /\ \A i, j \in DOMAIN order : order[i] = order[j] => i = j

LEMMA LoadIs ==
  ASSUME Shops, NEW S \in SUBSET listStores, NEW order, IsOrder(order, S)
  PROVE  /\ loadCatalogProducts(order) \in Seq(Found) /\ Keyed(loadCatalogProducts(order))
         /\ ToSet(loadCatalogProducts(order)) = StockOf(S)
<1>0. Len(order) \in Nat /\ DOMAIN order = 1..Len(order)
  BY DEF IsOrder
<1>1. PICK feed : feed = [h \in S |-> FeedOf(h)]
  OBVIOUS
<1>2. PICK stock : stock = [n \in 0..Len(order) |-> StockOf({order[i] : i \in 1..n})]
  OBVIOUS
<1> DEFINE A == [n \in 0..Len(order) |-> {acc \in Seq(Found) : Keyed(acc) /\ ToSet(acc) = stock[n]}]
<1>3. <<>> \in A[0]
  <2>1. stock[0] = {}
    BY <1>0, <1>2 DEF StockOf
  <2> QED  BY <1>0, <2>1 DEF Keyed, ToSet
<1>4. ASSUME NEW n \in 1..Len(order) PROVE order[n] \in S /\ order[n] \in listStores
  BY <1>0 DEF IsOrder
<1>5. ASSUME NEW n \in 1..Len(order), NEW acc \in A[n-1] PROVE acc \o feed[order[n]] \in A[n]
  <2>1. n - 1 \in 0..Len(order) /\ n \in 0..Len(order) /\ n \in DOMAIN order
    BY <1>0
  <2>2. acc \in Seq(Found) /\ Keyed(acc) /\ ToSet(acc) = StockOf({order[i] : i \in 1..(n-1)})
    BY <1>2, <1>5, <2>1
  <2>3. PICK b : b = feed[order[n]]
    OBVIOUS
  <2>4. b = FeedOf(order[n])
    BY <1>1, <1>4, <2>3
  <2>5. b \in Seq(Found) /\ Keyed(b) /\ ToSet(b) = StockOf({order[n]})
    BY <1>4, <2>4, FeedIs
  <2>6. ASSUME NEW i \in DOMAIN acc, NEW j \in DOMAIN b PROVE acc[i].merchant # b[j].merchant
    <3>1. acc[i] \in ToSet(acc) /\ b[j] \in ToSet(b)
      BY DEF ToSet
    <3>2. PICK k \in 1..(n-1) : acc[i].merchant = order[k]
      BY <2>2, <3>1 DEF StockOf
    <3>3. b[j].merchant = order[n]
      BY <2>5, <3>1 DEF StockOf
    <3>4. k \in DOMAIN order /\ k # n
      BY <1>0, <2>1
    <3> QED  BY <2>1, <3>2, <3>3, <3>4 DEF IsOrder
  <2>7. PICK new : new = acc \o b
    OBVIOUS
  <2>8. new \in Seq(Found) /\ Keyed(new) /\ ToSet(new) = ToSet(acc) \cup ToSet(b)
    BY <2>2, <2>5, <2>6, <2>7, JoinedFeeds
  <2>9. {order[i] : i \in 1..n} = {order[i] : i \in 1..(n-1)} \cup {order[n]}
    <3>1. 1..n = 1..(n-1) \cup {n}
      BY <1>0
    <3> QED  BY <3>1
  <2>10. ToSet(new) = stock[n]
    BY <1>2, <2>1, <2>2, <2>5, <2>8, <2>9 DEF StockOf
  <2> QED  BY <2>1, <2>3, <2>7, <2>8, <2>10
<1>6. loadCatalogProducts(order) \in A[Len(order)]
  <2>1. \A n \in 1..Len(order) : feed[order[n]] = FeedOf(order[n])
    BY <1>1, <1>4
  <2> HIDE DEF A
  <2> QED  BY <1>0, <1>3, <1>5, <2>1, LoadStays
<1>7. PICK l : l = loadCatalogProducts(order)
  OBVIOUS
<1>8. l \in Seq(Found) /\ Keyed(l) /\ ToSet(l) = stock[Len(order)]
  BY <1>0, <1>6, <1>7
<1>9. stock[Len(order)] = StockOf(S)
  <2>1. {order[i] : i \in 1..Len(order)} = S
    BY <1>0 DEF IsOrder, ToSet
  <2> QED  BY <1>0, <1>2, <2>1
<1> QED  BY <1>7, <1>8, <1>9

LEMMA OrderIs ==
  ASSUME NEW S, IsFiniteSet(S), NEW order \in SetToSeqs(S)
  PROVE  IsOrder(order, S)
<1>1. PICK n \in Nat : n = Cardinality(S)
  BY FS_CardinalityType
<1>2. order \in [1..n -> S] /\ \A i, j \in 1..n : i # j => order[i] # order[j]
  BY <1>1 DEF SetToSeqs
<1>3. order \in Injection(1..n, S)
  BY <1>2 DEF Injection, IsInjective
<1>4. Cardinality(1..n) = Cardinality(S)
  BY <1>1, FS_Interval
<1>5. order \in Surjection(1..n, S)
  BY <1>3, <1>4, FS_Injection
<1>6. ToSet(order) = S
  BY <1>2, <1>5 DEF Surjection, ToSet
<1>7. order \in Seq(S) /\ DOMAIN order = 1..n
  BY <1>2
<1> QED  BY <1>2, <1>6, <1>7 DEF IsOrder

LEMMA SomeOrder ==
  ASSUME NEW S, IsFiniteSet(S)
  PROVE  SetToSeq(S) \in SetToSeqs(S)
<1>1. PICK f : f \in Bijection(1..Cardinality(S), S)
  BY FS_CardinalityType DEF ExistsBijection
<1>2. f \in [1..Cardinality(S) -> S] /\ IsInjective(f)
  BY <1>1 DEF Bijection, Injection
<1>3. SetToSeq(S) \in [1..Cardinality(S) -> S] /\ IsInjective(SetToSeq(S))
  BY <1>2 DEF SetToSeq
<1> QED  BY <1>3 DEF SetToSeqs, IsInjective

\* What a search asks besides its words.
Asked(f, maxPrice, inStockOnly) ==
  /\ maxPrice = Absent \/ f.product.price <= maxPrice
  /\ inStockOnly => f.product.stock

Scores(q) == [f \in Found |-> scoreProduct(f, q)]

LEMMA SearchIs ==
  ASSUME Shops, NEW S \in SUBSET listStores, NEW order, IsOrder(order, S),
         NEW q \in Query, NEW maxPrice, NEW inStockOnly
  PROVE  IsRanking(searchCatalog(order, q, maxPrice, inStockOnly),
                   Hits({f \in StockOf(S) : Asked(f, maxPrice, inStockOnly)}, Scores(q)), SearchLimit)
<1>1. PICK all : all = loadCatalogProducts(order)
  OBVIOUS
<1>2. all \in Seq(Found) /\ Keyed(all) /\ ToSet(all) = StockOf(S)
  BY <1>1, LoadIs
<1>3. PICK good : good = {f \in ToSet(all) : Asked(f, maxPrice, inStockOnly)}
  OBVIOUS
<1>4. PICK found : found = Keep(all, good)
  OBVIOUS
<1>5. PICK score : score = Scores(q)
  OBVIOUS
<1>6. score \in [Found -> Nat] /\ \A f \in Found : score[f] = scoreProduct(f, q)
  BY <1>5, ScoreIs DEF Scores
<1>7. SearchLimit \in Nat
  BY SearchAssumption
<1>8. IsRanking(Ranked(Scored(found, score), SearchLimit), Hits(ToSet(all) \cap good, score), SearchLimit)
  BY <1>2, <1>4, <1>6, <1>7, HitsRanked
<1>9. found \in Seq(Found \cap good)
  BY <1>2, <1>4, KeepIs
<1>10. Scored(found, score) = [i \in DOMAIN found |-> [found |-> found[i], score |-> scoreProduct(found[i], q)]]
  <2>1. \A i \in DOMAIN found : score[found[i]] = scoreProduct(found[i], q)
    BY <1>6, <1>9
  <2> QED  BY <2>1 DEF Scored
<1>11. searchCatalog(order, q, maxPrice, inStockOnly) = Ranked(Scored(found, score), SearchLimit)
  BY <1>1, <1>3, <1>4, <1>10 DEF searchCatalog, Asked
<1>12. ToSet(all) \cap good = {f \in StockOf(S) : Asked(f, maxPrice, inStockOnly)}
  BY <1>2, <1>3
<1> QED  BY <1>5, <1>8, <1>11, <1>12

\* A ranking holds hits only.
LEMMA RankingOf ==
  ASSUME NEW stock, NEW score, NEW limit \in Nat, NEW r, IsRanking(r, Hits(stock, score), limit)
  PROVE  \A i \in DOMAIN r : r[i] \in stock
<1>1. PICK l \in Seq(Entry) : InOrder(l) /\ ToSet(l) = Hits(stock, score) /\ r = Picked(First(limit, l))
  BY DEF IsRanking
<1>2. PICK t : t = First(limit, l)
  OBVIOUS
<1>3. \A i \in DOMAIN t : i \in DOMAIN l /\ t[i] = l[i]
  BY <1>2, FirstIs
<1>4. DOMAIN r = DOMAIN t /\ \A i \in DOMAIN t : r[i] = t[i].found
  BY <1>1, <1>2 DEF Picked
<1>5. \A i \in DOMAIN l : l[i].found \in stock
  BY <1>1 DEF Hits, ToSet
<1> QED  BY <1>3, <1>4, <1>5

\* What is listed is listed once, and the gate knows its price.
LEMMA ListedOnce ==
  ASSUME Shops, NEW f \in StockOf(listStores)
  PROVE  /\ Cardinality(IndexOf(listing[f.merchant], f.product.sku)) = 1
         /\ prices[f.merchant][f.product.sku] = f.product.price
<1>1. PICK h \in listStores : h = f.merchant
  BY DEF StockOf
<1>2. PICK l \in DistinctLists : l = listing[h] /\ prices[h] = Li!PricesOf(l)
  BY <1>1 DEF Shops, listStores, Carries
<1>3. PICK i \in DOMAIN l : f.product = l[i]
  BY <1>1, <1>2 DEF StockOf, ToSet
<1>4. Distinct(l) /\ DOMAIN l \subseteq Nat
  BY DEF DistinctLists
<1>5. PICK sku : sku = f.product.sku
  OBVIOUS
<1>6. \A j \in DOMAIN l : l[j].sku = sku <=> j = i
  BY <1>3, <1>4, <1>5 DEF Distinct
<1>7. IndexOf(l, sku) = {i}
  BY <1>6 DEF IndexOf
<1>8. Cardinality({i}) = 1
  BY FS_Singleton
<1>9. Li!PricesOf(l)[sku] = f.product.price
  <2> DEFINE last == CHOOSE j \in DOMAIN l :
                       l[j].sku = sku /\ \A k \in DOMAIN l : l[k].sku = sku => k <= j
  <2>1. sku \in Li!Skus(l)
    BY <1>3, <1>5 DEF Li!Skus
  <2>2. Li!PricesOf(l)[sku] = l[last].price
    BY <2>1 DEF Li!PricesOf
  <2>3. last = i
    BY <1>4, <1>6
  <2> QED  BY <1>3, <2>2, <2>3
<1> QED  BY <1>1, <1>2, <1>5, <1>7, <1>8, <1>9

LEMMA Fewer ==
  ASSUME NEW K \in Nat, NEW L \in Nat, NEW f \in [1..K -> 1..L], \A i, j \in 1..K : f[i] = f[j] => i = j
  PROVE  K <= L
<1>1. f \in Injection(1..K, 1..L)
  BY DEF Injection, IsInjective
<1>2. /\ IsFiniteSet(1..L) /\ Cardinality(1..L) = L
      /\ IsFiniteSet(1..K) /\ Cardinality(1..K) = K
  BY FS_Interval
<1>3. Cardinality(1..K) <= Cardinality(1..L)
  BY <1>1, <1>2, FS_Injection
<1> QED  BY <1>2, <1>3

\* The hits among a store's products are not more than those.
LEMMA HitsFit ==
  ASSUME NEW l \in Seq(Entry), InOrder(l), NEW stock, NEW score, ToSet(l) = Hits(stock, score),
         NEW h, NEW s \in Seq(ScannedProduct),
         \A f \in stock : f.merchant = h /\ f.product \in ToSet(s)
  PROVE  Len(l) <= Len(s)
<1>1. PICK K \in Nat, L \in Nat : K = Len(l) /\ L = Len(s) /\ DOMAIN l = 1..K /\ DOMAIN s = 1..L
  OBVIOUS
<1>2. ASSUME NEW i \in 1..K
      PROVE  /\ l[i] \in Entry /\ l[i].found \in Found /\ l[i].found.merchant = h
             /\ l[i].score = score[l[i].found] /\ \E k \in 1..L : s[k] = l[i].found.product
  <2>1. l[i] \in Hits(stock, score)
    BY <1>1 DEF ToSet
  <2>2. l[i] \in Entry /\ l[i].found \in stock /\ l[i].score = score[l[i].found]
    BY <2>1 DEF Hits
  <2> QED  BY <1>1, <2>2 DEF Entry, ToSet
<1>3. PICK at : at = [i \in 1..K |-> CHOOSE k \in 1..L : s[k] = l[i].found.product]
  OBVIOUS
<1>4. ASSUME NEW i \in 1..K PROVE at[i] \in 1..L /\ s[at[i]] = l[i].found.product
  BY <1>2, <1>3
<1>5. ASSUME NEW i \in 1..K, NEW j \in 1..K, at[i] = at[j] PROVE i = j
  <2>1. l[i].found.merchant = l[j].found.merchant /\ l[i].found.product = l[j].found.product
    BY <1>2, <1>4, <1>5
  <2>2. l[i].found = [merchant |-> l[i].found.merchant, product |-> l[i].found.product]
    BY <1>2 DEF Found
  <2>3. l[j].found = [merchant |-> l[j].found.merchant, product |-> l[j].found.product]
    BY <1>2 DEF Found
  <2>4. l[i].found = l[j].found /\ l[i].score = l[j].score
    BY <1>2, <2>1, <2>2, <2>3
  <2>5. l[i] = [found |-> l[i].found, score |-> l[i].score] /\ l[j] = [found |-> l[j].found, score |-> l[j].score]
    BY <1>2 DEF Entry
  <2>6. l[i] = l[j]
    BY <2>4, <2>5
  <2>7. ~ compareRanked(l[i], l[j]) /\ ~ compareRanked(l[j], l[i])
    BY <1>2, <2>6, ComparedIs
  <2>8. ~ (i < j) /\ ~ (j < i)
    BY <1>1, <2>7 DEF InOrder
  <2> QED  BY <2>8
<1>6. at \in [1..K -> 1..L]
  BY <1>3, <1>4
<1> QED  BY <1>1, <1>5, <1>6, Fewer

\* The order in which the stores come does not show.
LEMMA AnyOrder ==
  ASSUME Shops, NEW q \in Query, NEW maxPrice, NEW inStockOnly
  PROVE  LET Answer(order) == searchCatalog(order, q, maxPrice, inStockOnly)
             shown == ShownAll(Answer(SetToSeq(listStores)))
         IN /\ \A order \in SetToSeqs(listStores) : ShownAll(Answer(order)) = shown
            /\ \A i \in DOMAIN shown :
                 /\ Cardinality(IndexOf(listing[shown[i].merchant], shown[i].sku)) = 1
                 /\ prices[shown[i].merchant][shown[i].sku] = shown[i].price
<1>1. PICK S : S = listStores
  OBVIOUS
<1>2. IsFiniteSet(S)
  <2>1. S \in SUBSET Host /\ IsFiniteSet(Host)
    BY <1>1, SearchAssumption DEF listStores
  <2> QED  BY <2>1, FS_Subset
<1>3. PICK hits : hits = Hits({f \in StockOf(S) : Asked(f, maxPrice, inStockOnly)}, Scores(q))
  OBVIOUS
<1>4. ASSUME NEW order \in SetToSeqs(S)
      PROVE  IsRanking(searchCatalog(order, q, maxPrice, inStockOnly), hits, SearchLimit)
  <2>1. IsOrder(order, S) /\ S \in SUBSET listStores
    BY <1>1, <1>2, OrderIs
  <2> QED  BY <1>3, <2>1, SearchIs
<1>5. PICK first : first = SetToSeq(S)
  OBVIOUS
<1>6. first \in SetToSeqs(S)
  BY <1>2, <1>5, SomeOrder
<1>7. PICK r : r = searchCatalog(first, q, maxPrice, inStockOnly)
  OBVIOUS
<1>8. IsRanking(r, hits, SearchLimit)
  BY <1>4, <1>6, <1>7
<1>9. \A order \in SetToSeqs(S) : searchCatalog(order, q, maxPrice, inStockOnly) = r
  BY <1>4, <1>8, OneRanking
<1>10. PICK shown : shown = ShownAll(r)
  OBVIOUS
<1>11. ASSUME NEW i \in DOMAIN shown
       PROVE  /\ Cardinality(IndexOf(listing[shown[i].merchant], shown[i].sku)) = 1
              /\ prices[shown[i].merchant][shown[i].sku] = shown[i].price
  <2>1. i \in DOMAIN r /\ shown[i] = Shown(r[i])
    BY <1>10 DEF ShownAll
  <2>2. r[i] \in {f \in StockOf(S) : Asked(f, maxPrice, inStockOnly)}
    BY <1>3, <1>8, <2>1, RankingOf, SearchAssumption
  <2>3. PICK f : f = r[i]
    OBVIOUS
  <2>4. f \in StockOf(listStores)
    BY <1>1, <2>2, <2>3
  <2>5. shown[i].merchant = f.merchant /\ shown[i].sku = f.product.sku /\ shown[i].price = f.product.price
    BY <2>1, <2>3 DEF Shown
  <2> QED  BY <2>4, <2>5, ListedOnce
<1> QED  BY <1>1, <1>5, <1>7, <1>9, <1>10, <1>11

\* What the tool that searches one store finds, the search finds there.
LEMMA ToolAgrees ==
  ASSUME Shops, NEW h \in listStores, Len(listing[h]) <= SearchLimit, NEW q \in Query
  PROVE  ToSet(searchProducts(h, q).products) \subseteq
           ToSet(ShownAll(searchCatalog(<<h>>, q, Absent, FALSE)))
<1>1. PICK L \in DistinctLists : L = listing[h]
  BY FeedIs
<1>2. PICK feed : feed = FeedOf(h)
  OBVIOUS
<1>3. feed \in Seq(Found) /\ ToSet(feed) = StockOf({h})
  BY <1>2, FeedIs
<1>4. PICK r : r = searchCatalog(<<h>>, q, Absent, FALSE)
  OBVIOUS
<1>5. PICK stock : stock = {f \in StockOf({h}) : Asked(f, Absent, FALSE)}
  OBVIOUS
<1>6. stock = ToSet(feed)
  BY <1>3, <1>5 DEF Asked
<1>7. IsRanking(r, Hits(stock, Scores(q)), SearchLimit)
  <2>1. IsOrder(<<h>>, {h}) /\ {h} \in SUBSET listStores
    BY DEF IsOrder, ToSet
  <2> QED  BY <1>4, <1>5, <2>1, SearchIs
<1>8. PICK score : score = Scores(q)
  OBVIOUS
<1>9. PICK l \in Seq(Entry) : InOrder(l) /\ ToSet(l) = Hits(stock, score) /\ r = Picked(First(SearchLimit, l))
  BY <1>7, <1>8 DEF IsRanking
<1>10. Len(l) <= Len(L)
  <2>1. L \in Seq(ScannedProduct)
    BY DEF DistinctLists
  <2>2. \A f \in stock : f.merchant = h /\ f.product \in ToSet(L)
    BY <1>1, <1>5 DEF StockOf
  <2> QED  BY <1>9, <2>1, <2>2, HitsFit
<1>11. First(SearchLimit, l) = l
  <2>1. PICK K \in Nat, N \in Nat, limit \in Nat : K = Len(l) /\ N = Len(L) /\ limit = SearchLimit
    BY SearchAssumption DEF DistinctLists
  <2>2. K <= limit
    BY <1>1, <1>10, <2>1
  <2> QED  BY <2>1, <2>2, FirstIs
<1>12. r = Picked(l)
  BY <1>9, <1>11
<1>13. ASSUME NEW x \in ToSet(searchProducts(h, q).products) PROVE x \in ToSet(ShownAll(r))
  <2> DEFINE Says(f) == \E x_1 \in {"title", "brand"} : Whole[q][f.product.name][x_1] # "none"
  <2>1. PICK good : good = {f \in ToSet(feed) : Says(f)}
    OBVIOUS
  <2>2. PICK matches : matches = Keep(feed, good)
    OBVIOUS
  <2>3. matches \in Seq(Found \cap good)
    BY <1>3, <2>2, KeepIs
  <2>4. PICK t : t = First(ToolLimit, matches)
    OBVIOUS
  <2>5. \A i \in DOMAIN t : i \in DOMAIN matches /\ t[i] = matches[i]
    BY <2>3, <2>4, FirstIs, SearchAssumption
  <2>6. searchProducts(h, q).products = ShownAll(t)
    <3>1. q # Absent
      BY SearchAssumption
    <3> QED  BY <1>2, <2>1, <2>2, <2>4, <3>1 DEF searchProducts
  <2>7. PICK i \in DOMAIN t : x = Shown(t[i])
    BY <1>13, <2>6 DEF ShownAll, ToSet
  <2>8. PICK f : f = t[i]
    OBVIOUS
  <2>9. f \in Found /\ f \in good
    BY <2>3, <2>5, <2>8
  <2>10. scoreProduct(f, q) \in Nat /\ scoreProduct(f, q) > 0
    BY <2>1, <2>9, ScoreIs
  <2>11. PICK e : e = [found |-> f, score |-> scoreProduct(f, q)]
    OBVIOUS
  <2>12. e \in Entry /\ e.found = f /\ e.score = score[f] /\ e.score > 0
    BY <1>8, <2>9, <2>10, <2>11 DEF Entry, Scores
  <2>13. e \in ToSet(l)
    BY <1>6, <1>9, <2>1, <2>9, <2>12 DEF Hits
  <2>14. PICK k \in DOMAIN l : l[k] = e
    BY <2>13 DEF ToSet
  <2>15. k \in DOMAIN r /\ r[k] = f
    BY <1>12, <2>12, <2>14 DEF Picked
  <2> QED  BY <2>7, <2>8, <2>15 DEF ShownAll, ToSet
<1> QED  BY <1>4, <1>13

LEMMA ComplementIs ==
  ASSUME NEW base \in ScannedProduct, NEW f \in Found
  PROVE  scoreComplement(base, f) \in Nat
<1>1. base.name \in Name /\ f.product.name \in Name
  BY DEF Found, ScannedProduct
<1>2. PICK common : common = TitleTokens[base.name] \cap TitleTokens[f.product.name]
  OBVIOUS
<1>3. IsFiniteSet(TitleTokens[base.name]) /\ common \in SUBSET TitleTokens[base.name]
  BY <1>1, <1>2, SearchAssumption
<1>4. PICK n \in Nat : n = Cardinality(common)
  BY <1>3, FS_Subset, FS_CardinalityType
<1> QED  BY <1>2, <1>4 DEF scoreComplement

\* What is suggested with a product is something else the store has.
LEMMA UpsellIs ==
  ASSUME Shops, NEW h \in listStores, NEW p \in ToSet(listing[h])
  PROVE  LET more == ShownAll(getUpsell(h, p.sku))
         IN /\ Len(more) <= storeInfo(h).in_stock_count
            /\ \A i \in DOMAIN more : more[i].stock /\ more[i].sku # p.sku
<1>1. PICK L \in DistinctLists : L = listing[h]
  BY FeedIs
<1>2. L \in Seq(ScannedProduct) /\ DOMAIN L \subseteq Nat
  BY DEF DistinctLists
<1>3. PICK feed : feed = FeedOf(h)
  OBVIOUS
<1>4. feed \in Seq(Found) /\ Keyed(feed) /\ ToSet(feed) = StockOf({h})
  BY <1>3, FeedIs
<1>5. PICK sku : sku = p.sku
  OBVIOUS
<1>6. PICK at : at = IndexOf(L, sku)
  OBVIOUS
<1>7. at # {} /\ at \subseteq DOMAIN L
  BY <1>1, <1>5, <1>6 DEF IndexOf, ToSet
<1>8. Min(at) \in DOMAIN L
  BY <1>2, <1>7, MinIn
<1>9. PICK base \in ScannedProduct : base = L[Min(at)]
  BY <1>2, <1>8
<1>10. PICK good : good = {f \in ToSet(feed) : f.product.sku # sku /\ f.product.stock}
  OBVIOUS
<1>11. PICK found : found = Keep(feed, good)
  OBVIOUS
<1>12. PICK score : score = [f \in Found |-> scoreComplement(base, f)]
  OBVIOUS
<1>13. score \in [Found -> Nat]
  BY <1>12, ComplementIs
<1>14. PICK r : r = getUpsell(h, sku)
  OBVIOUS
<1>15. r = Ranked(Scored(found, score), UpsellLimit)
  <2>1. found \in Seq(Found \cap good)
    BY <1>4, <1>11, KeepIs
  <2>2. \A i \in DOMAIN found : score[found[i]] = scoreComplement(base, found[i])
    BY <1>12, <2>1
  <2>3. Scored(found, score)
          = [i \in DOMAIN found |-> [found |-> found[i], score |-> scoreComplement(base, found[i])]]
    BY <2>2 DEF Scored
  <2>4. Carries(h) /\ IndexOf(listing[h], sku) = at /\ base = listing[h][Min(at)]
    BY <1>1, <1>6, <1>9 DEF listStores
  <2> QED  BY <1>3, <1>7, <1>10, <1>11, <1>14, <2>3, <2>4 DEF getUpsell
<1>16. PICK stock : stock = ToSet(feed) \cap good
  OBVIOUS
<1>17. IsRanking(r, Hits(stock, score), UpsellLimit)
  BY <1>4, <1>11, <1>13, <1>15, <1>16, HitsRanked, SearchAssumption
<1>18. PICK l \in Seq(Entry) : InOrder(l) /\ ToSet(l) = Hits(stock, score) /\ r = Picked(First(UpsellLimit, l))
  BY <1>17 DEF IsRanking
<1>19. PICK having : having = {x \in ToSet(L) : x.stock}
  OBVIOUS
<1>20. PICK had : had = Keep(L, having)
  OBVIOUS
<1>21. had \in Seq(ScannedProduct \cap having) /\ Holds(had, L, having)
  BY <1>2, <1>20, KeepIs
<1>22. had \in Seq(ScannedProduct)
  BY <1>21
<1>23. ASSUME NEW f \in stock PROVE f.merchant = h /\ f.product \in ToSet(had)
  <2>1. f.merchant = h /\ f.product \in ToSet(L) /\ f.product.stock
    BY <1>1, <1>4, <1>10, <1>16 DEF StockOf
  <2>2. PICK i \in DOMAIN L : f.product = L[i] /\ L[i] \in having
    BY <1>19, <2>1 DEF ToSet
  <2> QED  BY <1>21, <2>1, <2>2 DEF Holds, ToSet
<1>24. Len(l) <= Len(had)
  BY <1>18, <1>22, <1>23, HitsFit
<1>25. PICK t : t = First(UpsellLimit, l)
  OBVIOUS
<1>26. t \in Seq(Entry) /\ Len(t) <= Len(l)
  BY <1>25, FirstIs, SearchAssumption
<1>27. PICK more : more = ShownAll(r)
  OBVIOUS
<1>28. Len(more) = Len(t)
  <2>1. PICK n \in Nat : n = Len(t) /\ DOMAIN t = 1..n
    BY <1>26
  <2>2. DOMAIN r = 1..n
    BY <1>18, <1>25, <2>1 DEF Picked
  <2>3. more = [i \in 1..n |-> Shown(r[i])]
    BY <1>27, <2>2 DEF ShownAll
  <2>4. more \in [1..n -> {Shown(r[i]) : i \in 1..n}]
    BY <2>3
  <2>5. PICK T : T = {Shown(r[i]) : i \in 1..n}
    OBVIOUS
  <2>6. more \in Seq(T) /\ DOMAIN more = 1..n
    BY <2>4, <2>5
  <2> QED  BY <2>1, <2>6
<1>29. Len(more) <= storeInfo(h).in_stock_count
  <2>1. PICK a \in Nat, b \in Nat, c \in Nat : a = Len(t) /\ b = Len(l) /\ c = Len(had)
    BY <1>22, <1>26
  <2>2. storeInfo(h).in_stock_count = Len(had)
    BY <1>1, <1>19, <1>20 DEF storeInfo
  <2> QED  BY <1>24, <1>26, <1>28, <2>1, <2>2
<1>30. ASSUME NEW i \in DOMAIN more PROVE more[i].stock /\ more[i].sku # sku
  <2>1. i \in DOMAIN r /\ more[i] = Shown(r[i])
    BY <1>27 DEF ShownAll
  <2>2. r[i] \in good
    BY <1>16, <1>17, <2>1, RankingOf, SearchAssumption
  <2> QED  BY <1>10, <2>1, <2>2 DEF Shown
<1> QED  BY <1>5, <1>14, <1>27, <1>29, <1>30

\* SearchSettled: a search's answer depends on what is listed and asked alone.
LEMMA ShopsSettle ==
  ASSUME Shops PROVE SearchSettled
<1>1. ASSUME NEW h \in listStores
      PROVE  /\ Len(listing[h]) <= SearchLimit => \A q \in Query :
                  ToSet(searchProducts(h, q).products) \subseteq
                    ToSet(ShownAll(searchCatalog(<<h>>, q, Absent, FALSE)))
             /\ \A p \in ToSet(listing[h]) :
                  LET more == ShownAll(getUpsell(h, p.sku))
                  IN /\ Len(more) <= storeInfo(h).in_stock_count
                     /\ \A i \in DOMAIN more : more[i].stock /\ more[i].sku # p.sku
  BY ToolAgrees, UpsellIs
<1>2. ASSUME NEW q \in Query, NEW maxPrice \in {Absent, 1}, NEW inStockOnly \in BOOLEAN
      PROVE  LET Answer(order) == searchCatalog(order, q, maxPrice, inStockOnly)
                 shown == ShownAll(Answer(SetToSeq(listStores)))
             IN /\ \A order \in SetToSeqs(listStores) : ShownAll(Answer(order)) = shown
                /\ \A i \in DOMAIN shown :
                     /\ Cardinality(IndexOf(listing[shown[i].merchant], shown[i].sku)) = 1
                     /\ prices[shown[i].merchant][shown[i].sku] = shown[i].price
  BY AnyOrder
<1> QED  BY <1>1, <1>2 DEF SearchSettled

\* SearchSettled: whatever scans ran, and in whatever order SQLite returns the stores, a search
\* ranks alike, shows what its store lists once at the price the gate knows, and misses nothing
\* the one-store tool finds; an upsell is something else in stock (compareRanked, GET
\* /catalog/search, GET /catalog/:merchant_id/upsell, upsertStoreCatalog).
THEOREM SearchIsSettled == Spec => []SearchSettled
<1>1. Spec => []Shops
  BY ShopsFirst, ShopsStep, ScansInvariant, PTL DEF Spec
<1> QED  BY <1>1, ShopsSettle, PTL
=============================================================================
