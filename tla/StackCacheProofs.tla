-------------------------- MODULE StackCacheProofs --------------------------
(***************************************************************************)
(* The lists of stacks and their cache, for any number of stacks and       *)
(* creators, any sizes and any limit: IInv is inductive, one lemma per     *)
(* action; from it follow what a creator is given, which stacks a          *)
(* deallocation frees, and that the cache implements StackPool.  The       *)
(* lemmas before are about the folds that search and free_stacks are       *)
(* written with, and about sums of sizes.                                  *)
(***************************************************************************)
EXTENDS StackCache, FiniteSetTheorems, SequenceTheorems, WellFoundedInduction, TLAPS

(***************************************************************************)
(* Induction, as facts about sets: the library's theorems take an operator *)
(* as a parameter, these take the set of the values that have a property.  *)
(***************************************************************************)

(* A set of natural numbers has a least one. *)
LEMMA Least ==
  ASSUME NEW S \in SUBSET Nat, S # {}
  PROVE  \E n \in S : \A k \in S : n <= k
<1> DEFINE R == {ss \in Nat \X Nat : ss[1] < ss[2]}
<1>1. IsWellFoundedOn(R, Nat)
  BY NatLessThanWellFounded, Zenon DEF OpToRel
<1> HIDE DEF R
<1>2. PICK n \in S : \A k \in S : ~ (<<k, n>> \in R)
  BY <1>1, WFMin
<1>3. ASSUME NEW k \in S, ~ (n <= k) PROVE FALSE
  <2>1. n \in Nat /\ k \in Nat /\ k < n
    BY <1>3
  <2>2. <<k, n>> \in Nat \X Nat /\ <<k, n>>[1] = k /\ <<k, n>>[2] = n
    BY <2>1
  <2>3. <<k, n>> \in R
    BY <2>1, <2>2, Zenon DEF R
  <2> QED BY <1>2, <2>3
<1> QED BY <1>3

(* A set that has 0 and the successor of each of its numbers has all. *)
LEMMA Induction ==
  ASSUME NEW G, 0 \in G, \A n \in Nat : n \in G => n + 1 \in G
  PROVE  \A n \in Nat : n \in G
<1> SUFFICES ASSUME NEW m \in Nat, m \notin G PROVE FALSE
  OBVIOUS
<1> DEFINE B == {n \in Nat : n \notin G}
<1>1. PICK n \in B : \A k \in B : n <= k
  <2>1. B \in SUBSET Nat /\ m \in B
    OBVIOUS
  <2> HIDE DEF B
  <2> QED BY <2>1, Least
<1>2. n # 0
  OBVIOUS
<1>3. n - 1 \in Nat /\ n - 1 \notin B
  BY <1>1, <1>2
<1>4. n - 1 \in G
  BY <1>3
<1> QED BY <1>3, <1>4

(* What holds of the empty set, and of every set if it holds of the set      *)
(* without any one of its elements, holds of every finite set.               *)
LEMMA SubsetInduction ==
  ASSUME NEW D, IsFiniteSet(D), NEW G, {} \in G,
         \A t \in SUBSET D : t # {} /\ (\A x \in t : t \ {x} \in G) => t \in G
  PROVE  \A t \in SUBSET D : t \in G
<1> DEFINE H == {n \in Nat : \A t \in SUBSET D : Cardinality(t) = n => t \in G}
<1>1. \A t \in SUBSET D : IsFiniteSet(t) /\ Cardinality(t) \in Nat
  BY FS_Subset, FS_CardinalityType
<1>2. 0 \in H
  BY <1>1, FS_EmptySet
<1>3. ASSUME NEW n \in Nat, n \in H PROVE n + 1 \in H
  <2> SUFFICES ASSUME NEW t \in SUBSET D, Cardinality(t) = n + 1 PROVE t \in G
    OBVIOUS
  <2>0. Cardinality({}) # n + 1
    BY FS_EmptySet
  <2>1. t # {}
    BY <2>0
  <2>3. \A x \in t : Cardinality(t \ {x}) = n
    BY <1>1, FS_RemoveElement
  <2>4. \A x \in t : t \ {x} \in G
    BY <1>3, <2>3
  <2> QED BY <2>1, <2>4
<1> HIDE DEF H
<1>4. \A n \in Nat : n \in H
  BY <1>2, <1>3, Induction
<1> QED BY <1>1, <1>4 DEF H

(* A function defined by recursion over the subsets of a finite set exists:  *)
(* ch is the element that is taken away, F combines it with the value of the *)
(* rest.                                                                     *)
IsChoice(ch, D) == \A t \in SUBSET D : t # {} => ch[t] \in t
IsFold(g, D, base, F, ch) ==
  \A t \in SUBSET D : g[t] = IF t = {} THEN base ELSE F[ch[t]][g[t \ {ch[t]}]]

(* A fold over the subsets of a finite set is a function into the values. *)
LEMMA FoldExists ==
  ASSUME NEW D, IsFiniteSet(D), NEW V, NEW base \in V, NEW F \in [D -> [V -> V]],
         NEW ch, IsChoice(ch, D)
  PROVE  \E g \in [SUBSET D -> V] : IsFold(g, D, base, F, ch)
<1> USE DEF IsChoice
<1> DEFINE L(n) == {t \in SUBSET D : Cardinality(t) <= n}
           Sol(g, n) == \A t \in L(n) : g[t] = IF t = {} THEN base ELSE F[ch[t]][g[t \ {ch[t]}]]
           H == {n \in Nat : \E g \in [SUBSET D -> V] : Sol(g, n)}
<1>1. \A t \in SUBSET D : IsFiniteSet(t) /\ Cardinality(t) \in Nat
  BY FS_Subset, FS_CardinalityType
<1>2. 0 \in H
  <2> DEFINE g == [t \in SUBSET D |-> base]
  <2>1. \A t \in L(0) : t = {}
    BY <1>1, FS_EmptySet
  <2>2. Sol(g, 0) /\ g \in [SUBSET D -> V]
    BY <2>1
  <2> QED BY <2>2
<1>3. ASSUME NEW n \in Nat, n \in H PROVE n + 1 \in H
  <2>1. PICK g \in [SUBSET D -> V] : Sol(g, n)
    BY <1>3
  <2> DEFINE h == [t \in SUBSET D |-> IF t = {} THEN base ELSE IF t \in L(n) THEN g[t]
                                      ELSE F[ch[t]][g[t \ {ch[t]}]]]
  <2>2. \A t \in SUBSET D : t # {} =>
          /\ ch[t] \in D /\ t \ {ch[t]} \in SUBSET D
          /\ Cardinality(t \ {ch[t]}) = Cardinality(t) - 1
    BY <1>1, FS_RemoveElement
  <2>3. h \in [SUBSET D -> V]
    BY <2>2
  <2>4. ASSUME NEW t \in L(n + 1) PROVE h[t] = IF t = {} THEN base ELSE F[ch[t]][h[t \ {ch[t]}]]
    <3>1. CASE t = {}
      BY <3>1
    <3>2. CASE t # {}
      <4> DEFINE r == t \ {ch[t]}
      <4>1. r \in L(n)
        BY <1>1, <2>2, <3>2
      <4>2. h[r] = g[r]
        <5>1. CASE r = {}
          BY <2>1, <4>1, <5>1
        <5>2. CASE r # {}
          BY <4>1, <5>2
        <5> QED BY <5>1, <5>2
      <4>3. h[t] = F[ch[t]][g[r]]
        BY <2>1, <3>2
      <4> QED BY <3>2, <4>2, <4>3
    <3> QED BY <3>1, <3>2
  <2>5. Sol(h, n + 1)
    BY <2>4
  <2> HIDE DEF h, Sol
  <2> QED BY <2>3, <2>5
<1>4. \A n \in Nat : n \in H
  <2> HIDE DEF H
  <2> QED BY <1>2, <1>3, Induction
<1>5. PICK g \in [SUBSET D -> V] : Sol(g, Cardinality(D))
  BY <1>1, <1>4
<1>6. \A t \in SUBSET D : t \in L(Cardinality(D))
  BY FS_Subset
<1> QED BY <1>5, <1>6 DEF IsFold

-----------------------------------------------------------------------------
(* Sums of sizes.  MapThenSumSet takes the elements in some order, of which  *)
(* the sum does not depend.                                                  *)
Total(sz, S) == MapThenSumSet(LAMBDA s : sz[s], S)

any(t) == CHOOSE x \in t : TRUE
IsTotal(g, sz, S) ==
  \A t \in SUBSET S : g[t] = IF t = {} THEN 0 ELSE sz[any(t)] + g[t \ {any(t)}]

(* The sum is the value of a function that obeys the recursion. *)
LEMMA TotalFunction ==
  ASSUME NEW S, IsFiniteSet(S), NEW sz, \A x \in S : sz[x] \in Nat
  PROVE  \E g : IsTotal(g, sz, S) /\ Total(sz, S) = g[S]
<1> DEFINE Body(g) == [t \in SUBSET S |-> IF t = {} THEN 0
                         ELSE sz[any(t)] + g[t \ {any(t)}]]
           F == [x \in S |-> [v \in Nat |-> sz[x] + v]]
           ch == [t \in SUBSET S |-> any(t)]
<1>1. Total(sz, S) = (CHOOSE g : g = Body(g))[S]
  BY DEF Total, MapThenSumSet, MapThenFoldSet, any
<1>2. IsChoice(ch, S)
  BY DEF any, IsChoice
<1>3. F \in [S -> [Nat -> Nat]] /\ 0 \in Nat
  OBVIOUS
<1>4. PICK g \in [SUBSET S -> Nat] : IsFold(g, S, 0, F, ch)
  <2> HIDE DEF F, ch
  <2> QED BY <1>2, <1>3, FoldExists
<1>5. \A t \in SUBSET S : g[t] = Body(g)[t]
  <2> SUFFICES ASSUME NEW t \in SUBSET S PROVE g[t] = Body(g)[t]
    OBVIOUS
  <2>1. CASE t = {}
    BY <1>4, <2>1 DEF IsFold
  <2>2. CASE t # {}
    <3>1. g[t] = F[ch[t]][g[t \ {ch[t]}]] /\ ch[t] \in S /\ g[t \ {ch[t]}] \in Nat /\ ch[t] = any(t)
      BY <1>2, <1>4, <2>2 DEF IsFold, IsChoice
    <3>2. g[t] = sz[ch[t]] + g[t \ {ch[t]}]
      BY <1>3, <3>1
    <3> QED BY <2>2, <3>1, <3>2
  <2> QED BY <2>1, <2>2
<1>6. g = Body(g)
  BY <1>5
<1> DEFINE c == CHOOSE h : h = Body(h)
<1>7. c = Body(c)
  BY <1>6
<1>8. Total(sz, S) = c[S]
  BY <1>1
<1> HIDE DEF c
<1>9. IsTotal(c, sz, S)
  BY <1>7 DEF IsTotal
<1> QED BY <1>8, <1>9

(* The recursion determines the function, from the sizes it uses. *)
LEMMA TotalUnique ==
  ASSUME NEW S, IsFiniteSet(S), NEW sz, NEW rz, \A x \in S : sz[x] = rz[x],
         NEW T, S \subseteq T, NEW g, IsTotal(g, sz, S), NEW h, IsTotal(h, rz, T)
  PROVE  \A t \in SUBSET S : g[t] = h[t]
<1> DEFINE G == {t \in SUBSET S : g[t] = h[t]}
<1>1. {} \in G
  BY {} \in SUBSET S, {} \in SUBSET T DEF IsTotal
<1>2. ASSUME NEW t \in SUBSET S, t # {}, \A x \in t : t \ {x} \in G PROVE t \in G
  <2>1. any(t) \in t
    BY <1>2 DEF any
  <2>2. g[t \ {any(t)}] = h[t \ {any(t)}] /\ sz[any(t)] = rz[any(t)]
    BY <1>2, <2>1
  <2> QED BY <1>2, <2>2 DEF IsTotal
<1> HIDE DEF G
<1>3. \A t \in SUBSET S : t \in G
  BY <1>1, <1>2, SubsetInduction
<1> QED BY <1>3 DEF G

(* The sum over the same elements with the same sizes is the same. *)
LEMMA TotalSame ==
  ASSUME NEW S, IsFiniteSet(S), NEW sz, NEW rz, \A x \in S : sz[x] \in Nat /\ sz[x] = rz[x]
  PROVE  Total(sz, S) = Total(rz, S)
<1>1. PICK g : IsTotal(g, sz, S) /\ Total(sz, S) = g[S]
  BY TotalFunction
<1>2. PICK h : IsTotal(h, rz, S) /\ Total(rz, S) = h[S]
  BY TotalFunction
<1>3. g[S] = h[S]
  BY <1>1, <1>2, TotalUnique
<1> QED BY <1>1, <1>2, <1>3

(* The sum over no stack. *)
LEMMA TotalEmpty ==
  ASSUME NEW sz
  PROVE  Total(sz, {}) = 0
<1>1. PICK g : IsTotal(g, sz, {}) /\ Total(sz, {}) = g[{}]
  BY TotalFunction, FS_EmptySet
<1> QED BY <1>1, {} \in SUBSET {} DEF IsTotal

(* The sum, with the stack that CHOOSE takes out first. *)
LEMMA TotalAny ==
  ASSUME NEW S, IsFiniteSet(S), S # {}, NEW sz, \A x \in S : sz[x] \in Nat
  PROVE  Total(sz, S) = sz[any(S)] + Total(sz, S \ {any(S)})
<1> DEFINE T == S \ {any(S)}
<1>1. IsFiniteSet(T) /\ any(S) \in S
  BY FS_RemoveElement DEF any
<1>2. PICK g : IsTotal(g, sz, S) /\ Total(sz, S) = g[S]
  BY TotalFunction
<1>3. PICK h : IsTotal(h, sz, T) /\ Total(sz, T) = h[T]
  BY <1>1, TotalFunction
<1>4. h[T] = g[T]
  <2>0. T \subseteq S /\ \A x \in T : sz[x] = sz[x]
    OBVIOUS
  <2> HIDE DEF T
  <2>1. \A t \in SUBSET T : h[t] = g[t]
    BY <1>1, <1>2, <1>3, <2>0, TotalUnique
  <2> QED BY <2>1
<1>5. g[S] = sz[any(S)] + g[T]
  BY <1>2 DEF IsTotal
<1> QED BY <1>2, <1>3, <1>4, <1>5

(* The sum of sizes is a number. *)
LEMMA TotalNat ==
  ASSUME NEW D, IsFiniteSet(D), NEW sz, \A x \in D : sz[x] \in Nat
  PROVE  Total(sz, D) \in Nat
<1> DEFINE G == {t \in SUBSET D : Total(sz, t) \in Nat}
<1>1. {} \in G
  BY TotalEmpty
<1>2. ASSUME NEW t \in SUBSET D, t # {}, \A x \in t : t \ {x} \in G PROVE t \in G
  <2>1. IsFiniteSet(t) /\ any(t) \in t
    BY <1>2, FS_Subset DEF any
  <2>2. Total(sz, t) = sz[any(t)] + Total(sz, t \ {any(t)})
    BY <1>2, <2>1, TotalAny
  <2> QED BY <1>2, <2>1, <2>2
<1> HIDE DEF G
<1>3. \A t \in SUBSET D : t \in G
  BY <1>1, <1>2, SubsetInduction
<1> QED BY <1>3 DEF G

(* An element is taken out of a sum, whichever it is. *)
LEMMA TotalRemove ==
  ASSUME NEW D, IsFiniteSet(D), NEW sz, \A x \in D : sz[x] \in Nat
  PROVE  /\ Total(sz, D) \in Nat
         /\ \A x \in D : Total(sz, D) = sz[x] + Total(sz, D \ {x})
<1> DEFINE G == {t \in SUBSET D : /\ Total(sz, t) \in Nat
                                  /\ \A x \in t : Total(sz, t) = sz[x] + Total(sz, t \ {x})}
<1>1. {} \in G
  BY TotalEmpty
<1>2. ASSUME NEW t \in SUBSET D, t # {}, \A x \in t : t \ {x} \in G PROVE t \in G
  <2> DEFINE c == any(t)
             S(u) == Total(sz, u)
  <2>1. IsFiniteSet(t) /\ c \in t
    BY <1>2, FS_Subset DEF any
  <2>2. S(t) = sz[c] + S(t \ {c}) /\ S(t \ {c}) \in Nat
    BY <1>2, <2>1, TotalAny
  <2>3. ASSUME NEW x \in t, x # c PROVE S(t) = sz[x] + S(t \ {x})
    <3>1. x \in t \ {c} /\ c \in t \ {x} /\ (t \ {c}) \ {x} = (t \ {x}) \ {c}
      BY <2>1, <2>3
    <3>2. S(t \ {c}) = sz[x] + S((t \ {c}) \ {x})
      BY <1>2, <2>1, <3>1
    <3>3. S(t \ {x}) = sz[c] + S((t \ {x}) \ {c}) /\ S(t \ {x}) \in Nat
      BY <1>2, <3>1
    <3>4. S((t \ {c}) \ {x}) = S((t \ {x}) \ {c})
      BY <3>1
    <3>5. sz[x] \in Nat /\ sz[c] \in Nat /\ S((t \ {x}) \ {c}) \in Nat
      BY <2>1, FS_RemoveElement, TotalNat
    <3> HIDE DEF S, c
    <3> QED BY <2>2, <3>2, <3>3, <3>4, <3>5
  <2> QED BY <2>1, <2>2, <2>3
<1> HIDE DEF G
<1>3. \A t \in SUBSET D : t \in G
  BY <1>1, <1>2, SubsetInduction
<1> QED BY <1>3 DEF G

(* A size is split among the stacks taken out and the ones left. *)
LEMMA TotalSplit ==
  ASSUME NEW D, IsFiniteSet(D), NEW sz, \A x \in D : sz[x] \in Nat
  PROVE  \A t \in SUBSET D : Total(sz, D) = Total(sz, t) + Total(sz, D \ t)
<1> DEFINE H == {t \in SUBSET D : Total(sz, D) = Total(sz, t) + Total(sz, D \ t)}
<1>1. {} \in H
  <2>1. D \ {} = D /\ Total(sz, {}) = 0 /\ Total(sz, D) \in Nat
    BY TotalEmpty, TotalNat
  <2> QED BY <2>1
<1>2. ASSUME NEW t \in SUBSET D, t # {}, \A x \in t : t \ {x} \in H PROVE t \in H
  <2>1. PICK x \in t : t \ {x} \in H
    BY <1>2
  <2> DEFINE u == t \ {x}
             w == D \ u
  <2>2. w \ {x} = D \ t /\ x \in w /\ w \subseteq D /\ u \subseteq D
    BY <2>1
  <2>3. IsFiniteSet(t) /\ IsFiniteSet(u) /\ IsFiniteSet(w) /\ IsFiniteSet(D \ t)
    BY FS_Subset
  <2>4. Total(sz, t) = sz[x] + Total(sz, u)
    BY <2>3, TotalRemove
  <2>5. Total(sz, w) = sz[x] + Total(sz, w \ {x})
    <3> HIDE DEF u, w
    <3> QED BY <2>2, <2>3, TotalRemove
  <2>6. Total(sz, D) = Total(sz, u) + Total(sz, w)
    BY <2>1
  <2>7. Total(sz, u) \in Nat /\ Total(sz, D \ t) \in Nat /\ sz[x] \in Nat
    BY <2>3, TotalNat
  <2> HIDE DEF u, w
  <2>8. Total(sz, D) = Total(sz, t) + Total(sz, D \ t)
    BY <2>2, <2>4, <2>5, <2>6, <2>7
  <2> QED BY <2>8
<1> HIDE DEF H
<1>3. \A t \in SUBSET D : t \in H
  BY <1>1, <1>2, SubsetInduction
<1> QED BY <1>3 DEF H

-----------------------------------------------------------------------------
(* Sequences without repetition, as the cache is one. *)
LEMMA MinMember ==
  ASSUME NEW S \in SUBSET Nat, S # {}
  PROVE  Min(S) \in S /\ \A k \in S : Min(S) <= k
  BY Least DEF Min

(* The greatest place of a list. *)
LEMMA MaxMember ==
  ASSUME NEW n \in Nat, NEW S \in SUBSET (1 .. n), S # {}
  PROVE  Max(S) \in S /\ \A k \in S : Max(S) >= k
<1> DEFINE U == {k \in Nat : \A y \in S : y <= k}
<1>1. U \in SUBSET Nat /\ n \in U
  OBVIOUS
<1>2. PICK u \in U : \A k \in U : u <= k
  <2> HIDE DEF U
  <2> QED BY <1>1, Least
<1>3. u \in S
  <2> SUFFICES ASSUME u \notin S PROVE FALSE
    OBVIOUS
  <2>1. PICK y \in S : TRUE
    OBVIOUS
  <2>2. u # 0
    BY <2>1
  <2>3. u - 1 \in U
    <3>1. \A z \in S : z <= u - 1
      BY <2>2
    <3> QED BY <2>2, <3>1
  <2> QED BY <1>2, <2>3
<1>4. \A y \in S : u >= y
  OBVIOUS
<1> QED BY <1>3, <1>4 DEF Max

(* The places and the elements of a list. *)
LEMMA SetOfSeq ==
  ASSUME NEW S, NEW l \in Seq(S)
  PROVE  /\ DOMAIN l = 1 .. Len(l) /\ Len(l) \in Nat /\ ToSet(l) \subseteq S /\ IsFiniteSet(ToSet(l))
         /\ IsFiniteSet(DOMAIN l)
<1>1. DOMAIN l = 1 .. Len(l) /\ Len(l) \in Nat /\ \A i \in DOMAIN l : l[i] \in S
  OBVIOUS
<1>2. IsFiniteSet(1 .. Len(l))
  BY <1>1, FS_Interval
<1>3. IsFiniteSet(ToSet(l))
  <2>1. ToSet(l) = {l[i] : i \in 1 .. Len(l)}
    BY <1>1 DEF ToSet
  <2>2. l \in Surjection(1 .. Len(l), ToSet(l))
    BY <1>1, <2>1 DEF Surjection
  <2> QED BY <1>2, <2>2, FS_Surjection
<1>4. ToSet(l) \subseteq S
  BY <1>1 DEF ToSet
<1> QED BY <1>1, <1>2, <1>3, <1>4

(* list_add puts an element at the head. *)
LEMMA AddHead ==
  ASSUME NEW S, NEW l \in Seq(S), NEW x \in S
  PROVE  /\ <<x>> \o l \in Seq(S) /\ ToSet(<<x>> \o l) = {x} \cup ToSet(l)
         /\ IsInjective(l) /\ x \notin ToSet(l) => IsInjective(<<x>> \o l)
<1> DEFINE r == <<x>> \o l
<1>1. /\ r \in Seq(S) /\ Len(r) = Len(l) + 1 /\ r[1] = x /\ \A i \in 1 .. Len(l) : r[i + 1] = l[i]
      /\ Len(l) \in Nat
  OBVIOUS
<1> HIDE DEF r
<1>2. DOMAIN r = 1 .. Len(l) + 1 /\ DOMAIN l = 1 .. Len(l)
  BY <1>1
<1>3. \A i \in DOMAIN r : i = 1 \/ (i - 1 \in DOMAIN l /\ r[i] = l[i - 1])
  BY <1>1, <1>2
<1>4. 1 \in DOMAIN r /\ \A i \in DOMAIN l : i + 1 \in DOMAIN r /\ r[i + 1] = l[i]
  BY <1>1, <1>2
<1>5. ToSet(r) = {x} \cup ToSet(l)
  <2>1. \A i \in DOMAIN r : r[i] = x \/ \E j \in DOMAIN l : r[i] = l[j]
    BY <1>1, <1>3
  <2>2. \A j \in DOMAIN l : \E i \in DOMAIN r : r[i] = l[j]
    BY <1>4
  <2>3. \E i \in DOMAIN r : r[i] = x
    BY <1>1, <1>4
  <2> QED BY <2>1, <2>2, <2>3 DEF ToSet
<1>6. ASSUME IsInjective(l), x \notin ToSet(l) PROVE IsInjective(r)
  <2>1. \A i \in DOMAIN l : l[i] # x
    BY <1>6 DEF ToSet
  <2> QED BY <1>1, <1>2, <1>3, <1>6, <2>1 DEF IsInjective
<1> QED BY <1>1, <1>5, <1>6 DEF r

(* list_del takes one out. *)
LEMMA TakeOut ==
  ASSUME NEW S, NEW l \in Seq(S), IsInjective(l), NEW x \in ToSet(l)
  PROVE  /\ RemoveFirst(l, x) \in Seq(S) /\ IsInjective(RemoveFirst(l, x))
         /\ ToSet(RemoveFirst(l, x)) = ToSet(l) \ {x}
<1> DEFINE I == {i \in 1 .. Len(l) : l[i] = x}
           k == Min(I)
           a == SubSeq(l, 1, k - 1)
           b == SubSeq(l, k + 1, Len(l))
           r == a \o b
<1>1. DOMAIN l = 1 .. Len(l) /\ Len(l) \in Nat /\ \A i \in 1 .. Len(l) : l[i] \in S
  OBVIOUS
<1>2. I # {} /\ I \in SUBSET Nat
  BY <1>1 DEF ToSet
<1>3. k \in 1 .. Len(l) /\ l[k] = x
  <2>1. k \in I
    <3> HIDE DEF I
    <3> QED BY <1>2, MinMember
  <2> QED BY <2>1
<1>4. RemoveFirst(l, x) = r
  BY <1>2 DEF RemoveFirst, RemoveAt, SelectInSeq, ToSet
<1> HIDE DEF k
<1>5. a \in Seq(S) /\ Len(a) = k - 1 /\ \A i \in 1 .. k - 1 : a[i] = l[i]
  BY <1>1, <1>3, SubSeqProperties
<1>6. b \in Seq(S) /\ Len(b) = Len(l) - k /\ \A i \in 1 .. Len(l) - k : b[i] = l[k + i]
  <2>1. \A i \in k + 1 .. Len(l) : l[i] \in S
    BY <1>1, <1>3
  <2>2. /\ b \in Seq(S) /\ Len(b) = IF k + 1 <= Len(l) THEN Len(l) - (k + 1) + 1 ELSE 0
        /\ \A i \in 1 .. Len(l) - (k + 1) + 1 : b[i] = l[(k + 1) + i - 1]
    BY <1>1, <1>3, <2>1, SubSeqProperties
  <2> HIDE DEF b
  <2>3. Len(l) - (k + 1) + 1 = Len(l) - k /\ \A i \in Nat : (k + 1) + i - 1 = k + i
    BY <1>1, <1>3
  <2>4. Len(b) = Len(l) - k
    <3>1. Len(b) = IF k + 1 <= Len(l) THEN Len(l) - (k + 1) + 1 ELSE 0
      BY <2>2
    <3>2. k \in Int /\ Len(l) \in Int /\ k <= Len(l)
      BY <1>1, <1>3
    <3> QED BY <3>1, <3>2
  <2>5. ASSUME NEW i \in 1 .. Len(l) - k PROVE b[i] = l[k + i]
    <3>1. i \in 1 .. Len(l) - (k + 1) + 1 /\ (k + 1) + i - 1 = k + i
      BY <1>1, <1>3, <2>3
    <3> QED BY <2>2, <3>1
  <2> QED BY <2>2, <2>4, <2>5
<1> HIDE DEF a, b
<1>7. /\ r \in Seq(S) /\ Len(r) = Len(l) - 1
      /\ \A i \in 1 .. Len(l) - 1 : r[i] = IF i < k THEN l[i] ELSE l[i + 1]
  <2>1. /\ r \in Seq(S) /\ Len(r) = Len(a) + Len(b)
        /\ \A i \in 1 .. Len(a) + Len(b) : r[i] = IF i <= Len(a) THEN a[i] ELSE b[i - Len(a)]
    BY <1>5, <1>6, ConcatProperties
  <2> HIDE DEF r
  <2>2. Len(a) + Len(b) = Len(l) - 1
    BY <1>1, <1>3, <1>5, <1>6
  <2>3. ASSUME NEW i \in 1 .. Len(l) - 1 PROVE r[i] = IF i < k THEN l[i] ELSE l[i + 1]
    <3>1. CASE i < k
      BY <1>1, <1>3, <1>5, <2>1, <2>2, <3>1
    <3>2. CASE ~ (i < k)
      <4>1. i - (k - 1) \in 1 .. Len(l) - k /\ k + (i - (k - 1)) = i + 1
        BY <1>1, <1>3, <3>2
      <4>2. r[i] = b[i - (k - 1)] /\ b[i - (k - 1)] = l[k + (i - (k - 1))]
        <5>1. i \in 1 .. Len(a) + Len(b) /\ ~ (i <= Len(a)) /\ i - Len(a) = i - (k - 1)
          BY <1>1, <1>3, <1>5, <2>2, <3>2
        <5> QED BY <1>6, <2>1, <4>1, <5>1
      <4> QED BY <3>2, <4>1, <4>2
    <3> QED BY <3>1, <3>2
  <2> QED BY <2>1, <2>2, <2>3
<1> HIDE DEF r
<1>8. DOMAIN r = 1 .. Len(l) - 1
  BY <1>1, <1>3, <1>7
<1>9. IsInjective(r)
  BY <1>1, <1>3, <1>7, <1>8 DEF IsInjective
<1>10. \A i \in DOMAIN r : r[i] \in ToSet(l) /\ r[i] # x
  BY <1>1, <1>3, <1>7, <1>8 DEF ToSet, IsInjective
<1>11. \A i \in DOMAIN l : l[i] # x => \E j \in DOMAIN r : r[j] = l[i]
  <2> SUFFICES ASSUME NEW i \in DOMAIN l, l[i] # x PROVE \E j \in DOMAIN r : r[j] = l[i]
    OBVIOUS
  <2>1. CASE i < k
    BY <1>1, <1>3, <1>7, <1>8, <2>1
  <2>2. CASE i > k
    <3>1. i - 1 \in DOMAIN r /\ r[i - 1] = l[i]
      BY <1>1, <1>3, <1>7, <1>8, <2>2
    <3> QED BY <3>1
  <2> QED BY <1>1, <1>3, <2>1, <2>2
<1>12. ToSet(r) = ToSet(l) \ {x}
  BY <1>10, <1>11 DEF ToSet
<1> QED BY <1>4, <1>7, <1>9, <1>12
-----------------------------------------------------------------------------
(* What free_stacks leaves of a list: the loop of the code is a fold from    *)
(* the end of the list; trim is its body.                                    *)
trim(s, acc, limit) ==
  IF acc.enough \/ ~FREE_P(s) THEN [acc EXCEPT !.list = <<s>> \o @]
  ELSE LET left == acc.total - size[s]
       IN [acc EXCEPT !.total = left, !.enough = left <= limit]
Trims(S) == [list : Seq(S), total : Int, enough : BOOLEAN]
IsTrim(g, list, total, limit) ==
  g = [t \in SUBSET DOMAIN list |->
         IF t = {} THEN [list |-> <<>>, total |-> total, enough |-> FALSE]
         ELSE trim(list[Min(t)], g[t \ {Min(t)}], limit)]

TrimsTo(r, s, v, limit) ==
  /\ v.enough \/ ~FREE_P(s) =>
       r.list = <<s>> \o v.list /\ r.total = v.total /\ r.enough = v.enough
  /\ ~ (v.enough \/ ~FREE_P(s)) =>
       r.list = v.list /\ r.total = v.total - size[s] /\ (r.enough <=> v.total - size[s] <= limit)

(* One step of the loop of free_stacks, field by field. *)
LEMMA TrimStep ==
  ASSUME NEW S \in SUBSET Stack, size \in [Stack -> Nat], NEW s \in S, NEW v \in Trims(S), NEW limit \in Int
  PROVE  /\ trim(s, v, limit) \in Trims(S)
         /\ TrimsTo(trim(s, v, limit), s, v, limit)
<1> DEFINE l == <<s>> \o v.list
           left == v.total - size[s]
           e == left <= limit
<1>1. l \in Seq(S) /\ left \in Int /\ e \in BOOLEAN
  BY DEF Trims
<1> HIDE DEF l, left, e
<1>2. CASE v.enough \/ ~FREE_P(s)
  <2>1. trim(s, v, limit) = [v EXCEPT !.list = l]
    BY <1>2 DEF trim, l
  <2>2. [v EXCEPT !.list = l] \in Trims(S)
    BY <1>1 DEF Trims
  <2>3. /\ [v EXCEPT !.list = l].list = l /\ [v EXCEPT !.list = l].total = v.total
        /\ [v EXCEPT !.list = l].enough = v.enough
    BY DEF Trims
  <2> QED BY <1>2, <2>1, <2>2, <2>3 DEF l, TrimsTo
<1>3. CASE ~ (v.enough \/ ~FREE_P(s))
  <2>1. trim(s, v, limit) = [v EXCEPT !.total = left, !.enough = e]
    BY <1>3 DEF trim, left, e
  <2>2. [v EXCEPT !.total = left, !.enough = e] \in Trims(S)
    BY <1>1 DEF Trims
  <2>3. /\ [v EXCEPT !.total = left, !.enough = e].list = v.list
        /\ [v EXCEPT !.total = left, !.enough = e].total = left
        /\ [v EXCEPT !.total = left, !.enough = e].enough = e
    BY DEF Trims
  <2> QED BY <1>3, <2>1, <2>2, <2>3 DEF left, e, TrimsTo
<1> QED BY <1>2, <1>3

(* free_stacks is the value of a function that obeys the recursion. *)
LEMMA TrimFunction ==
  ASSUME NEW S \in SUBSET Stack, size \in [Stack -> Nat], NEW list \in Seq(S),
         NEW total \in Int, NEW limit \in Int
  PROVE  \E g : IsTrim(g, list, total, limit) /\ free_stacks(list, total, limit) = g[DOMAIN list]
<1> DEFINE D == DOMAIN list
           V == Trims(S)
           base == [list |-> <<>>, total |-> total, enough |-> FALSE]
           F == [i \in D |-> [v \in V |-> trim(list[i], v, limit)]]
           ch == [t \in SUBSET D |-> Min(t)]
<1>1. free_stacks(list, total, limit) = (CHOOSE g : IsTrim(g, list, total, limit))[D]
  BY DEF free_stacks, FoldRight, MapThenFoldSet, IsTrim, trim
<1>2. D \subseteq Nat /\ IsFiniteSet(D) /\ \A i \in D : list[i] \in S
  BY SetOfSeq
<1>3. IsChoice(ch, D)
  BY <1>2, MinMember DEF IsChoice
<1>4. base \in V
  BY DEF Trims
<1>5. ASSUME NEW s \in S, NEW v \in V PROVE trim(s, v, limit) \in V
  BY TrimStep
<1>6. F \in [D -> [V -> V]]
  BY <1>2, <1>5
<1>7. PICK g \in [SUBSET D -> V] : IsFold(g, D, base, F, ch)
  <2> HIDE DEF D, V, base, F, ch
  <2> QED BY <1>2, <1>3, <1>4, <1>6, FoldExists
<1>8. IsTrim(g, list, total, limit)
  <2>1. ASSUME NEW t \in SUBSET D
        PROVE g[t] = IF t = {} THEN base ELSE trim(list[Min(t)], g[t \ {Min(t)}], limit)
    <3>1. CASE t = {}
      BY <1>7, <3>1 DEF IsFold
    <3>2. CASE t # {}
      <4>1. /\ g[t] = F[ch[t]][g[t \ {ch[t]}]] /\ ch[t] = Min(t)
            /\ ch[t] \in D /\ g[t \ {ch[t]}] \in V
        BY <1>3, <1>7, <3>2 DEF IsFold, IsChoice
      <4>2. F[ch[t]][g[t \ {ch[t]}]] = trim(list[ch[t]], g[t \ {ch[t]}], limit)
        BY <4>1
      <4> QED BY <3>2, <4>1, <4>2
    <3> QED BY <3>1, <3>2
  <2> QED BY <2>1 DEF IsTrim
<1>9. IsTrim(CHOOSE h : IsTrim(h, list, total, limit), list, total, limit)
  BY <1>8
<1> QED BY <1>1, <1>9

(* What every step of the loop keeps: v is what is left of the stacks E.     *)
TrimOf(v, E, S, total) ==
  /\ v \in Trims(S) /\ IsInjective(v.list) /\ ToSet(v.list) \subseteq E
  /\ \A y \in E \ ToSet(v.list) : FREE_P(y)
  /\ v.total = total - Total(size, E \ ToSet(v.list))

(* One more stack x is looked at. *)
LEMMA TrimKeeps ==
  ASSUME NEW S \in SUBSET Stack, size \in [Stack -> Nat], NEW total \in Int, NEW limit \in Int,
         NEW E \in SUBSET S, IsFiniteSet(E), NEW x \in S \ E, NEW v, TrimOf(v, E, S, total)
  PROVE  TrimOf(trim(x, v, limit), E \cup {x}, S, total)
<1> DEFINE r == trim(x, v, limit)
           gone == E \ ToSet(v.list)
<1>0. x \in S /\ x \in Stack
  OBVIOUS
<1>1. /\ v \in Trims(S) /\ v.list \in Seq(S) /\ v.total \in Int
      /\ IsInjective(v.list) /\ ToSet(v.list) \subseteq E /\ x \notin ToSet(v.list)
      /\ v.total = total - Total(size, gone)
  BY DEF TrimOf, Trims
<1>2. \A y \in gone : FREE_P(y)
  BY DEF TrimOf
<1>3. /\ r \in Trims(S)
      /\ v.enough \/ ~FREE_P(x) => r.list = <<x>> \o v.list /\ r.total = v.total
      /\ ~ (v.enough \/ ~FREE_P(x)) => r.list = v.list /\ r.total = v.total - size[x]
  <2>1. r \in Trims(S) /\ TrimsTo(r, x, v, limit)
    BY <1>0, <1>1, TrimStep
  <2> HIDE DEF r
  <2> QED BY <2>1 DEF TrimsTo
<1>4. IsFiniteSet(gone) /\ gone \subseteq Stack /\ x \notin gone /\ size[x] \in Nat
  BY FS_Subset
<1> HIDE DEF r
<1>5. CASE v.enough \/ ~FREE_P(x)
  <2>1. IsInjective(r.list) /\ ToSet(r.list) = {x} \cup ToSet(v.list)
    <3>1. IsInjective(<<x>> \o v.list) /\ ToSet(<<x>> \o v.list) = {x} \cup ToSet(v.list)
      BY <1>0, <1>1, AddHead
    <3> QED BY <1>3, <1>5, <3>1
  <2>2. (E \cup {x}) \ ToSet(r.list) = gone
    BY <2>1
  <2>3. ToSet(r.list) \subseteq E \cup {x}
    BY <1>1, <2>1
  <2>4. r.total = total - Total(size, gone)
    BY <1>1, <1>3, <1>5
  <2> HIDE DEF gone
  <2> QED BY <1>2, <1>3, <2>1, <2>2, <2>3, <2>4 DEF TrimOf, r
<1>6. CASE ~ (v.enough \/ ~FREE_P(x))
  <2>1. r.list = v.list /\ r.total = v.total - size[x]
    BY <1>3, <1>6
  <2>2. (E \cup {x}) \ ToSet(r.list) = gone \cup {x}
    BY <1>1, <2>1
  <2>3. ToSet(r.list) \subseteq E \cup {x} /\ IsInjective(r.list)
    BY <1>1, <2>1
  <2> HIDE DEF gone
  <2>4. IsFiniteSet(gone \cup {x}) /\ (gone \cup {x}) \ {x} = gone /\ gone \cup {x} \subseteq Stack
    BY <1>4, FS_AddElement
  <2>5. \A y \in gone \cup {x} : size[y] \in Nat
    BY <2>4
  <2>6. Total(size, gone \cup {x}) = size[x] + Total(size, (gone \cup {x}) \ {x})
    BY <2>4, <2>5, TotalRemove
  <2>7. Total(size, gone) \in Nat
    BY <1>4, <2>5, TotalNat
  <2>8. r.total = total - Total(size, gone \cup {x})
    <3> DEFINE a == Total(size, gone)
               b == Total(size, gone \cup {x})
    <3>1. a \in Nat /\ b = size[x] + a
      BY <2>4, <2>6, <2>7
    <3>2. v.total = total - a /\ r.total = v.total - size[x]
      BY <1>1, <2>1 DEF gone
    <3> HIDE DEF a, b
    <3>3. r.total = total - b
      BY <1>4, <3>1, <3>2
    <3> QED BY <3>3 DEF b
  <2>9. \A y \in gone \cup {x} : FREE_P(y)
    BY <1>2, <1>6
  <2> QED BY <1>3, <2>2, <2>3, <2>8, <2>9 DEF TrimOf, r
<1> QED BY <1>5, <1>6

(* The loop stops as soon as the limit is met, and goes on as long as it is  *)
(* not and a free stack is left: i < j are places in the list, t the places  *)
(* seen so far.                                                              *)
Gone(v, list, i) == list[i] \notin ToSet(v.list)
OrderOf(v, t, list, limit) ==
  /\ v.enough => v.total <= limit
  /\ ~v.enough => v.total > limit /\ \A i \in t : FREE_P(list[i]) => Gone(v, list, i)
  /\ \A i \in t : Gone(v, list, i) /\ (\A j \in t : j < i => ~Gone(v, list, j)) =>
                   v.total + size[list[i]] > limit
  /\ \A i, j \in t : i < j /\ Gone(v, list, i) /\ FREE_P(list[j]) => Gone(v, list, j)

(* One more place m, before all the others, is looked at. *)
LEMMA OrderKeeps ==
  ASSUME NEW S \in SUBSET Stack, size \in [Stack -> Nat], NEW limit \in Int,
         NEW list, NEW u \in SUBSET Nat, NEW m \in Nat, \A i \in u : m < i,
         list[m] \in S, \A i \in u : list[i] \in S /\ list[i] # list[m],
         NEW v \in Trims(S), ToSet(v.list) \subseteq {list[i] : i \in u}, IsInjective(v.list),
         OrderOf(v, u, list, limit)
  PROVE  OrderOf(trim(list[m], v, limit), u \cup {m}, list, limit)
<1> DEFINE x == list[m]
           r == trim(x, v, limit)
<1>0. x \in S /\ x \in Stack /\ size[x] \in Nat /\ v.total \in Int /\ v.list \in Seq(S) /\ x \notin ToSet(v.list)
  BY DEF Trims
<1>1. /\ v.enough \/ ~FREE_P(x) => r.list = <<x>> \o v.list /\ r.total = v.total /\ r.enough = v.enough
      /\ ~ (v.enough \/ ~FREE_P(x)) => /\ r.list = v.list /\ r.total = v.total - size[x]
                                       /\ r.enough <=> v.total - size[x] <= limit
  <2>1. TrimsTo(r, x, v, limit)
    <3> HIDE DEF x
    <3> QED BY <1>0, TrimStep
  <2> HIDE DEF r
  <2> QED BY <2>1 DEF TrimsTo
<1> HIDE DEF r
<1>2. CASE v.enough \/ ~FREE_P(x)
  <2>1. r.total = v.total /\ r.enough = v.enough /\ ToSet(r.list) = {x} \cup ToSet(v.list)
    <3>1. ToSet(<<x>> \o v.list) = {x} \cup ToSet(v.list)
      <4> HIDE DEF x
      <4> QED BY <1>0, AddHead
    <3> QED BY <1>1, <1>2, <3>1
  <2>2. ~Gone(r, list, m) /\ \A i \in u : Gone(r, list, i) <=> Gone(v, list, i)
    BY <2>1 DEF Gone
  <2>3. OrderOf(r, u \cup {m}, list, limit)
    BY <1>2, <2>1, <2>2 DEF OrderOf
  <2> QED BY <2>3 DEF r
<1>3. CASE ~ (v.enough \/ ~FREE_P(x))
  <2>1. r.list = v.list /\ r.total = v.total - size[x] /\ (r.enough <=> v.total - size[x] <= limit)
    BY <1>1, <1>3
  <2>2. Gone(r, list, m) /\ \A i \in u : Gone(r, list, i) <=> Gone(v, list, i)
    BY <1>0, <2>1 DEF Gone
  <2>3. v.total > limit /\ r.total + size[x] = v.total /\ r.total \in Int
    BY <1>0, <1>3, <2>1 DEF OrderOf
  <2>4. OrderOf(r, u \cup {m}, list, limit)
    <3>1. r.enough => r.total <= limit
      BY <2>1
    <3>2. ~r.enough => r.total > limit /\ \A i \in u \cup {m} : FREE_P(list[i]) => Gone(r, list, i)
      BY <1>0, <1>3, <2>1, <2>2, <2>3 DEF OrderOf
    <3>3. ASSUME NEW i \in u \cup {m}, Gone(r, list, i), \A j \in u \cup {m} : j < i => ~Gone(r, list, j)
          PROVE  r.total + size[list[i]] > limit
      <4>1. i = m
        BY <2>2, <3>3
      <4> QED BY <2>3, <4>1
    <3>4. ASSUME NEW i \in u \cup {m}, NEW j \in u \cup {m}, i < j, FREE_P(list[j])
          PROVE  Gone(r, list, j)
      <4>1. j \in u
        <5>1. i \in Nat /\ m <= i
          OBVIOUS
        <5>2. j # m
          BY <3>4, <5>1
        <5> QED BY <5>2
      <4> QED BY <1>3, <2>2, <3>4, <4>1 DEF OrderOf
    <3> QED BY <3>1, <3>2, <3>3, <3>4 DEF OrderOf
  <2> QED BY <2>4 DEF r
<1> QED BY <1>2, <1>3

(* free_stacks takes free stacks out of a list and leaves the others, and    *)
(* reduces the total by the sizes of what it takes out.                      *)
LEMMA Trimmed ==
  ASSUME NEW S \in SUBSET Stack, size \in [Stack -> Nat], NEW list \in Seq(S), IsInjective(list),
         NEW total \in Int, NEW limit \in Int
  PROVE  /\ TrimOf(free_stacks(list, total, limit), ToSet(list), S, total)
         /\ total > limit => OrderOf(free_stacks(list, total, limit), DOMAIN list, list, limit)
<1> DEFINE D == DOMAIN list
           E(t) == {list[i] : i \in t}
<1>1. PICK g : IsTrim(g, list, total, limit) /\ free_stacks(list, total, limit) = g[D]
  BY TrimFunction
<1> DEFINE G == {t \in SUBSET D : /\ TrimOf(g[t], E(t), S, total)
                                  /\ total > limit => OrderOf(g[t], t, list, limit)}
<1>2. D \subseteq Nat /\ IsFiniteSet(D) /\ (\A i \in D : list[i] \in S) /\ E(D) = ToSet(list)
  <2>1. E(D) = ToSet(list)
    BY DEF ToSet
  <2> QED BY <2>1, SetOfSeq
<1>3. {} \in G
  <2>1. g[{}] = [list |-> <<>>, total |-> total, enough |-> FALSE]
    BY <1>1 DEF IsTrim
  <2>2. <<>> \in Seq(S) /\ IsInjective(<<>>) /\ ToSet(<<>>) = {} /\ E({}) = {}
    BY DEF IsInjective, ToSet
  <2>3. Total(size, {}) = 0
    BY TotalEmpty
  <2>4. g[{}] \in Trims(S) /\ g[{}].list = <<>> /\ g[{}].total = total
    BY <2>1, <2>2 DEF Trims
  <2>5. {} \ ToSet(g[{}].list) = {}
    OBVIOUS
  <2>6. g[{}].total = total - Total(size, {} \ ToSet(g[{}].list))
    BY <2>3, <2>4, <2>5
  <2>7. TrimOf(g[{}], {}, S, total)
    BY <2>2, <2>4, <2>6 DEF TrimOf
  <2>8. total > limit => OrderOf(g[{}], {}, list, limit)
    BY <2>1 DEF OrderOf
  <2> QED BY <2>2, <2>7, <2>8
<1>4. ASSUME NEW t \in SUBSET D, t # {}, \A x \in t : t \ {x} \in G PROVE t \in G
  <2> DEFINE m == Min(t)
             u == t \ {m}
             x == list[m]
  <2>1. m \in t /\ u \in SUBSET D /\ x \in S
    BY <1>2, <1>4, MinMember
  <2>2. g[t] = trim(x, g[u], limit)
    BY <1>1, <1>4 DEF IsTrim
  <2>3. E(t) = E(u) \cup {x} /\ x \notin E(u) /\ E(u) \subseteq S
    BY <1>2, <2>1 DEF IsInjective
  <2>4. IsFiniteSet(E(u))
    <3>1. E(u) \subseteq ToSet(list)
      BY <1>2, <2>1 DEF ToSet
    <3> QED BY <3>1, FS_Subset, SetOfSeq
  <2>5. TrimOf(g[u], E(u), S, total) /\ (total > limit => OrderOf(g[u], u, list, limit))
    BY <1>4, <2>1
  <2>8. /\ u \in SUBSET Nat /\ m \in Nat /\ t = u \cup {m} /\ list[m] \in S
        /\ \A i \in u : m < i /\ list[i] \in S /\ list[i] # list[m]
    <3>1. \A i \in t : m <= i
      BY <1>2, <1>4, MinMember
    <3>2. \A i \in u : i # m /\ i \in t /\ list[i] # list[m]
      BY <2>1 DEF IsInjective
    <3> QED BY <1>2, <2>1, <3>1, <3>2
  <2>9. total > limit => OrderOf(trim(list[m], g[u], limit), u \cup {m}, list, limit)
    <3>1. g[u] \in Trims(S) /\ ToSet(g[u].list) \subseteq {list[i] : i \in u} /\ IsInjective(g[u].list)
      BY <2>5 DEF TrimOf
    <3> HIDE DEF m, u
    <3> QED BY <2>5, <2>8, <3>1, OrderKeeps
  <2>10. total > limit => OrderOf(g[t], t, list, limit)
    BY <2>2, <2>8, <2>9
  <2> HIDE DEF m, u, x, E
  <2>6. TrimOf(trim(x, g[u], limit), E(u) \cup {x}, S, total)
    BY <2>1, <2>3, <2>4, <2>5, TrimKeeps
  <2>7. TrimOf(g[t], E(t), S, total)
    BY <2>2, <2>3, <2>6
  <2> QED BY <2>7, <2>10
<1> HIDE DEF G
<1>5. \A t \in SUBSET D : t \in G
  BY <1>2, <1>3, <1>4, SubsetInduction
<1>6. TrimOf(g[D], E(D), S, total) /\ (total > limit => OrderOf(g[D], D, list, limit))
  BY <1>5 DEF G
<1> QED BY <1>1, <1>2, <1>6

-----------------------------------------------------------------------------
(* What the search of get_cached_stack finds: a fold from the head of the    *)
(* cache; look is its body.                                                  *)
look(found, s, want) ==
  IF found.exact \/ ~FREE_P(s) \/ size[s] < want THEN found
  ELSE IF size[s] = want THEN [exact |-> TRUE, result |-> s]
  ELSE IF found.result = NULL \/ size[found.result] > size[s]
  THEN [found EXCEPT !.result = s]
  ELSE found
Founds == [exact : BOOLEAN, result : Stack \cup {NULL}]
IsLook(g, list, want) ==
  g = [t \in SUBSET DOMAIN list |->
         IF t = {} THEN [exact |-> FALSE, result |-> NULL]
         ELSE look(g[t \ {Max(t)}], list[Max(t)], want)]

(* One step of the search loop of get_cached_stack, case by case. *)
LEMMA LookStep ==
  ASSUME size \in [Stack -> Nat], NEW want \in Nat, NEW s \in Stack, NEW v \in Founds
  PROVE  /\ look(v, s, want) \in Founds
         /\ \/ look(v, s, want) = v /\ v.exact
            \/ look(v, s, want) = v /\ ~ (FREE_P(s) /\ size[s] >= want)
            \/ look(v, s, want) = v /\ v.result # NULL /\ size[v.result] <= size[s]
            \/ /\ look(v, s, want) = [exact |-> TRUE, result |-> s]
               /\ FREE_P(s) /\ size[s] = want
            \/ /\ look(v, s, want) = [exact |-> v.exact, result |-> s]
               /\ ~v.exact /\ FREE_P(s) /\ size[s] >= want
               /\ v.result = NULL \/ size[v.result] > size[s]
<1>1. CASE v.exact \/ ~FREE_P(s) \/ size[s] < want
  <2>1. look(v, s, want) = v
    BY <1>1 DEF look
  <2>2. size[s] \in Nat
    OBVIOUS
  <2> QED BY <1>1, <2>1, <2>2
<1>2. CASE ~ (v.exact \/ ~FREE_P(s) \/ size[s] < want) /\ size[s] = want
  <2>1. look(v, s, want) = [exact |-> TRUE, result |-> s]
    BY <1>2 DEF look
  <2>2. [exact |-> TRUE, result |-> s] \in Founds
    BY DEF Founds
  <2> QED BY <1>2, <2>1, <2>2
<1>3. CASE ~ (v.exact \/ ~FREE_P(s) \/ size[s] < want) /\ size[s] # want
  <2>1. size[s] \in Nat /\ size[s] >= want /\ FREE_P(s) /\ ~v.exact
    BY <1>3
  <2>2. CASE v.result = NULL \/ size[v.result] > size[s]
    <3>1. look(v, s, want) = [v EXCEPT !.result = s]
      BY <1>3, <2>2 DEF look
    <3>2. [v EXCEPT !.result = s] = [exact |-> v.exact, result |-> s]
      BY DEF Founds
    <3>3. [exact |-> v.exact, result |-> s] \in Founds
      BY DEF Founds
    <3> QED BY <2>1, <2>2, <3>1, <3>2, <3>3
  <2>3. CASE ~ (v.result = NULL \/ size[v.result] > size[s])
    <3>1. look(v, s, want) = v
      BY <1>3, <2>3 DEF look
    <3>2. v.result \in Stack /\ v.result # NULL
      BY <2>3 DEF Founds
    <3>3. size[v.result] <= size[s]
      BY <2>1, <2>3, <3>2
    <3> QED BY <3>1, <3>2, <3>3
  <2> QED BY <2>2, <2>3
<1> QED BY <1>1, <1>2, <1>3

(* search is the value of a function that obeys the recursion. *)
LEMMA LookFunction ==
  ASSUME size \in [Stack -> Nat], NEW list \in Seq(Stack), NEW want \in Nat, stack_cache = list
  PROVE  \E g : /\ IsLook(g, list, want)
                /\ search(want) = IF g[DOMAIN list].result = NULL \/ size[g[DOMAIN list].result] > 4 * want
                                  THEN NULL ELSE g[DOMAIN list].result
<1> DEFINE D == DOMAIN list
           V == Founds
           base == [exact |-> FALSE, result |-> NULL]
           F == [i \in D |-> [v \in V |-> look(v, list[i], want)]]
           ch == [t \in SUBSET D |-> Max(t)]
           h == CHOOSE g : IsLook(g, list, want)
<1>1. search(want) = IF h[D].result = NULL \/ size[h[D].result] > 4 * want THEN NULL ELSE h[D].result
  BY DEF search, FoldLeft, MapThenFoldSet, IsLook, look
<1>2. D = 1 .. Len(list) /\ Len(list) \in Nat /\ IsFiniteSet(D) /\ \A i \in D : list[i] \in Stack
  BY SetOfSeq
<1>3. IsChoice(ch, D)
  BY <1>2, MaxMember DEF IsChoice
<1>4. base \in V
  BY DEF Founds
<1>5. ASSUME NEW s \in Stack, NEW v \in V PROVE look(v, s, want) \in V
  BY LookStep
<1>6. F \in [D -> [V -> V]]
  BY <1>2, <1>5
<1>7. PICK g \in [SUBSET D -> V] : IsFold(g, D, base, F, ch)
  <2> HIDE DEF D, V, base, F, ch
  <2> QED BY <1>2, <1>3, <1>4, <1>6, FoldExists
<1>8. IsLook(g, list, want)
  <2>1. ASSUME NEW t \in SUBSET D
        PROVE g[t] = IF t = {} THEN base ELSE look(g[t \ {Max(t)}], list[Max(t)], want)
    <3>1. CASE t = {}
      BY <1>7, <3>1 DEF IsFold
    <3>2. CASE t # {}
      <4>1. /\ g[t] = F[ch[t]][g[t \ {ch[t]}]] /\ ch[t] = Max(t)
            /\ ch[t] \in D /\ g[t \ {ch[t]}] \in V
        BY <1>3, <1>7, <3>2 DEF IsFold, IsChoice
      <4>2. F[ch[t]][g[t \ {ch[t]}]] = look(g[t \ {ch[t]}], list[ch[t]], want)
        BY <4>1
      <4> QED BY <3>2, <4>1, <4>2
    <3> QED BY <3>1, <3>2
  <2> QED BY <2>1 DEF IsLook
<1>9. IsLook(h, list, want)
  BY <1>8
<1> QED BY <1>1, <1>9

(* What every step of the search keeps: v is the best of the stacks E.       *)
Fits(y, want) == FREE_P(y) /\ size[y] >= want
FitOf(v, E, want) ==
  /\ v \in Founds
  /\ v.exact => v.result # NULL /\ size[v.result] = want
  /\ v.result = NULL => \A y \in E : ~Fits(y, want)
  /\ v.result # NULL => /\ v.result \in E /\ Fits(v.result, want)
                        /\ \A y \in E : Fits(y, want) => size[v.result] <= size[y]

(* One more stack x is looked at. *)
LEMMA LookKeeps ==
  ASSUME size \in [Stack -> Nat], NEW want \in Nat, NULL \notin Stack,
         NEW E \in SUBSET Stack, NEW x \in Stack, NEW v, FitOf(v, E, want)
  PROVE  FitOf(look(v, x, want), E \cup {x}, want)
<1> DEFINE r == look(v, x, want)
<1>1. v \in Founds /\ r \in Founds
  BY LookStep DEF FitOf
<1>2. \A y \in E \cup {x} : size[y] \in Nat
  OBVIOUS
<1>3. CASE r = v /\ v.exact
  BY <1>1, <1>2, <1>3 DEF FitOf, Fits
<1>4. CASE r = v /\ ~ (FREE_P(x) /\ size[x] >= want)
  BY <1>1, <1>2, <1>4 DEF FitOf, Fits
<1>5. CASE r = v /\ v.result # NULL /\ size[v.result] <= size[x]
  BY <1>1, <1>2, <1>5 DEF FitOf, Fits
<1>6. CASE r = [exact |-> TRUE, result |-> x] /\ FREE_P(x) /\ size[x] = want
  <2>1. r.exact = TRUE /\ r.result = x /\ x # NULL
    BY <1>6
  <2> HIDE DEF r
  <2>2. FitOf(r, E \cup {x}, want)
    BY <1>1, <1>2, <1>6, <2>1 DEF FitOf, Fits
  <2> QED BY <2>2 DEF r
<1>7. CASE /\ r = [exact |-> v.exact, result |-> x]
           /\ ~v.exact /\ FREE_P(x) /\ size[x] >= want
           /\ v.result = NULL \/ size[v.result] > size[x]
  <2>1. r.exact = v.exact /\ r.result = x /\ x # NULL
    BY <1>7
  <2> HIDE DEF r
  <2>2. \A y \in E \cup {x} : Fits(y, want) => size[x] <= size[y]
    <3>1. CASE v.result = NULL
      BY <1>2, <3>1 DEF FitOf
    <3>2. CASE v.result # NULL /\ size[v.result] > size[x]
      BY <1>2, <3>2 DEF FitOf
    <3> QED BY <1>7, <3>1, <3>2
  <2>3. FitOf(r, E \cup {x}, want)
    BY <1>1, <1>7, <2>1, <2>2 DEF FitOf, Fits
  <2> QED BY <2>3 DEF r
<1> HIDE DEF r
<1>8. \/ r = v /\ v.exact
      \/ r = v /\ ~ (FREE_P(x) /\ size[x] >= want)
      \/ r = v /\ v.result # NULL /\ size[v.result] <= size[x]
      \/ r = [exact |-> TRUE, result |-> x] /\ FREE_P(x) /\ size[x] = want
      \/ /\ r = [exact |-> v.exact, result |-> x]
         /\ ~v.exact /\ FREE_P(x) /\ size[x] >= want
         /\ v.result = NULL \/ size[v.result] > size[x]
  BY <1>1, LookStep DEF r
<1> QED BY <1>3, <1>4, <1>5, <1>6, <1>7, <1>8 DEF r

(* The search finds the smallest free stack of sufficient size, unless that  *)
(* is more than four times too large.                                        *)
LEMMA Searched ==
  ASSUME size \in [Stack -> Nat], stack_cache \in Seq(Stack), NEW want \in Nat, NULL \notin Stack
  PROVE  /\ search(want) = NULL => \A y \in ToSet(stack_cache) : Fits(y, want) => size[y] > 4 * want
         /\ search(want) # NULL =>
              /\ search(want) \in ToSet(stack_cache) /\ Fits(search(want), want)
              /\ size[search(want)] <= 4 * want
              /\ \A y \in ToSet(stack_cache) : Fits(y, want) => size[search(want)] <= size[y]
<1> DEFINE list == stack_cache
           D == DOMAIN list
           E(t) == {list[i] : i \in t}
<1>1. PICK g : /\ IsLook(g, list, want)
               /\ search(want) = IF g[D].result = NULL \/ size[g[D].result] > 4 * want
                                 THEN NULL ELSE g[D].result
  BY LookFunction
<1> DEFINE G == {t \in SUBSET D : FitOf(g[t], E(t), want)}
<1>2. D = 1 .. Len(list) /\ Len(list) \in Nat /\ IsFiniteSet(D) /\ (\A i \in D : list[i] \in Stack)
  BY SetOfSeq
<1>3. E(D) = ToSet(list) /\ ToSet(list) \subseteq Stack
  BY SetOfSeq DEF ToSet
<1>4. {} \in G
  <2>1. g[{}] = [exact |-> FALSE, result |-> NULL] /\ E({}) = {}
    BY <1>1 DEF IsLook
  <2>2. FitOf(g[{}], {}, want)
    BY <2>1 DEF FitOf, Founds
  <2> QED BY <2>1, <2>2
<1>5. ASSUME NEW t \in SUBSET D, t # {}, \A x \in t : t \ {x} \in G PROVE t \in G
  <2> DEFINE m == Max(t)
             u == t \ {m}
             x == list[m]
  <2>1. m \in t /\ u \in SUBSET D /\ x \in Stack
    BY <1>2, <1>5, MaxMember
  <2>2. g[t] = look(g[u], x, want)
    BY <1>1, <1>5 DEF IsLook
  <2>3. E(t) = E(u) \cup {x} /\ E(u) \subseteq Stack
    BY <1>2, <2>1
  <2>4. FitOf(g[u], E(u), want)
    BY <1>5, <2>1
  <2> HIDE DEF m, u, x, E
  <2>5. FitOf(look(g[u], x, want), E(u) \cup {x}, want)
    BY <2>1, <2>3, <2>4, LookKeeps
  <2>6. FitOf(g[t], E(t), want)
    BY <2>2, <2>3, <2>5
  <2> QED BY <2>6
<1> HIDE DEF G
<1>6. \A t \in SUBSET D : t \in G
  <2>1. \A t \in SUBSET D : t # {} /\ (\A x \in t : t \ {x} \in G) => t \in G
    BY <1>5
  <2>2. IsFiniteSet(D)
    BY <1>2
  <2> HIDE DEF D
  <2> QED BY <1>4, <2>1, <2>2, SubsetInduction
<1>7. FitOf(g[D], ToSet(list), want)
  BY <1>3, <1>6 DEF G
<1> DEFINE b == g[D].result
<1>8. /\ b \in Stack \cup {NULL}
      /\ b = NULL => \A y \in ToSet(list) : ~Fits(y, want)
      /\ b # NULL => /\ b \in ToSet(list) /\ Fits(b, want)
                     /\ \A y \in ToSet(list) : Fits(y, want) => size[b] <= size[y]
  BY <1>7 DEF FitOf, Founds
<1>9. search(want) = IF b = NULL \/ size[b] > 4 * want THEN NULL ELSE b
  BY <1>1
<1> HIDE DEF b
<1>10. \A y \in ToSet(list) : size[y] \in Nat
  BY <1>3
<1> QED BY <1>8, <1>9, <1>10

-----------------------------------------------------------------------------
(* The invariant, action by action.  First what it says of the sizes, and    *)
(* how its parts survive a step that leaves what they speak of alone.        *)
LEMMA Basics ==
  ASSUME TypeOK
  PROVE  /\ size \in [Stack -> Nat] /\ guard \in [Stack -> Nat]
         /\ NULL \notin Stack /\ UserStack \subseteq Stack
         /\ stack_cache \in Seq(Stack)
         /\ ToSet(stack_cache) \subseteq Stack \ UserStack /\ IsFiniteSet(ToSet(stack_cache))
<1>1. Sizes \subseteq Nat /\ Guards \subseteq Nat
  BY CacheAssumption DEF Sizes, Guards
<1>2. stack_cache \in Seq(Stack \ UserStack) /\ size \in [Stack -> Sizes] /\ guard \in [Stack -> Guards]
  BY DEF TypeOK
<1>3. ToSet(stack_cache) \subseteq Stack \ UserStack /\ IsFiniteSet(ToSet(stack_cache))
  BY <1>2, SetOfSeq
<1>4. stack_cache \in Seq(Stack)
  BY <1>2
<1> QED BY <1>1, <1>2, <1>3, <1>4, CacheAssumption

(* The sum of the specification, as the one the lemmas are about. *)
LEMMA SizeIsTotal ==
  ASSUME NEW T
  PROVE  SizeOf(T) = Total(size, T)
BY DEF SizeOf, Total

(* The same after a step. *)
LEMMA SizeIsTotalNext ==
  SizeOf(ToSet(stack_cache))' = Total(size', ToSet(stack_cache'))
BY DEF SizeOf, Total, MapThenSumSet, MapThenFoldSet

(* A step that changes neither lists nor mappings keeps the accounting. *)
LEMMA CacheKept ==
  ASSUME IInv, UNCHANGED <<stack_used, stack_cache, actsize, mapped, size>>
  PROVE  CacheConsistent' /\ MappedListed'
<1>1. CacheConsistent'
  <2>1. SizeOf(ToSet(stack_cache))' = SizeOf(ToSet(stack_cache))
    BY SizeIsTotal, SizeIsTotalNext
  <2> QED BY <2>1 DEF IInv, CacheConsistent, IsInjective
<1>2. MappedListed'
  BY DEF IInv, MappedListed
<1> QED BY <1>1, <1>2

(* A creator's block is not the one that changes. *)
LEMMA CallKept ==
  ASSUME IInv, UNCHANGED locals,
         \A c \in Creator : arg[c] # NULL =>
            /\ arg[c] \in stack_used' \cap mapped'
            /\ size'[arg[c]] = size[arg[c]] /\ tid'[arg[c]] = tid[arg[c]]
  PROVE  CallInv'
BY DEF IInv, CallInv, locals, FREE_P

(* A step that changes neither lists nor tids keeps threads listed. *)
LEMMA TidKept ==
  ASSUME IInv, UNCHANGED <<tid, stack_used, stack_cache>>
  PROVE  TidInv'
BY DEF IInv, TidInv

(* A step that changes neither lists nor permissions keeps ExecEverywhere. *)
LEMMA ExecKept ==
  ASSUME IInv, UNCHANGED <<mse, stack_used, stack_cache, mapped, perm, pc, arg>>
  PROVE  ExecEverywhere'
BY DEF IInv, ExecEverywhere

(* At the start everything is empty. *)
LEMMA InitInv ==
  ASSUME Init
  PROVE  IInv
<1>1. TypeOK
  <2>1. <<>> \in Seq(Stack \ UserStack) /\ 0 \in Sizes /\ 0 \in Guards
    BY DEF Sizes, Guards
  <2> QED BY <2>1, CacheAssumption DEF Init, TypeOK
<1>2. ToSet(stack_cache) = {} /\ IsInjective(stack_cache)
  BY DEF Init, ToSet, IsInjective
<1>3. CacheConsistent
  BY <1>2, SizeIsTotal, TotalEmpty DEF Init, CacheConsistent
<1>4. MappedListed /\ CallInv /\ TidInv /\ FlagInv /\ ExecEverywhere
  BY <1>1, <1>2 DEF Init, TypeOK, MappedListed, CallInv, TidInv, FlagInv, ExecEverywhere
<1> QED BY <1>1, <1>3, <1>4 DEF IInv

(* allocate_stack reads the flag and has no block yet. *)
LEMMA AllocateInv ==
  ASSUME IInv, NEW c \in Creator, NEW r \in Request, allocate_stack(c, r)
  PROVE  IInv'
<1> USE DEF allocate_stack, Goto, lists, blocks
<1>1. TypeOK'
  BY DEF IInv, TypeOK
<1>2. CacheConsistent' /\ MappedListed'
  BY CacheKept
<1>3. CallInv'
  BY DEF IInv, TypeOK, CallInv, FREE_P
<1>4. TidInv'
  BY TidKept
<1>5. FlagInv'
  BY DEF IInv, TypeOK, FlagInv
<1>6. ExecEverywhere'
  BY DEF IInv, TypeOK, ExecEverywhere
<1> QED BY <1>1, <1>2, <1>3, <1>4, <1>5, <1>6 DEF IInv

(* A creator that finishes without a block leaves the others alone. *)
LEMMA MapFailsInv ==
  ASSUME IInv, NEW c \in Creator, map_fails(c)
  PROVE  IInv'
<1> USE DEF map_fails, Finish, Goto, lists, blocks
<1>1. TypeOK'
  BY DEF IInv, TypeOK
<1>2. CacheConsistent' /\ MappedListed'
  BY CacheKept
<1>3. CallInv'
  BY DEF IInv, TypeOK, CallInv, FREE_P
<1>4. TidInv'
  BY TidKept
<1>5. FlagInv'
  BY DEF IInv, TypeOK, FlagInv
<1>6. ExecEverywhere'
  BY CacheAssumption DEF IInv, TypeOK, CallInv, ExecEverywhere
<1> QED BY <1>1, <1>2, <1>3, <1>4, <1>5, <1>6 DEF IInv

(* The look for the race gives the new block the permission it lacks. *)
LEMMA RecheckInv ==
  ASSUME IInv, NEW c \in Creator, recheck_perm(c)
  PROVE  IInv'
<1> USE DEF recheck_perm, Goto, lists
<1>0. arg[c] \in Stack
  BY DEF IInv, TypeOK, CallInv
<1>1. TypeOK'
  BY <1>0 DEF IInv, TypeOK
<1>2. CacheConsistent' /\ MappedListed'
  BY CacheKept
<1>3. CallInv'
  BY DEF IInv, TypeOK, CallInv, FREE_P
<1>4. TidInv'
  BY TidKept
<1>5. FlagInv'
  BY <1>0 DEF IInv, TypeOK, FlagInv
<1>6. ExecEverywhere'
  <2> SUFFICES ASSUME mse = "done", NEW s \in (stack_used \cap mapped) \cup ToSet(stack_cache)
               PROVE  perm'[s] # "none" \/ \E d \in Creator : arg[d] = s /\ pc'[d] = "recheck"
    BY DEF ExecEverywhere
  <2>1. exec
    BY DEF IInv, FlagInv
  <2>2. CASE s = arg[c]
    <3>1. perm'[s] = IF ~prot[c] THEN "all" ELSE perm[s]
      BY <1>0, <2>1, <2>2 DEF IInv, TypeOK
    <3>2. prot[c] => perm[s] # "none"
      BY <2>2 DEF IInv, FlagInv
    <3> QED BY <3>1, <3>2 DEF IInv, TypeOK
  <2>3. CASE s # arg[c]
    BY <1>0, <2>3 DEF IInv, TypeOK, ExecEverywhere
  <2> QED BY <2>2, <2>3
<1> QED BY <1>1, <1>2, <1>3, <1>4, <1>5, <1>6 DEF IInv

(* A reused stack leaves the cache and its size leaves the count. *)
LEMMA GetCachedInv ==
  ASSUME IInv, NEW c \in Creator, get_cached_stack(c)
  PROVE  IInv'
<1> DEFINE s == search(req[c].size)
<1>0. req[c] \in Request /\ req[c].size \in Nat /\ arg[c] = NULL /\ pc[c] = "lookup"
  BY CacheAssumption DEF IInv, CallInv, get_cached_stack
<1>1. /\ size \in [Stack -> Nat] /\ NULL \notin Stack /\ stack_cache \in Seq(Stack)
      /\ ToSet(stack_cache) \subseteq Stack \ UserStack /\ IsFiniteSet(ToSet(stack_cache))
  BY Basics DEF IInv
<1>2. s # NULL => s \in ToSet(stack_cache) /\ FREE_P(s) /\ size[s] >= req[c].size
  BY <1>0, <1>1, Searched DEF Fits
<1>3. CASE s = NULL
  <2>0. /\ pc' = [pc EXCEPT ![c] = "mmap"]
        /\ UNCHANGED <<stack_used, stack_user, stack_cache, actsize, mapped, size, guard, perm,
                       tid, exec, mse, arg, req, prot>>
    BY <1>3 DEF get_cached_stack, Goto, lists, blocks
  <2>1. TypeOK'
    BY <2>0 DEF IInv, TypeOK
  <2>2. CacheConsistent' /\ MappedListed'
    BY <2>0, CacheKept
  <2>3. CallInv'
    BY <1>0, <2>0 DEF IInv, TypeOK, CallInv, FREE_P
  <2>4. TidInv'
    BY <2>0, TidKept
  <2>5. FlagInv'
    BY <2>0 DEF IInv, TypeOK, FlagInv
  <2>6. ExecEverywhere'
    BY <1>0, <2>0 DEF IInv, TypeOK, ExecEverywhere
  <2> QED BY <2>1, <2>2, <2>3, <2>4, <2>5, <2>6 DEF IInv
<1>4. CASE s # NULL
  <2>0. /\ pc' = [pc EXCEPT ![c] = "guard"] /\ arg' = [arg EXCEPT ![c] = s]
        /\ stack_cache' = RemoveFirst(stack_cache, s)
        /\ stack_used' = stack_used \cup {s}
        /\ actsize' = actsize - size[s]
        /\ UNCHANGED <<stack_user, mapped, size, guard, perm, tid, exec, mse, req, prot>>
    BY <1>4 DEF get_cached_stack, Goto, blocks
  <2> HIDE DEF s
  <2>1. s \in ToSet(stack_cache) /\ s \in Stack \ UserStack /\ FREE_P(s) /\ size[s] >= req[c].size
    BY <1>1, <1>2, <1>4
  <2>2. /\ stack_cache' \in Seq(Stack \ UserStack) /\ IsInjective(stack_cache')
        /\ ToSet(stack_cache') = ToSet(stack_cache) \ {s}
    <3>1. stack_cache \in Seq(Stack \ UserStack) /\ IsInjective(stack_cache)
      BY DEF IInv, TypeOK, CacheConsistent
    <3> QED BY <2>0, <2>1, <3>1, TakeOut
  <2>3. actsize' = Total(size, ToSet(stack_cache) \ {s}) /\ actsize' \in Nat
    <3>1. actsize = Total(size, ToSet(stack_cache))
      BY SizeIsTotal DEF IInv, CacheConsistent
    <3>2. \A x \in ToSet(stack_cache) : size[x] \in Nat
      BY <1>1
    <3>3. /\ Total(size, ToSet(stack_cache)) = size[s] + Total(size, ToSet(stack_cache) \ {s})
          /\ Total(size, ToSet(stack_cache)) \in Nat
      BY <1>1, <2>1, <3>2, TotalRemove
    <3>4. Total(size, ToSet(stack_cache) \ {s}) \in Nat
      BY <1>1, <3>2, FS_Subset, TotalNat
    <3>5. size[s] \in Nat
      BY <2>1, <3>2
    <3> QED BY <2>0, <3>1, <3>3, <3>4, <3>5
  <2>4. TypeOK'
    BY <2>0, <2>1, <2>2, <2>3 DEF IInv, TypeOK
  <2>5. CacheConsistent'
    <3>1. actsize' = SizeOf(ToSet(stack_cache))'
      BY <2>0, <2>2, <2>3, SizeIsTotalNext
    <3>2. ToSet(stack_cache') \cap stack_used' = {}
      BY <2>0, <2>2 DEF IInv, CacheConsistent
    <3> QED BY <2>2, <3>1, <3>2 DEF CacheConsistent
  <2>6. MappedListed'
    BY <2>0, <2>1, <2>2 DEF IInv, MappedListed
  <2>7. s \in mapped /\ s \notin stack_used
    BY <2>1 DEF IInv, MappedListed, CacheConsistent
  <2>8. CallInv'
    BY <1>0, <1>1, <2>0, <2>1, <2>7 DEF IInv, TypeOK, CallInv, FREE_P
  <2>9. TidInv'
    BY <2>0, <2>1, <2>2 DEF IInv, TidInv
  <2>10. FlagInv'
    BY <1>0, <2>0 DEF IInv, TypeOK, FlagInv
  <2>11. ExecEverywhere'
    <3>1. (stack_used' \cap mapped') \cup ToSet(stack_cache') \subseteq
          (stack_used \cap mapped) \cup ToSet(stack_cache)
      BY <2>0, <2>1, <2>2
    <3> QED BY <1>0, <2>0, <3>1 DEF IInv, TypeOK, ExecEverywhere
  <2> QED BY <2>4, <2>5, <2>6, <2>8, <2>9, <2>10, <2>11 DEF IInv
<1> QED BY <1>3, <1>4

(* A new mapping has no thread: tid is 0 and the block was on no list. *)
LEMMA MapInv ==
  ASSUME IInv, NEW c \in Creator, NEW s \in Stack, map_stack(c, s)
  PROVE  IInv'
<1> USE DEF map_stack, Goto
<1>0. req[c] \in Request /\ arg[c] = NULL /\ s \notin ToSet(stack_cache) /\ s \notin UserStack
  BY DEF IInv, CallInv, MappedListed
<1>1. /\ size \in [Stack -> Nat] /\ NULL \notin Stack
      /\ ToSet(stack_cache) \subseteq Stack \ UserStack /\ IsFiniteSet(ToSet(stack_cache))
  BY Basics DEF IInv
<1>2. TypeOK'
  <2>1. req[c].size \in Sizes /\ req[c].guard \in Guards
    BY <1>0 DEF Sizes, Guards
  <2> QED BY <1>0, <2>1 DEF IInv, TypeOK
<1>3. CacheConsistent'
  <2>1. \A x \in ToSet(stack_cache) : size[x] \in Nat /\ size[x] = size'[x]
    BY <1>0, <1>1
  <2>2. Total(size, ToSet(stack_cache)) = Total(size', ToSet(stack_cache))
    BY <1>1, <2>1, TotalSame
  <2>3. actsize' = SizeOf(ToSet(stack_cache))'
    BY <2>2, SizeIsTotal, SizeIsTotalNext DEF IInv, CacheConsistent
  <2> QED BY <1>0, <2>3 DEF IInv, CacheConsistent, IsInjective
<1>4. MappedListed'
  BY DEF IInv, MappedListed
<1>5. size'[s] = req[c].size /\ size'[s] \in Nat
  BY <1>0, <1>1, CacheAssumption
<1>6. CallInv'
  <2> SUFFICES ASSUME NEW d \in Creator
               PROVE  /\ arg'[d] = NULL <=> pc'[d] \in {"idle", "lookup", "mmap"}
                      /\ pc'[d] # "idle" => req[d] \in Request
                      /\ arg'[d] # NULL =>
                           /\ arg'[d] \in stack_used' \cap mapped' /\ tid'[arg'[d]] <= 0
                           /\ size'[arg'[d]] >= req[d].size
                           /\ \A e \in Creator : e # d => arg'[e] # arg'[d]
    BY DEF CallInv, FREE_P
  <2>1. CASE d = c
    <3>1. arg'[d] = s /\ pc'[d] = "recheck" /\ tid'[s] = 0
      BY <2>1 DEF IInv, TypeOK
    <3>2. \A e \in Creator : e # d => arg'[e] # s
      BY <1>1, <2>1 DEF IInv, TypeOK, CallInv
    <3> QED BY <1>0, <1>1, <1>5, <2>1, <3>1, <3>2
  <2>2. CASE d # c
    BY <1>1, <2>2 DEF IInv, TypeOK, CallInv, FREE_P
  <2> QED BY <2>1, <2>2
<1>7. TidInv'
  BY DEF IInv, TypeOK, TidInv
<1>8. FlagInv'
  <2>1. \A d \in Creator : d # c => arg[d] # s
    BY <1>1 DEF IInv, TypeOK, CallInv
  <2> QED BY <2>1 DEF IInv, TypeOK, CallInv, FlagInv
<1>9. ExecEverywhere'
  BY <1>0 DEF IInv, TypeOK, ExecEverywhere
<1> QED BY <1>2, <1>3, <1>4, <1>6, <1>7, <1>8, <1>9 DEF IInv

(* Unmapping blocks that are not on the cache leaves its size alone. *)
LEMMA Unmapped ==
  ASSUME TypeOK, NEW S, munmap(S), UNCHANGED stack_cache, S \cap ToSet(stack_cache) = {}
  PROVE  /\ mapped' \subseteq Stack /\ size' \in [Stack -> Sizes] /\ guard' \in [Stack -> Guards]
         /\ perm' \in [Stack -> {"none", "usable", "all"}]
         /\ \A s \in Stack \ S : size'[s] = size[s] /\ perm'[s] = perm[s]
         /\ SizeOf(ToSet(stack_cache))' = SizeOf(ToSet(stack_cache))
<1>1. 0 \in Sizes /\ 0 \in Guards
  BY DEF Sizes, Guards
<1>2. /\ mapped' \subseteq Stack /\ size' \in [Stack -> Sizes] /\ guard' \in [Stack -> Guards]
      /\ perm' \in [Stack -> {"none", "usable", "all"}]
  BY <1>1 DEF munmap, TypeOK
<1>3. \A s \in Stack \ S : size'[s] = size[s] /\ perm'[s] = perm[s]
  BY DEF munmap, TypeOK
<1>4. IsFiniteSet(ToSet(stack_cache)) /\ \A x \in ToSet(stack_cache) : size[x] \in Nat /\ size[x] = size'[x]
  BY <1>3, Basics
<1>5. Total(size, ToSet(stack_cache)) = Total(size', ToSet(stack_cache))
  BY <1>4, TotalSame
<1>6. SizeOf(ToSet(stack_cache))' = SizeOf(ToSet(stack_cache))
  BY <1>5, SizeIsTotal, SizeIsTotalNext
<1> QED BY <1>2, <1>3, <1>6

(* A failed change of permissions: the block is unmapped, whether its list   *)
(* entry stays (recheck_fails) or goes (mprot_error).                        *)
LEMMA GivenUpInv ==
  ASSUME IInv, NEW c \in Creator, arg[c] # NULL, munmap({arg[c]}), Finish(c),
         stack_used' \in {stack_used, stack_used \ {arg[c]}},
         UNCHANGED <<stack_user, stack_cache, actsize, tid, exec, mse>>
  PROVE  IInv'
<1> USE DEF Finish, Goto
<1>0. /\ arg[c] \in Stack /\ arg[c] \in stack_used /\ arg[c] \notin ToSet(stack_cache) /\ FREE_P(arg[c])
      /\ NULL \notin Stack /\ size \in [Stack -> Nat]
  BY Basics DEF IInv, TypeOK, CallInv, CacheConsistent
<1>1. /\ mapped' \subseteq Stack /\ size' \in [Stack -> Sizes] /\ guard' \in [Stack -> Guards]
      /\ perm' \in [Stack -> {"none", "usable", "all"}]
      /\ \A s \in Stack \ {arg[c]} : size'[s] = size[s] /\ perm'[s] = perm[s]
      /\ SizeOf(ToSet(stack_cache))' = SizeOf(ToSet(stack_cache))
  BY <1>0, Unmapped DEF IInv
<1>2. TypeOK'
  BY <1>1 DEF IInv, TypeOK
<1>3. CacheConsistent'
  BY <1>1 DEF IInv, CacheConsistent, IsInjective
<1>4. mapped' = mapped \ {arg[c]}
  BY DEF munmap
<1>5. MappedListed'
  BY <1>0, <1>4 DEF IInv, MappedListed
<1>6. CallInv'
  <2> SUFFICES ASSUME NEW d \in Creator
               PROVE  /\ arg'[d] = NULL <=> pc'[d] \in {"idle", "lookup", "mmap"}
                      /\ pc'[d] # "idle" => req'[d] \in Request
                      /\ arg'[d] # NULL =>
                           /\ arg'[d] \in stack_used' \cap mapped' /\ tid[arg'[d]] <= 0
                           /\ size'[arg'[d]] >= req'[d].size
                           /\ \A e \in Creator : e # d => arg'[e] # arg'[d]
    BY DEF CallInv, FREE_P
  <2>1. CASE d = c
    BY <2>1 DEF IInv, TypeOK
  <2>2. CASE d # c
    <3>1. arg'[d] = arg[d] /\ pc'[d] = pc[d] /\ req'[d] = req[d]
      BY <2>2 DEF IInv, TypeOK
    <3>2. arg[d] # NULL => /\ arg[d] # arg[c] /\ arg[d] \in Stack
                           /\ arg[d] \in stack_used \cap mapped /\ tid[arg[d]] <= 0
                           /\ size[arg[d]] >= req[d].size
                           /\ \A e \in Creator : e # d => arg[e] # arg[d]
      BY <2>2 DEF IInv, TypeOK, CallInv, FREE_P
    <3>3. \A e \in Creator : arg'[e] = arg[e] \/ arg'[e] = NULL
      BY DEF IInv, TypeOK
    <3>4. /\ arg[d] = NULL <=> pc[d] \in {"idle", "lookup", "mmap"}
          /\ pc[d] # "idle" => req[d] \in Request
      BY DEF IInv, CallInv
    <3> QED BY <1>1, <1>4, <3>1, <3>2, <3>3, <3>4
  <2> QED BY <2>1, <2>2
<1>7. TidInv'
  BY <1>0 DEF IInv, TypeOK, TidInv, FREE_P
<1>8. FlagInv'
  <2> SUFFICES ASSUME NEW d \in Creator, prot'[d]
               PROVE  exec /\ (pc'[d] = "recheck" => perm'[arg'[d]] # "none")
    BY DEF IInv, FlagInv
  <2>1. d # c /\ arg'[d] = arg[d] /\ pc'[d] = pc[d] /\ prot[d]
    BY DEF IInv, TypeOK
  <2>2. pc[d] = "recheck" => arg[d] # NULL /\ arg[d] \in Stack /\ arg[d] # arg[c]
    BY <2>1 DEF IInv, TypeOK, CallInv
  <2> QED BY <1>1, <2>1, <2>2 DEF IInv, FlagInv
<1>9. ExecEverywhere'
  <2> SUFFICES ASSUME mse = "done", NEW s \in (stack_used' \cap mapped') \cup ToSet(stack_cache)
               PROVE  perm'[s] # "none" \/ \E d \in Creator : arg'[d] = s /\ pc'[d] = "recheck"
    BY DEF ExecEverywhere
  <2>1. s # arg[c] /\ s \in Stack /\ s \in (stack_used \cap mapped) \cup ToSet(stack_cache)
    BY <1>0, <1>4, Basics DEF IInv, TypeOK
  <2>2. perm'[s] = perm[s]
    BY <1>1, <2>1
  <2>3. ASSUME NEW d \in Creator, arg[d] = s, pc[d] = "recheck"
        PROVE  arg'[d] = s /\ pc'[d] = "recheck"
    BY <2>1, <2>3 DEF IInv, TypeOK
  <2> QED BY <2>1, <2>2, <2>3 DEF IInv, ExecEverywhere
<1> QED BY <1>2, <1>3, <1>5, <1>6, <1>7, <1>8, <1>9 DEF IInv

(* change_stack_perm fails on a new block. *)
LEMMA RecheckFailsInv ==
  ASSUME IInv, NEW c \in Creator, recheck_fails(c)
  PROVE  IInv'
<1>1. arg[c] # NULL
  BY DEF IInv, CallInv, recheck_fails
<1> QED BY <1>1, GivenUpInv DEF recheck_fails, lists

(* mprotect fails on the guard of a new or reused block. *)
LEMMA MprotErrorInv ==
  ASSUME IInv, NEW c \in Creator, mprot_error(c)
  PROVE  IInv'
<1>1. arg[c] # NULL
  BY DEF IInv, CallInv, mprot_error
<1> QED BY <1>1, GivenUpInv DEF mprot_error

(* The new guard leaves the rest of the block as executable as it was. *)
LEMMA FixGuardInv ==
  ASSUME IInv, NEW c \in Creator, fix_guard(c)
  PROVE  IInv'
<1> USE DEF fix_guard, Finish, Goto, lists
<1>0. /\ arg[c] \in Stack /\ NULL \notin Stack /\ req[c] \in Request
      /\ size \in [Stack -> Nat] /\ guard \in [Stack -> Nat]
  BY Basics DEF IInv, TypeOK, CallInv
<1>1. TypeOK'
  <2>1. req[c].guard \in Guards
    BY <1>0 DEF Guards
  <2>2. guard' \in [Stack -> Guards]
    BY <1>0, <2>1 DEF IInv, TypeOK
  <2>3. perm' \in [Stack -> {"none", "usable", "all"}]
    BY <1>0 DEF IInv, TypeOK
  <2> QED BY <2>2, <2>3 DEF IInv, TypeOK
<1>2. CacheConsistent' /\ MappedListed'
  BY CacheKept
<1>3. CallInv'
  BY <1>0 DEF IInv, TypeOK, CallInv, FREE_P
<1>4. TidInv'
  BY TidKept
<1>5. \A s \in Stack : perm[s] # "none" => perm'[s] # "none"
  BY <1>0 DEF IInv, TypeOK
<1>6. FlagInv'
  <2> SUFFICES ASSUME NEW d \in Creator, prot'[d]
               PROVE  exec /\ (pc'[d] = "recheck" => perm'[arg'[d]] # "none")
    BY DEF IInv, FlagInv
  <2>1. d # c /\ arg'[d] = arg[d] /\ pc'[d] = pc[d] /\ prot[d]
    BY DEF IInv, TypeOK
  <2>2. pc[d] = "recheck" => arg[d] \in Stack
    BY DEF IInv, TypeOK, CallInv
  <2> QED BY <1>5, <2>1, <2>2 DEF IInv, FlagInv
<1>7. ExecEverywhere'
  <2> SUFFICES ASSUME mse = "done", NEW s \in (stack_used \cap mapped) \cup ToSet(stack_cache)
               PROVE  perm'[s] # "none" \/ \E d \in Creator : arg'[d] = s /\ pc'[d] = "recheck"
    BY DEF ExecEverywhere
  <2>1. s \in Stack
    BY Basics DEF IInv, TypeOK
  <2>2. ASSUME NEW d \in Creator, arg[d] = s, pc[d] = "recheck"
        PROVE  arg'[d] = s /\ pc'[d] = "recheck"
    BY <2>2 DEF IInv, TypeOK
  <2> QED BY <1>5, <2>1, <2>2 DEF IInv, ExecEverywhere
<1> QED BY <1>1, <1>2, <1>3, <1>4, <1>6, <1>7 DEF IInv

(* The cache after free_stacks, or with nothing freed: what is left of list, *)
(* with its size; the others were free and are unmapped.                     *)
LEMMA Becomes ==
  ASSUME TypeOK, NEW list \in Seq(Stack \ UserStack), IsInjective(list),
         NEW left, CacheBecomes(left, list),
         \/ left = [list |-> list, total |-> Total(size, ToSet(list))]
         \/ \E limit \in Int : left = free_stacks(list, Total(size, ToSet(list)), limit)
  PROVE  /\ stack_cache' \in Seq(Stack \ UserStack) /\ IsInjective(stack_cache')
         /\ ToSet(stack_cache') \subseteq ToSet(list)
         /\ actsize' = SizeOf(ToSet(stack_cache))' /\ actsize' \in Nat
         /\ mapped' = mapped \ (ToSet(list) \ ToSet(stack_cache'))
         /\ size' \in [Stack -> Sizes] /\ guard' \in [Stack -> Guards]
         /\ perm' \in [Stack -> {"none", "usable", "all"}]
         /\ \A x \in ToSet(list) \ ToSet(stack_cache') : FREE_P(x)
         /\ \A x \in Stack : x \notin ToSet(list) \ ToSet(stack_cache') =>
                               size'[x] = size[x] /\ perm'[x] = perm[x]
<1> DEFINE T == ToSet(list)
           total == Total(size, T)
           L == left.list
           gone == T \ ToSet(L)
<1>0. size \in [Stack -> Nat] /\ UserStack \subseteq Stack
  BY Basics
<1>1. T \subseteq Stack \ UserStack /\ IsFiniteSet(T) /\ T \subseteq Stack
  BY SetOfSeq
<1>2. \A x \in T : size[x] \in Nat
  BY <1>0, <1>1
<1>3. total \in Nat
  BY <1>1, <1>2, TotalNat
<1>4. /\ L \in Seq(Stack \ UserStack) /\ IsInjective(L) /\ ToSet(L) \subseteq T
      /\ (\A x \in gone : FREE_P(x)) /\ left.total = total - Total(size, gone)
  <2>1. CASE left = [list |-> list, total |-> total]
    <3>1. L = list /\ left.total = total /\ gone = {}
      BY <2>1
    <3>2. Total(size, gone) = 0
      BY <3>1, TotalEmpty
    <3> HIDE DEF total
    <3> QED BY <1>3, <3>1, <3>2
  <2>2. ASSUME NEW limit \in Int, left = free_stacks(list, total, limit)
        PROVE  TrimOf(left, T, Stack \ UserStack, total)
    <3>1. total \in Int /\ Stack \ UserStack \in SUBSET Stack
      BY <1>3
    <3> HIDE DEF total
    <3> QED BY <1>0, <2>2, <3>1, Trimmed
  <2>3. CASE \E limit \in Int : left = free_stacks(list, total, limit)
    <3>1. TrimOf(left, T, Stack \ UserStack, total)
      BY <2>2, <2>3
    <3> HIDE DEF total, T
    <3> QED BY <3>1 DEF TrimOf, Trims
  <2> QED BY <2>1, <2>3
<1>5. stack_cache' = L /\ actsize' = left.total /\ munmap(gone)
  BY DEF CacheBecomes
<1>6. 0 \in Sizes /\ 0 \in Guards
  BY DEF Sizes, Guards
<1> HIDE DEF T, total, L
<1>7. /\ mapped' = mapped \ gone /\ size' \in [Stack -> Sizes] /\ guard' \in [Stack -> Guards]
      /\ perm' \in [Stack -> {"none", "usable", "all"}]
      /\ \A x \in Stack : x \notin gone => size'[x] = size[x] /\ perm'[x] = perm[x]
  BY <1>5, <1>6 DEF munmap, TypeOK
<1>8. actsize' = Total(size, ToSet(L)) /\ actsize' \in Nat
  <2>1. T \ gone = ToSet(L) /\ gone \subseteq T
    BY <1>4
  <2>2. total = Total(size, gone) + Total(size, ToSet(L))
    BY <1>1, <1>2, <2>1, TotalSplit DEF total
  <2>3. Total(size, gone) \in Nat /\ Total(size, ToSet(L)) \in Nat
    <3>1. IsFiniteSet(gone) /\ IsFiniteSet(ToSet(L))
      BY <1>1, <1>4, <2>1, FS_Subset
    <3>2. (\A x \in gone : size[x] \in Nat) /\ (\A x \in ToSet(L) : size[x] \in Nat)
      BY <1>2, <1>4, <2>1
    <3> HIDE DEF gone
    <3> QED BY <3>1, <3>2, TotalNat
  <2> HIDE DEF gone
  <2> QED BY <1>4, <1>5, <2>2, <2>3
<1>9. actsize' = SizeOf(ToSet(stack_cache))'
  <2>1. \A x \in ToSet(L) : size[x] \in Nat /\ size[x] = size'[x]
    BY <1>1, <1>2, <1>4, <1>7
  <2>2. IsFiniteSet(ToSet(L))
    BY <1>1, <1>4, FS_Subset
  <2>3. Total(size, ToSet(L)) = Total(size', ToSet(L))
    BY <2>1, <2>2, TotalSame
  <2> QED BY <1>5, <1>8, <2>3, SizeIsTotalNext
<1> QED BY <1>4, <1>5, <1>7, <1>8, <1>9 DEF T

(* Memory of the application is on a list of its own. *)
LEMMA UserStackInv ==
  ASSUME IInv, NEW c \in Creator, NEW s \in Stack, allocate_user_stack(c, s)
  PROVE  IInv'
<1> USE DEF allocate_user_stack, blocks, locals
<1>1. TypeOK'
  BY DEF IInv, TypeOK
<1>2. CacheConsistent' /\ MappedListed'
  BY CacheKept
<1>3. CallInv'
  <2>1. \A d \in Creator : arg[d] # NULL =>
            /\ arg[d] \in stack_used' \cap mapped'
            /\ size'[arg[d]] = size[arg[d]] /\ tid'[arg[d]] = tid[arg[d]]
    BY DEF IInv, TypeOK, CallInv
  <2> QED BY <2>1, CallKept
<1>4. TidInv'
  BY DEF IInv, TypeOK, TidInv
<1>5. FlagInv'
  BY DEF IInv, FlagInv
<1>6. ExecEverywhere'
  BY ExecKept
<1> QED BY <1>1, <1>2, <1>3, <1>4, <1>5, <1>6 DEF IInv

(* A thread on a block that no creator holds starts, exits or is joined. *)
LEMMA SetTidInv ==
  ASSUME IInv, NEW s \in Stack, NEW n \in {-1, 0, 1}, SetTid(s, n),
         \A c \in Creator : arg[c] # s, n = 1 => Given(s)
  PROVE  IInv'
<1> USE DEF SetTid, lists, blocks, locals
<1>1. TypeOK'
  BY DEF IInv, TypeOK
<1>2. CacheConsistent' /\ MappedListed'
  BY CacheKept
<1>3. CallInv'
  <2>1. \A d \in Creator : arg[d] # NULL =>
            /\ arg[d] \in stack_used' \cap mapped'
            /\ size'[arg[d]] = size[arg[d]] /\ tid'[arg[d]] = tid[arg[d]]
    BY DEF IInv, TypeOK, CallInv
  <2> QED BY <2>1, CallKept
<1>4. TidInv'
  <2> SUFFICES ASSUME NEW x \in Stack \ UserStack, tid'[x] = 1
               PROVE  x \in stack_used \cup ToSet(stack_cache)
    BY DEF TidInv
  <2>1. CASE x = s
    <3>1. n = 1
      BY <2>1 DEF IInv, TypeOK
    <3> QED BY <2>1, <3>1 DEF Given, IInv, TypeOK
  <2>2. CASE x # s
    BY <2>2 DEF IInv, TypeOK, TidInv
  <2> QED BY <2>1, <2>2
<1>5. FlagInv'
  BY DEF IInv, FlagInv
<1>6. ExecEverywhere'
  BY ExecKept
<1> QED BY <1>1, <1>2, <1>3, <1>4, <1>5, <1>6 DEF IInv

(* A thread is started, exits or is joined. *)
LEMMA ThreadInv ==
  ASSUME IInv, NEW s \in Stack, thread_starts(s) \/ thread_exits(s) \/ thread_joined(s)
  PROVE  IInv'
<1>1. CASE thread_starts(s)
  BY <1>1, SetTidInv DEF thread_starts, Given
<1>2. CASE thread_exits(s)
  <2>1. \A c \in Creator : arg[c] # s
    BY <1>2, CacheAssumption DEF thread_exits, IInv, CallInv, FREE_P
  <2> QED BY <1>2, <2>1, SetTidInv DEF thread_exits
<1>3. CASE thread_joined(s)
  BY <1>3, SetTidInv DEF thread_joined, Given
<1> QED BY <1>1, <1>2, <1>3

(* What unmapping free blocks of the list leaves of the invariant: no        *)
(* creator holds one of them and no thread runs on one.                      *)
LEMMA CacheBecomesInv ==
  ASSUME IInv, NEW list \in Seq(Stack \ UserStack), IsInjective(list),
         ToSet(list) \subseteq mapped, \A c \in Creator : arg[c] \notin ToSet(list),
         ToSet(stack_cache) \subseteq ToSet(list), stack_used' = stack_used \ ToSet(list),
         mapped \ UserStack \subseteq stack_used \cup ToSet(list),
         ToSet(list) \subseteq stack_used \cup ToSet(stack_cache),
         stack_user' \subseteq UserStack,
         NEW left, CacheBecomes(left, list),
         \/ left = [list |-> list, total |-> Total(size, ToSet(list))]
         \/ \E limit \in Int : left = free_stacks(list, Total(size, ToSet(list)), limit),
         UNCHANGED <<tid, exec, mse, locals>>
  PROVE  IInv'
<1> USE DEF locals
<1> DEFINE gone == ToSet(list) \ ToSet(stack_cache')
<1>0. TypeOK
  BY DEF IInv
<1>1. /\ stack_cache' \in Seq(Stack \ UserStack) /\ IsInjective(stack_cache')
      /\ ToSet(stack_cache') \subseteq ToSet(list)
      /\ actsize' = SizeOf(ToSet(stack_cache))' /\ actsize' \in Nat
      /\ mapped' = mapped \ gone
      /\ size' \in [Stack -> Sizes] /\ guard' \in [Stack -> Guards]
      /\ perm' \in [Stack -> {"none", "usable", "all"}]
      /\ \A x \in gone : FREE_P(x)
      /\ \A x \in Stack : x \notin gone => size'[x] = size[x] /\ perm'[x] = perm[x]
  BY <1>0, Becomes
<1>2. TypeOK'
  BY <1>1 DEF IInv, TypeOK
<1>3. CacheConsistent'
  BY <1>1 DEF CacheConsistent
<1>4. MappedListed'
  BY <1>1 DEF MappedListed
<1>5. \A c \in Creator : arg[c] # NULL =>
         arg[c] \in Stack /\ arg[c] \notin ToSet(list) /\ arg[c] \notin gone
  BY DEF IInv, TypeOK
<1>6. CallInv'
  <2>1. \A c \in Creator : arg[c] # NULL =>
            /\ arg[c] \in stack_used' \cap mapped'
            /\ size'[arg[c]] = size[arg[c]] /\ tid'[arg[c]] = tid[arg[c]]
    BY <1>1, <1>5 DEF IInv, CallInv
  <2> QED BY <2>1, CallKept
<1>7. TidInv'
  <2> SUFFICES ASSUME NEW x \in Stack \ UserStack, tid[x] = 1
               PROVE  x \in stack_used' \cup ToSet(stack_cache')
    BY DEF TidInv
  <2>1. x \in stack_used \cup ToSet(stack_cache)
    BY DEF IInv, TidInv
  <2>2. x \notin gone
    BY <1>1 DEF FREE_P
  <2> QED BY <2>1, <2>2
<1>8. FlagInv'
  <2> SUFFICES ASSUME NEW d \in Creator, prot[d]
               PROVE  exec /\ (pc[d] = "recheck" => perm'[arg[d]] # "none")
    BY DEF IInv, FlagInv
  <2>1. pc[d] = "recheck" => arg[d] # NULL
    BY DEF IInv, CallInv
  <2> QED BY <1>1, <1>5, <2>1 DEF IInv, FlagInv
<1>9. ExecEverywhere'
  <2> SUFFICES ASSUME mse = "done", NEW s \in (stack_used' \cap mapped') \cup ToSet(stack_cache')
               PROVE  perm'[s] # "none" \/ \E d \in Creator : arg[d] = s /\ pc[d] = "recheck"
    BY DEF ExecEverywhere
  <2>1. s \notin gone
    BY <1>1
  <2>2. s \in (stack_used \cap mapped) \cup ToSet(stack_cache)
    BY <1>1
  <2>3. s \in Stack
    BY <2>2, Basics DEF IInv, TypeOK
  <2>4. perm'[s] = perm[s]
    BY <1>1, <2>1, <2>3
  <2> QED BY <2>2, <2>4 DEF IInv, ExecEverywhere
<1> QED BY <1>2, <1>3, <1>4, <1>6, <1>7, <1>8, <1>9 DEF IInv

(* __nptl_stacks_freeres trims the cache to nothing. *)
LEMMA FreeresInv ==
  ASSUME IInv, stacks_freeres
  PROVE  IInv'
<1> DEFINE left == free_stacks(stack_cache, actsize, 0)
<1>1. stack_cache \in Seq(Stack \ UserStack) /\ IsInjective(stack_cache)
  BY DEF IInv, TypeOK, CacheConsistent
<1>2. actsize = Total(size, ToSet(stack_cache))
  BY SizeIsTotal DEF IInv, CacheConsistent
<1>3. ToSet(stack_cache) \subseteq Stack \ UserStack /\ NULL \notin Stack
  BY Basics DEF IInv
<1>4. \A c \in Creator : arg[c] \notin ToSet(stack_cache)
  BY <1>3 DEF IInv, CallInv, CacheConsistent
<1>5. ToSet(stack_cache) \subseteq mapped /\ mapped \ UserStack \subseteq stack_used \cup ToSet(stack_cache)
  BY DEF IInv, MappedListed
<1>6. stack_used' = stack_used \ ToSet(stack_cache) /\ stack_user' \subseteq UserStack
  BY DEF stacks_freeres, IInv, TypeOK, CacheConsistent
<1>7. CacheBecomes(left, stack_cache) /\ UNCHANGED <<tid, exec, mse, locals>>
  BY DEF stacks_freeres
<1>8. \E limit \in Int : left = free_stacks(stack_cache, Total(size, ToSet(stack_cache)), limit)
  BY <1>2
<1> HIDE DEF left
<1> QED BY <1>1, <1>4, <1>5, <1>6, <1>7, <1>8, CacheBecomesInv

(* __deallocate_stack of memory of our own: the list queue_stack works on,   *)
(* and its size, whether it is trimmed or not.                               *)
LEMMA Queued ==
  ASSUME IInv, NEW s \in Stack, s \notin UserStack, deallocate_stack(s),
         NEW list, list = <<s>> \o stack_cache
  PROVE  /\ s \in stack_used /\ s \in mapped /\ (\A c \in Creator : arg[c] # s)
         /\ s \notin ToSet(stack_cache) /\ ToSet(stack_cache) \cap stack_used = {}
         /\ stack_used' = stack_used \ {s} /\ stack_user' = stack_user
         /\ list \in Seq(Stack \ UserStack) /\ ToSet(list) = {s} \cup ToSet(stack_cache)
         /\ IsInjective(list)
         /\ \E left : /\ CacheBecomes(left, list)
                      /\ \/ left = [list |-> list, total |-> Total(size, ToSet(list))]
                         \/ \E limit \in Int : left = free_stacks(list, Total(size, ToSet(list)), limit)
<1> DEFINE total == actsize + size[s]
           left == IF total > CacheMax THEN free_stacks(list, total, CacheMax)
                   ELSE [list |-> list, total |-> total]
<1>1. CacheBecomes(left, list)
  BY DEF deallocate_stack, queue_stack
<1>2. Given(s) /\ stack_used' = stack_used \ {s} /\ stack_user' = stack_user \ {s}
  BY DEF deallocate_stack
<1>3. /\ s \in stack_used /\ s \in mapped /\ (\A c \in Creator : arg[c] # s)
      /\ s \in Stack \ UserStack /\ stack_user' = stack_user
  BY <1>2 DEF Given, IInv, TypeOK
<1>4. /\ stack_cache \in Seq(Stack \ UserStack) /\ IsInjective(stack_cache)
      /\ s \notin ToSet(stack_cache) /\ ToSet(stack_cache) \cap stack_used = {}
  BY <1>3 DEF IInv, TypeOK, CacheConsistent
<1>5. list \in Seq(Stack \ UserStack) /\ ToSet(list) = {s} \cup ToSet(stack_cache) /\ IsInjective(list)
  BY <1>3, <1>4, AddHead
<1>6. total = Total(size, ToSet(list))
  <2>1. size \in [Stack -> Nat] /\ IsFiniteSet(ToSet(stack_cache)) /\ ToSet(stack_cache) \subseteq Stack
    BY Basics DEF IInv
  <2>2. /\ IsFiniteSet(ToSet(list)) /\ (\A x \in ToSet(list) : size[x] \in Nat)
        /\ ToSet(list) \ {s} = ToSet(stack_cache) /\ s \in ToSet(list)
    BY <1>3, <1>4, <1>5, <2>1, FS_AddElement
  <2>3. Total(size, ToSet(list)) = size[s] + Total(size, ToSet(list) \ {s})
    BY <2>2, TotalRemove
  <2>4. Total(size, ToSet(list) \ {s}) = actsize
    BY <2>2, SizeIsTotal DEF IInv, CacheConsistent
  <2>5. size[s] \in Nat /\ actsize \in Nat
    BY <2>1 DEF IInv, TypeOK
  <2> QED BY <2>3, <2>4, <2>5
<1>7. CacheMax \in Int
  BY CacheAssumption
<1> HIDE DEF total
<1>8. \/ left = [list |-> list, total |-> Total(size, ToSet(list))]
      \/ \E limit \in Int : left = free_stacks(list, Total(size, ToSet(list)), limit)
  BY <1>6, <1>7
<1> HIDE DEF left
<1> QED BY <1>1, <1>2, <1>3, <1>4, <1>5, <1>8

(* __deallocate_stack: the block goes to the cache, which may be trimmed. *)
LEMMA DeallocateInv ==
  ASSUME IInv, NEW s \in Stack, deallocate_stack(s)
  PROVE  IInv'
<1>1. CASE s \in UserStack
  <2>0. /\ stack_used' = stack_used /\ stack_user' \subseteq UserStack
        /\ UNCHANGED <<stack_cache, actsize, mapped, size, guard, perm, tid, exec, mse, pc, arg, req, prot>>
    BY <1>1 DEF deallocate_stack, blocks, locals, IInv, TypeOK
  <2>1. TypeOK'
    BY <2>0 DEF IInv, TypeOK
  <2>2. CacheConsistent' /\ MappedListed'
    BY <2>0, CacheKept
  <2>3. CallInv' /\ FlagInv'
    BY <2>0 DEF IInv, CallInv, FREE_P, FlagInv
  <2>4. TidInv'
    BY <2>0, TidKept
  <2>5. ExecEverywhere'
    BY <2>0, ExecKept
  <2> QED BY <2>1, <2>2, <2>3, <2>4, <2>5 DEF IInv
<1>2. CASE s \notin UserStack
  <2> DEFINE list == <<s>> \o stack_cache
  <2>1. PICK left : /\ CacheBecomes(left, list)
                    /\ \/ left = [list |-> list, total |-> Total(size, ToSet(list))]
                       \/ \E limit \in Int : left = free_stacks(list, Total(size, ToSet(list)), limit)
    BY <1>2, Queued
  <2>2. /\ s \in stack_used /\ s \in mapped /\ (\A c \in Creator : arg[c] # s)
        /\ s \notin ToSet(stack_cache) /\ ToSet(stack_cache) \cap stack_used = {}
        /\ stack_used' = stack_used \ {s} /\ stack_user' = stack_user
        /\ list \in Seq(Stack \ UserStack) /\ ToSet(list) = {s} \cup ToSet(stack_cache)
        /\ IsInjective(list)
    BY <1>2, Queued
  <2> HIDE DEF list
  <2>3. \A c \in Creator : arg[c] \notin ToSet(list)
    <3>1. NULL \notin ToSet(list)
      BY <2>2, Basics DEF IInv
    <3> QED BY <2>2, <3>1 DEF IInv, CallInv
  <2>4. /\ ToSet(list) \subseteq mapped /\ ToSet(stack_cache) \subseteq ToSet(list)
        /\ mapped \ UserStack \subseteq stack_used \cup ToSet(list)
        /\ ToSet(list) \subseteq stack_used \cup ToSet(stack_cache)
        /\ stack_used' = stack_used \ ToSet(list) /\ stack_user' \subseteq UserStack
    BY <2>2 DEF IInv, MappedListed, TypeOK
  <2>5. UNCHANGED <<tid, exec, mse, locals>>
    BY DEF deallocate_stack
  <2> QED BY <2>1, <2>2, <2>3, <2>4, <2>5, CacheBecomesInv
<1> QED BY <1>1, <1>2

(* The flag is set before any stack is changed. *)
LEMMA SetFlagInv ==
  ASSUME IInv, set_exec_flag
  PROVE  IInv'
<1> USE DEF set_exec_flag, lists, blocks, locals
<1>1. TypeOK'
  BY DEF IInv, TypeOK
<1>2. CacheConsistent' /\ MappedListed'
  BY CacheKept
<1>3. CallInv' /\ TidInv'
  BY TidKept DEF IInv, CallInv, FREE_P
<1>4. FlagInv' /\ ExecEverywhere'
  BY DEF IInv, FlagInv, ExecEverywhere
<1> QED BY <1>1, <1>2, <1>3, <1>4 DEF IInv

(* The race: whatever was listed has become executable; what is listed       *)
(* later finds the flag set.                                                 *)
LEMMA MakeExecInv ==
  ASSUME IInv, make_stacks_executable
  PROVE  IInv'
<1>0. /\ mse = "flagged"
      /\ UNCHANGED <<stack_used, stack_user, stack_cache, actsize, mapped, size, guard, tid, exec,
                     pc, arg, req, prot>>
  BY DEF make_stacks_executable, lists, locals
<1>1. \E S : executable(S) /\ \/ mse' = "done" /\ S = stack_used \cup ToSet(stack_cache)
                              \/ mse' = "failed"
  BY DEF make_stacks_executable
<1>2. PICK S : /\ perm' = [s \in Stack |-> IF s \in S THEN "all" ELSE perm[s]]
               /\ \/ mse' = "done" /\ S = stack_used \cup ToSet(stack_cache)
                  \/ mse' = "failed"
  BY <1>1 DEF executable
<1>3. TypeOK'
  BY <1>0, <1>2 DEF IInv, TypeOK
<1>4. CacheConsistent' /\ MappedListed'
  BY <1>0, CacheKept
<1>5. CallInv' /\ TidInv'
  BY <1>0, TidKept DEF IInv, CallInv, FREE_P
<1>6. \A s \in Stack : perm[s] # "none" => perm'[s] # "none"
  BY <1>2
<1>7. FlagInv'
  <2>1. exec' /\ mse' # "no"
    BY <1>0, <1>2 DEF IInv, FlagInv
  <2>2. ASSUME NEW d \in Creator, prot'[d], pc'[d] = "recheck" PROVE perm'[arg'[d]] # "none"
    <3>1. arg[d] \in Stack /\ perm[arg[d]] # "none"
      BY <1>0, <2>2 DEF IInv, TypeOK, CallInv, FlagInv
    <3> QED BY <1>0, <1>6, <3>1
  <2> QED BY <2>1, <2>2 DEF FlagInv
<1>8. ExecEverywhere'
  <2>1. \A s \in stack_used \cup ToSet(stack_cache) : s \in Stack
    BY Basics DEF IInv, TypeOK
  <2> QED BY <1>0, <1>2, <2>1 DEF ExecEverywhere
<1> QED BY <1>3, <1>4, <1>5, <1>7, <1>8 DEF IInv

(* Every step keeps the invariant. *)
LEMMA NextInv ==
  ASSUME IInv, [Next]_vars
  PROVE  IInv'
<1>1. CASE UNCHANGED vars
  <2> USE <1>1 DEF vars
  <2>1. TypeOK' /\ CallInv' /\ FlagInv'
    BY DEF IInv, TypeOK, CallInv, FlagInv, FREE_P
  <2>2. CacheConsistent' /\ MappedListed'
    BY CacheKept
  <2>3. TidInv' /\ ExecEverywhere'
    BY TidKept, ExecKept
  <2> QED BY <2>1, <2>2, <2>3 DEF IInv
<1>2. CASE Next
  BY <1>2, AllocateInv, GetCachedInv, MapInv, MapFailsInv, UserStackInv, RecheckInv, RecheckFailsInv,
     FixGuardInv, MprotErrorInv, ThreadInv, DeallocateInv, FreeresInv, SetFlagInv, MakeExecInv DEF Next
<1> QED BY <1>1, <1>2

(* The whole of the stack cache's invariant, for any set of stacks and of    *)
(* creators, any requests and any limit of the cache.                        *)
THEOREM Invariance == Spec => []IInv
BY InitInv, NextInv, PTL DEF Spec

(* stack_cache_actsize is exactly the size of what is on the cache, and a    *)
(* stack is never queued twice nor both cached and in use.                   *)
THEOREM ActsizeExact == Spec => []CacheConsistent
<1>1. IInv => CacheConsistent
  BY DEF IInv
<1> QED BY <1>1, Invariance, PTL

(* No mapping escapes the lists, and nothing on the cache is unmapped.       *)
THEOREM NoMappingLost == Spec => []MappedListed
<1>1. IInv => MappedListed
  BY DEF IInv
<1> QED BY <1>1, Invariance, PTL

(* After __make_stacks_executable has succeeded no listed stack is without   *)
(* execution, except one whose allocate_stack has yet to look for the race.  *)
THEOREM ExecReachesAll == Spec => []ExecEverywhere
<1>1. IInv => ExecEverywhere
  BY DEF IInv
<1> QED BY <1>1, Invariance, PTL

-----------------------------------------------------------------------------
(* What a creator is given. *)
LEMMA GetCachedFits ==
  ASSUME IInv, NEW c \in Creator, get_cached_stack(c)
  PROVE  BestFit(c)
<1> DEFINE want == req[c].size
           s == search(want)
<1>0. req[c] \in Request /\ want \in Nat
  BY CacheAssumption DEF IInv, CallInv, get_cached_stack
<1>1. size \in [Stack -> Nat] /\ NULL \notin Stack /\ stack_cache \in Seq(Stack)
  BY Basics DEF IInv
<1>2. /\ s = NULL => \A y \in ToSet(stack_cache) : Fits(y, want) => size[y] > 4 * want
      /\ s # NULL => /\ s \in ToSet(stack_cache) /\ Fits(s, want) /\ size[s] <= 4 * want
                     /\ \A y \in ToSet(stack_cache) : Fits(y, want) => size[s] <= size[y]
  <2> HIDE DEF want
  <2> QED BY <1>0, <1>1, Searched
<1>3. /\ s = NULL => pc'[c] = "mmap"
      /\ s # NULL => pc'[c] = "guard" /\ arg'[c] = s
  BY DEF get_cached_stack, Goto, IInv, TypeOK
<1> HIDE DEF s
<1>4. CASE s = NULL
  BY <1>2, <1>3, <1>4 DEF BestFit, Fits
<1>5. CASE s # NULL
  BY <1>2, <1>3, <1>5 DEF BestFit, Fits
<1> QED BY <1>4, <1>5

(* The guard is moved only as far as the requested usable part allows. *)
LEMMA FixGuardFits ==
  ASSUME IInv, NEW c \in Creator, fix_guard(c)
  PROVE  UsableSize(c)
<1> DEFINE s == arg[c]
<1>1. /\ s \in Stack /\ req[c].size \in Nat /\ req[c].guard \in Nat /\ size[s] >= req[c].size
      /\ size[s] \in Nat /\ guard[s] \in Nat
  BY CacheAssumption, Basics DEF IInv, TypeOK, CallInv, fix_guard
<1>2. guard'[s] = IF GrowsGuard(c) \/ ShrinksGuard(c) THEN req[c].guard ELSE guard[s]
  BY <1>1 DEF fix_guard, IInv, TypeOK
<1>3. CASE GrowsGuard(c) \/ ShrinksGuard(c)
  BY <1>1, <1>2, <1>3 DEF UsableSize
<1>4. CASE ~ (GrowsGuard(c) \/ ShrinksGuard(c))
  BY <1>1, <1>2, <1>4 DEF UsableSize, GrowsGuard, ShrinksGuard
<1> QED BY <1>3, <1>4

(* Only get_cached_stack ends the lookup of a creator, only fix_guard and    *)
(* mprot_error its work on the guard.                                        *)
LEMMA OwnStep ==
  ASSUME IInv, NEW c \in Creator, [Next]_vars, pc'[c] # pc[c]
  PROVE  /\ pc[c] = "lookup" => get_cached_stack(c)
         /\ pc[c] = "guard" => fix_guard(c) \/ mprot_error(c)
<1>1. pc' # pc
  OBVIOUS
<1>2. PICK d \in Creator :
         \/ \E r \in Request : allocate_stack(d, r)
         \/ get_cached_stack(d)
         \/ \E s \in Stack : map_stack(d, s)
         \/ map_fails(d) \/ recheck_perm(d) \/ recheck_fails(d)
         \/ fix_guard(d) \/ mprot_error(d)
  BY <1>1 DEF Next, vars, allocate_user_stack, thread_starts, thread_exits, thread_joined, SetTid,
     deallocate_stack, stacks_freeres, set_exec_flag, make_stacks_executable, locals
<1>3. d = c
  <2>1. \E l : pc' = [pc EXCEPT ![d] = l]
    BY <1>2 DEF allocate_stack, get_cached_stack, map_stack, map_fails, recheck_perm, recheck_fails,
       fix_guard, mprot_error, Finish, Goto
  <2> QED BY <2>1 DEF IInv, TypeOK
<1>4. CASE pc[c] = "lookup"
  BY <1>2, <1>3, <1>4 DEF allocate_stack, map_stack, map_fails, recheck_perm, recheck_fails,
     fix_guard, mprot_error
<1>5. CASE pc[c] = "guard"
  BY <1>2, <1>3, <1>5 DEF allocate_stack, get_cached_stack, map_stack, map_fails, recheck_perm,
     recheck_fails
<1> QED BY <1>4, <1>5

(* What a step gives a creator fits its request. *)
LEMMA StepFits ==
  ASSUME IInv, [Next]_vars, NEW c \in Creator
  PROVE  BestFit(c) /\ UsableSize(c)
<1>1. BestFit(c)
  <2>1. CASE pc[c] = "lookup" /\ pc'[c] # "lookup"
    BY <2>1, OwnStep, GetCachedFits
  <2>2. CASE ~ (pc[c] = "lookup" /\ pc'[c] # "lookup")
    BY <2>2 DEF BestFit
  <2> QED BY <2>1, <2>2
<1>2. UsableSize(c)
  <2>1. CASE pc[c] = "guard" /\ pc'[c] = "idle"
    <3>1. fix_guard(c) \/ mprot_error(c)
      BY <2>1, OwnStep
    <3>2. CASE mprot_error(c)
      BY <3>2 DEF UsableSize, mprot_error
    <3> QED BY <3>1, <3>2, FixGuardFits
  <2>2. CASE ~ (pc[c] = "guard" /\ pc'[c] = "idle")
    BY <2>2 DEF UsableSize
  <2> QED BY <2>1, <2>2
<1> QED BY <1>1, <1>2

(* get_cached_stack takes the best fit and misses none, and allocate_stack   *)
(* returns a stack with the usable part asked for, for any sizes.            *)
THEOREM FitsRequest == Spec => StackFits
<1>1. IInv /\ [Next]_vars => [\A c \in Creator : BestFit(c) /\ UsableSize(c)]_vars
  BY StepFits
<1> QED BY <1>1, Invariance, PTL DEF Spec, StackFits

-----------------------------------------------------------------------------
(* The refinement of StackPool, one lemma per kind of step. *)
LEMMA Listed ==
  ASSUME IInv, NEW s \in Stack
  PROVE  /\ listed = [x \in Stack |-> listed[x]]
         /\ listed[s] = "used" <=> s \in stack_used \cup stack_user
         /\ listed[s] = "cached" <=> s \in ToSet(stack_cache)
         /\ listed[s] \in {"used", "cached", "unmapped"}
<1>1. ToSet(stack_cache) \cap (stack_used \cup stack_user) = {}
  BY Basics DEF IInv, TypeOK, CacheConsistent
<1> QED BY <1>1 DEF listed

(* A free block that is not in use is put in use. *)
LEMMA PoolAllocates ==
  ASSUME IInv, IInv', NEW s \in Stack, FREE_P(s), s \notin stack_used \cup stack_user,
         stack_used' \cup stack_user' = stack_used \cup stack_user \cup {s},
         ToSet(stack_cache') = ToSet(stack_cache) \ {s},
         tid' = [tid EXCEPT ![s] = IF s \in ToSet(stack_cache) THEN @ ELSE 0]
  PROVE  Pool!PoolNext
<1>1. listed[s] \in {"unmapped", "cached"} /\ (listed[s] = "cached" <=> s \in ToSet(stack_cache))
  BY Listed
<1>2. listed' = [listed EXCEPT ![s] = "used"]
  BY DEF listed
<1>3. Pool!allocate_stack(s)
  BY <1>1, <1>2 DEF Pool!allocate_stack, Pool!FREE_P, FREE_P
<1> QED BY <1>3 DEF Pool!PoolNext

(* A block in use is given back, and free ones may be unmapped. *)
LEMMA PoolFrees ==
  ASSUME IInv, NEW s \in Stack, s \notin UserStack, s \in stack_used,
         stack_used' = stack_used \ {s}, UNCHANGED <<stack_user, tid>>,
         ToSet(stack_cache') \subseteq ToSet(stack_cache) \cup {s},
         \A x \in (ToSet(stack_cache) \cup {s}) \ ToSet(stack_cache') : FREE_P(x)
  PROVE  Pool!PoolNext
<1> DEFINE out == (ToSet(stack_cache) \cup {s}) \ ToSet(stack_cache')
           Old == {x \in Stack : (listed[x] = "cached" \/ x = s) /\ Pool!FREE_P(x)}
<1>1. ToSet(stack_cache) \subseteq Stack /\ ToSet(stack_cache) \cap stack_used = {} /\ stack_user \subseteq UserStack
  BY Basics DEF IInv, TypeOK, CacheConsistent
<1>2. ToSet(stack_cache) \cap stack_user = {}
  BY Basics DEF IInv, TypeOK
<1>3. out \in SUBSET Old
  BY <1>1, Listed DEF Pool!FREE_P, FREE_P
<1>4. listed[s] = "used"
  BY Listed
<1>5. ASSUME NEW x \in Stack
      PROVE  listed'[x] = IF x \in out THEN "unmapped" ELSE IF x = s THEN "cached" ELSE listed[x]
  BY <1>1, <1>2 DEF listed
<1>6. listed' = [x \in Stack |-> IF x \in out THEN "unmapped" ELSE IF x = s THEN "cached" ELSE listed[x]]
  <2>1. listed' = [x \in Stack |-> listed'[x]]
    BY DEF listed
  <2> HIDE DEF out
  <2> QED BY <1>5, <2>1
<1>7. Pool!unuse_stack(s)
  <2> HIDE DEF out
  <2> QED BY <1>3, <1>6 DEF Pool!unuse_stack
<1>8. Pool!deallocate_stack(s)
  BY <1>4, <1>7 DEF Pool!deallocate_stack
<1> QED BY <1>8 DEF Pool!PoolNext

(* Free blocks of the cache are unmapped. *)
LEMMA PoolTrims ==
  ASSUME IInv, UNCHANGED <<stack_used, stack_user, tid>>,
         ToSet(stack_cache') \subseteq ToSet(stack_cache),
         \A x \in ToSet(stack_cache) \ ToSet(stack_cache') : FREE_P(x)
  PROVE  Pool!PoolNext
<1> DEFINE out == ToSet(stack_cache) \ ToSet(stack_cache')
           Old == {x \in Stack : listed[x] = "cached" /\ Pool!FREE_P(x)}
<1>1. ToSet(stack_cache) \subseteq Stack
  BY Basics DEF IInv
<1>2. ToSet(stack_cache) \cap (stack_used \cup stack_user) = {}
  BY Basics DEF IInv, TypeOK, CacheConsistent
<1>3. out \in SUBSET Old
  BY <1>1, Listed DEF Pool!FREE_P, FREE_P
<1>4. ASSUME NEW x \in Stack
      PROVE  listed'[x] = IF x \in out THEN "unmapped" ELSE listed[x]
  BY <1>2 DEF listed
<1>5. listed' = [x \in Stack |-> IF x \in out THEN "unmapped" ELSE listed[x]]
  <2>1. listed' = [x \in Stack |-> listed'[x]]
    BY DEF listed
  <2> HIDE DEF out
  <2> QED BY <1>4, <2>1
<1>6. Pool!trim_cache
  <2> HIDE DEF out
  <2> QED BY <1>3, <1>5 DEF Pool!trim_cache
<1> QED BY <1>6 DEF Pool!PoolNext

(* A step that leaves lists and tids alone is not seen in the pool. *)
LEMMA PoolSame ==
  ASSUME UNCHANGED <<stack_used, stack_user, stack_cache, tid>>
  PROVE  UNCHANGED Pool!poolVars
BY DEF listed, Pool!poolVars

(* The steps of allocate_stack. *)
LEMMA CreatorRefines ==
  ASSUME IInv, IInv', NEW c \in Creator,
         \/ \E r \in Request : allocate_stack(c, r)
         \/ get_cached_stack(c)
         \/ \E s \in Stack : map_stack(c, s) \/ allocate_user_stack(c, s)
         \/ map_fails(c) \/ recheck_perm(c) \/ recheck_fails(c)
         \/ fix_guard(c) \/ mprot_error(c)
  PROVE  Pool!PoolNext \/ UNCHANGED Pool!poolVars
<1>1. CASE \/ \E r \in Request : allocate_stack(c, r)
           \/ map_fails(c) \/ recheck_perm(c) \/ recheck_fails(c) \/ fix_guard(c)
  BY <1>1, PoolSame DEF allocate_stack, map_fails, recheck_perm, recheck_fails, fix_guard, lists
<1>2. CASE get_cached_stack(c)
  <2> DEFINE s == search(req[c].size)
  <2>1. CASE s = NULL
    BY <1>2, <2>1, PoolSame DEF get_cached_stack, lists
  <2>2. CASE s # NULL
    <3>0. req[c].size \in Nat
      BY <1>2, CacheAssumption DEF IInv, CallInv, get_cached_stack
    <3>1. s \in ToSet(stack_cache) /\ FREE_P(s)
      BY <2>2, <3>0, Basics, Searched DEF Fits, IInv
    <3>2. /\ stack_cache' = RemoveFirst(stack_cache, s) /\ stack_used' = stack_used \cup {s}
          /\ UNCHANGED <<stack_user, tid>>
      BY <1>2, <2>2 DEF get_cached_stack
    <3> HIDE DEF s
    <3>3. s \in Stack \ UserStack /\ s \notin stack_used \cup stack_user
      BY <3>1, Basics DEF IInv, TypeOK, CacheConsistent
    <3>4. ToSet(stack_cache') = ToSet(stack_cache) \ {s}
      <4>1. stack_cache \in Seq(Stack \ UserStack) /\ IsInjective(stack_cache)
        BY DEF IInv, TypeOK, CacheConsistent
      <4> QED BY <3>1, <3>2, <4>1, TakeOut
    <3>5. tid' = [tid EXCEPT ![s] = IF s \in ToSet(stack_cache) THEN @ ELSE 0]
      BY <3>1, <3>2 DEF IInv, TypeOK
    <3>6. stack_used' \cup stack_user' = stack_used \cup stack_user \cup {s}
      BY <3>2
    <3> QED BY <3>1, <3>3, <3>4, <3>5, <3>6, PoolAllocates
  <2> QED BY <2>1, <2>2
<1>3. ASSUME NEW s \in Stack, map_stack(c, s) PROVE Pool!PoolNext
  <2>1. /\ s \notin UserStack \cup mapped \cup stack_used /\ stack_used' = stack_used \cup {s}
        /\ tid' = [tid EXCEPT ![s] = 0] /\ UNCHANGED <<stack_user, stack_cache>>
    BY <1>3 DEF map_stack
  <2>2. s \notin ToSet(stack_cache) /\ s \notin stack_user
    BY <2>1 DEF IInv, TypeOK, MappedListed
  <2>3. FREE_P(s)
    BY <2>1, <2>2 DEF IInv, TypeOK, TidInv, FREE_P
  <2>4. tid' = [tid EXCEPT ![s] = IF s \in ToSet(stack_cache) THEN @ ELSE 0]
    BY <2>1, <2>2
  <2>5. ToSet(stack_cache') = ToSet(stack_cache) \ {s}
    BY <2>1, <2>2
  <2>6. stack_used' \cup stack_user' = stack_used \cup stack_user \cup {s}
    BY <2>1
  <2> QED BY <2>1, <2>2, <2>3, <2>4, <2>5, <2>6, PoolAllocates
<1>4. ASSUME NEW s \in Stack, allocate_user_stack(c, s) PROVE Pool!PoolNext
  <2>1. /\ s \in UserStack \ stack_user /\ FREE_P(s) /\ stack_user' = stack_user \cup {s}
        /\ tid' = [tid EXCEPT ![s] = 0] /\ UNCHANGED <<stack_used, stack_cache>>
    BY <1>4 DEF allocate_user_stack
  <2>2. s \notin ToSet(stack_cache) /\ s \notin stack_used
    BY <2>1, Basics DEF IInv, TypeOK
  <2>3. tid' = [tid EXCEPT ![s] = IF s \in ToSet(stack_cache) THEN @ ELSE 0]
    BY <2>1, <2>2
  <2>4. ToSet(stack_cache') = ToSet(stack_cache) \ {s}
    BY <2>1, <2>2
  <2>5. stack_used' \cup stack_user' = stack_used \cup stack_user \cup {s}
    BY <2>1
  <2> QED BY <2>1, <2>2, <2>3, <2>4, <2>5, PoolAllocates
<1>5. CASE mprot_error(c)
  <2>1. /\ arg[c] \in Stack /\ arg[c] \in stack_used /\ arg[c] \notin UserStack /\ FREE_P(arg[c])
    BY <1>5 DEF mprot_error, IInv, TypeOK, CallInv
  <2>2. arg[c] \notin ToSet(stack_cache)
    BY <2>1 DEF IInv, CacheConsistent
  <2>3. stack_used' = stack_used \ {arg[c]} /\ UNCHANGED <<stack_user, stack_cache, tid>>
    BY <1>5 DEF mprot_error
  <2>4. /\ ToSet(stack_cache') \subseteq ToSet(stack_cache) \cup {arg[c]}
        /\ \A x \in (ToSet(stack_cache) \cup {arg[c]}) \ ToSet(stack_cache') : FREE_P(x)
    BY <2>1, <2>2, <2>3
  <2> QED BY <2>1, <2>3, <2>4, PoolFrees
<1> QED BY <1>1, <1>2, <1>3, <1>4, <1>5

(* The steps of the threads. *)
LEMMA ThreadRefines ==
  ASSUME IInv, NEW s \in Stack, thread_starts(s) \/ thread_exits(s) \/ thread_joined(s)
  PROVE  Pool!PoolNext
<1>1. Given(s) => listed[s] = "used"
  BY Listed DEF Given
<1>2. UNCHANGED listed
  BY DEF thread_starts, thread_exits, thread_joined, SetTid, lists, listed
<1>3. Pool!set_tid(s) \/ Pool!clear_tid(s) \/ Pool!mark_joined(s)
  BY <1>1, <1>2 DEF thread_starts, thread_exits, thread_joined, SetTid, FREE_P,
     Pool!set_tid, Pool!clear_tid, Pool!mark_joined, Pool!put_tid, Pool!FREE_P
<1> QED BY <1>3 DEF Pool!PoolNext

(* __deallocate_stack. *)
LEMMA DeallocateRefines ==
  ASSUME IInv, NEW s \in Stack, deallocate_stack(s)
  PROVE  Pool!PoolNext
<1>1. CASE s \in UserStack
  <2>1. /\ stack_user' = stack_user \ {s} /\ s \in stack_user
        /\ stack_used' = stack_used /\ s \notin stack_used /\ UNCHANGED <<stack_cache, tid>>
    BY <1>1 DEF deallocate_stack, Given, IInv, TypeOK
  <2>2. s \notin ToSet(stack_cache)
    BY <1>1, Basics DEF IInv
  <2>3. listed' = [listed EXCEPT ![s] = "unmapped"]
    BY <2>1, <2>2 DEF listed
  <2>4. listed[s] = "used"
    BY <2>1, Listed
  <2>5. Pool!deallocate_stack(s)
    BY <1>1, <2>1, <2>3, <2>4 DEF Pool!deallocate_stack, Pool!unuse_stack
  <2> QED BY <2>5 DEF Pool!PoolNext
<1>2. CASE s \notin UserStack
  <2> DEFINE list == <<s>> \o stack_cache
  <2>1. PICK left : /\ CacheBecomes(left, list)
                    /\ \/ left = [list |-> list, total |-> Total(size, ToSet(list))]
                       \/ \E limit \in Int : left = free_stacks(list, Total(size, ToSet(list)), limit)
    BY <1>2, Queued
  <2>2. /\ s \in stack_used /\ stack_used' = stack_used \ {s} /\ stack_user' = stack_user
        /\ list \in Seq(Stack \ UserStack) /\ ToSet(list) = {s} \cup ToSet(stack_cache)
        /\ IsInjective(list)
    BY <1>2, Queued
  <2> HIDE DEF list
  <2>3. TypeOK /\ tid' = tid
    BY DEF IInv, deallocate_stack
  <2>4. /\ ToSet(stack_cache') \subseteq ToSet(list)
        /\ \A x \in ToSet(list) \ ToSet(stack_cache') : FREE_P(x)
    BY <2>1, <2>2, <2>3, Becomes
  <2>5. /\ ToSet(stack_cache') \subseteq ToSet(stack_cache) \cup {s}
        /\ \A x \in (ToSet(stack_cache) \cup {s}) \ ToSet(stack_cache') : FREE_P(x)
    BY <2>2, <2>4
  <2> QED BY <1>2, <2>2, <2>3, <2>5, PoolFrees
<1> QED BY <1>1, <1>2

(* __nptl_stacks_freeres. *)
LEMMA FreeresRefines ==
  ASSUME IInv, stacks_freeres
  PROVE  Pool!PoolNext
<1> DEFINE left == free_stacks(stack_cache, actsize, 0)
<1>1. TypeOK /\ stack_cache \in Seq(Stack \ UserStack) /\ IsInjective(stack_cache)
  BY DEF IInv, TypeOK, CacheConsistent
<1>2. actsize = Total(size, ToSet(stack_cache))
  BY SizeIsTotal DEF IInv, CacheConsistent
<1>3. CacheBecomes(left, stack_cache) /\ UNCHANGED <<stack_used, stack_user, tid>>
  BY DEF stacks_freeres
<1>4. \E limit \in Int : left = free_stacks(stack_cache, Total(size, ToSet(stack_cache)), limit)
  BY <1>2
<1> HIDE DEF left
<1>5. /\ ToSet(stack_cache') \subseteq ToSet(stack_cache)
      /\ \A x \in ToSet(stack_cache) \ ToSet(stack_cache') : FREE_P(x)
  BY <1>1, <1>3, <1>4, Becomes
<1> QED BY <1>3, <1>5, PoolTrims

(* The cache, with its order, sizes, limit and concurrent creators, is the   *)
(* pool of stacks module ThreadLife relies on: a block that is handed out    *)
(* was free, and none is unmapped under a thread.                            *)
THEOREM CacheIsPool == Spec => PoolSpec
<1>1. Init => Pool!PoolInit
  <2>1. Init => ToSet(stack_cache) = {}
    BY DEF Init, ToSet
  <2> QED BY <2>1 DEF Init, Pool!PoolInit, listed
<1>2. ASSUME IInv, IInv', [Next]_vars PROVE [Pool!PoolNext]_(Pool!poolVars)
  <2>1. CASE UNCHANGED vars
    BY <2>1, PoolSame DEF vars
  <2>2. CASE set_exec_flag \/ make_stacks_executable
    BY <2>2, PoolSame DEF set_exec_flag, make_stacks_executable, lists
  <2>3. CASE Next
    BY <1>2, <2>2, <2>3, CreatorRefines, ThreadRefines, DeallocateRefines, FreeresRefines DEF Next
  <2> QED BY <1>2, <2>1, <2>3
<1> QED BY <1>1, <1>2, Invariance, PTL DEF Spec, PoolSpec, Pool!PoolSpec

-----------------------------------------------------------------------------
(* Which stacks a deallocation frees. *)
LEMMA QueuePolicy ==
  ASSUME IInv, NEW s \in Stack, s \notin UserStack, deallocate_stack(s)
  PROVE  QueueTrims(s)
<1> DEFINE list == <<s>> \o stack_cache
           total == actsize + size[s]
           left == IF total > CacheMax THEN free_stacks(list, total, CacheMax)
                   ELSE [list |-> list, total |-> total]
           D == DOMAIN list
           isFreed(i) == list[i] \notin ToSet(stack_cache')
           newest == CHOOSE i \in D : isFreed(i) /\ \A j \in 1 .. i - 1 : ~isFreed(j)
<1>1. list \in Seq(Stack \ UserStack) /\ IsInjective(list)
  BY Queued
<1>2. /\ D = 1 .. Len(list) /\ Len(list) \in Nat /\ ToSet(list) = {list[i] : i \in D}
      /\ \A i \in D : list[i] \in Stack
  <2>1. ToSet(list) = {list[i] : i \in D}
    BY DEF ToSet
  <2> HIDE DEF list
  <2> QED BY <1>1, <2>1, SetOfSeq
<1>3. CacheBecomes(left, list)
  BY DEF deallocate_stack, queue_stack
<1>4. stack_cache' = left.list /\ actsize' = left.total
  BY <1>3 DEF CacheBecomes
<1>5. size \in [Stack -> Nat] /\ total \in Int /\ CacheMax \in Int /\ Stack \ UserStack \in SUBSET Stack
  BY Basics, CacheAssumption DEF IInv, TypeOK
<1> SUFFICES
      /\ actsize' <= CacheMax \/ \A f \in ToSet(stack_cache') : ~FREE_P(f)
      /\ (\E i \in D : isFreed(i)) => actsize' + size[list[newest]] > CacheMax
      /\ \A i, j \in D : i < j /\ isFreed(i) /\ FREE_P(list[j]) => isFreed(j)
  BY DEF QueueTrims
<1> HIDE DEF list, total
<1>6. CASE total > CacheMax
  <2>1. left = free_stacks(list, total, CacheMax)
    BY <1>6
  <2>2. TrimOf(left, ToSet(list), Stack \ UserStack, total) /\ OrderOf(left, D, list, CacheMax)
    BY <1>1, <1>5, <1>6, <2>1, Trimmed
  <2> HIDE DEF left
  <2>3. left.total \in Int /\ ToSet(left.list) \subseteq ToSet(list) /\ left.enough \in BOOLEAN
    BY <2>2 DEF TrimOf, Trims
  <2>4. \A i \in D : isFreed(i) <=> Gone(left, list, i)
    BY <1>4 DEF Gone
  <2>5. actsize' <= CacheMax \/ \A f \in ToSet(stack_cache') : ~FREE_P(f)
    <3>1. CASE left.enough
      BY <1>4, <2>2, <3>1 DEF OrderOf
    <3>2. CASE ~left.enough
      <4>1. \A i \in D : FREE_P(list[i]) => list[i] \notin ToSet(stack_cache')
        BY <2>2, <2>4, <3>2 DEF OrderOf
      <4> QED BY <1>2, <1>4, <2>3, <4>1
    <3> QED BY <3>1, <3>2
  <2>6. ASSUME NEW k \in D, isFreed(k) PROVE actsize' + size[list[newest]] > CacheMax
    <3> DEFINE F == {i \in D : isFreed(i)}
    <3>1. F \in SUBSET Nat /\ F # {}
      BY <1>2, <2>6
    <3>2. \E n \in F : \A i \in F : n <= i
      <4> HIDE DEF F
      <4> QED BY <3>1, Least
    <3>3. \E n \in D : isFreed(n) /\ \A j \in 1 .. n - 1 : ~isFreed(j)
      <4>1. PICK n \in F : \A i \in F : n <= i
        BY <3>2
      <4>2. n \in D /\ n \in Nat /\ isFreed(n) /\ n <= Len(list)
        BY <1>2, <4>1
      <4>3. ASSUME NEW j \in 1 .. n - 1 PROVE ~isFreed(j)
        <5>1. j \in D /\ j < n
          BY <1>2, <4>2
        <5>2. j \notin F
          BY <1>2, <4>1, <4>2, <5>1
        <5> QED BY <5>1, <5>2
      <4> QED BY <4>2, <4>3
    <3>4. newest \in D /\ isFreed(newest) /\ \A j \in 1 .. newest - 1 : ~isFreed(j)
      BY <3>3
    <3> HIDE DEF newest
    <3>5. \A j \in D : j < newest => ~isFreed(j)
      BY <1>2, <3>4
    <3> QED BY <1>4, <2>2, <2>4, <3>4, <3>5 DEF OrderOf
  <2>7. \A i, j \in D : i < j /\ isFreed(i) /\ FREE_P(list[j]) => isFreed(j)
    BY <2>2, <2>4 DEF OrderOf
  <2> QED BY <2>5, <2>6, <2>7
<1>7. CASE ~ (total > CacheMax)
  <2>1. stack_cache' = list /\ actsize' = total
    BY <1>4, <1>7
  <2>2. \A i \in D : ~isFreed(i)
    BY <1>2, <2>1
  <2> HIDE DEF newest, left
  <2> QED BY <1>5, <1>7, <2>1, <2>2
<1> QED BY <1>6, <1>7

(* Only __deallocate_stack takes a stack out of use and leaves every pc. *)
LEMMA PolicyStep ==
  ASSUME IInv, [Next]_vars, NEW s \in stack_used \ stack_used', pc' = pc
  PROVE  QueueTrims(s)
<1>1. s \in Stack /\ s \notin UserStack
  BY DEF IInv, TypeOK
<1>2. ASSUME NEW c \in Creator, mprot_error(c) PROVE FALSE
  BY <1>2 DEF mprot_error, Finish, Goto, IInv, TypeOK
<1>3. ASSUME NEW c \in Creator, get_cached_stack(c) PROVE FALSE
  BY <1>3 DEF get_cached_stack, lists
<1>4. ASSUME NEW c \in Creator,
             \/ \E r \in Request : allocate_stack(c, r)
             \/ \E x \in Stack : map_stack(c, x) \/ allocate_user_stack(c, x)
             \/ map_fails(c) \/ recheck_perm(c) \/ recheck_fails(c) \/ fix_guard(c)
      PROVE FALSE
  BY <1>4 DEF allocate_stack, map_stack, allocate_user_stack, map_fails, recheck_perm,
     recheck_fails, fix_guard, lists
<1>5. \E x \in Stack : deallocate_stack(x)
  BY <1>2, <1>3, <1>4 DEF Next, vars, thread_starts, thread_exits, thread_joined, SetTid,
     stacks_freeres, set_exec_flag, make_stacks_executable, lists
<1>6. deallocate_stack(s)
  BY <1>5 DEF deallocate_stack
<1> QED BY <1>1, <1>6, QueuePolicy

(* A deallocation trims the cache to the limit unless only stacks of threads *)
(* not yet dead are left, frees no more than needed, and the oldest first.   *)
THEOREM TrimsToLimit == Spec => TrimPolicy
<1>1. IInv /\ [Next]_vars => [\A s \in stack_used \ stack_used' : pc' = pc => QueueTrims(s)]_vars
  BY PolicyStep
<1> QED BY <1>1, Invariance, PTL DEF Spec, TrimPolicy

=============================================================================
