-------------------------- MODULE ForkReclaimProofs --------------------------
(***************************************************************************)
(* The lists of stacks and __reclaim_stacks, for any number of stacks and  *)
(* forks: IInv is inductive, one lemma per action, and the three           *)
(* invariants of ForkReclaim follow from it.  The lemmas before are about  *)
(* the walk of a list and about what the stores do to one.                 *)
(***************************************************************************)
EXTENDS ForkReclaim, FiniteSetTheorems, WellFoundedInduction, TLAPS

(***************************************************************************)
(* Induction, as facts about sets: the library's theorems take an operator *)
(* as a parameter, these take the set of the values that have a property.  *)
(***************************************************************************)

(* A set of natural numbers has a least one. *)
LEMMA Least ==
  ASSUME NEW S \in SUBSET Nat, S # {}
  PROVE  \E n \in S : \A k \in S : n <= k
<1> DEFINE R == {ss \in Nat \X Nat : ss[1] < ss[2]}
<1>1. IsWellFoundedOn(R, Nat)
  BY NatLessThanWellFounded, Zenon DEF OpToRel
<1> HIDE DEF R
<1>2. PICK n \in S : \A k \in S : ~ (<<k, n>> \in R)
  BY <1>1, WFMin
<1>3. ASSUME NEW k \in S, ~ (n <= k) PROVE FALSE
  <2>1. n \in Nat /\ k \in Nat /\ k < n
    BY <1>3
  <2>2. <<k, n>> \in Nat \X Nat /\ <<k, n>>[1] = k /\ <<k, n>>[2] = n
    BY <2>1
  <2>3. <<k, n>> \in R
    BY <2>1, <2>2, Zenon DEF R
  <2> QED BY <1>2, <2>3
<1> QED BY <1>3

(* A set that has 0 and the successor of each of its numbers has all. *)
LEMMA Induction ==
  ASSUME NEW G, 0 \in G, \A n \in Nat : n \in G => n + 1 \in G
  PROVE  \A n \in Nat : n \in G
<1> SUFFICES ASSUME NEW m \in Nat, m \notin G PROVE FALSE
  OBVIOUS
<1> DEFINE B == {n \in Nat : n \notin G}
<1>1. PICK n \in B : \A k \in B : n <= k
  <2>1. B \in SUBSET Nat /\ m \in B
    OBVIOUS
  <2> HIDE DEF B
  <2> QED BY <2>1, Least
<1>2. n # 0
  OBVIOUS
<1>3. n - 1 \in Nat /\ n - 1 \notin B
  BY <1>1, <1>2
<1>4. n - 1 \in G
  BY <1>3
<1> QED BY <1>3, <1>4

-----------------------------------------------------------------------------
(* Paths. *)

(* There are finitely many nodes, and NULL is none of them. *)
LEMMA NodesFinite ==
  /\ IsFiniteSet(Node) /\ Cardinality(Node) \in Nat
  /\ \A n \in Node : IsFiniteSet(Node \ {n}) /\ Cardinality(Node \ {n}) = Cardinality(Node) - 1
<1>1. IsFiniteSet(Heads)
  <2>1. Heads = (({} \cup {"stack_used"}) \cup {"stack_cache"}) \cup {"stack_user"}
    BY DEF Heads
  <2> QED BY <2>1, FS_EmptySet, FS_AddElement, Zenon
<1>2. IsFiniteSet(Node)
  BY <1>1, ForkReclaimAssumption, FS_Union DEF Node
<1> QED BY <1>2, FS_CardinalityType, FS_RemoveElement

IsPath(at, f, n) ==
  /\ at \in [1 .. Cardinality(Node) -> Node]
  /\ \A i \in 1 .. Cardinality(Node) : at[i] = IF i = 1 THEN n ELSE f[at[i - 1]]

(* A function defined along the numbers by its value before exists. *)
LEMMA PathExists ==
  ASSUME NEW f \in [Node -> Node], NEW n \in Node
  PROVE  \E at : IsPath(at, f, n)
<1> DEFINE N == Cardinality(Node)
           Sol(g, k) == \A i \in 1 .. N : i <= k => g[i] = IF i = 1 THEN n ELSE f[g[i - 1]]
           H == {k \in Nat : \E g \in [1 .. N -> Node] : Sol(g, k)}
<1>1. N \in Nat
  BY NodesFinite
<1> HIDE DEF N
<1>2. 0 \in H
  <2> DEFINE g == [i \in 1 .. N |-> n]
  <2>1. g \in [1 .. N -> Node] /\ Sol(g, 0)
    BY <1>1
  <2> HIDE DEF g, Sol
  <2> QED BY <2>1
<1>3. ASSUME NEW k \in Nat, k \in H PROVE k + 1 \in H
  <2>1. PICK g \in [1 .. N -> Node] : Sol(g, k)
    BY <1>3
  <2> DEFINE h == [i \in 1 .. N |-> IF i <= k THEN g[i] ELSE IF i = 1 THEN n ELSE f[g[i - 1]]]
  <2>2. h \in [1 .. N -> Node]
    BY <1>1
  <2>3. ASSUME NEW i \in 1 .. N, i <= k + 1 PROVE h[i] = IF i = 1 THEN n ELSE f[h[i - 1]]
    <3>1. CASE i = 1
      BY <1>1, <2>1, <3>1
    <3>2. CASE i # 1
      <4>1. i - 1 \in 1 .. N /\ i - 1 <= k
        BY <1>1, <2>3, <3>2
      <4>2. h[i - 1] = g[i - 1]
        BY <4>1
      <4>3. h[i] = f[g[i - 1]]
        BY <1>1, <2>1, <3>2
      <4> QED BY <3>2, <4>2, <4>3
    <3> QED BY <3>1, <3>2
  <2>4. Sol(h, k + 1)
    BY <2>3
  <2> HIDE DEF h, Sol
  <2> QED BY <2>2, <2>4
<1>4. \A k \in Nat : k \in H
  <2> HIDE DEF H
  <2> QED BY <1>2, <1>3, Induction
<1>5. PICK g \in [1 .. N -> Node] : Sol(g, N)
  BY <1>1, <1>4
<1>6. \A i \in 1 .. N : g[i] = IF i = 1 THEN n ELSE f[g[i - 1]]
  BY <1>1, <1>5
<1> HIDE DEF Sol
<1> QED BY <1>5, <1>6 DEF IsPath, N

IsPathTo(at, f, n, h) ==
  /\ IsPath(at, f, n)
  /\ DOMAIN Path(f, n, h) = {i \in 1 .. Cardinality(Node) : \A j \in 1 .. i : at[j] # h}
  /\ \A i \in DOMAIN Path(f, n, h) : Path(f, n, h)[i] = at[i]

(* Path is such a function, up to the head. *)
LEMMA PathIs ==
  ASSUME NEW f \in [Node -> Node], NEW n \in Node, NEW h
  PROVE  \E at : IsPathTo(at, f, n, h)
<1> DEFINE N == Cardinality(Node)
           Body(g) == [i \in 1 .. N |-> IF i = 1 THEN n ELSE f[g[i - 1]]]
           c == CHOOSE g : g = Body(g)
<1>1. PICK g : IsPath(g, f, n)
  BY PathExists
<1>2. g = Body(g)
  BY <1>1 DEF IsPath
<1>3. c = Body(c)
  BY <1>2
<1>4. Path(f, n, h) = [i \in {j \in DOMAIN c : \A k \in 1 .. j : c[k] # h} |-> c[i]]
  BY DEF Path
<1> HIDE DEF c
<1>5. DOMAIN c = 1 .. N /\ \A i \in 1 .. N : c[i] = IF i = 1 THEN n ELSE f[c[i - 1]]
  BY <1>3
<1>6. N \in Nat
  BY NodesFinite
<1> HIDE DEF N, Body
<1>7. \A k \in Nat : k \in {i \in Nat : i + 1 \in 1 .. N => c[i + 1] \in Node}
  <2> DEFINE G == {i \in Nat : i + 1 \in 1 .. N => c[i + 1] \in Node}
  <2>1. 0 \in G
    BY <1>5, <1>6
  <2>2. ASSUME NEW k \in Nat, k \in G PROVE k + 1 \in G
    <3> SUFFICES ASSUME k + 2 \in 1 .. N PROVE c[k + 2] \in Node
      BY <1>6
    <3>1. k + 1 \in 1 .. N /\ c[k + 1] \in Node
      BY <1>6, <2>2
    <3>2. c[k + 2] = f[c[k + 1]]
      BY <1>5, <1>6
    <3> QED BY <3>1, <3>2
  <2> HIDE DEF G
  <2>3. \A k \in Nat : k \in G
    BY <2>1, <2>2, Induction
  <2> QED BY <2>3 DEF G
<1>8. ASSUME NEW i \in 1 .. N PROVE c[i] \in Node
  <2>1. i - 1 \in Nat /\ i - 1 + 1 = i
    BY <1>6
  <2> QED BY <1>7, <2>1
<1>9. c \in [1 .. N -> Node]
  <2>1. c = [i \in 1 .. N |-> c[i]]
    BY <1>3, <1>5 DEF Body
  <2> QED BY <1>8, <2>1
<1>10. IsPath(c, f, n)
  BY <1>5, <1>9 DEF IsPath, N
<1> QED BY <1>4, <1>5, <1>10 DEF N, IsPathTo

(* A path is within every set that has its start and is closed. *)
LEMMA PathWithin ==
  ASSUME NEW f \in [Node -> Node], NEW n \in Node, NEW h, NEW X,
         n \in X \cup {h}, \A x \in X : f[x] \in X \cup {h}
  PROVE  \A i \in DOMAIN Path(f, n, h) : i \in Nat /\ Path(f, n, h)[i] \in X
<1> DEFINE N == Cardinality(Node)
<1>1. PICK at :
        /\ IsPath(at, f, n)
        /\ DOMAIN Path(f, n, h) = {i \in 1 .. N : \A j \in 1 .. i : at[j] # h}
        /\ \A i \in DOMAIN Path(f, n, h) : Path(f, n, h)[i] = at[i]
  BY PathIs DEF IsPathTo
<1>2. N \in Nat
  BY NodesFinite
<1>3. \A i \in 1 .. N : at[i] = IF i = 1 THEN n ELSE f[at[i - 1]]
  BY <1>1 DEF IsPath
<1> HIDE DEF N
<1> DEFINE G == {k \in Nat : k + 1 \in DOMAIN Path(f, n, h) => at[k + 1] \in X}
<1>4. 0 \in G
  BY <1>1, <1>2, <1>3
<1>5. ASSUME NEW k \in Nat, k \in G PROVE k + 1 \in G
  <2> SUFFICES ASSUME k + 2 \in DOMAIN Path(f, n, h) PROVE at[k + 2] \in X
    OBVIOUS
  <2>1. k + 2 \in 1 .. N /\ \A j \in 1 .. k + 2 : at[j] # h
    BY <1>1
  <2>2. k + 1 \in DOMAIN Path(f, n, h)
    BY <1>1, <1>2, <2>1
  <2>3. at[k + 2] = f[at[k + 1]] /\ at[k + 2] # h
    BY <1>2, <1>3, <2>1
  <2> QED BY <1>5, <2>2, <2>3
<1> HIDE DEF G
<1>6. \A k \in Nat : k \in G
  BY <1>4, <1>5, Induction
<1>7. ASSUME NEW i \in DOMAIN Path(f, n, h) PROVE i \in Nat /\ at[i] \in X
  <2>1. i \in 1 .. N /\ i - 1 \in Nat /\ i - 1 + 1 = i
    BY <1>1, <1>2
  <2> QED BY <1>6, <2>1 DEF G
<1> QED BY <1>1, <1>7

(* A path that is not cut short by the number of nodes ends at the head: the *)
(* set of its nodes is closed.                                               *)
LEMMA PathCloses ==
  ASSUME NEW f \in [Node -> Node], NEW n \in Node, NEW h \in Node
  PROVE  LET R == Range(Path(f, n, h)) IN
         /\ R \subseteq Node \ {h}
         /\ n \in R \cup {h}
         /\ \A w \in R : f[w] \in R \cup {h}
<1> DEFINE N == Cardinality(Node)
           p == Path(f, n, h)
           R == Range(p)
<1>1. PICK at :
        /\ IsPath(at, f, n)
        /\ DOMAIN p = {i \in 1 .. N : \A j \in 1 .. i : at[j] # h}
        /\ \A i \in DOMAIN p : p[i] = at[i]
  <2>1. PICK at : IsPathTo(at, f, n, h)
    BY PathIs
  <2> QED BY <2>1 DEF IsPathTo
<1>2. N \in Nat /\ N # 0 /\ IsFiniteSet(Node \ {h}) /\ Cardinality(Node \ {h}) = N - 1
  BY NodesFinite, FS_EmptySet
<1>3. at \in [1 .. N -> Node] /\ \A i \in 1 .. N : at[i] = IF i = 1 THEN n ELSE f[at[i - 1]]
  BY <1>1 DEF IsPath
<1>4. R = {p[i] : i \in DOMAIN p}
  BY DEF Range
<1> HIDE DEF N, p, R
<1>5. \A w \in R : \E i \in DOMAIN p : w = at[i]
  BY <1>1, <1>4
<1>6. \A i \in DOMAIN p : at[i] \in R
  BY <1>1, <1>4
<1>7. R \subseteq Node \ {h}
  <2> SUFFICES ASSUME NEW w \in R PROVE w \in Node \ {h}
    OBVIOUS
  <2>1. PICK i \in DOMAIN p : w = at[i]
    BY <1>5
  <2>2. i \in 1 .. N /\ i \in 1 .. i /\ at[i] # h
    BY <1>1, <1>2
  <2> QED BY <1>3, <2>1, <2>2
<1>8. n \in R \cup {h}
  <2>1. 1 \in 1 .. N /\ at[1] = n
    BY <1>2, <1>3
  <2>2. at[1] # h => 1 \in DOMAIN p
    BY <1>1, <2>1
  <2> QED BY <1>6, <2>1, <2>2
<1>9. ASSUME NEW i \in DOMAIN p, i # N PROVE f[at[i]] \in R \cup {h}
  <2>1. i \in 1 .. N /\ i + 1 \in 1 .. N /\ at[i + 1] = f[at[i]]
    BY <1>1, <1>2, <1>3, <1>9
  <2>2. at[i + 1] # h => i + 1 \in DOMAIN p
    BY <1>1, <1>2, <2>1
  <2> QED BY <1>6, <2>1, <2>2
<1>10. ASSUME N \in DOMAIN p PROVE f[at[N]] \in R
  <2>1. \A i \in 1 .. N : i \in DOMAIN p /\ at[i] \in Node \ {h}
    BY <1>1, <1>2, <1>3, <1>10
  <2>2. at \in [1 .. N -> Node \ {h}]
    BY <1>3, <2>1
  <2>3. IsFiniteSet(1 .. N) /\ Cardinality(1 .. N) = N
    BY <1>2, FS_Interval
  <2>4. \E i, j \in 1 .. N : i # j /\ at[i] = at[j]
    BY <1>2, <2>2, <2>3, FS_PigeonHole
  <2>5. PICK i \in 1 .. N, j \in 1 .. N : i < j /\ at[i] = at[j]
    BY <1>2, <2>4
  <2> DEFINE G == {k \in Nat : k + 1 \in 1 .. N => \E l \in 1 .. (j - 1) : at[k + 1] = at[l]}
  <2>6. \A l \in 1 .. (j - 1) : \E q \in 1 .. (j - 1) : f[at[l]] = at[q]
    <3> SUFFICES ASSUME NEW l \in 1 .. (j - 1) PROVE \E q \in 1 .. (j - 1) : f[at[l]] = at[q]
      OBVIOUS
    <3>1. l + 1 \in 1 .. N /\ at[l + 1] = f[at[l]]
      BY <1>2, <1>3
    <3>2. CASE l = j - 1
      BY <1>2, <2>5, <3>1, <3>2
    <3>3. CASE l # j - 1
      BY <1>2, <3>1, <3>3
    <3> QED BY <3>2, <3>3
  <2>7. 0 \in G
    BY <1>2, <2>5
  <2>8. ASSUME NEW k \in Nat, k \in G PROVE k + 1 \in G
    <3> SUFFICES ASSUME k + 2 \in 1 .. N PROVE \E l \in 1 .. (j - 1) : at[k + 2] = at[l]
      BY <1>2
    <3>1. k + 1 \in 1 .. N /\ at[k + 2] = f[at[k + 1]]
      BY <1>2, <1>3
    <3>2. PICK l \in 1 .. (j - 1) : at[k + 1] = at[l]
      BY <2>8, <3>1
    <3> QED BY <2>6, <3>1, <3>2
  <2> HIDE DEF G
  <2>9. N - 1 \in G
    BY <1>2, <2>7, <2>8, Induction
  <2>10. PICK l \in 1 .. (j - 1) : at[N] = at[l]
    BY <1>2, <2>9 DEF G
  <2>11. PICK q \in 1 .. (j - 1) : f[at[l]] = at[q]
    BY <2>6
  <2>12. q \in 1 .. N
    BY <1>2
  <2> QED BY <1>6, <2>1, <2>10, <2>11, <2>12
<1>11. \A w \in R : f[w] \in R \cup {h}
  BY <1>5, <1>9, <1>10
<1> QED BY <1>7, <1>8, <1>11 DEF R, p
(***************************************************************************)
(* The inductive invariant.  A list is described by the set of its         *)
(* elements, not by a path: the pointers lead from its head through all of *)
(* the set and back, and no smaller set is closed under them.  While a     *)
(* change is under way this holds of the pointers as they will be once a   *)
(* deletion is completed, or an addition taken back.                       *)
(***************************************************************************)

\* The element in flight is being taken off a list.
Deleting == stage \in {"no", "repair"} /\ in_flight_stack # NULL /\ ~ in_flight_stack.add
elem == in_flight_stack.elem

\* The head of the list an element is being added to, as far as the pointers show.
Target ==
  IF pc = "add" THEN head
  ELSE IF stage = "repair" /\ in_flight_stack # NULL THEN broken ELSE NULL

FixNext == IF Deleting THEN [next EXCEPT ![prev[elem]] = next[elem]] ELSE next
FixPrev ==
  IF Deleting THEN [prev EXCEPT ![next[elem]] = prev[elem]]
  ELSE IF Target # NULL THEN [prev EXCEPT ![next[Target]] = Target] ELSE prev

\* T is what is between the head h and its end, forwards and backwards.
Closed(nx, h, W) == nx[h] \in W \cup {h} /\ \A w \in W : nx[w] \in W \cup {h}
Linked(nx, pv, h, T) ==
  /\ \A n \in T \cup {h} :
       /\ nx[n] \in T \cup {h} /\ pv[n] \in T \cup {h}
       /\ pv[nx[n]] = n /\ nx[pv[n]] = n
  /\ \A W \in SUBSET T : Closed(nx, h, W) => W = T

Near(T, h) == prev[elem] \in T \cup {h} /\ next[elem] \in T \cup {h}

\* U is stack_used, C is stack_cache, S is stack_user.
Rings(nx, pv, U, C, S) ==
  /\ U \cap C = {}
  /\ Linked(nx, pv, "stack_cache", C)
  /\ IF stage = "relist" THEN U = {} ELSE Linked(nx, pv, "stack_used", U)
  /\ stage = "no" => Linked(nx, pv, "stack_user", S)

UserClosed ==
  \A n \in User \cup {"stack_user"} :
    next[n] \in User \cup {"stack_user"} /\ prev[n] \in User \cup {"stack_user"}

\* Where the element of a deletion is, and how far the stores are.
DeletingInv(U, C, S) ==
  Deleting =>
    /\ elem \notin U \cup C \cup S
    /\ \/ elem \notin User /\ (Near(U, "stack_used") \/ Near(C, "stack_cache"))
       \/ elem \in User /\ Near(User \ {elem}, "stack_user")
    /\ next[prev[elem]] \in {elem, next[elem]}
DelInv ==
  pc = "del" =>
    /\ 1 \in done => prev[next[e]] = prev[e]
    /\ 2 \in done => next[prev[e]] = next[e]
    /\ done \subseteq {1, 2}
TrimInv(C) ==
  job.kind = "trim" /\ pc \in {"del", "account", "unmap"} => prev[e] \in C \cup {"stack_cache"}
AddInv(U, C, S) ==
  pc = "add" =>
    /\ e \notin U \cup C \cup S
    /\ 1 \in done => next[e] = next[head]
    /\ 2 \in done => prev[e] = head
    /\ prev[next[head]] = IF 3 \in done THEN e ELSE head
RepairInv(U, C) ==
  stage = "repair" /\ in_flight_stack # NULL =>
    /\ elem = interrupted
    /\ in_flight_stack.add =>
         /\ elem \in mapped \ (lost \cup User)
         /\ broken # NULL => elem \notin U \cup C /\ prev[next[broken]] = elem

JobInv ==
  /\ pc = "no" <=> job = Idle
  /\ pc # "no" => stage = "no" /\ e \in Block /\ job.kind # "none"
  /\ job.kind = "user" => e \in User
  /\ e \in User => job.kind \in {"user", "free"}
  /\ pc \in {"del_flight", "del"} => job.kind \in {"get", "free", "drop", "trim"}
  /\ pc = "add_flight" => job.kind \in {"get", "map", "free"} /\ e \notin User
  /\ pc \in {"add", "added"} => job.kind \in {"get", "map", "free", "user"} /\ (e \in User => job.kind = "user")
  /\ pc = "account" => job.kind \in {"get", "free", "trim"} /\ e \notin User
  /\ pc = "unmap" => job.kind \in {"trim", "drop"}
  /\ job.kind \in {"trim", "drop"} => ~ tid[e]
  /\ pc \notin {"del", "add"} => done = {}
  /\ stage = "no" =>
       in_flight_stack = IF pc = "del" THEN [elem |-> e, add |-> FALSE]
                         ELSE IF pc \in {"add", "added"} /\ e \notin User THEN [elem |-> e, add |-> TRUE]
                         ELSE NULL
  /\ stage = "no" <=> self = NULL

PlaceInv(U, C, S) ==
  /\ pc = "del_flight" =>
       /\ job.kind \in {"get", "trim"} => e \in C
       /\ job.kind = "drop" => e \in U
       /\ job.kind = "free" => e \in U \cup S
  /\ pc \in {"added", "account", "end"} =>
       /\ job.kind \in {"get", "map"} => e \in U
       /\ job.kind = "free" => e \in C \cup User

Limbo == \/ pc \in {"del", "add_flight", "add", "unmap"}
         \/ pc = "account" /\ job.kind = "trim"

ThreadInv(U, C) ==
  /\ \A b \in live : tid[b] /\ b \in User \cup U \cup C \cup {e}
  /\ stage # "no" =>
       /\ live = {self} /\ self # interrupted
       /\ self \in User \/ (IF stage = "relist" THEN self \in C ELSE self \in U)

MappedInv(U, C) ==
  /\ lost \subseteq mapped
  /\ U \cup C \subseteq mapped \ lost
  /\ stage = "no" => U \cup C = (mapped \ lost) \ (IF Limbo THEN {e} ELSE {})
  /\ Limbo => e \in User \cup (mapped \ lost)
  /\ stage # "no" => (mapped \ lost) \ {interrupted} \subseteq U \cup C

SizeInv(U, C) ==
  ~ skewed =>
    /\ stage = "no" =>
         actsize = Cardinality(C) +
           (IF \/ job.kind = "get" /\ pc \in {"del", "add_flight", "add", "added", "account"}
               \/ job.kind = "trim" /\ pc \in {"del", "account"}
            THEN 1
            ELSE IF job.kind = "free" /\ pc \in {"added", "account"} THEN -1 ELSE 0)
    /\ stage = "repair" =>
         /\ actsize = Cardinality(C)
         /\ in_flight_stack # NULL /\ in_flight_stack.add => broken # "stack_cache"
    /\ stage = "mark" => actsize = Cardinality(C)
    /\ stage = "splice" => actsize = Cardinality(C) + Cardinality(U \ {self})
    /\ stage = "relist" => actsize = Cardinality(C \ {self})

Shape(U, C, S) ==
  /\ TypeOK /\ JobInv /\ UserClosed
  /\ U \subseteq Block \ User /\ C \subseteq Block \ User /\ S \subseteq User
  /\ Rings(FixNext, FixPrev, U, C, S)
  /\ DeletingInv(U, C, S) /\ DelInv /\ TrimInv(C) /\ AddInv(U, C, S) /\ RepairInv(U, C)
  /\ PlaceInv(U, C, S) /\ ThreadInv(U, C) /\ MappedInv(U, C) /\ SizeInv(U, C)

IInv == \E U, C \in SUBSET (Block \ User) : \E S \in SUBSET User : Shape(U, C, S)
-----------------------------------------------------------------------------
(* What is done to a list. *)

(* Only the pointers of the head and of the elements matter. *)
LEMMA LinkedFrame ==
  ASSUME NEW nx, NEW pv, NEW h, NEW T, Linked(nx, pv, h, T),
         NEW nx2, NEW pv2, \A n \in T \cup {h} : nx2[n] = nx[n] /\ pv2[n] = pv[n]
  PROVE  Linked(nx2, pv2, h, T)
<1>1. \A n \in T \cup {h} :
        /\ nx2[n] \in T \cup {h} /\ pv2[n] \in T \cup {h}
        /\ pv2[nx2[n]] = n /\ nx2[pv2[n]] = n
  BY DEF Linked
<1>2. \A W \in SUBSET T : Closed(nx2, h, W) => W = T
  BY DEF Linked, Closed
<1> QED BY <1>1, <1>2 DEF Linked

(* No element is its own neighbour. *)
LEMMA LinkedOther ==
  ASSUME NEW nx, NEW pv, NEW h, NEW T, Linked(nx, pv, h, T), h \notin T, NEW x \in T
  PROVE  nx[x] # x /\ pv[x] # x
<1> SUFFICES ASSUME nx[x] = x \/ pv[x] = x PROVE FALSE
  OBVIOUS
<1>1. nx[x] = x /\ pv[x] = x
  BY DEF Linked
<1> DEFINE W == T \ {x}
<1>2. \A n \in W \cup {h} : nx[n] \in W \cup {h}
  BY <1>1 DEF Linked
<1>3. Closed(nx, h, W)
  BY <1>2 DEF Closed
<1> QED BY <1>3 DEF Linked

(* The head of an empty list is its own neighbour, and of no other list. *)
LEMMA LinkedNil ==
  ASSUME NEW nx, NEW pv, NEW h, NEW T, Linked(nx, pv, h, T), nx[h] = h
  PROVE  T = {}
<1>1. Closed(nx, h, {})
  BY DEF Closed
<1> QED BY <1>1 DEF Linked

(* INIT_LIST_HEAD *)
LEMMA LinkedEmpty ==
  ASSUME NEW nx, NEW pv, NEW h, nx[h] = h, pv[h] = h
  PROVE  Linked(nx, pv, h, {})
BY DEF Linked

(* INIT_LIST_HEAD and list_add *)
LEMMA LinkedOne ==
  ASSUME NEW nx, NEW pv, NEW h, NEW x, x # h, nx[h] = x, pv[h] = x, nx[x] = h, pv[x] = h
  PROVE  Linked(nx, pv, h, {x})
<1>1. \A W \in SUBSET {x} : Closed(nx, h, W) => W = {x}
  BY DEF Closed
<1> QED BY <1>1 DEF Linked

(* list_del *)
LEMMA LinkedDel ==
  ASSUME NEW nx, NEW pv, NEW h, NEW T, Linked(nx, pv, h, T), h \notin T, NEW x \in T,
         NEW nx2, NEW pv2,
         \A n \in (T \ {x}) \cup {h} :
           /\ nx2[n] = IF n = pv[x] THEN nx[x] ELSE nx[n]
           /\ pv2[n] = IF n = nx[x] THEN pv[x] ELSE pv[n]
  PROVE  Linked(nx2, pv2, h, T \ {x})
<1> DEFINE D == T \ {x}
<1>1. nx[x] \in D \cup {h} /\ pv[x] \in D \cup {h}
  BY LinkedOther DEF Linked
<1>2. \A n \in D \cup {h} : nx2[n] \in D \cup {h} /\ pv2[n] \in D \cup {h}
  BY <1>1 DEF Linked
<1>3. \A n \in D \cup {h} : pv2[nx2[n]] = n /\ nx2[pv2[n]] = n
  BY <1>1, <1>2 DEF Linked
<1>4. ASSUME NEW W \in SUBSET D, Closed(nx2, h, W) PROVE W = D
  <2>1. CASE pv[x] \in W \cup {h}
    <3>1. nx[x] \in W \cup {h}
      BY <1>1, <1>4, <2>1 DEF Closed
    <3>2. \A n \in W \cup {h} : nx[n] \in W \cup {x, h}
      BY <1>4 DEF Closed, Linked
    <3>3. Closed(nx, h, W \cup {x})
      BY <3>1, <3>2 DEF Closed
    <3>4. W \cup {x} = T
      BY <3>3 DEF Linked
    <3> QED BY <3>4
  <2>2. CASE pv[x] \notin W \cup {h}
    <3>1. \A n \in W \cup {h} : nx[n] \in W \cup {h}
      BY <1>4, <2>2 DEF Closed
    <3>2. Closed(nx, h, W)
      BY <3>1 DEF Closed
    <3> QED BY <3>2 DEF Linked
  <2> QED BY <2>1, <2>2
<1> QED BY <1>2, <1>3, <1>4 DEF Linked

(* list_add *)
LEMMA LinkedAdd ==
  ASSUME NEW nx, NEW pv, NEW h, NEW T, Linked(nx, pv, h, T), h \notin T, NEW x, x \notin T, x # h,
         NEW nx2, NEW pv2, nx2[x] = nx[h], pv2[x] = h,
         \A n \in T \cup {h} :
           /\ nx2[n] = IF n = h THEN x ELSE nx[n]
           /\ pv2[n] = IF n = nx[h] THEN x ELSE pv[n]
  PROVE  Linked(nx2, pv2, h, T \cup {x})
<1> DEFINE A == T \cup {x}
<1>1. nx[h] \in T \cup {h}
  BY DEF Linked
<1>2. \A n \in A \cup {h} : nx2[n] \in A \cup {h} /\ pv2[n] \in A \cup {h}
  BY <1>1 DEF Linked
<1>3. \A n \in A \cup {h} : pv2[nx2[n]] = n /\ nx2[pv2[n]] = n
  BY <1>1, <1>2 DEF Linked
<1>4. ASSUME NEW W \in SUBSET A, Closed(nx2, h, W) PROVE W = A
  <2>1. x \in W
    BY <1>4 DEF Closed
  <2>2. \A n \in (W \ {x}) \cup {h} : nx[n] \in (W \ {x}) \cup {h}
    BY <1>1, <1>4, <2>1 DEF Closed, Linked
  <2>3. Closed(nx, h, W \ {x})
    BY <2>2 DEF Closed
  <2>4. W \ {x} = T
    BY <2>3 DEF Linked
  <2> QED BY <2>1, <2>4
<1> QED BY <1>2, <1>3, <1>4 DEF Linked

(* list_splice *)
LEMMA LinkedSplice ==
  ASSUME NEW nx, NEW pv, NEW u, NEW U, NEW c, NEW C,
         Linked(nx, pv, u, U), Linked(nx, pv, c, C), U \cap C = {}, u # c,
         u \notin U \cup C, c \notin U \cup C, nx[u] # u,
         NEW nx2, NEW pv2,
         \A n \in U \cup C \cup {c} :
           /\ nx2[n] = IF n = c THEN nx[u] ELSE IF n = pv[u] THEN nx[c] ELSE nx[n]
           /\ pv2[n] = IF n = nx[u] THEN c ELSE IF n = nx[c] THEN pv[u] ELSE pv[n]
  PROVE  Linked(nx2, pv2, c, U \cup C)
<1> DEFINE A == U \cup C
<1>1. nx[u] \in U /\ pv[u] \in U /\ nx[c] \in C \cup {c} /\ pv[c] \in C \cup {c}
  BY DEF Linked
<1>2. \A n \in U : /\ nx2[n] = (IF n = pv[u] THEN nx[c] ELSE nx[n]) /\ (n # pv[u] => nx[n] \in U)
                   /\ pv2[n] = (IF n = nx[u] THEN c ELSE pv[n]) /\ (n # nx[u] => pv[n] \in U)
  BY <1>1 DEF Linked
<1>3. \A n \in C : /\ nx2[n] = nx[n] /\ nx[n] \in C \cup {c}
                   /\ pv2[n] = (IF n = nx[c] THEN pv[u] ELSE pv[n]) /\ pv[n] \in C \cup {c}
  BY <1>1 DEF Linked
<1>4. nx2[c] = nx[u] /\ pv2[c] = IF c = nx[c] THEN pv[u] ELSE pv[c]
  BY <1>1
<1>5. \A n \in A \cup {c} : nx2[n] \in A \cup {c} /\ pv2[n] \in A \cup {c}
  BY <1>1, <1>2, <1>3, <1>4
<1>6. \A n \in U : pv2[nx2[n]] = n /\ nx2[pv2[n]] = n
  BY <1>1, <1>2, <1>3, <1>4 DEF Linked
<1>7. \A n \in C \cup {c} : pv2[nx2[n]] = n /\ nx2[pv2[n]] = n
  BY <1>1, <1>2, <1>3, <1>4 DEF Linked
<1>8. ASSUME NEW W \in SUBSET A, Closed(nx2, c, W) PROVE W = A
  <2>1. nx[u] \in W
    BY <1>1, <1>4, <1>8 DEF Closed
  <2>2. \A n \in W \cap U : nx[n] \in (W \cap U) \cup {u}
    BY <1>1, <1>2, <1>8 DEF Closed, Linked
  <2>3. Closed(nx, u, W \cap U)
    BY <1>1, <2>1, <2>2 DEF Closed
  <2>4. W \cap U = U
    BY <2>3 DEF Linked
  <2>5. nx[c] \in W \cup {c}
    BY <1>1, <1>2, <1>8, <2>4 DEF Closed
  <2>6. \A n \in (W \cap C) \cup {c} : nx[n] \in (W \cap C) \cup {c}
    BY <1>1, <1>3, <1>8, <2>5 DEF Closed
  <2>7. Closed(nx, c, W \cap C)
    BY <2>6 DEF Closed
  <2>8. W \cap C = C
    BY <2>7 DEF Linked
  <2> QED BY <2>4, <2>8
<1> QED BY <1>5, <1>6, <1>7, <1>8 DEF Linked

(* The walk of a list is the set of its elements. *)
LEMMA WalkIs ==
  ASSUME NEW nx \in [Node -> Node], NEW pv, NEW h \in Node, NEW T, h \notin T, Linked(nx, pv, h, T)
  PROVE  Range(Path(nx, nx[h], h)) = T
<1> DEFINE p == Path(nx, nx[h], h)
           R == Range(p)
<1>1. nx[h] \in Node
  OBVIOUS
<1>2. R \subseteq Node \ {h} /\ nx[h] \in R \cup {h} /\ \A w \in R : nx[w] \in R \cup {h}
  BY <1>1, PathCloses
<1>3. \A i \in DOMAIN p : p[i] \in T
  <2>1. nx[h] \in T \cup {h} /\ \A n \in T : nx[n] \in T \cup {h}
    BY DEF Linked
  <2> QED BY <1>1, <2>1, PathWithin
<1>4. R \subseteq T
  BY <1>3 DEF Range
<1> HIDE DEF R
<1>5. Closed(nx, h, R)
  BY <1>2 DEF Closed
<1>6. R = T
  BY <1>4, <1>5 DEF Linked
<1> QED BY <1>6 DEF R

(* The walk comes to all elements of a list that another one is taken off. *)
LEMMA WalkCovers ==
  ASSUME NEW nx \in [Node -> Node], NEW pv, NEW h \in Node, NEW T, h \notin T,
         NEW nx2, Linked(nx2, pv, h, T), NEW x, x # h,
         \A n \in T \cup {h} : nx2[n] = nx[n] \/ (nx[n] = x /\ nx2[n] = nx[x])
  PROVE  T \subseteq Range(Path(nx, nx[h], h))
<1> DEFINE R == Range(Path(nx, nx[h], h))
<1>1. nx[h] \in Node
  OBVIOUS
<1>2. R \subseteq Node \ {h} /\ nx[h] \in R \cup {h} /\ \A w \in R : nx[w] \in R \cup {h}
  BY <1>1, PathCloses
<1> HIDE DEF R
<1>3. \A n \in (R \cap T) \cup {h} : nx2[n] \in R \cup {h}
  BY <1>2
<1>4. \A n \in (R \cap T) \cup {h} : nx2[n] \in (R \cap T) \cup {h}
  BY <1>3 DEF Linked
<1>5. Closed(nx2, h, R \cap T)
  BY <1>4 DEF Closed
<1>6. R \cap T = T
  BY <1>5 DEF Linked
<1> QED BY <1>6 DEF R
-----------------------------------------------------------------------------
(* Where no store is pending the pointers are those of the lists. *)
LEMMA RawFix ==
  ASSUME NEW U, NEW C, NEW S, Shape(U, C, S),
         (stage = "no" /\ pc \notin {"del", "add"}) \/ stage \in {"mark", "splice", "relist"}
  PROVE  FixNext = next /\ FixPrev = prev
<1>1. JobInv /\ TypeOK
  BY DEF Shape
<1>2. stage # "repair" /\ pc # "add"
  BY <1>1 DEF JobInv
<1>3. stage = "no" => in_flight_stack = NULL \/ in_flight_stack.add
  BY <1>1 DEF JobInv
<1>4. ~ Deleting
  BY <1>2, <1>3 DEF Deleting
<1>5. Target = NULL
  BY <1>2 DEF Target
<1> QED BY <1>4, <1>5 DEF FixNext, FixPrev

(* The heads and the blocks are different nodes. *)
LEMMA NodeFacts ==
  /\ "stack_used" \in Node /\ "stack_cache" \in Node /\ "stack_user" \in Node
  /\ "stack_used" \notin Block /\ "stack_cache" \notin Block /\ "stack_user" \notin Block
  /\ Block \subseteq Node /\ User \subseteq Block /\ Main \in User
  /\ NULL \notin Block /\ NULL \notin Heads
BY ForkReclaimAssumption DEF Node, Heads

(* Between two changes the walks are the lists. *)
LEMMA QuietWalks ==
  ASSUME NEW U, NEW C, NEW S, Shape(U, C, S), (stage = "no" /\ pc = "no") \/ stage = "mark"
  PROVE  /\ Walk("stack_used") = U /\ Walk("stack_cache") = C
         /\ stage = "no" => Walk("stack_user") = S
         /\ Linked(next, prev, "stack_used", U) /\ Linked(next, prev, "stack_cache", C)
         /\ stage = "no" => Linked(next, prev, "stack_user", S)
<1>1. FixNext = next /\ FixPrev = prev
  BY RawFix
<1>2. /\ Linked(next, prev, "stack_used", U) /\ Linked(next, prev, "stack_cache", C)
      /\ stage = "no" => Linked(next, prev, "stack_user", S)
  BY <1>1 DEF Shape, Rings
<1>3. next \in [Node -> Node] /\ U \subseteq Block /\ C \subseteq Block /\ S \subseteq Block
  BY NodeFacts DEF Shape, TypeOK
<1>4. "stack_used" \notin U /\ "stack_cache" \notin C /\ "stack_user" \notin S
  BY <1>3, NodeFacts
<1> QED BY <1>2, <1>3, <1>4, NodeFacts, WalkIs DEF Walk

(* A change begins.  Its element is where the change expects it. *)
LEMMA BeginStep ==
  ASSUME NEW U, NEW C, NEW S, Shape(U, C, S), pc = "no", stage = "no",
         NEW m \in Block, NEW b \in Block, NEW k, NEW l, begin(m, b, k, l),
         \/ /\ k = "get" /\ l = "del_flight" /\ b \in C /\ ~ tid[b]
            /\ UNCHANGED <<threads, mapped>>
         \/ /\ k = "map" /\ l = "add_flight" /\ b \notin mapped \cup User
            /\ mapped' = mapped \cup {b} /\ tid' = [tid EXCEPT ![b] = FALSE] /\ live' = live
         \/ /\ k = "user" /\ l = "add" /\ b \in User \ (S \cup live)
            /\ tid' = [tid EXCEPT ![b] = FALSE] /\ live' = live /\ mapped' = mapped
         \/ /\ k = "free" /\ l = "del_flight" /\ b \in U \cup S
            /\ UNCHANGED <<threads, mapped>>
         \/ /\ k = "drop" /\ l = "del_flight" /\ b \in U /\ ~ tid[b]
            /\ UNCHANGED <<threads, mapped>>
  PROVE  Shape(U, C, S)'
<1> USE NodeFacts
<1>1. /\ TypeOK /\ JobInv /\ UserClosed
      /\ U \subseteq Block \ User /\ C \subseteq Block \ User /\ S \subseteq User
      /\ Rings(FixNext, FixPrev, U, C, S)
      /\ ThreadInv(U, C) /\ MappedInv(U, C) /\ SizeInv(U, C)
  BY DEF Shape
<1>2. /\ UNCHANGED <<next, prev, in_flight_stack, actsize, done, self, stage, forks,
                     interrupted, lost, skewed>>
      /\ job' = [kind |-> k, by |-> m, elem |-> b] /\ pc' = l /\ e' = b /\ job'.kind = k
  BY DEF begin, pointers, child, history, e
<1>3. /\ in_flight_stack = NULL /\ job = Idle /\ e = NULL /\ self = NULL /\ job.kind = "none"
      /\ done = {}
  BY <1>1 DEF JobInv, Idle, e
<1>4. ~ Deleting' /\ (l # "add" => Target' = NULL)
  BY <1>2, <1>3 DEF Deleting, Target
<1>5. FixNext = next /\ FixPrev = prev /\ FixNext' = next
  BY <1>2, <1>4, RawFix DEF FixNext
<1>6. b \notin live \/ tid'[b] = tid[b]
  BY <1>1, <1>3 DEF ThreadInv, MappedInv, threads
<1>7. TypeOK'
  BY <1>1, <1>2 DEF TypeOK, threads
<1>8. JobInv'
  BY <1>1, <1>2, <1>3 DEF JobInv, Idle, threads, TypeOK
<1>9. UserClosed'
  BY <1>1, <1>2 DEF UserClosed
<1>10. Linked(next, prev, "stack_used", U) /\ Linked(next, prev, "stack_cache", C)
      /\ Linked(next, prev, "stack_user", S) /\ U \cap C = {}
  BY <1>1, <1>5 DEF Rings
<1>11. l = "add" => head' = "stack_user" /\ prev[next["stack_user"]] = "stack_user"
  BY <1>2, <1>10 DEF head, Linked
<1>12. FixPrev' = prev
  <2>1. CASE l # "add"
    BY <1>2, <1>4, <2>1 DEF FixPrev
  <2>2. CASE l = "add"
    <3>1. Target' = "stack_user" /\ "stack_user" # NULL
      BY <1>2, <1>11, <2>2 DEF Target, Heads
    <3>2. FixPrev' = [prev EXCEPT ![next["stack_user"]] = "stack_user"]
      BY <1>2, <1>4, <3>1 DEF FixPrev
    <3> QED BY <1>1, <1>11, <2>2, <3>2 DEF TypeOK
  <2> QED BY <2>1, <2>2
<1>13. Rings(FixNext, FixPrev, U, C, S)'
  BY <1>2, <1>5, <1>10, <1>12 DEF Rings
<1>14. DeletingInv(U, C, S)' /\ DelInv' /\ TrimInv(C)' /\ RepairInv(U, C)'
  BY <1>2, <1>3, <1>4 DEF DeletingInv, DelInv, TrimInv, RepairInv
<1>15. AddInv(U, C, S)'
  BY <1>1, <1>2, <1>3, <1>11 DEF AddInv
<1>16. PlaceInv(U, C, S)'
  BY <1>2 DEF PlaceInv
<1>17. ThreadInv(U, C)'
  BY <1>1, <1>2, <1>3, <1>6 DEF ThreadInv, TypeOK, threads
<1>18. MappedInv(U, C)'
  BY <1>1, <1>2, <1>3 DEF MappedInv, Limbo
<1>19. SizeInv(U, C)'
  BY <1>1, <1>2, <1>3 DEF SizeInv
<1> QED BY <1>1, <1>7, <1>8, <1>9, <1>13, <1>14, <1>15, <1>16, <1>17, <1>18, <1>19 DEF Shape

(* The kernel clears the tid of a thread that has ended. *)
LEMMA ExitStep ==
  ASSUME NEW U, NEW C, NEW S, Shape(U, C, S), NEW b \in Block, exit(b)
  PROVE  Shape(U, C, S)'
<1> USE NodeFacts
<1>1. /\ TypeOK /\ JobInv /\ UserClosed
      /\ U \subseteq Block \ User /\ C \subseteq Block \ User /\ S \subseteq User
      /\ Rings(FixNext, FixPrev, U, C, S)
      /\ DeletingInv(U, C, S) /\ DelInv /\ TrimInv(C) /\ AddInv(U, C, S) /\ RepairInv(U, C)
      /\ PlaceInv(U, C, S) /\ ThreadInv(U, C) /\ MappedInv(U, C) /\ SizeInv(U, C)
  BY DEF Shape
<1>2. /\ UNCHANGED <<next, prev, in_flight_stack, actsize, mapped, job, pc, done, self, stage, forks,
                     interrupted, lost, skewed>>
      /\ live' = live \ {b} /\ tid' = [tid EXCEPT ![b] = FALSE] /\ e' = e /\ stage = "no"
  BY DEF exit, pointers, change, child, history, e
<1>3. head' = head /\ broken' = broken /\ elem' = elem /\ Deleting' = Deleting /\ Limbo' = Limbo
  BY <1>2 DEF head, broken, elem, Deleting, Limbo
<1>4. Target' = Target
  BY <1>2, <1>3 DEF Target
<1>5. FixNext' = FixNext /\ FixPrev' = FixPrev
  BY <1>2, <1>3, <1>4 DEF FixNext, FixPrev
<1>6. TypeOK'
  BY <1>1, <1>2 DEF TypeOK
<1>7. JobInv'
  BY <1>1, <1>2 DEF JobInv, Idle, TypeOK
<1>8. UserClosed' /\ Rings(FixNext, FixPrev, U, C, S)'
  BY <1>1, <1>2, <1>5 DEF UserClosed, Rings
<1>9. DeletingInv(U, C, S)' /\ DelInv' /\ TrimInv(C)' /\ AddInv(U, C, S)' /\ RepairInv(U, C)'
  BY <1>1, <1>2, <1>3 DEF DeletingInv, DelInv, TrimInv, AddInv, RepairInv, Near
<1>10. PlaceInv(U, C, S)' /\ MappedInv(U, C)' /\ SizeInv(U, C)'
  BY <1>1, <1>2, <1>3 DEF PlaceInv, MappedInv, SizeInv
<1>11. ThreadInv(U, C)'
  BY <1>1, <1>2 DEF ThreadInv, TypeOK
<1> QED BY <1>1, <1>6, <1>7, <1>8, <1>9, <1>10, <1>11 DEF Shape

(* What a change begins with, by its kind. *)
LEMMA ChangeStep ==
  ASSUME NEW U, NEW C, NEW S, Shape(U, C, S), NEW m \in Block, NEW b \in Block, Change(m, b)
  PROVE  Shape(U, C, S)'
<1>1. pc = "no" /\ stage = "no"
  BY DEF Change, get_cached_stack, map_stack, user_stack, deallocate_stack, mprot_error, Active
<1>2. Walk("stack_used") = U /\ Walk("stack_cache") = C /\ Walk("stack_user") = S
  BY <1>1, QuietWalks
<1>3. CASE get_cached_stack(m, b)
  <2>1. begin(m, b, "get", "del_flight") /\ b \in C /\ ~ tid[b] /\ UNCHANGED <<threads, mapped>>
    BY <1>2, <1>3 DEF get_cached_stack
  <2> QED BY <1>1, <2>1, BeginStep
<1>4. CASE map_stack(m, b)
  <2>1. /\ begin(m, b, "map", "add_flight") /\ b \notin mapped \cup User
        /\ mapped' = mapped \cup {b} /\ tid' = [tid EXCEPT ![b] = FALSE] /\ live' = live
    BY <1>4 DEF map_stack
  <2> QED BY <1>1, <2>1, BeginStep
<1>5. CASE user_stack(m, b)
  <2>1. /\ begin(m, b, "user", "add") /\ b \in User \ (S \cup live)
        /\ tid' = [tid EXCEPT ![b] = FALSE] /\ live' = live /\ mapped' = mapped
    BY <1>2, <1>5 DEF user_stack
  <2> QED BY <1>1, <2>1, BeginStep
<1>6. CASE deallocate_stack(m, b)
  <2>1. begin(m, b, "free", "del_flight") /\ b \in U \cup S /\ UNCHANGED <<threads, mapped>>
    BY <1>2, <1>6 DEF deallocate_stack
  <2> QED BY <1>1, <2>1, BeginStep
<1>7. CASE mprot_error(m, b)
  <2>1. begin(m, b, "drop", "del_flight") /\ b \in U /\ ~ tid[b] /\ UNCHANGED <<threads, mapped>>
    BY <1>2, <1>7 DEF mprot_error
  <2> QED BY <1>1, <2>1, BeginStep
<1> QED BY <1>3, <1>4, <1>5, <1>6, <1>7 DEF Change

(* A list that the element x may be on, once the deletion of x is completed. *)
LEMMA FixedDel ==
  ASSUME NEW nx \in [Node -> Node], NEW pv \in [Node -> Node], NEW h \in Node, NEW T \in SUBSET Node,
         h \notin T, Linked(nx, pv, h, T), NEW x \in Node, x # h,
         x \in T \/ (nx[x] \notin T \cup {h} /\ pv[x] \notin T \cup {h})
  PROVE  Linked([nx EXCEPT ![pv[x]] = nx[x]], [pv EXCEPT ![nx[x]] = pv[x]], h, T \ {x})
<1> DEFINE nx2 == [nx EXCEPT ![pv[x]] = nx[x]]
           pv2 == [pv EXCEPT ![nx[x]] = pv[x]]
<1>1. \A n \in T \cup {h} : /\ nx2[n] = IF n = pv[x] THEN nx[x] ELSE nx[n]
                            /\ pv2[n] = IF n = nx[x] THEN pv[x] ELSE pv[n]
  OBVIOUS
<1> HIDE DEF nx2, pv2
<1>2. CASE x \in T
  <2>1. \A n \in (T \ {x}) \cup {h} : /\ nx2[n] = IF n = pv[x] THEN nx[x] ELSE nx[n]
                                     /\ pv2[n] = IF n = nx[x] THEN pv[x] ELSE pv[n]
    BY <1>1
  <2>2. Linked(nx2, pv2, h, T \ {x})
    BY <1>2, <2>1, LinkedDel
  <2> QED BY <2>2 DEF nx2, pv2
<1>3. CASE x \notin T
  <2>1. \A n \in T \cup {h} : nx2[n] = nx[n] /\ pv2[n] = pv[n]
    BY <1>1, <1>3
  <2>2. Linked(nx2, pv2, h, T) /\ T \ {x} = T
    BY <1>3, <2>1, LinkedFrame
  <2> QED BY <2>2 DEF nx2, pv2
<1> QED BY <1>2, <1>3

(* A record in flight is not NULL. *)
LEMMA FlightFacts ==
  ASSUME NEW x \in Block, NEW v \in BOOLEAN
  PROVE  /\ [elem |-> x, add |-> v] # NULL
         /\ [elem |-> x, add |-> v].elem = x /\ [elem |-> x, add |-> v].add = v
BY ForkReclaimAssumption

(* stack_list_del: from in_flight_stack on, the list counts as without the   *)
(* element.                                                                  *)
LEMMA SetDelStep ==
  ASSUME NEW U, NEW C, NEW S, Shape(U, C, S), set_in_flight, pc = "del_flight",
         NEW U2, NEW C2, NEW S2, U2 = U \ {e}, C2 = C \ {e}, S2 = S \ {e}
  PROVE  Shape(U2, C2, S2)'
<1> USE NodeFacts
<1>1. /\ TypeOK /\ JobInv /\ UserClosed
      /\ U \subseteq Block \ User /\ C \subseteq Block \ User /\ S \subseteq User
      /\ Rings(FixNext, FixPrev, U, C, S)
      /\ PlaceInv(U, C, S) /\ ThreadInv(U, C) /\ MappedInv(U, C) /\ SizeInv(U, C)
  BY DEF Shape
<1>2. /\ UNCHANGED <<next, prev, actsize, tid, live, mapped, job, done, self, stage, forks,
                     interrupted, lost, skewed>>
      /\ in_flight_stack' = [elem |-> e, add |-> FALSE] /\ pc' = "del" /\ e' = e
  BY DEF set_in_flight, pointers, threads, child, history, e
<1>3. /\ stage = "no" /\ e \in Block /\ done = {} /\ in_flight_stack = NULL
      /\ job.kind \in {"get", "free", "drop", "trim"}
  BY <1>1 DEF JobInv
<1>4. in_flight_stack' # NULL /\ in_flight_stack'.add = FALSE /\ elem' = e
  BY <1>2, <1>3, FlightFacts DEF elem
<1>5. Deleting'
  BY <1>2, <1>3, <1>4 DEF Deleting
<1>6. /\ FixNext' = [next EXCEPT ![prev[e]] = next[e]]
      /\ FixPrev' = [prev EXCEPT ![next[e]] = prev[e]]
  BY <1>2, <1>4, <1>5 DEF FixNext, FixPrev
<1>7. FixNext = next /\ FixPrev = prev
  BY <1>3, RawFix
<1>8. /\ Linked(next, prev, "stack_used", U) /\ Linked(next, prev, "stack_cache", C)
      /\ Linked(next, prev, "stack_user", S) /\ U \cap C = {}
  BY <1>1, <1>3, <1>7 DEF Rings
<1>9. /\ job.kind \in {"get", "trim"} => e \in C
      /\ job.kind = "drop" => e \in U
      /\ job.kind = "free" => e \in U \cup S
  BY <1>1 DEF PlaceInv
<1>10. /\ next \in [Node -> Node] /\ prev \in [Node -> Node] /\ e \in Node
       /\ U \in SUBSET Node /\ C \in SUBSET Node /\ S \in SUBSET Node
       /\ e \notin Heads /\ "stack_used" \notin U \cup C \cup S
       /\ "stack_cache" \notin U \cup C \cup S /\ "stack_user" \notin U \cup C \cup S
  BY <1>1, <1>3, ForkReclaimAssumption DEF TypeOK
<1>11. \/ e \in U /\ e \notin C /\ e \notin S
       \/ e \in C /\ e \notin U /\ e \notin S
       \/ e \in S /\ e \notin U /\ e \notin C
  BY <1>1, <1>3, <1>8, <1>9
<1>12. /\ e \in U => next[e] \in U2 \cup {"stack_used"} /\ prev[e] \in U2 \cup {"stack_used"}
                     /\ next[prev[e]] = e
       /\ e \in C => next[e] \in C2 \cup {"stack_cache"} /\ prev[e] \in C2 \cup {"stack_cache"}
                     /\ next[prev[e]] = e
       /\ e \in S => next[e] \in S2 \cup {"stack_user"} /\ prev[e] \in S2 \cup {"stack_user"}
                     /\ next[prev[e]] = e
  <2>1. e \in U => next[e] # e /\ prev[e] # e
    BY <1>8, <1>10, LinkedOther
  <2>2. e \in C => next[e] # e /\ prev[e] # e
    BY <1>8, <1>10, LinkedOther
  <2>3. e \in S => next[e] # e /\ prev[e] # e
    BY <1>8, <1>10, LinkedOther
  <2> QED BY <1>8, <2>1, <2>2, <2>3 DEF Linked
<1>13. Linked(FixNext', FixPrev', "stack_used", U2)
  <2>1. e \in U \/ (next[e] \notin U \cup {"stack_used"} /\ prev[e] \notin U \cup {"stack_used"})
    BY <1>1, <1>8, <1>10, <1>11, <1>12
  <2>2. e # "stack_used"
    BY <1>3
  <2> QED BY <1>6, <1>8, <1>10, <2>1, <2>2, FixedDel
<1>14. Linked(FixNext', FixPrev', "stack_cache", C2)
  <2>1. e \in C \/ (next[e] \notin C \cup {"stack_cache"} /\ prev[e] \notin C \cup {"stack_cache"})
    BY <1>1, <1>8, <1>10, <1>11, <1>12
  <2>2. e # "stack_cache"
    BY <1>3
  <2> QED BY <1>6, <1>8, <1>10, <2>1, <2>2, FixedDel
<1>15. Linked(FixNext', FixPrev', "stack_user", S2)
  <2>1. e \in S \/ (next[e] \notin S \cup {"stack_user"} /\ prev[e] \notin S \cup {"stack_user"})
    BY <1>1, <1>8, <1>10, <1>11, <1>12
  <2>2. e # "stack_user"
    BY <1>3
  <2> QED BY <1>6, <1>8, <1>10, <2>1, <2>2, FixedDel
<1>16. Rings(FixNext, FixPrev, U2, C2, S2)'
  BY <1>2, <1>3, <1>8, <1>13, <1>14, <1>15 DEF Rings
<1>17. TypeOK'
  BY <1>1, <1>2, <1>3 DEF TypeOK
<1>18. JobInv'
  BY <1>1, <1>2, <1>3 DEF JobInv, Idle
<1>19. UserClosed'
  BY <1>1, <1>2 DEF UserClosed
<1>20. DeletingInv(U2, C2, S2)'
  <2>1. /\ e \in U => Near(U2, "stack_used")'
        /\ e \in C => Near(C2, "stack_cache")'
        /\ e \in S => Near(User \ {elem}, "stack_user")'
    BY <1>1, <1>2, <1>4, <1>12 DEF Near
  <2>2. elem' \notin U2 \cup C2 \cup S2 /\ next'[prev'[elem']] = elem'
    BY <1>2, <1>4, <1>11, <1>12
  <2>3. \/ elem' \notin User /\ (Near(U2, "stack_used")' \/ Near(C2, "stack_cache")')
        \/ elem' \in User /\ Near(User \ {elem}, "stack_user")'
    BY <1>1, <1>4, <1>11, <2>1
  <2> QED BY <2>2, <2>3 DEF DeletingInv
<1>21. DelInv' /\ TrimInv(C2)' /\ RepairInv(U2, C2)' /\ AddInv(U2, C2, S2)' /\ PlaceInv(U2, C2, S2)'
  BY <1>2, <1>3, <1>9, <1>12 DEF DelInv, TrimInv, RepairInv, AddInv, PlaceInv
<1>22. ThreadInv(U2, C2)'
  BY <1>1, <1>2, <1>3 DEF ThreadInv
<1>23. MappedInv(U2, C2)'
  BY <1>1, <1>2, <1>3, <1>11 DEF MappedInv, Limbo
<1>24. SizeInv(U2, C2)'
  <2>1. IsFiniteSet(C)
    BY <1>1, ForkReclaimAssumption, FS_Subset
  <2>2. Cardinality(C) \in Nat /\ Cardinality(C2) = IF e \in C THEN Cardinality(C) - 1 ELSE Cardinality(C)
    BY <2>1, FS_CardinalityType, FS_RemoveElement
  <2>3. e \in C <=> job.kind \in {"get", "trim"}
    BY <1>3, <1>9, <1>11
  <2> QED BY <1>1, <1>2, <1>3, <2>2, <2>3 DEF SizeInv
<1> QED BY <1>1, <1>16, <1>17, <1>18, <1>19, <1>20, <1>21, <1>22, <1>23, <1>24 DEF Shape

(* stack_list_add: the element in flight is on no list. *)
LEMMA SetAddStep ==
  ASSUME NEW U, NEW C, NEW S, Shape(U, C, S), set_in_flight, pc = "add_flight"
  PROVE  Shape(U, C, S)'
<1> USE NodeFacts
<1>1. /\ TypeOK /\ JobInv /\ UserClosed
      /\ U \subseteq Block \ User /\ C \subseteq Block \ User /\ S \subseteq User
      /\ Rings(FixNext, FixPrev, U, C, S)
      /\ ThreadInv(U, C) /\ MappedInv(U, C) /\ SizeInv(U, C)
  BY DEF Shape
<1>2. /\ UNCHANGED <<next, prev, actsize, tid, live, mapped, job, done, self, stage, forks,
                     interrupted, lost, skewed>>
      /\ in_flight_stack' = [elem |-> e, add |-> TRUE] /\ pc' = "add" /\ e' = e /\ head' = head
  BY DEF set_in_flight, pointers, threads, child, history, e, head
<1>3. /\ stage = "no" /\ e \in Block /\ e \notin User /\ done = {} /\ in_flight_stack = NULL
      /\ job.kind \in {"get", "map", "free"}
  BY <1>1 DEF JobInv
<1>4. in_flight_stack' # NULL /\ in_flight_stack'.add = TRUE /\ head \in {"stack_used", "stack_cache"}
  BY <1>2, <1>3, FlightFacts DEF head
<1>5. ~ Deleting' /\ Target' = head /\ head # NULL
  BY <1>2, <1>4 DEF Deleting, Target, Heads
<1>6. FixNext = next /\ FixPrev = prev
  BY <1>3, RawFix
<1>7. /\ Linked(next, prev, "stack_used", U) /\ Linked(next, prev, "stack_cache", C)
      /\ Linked(next, prev, "stack_user", S) /\ U \cap C = {}
  BY <1>1, <1>3, <1>6 DEF Rings
<1>8. prev[next[head]] = head
  BY <1>4, <1>7 DEF Linked
<1>9. FixNext' = next /\ FixPrev' = prev
  <2>1. FixPrev' = [prev EXCEPT ![next[head]] = head]
    BY <1>2, <1>5 DEF FixPrev
  <2> QED BY <1>1, <1>2, <1>5, <1>8, <2>1 DEF FixNext, TypeOK
<1>10. Rings(FixNext, FixPrev, U, C, S)'
  BY <1>2, <1>3, <1>7, <1>9 DEF Rings
<1>11. TypeOK'
  BY <1>1, <1>2, <1>3 DEF TypeOK
<1>12. JobInv'
  BY <1>1, <1>2, <1>3 DEF JobInv, Idle
<1>13. UserClosed'
  BY <1>1, <1>2 DEF UserClosed
<1>14. e \notin U \cup C
  BY <1>1, <1>3 DEF MappedInv, Limbo
<1>15. AddInv(U, C, S)'
  BY <1>1, <1>2, <1>3, <1>8, <1>14 DEF AddInv
<1>16. DeletingInv(U, C, S)' /\ DelInv' /\ TrimInv(C)' /\ RepairInv(U, C)' /\ PlaceInv(U, C, S)'
  BY <1>2, <1>3, <1>5 DEF DeletingInv, DelInv, TrimInv, RepairInv, PlaceInv
<1>17. ThreadInv(U, C)' /\ MappedInv(U, C)'
  BY <1>1, <1>2, <1>3 DEF ThreadInv, MappedInv, Limbo
<1>18. SizeInv(U, C)'
  BY <1>1, <1>2, <1>3 DEF SizeInv
<1> QED BY <1>1, <1>10, <1>11, <1>12, <1>13, <1>15, <1>16, <1>17, <1>18 DEF Shape

(* Where the element of a deletion under way is. *)
LEMMA DelFacts ==
  ASSUME NEW U, NEW C, NEW S, Shape(U, C, S), pc = "del"
  PROVE  /\ stage = "no" /\ e \in Block /\ Deleting /\ elem = e /\ in_flight_stack = [elem |-> e, add |-> FALSE]
         /\ job.kind \in {"get", "free", "drop", "trim"}
         /\ next[e] # e /\ prev[e] # e
         /\ e \notin U \cup C \cup S
         /\ \/ e \notin User /\ {next[e], prev[e]} \subseteq U \cup {"stack_used"}
            \/ e \notin User /\ {next[e], prev[e]} \subseteq C \cup {"stack_cache"}
            \/ e \in User /\ {next[e], prev[e]} \subseteq (User \ {e}) \cup {"stack_user"}
         /\ next[prev[e]] \in {e, next[e]}
         /\ FixNext = [next EXCEPT ![prev[e]] = next[e]]
         /\ FixPrev = [prev EXCEPT ![next[e]] = prev[e]]
<1> USE NodeFacts
<1>1. TypeOK /\ JobInv /\ DeletingInv(U, C, S) /\ U \subseteq Block /\ C \subseteq Block
  BY DEF Shape
<1>2. /\ stage = "no" /\ e \in Block /\ job.kind \in {"get", "free", "drop", "trim"}
      /\ in_flight_stack = [elem |-> e, add |-> FALSE]
  BY <1>1 DEF JobInv
<1>3. in_flight_stack # NULL /\ in_flight_stack.add = FALSE /\ elem = e
  BY <1>2, FlightFacts DEF elem
<1>4. Deleting
  BY <1>2, <1>3 DEF Deleting
<1>5. /\ e \notin U \cup C \cup S
      /\ \/ e \notin User /\ (Near(U, "stack_used") \/ Near(C, "stack_cache"))
         \/ e \in User /\ Near(User \ {e}, "stack_user")
      /\ next[prev[e]] \in {e, next[e]}
  BY <1>1, <1>3, <1>4 DEF DeletingInv
<1>6. \/ e \notin User /\ {next[e], prev[e]} \subseteq U \cup {"stack_used"}
      \/ e \notin User /\ {next[e], prev[e]} \subseteq C \cup {"stack_cache"}
      \/ e \in User /\ {next[e], prev[e]} \subseteq (User \ {e}) \cup {"stack_user"}
  BY <1>3, <1>5 DEF Near
<1>7. next[e] # e /\ prev[e] # e
  BY <1>2, <1>5, <1>6
<1> QED BY <1>2, <1>3, <1>4, <1>5, <1>6, <1>7 DEF FixNext, FixPrev

(* The stores of list_del leave what the lists will be as it is. *)
LEMMA DelStoreStep ==
  ASSUME NEW U, NEW C, NEW S, Shape(U, C, S), NEW i \in 1 .. 3, del_store(i)
  PROVE  Shape(U, C, S)'
<1> USE NodeFacts
<1>1. /\ TypeOK /\ JobInv /\ UserClosed
      /\ U \subseteq Block \ User /\ C \subseteq Block \ User /\ S \subseteq User
      /\ Rings(FixNext, FixPrev, U, C, S)
      /\ DelInv /\ TrimInv(C) /\ PlaceInv(U, C, S)
      /\ ThreadInv(U, C) /\ MappedInv(U, C) /\ SizeInv(U, C)
  BY DEF Shape
<1>2. /\ UNCHANGED <<in_flight_stack, actsize, tid, live, mapped, job, pc, self, stage, forks,
                     interrupted, lost, skewed>>
      /\ pc = "del" /\ e' = e /\ elem' = elem /\ i \in {1, 2} /\ done' = done \cup {i}
      /\ i = 1 => prev' = [prev EXCEPT ![next[e]] = prev[e]] /\ next' = next
      /\ i = 2 => next' = [next EXCEPT ![prev[e]] = next[e]] /\ prev' = prev
  BY DEF del_store, threads, child, history, e, elem
<1>3. /\ stage = "no" /\ e \in Block /\ Deleting /\ elem = e
      /\ next[e] # e /\ prev[e] # e /\ e \notin U \cup C \cup S
      /\ \/ e \notin User /\ {next[e], prev[e]} \subseteq U \cup {"stack_used"}
         \/ e \notin User /\ {next[e], prev[e]} \subseteq C \cup {"stack_cache"}
         \/ e \in User /\ {next[e], prev[e]} \subseteq (User \ {e}) \cup {"stack_user"}
      /\ next[prev[e]] \in {e, next[e]}
      /\ FixNext = [next EXCEPT ![prev[e]] = next[e]]
      /\ FixPrev = [prev EXCEPT ![next[e]] = prev[e]]
  BY <1>2, DelFacts
<1>4. Deleting'
  BY <1>2, <1>3 DEF Deleting
<1>5. next \in [Node -> Node] /\ prev \in [Node -> Node] /\ e \in Node
  BY <1>1, <1>3 DEF TypeOK
<1>6. next'[e] = next[e] /\ prev'[e] = prev[e] /\ next' \in [Node -> Node] /\ prev' \in [Node -> Node]
  BY <1>2, <1>3, <1>5
<1>7. /\ FixNext' = [next' EXCEPT ![prev[e]] = next[e]]
      /\ FixPrev' = [prev' EXCEPT ![next[e]] = prev[e]]
  BY <1>2, <1>3, <1>4, <1>6 DEF FixNext, FixPrev
<1>8. FixNext' = FixNext /\ FixPrev' = FixPrev
  <2>1. CASE i = 1
    BY <1>2, <1>3, <1>5, <1>7, <2>1
  <2>2. CASE i = 2
    BY <1>2, <1>3, <1>5, <1>7, <2>2
  <2> QED BY <1>2, <2>1, <2>2
<1>9. Rings(FixNext, FixPrev, U, C, S)'
  BY <1>1, <1>2, <1>8 DEF Rings
<1>10. TypeOK'
  BY <1>1, <1>2, <1>6 DEF TypeOK
<1>11. JobInv'
  BY <1>1, <1>2 DEF JobInv, Idle
<1>12. UserClosed'
  <2>1. CASE i = 1
    BY <1>1, <1>2, <1>3, <1>5, <2>1 DEF UserClosed
  <2>2. CASE i = 2
    BY <1>1, <1>2, <1>3, <1>5, <2>2 DEF UserClosed
  <2> QED BY <1>2, <2>1, <2>2
<1>13. next'[prev[e]] \in {e, next[e]}
  BY <1>2, <1>3, <1>5
<1>14. DeletingInv(U, C, S)'
  <2>1. \/ Near(U, "stack_used")' /\ e \notin User
        \/ Near(C, "stack_cache")' /\ e \notin User
        \/ Near(User \ {elem}, "stack_user")' /\ e \in User
    BY <1>2, <1>3, <1>6 DEF Near
  <2> QED BY <1>2, <1>3, <1>6, <1>13, <2>1 DEF DeletingInv
<1>15. DelInv'
  BY <1>1, <1>2, <1>3, <1>5, <1>6 DEF DelInv
<1>16. TrimInv(C)' /\ AddInv(U, C, S)' /\ RepairInv(U, C)' /\ PlaceInv(U, C, S)'
  BY <1>1, <1>2, <1>3, <1>6 DEF TrimInv, AddInv, RepairInv, PlaceInv
<1>17. ThreadInv(U, C)' /\ MappedInv(U, C)' /\ SizeInv(U, C)'
  BY <1>1, <1>2, <1>3 DEF ThreadInv, MappedInv, Limbo, SizeInv
<1> QED BY <1>1, <1>9, <1>10, <1>11, <1>12, <1>14, <1>15, <1>16, <1>17 DEF Shape

(* The end of stack_list_del: the lists are without the element. *)
LEMMA DelDoneStep ==
  ASSUME NEW U, NEW C, NEW S, Shape(U, C, S), del_done
  PROVE  Shape(U, C, S)'
<1> USE NodeFacts
<1>1. /\ TypeOK /\ JobInv /\ UserClosed
      /\ U \subseteq Block \ User /\ C \subseteq Block \ User /\ S \subseteq User
      /\ Rings(FixNext, FixPrev, U, C, S)
      /\ DelInv /\ TrimInv(C) /\ PlaceInv(U, C, S)
      /\ ThreadInv(U, C) /\ MappedInv(U, C) /\ SizeInv(U, C)
  BY DEF Shape
<1>2. /\ UNCHANGED <<next, prev, actsize, tid, live, mapped, job, self, stage, forks,
                     interrupted, lost, skewed>>
      /\ pc = "del" /\ done = {1, 2} /\ e' = e /\ in_flight_stack' = NULL /\ done' = {}
  BY DEF del_done, pointers, threads, child, history, e
<1>3. /\ stage = "no" /\ e \in Block /\ elem = e /\ job.kind \in {"get", "free", "drop", "trim"}
      /\ FixNext = [next EXCEPT ![prev[e]] = next[e]]
      /\ FixPrev = [prev EXCEPT ![next[e]] = prev[e]]
  BY <1>2, DelFacts
<1>4. /\ job.kind = "get" => pc' = "add_flight"
      /\ job.kind = "free" => pc' = IF e \in User THEN "end" ELSE "add_flight"
      /\ job.kind = "trim" => pc' = "account"
      /\ job.kind = "drop" => pc' = "unmap"
  BY DEF del_done
<1>5. FixNext = next /\ FixPrev = prev
  BY <1>1, <1>2, <1>3 DEF DelInv, TypeOK
<1>6. pc' \in {"add_flight", "end", "account", "unmap"}
  BY <1>3, <1>4
<1>7. FixNext' = next /\ FixPrev' = prev /\ ~ Deleting'
  BY <1>2, <1>3, <1>6 DEF FixNext, FixPrev, Deleting, Target
<1>8. Rings(FixNext, FixPrev, U, C, S)'
  BY <1>1, <1>2, <1>5, <1>7 DEF Rings
<1>9. TypeOK'
  BY <1>1, <1>2, <1>6 DEF TypeOK
<1>10. JobInv'
  BY <1>1, <1>2, <1>3, <1>4 DEF JobInv, Idle
<1>11. UserClosed'
  BY <1>1, <1>2 DEF UserClosed
<1>12. DeletingInv(U, C, S)' /\ DelInv' /\ TrimInv(C)' /\ AddInv(U, C, S)' /\ RepairInv(U, C)'
  BY <1>1, <1>2, <1>3, <1>6, <1>7 DEF DeletingInv, DelInv, TrimInv, AddInv, RepairInv
<1>13. PlaceInv(U, C, S)'
  BY <1>2, <1>3, <1>4 DEF PlaceInv
<1>14. ThreadInv(U, C)'
  BY <1>1, <1>2, <1>3 DEF ThreadInv
<1>15. MappedInv(U, C)'
  BY <1>1, <1>2, <1>3, <1>4 DEF MappedInv, Limbo, JobInv, TypeOK
<1>16. SizeInv(U, C)'
  BY <1>1, <1>2, <1>3, <1>4 DEF SizeInv
<1> QED BY <1>1, <1>8, <1>9, <1>10, <1>11, <1>12, <1>13, <1>14, <1>15, <1>16 DEF Shape

(* What holds while an element is being added. *)
LEMMA AddFacts ==
  ASSUME NEW U, NEW C, NEW S, Shape(U, C, S), pc = "add"
  PROVE  /\ stage = "no" /\ e \in Block /\ job.kind \in {"get", "map", "free", "user"} /\ ~ Deleting
         /\ e \notin U \cup C \cup S /\ e \notin Heads
         /\ \/ head = "stack_used" /\ e \notin User /\ next[head] \in U \cup {head} /\ job.kind \in {"get", "map"}
            \/ head = "stack_cache" /\ e \notin User /\ next[head] \in C \cup {head} /\ job.kind = "free"
            \/ head = "stack_user" /\ e \in User /\ next[head] \in S \cup {head} /\ job.kind = "user"
         /\ FixNext = next /\ FixPrev = [prev EXCEPT ![next[head]] = head]
         /\ U \cap C = {}
         /\ Linked(next, FixPrev, "stack_used", U) /\ Linked(next, FixPrev, "stack_cache", C)
         /\ Linked(next, FixPrev, "stack_user", S)
<1> USE NodeFacts
<1>1. TypeOK /\ JobInv /\ AddInv(U, C, S) /\ Rings(FixNext, FixPrev, U, C, S)
  BY DEF Shape
<1>2. /\ stage = "no" /\ e \in Block /\ job.kind \in {"get", "map", "free", "user"}
      /\ e \in User <=> job.kind = "user"
      /\ in_flight_stack = IF e \notin User THEN [elem |-> e, add |-> TRUE] ELSE NULL
  BY <1>1 DEF JobInv
<1>3. ~ Deleting
  BY <1>2, FlightFacts DEF Deleting
<1>4. /\ job.kind \in {"get", "map"} => head = "stack_used"
      /\ job.kind = "free" => head = "stack_cache"
      /\ job.kind = "user" => head = "stack_user"
  BY DEF head
<1>5. Target = head /\ head # NULL
  BY <1>2, <1>4 DEF Target, Heads
<1>6. FixNext = next /\ FixPrev = [prev EXCEPT ![next[head]] = head]
  BY <1>3, <1>5 DEF FixNext, FixPrev
<1>7. /\ Linked(next, FixPrev, "stack_used", U) /\ Linked(next, FixPrev, "stack_cache", C)
      /\ Linked(next, FixPrev, "stack_user", S) /\ U \cap C = {}
  BY <1>1, <1>2, <1>6 DEF Rings
<1>8. e \notin U \cup C \cup S /\ e \notin Heads
  BY <1>1, <1>2, ForkReclaimAssumption DEF AddInv
<1>9. /\ next["stack_used"] \in U \cup {"stack_used"} /\ next["stack_cache"] \in C \cup {"stack_cache"}
      /\ next["stack_user"] \in S \cup {"stack_user"}
  BY <1>7 DEF Linked
<1> QED BY <1>2, <1>3, <1>4, <1>6, <1>7, <1>8, <1>9

(* The stores of list_add before its barrier do not change the lists. *)
LEMMA AddStoreStep ==
  ASSUME NEW U, NEW C, NEW S, Shape(U, C, S), NEW i \in 1 .. 3, add_store(i)
  PROVE  Shape(U, C, S)'
<1> USE NodeFacts
<1>1. /\ TypeOK /\ JobInv /\ UserClosed
      /\ U \subseteq Block \ User /\ C \subseteq Block \ User /\ S \subseteq User
      /\ AddInv(U, C, S) /\ PlaceInv(U, C, S)
      /\ ThreadInv(U, C) /\ MappedInv(U, C) /\ SizeInv(U, C)
  BY DEF Shape
<1>2. /\ UNCHANGED <<in_flight_stack, actsize, tid, live, mapped, job, pc, self, stage, forks,
                     interrupted, lost, skewed>>
      /\ pc = "add" /\ e' = e /\ head' = head /\ done' = done \cup {i}
      /\ \/ i = 1 /\ next' = [next EXCEPT ![e] = next[head]] /\ prev' = prev
         \/ i = 2 /\ prev' = [prev EXCEPT ![e] = head] /\ next' = next
         \/ i = 3 /\ prev' = [prev EXCEPT ![next[head]] = e] /\ next' = next
  BY DEF add_store, threads, child, history, e, head
<1>3. /\ stage = "no" /\ e \in Block /\ job.kind \in {"get", "map", "free", "user"} /\ ~ Deleting
      /\ e \notin U \cup C \cup S /\ e \notin Heads
      /\ \/ head = "stack_used" /\ e \notin User /\ next[head] \in U \cup {head} /\ job.kind \in {"get", "map"}
         \/ head = "stack_cache" /\ e \notin User /\ next[head] \in C \cup {head} /\ job.kind = "free"
         \/ head = "stack_user" /\ e \in User /\ next[head] \in S \cup {head} /\ job.kind = "user"
      /\ FixPrev = [prev EXCEPT ![next[head]] = head]
      /\ U \cap C = {}
      /\ Linked(next, FixPrev, "stack_used", U) /\ Linked(next, FixPrev, "stack_cache", C)
      /\ Linked(next, FixPrev, "stack_user", S)
  BY <1>2, AddFacts
<1>4. ~ Deleting' /\ Target' = head /\ head # NULL
  BY <1>2, <1>3 DEF Deleting, Target, Heads
<1>5. next \in [Node -> Node] /\ prev \in [Node -> Node] /\ e \in Node /\ head \in Node /\ e # head
  BY <1>1, <1>3 DEF TypeOK, Heads
<1>6. /\ next' \in [Node -> Node] /\ prev' \in [Node -> Node] /\ next'[head] = next[head]
      /\ next[head] # e
  BY <1>2, <1>3, <1>5 DEF Heads
<1>7. FixNext' = next' /\ FixPrev' = [prev' EXCEPT ![next[head]] = head]
  BY <1>2, <1>4, <1>6 DEF FixNext, FixPrev
<1>8. \A n \in Node : n # e => FixNext'[n] = next[n] /\ FixPrev'[n] = FixPrev[n]
  BY <1>2, <1>3, <1>5, <1>6, <1>7
<1>9. Linked(FixNext', FixPrev', "stack_used", U)
  <2>1. \A n \in U \cup {"stack_used"} : FixNext'[n] = next[n] /\ FixPrev'[n] = FixPrev[n]
    BY <1>1, <1>3, <1>8 DEF Heads
  <2>2. Linked(next, FixPrev, "stack_used", U)
    BY <1>3
  <2> QED BY <2>1, <2>2, LinkedFrame
<1>10. Linked(FixNext', FixPrev', "stack_cache", C)
  <2>1. \A n \in C \cup {"stack_cache"} : FixNext'[n] = next[n] /\ FixPrev'[n] = FixPrev[n]
    BY <1>1, <1>3, <1>8 DEF Heads
  <2>2. Linked(next, FixPrev, "stack_cache", C)
    BY <1>3
  <2> QED BY <2>1, <2>2, LinkedFrame
<1>11. Linked(FixNext', FixPrev', "stack_user", S)
  <2>1. \A n \in S \cup {"stack_user"} : FixNext'[n] = next[n] /\ FixPrev'[n] = FixPrev[n]
    BY <1>1, <1>3, <1>8 DEF Heads
  <2>2. Linked(next, FixPrev, "stack_user", S)
    BY <1>3
  <2> QED BY <2>1, <2>2, LinkedFrame
<1>12. Rings(FixNext, FixPrev, U, C, S)'
  BY <1>2, <1>3, <1>9, <1>10, <1>11 DEF Rings
<1>13. TypeOK'
  BY <1>1, <1>2, <1>6 DEF TypeOK
<1>14. JobInv'
  BY <1>1, <1>2 DEF JobInv, Idle
<1>15. UserClosed'
  BY <1>1, <1>2, <1>3, <1>5 DEF UserClosed
<1>16. AddInv(U, C, S)'
  <2>1. /\ 1 \in done => next[e] = next[head]
        /\ 2 \in done => prev[e] = head
        /\ prev[next[head]] = IF 3 \in done THEN e ELSE head
    BY <1>1, <1>2 DEF AddInv
  <2>2. CASE i = 1
    BY <1>2, <1>3, <1>5, <1>6, <2>1, <2>2 DEF AddInv
  <2>3. CASE i = 2
    BY <1>2, <1>3, <1>5, <1>6, <2>1, <2>3 DEF AddInv
  <2>4. CASE i = 3
    BY <1>2, <1>3, <1>5, <1>6, <2>1, <2>4 DEF AddInv
  <2> QED BY <2>2, <2>3, <2>4
<1>17. DeletingInv(U, C, S)' /\ DelInv' /\ TrimInv(C)' /\ RepairInv(U, C)' /\ PlaceInv(U, C, S)'
  BY <1>1, <1>2, <1>3, <1>4 DEF DeletingInv, DelInv, TrimInv, RepairInv, PlaceInv
<1>18. ThreadInv(U, C)' /\ MappedInv(U, C)' /\ SizeInv(U, C)'
  BY <1>1, <1>2, <1>3 DEF ThreadInv, MappedInv, Limbo, SizeInv
<1> QED BY <1>1, <1>12, <1>13, <1>14, <1>15, <1>16, <1>17, <1>18 DEF Shape

(* A list with a completed addition to the list of the head h. *)
LEMMA FixedAdd ==
  ASSUME NEW nx \in [Node -> Node], NEW pv \in [Node -> Node], NEW h \in Node, NEW k \in Node,
         NEW T \in SUBSET Node, k \notin T, h \notin T, NEW x \in Node, x \notin T, x # h, x # k,
         nx[x] = nx[h], pv[x] = h, pv[nx[h]] = x, h = k \/ nx[h] \notin T \cup {k},
         Linked(nx, [pv EXCEPT ![nx[h]] = h], k, T)
  PROVE  Linked([nx EXCEPT ![h] = x], pv, k, IF h = k THEN T \cup {x} ELSE T)
<1> DEFINE nx2 == [nx EXCEPT ![h] = x]
           pv1 == [pv EXCEPT ![nx[h]] = h]
<1>1. /\ \A n \in Node : nx2[n] = IF n = h THEN x ELSE nx[n]
      /\ \A n \in Node : pv1[n] = IF n = nx[h] THEN h ELSE pv[n]
  OBVIOUS
<1>2. Linked(nx, pv1, k, T)
  OBVIOUS
<1> HIDE DEF nx2, pv1
<1>3. CASE h = k
  <2>1. \A n \in T \cup {k} : /\ nx2[n] = IF n = k THEN x ELSE nx[n]
                              /\ pv[n] = IF n = nx[k] THEN x ELSE pv1[n]
    BY <1>1, <1>3
  <2>2. nx2[x] = nx[k] /\ pv[x] = k
    BY <1>1, <1>3
  <2>3. Linked(nx2, pv, k, T \cup {x})
    BY <1>2, <2>1, <2>2, LinkedAdd
  <2> QED BY <1>3, <2>3 DEF nx2
<1>4. CASE h # k
  <2>1. \A n \in T \cup {k} : nx2[n] = nx[n] /\ pv[n] = pv1[n]
    BY <1>1, <1>4
  <2>2. Linked(nx2, pv, k, T)
    BY <1>2, <2>1, LinkedFrame
  <2> QED BY <1>4, <2>2 DEF nx2
<1> QED BY <1>3, <1>4

(* The last store of list_add puts the element on its list. *)
LEMMA AddLinkStep ==
  ASSUME NEW U, NEW C, NEW S, Shape(U, C, S), add_link, NEW U2, NEW C2, NEW S2,
         U2 = IF head = "stack_used" THEN U \cup {e} ELSE U,
         C2 = IF head = "stack_cache" THEN C \cup {e} ELSE C,
         S2 = IF head = "stack_user" THEN S \cup {e} ELSE S
  PROVE  Shape(U2, C2, S2)'
<1> USE NodeFacts
<1>1. /\ TypeOK /\ JobInv /\ UserClosed
      /\ U \subseteq Block \ User /\ C \subseteq Block \ User /\ S \subseteq User
      /\ AddInv(U, C, S) /\ PlaceInv(U, C, S)
      /\ ThreadInv(U, C) /\ MappedInv(U, C) /\ SizeInv(U, C)
  BY DEF Shape
<1>2. /\ UNCHANGED <<prev, in_flight_stack, actsize, tid, live, mapped, job, self, stage, forks,
                     interrupted, lost, skewed>>
      /\ pc = "add" /\ done = {1, 2, 3} /\ e' = e /\ done' = {} /\ pc' = "added"
      /\ next' = [next EXCEPT ![head] = e]
  BY DEF add_link, threads, child, history, e
<1>3. /\ stage = "no" /\ e \in Block /\ job.kind \in {"get", "map", "free", "user"} /\ ~ Deleting
      /\ e \notin U \cup C \cup S /\ e \notin Heads
      /\ \/ head = "stack_used" /\ e \notin User /\ next[head] \in U \cup {head} /\ job.kind \in {"get", "map"}
         \/ head = "stack_cache" /\ e \notin User /\ next[head] \in C \cup {head} /\ job.kind = "free"
         \/ head = "stack_user" /\ e \in User /\ next[head] \in S \cup {head} /\ job.kind = "user"
      /\ FixPrev = [prev EXCEPT ![next[head]] = head]
      /\ U \cap C = {}
      /\ Linked(next, FixPrev, "stack_used", U) /\ Linked(next, FixPrev, "stack_cache", C)
      /\ Linked(next, FixPrev, "stack_user", S)
  BY <1>2, AddFacts
<1>4. ~ Deleting' /\ Target' = NULL
  BY <1>2, <1>3 DEF Deleting, Target
<1>5. FixNext' = next' /\ FixPrev' = prev
  BY <1>2, <1>4 DEF FixNext, FixPrev
<1>6. next[e] = next[head] /\ prev[e] = head /\ prev[next[head]] = e
  BY <1>1, <1>2 DEF AddInv
<1>7. /\ next \in [Node -> Node] /\ prev \in [Node -> Node] /\ e \in Node /\ head \in Node /\ e # head
      /\ U \in SUBSET Node /\ C \in SUBSET Node /\ S \in SUBSET Node
      /\ "stack_used" \notin U \cup C \cup S /\ "stack_cache" \notin U \cup C \cup S
      /\ "stack_user" \notin U \cup C \cup S
      /\ e # "stack_used" /\ e # "stack_cache" /\ e # "stack_user"
  BY <1>1, <1>3 DEF TypeOK, Heads
<1>8. Linked(FixNext', FixPrev', "stack_used", U2)
  <2>1. head = "stack_used" \/ next[head] \notin U \cup {"stack_used"}
    BY <1>1, <1>3, <1>7
  <2>2. head \notin U
    BY <1>3, <1>7
  <2> QED BY <1>2, <1>3, <1>5, <1>6, <1>7, <2>1, <2>2, FixedAdd
<1>9. Linked(FixNext', FixPrev', "stack_cache", C2)
  <2>1. head = "stack_cache" \/ next[head] \notin C \cup {"stack_cache"}
    BY <1>1, <1>3, <1>7
  <2>2. head \notin C
    BY <1>3, <1>7
  <2> QED BY <1>2, <1>3, <1>5, <1>6, <1>7, <2>1, <2>2, FixedAdd
<1>10. Linked(FixNext', FixPrev', "stack_user", S2)
  <2>1. head = "stack_user" \/ next[head] \notin S \cup {"stack_user"}
    BY <1>1, <1>3, <1>7
  <2>2. head \notin S
    BY <1>3, <1>7
  <2> QED BY <1>2, <1>3, <1>5, <1>6, <1>7, <2>1, <2>2, FixedAdd
<1>11. /\ U2 \subseteq Block \ User /\ C2 \subseteq Block \ User /\ S2 \subseteq User
       /\ U2 \cap C2 = {}
  BY <1>1, <1>3
<1>12. Rings(FixNext, FixPrev, U2, C2, S2)'
  BY <1>2, <1>3, <1>8, <1>9, <1>10, <1>11 DEF Rings
<1>13. TypeOK'
  BY <1>1, <1>2, <1>7 DEF TypeOK
<1>14. JobInv'
  BY <1>1, <1>2 DEF JobInv, Idle
<1>15. UserClosed'
  BY <1>1, <1>2, <1>3, <1>7 DEF UserClosed
<1>16. DeletingInv(U2, C2, S2)' /\ DelInv' /\ TrimInv(C2)' /\ AddInv(U2, C2, S2)' /\ RepairInv(U2, C2)'
  BY <1>1, <1>2, <1>3, <1>4 DEF DeletingInv, DelInv, TrimInv, AddInv, RepairInv
<1>17. PlaceInv(U2, C2, S2)'
  BY <1>1, <1>2, <1>3 DEF PlaceInv
<1>18. ThreadInv(U2, C2)'
  BY <1>1, <1>2, <1>3 DEF ThreadInv
<1>19. MappedInv(U2, C2)'
  BY <1>1, <1>2, <1>3 DEF MappedInv, Limbo, TypeOK
<1>20. SizeInv(U2, C2)'
  <2>1. IsFiniteSet(C)
    BY <1>1, ForkReclaimAssumption, FS_Subset
  <2>2. Cardinality(C) \in Nat /\ Cardinality(C2) = IF job.kind = "free" THEN Cardinality(C) + 1 ELSE Cardinality(C)
    BY <1>3, <2>1, FS_CardinalityType, FS_AddElement
  <2> QED BY <1>1, <1>2, <1>3, <2>2 DEF SizeInv
<1> QED BY <1>11, <1>12, <1>13, <1>14, <1>15, <1>16, <1>17, <1>18, <1>19, <1>20 DEF Shape

(* The end of stack_list_add. *)
LEMMA AddDoneStep ==
  ASSUME NEW U, NEW C, NEW S, Shape(U, C, S), add_done
  PROVE  Shape(U, C, S)'
<1> USE NodeFacts
<1>1. /\ TypeOK /\ JobInv /\ UserClosed
      /\ U \subseteq Block \ User /\ C \subseteq Block \ User /\ S \subseteq User
      /\ Rings(FixNext, FixPrev, U, C, S) /\ PlaceInv(U, C, S)
      /\ ThreadInv(U, C) /\ MappedInv(U, C) /\ SizeInv(U, C)
  BY DEF Shape
<1>2. /\ UNCHANGED <<next, prev, actsize, tid, live, mapped, job, done, self, stage, forks,
                     interrupted, lost, skewed>>
      /\ pc = "added" /\ e' = e /\ in_flight_stack' = NULL
      /\ pc' = IF job.kind \in {"get", "free"} THEN "account" ELSE "end"
  BY DEF add_done, pointers, threads, child, history, e
<1>3. /\ stage = "no" /\ e \in Block /\ done = {} /\ job.kind \in {"get", "map", "free", "user"}
      /\ (e \in User => job.kind = "user")
  BY <1>1, <1>2 DEF JobInv
<1>4. FixNext = next /\ FixPrev = prev /\ ~ Deleting' /\ Target' = NULL
  BY <1>2, <1>3, RawFix DEF Deleting, Target
<1>5. FixNext' = next /\ FixPrev' = prev
  BY <1>2, <1>4 DEF FixNext, FixPrev
<1>6. Rings(FixNext, FixPrev, U, C, S)'
  BY <1>1, <1>2, <1>4, <1>5 DEF Rings
<1>7. TypeOK'
  BY <1>1, <1>2 DEF TypeOK
<1>8. JobInv'
  BY <1>1, <1>2, <1>3 DEF JobInv, Idle
<1>9. UserClosed'
  BY <1>1, <1>2 DEF UserClosed
<1>10. /\ DeletingInv(U, C, S)' /\ DelInv' /\ TrimInv(C)' /\ AddInv(U, C, S)' /\ RepairInv(U, C)'
       /\ PlaceInv(U, C, S)'
  BY <1>1, <1>2, <1>3, <1>4 DEF DeletingInv, DelInv, TrimInv, AddInv, RepairInv, PlaceInv
<1>11. ThreadInv(U, C)' /\ MappedInv(U, C)'
  BY <1>1, <1>2, <1>3 DEF ThreadInv, MappedInv, Limbo
<1>12. SizeInv(U, C)'
  BY <1>1, <1>2, <1>3 DEF SizeInv
<1> QED BY <1>1, <1>6, <1>7, <1>8, <1>9, <1>10, <1>11, <1>12 DEF Shape

(* The stack that free_stacks goes to is on the cache, and free. *)
LEMMA FreeNext ==
  ASSUME NEW U, NEW C, NEW S, Shape(U, C, S), NEW n \in Node,
         Linked(next, prev, "stack_cache", C), prev[n] \in C \cup {"stack_cache"},
         free_next(Backwards(n))
  PROVE  \/ job' = job /\ pc' = "end"
         \/ \E x \in C : ~ tid[x] /\ job' = [job EXCEPT !.kind = "trim", !.elem = x] /\ pc' = "del_flight"
<1> DEFINE path == Backwards(n)
           free == {i \in DOMAIN path : ~ tid[path[i]]}
           q == CHOOSE i \in free : \A j \in free : i <= j
<1>1. \A i \in DOMAIN path : i \in Nat /\ path[i] \in C
  <2>1. prev \in [Node -> Node] /\ prev[n] \in Node
    BY DEF Shape, TypeOK
  <2>2. \A x \in C : prev[x] \in C \cup {"stack_cache"}
    BY DEF Linked
  <2> QED BY <2>1, <2>2, PathWithin DEF Backwards
<1> HIDE DEF path
<1>2. free \in SUBSET Nat
  BY <1>1
<1>3. free # {} => q \in free
  <2> SUFFICES ASSUME free # {} PROVE q \in free
    OBVIOUS
  <2>1. \E i \in free : \A j \in free : i <= j
    <3> HIDE DEF free
    <3> QED BY <1>2, Least
  <2> QED BY <2>1
<1>4. \/ job' = job /\ pc' = "end"
      \/ /\ free # {}
         /\ job' = [job EXCEPT !.kind = "trim", !.elem = path[q]] /\ pc' = "del_flight"
  BY DEF free_next, path
<1> HIDE DEF q
<1> QED BY <1>1, <1>3, <1>4

(* The accounting, and where free_stacks begins. *)
LEMMA AccountStep ==
  ASSUME NEW U, NEW C, NEW S, Shape(U, C, S), account
  PROVE  Shape(U, C, S)'
<1> USE NodeFacts
<1>1. /\ TypeOK /\ JobInv /\ UserClosed
      /\ U \subseteq Block \ User /\ C \subseteq Block \ User /\ S \subseteq User
      /\ Rings(FixNext, FixPrev, U, C, S) /\ PlaceInv(U, C, S) /\ TrimInv(C)
      /\ ThreadInv(U, C) /\ MappedInv(U, C) /\ SizeInv(U, C)
  BY DEF Shape
<1>2. /\ UNCHANGED <<next, prev, in_flight_stack, tid, live, mapped, done, self, stage, forks,
                     interrupted, lost, skewed>>
      /\ pc = "account"
      /\ actsize' = (actsize + (IF job.kind = "free" THEN 1 ELSE -1)) % SizeMod
  BY DEF account, pointers, threads, child, history
<1>3. /\ stage = "no" /\ e \in Block /\ e \notin User /\ done = {} /\ in_flight_stack = NULL
      /\ job.kind \in {"get", "free", "trim"}
  BY <1>1, <1>2 DEF JobInv
<1>4. /\ job.kind = "get" => pc' = "end" /\ job' = job
      /\ job.kind = "trim" => pc' = "unmap" /\ job' = job
      /\ job.kind = "free" => free_next(Backwards("stack_cache"))
  BY DEF account
<1>5. FixNext = next /\ FixPrev = prev
  BY <1>2, <1>3, RawFix
<1>6. Linked(next, prev, "stack_cache", C)
  BY <1>1, <1>5 DEF Rings
<1>7. \/ job.kind \in {"get", "free"} /\ job' = job /\ pc' = "end"
      \/ job.kind = "trim" /\ job' = job /\ pc' = "unmap"
      \/ /\ job.kind = "free" /\ pc' = "del_flight"
         /\ \E x \in C : ~ tid[x] /\ job' = [job EXCEPT !.kind = "trim", !.elem = x]
  <2>1. prev["stack_cache"] \in C \cup {"stack_cache"}
    BY <1>6 DEF Linked
  <2>2. CASE job.kind = "free"
    <3>1. free_next(Backwards("stack_cache"))
      BY <1>4, <2>2
    <3> QED BY <1>6, <2>1, <2>2, <3>1, FreeNext
  <2>3. CASE job.kind # "free"
    BY <1>3, <1>4, <2>3
  <2> QED BY <2>2, <2>3
<1>8. \/ job.kind \in {"get", "free"} /\ job' = job /\ pc' = "end" /\ job'.kind = job.kind /\ e' = e
      \/ job.kind = "trim" /\ job' = job /\ pc' = "unmap" /\ job'.kind = "trim" /\ e' = e
      \/ /\ job.kind = "free" /\ pc' = "del_flight" /\ job'.kind = "trim" /\ job'.by = job.by
         /\ job' = [job EXCEPT !.kind = "trim", !.elem = e'] /\ e' \in C /\ ~ tid[e']
  <2>1. ASSUME NEW x \in C, job' = [job EXCEPT !.kind = "trim", !.elem = x]
        PROVE  job'.kind = "trim" /\ job'.by = job.by /\ e' = x
    BY <1>1, <2>1 DEF TypeOK, e
  <2> QED BY <1>7, <2>1 DEF e
<1>9. pc' \in {"end", "unmap", "del_flight"} /\ pc' # "no"
  BY <1>8
<1>10. ~ Deleting' /\ Target' = NULL /\ FixNext' = next /\ FixPrev' = prev
  BY <1>2, <1>3, <1>9 DEF Deleting, Target, FixNext, FixPrev
<1>11. Rings(FixNext, FixPrev, U, C, S)'
  BY <1>1, <1>2, <1>5, <1>10 DEF Rings
<1>12. Cardinality(C) \in Nat /\ Cardinality(C) <= Cardinality(Block) /\ Cardinality(Block) \in Nat
  BY <1>1, ForkReclaimAssumption, FS_Subset, FS_CardinalityType
<1>13. SizeMod \in Nat /\ SizeMod > Cardinality(Block) + 1
  BY ForkReclaimAssumption
<1>14. actsize \in 0 .. SizeMod - 1 /\ actsize' \in 0 .. SizeMod - 1
  <2>1. actsize \in 0 .. SizeMod - 1
    BY <1>1 DEF TypeOK
  <2>2. \A z \in Int : z % SizeMod \in 0 .. SizeMod - 1
    BY <1>12, <1>13
  <2>3. actsize + (IF job.kind = "free" THEN 1 ELSE -1) \in Int
    BY <1>13, <2>1
  <2> QED BY <1>2, <2>1, <2>2, <2>3
<1>15. job' \in [kind : {"none", "get", "map", "user", "free", "drop", "trim"},
                 by : Block \cup {NULL}, elem : Block \cup {NULL}]
  BY <1>1, <1>8 DEF TypeOK
<1>16. TypeOK'
  <2>1. UNCHANGED <<next, prev, in_flight_stack, tid, live, mapped, done, self, stage, forks,
                    interrupted, lost, skewed>>
    BY <1>2
  <2> QED BY <1>1, <1>9, <1>14, <1>15, <2>1 DEF TypeOK
<1>17. JobInv'
  <2>1. job' # Idle
    BY <1>3, <1>8 DEF Idle
  <2> QED BY <1>1, <1>2, <1>3, <1>8, <1>9, <2>1 DEF JobInv
<1>18. UserClosed'
  BY <1>1, <1>2 DEF UserClosed
<1>19. DeletingInv(U, C, S)' /\ DelInv' /\ TrimInv(C)' /\ AddInv(U, C, S)' /\ RepairInv(U, C)'
  BY <1>1, <1>2, <1>3, <1>8, <1>10 DEF DeletingInv, DelInv, TrimInv, AddInv, RepairInv
<1>20. PlaceInv(U, C, S)'
  BY <1>1, <1>2, <1>8 DEF PlaceInv
<1>21. ThreadInv(U, C)'
  BY <1>1, <1>2, <1>3, <1>8 DEF ThreadInv, PlaceInv
<1>22. MappedInv(U, C)'
  BY <1>1, <1>2, <1>3, <1>8 DEF MappedInv, Limbo
<1>23. SizeInv(U, C)'
  <2> SUFFICES ASSUME ~ skewed PROVE actsize' = Cardinality(C)
    BY <1>2, <1>3, <1>8, <1>12 DEF SizeInv
  <2>1. actsize = Cardinality(C) + IF job.kind = "free" THEN -1 ELSE 1
    BY <1>1, <1>2, <1>3 DEF SizeInv
  <2>2. actsize + (IF job.kind = "free" THEN 1 ELSE -1) = Cardinality(C)
    BY <1>12, <2>1
  <2> QED BY <1>2, <1>12, <1>13, <2>2
<1> QED BY <1>1, <1>11, <1>16, <1>17, <1>18, <1>19, <1>20, <1>21, <1>22, <1>23 DEF Shape

(* munmap takes a stack that is on no list, and free_stacks goes on. *)
LEMMA UnmapStep ==
  ASSUME NEW U, NEW C, NEW S, Shape(U, C, S), unmap
  PROVE  Shape(U, C, S)'
<1> USE NodeFacts
<1>1. /\ TypeOK /\ JobInv /\ UserClosed
      /\ U \subseteq Block \ User /\ C \subseteq Block \ User /\ S \subseteq User
      /\ Rings(FixNext, FixPrev, U, C, S) /\ PlaceInv(U, C, S) /\ TrimInv(C)
      /\ ThreadInv(U, C) /\ MappedInv(U, C) /\ SizeInv(U, C)
  BY DEF Shape
<1>2. /\ UNCHANGED <<next, prev, in_flight_stack, actsize, tid, live, done, self, stage, forks,
                     interrupted, lost, skewed>>
      /\ pc = "unmap" /\ mapped' = mapped \ {e}
  BY DEF unmap, pointers, threads, child, history
<1>3. /\ stage = "no" /\ e \in Block /\ done = {} /\ in_flight_stack = NULL
      /\ job.kind \in {"trim", "drop"} /\ ~ tid[e] /\ e \notin User
  BY <1>1, <1>2 DEF JobInv
<1>4. FixNext = next /\ FixPrev = prev
  BY <1>2, <1>3, RawFix
<1>5. Linked(next, prev, "stack_cache", C)
  BY <1>1, <1>4 DEF Rings
<1>6. \/ job' = job /\ pc' = "end"
      \/ /\ job.kind = "trim" /\ pc' = "del_flight"
         /\ \E x \in C : ~ tid[x] /\ job' = [job EXCEPT !.kind = "trim", !.elem = x]
  <2>1. CASE job.kind = "trim"
    <3>1. free_next(Backwards(e)) /\ prev[e] \in C \cup {"stack_cache"} /\ e \in Node
      BY <1>1, <1>2, <1>3, <2>1 DEF unmap, TrimInv
    <3> QED BY <1>5, <2>1, <3>1, FreeNext
  <2>2. CASE job.kind # "trim"
    BY <2>2 DEF unmap
  <2> QED BY <2>1, <2>2
<1>7. \/ job' = job /\ pc' = "end" /\ job'.kind = job.kind /\ e' = e
      \/ /\ job.kind = "trim" /\ pc' = "del_flight" /\ job'.kind = "trim" /\ job'.by = job.by
         /\ job' = [job EXCEPT !.kind = "trim", !.elem = e'] /\ e' \in C /\ ~ tid[e']
  <2>1. ASSUME NEW x \in C, job' = [job EXCEPT !.kind = "trim", !.elem = x]
        PROVE  job'.kind = "trim" /\ job'.by = job.by /\ e' = x
    BY <1>1, <2>1 DEF TypeOK, e
  <2> QED BY <1>6, <2>1 DEF e
<1>8. pc' \in {"end", "del_flight"}
  BY <1>7
<1>9. ~ Deleting' /\ Target' = NULL /\ FixNext' = next /\ FixPrev' = prev
  BY <1>2, <1>3, <1>8 DEF Deleting, Target, FixNext, FixPrev
<1>10. Rings(FixNext, FixPrev, U, C, S)'
  BY <1>1, <1>2, <1>4, <1>9 DEF Rings
<1>11. job' \in [kind : {"none", "get", "map", "user", "free", "drop", "trim"},
                 by : Block \cup {NULL}, elem : Block \cup {NULL}]
  BY <1>1, <1>7 DEF TypeOK
<1>12. TypeOK'
  <2>1. UNCHANGED <<next, prev, in_flight_stack, actsize, tid, live, done, self, stage, forks,
                    interrupted, lost, skewed>>
    BY <1>2
  <2>2. mapped' \subseteq Block \ User
    BY <1>1, <1>2 DEF TypeOK
  <2> QED BY <1>1, <1>8, <1>11, <2>1, <2>2 DEF TypeOK
<1>13. JobInv'
  <2>1. job' # Idle
    BY <1>3, <1>7 DEF Idle
  <2> QED BY <1>1, <1>2, <1>3, <1>7, <1>8, <2>1 DEF JobInv
<1>14. UserClosed'
  BY <1>1, <1>2 DEF UserClosed
<1>15. DeletingInv(U, C, S)' /\ DelInv' /\ TrimInv(C)' /\ AddInv(U, C, S)' /\ RepairInv(U, C)'
  BY <1>1, <1>2, <1>3, <1>7, <1>9 DEF DeletingInv, DelInv, TrimInv, AddInv, RepairInv
<1>16. PlaceInv(U, C, S)'
  BY <1>1, <1>2, <1>3, <1>7 DEF PlaceInv
<1>17. ThreadInv(U, C)'
  BY <1>1, <1>2, <1>3, <1>7 DEF ThreadInv
<1>18. MappedInv(U, C)'
  BY <1>1, <1>2, <1>3, <1>7 DEF MappedInv, Limbo
<1>19. SizeInv(U, C)'
  BY <1>1, <1>2, <1>3, <1>7 DEF SizeInv
<1> QED BY <1>1, <1>10, <1>12, <1>13, <1>14, <1>15, <1>16, <1>17, <1>18, <1>19 DEF Shape

(* The change is over; what was allocated may have got a thread. *)
LEMMA FinishStep ==
  ASSUME NEW U, NEW C, NEW S, Shape(U, C, S), finish
  PROVE  Shape(U, C, S)'
<1> USE NodeFacts
<1>1. /\ TypeOK /\ JobInv /\ UserClosed
      /\ U \subseteq Block \ User /\ C \subseteq Block \ User /\ S \subseteq User
      /\ Rings(FixNext, FixPrev, U, C, S) /\ PlaceInv(U, C, S)
      /\ ThreadInv(U, C) /\ MappedInv(U, C) /\ SizeInv(U, C)
  BY DEF Shape
<1>2. /\ UNCHANGED <<next, prev, in_flight_stack, actsize, mapped, done, self, stage, forks,
                     interrupted, lost, skewed>>
      /\ pc = "end" /\ job' = Idle /\ pc' = "no" /\ e' = NULL /\ job'.kind = "none"
  BY DEF finish, pointers, child, history, e, Idle
<1>3. \/ live' = live /\ tid' = tid
      \/ /\ job.kind \in {"get", "map", "user"}
         /\ live' = live \cup {e} /\ tid' = [tid EXCEPT ![e] = TRUE]
  BY DEF finish, threads
<1>4. stage = "no" /\ e \in Block /\ done = {} /\ in_flight_stack = NULL /\ job.kind # "none"
  BY <1>1, <1>2 DEF JobInv
<1>5. FixNext = next /\ FixPrev = prev
  BY <1>2, <1>4, RawFix
<1>6. ~ Deleting' /\ Target' = NULL /\ FixNext' = next /\ FixPrev' = prev
  BY <1>2, <1>4 DEF Deleting, Target, FixNext, FixPrev
<1>7. Rings(FixNext, FixPrev, U, C, S)'
  BY <1>1, <1>2, <1>5, <1>6 DEF Rings
<1>8. TypeOK'
  BY <1>1, <1>2, <1>3, <1>4 DEF TypeOK, Idle
<1>9. JobInv'
  BY <1>1, <1>2, <1>4 DEF JobInv, Idle
<1>10. UserClosed'
  BY <1>1, <1>2 DEF UserClosed
<1>11. /\ DeletingInv(U, C, S)' /\ DelInv' /\ TrimInv(C)' /\ AddInv(U, C, S)' /\ RepairInv(U, C)'
       /\ PlaceInv(U, C, S)'
  BY <1>2, <1>4, <1>6 DEF DeletingInv, DelInv, TrimInv, AddInv, RepairInv, PlaceInv
<1>12. ThreadInv(U, C)'
  <2>1. e \in live => e \in User \cup U \cup C
    <3>1. CASE job.kind \in {"trim", "drop"}
      BY <1>1, <3>1 DEF JobInv, ThreadInv
    <3>2. CASE job.kind \in {"get", "map", "free"}
      BY <1>1, <1>2, <3>2 DEF PlaceInv
    <3>3. CASE job.kind = "user"
      BY <1>1, <3>3 DEF JobInv
    <3> QED BY <1>1, <1>4, <3>1, <3>2, <3>3 DEF TypeOK
  <2>2. job.kind \in {"get", "map", "user"} => e \in User \cup U
    BY <1>1, <1>2 DEF PlaceInv, JobInv
  <2> QED BY <1>1, <1>2, <1>3, <1>4, <2>1, <2>2 DEF ThreadInv, TypeOK
<1>13. MappedInv(U, C)'
  BY <1>1, <1>2, <1>4 DEF MappedInv, Limbo
<1>14. SizeInv(U, C)'
  BY <1>1, <1>2, <1>4 DEF SizeInv
<1> QED BY <1>1, <1>7, <1>8, <1>9, <1>10, <1>11, <1>12, <1>13, <1>14 DEF Shape

(* What a fork finds: the element in flight, which head is inconsistent, and *)
(* that the pointers as __reclaim_stacks would complete them are the lists.  *)
LEMMA ForkFinds ==
  ASSUME NEW U, NEW C, NEW S, Shape(U, C, S), stage = "no", NEW b \in Block, fork(b)
  PROVE  /\ Linked(FixNext', FixPrev', "stack_used", U) /\ Linked(FixNext', FixPrev', "stack_cache", C)
         /\ in_flight_stack # NULL =>
              /\ elem = e
              /\ in_flight_stack.add =>
                   /\ pc \in {"add", "added"} /\ e \in Block \ User
                   /\ broken # NULL => pc = "add" /\ 3 \in done /\ broken = head /\ e \notin U \cup C
                                       /\ prev[next[broken]] = e
<1> USE NodeFacts
<1>1. /\ TypeOK /\ JobInv /\ U \subseteq Block \ User /\ C \subseteq Block \ User /\ S \subseteq User
      /\ AddInv(U, C, S) /\ Rings(FixNext, FixPrev, U, C, S)
  BY DEF Shape
<1>2. /\ UNCHANGED <<next, prev, in_flight_stack>> /\ stage' = "repair" /\ pc' = "no"
      /\ elem' = elem /\ broken' = broken
  BY DEF fork, pointers, elem, broken
<1>3. /\ U \cap C = {}
      /\ Linked(FixNext, FixPrev, "stack_used", U) /\ Linked(FixNext, FixPrev, "stack_cache", C)
  BY <1>1 DEF Rings
<1>4. in_flight_stack = IF pc = "del" THEN [elem |-> e, add |-> FALSE]
                         ELSE IF pc \in {"add", "added"} /\ e \notin User THEN [elem |-> e, add |-> TRUE]
                         ELSE NULL
  BY <1>1 DEF JobInv
<1>5. pc # "no" => e \in Block
  BY <1>1 DEF JobInv
<1>6. Target' = IF in_flight_stack # NULL THEN broken ELSE NULL
  BY <1>2 DEF Target
<1>7. next \in [Node -> Node] /\ prev \in [Node -> Node]
  BY <1>1 DEF TypeOK
<1>8. CASE pc = "del"
  <2>1. Deleting /\ elem = e /\ in_flight_stack # NULL /\ ~ in_flight_stack.add
    BY <1>4, <1>5, <1>8, FlightFacts DEF Deleting, elem
  <2>2. Deleting'
    BY <1>2, <2>1 DEF Deleting
  <2>3. FixNext' = FixNext /\ FixPrev' = FixPrev
    BY <1>2, <2>1, <2>2 DEF FixNext, FixPrev
  <2> QED BY <1>3, <2>1, <2>3
<1>9. CASE pc = "add"
  <2>1. /\ e \in Block /\ e \notin U \cup C \cup S /\ e \notin Heads /\ FixNext = next
        /\ \/ head = "stack_used" /\ e \notin User /\ next[head] \in U \cup {head}
           \/ head = "stack_cache" /\ e \notin User /\ next[head] \in C \cup {head}
           \/ head = "stack_user" /\ e \in User /\ next[head] \in S \cup {head}
        /\ FixPrev = [prev EXCEPT ![next[head]] = head]
    BY <1>9, AddFacts
  <2>2. prev[next[head]] = IF 3 \in done THEN e ELSE head
    BY <1>1, <1>9 DEF AddInv
  <2>3. /\ next["stack_used"] \in U \cup {"stack_used"} /\ FixPrev[next["stack_used"]] = "stack_used"
        /\ next["stack_cache"] \in C \cup {"stack_cache"} /\ FixPrev[next["stack_cache"]] = "stack_cache"
    BY <1>3, <2>1 DEF Linked
  <2>4. \A n \in Node : FixPrev[n] = IF n = next[head] THEN head ELSE prev[n]
    BY <1>7, <2>1
  <2>5. /\ head # "stack_used" => prev[next["stack_used"]] = "stack_used"
        /\ head # "stack_cache" => prev[next["stack_cache"]] = "stack_cache"
    BY <1>1, <1>3, <2>1, <2>3, <2>4
  <2>6. CASE e \in User
    <3>1. head = "stack_user" /\ in_flight_stack = NULL
      BY <1>4, <1>9, <2>1, <2>6
    <3>2. ~ Deleting' /\ Target' = NULL
      BY <1>2, <1>6, <3>1 DEF Deleting
    <3>3. FixNext' = next /\ FixPrev' = prev
      BY <1>2, <3>2 DEF FixNext, FixPrev
    <3>4. \A n \in U \cup {"stack_used"} : FixNext'[n] = FixNext[n] /\ FixPrev'[n] = FixPrev[n]
      BY <1>1, <2>1, <2>4, <3>1, <3>3
    <3>5. \A n \in C \cup {"stack_cache"} : FixNext'[n] = FixNext[n] /\ FixPrev'[n] = FixPrev[n]
      BY <1>1, <2>1, <2>4, <3>1, <3>3
    <3>6. Linked(FixNext', FixPrev', "stack_used", U)
      BY <1>3, <3>4, LinkedFrame
    <3>7. Linked(FixNext', FixPrev', "stack_cache", C)
      BY <1>3, <3>5, LinkedFrame
    <3> QED BY <3>1, <3>6, <3>7
  <2>7. CASE e \notin User
    <3>1. /\ in_flight_stack # NULL /\ in_flight_stack.add /\ elem = e
          /\ head \in {"stack_used", "stack_cache"}
      BY <1>4, <1>9, <2>1, <2>7, FlightFacts DEF elem
    <3>2. broken = IF 3 \in done THEN head ELSE NULL
      <4>1. CASE 3 \in done
        <5>1. prev[next[head]] = e /\ e # head
          BY <2>1, <2>2, <4>1 DEF Heads
        <5>2. CASE head = "stack_used"
          BY <2>5, <4>1, <5>1, <5>2 DEF broken
        <5>3. CASE head = "stack_cache"
          BY <2>5, <4>1, <5>1, <5>3 DEF broken
        <5> QED BY <3>1, <5>2, <5>3
      <4>2. CASE 3 \notin done
        BY <2>2, <2>5, <3>1, <4>2 DEF broken
      <4> QED BY <4>1, <4>2
    <3>3. ~ Deleting' /\ Target' = broken
      BY <1>2, <1>6, <3>1 DEF Deleting
    <3>4. FixNext' = FixNext
      BY <1>2, <2>1, <3>3 DEF FixNext
    <3>5. FixPrev' = FixPrev
      <4>1. CASE 3 \in done
        <5>1. Target' = head /\ head # NULL
          BY <3>1, <3>2, <3>3, <4>1 DEF Heads
        <5> QED BY <1>2, <2>1, <3>3, <5>1 DEF FixPrev
      <4>2. CASE 3 \notin done
        <5>1. FixPrev' = prev
          BY <1>2, <3>2, <3>3, <4>2 DEF FixPrev
        <5> QED BY <1>7, <2>1, <2>2, <4>2, <5>1
      <4> QED BY <4>1, <4>2
    <3> QED BY <1>3, <1>9, <2>1, <2>2, <2>7, <3>1, <3>2, <3>4, <3>5
  <2> QED BY <2>6, <2>7
<1>10. CASE pc \notin {"del", "add"}
  <2>1. FixNext = next /\ FixPrev = prev
    BY <1>10, RawFix
  <2>2. broken = NULL
    BY <1>3, <2>1 DEF broken, Linked
  <2>3. in_flight_stack # NULL => /\ in_flight_stack.add /\ pc = "added" /\ elem = e
                                  /\ e \in Block \ User
    BY <1>4, <1>5, <1>10, FlightFacts DEF elem
  <2>4. ~ Deleting' /\ Target' = NULL
    BY <1>2, <1>6, <2>2, <2>3 DEF Deleting
  <2>5. FixNext' = next /\ FixPrev' = prev
    BY <1>2, <2>4 DEF FixNext, FixPrev
  <2> QED BY <1>3, <2>1, <2>2, <2>3, <2>5
<1> QED BY <1>8, <1>9, <1>10

(* No thread that forks has its stack on the cache. *)
LEMMA ForkSelf ==
  ASSUME NEW U, NEW C, NEW S, Shape(U, C, S), stage = "no", NEW b \in Block, fork(b)
  PROVE  b \in User \cup U
<1> USE NodeFacts
<1>1. /\ TypeOK /\ C \subseteq Block \ User /\ ThreadInv(U, C) /\ Rings(FixNext, FixPrev, U, C, S)
  BY DEF Shape
<1>2. b \in live /\ b \notin Walk("stack_cache") /\ b # e
  BY DEF fork
<1>3. Linked(FixNext, FixPrev, "stack_cache", C) /\ "stack_cache" \notin C
  BY <1>1 DEF Rings
<1>4. next \in [Node -> Node] /\ prev \in [Node -> Node]
  BY <1>1 DEF TypeOK
<1>5. C \subseteq Walk("stack_cache")
  <2>1. CASE pc = "del"
    <3>1. /\ e \in Block /\ FixNext = [next EXCEPT ![prev[e]] = next[e]]
          /\ next[prev[e]] \in {e, next[e]}
      BY <2>1, DelFacts
    <3>2. \A n \in C \cup {"stack_cache"} : FixNext[n] = next[n] \/ (next[n] = e /\ FixNext[n] = next[e])
      BY <1>1, <1>4, <3>1
    <3>3. e # "stack_cache"
      BY <3>1
    <3> QED BY <1>3, <1>4, <3>2, <3>3, WalkCovers DEF Walk
  <2>2. CASE pc # "del"
    <3>1. FixNext = next
      <4>1. CASE pc = "add"
        BY <4>1, AddFacts
      <4>2. CASE pc # "add"
        BY <2>2, <4>2, RawFix
      <4> QED BY <4>1, <4>2
    <3> QED BY <1>3, <1>4, <3>1, WalkIs DEF Walk
  <2> QED BY <2>1, <2>2
<1> QED BY <1>1, <1>2, <1>5 DEF ThreadInv

(* fork: whatever the other thread was at, the child has what it needs. *)
LEMMA ForkStep ==
  ASSUME NEW U, NEW C, NEW S, Shape(U, C, S), NEW b \in Block, fork(b)
  PROVE  Shape(U, C, S)'
<1> USE NodeFacts
<1>1. /\ TypeOK /\ JobInv /\ UserClosed
      /\ U \subseteq Block \ User /\ C \subseteq Block \ User /\ S \subseteq User
      /\ Rings(FixNext, FixPrev, U, C, S) /\ PlaceInv(U, C, S) /\ DeletingInv(U, C, S)
      /\ ThreadInv(U, C) /\ MappedInv(U, C) /\ SizeInv(U, C)
  BY DEF Shape
<1>2. /\ UNCHANGED <<next, prev, in_flight_stack, actsize, tid, mapped, lost>>
      /\ stage = "no" /\ forks < MaxForks /\ b \in live /\ b # e
      /\ self' = b /\ stage' = "repair" /\ forks' = forks + 1 /\ live' = {b}
      /\ job' = Idle /\ pc' = "no" /\ done' = {} /\ interrupted' = e
      /\ skewed' = (skewed \/ (pc # "no" /\ Unaccounted))
      /\ elem' = elem /\ broken' = broken /\ e' = NULL /\ job'.kind = "none"
  BY DEF fork, pointers, elem, broken, e, Idle
<1>3. /\ Linked(FixNext', FixPrev', "stack_used", U) /\ Linked(FixNext', FixPrev', "stack_cache", C)
      /\ in_flight_stack # NULL =>
           /\ elem = e
           /\ in_flight_stack.add =>
                /\ pc \in {"add", "added"} /\ e \in Block \ User
                /\ broken # NULL => pc = "add" /\ 3 \in done /\ broken = head /\ e \notin U \cup C
                                    /\ prev[next[broken]] = e
  BY <1>2, ForkFinds
<1>4. b \in User \cup U
  BY <1>2, ForkSelf
<1>5. Rings(FixNext, FixPrev, U, C, S)'
  BY <1>1, <1>2, <1>3 DEF Rings
<1>6. TypeOK'
  <2>1. job' \in [kind : {"none", "get", "map", "user", "free", "drop", "trim"},
                  by : Block \cup {NULL}, elem : Block \cup {NULL}]
    BY <1>2 DEF Idle
  <2>2. forks' \in 0 .. MaxForks
    BY <1>1, <1>2, ForkReclaimAssumption DEF TypeOK
  <2>3. interrupted' \in Block \cup {NULL} /\ skewed' \in BOOLEAN
    BY <1>1, <1>2 DEF TypeOK, e
  <2> QED BY <1>1, <1>2, <2>1, <2>2, <2>3 DEF TypeOK
<1>7. JobInv'
  BY <1>2 DEF JobInv, Idle
<1>8. UserClosed'
  BY <1>1, <1>2 DEF UserClosed
<1>9. DeletingInv(U, C, S)'
  <2>1. Deleting' => Deleting
    BY <1>2 DEF Deleting
  <2> QED BY <1>1, <1>2, <2>1 DEF DeletingInv, Near
<1>10. DelInv' /\ TrimInv(C)' /\ AddInv(U, C, S)' /\ PlaceInv(U, C, S)'
  BY <1>2 DEF DelInv, TrimInv, AddInv, PlaceInv
<1>11. in_flight_stack # NULL /\ in_flight_stack.add => e \in mapped \ (lost \cup User)
  <2> SUFFICES ASSUME in_flight_stack # NULL, in_flight_stack.add PROVE e \in mapped \ lost
    BY <1>3
  <2>1. CASE pc = "add"
    BY <1>1, <1>3, <2>1 DEF MappedInv, Limbo
  <2>2. CASE pc = "added"
    <3>1. e \in U \cup C
      BY <1>1, <1>3, <2>2 DEF PlaceInv, JobInv
    <3> QED BY <1>1, <3>1 DEF MappedInv
  <2> QED BY <1>3, <2>1, <2>2
<1>12. RepairInv(U, C)'
  BY <1>2, <1>3, <1>11 DEF RepairInv
<1>13. ThreadInv(U, C)'
  BY <1>1, <1>2, <1>4 DEF ThreadInv
<1>14. MappedInv(U, C)'
  BY <1>1, <1>2 DEF MappedInv, Limbo
<1>15. SizeInv(U, C)'
  <2> SUFFICES ASSUME ~ skewed, ~ (pc # "no" /\ Unaccounted)
               PROVE  /\ actsize = Cardinality(C)
                      /\ in_flight_stack # NULL /\ in_flight_stack.add => broken # "stack_cache"
    BY <1>2 DEF SizeInv
  <2>1. Cardinality(C) \in Nat
    BY <1>1, ForkReclaimAssumption, FS_Subset, FS_CardinalityType
  <2>2. pc = "no" => job.kind = "none"
    BY <1>1 DEF JobInv, Idle
  <2>3. actsize = Cardinality(C)
    BY <1>1, <1>2, <2>1, <2>2 DEF SizeInv, Unaccounted
  <2>4. in_flight_stack # NULL /\ in_flight_stack.add => broken # "stack_cache"
    <3> SUFFICES ASSUME in_flight_stack # NULL, in_flight_stack.add, broken = "stack_cache" PROVE FALSE
      OBVIOUS
    <3>1. pc = "add" /\ 3 \in done /\ head = "stack_cache" /\ e \notin User
      BY <1>3 DEF Heads
    <3>2. job.kind = "free"
      BY <3>1, AddFacts
    <3> QED BY <3>1, <3>2 DEF Unaccounted
  <2> QED BY <2>3, <2>4
<1> QED BY <1>1, <1>5, <1>6, <1>7, <1>8, <1>9, <1>10, <1>12, <1>13, <1>14, <1>15 DEF Shape

(* The repair of a deletion, of nothing, or of an addition that shows in no  *)
(* head: the pointers become what they stood for.                            *)
LEMMA RepairDel ==
  ASSUME NEW U, NEW C, NEW S, Shape(U, C, S), repair,
         in_flight_stack # NULL /\ in_flight_stack.add => broken = NULL
  PROVE  Shape(U, C, S)'
<1> USE NodeFacts
<1>1. /\ TypeOK /\ JobInv /\ UserClosed
      /\ U \subseteq Block \ User /\ C \subseteq Block \ User /\ S \subseteq User
      /\ Rings(FixNext, FixPrev, U, C, S) /\ DeletingInv(U, C, S)
      /\ ThreadInv(U, C) /\ MappedInv(U, C) /\ SizeInv(U, C)
  BY DEF Shape
<1>2. /\ UNCHANGED <<in_flight_stack, actsize, tid, live, mapped, job, pc, done, self, forks,
                     interrupted, lost, skewed>>
      /\ stage = "repair" /\ stage' = "mark" /\ e' = e
  BY DEF repair, threads, change, history, e
<1>3. pc = "no" /\ job = Idle /\ done = {} /\ next \in [Node -> Node] /\ prev \in [Node -> Node]
  BY <1>1, <1>2 DEF JobInv, TypeOK
<1>4. ~ Deleting' /\ Target' = NULL
  BY <1>2, <1>3 DEF Deleting, Target
<1>5. FixNext' = next' /\ FixPrev' = prev'
  BY <1>4 DEF FixNext, FixPrev
<1>6. /\ next' = FixNext /\ prev' = FixPrev
      /\ next' \in [Node -> Node] /\ prev' \in [Node -> Node] /\ UserClosed'
  <2>1. CASE Deleting
    <3>1. in_flight_stack # NULL /\ ~ in_flight_stack.add /\ elem \in Block
      BY <1>1, <2>1 DEF Deleting, TypeOK, elem
    <3>2. /\ prev' = [prev EXCEPT ![next[elem]] = prev[elem]]
          /\ next' = [next EXCEPT ![prev'[elem]] = next[elem]]
      BY <3>1 DEF repair, elem
    <3>3. /\ elem \notin U \cup C \cup S
          /\ \/ elem \notin User /\ {next[elem], prev[elem]} \subseteq U \cup {"stack_used"}
             \/ elem \notin User /\ {next[elem], prev[elem]} \subseteq C \cup {"stack_cache"}
             \/ elem \in User /\ {next[elem], prev[elem]} \subseteq (User \ {elem}) \cup {"stack_user"}
      BY <1>1, <2>1 DEF DeletingInv, Near
    <3>4. next[elem] # elem /\ elem \in Node
      BY <3>1, <3>3
    <3>5. prev'[elem] = prev[elem]
      BY <1>3, <3>2, <3>4
    <3>6. next' = FixNext /\ prev' = FixPrev
      BY <2>1, <3>2, <3>5 DEF FixNext, FixPrev
    <3>7. next' \in [Node -> Node] /\ prev' \in [Node -> Node]
      BY <1>3, <3>2, <3>4, <3>5
    <3>8. UserClosed'
      BY <1>1, <1>3, <3>2, <3>3, <3>4, <3>5 DEF UserClosed
    <3> QED BY <3>6, <3>7, <3>8
  <2>2. CASE ~ Deleting
    <3>1. in_flight_stack = NULL \/ (in_flight_stack # NULL /\ in_flight_stack.add)
      BY <1>2, <2>2 DEF Deleting
    <3>2. next' = next /\ prev' = prev
      BY <3>1 DEF repair, pointers
    <3>3. Target = NULL
      BY <1>3, <3>1 DEF Target
    <3> QED BY <1>1, <1>3, <2>2, <3>2, <3>3 DEF FixNext, FixPrev, UserClosed
  <2> QED BY <2>1, <2>2
<1>7. Rings(FixNext, FixPrev, U, C, S)'
  BY <1>1, <1>2, <1>5, <1>6 DEF Rings
<1>8. TypeOK'
  BY <1>1, <1>2, <1>6 DEF TypeOK
<1>9. JobInv'
  BY <1>1, <1>2, <1>3 DEF JobInv, Idle
<1>10. /\ DeletingInv(U, C, S)' /\ DelInv' /\ TrimInv(C)' /\ AddInv(U, C, S)' /\ RepairInv(U, C)'
       /\ PlaceInv(U, C, S)'
  BY <1>2, <1>3, <1>4 DEF DeletingInv, DelInv, TrimInv, AddInv, RepairInv, PlaceInv
<1>11. ThreadInv(U, C)' /\ MappedInv(U, C)' /\ SizeInv(U, C)'
  BY <1>1, <1>2, <1>3 DEF ThreadInv, MappedInv, Limbo, SizeInv
<1> QED BY <1>1, <1>6, <1>7, <1>8, <1>9, <1>10, <1>11 DEF Shape

(* The repair of an addition: it is completed on the list whose head is      *)
(* inconsistent.                                                             *)
LEMMA RepairAdd ==
  ASSUME NEW U, NEW C, NEW S, Shape(U, C, S), repair,
         in_flight_stack # NULL, in_flight_stack.add, broken # NULL,
         NEW U2, NEW C2,
         U2 = IF broken = "stack_used" THEN U \cup {elem} ELSE U,
         C2 = IF broken = "stack_cache" THEN C \cup {elem} ELSE C
  PROVE  Shape(U2, C2, S)'
<1> USE NodeFacts
<1>1. /\ TypeOK /\ JobInv /\ UserClosed
      /\ U \subseteq Block \ User /\ C \subseteq Block \ User /\ S \subseteq User
      /\ Rings(FixNext, FixPrev, U, C, S) /\ RepairInv(U, C)
      /\ ThreadInv(U, C) /\ MappedInv(U, C) /\ SizeInv(U, C)
  BY DEF Shape
<1>2. /\ UNCHANGED <<in_flight_stack, actsize, tid, live, mapped, job, pc, done, self, forks,
                     interrupted, lost, skewed>>
      /\ stage = "repair" /\ stage' = "mark" /\ e' = e
  BY DEF repair, threads, change, history, e
<1>3. /\ next' = [next EXCEPT ![elem] = next[broken], ![broken] = elem]
      /\ prev' = [prev EXCEPT ![elem] = broken]
  BY DEF repair, elem
<1>4. pc = "no" /\ job = Idle /\ done = {} /\ next \in [Node -> Node] /\ prev \in [Node -> Node]
  BY <1>1, <1>2 DEF JobInv, TypeOK
<1>5. /\ elem = interrupted /\ elem \in mapped /\ elem \notin lost /\ elem \notin User
      /\ elem \notin U \cup C /\ prev[next[broken]] = elem
  BY <1>1, <1>2 DEF RepairInv
<1>6. elem \in Block /\ broken \in {"stack_used", "stack_cache"}
  BY <1>1 DEF TypeOK, elem, broken
<1>7. ~ Deleting /\ Target = broken
  BY <1>2, <1>4 DEF Deleting, Target
<1>8. FixNext = next /\ FixPrev = [prev EXCEPT ![next[broken]] = broken]
  BY <1>7 DEF FixNext, FixPrev
<1>9. ~ Deleting' /\ Target' = NULL
  BY <1>2, <1>4 DEF Deleting, Target
<1>10. FixNext' = next' /\ FixPrev' = prev'
  BY <1>9 DEF FixNext, FixPrev
<1>11. /\ U \cap C = {}
       /\ Linked(next, FixPrev, "stack_used", U) /\ Linked(next, FixPrev, "stack_cache", C)
  BY <1>1, <1>2, <1>8 DEF Rings
<1>12. /\ broken = "stack_used" => next[broken] \in U \cup {"stack_used"}
       /\ broken = "stack_cache" => next[broken] \in C \cup {"stack_cache"}
  BY <1>11 DEF Linked
<1>13. /\ elem \in Node /\ broken \in Node /\ elem # "stack_used" /\ elem # "stack_cache"
       /\ elem # broken /\ next[broken] # elem
       /\ "stack_used" \notin U \cup C /\ "stack_cache" \notin U \cup C /\ U \in SUBSET Node /\ C \in SUBSET Node
  BY <1>1, <1>5, <1>6, <1>12
<1> DEFINE nx == [next EXCEPT ![elem] = next[broken]]
           pv == [prev EXCEPT ![elem] = broken]
           pw == [pv EXCEPT ![nx[broken]] = broken]
<1>14. /\ nx \in [Node -> Node] /\ pv \in [Node -> Node] /\ nx[broken] = next[broken]
       /\ nx[elem] = next[broken] /\ pv[elem] = broken /\ pv[next[broken]] = elem
  BY <1>4, <1>5, <1>13
<1>15. next' = [nx EXCEPT ![broken] = elem] /\ prev' = pv
  BY <1>3, <1>4, <1>13
<1>16. \A n \in Node : n # elem => nx[n] = next[n] /\ pw[n] = FixPrev[n]
  BY <1>4, <1>8, <1>13, <1>14
<1>17. Linked(FixNext', FixPrev', "stack_used", U2)
  <2>1. \A n \in U \cup {"stack_used"} : nx[n] = next[n] /\ pw[n] = FixPrev[n]
    BY <1>1, <1>5, <1>13, <1>16
  <2>2. Linked(next, FixPrev, "stack_used", U)
    BY <1>11
  <2> HIDE DEF nx, pv
  <2>3. Linked(nx, pw, "stack_used", U)
    <3> HIDE DEF pw
    <3> QED BY <2>1, <2>2, LinkedFrame
  <2>4. broken = "stack_used" \/ nx[broken] \notin U \cup {"stack_used"}
    BY <1>6, <1>11, <1>12, <1>13, <1>14
  <2>5. broken \notin U /\ elem \notin U
    BY <1>5, <1>6, <1>13
  <2>6. Linked([nx EXCEPT ![broken] = elem], pv, "stack_used", IF broken = "stack_used" THEN U \cup {elem} ELSE U)
    BY <1>13, <1>14, <2>3, <2>4, <2>5, FixedAdd
  <2> QED BY <1>10, <1>15, <2>6
<1>18. Linked(FixNext', FixPrev', "stack_cache", C2)
  <2>1. \A n \in C \cup {"stack_cache"} : nx[n] = next[n] /\ pw[n] = FixPrev[n]
    BY <1>1, <1>5, <1>13, <1>16
  <2>2. Linked(next, FixPrev, "stack_cache", C)
    BY <1>11
  <2> HIDE DEF nx, pv
  <2>3. Linked(nx, pw, "stack_cache", C)
    <3> HIDE DEF pw
    <3> QED BY <2>1, <2>2, LinkedFrame
  <2>4. broken = "stack_cache" \/ nx[broken] \notin C \cup {"stack_cache"}
    BY <1>6, <1>11, <1>12, <1>13, <1>14
  <2>5. broken \notin C /\ elem \notin C
    BY <1>5, <1>6, <1>13
  <2>6. Linked([nx EXCEPT ![broken] = elem], pv, "stack_cache", IF broken = "stack_cache" THEN C \cup {elem} ELSE C)
    BY <1>13, <1>14, <2>3, <2>4, <2>5, FixedAdd
  <2> QED BY <1>10, <1>15, <2>6
<1> HIDE DEF nx, pv, pw
<1>19. U2 \subseteq Block \ User /\ C2 \subseteq Block \ User /\ U2 \cap C2 = {}
  BY <1>1, <1>5, <1>6, <1>11
<1>20. Rings(FixNext, FixPrev, U2, C2, S)'
  BY <1>2, <1>17, <1>18, <1>19 DEF Rings
<1>21. TypeOK'
  BY <1>1, <1>2, <1>3, <1>4, <1>13 DEF TypeOK
<1>22. JobInv'
  BY <1>1, <1>2, <1>4 DEF JobInv, Idle
<1>23. UserClosed'
  BY <1>1, <1>3, <1>4, <1>5, <1>6, <1>13 DEF UserClosed
<1>24. /\ DeletingInv(U2, C2, S)' /\ DelInv' /\ TrimInv(C2)' /\ AddInv(U2, C2, S)' /\ RepairInv(U2, C2)'
       /\ PlaceInv(U2, C2, S)'
  BY <1>2, <1>4, <1>9 DEF DeletingInv, DelInv, TrimInv, AddInv, RepairInv, PlaceInv
<1>25. ThreadInv(U2, C2)' /\ MappedInv(U2, C2)'
  BY <1>1, <1>2, <1>4, <1>5 DEF ThreadInv, MappedInv, Limbo
<1>26. SizeInv(U2, C2)'
  BY <1>1, <1>2 DEF SizeInv
<1> QED BY <1>1, <1>19, <1>20, <1>21, <1>22, <1>23, <1>24, <1>25, <1>26 DEF Shape

(* The sizes of two disjoint sets of blocks add up, within the modulus. *)
LEMMA Sizes ==
  ASSUME NEW A \in SUBSET Block, NEW B \in SUBSET Block, A \cap B = {}
  PROVE  /\ Cardinality(A) \in Nat /\ Cardinality(B) \in Nat
         /\ Cardinality(A \cup B) = Cardinality(A) + Cardinality(B)
         /\ Cardinality(A) + Cardinality(B) < SizeMod /\ SizeMod \in Nat
<1>1. IsFiniteSet(Block) /\ SizeMod \in Nat /\ SizeMod > Cardinality(Block) + 1 /\ Cardinality(Block) \in Nat
  BY ForkReclaimAssumption, FS_CardinalityType
<1>2. IsFiniteSet(A) /\ IsFiniteSet(B) /\ A \cup B \subseteq Block
  BY <1>1, FS_Subset
<1>3. Cardinality(A) \in Nat /\ Cardinality(B) \in Nat /\ Cardinality({}) = 0
  BY <1>2, FS_CardinalityType, FS_EmptySet
<1>4. Cardinality(A \cup B) = Cardinality(A) + Cardinality(B)
  <2>1. Cardinality(A \cup B) = Cardinality(A) + Cardinality(B) - Cardinality(A \cap B)
    BY <1>2, FS_Union
  <2>2. A \cap B = {}
    OBVIOUS
  <2>3. Cardinality(A \cap B) = 0
    BY <1>3, <2>2, Zenon
  <2> QED BY <1>3, <2>1, <2>3
<1>5. Cardinality(A \cup B) <= Cardinality(Block)
  BY <1>1, <1>2, FS_Subset
<1> QED BY <1>1, <1>3, <1>4, <1>5

(* "Mark all stacks except the still running one as free." *)
LEMMA MarkStep ==
  ASSUME NEW U, NEW C, NEW S, Shape(U, C, S), mark_free
  PROVE  Shape(U, C, S)'
<1> USE NodeFacts
<1>1. /\ TypeOK /\ JobInv /\ UserClosed
      /\ U \subseteq Block \ User /\ C \subseteq Block \ User /\ S \subseteq User
      /\ Rings(FixNext, FixPrev, U, C, S)
      /\ ThreadInv(U, C) /\ MappedInv(U, C) /\ SizeInv(U, C)
  BY DEF Shape
<1>2. /\ UNCHANGED <<next, prev, in_flight_stack, mapped, live, job, pc, done, self, forks,
                     interrupted, lost, skewed>>
      /\ stage = "mark" /\ stage' = "splice" /\ e' = e
  BY DEF mark_free, pointers, change, history, e
<1>3. /\ tid' = [b \in Block |-> tid[b] /\ b \notin U \ {self}]
      /\ actsize' = (actsize + Cardinality(U \ {self})) % SizeMod
  BY <1>2, QuietWalks DEF mark_free
<1>4. pc = "no" /\ job = Idle /\ done = {}
  BY <1>1, <1>2 DEF JobInv
<1>5. ~ Deleting' /\ Target' = NULL
  BY <1>2, <1>4 DEF Deleting, Target
<1>6. FixNext' = next /\ FixPrev' = prev /\ FixNext = next /\ FixPrev = prev
  BY <1>2, <1>5, RawFix DEF FixNext, FixPrev
<1>7. Rings(FixNext, FixPrev, U, C, S)'
  BY <1>1, <1>2, <1>6 DEF Rings
<1>8. /\ Cardinality(C) \in Nat /\ Cardinality(U \ {self}) \in Nat /\ SizeMod \in Nat
      /\ Cardinality(C) + Cardinality(U \ {self}) < SizeMod
  <2>1. C \in SUBSET Block /\ U \ {self} \in SUBSET Block /\ C \cap (U \ {self}) = {}
    BY <1>1 DEF Rings
  <2> QED BY <2>1, Sizes
<1>9. actsize' \in 0 .. SizeMod - 1
  <2>1. actsize \in 0 .. SizeMod - 1
    BY <1>1 DEF TypeOK
  <2>2. \A z \in Nat : z % SizeMod \in 0 .. SizeMod - 1
    BY <1>8
  <2>3. actsize + Cardinality(U \ {self}) \in Nat
    BY <1>8, <2>1
  <2> QED BY <1>3, <2>2, <2>3
<1>10. TypeOK'
  <2>1. tid' \in [Block -> BOOLEAN]
    BY <1>1, <1>3 DEF TypeOK
  <2> QED BY <1>1, <1>2, <1>9, <2>1 DEF TypeOK
<1>11. JobInv'
  BY <1>1, <1>2, <1>4 DEF JobInv, Idle
<1>12. UserClosed'
  BY <1>1, <1>2 DEF UserClosed
<1>13. /\ DeletingInv(U, C, S)' /\ DelInv' /\ TrimInv(C)' /\ AddInv(U, C, S)' /\ RepairInv(U, C)'
       /\ PlaceInv(U, C, S)'
  BY <1>2, <1>4, <1>5 DEF DeletingInv, DelInv, TrimInv, AddInv, RepairInv, PlaceInv
<1>14. ThreadInv(U, C)'
  BY <1>1, <1>2, <1>3 DEF ThreadInv, TypeOK
<1>15. MappedInv(U, C)'
  BY <1>1, <1>2, <1>4 DEF MappedInv, Limbo
<1>16. SizeInv(U, C)'
  <2> SUFFICES ASSUME ~ skewed PROVE actsize' = Cardinality(C) + Cardinality(U \ {self})
    BY <1>2 DEF SizeInv
  <2>1. actsize = Cardinality(C)
    BY <1>1, <1>2 DEF SizeInv
  <2> QED BY <1>3, <1>8, <2>1
<1> QED BY <1>1, <1>7, <1>10, <1>11, <1>12, <1>13, <1>14, <1>15, <1>16 DEF Shape

(* list_splice: what was used is cached. *)
LEMMA SpliceStep ==
  ASSUME NEW U, NEW C, NEW S, Shape(U, C, S), splice, NEW C2, C2 = U \cup C
  PROVE  Shape({}, C2, S)'
<1> USE NodeFacts
<1>1. /\ TypeOK /\ JobInv /\ UserClosed
      /\ U \subseteq Block \ User /\ C \subseteq Block \ User /\ S \subseteq User
      /\ Rings(FixNext, FixPrev, U, C, S)
      /\ ThreadInv(U, C) /\ MappedInv(U, C) /\ SizeInv(U, C)
  BY DEF Shape
<1>2. /\ UNCHANGED <<in_flight_stack, actsize, tid, mapped, live, job, pc, done, self, forks,
                     interrupted, lost, skewed>>
      /\ stage = "splice" /\ stage' = "relist" /\ e' = e
  BY DEF splice, threads, change, history, e
<1>3. /\ pc = "no" /\ job = Idle /\ done = {} /\ next \in [Node -> Node] /\ prev \in [Node -> Node]
      /\ self # NULL
  BY <1>1, <1>2 DEF JobInv, TypeOK
<1>4. ~ Deleting' /\ Target' = NULL
  BY <1>2, <1>3 DEF Deleting, Target
<1>5. FixNext' = next' /\ FixPrev' = prev' /\ FixNext = next /\ FixPrev = prev
  BY <1>2, <1>4, RawFix DEF FixNext, FixPrev
<1>6. /\ Linked(next, prev, "stack_used", U) /\ Linked(next, prev, "stack_cache", C) /\ U \cap C = {}
  BY <1>1, <1>2, <1>5 DEF Rings
<1>7. /\ Linked(next', prev', "stack_cache", C2)
      /\ next' \in [Node -> Node] /\ prev' \in [Node -> Node] /\ UserClosed'
  <2>1. CASE next["stack_used"] = "stack_used"
    <3>1. next' = next /\ prev' = prev
      BY <2>1 DEF splice, pointers
    <3>2. U = {}
      BY <1>6, <2>1, LinkedNil
    <3> QED BY <1>1, <1>3, <1>6, <3>1, <3>2 DEF UserClosed
  <2>2. CASE next["stack_used"] # "stack_used"
    <3>1. /\ next' = [next EXCEPT ![prev["stack_used"]] = next["stack_cache"],
                                  !["stack_cache"] = next["stack_used"]]
          /\ prev' = [prev EXCEPT ![next["stack_used"]] = "stack_cache",
                                  ![next["stack_cache"]] = prev["stack_used"]]
      BY <2>2 DEF splice
    <3>2. /\ next["stack_used"] \in U /\ prev["stack_used"] \in U
          /\ next["stack_cache"] \in C \cup {"stack_cache"}
      BY <1>6, <2>2 DEF Linked
    <3>3. /\ next' \in [Node -> Node] /\ prev' \in [Node -> Node]
      BY <1>1, <1>3, <3>1, <3>2
    <3>4. UserClosed'
      BY <1>1, <1>3, <3>1, <3>2 DEF UserClosed
    <3>5. \A n \in U \cup C \cup {"stack_cache"} :
            /\ next'[n] = IF n = "stack_cache" THEN next["stack_used"]
                          ELSE IF n = prev["stack_used"] THEN next["stack_cache"] ELSE next[n]
            /\ prev'[n] = IF n = next["stack_used"] THEN "stack_cache"
                          ELSE IF n = next["stack_cache"] THEN prev["stack_used"] ELSE prev[n]
      BY <1>1, <1>3, <1>6, <3>1, <3>2
    <3>6. "stack_used" \notin U \cup C /\ "stack_cache" \notin U \cup C
      BY <1>1
    <3>7. Linked(next', prev', "stack_cache", U \cup C)
      BY <1>6, <2>2, <3>5, <3>6, LinkedSplice
    <3> QED BY <3>3, <3>4, <3>7
  <2> QED BY <2>1, <2>2
<1>8. C2 \subseteq Block \ User
  BY <1>1
<1>9. Rings(FixNext, FixPrev, {}, C2, S)'
  BY <1>2, <1>5, <1>7 DEF Rings
<1>10. TypeOK'
  BY <1>1, <1>2, <1>7 DEF TypeOK
<1>11. JobInv'
  BY <1>1, <1>2, <1>3 DEF JobInv, Idle
<1>12. /\ DeletingInv({}, C2, S)' /\ DelInv' /\ TrimInv(C2)' /\ AddInv({}, C2, S)' /\ RepairInv({}, C2)'
       /\ PlaceInv({}, C2, S)'
  BY <1>2, <1>3, <1>4 DEF DeletingInv, DelInv, TrimInv, AddInv, RepairInv, PlaceInv
<1>13. ThreadInv({}, C2)' /\ MappedInv({}, C2)'
  BY <1>1, <1>2, <1>3 DEF ThreadInv, MappedInv, Limbo
<1>14. SizeInv({}, C2)'
  <2>1. self \notin C
    BY <1>1, <1>2, <1>6 DEF ThreadInv
  <2>2. C2 \ {self} = C \cup (U \ {self})
    BY <2>1
  <2>3. C \in SUBSET Block /\ U \ {self} \in SUBSET Block /\ C \cap (U \ {self}) = {}
    BY <1>1, <1>6
  <2>4. Cardinality(C2 \ {self}) = Cardinality(C) + Cardinality(U \ {self})
    BY <2>2, <2>3, Sizes
  <2> QED BY <1>1, <1>2, <2>4 DEF SizeInv
<1> QED BY <1>1, <1>7, <1>8, <1>9, <1>10, <1>11, <1>12, <1>13, <1>14 DEF Shape

(* The lists of threads are initialised again, and the running thread is on  *)
(* one of them.                                                              *)
LEMMA RelistStep ==
  ASSUME NEW U, NEW C, NEW S, Shape(U, C, S), relist, NEW U2, NEW C2, NEW S2,
         U2 = {self} \ User, C2 = C \ {self}, S2 = {self} \cap User
  PROVE  Shape(U2, C2, S2)'
<1> USE NodeFacts
<1>1. /\ TypeOK /\ JobInv /\ UserClosed
      /\ U \subseteq Block \ User /\ C \subseteq Block \ User /\ S \subseteq User
      /\ Rings(FixNext, FixPrev, U, C, S)
      /\ ThreadInv(U, C) /\ MappedInv(U, C) /\ SizeInv(U, C)
  BY DEF Shape
<1>2. /\ UNCHANGED <<actsize, tid, live, mapped, job, pc, done, forks, skewed>>
      /\ stage = "relist" /\ stage' = "no" /\ self' = NULL /\ e' = e
      /\ in_flight_stack' = NULL /\ interrupted' = NULL
      /\ lost' = ((lost \cup {interrupted}) \cap mapped) \ Walk("stack_cache")'
  BY DEF relist, threads, change, e
<1>3. /\ pc = "no" /\ job = Idle /\ done = {} /\ next \in [Node -> Node] /\ prev \in [Node -> Node]
      /\ self # NULL /\ self \in Block /\ e = NULL /\ job.kind = "none"
  BY <1>1, <1>2 DEF JobInv, TypeOK, e, Idle
<1>4. ~ Deleting' /\ Target' = NULL
  BY <1>2, <1>3 DEF Deleting, Target
<1>5. FixNext' = next' /\ FixPrev' = prev' /\ FixNext = next /\ FixPrev = prev
  BY <1>2, <1>4, RawFix DEF FixNext, FixPrev
<1>6. Linked(next, prev, "stack_cache", C) /\ U = {} /\ "stack_cache" \notin C
  BY <1>1, <1>2, <1>5 DEF Rings
<1>7. self \in User \/ self \in C
  BY <1>1, <1>2 DEF ThreadInv
<1>8. /\ Linked(next', prev', "stack_cache", C2) /\ Linked(next', prev', "stack_used", U2)
      /\ Linked(next', prev', "stack_user", S2)
      /\ next' \in [Node -> Node] /\ prev' \in [Node -> Node] /\ UserClosed'
  <2>1. CASE self \in User
    <3>1. /\ next' = [next EXCEPT ![prev[self]] = next[self],
                         ![self] = "stack_user", !["stack_user"] = self, !["stack_used"] = "stack_used"]
          /\ prev' = [prev EXCEPT ![next[self]] = prev[self],
                         ![self] = "stack_user", !["stack_user"] = self, !["stack_used"] = "stack_used"]
      BY <2>1 DEF relist
    <3>2. next[self] \in User \cup {"stack_user"} /\ prev[self] \in User \cup {"stack_user"}
      BY <1>1, <2>1 DEF UserClosed
    <3>3. /\ next'["stack_used"] = "stack_used" /\ prev'["stack_used"] = "stack_used"
          /\ next'["stack_user"] = self /\ prev'["stack_user"] = self
          /\ next'[self] = "stack_user" /\ prev'[self] = "stack_user"
      BY <1>3, <3>1
    <3>4. \A n \in C \cup {"stack_cache"} : next'[n] = next[n] /\ prev'[n] = prev[n]
      BY <1>1, <1>3, <2>1, <3>1, <3>2
    <3>5. U2 = {} /\ C2 = C /\ S2 = {self}
      BY <1>1, <2>1
    <3>6. Linked(next', prev', "stack_cache", C2)
      BY <1>6, <3>4, <3>5, LinkedFrame
    <3>7. Linked(next', prev', "stack_used", U2)
      BY <3>3, <3>5, LinkedEmpty
    <3>8. Linked(next', prev', "stack_user", S2)
      BY <1>3, <3>3, <3>5, LinkedOne
    <3>9. next' \in [Node -> Node] /\ prev' \in [Node -> Node]
      BY <1>3, <3>1, <3>2
    <3>10. UserClosed'
      BY <1>1, <1>3, <2>1, <3>1, <3>2 DEF UserClosed
    <3> QED BY <3>6, <3>7, <3>8, <3>9, <3>10
  <2>2. CASE self \notin User
    <3>1. /\ next' = [next EXCEPT ![prev[self]] = next[self],
                         ![self] = "stack_used", !["stack_used"] = self, !["stack_user"] = "stack_user"]
          /\ prev' = [prev EXCEPT ![next[self]] = prev[self],
                         ![self] = "stack_used", !["stack_used"] = self, !["stack_user"] = "stack_user"]
      BY <2>2 DEF relist
    <3>2. self \in C /\ next[self] \in C \cup {"stack_cache"} /\ prev[self] \in C \cup {"stack_cache"}
      BY <1>6, <1>7, <2>2 DEF Linked
    <3>3. /\ next'["stack_user"] = "stack_user" /\ prev'["stack_user"] = "stack_user"
          /\ next'["stack_used"] = self /\ prev'["stack_used"] = self
          /\ next'[self] = "stack_used" /\ prev'[self] = "stack_used"
      BY <1>3, <3>1
    <3>4. \A n \in (C \ {self}) \cup {"stack_cache"} :
            /\ next'[n] = IF n = prev[self] THEN next[self] ELSE next[n]
            /\ prev'[n] = IF n = next[self] THEN prev[self] ELSE prev[n]
      BY <1>1, <1>3, <2>2, <3>1, <3>2
    <3>5. U2 = {self} /\ S2 = {}
      BY <2>2
    <3>6. Linked(next', prev', "stack_cache", C2)
      BY <1>6, <3>2, <3>4, LinkedDel
    <3>7. Linked(next', prev', "stack_used", U2)
      BY <1>3, <3>3, <3>5, LinkedOne
    <3>8. Linked(next', prev', "stack_user", S2)
      BY <3>3, <3>5, LinkedEmpty
    <3>9. next' \in [Node -> Node] /\ prev' \in [Node -> Node]
      BY <1>1, <1>3, <3>1, <3>2
    <3>10. UserClosed'
      BY <1>1, <1>3, <2>2, <3>1, <3>2 DEF UserClosed
    <3> QED BY <3>6, <3>7, <3>8, <3>9, <3>10
  <2> QED BY <2>1, <2>2
<1>9. Walk("stack_cache")' = C2
  BY <1>6, <1>8, WalkIs DEF Walk
<1>10. U2 \subseteq Block \ User /\ C2 \subseteq Block \ User /\ S2 \subseteq User /\ U2 \cap C2 = {}
  BY <1>1, <1>3
<1>11. Rings(FixNext, FixPrev, U2, C2, S2)'
  BY <1>2, <1>5, <1>8, <1>10 DEF Rings
<1>12. TypeOK'
  <2>1. lost' \subseteq Block
    BY <1>1, <1>2 DEF TypeOK
  <2> QED BY <1>1, <1>2, <1>8, <2>1 DEF TypeOK
<1>13. JobInv'
  BY <1>1, <1>2, <1>3 DEF JobInv, Idle
<1>14. /\ DeletingInv(U2, C2, S2)' /\ DelInv' /\ TrimInv(C2)' /\ AddInv(U2, C2, S2)' /\ RepairInv(U2, C2)'
       /\ PlaceInv(U2, C2, S2)'
  BY <1>2, <1>3, <1>4 DEF DeletingInv, DelInv, TrimInv, AddInv, RepairInv, PlaceInv
<1>15. ThreadInv(U2, C2)'
  BY <1>1, <1>2, <1>3 DEF ThreadInv
<1>16. MappedInv(U2, C2)'
  <2>1. /\ C \subseteq mapped \ lost /\ (mapped \ lost) \ {interrupted} \subseteq C /\ lost \subseteq mapped
        /\ self # interrupted /\ mapped \cap User = {}
    BY <1>1, <1>2, <1>6 DEF MappedInv, ThreadInv, TypeOK
  <2>2. lost' = ((lost \cup {interrupted}) \cap mapped) \ C2
    BY <1>2, <1>9
  <2>3. U2 \cup C2 = mapped \ lost'
    <3>1. CASE self \in User
      BY <1>1, <2>1, <2>2, <3>1
    <3>2. CASE self \in C
      BY <1>1, <2>1, <2>2, <3>2
    <3> QED BY <1>7, <3>1, <3>2
  <2>4. lost' \subseteq mapped /\ ~ Limbo'
    BY <1>2, <1>3, <2>2 DEF Limbo
  <2> QED BY <1>2, <2>3, <2>4 DEF MappedInv
<1>17. SizeInv(U2, C2)'
  <2>1. Cardinality(C2) \in Nat
    BY <1>10, ForkReclaimAssumption, FS_Subset, FS_CardinalityType
  <2> QED BY <1>1, <1>2, <1>3, <2>1 DEF SizeInv
<1> QED BY <1>8, <1>10, <1>11, <1>12, <1>13, <1>14, <1>15, <1>16, <1>17 DEF Shape

-----------------------------------------------------------------------------
(* At first only the initial thread is on a list. *)
LEMMA InitShape ==
  ASSUME Init
  PROVE  Shape({}, {}, {Main})
<1> USE NodeFacts
<1>1. /\ in_flight_stack = NULL /\ actsize = 0 /\ tid = [b \in Block |-> b = Main]
      /\ mapped = {} /\ live = {Main} /\ job = Idle /\ pc = "no" /\ done = {}
      /\ self = NULL /\ stage = "no" /\ forks = 0
      /\ interrupted = NULL /\ lost = {} /\ skewed = FALSE /\ e = NULL /\ job.kind = "none" /\ prev = next
  BY DEF Init, e, Idle
<1>2. next = [n \in Node |-> IF n = "stack_user" THEN Main ELSE IF n = Main THEN "stack_user" ELSE n]
  BY DEF Init
<1>3. /\ next \in [Node -> Node]
      /\ next["stack_used"] = "stack_used" /\ next["stack_cache"] = "stack_cache"
      /\ next["stack_user"] = Main /\ next[Main] = "stack_user"
  BY <1>2
<1>4. UserClosed
  BY <1>1, <1>2 DEF UserClosed
<1>5. ~ Deleting /\ Target = NULL
  BY <1>1 DEF Deleting, Target
<1>6. FixNext = next /\ FixPrev = next
  BY <1>1, <1>5 DEF FixNext, FixPrev
<1>7. Linked(next, next, "stack_used", {}) /\ Linked(next, next, "stack_cache", {})
  BY <1>3, LinkedEmpty
<1>8. Linked(next, next, "stack_user", {Main})
  BY <1>3, LinkedOne
<1>9. Rings(FixNext, FixPrev, {}, {}, {Main})
  BY <1>1, <1>6, <1>7, <1>8 DEF Rings
<1>10. TypeOK
  <2>1. job \in [kind : {"none", "get", "map", "user", "free", "drop", "trim"},
                by : Block \cup {NULL}, elem : Block \cup {NULL}]
    BY <1>1 DEF Idle
  <2>2. actsize \in 0 .. SizeMod - 1 /\ forks \in 0 .. MaxForks
    <3>1. Cardinality(Block) \in Nat /\ SizeMod \in Nat /\ SizeMod > Cardinality(Block) + 1 /\ MaxForks \in Nat
      BY ForkReclaimAssumption, FS_CardinalityType
    <3> QED BY <1>1, <3>1
  <2>3. tid \in [Block -> BOOLEAN] /\ skewed \in BOOLEAN
    BY <1>1
  <2> QED BY <1>1, <1>3, <2>1, <2>2, <2>3 DEF TypeOK
<1>11. JobInv
  BY <1>1 DEF JobInv
<1>12. /\ DeletingInv({}, {}, {Main}) /\ DelInv /\ TrimInv({}) /\ AddInv({}, {}, {Main}) /\ RepairInv({}, {})
       /\ PlaceInv({}, {}, {Main})
  BY <1>1, <1>5 DEF DeletingInv, DelInv, TrimInv, AddInv, RepairInv, PlaceInv
<1>13. ThreadInv({}, {}) /\ MappedInv({}, {})
  BY <1>1 DEF ThreadInv, MappedInv, Limbo
<1>14. SizeInv({}, {})
  BY <1>1, FS_EmptySet DEF SizeInv
<1> QED BY <1>4, <1>9, <1>10, <1>11, <1>12, <1>13, <1>14 DEF Shape

(* The sets a shape is about are those IInv looks for. *)
LEMMA ShapeIInv ==
  /\ \A U, C, S : Shape(U, C, S) => IInv
  /\ \A U, C, S : Shape(U, C, S)' => IInv'
<1>1. ASSUME NEW U, NEW C, NEW S, Shape(U, C, S) PROVE IInv
  <2>1. U \in SUBSET (Block \ User) /\ C \in SUBSET (Block \ User) /\ S \in SUBSET User
    BY <1>1 DEF Shape
  <2> QED BY <1>1, <2>1 DEF IInv
<1>2. ASSUME NEW U, NEW C, NEW S, Shape(U, C, S)' PROVE IInv'
  <2>1. U \in SUBSET (Block \ User) /\ C \in SUBSET (Block \ User) /\ S \in SUBSET User
    BY <1>2 DEF Shape
  <2> QED BY <1>2, <2>1 DEF IInv
<1> QED BY <1>1, <1>2

(* Each step of a change leads from lists to lists. *)
LEMMA ChangeSteps ==
  ASSUME NEW U, NEW C, NEW S, Shape(U, C, S), Step
  PROVE  IInv'
<1>1. CASE set_in_flight
  <2>1. CASE pc = "del_flight"
    <3>1. \E U2, C2, S2 : U2 = U \ {e} /\ C2 = C \ {e} /\ S2 = S \ {e}
      OBVIOUS
    <3>2. PICK U2, C2, S2 : U2 = U \ {e} /\ C2 = C \ {e} /\ S2 = S \ {e}
      BY <3>1
    <3>3. Shape(U2, C2, S2)'
      BY <1>1, <2>1, <3>2, SetDelStep
    <3> QED BY <3>3, ShapeIInv
  <2>2. CASE pc = "add_flight"
    BY <1>1, <2>2, SetAddStep, ShapeIInv
  <2> QED BY <1>1, <2>1, <2>2 DEF set_in_flight
<1>2. CASE add_link
  <2>1. \E U2, C2, S2 : /\ U2 = IF head = "stack_used" THEN U \cup {e} ELSE U
                        /\ C2 = IF head = "stack_cache" THEN C \cup {e} ELSE C
                        /\ S2 = IF head = "stack_user" THEN S \cup {e} ELSE S
    OBVIOUS
  <2>2. PICK U2, C2, S2 : /\ U2 = IF head = "stack_used" THEN U \cup {e} ELSE U
                          /\ C2 = IF head = "stack_cache" THEN C \cup {e} ELSE C
                          /\ S2 = IF head = "stack_user" THEN S \cup {e} ELSE S
    BY <2>1
  <2>3. Shape(U2, C2, S2)'
    BY <1>2, <2>2, AddLinkStep
  <2> QED BY <2>3, ShapeIInv
<1>3. CASE \E i \in 1 .. 3 : del_store(i) \/ add_store(i)
  <2>1. PICK i \in 1 .. 3 : del_store(i) \/ add_store(i)
    BY <1>3
  <2>2. Shape(U, C, S)'
    BY <2>1, DelStoreStep, AddStoreStep
  <2> QED BY <2>2, ShapeIInv
<1>4. CASE del_done
  BY <1>4, DelDoneStep, ShapeIInv
<1>5. CASE add_done
  BY <1>5, AddDoneStep, ShapeIInv
<1>6. CASE account
  BY <1>6, AccountStep, ShapeIInv
<1>7. CASE unmap
  BY <1>7, UnmapStep, ShapeIInv
<1>8. CASE finish
  BY <1>8, FinishStep, ShapeIInv
<1> QED BY <1>1, <1>2, <1>3, <1>4, <1>5, <1>6, <1>7, <1>8 DEF Step

(* And so does each step of __reclaim_stacks in the child. *)
LEMMA ChildSteps ==
  ASSUME NEW U, NEW C, NEW S, Shape(U, C, S), repair \/ mark_free \/ splice \/ relist
  PROVE  IInv'
<1>1. CASE repair
  <2>1. CASE in_flight_stack # NULL /\ in_flight_stack.add /\ broken # NULL
    <3>1. \E U2, C2 : /\ U2 = IF broken = "stack_used" THEN U \cup {elem} ELSE U
                      /\ C2 = IF broken = "stack_cache" THEN C \cup {elem} ELSE C
      OBVIOUS
    <3>2. PICK U2, C2 : /\ U2 = IF broken = "stack_used" THEN U \cup {elem} ELSE U
                        /\ C2 = IF broken = "stack_cache" THEN C \cup {elem} ELSE C
      BY <3>1
    <3>3. Shape(U2, C2, S)'
      BY <1>1, <2>1, <3>2, RepairAdd
    <3> QED BY <3>3, ShapeIInv
  <2>2. CASE ~ (in_flight_stack # NULL /\ in_flight_stack.add /\ broken # NULL)
    <3>1. in_flight_stack # NULL /\ in_flight_stack.add => broken = NULL
      BY <2>2
    <3>2. Shape(U, C, S)'
      BY <1>1, <3>1, RepairDel
    <3> QED BY <3>2, ShapeIInv
  <2> QED BY <2>1, <2>2
<1>2. CASE mark_free
  BY <1>2, MarkStep, ShapeIInv
<1>3. CASE splice
  <2>1. PICK C2 : C2 = U \cup C
    OBVIOUS
  <2>2. Shape({}, C2, S)'
    BY <1>3, <2>1, SpliceStep
  <2> QED BY <2>2, ShapeIInv
<1>4. CASE relist
  <2>1. \E U2, C2, S2 : U2 = {self} \ User /\ C2 = C \ {self} /\ S2 = {self} \cap User
    OBVIOUS
  <2>2. PICK U2, C2, S2 : U2 = {self} \ User /\ C2 = C \ {self} /\ S2 = {self} \cap User
    BY <2>1
  <2>3. Shape(U2, C2, S2)'
    BY <1>4, <2>2, RelistStep
  <2> QED BY <2>3, ShapeIInv
<1> QED BY <1>1, <1>2, <1>3, <1>4

(* IInv is inductive. *)
LEMMA NextIInv ==
  ASSUME IInv, [Next]_vars
  PROVE  IInv'
<1>1. PICK U \in SUBSET (Block \ User), C \in SUBSET (Block \ User), S \in SUBSET User : Shape(U, C, S)
  BY DEF IInv
<1>2. CASE \E m, b \in Block : Change(m, b)
  <2>1. PICK m \in Block, b \in Block : Change(m, b)
    BY <1>2
  <2>2. Shape(U, C, S)'
    BY <1>1, <2>1, ChangeStep
  <2> QED BY <2>2, ShapeIInv
<1>3. CASE Step
  BY <1>1, <1>3, ChangeSteps
<1>4. CASE \E b \in Block : exit(b) \/ fork(b)
  <2>1. PICK b \in Block : exit(b) \/ fork(b)
    BY <1>4
  <2>2. Shape(U, C, S)'
    BY <1>1, <2>1, ExitStep, ForkStep
  <2> QED BY <2>2, ShapeIInv
<1>5. CASE repair \/ mark_free \/ splice \/ relist
  BY <1>1, <1>5, ChildSteps
<1>6. CASE UNCHANGED vars
  <2>1. UNCHANGED <<next, prev, in_flight_stack, actsize, tid, mapped, live, job, pc, done, self,
                    stage, forks, interrupted, lost, skewed>>
    BY <1>6 DEF vars
  <2>2. e' = e /\ elem' = elem /\ head' = head /\ broken' = broken /\ Deleting' = Deleting /\ Limbo' = Limbo
    BY <2>1 DEF e, elem, head, broken, Deleting, Limbo
  <2>3. Target' = Target
    BY <2>1, <2>2 DEF Target
  <2>4. FixNext' = FixNext /\ FixPrev' = FixPrev
    BY <2>1, <2>2, <2>3 DEF FixNext, FixPrev
  <2>5. TypeOK' /\ JobInv' /\ UserClosed' /\ Rings(FixNext, FixPrev, U, C, S)'
    BY <1>1, <2>1, <2>2, <2>4 DEF Shape, TypeOK, JobInv, UserClosed, Rings
  <2>6. /\ DeletingInv(U, C, S)' /\ DelInv' /\ TrimInv(C)' /\ AddInv(U, C, S)' /\ RepairInv(U, C)'
        /\ PlaceInv(U, C, S)' /\ ThreadInv(U, C)' /\ MappedInv(U, C)' /\ SizeInv(U, C)'
    BY <1>1, <2>1, <2>2 DEF Shape, DeletingInv, Near, DelInv, TrimInv, AddInv, RepairInv, PlaceInv,
       ThreadInv, MappedInv, SizeInv
  <2>7. Shape(U, C, S)'
    BY <1>1, <2>5, <2>6 DEF Shape
  <2> QED BY <2>7, ShapeIInv
<1> QED BY <1>2, <1>3, <1>4, <1>5, <1>6 DEF Next

(* IInv holds in every state: whatever store the forks come before, there    *)
(* are lists that the pointers, completed, make up, and they have the stacks *)
(* they should have.                                                         *)
THEOREM Invariance == Spec => []IInv
<1>1. Init => IInv
  BY InitShape, ShapeIInv
<1>2. IInv /\ [Next]_vars => IInv'
  BY NextIInv
<1> QED BY <1>1, <1>2, PTL DEF Spec

(* The pointers lead to nodes and the size stays within its word. *)
THEOREM TypeCorrect == Spec => []TypeOK
<1>1. IInv => TypeOK
  BY DEF IInv, Shape
<1> QED BY <1>1, Invariance, PTL

(* The assertion of __reclaim_stacks holds, and the lists that it and every  *)
(* change between two forks go through are rings.                            *)
THEOREM Sound == Spec => []ListsSound
<1>1. ASSUME IInv PROVE ListsSound
  <2> USE NodeFacts
  <2>1. PICK U \in SUBSET (Block \ User), C \in SUBSET (Block \ User), S \in SUBSET User : Shape(U, C, S)
    BY <1>1 DEF IInv
  <2>2. stage = "repair" /\ in_flight_stack # NULL =>
          (in_flight_stack.add /\ broken # NULL => prev[next[broken]] = in_flight_stack.elem)
    BY <2>1 DEF Shape, RepairInv, elem
  <2>3. ASSUME Quiet \/ stage = "mark" PROVE Ring("stack_used") /\ Ring("stack_cache")
    <3>1. /\ Walk("stack_used") = U /\ Walk("stack_cache") = C
          /\ Linked(next, prev, "stack_used", U) /\ Linked(next, prev, "stack_cache", C)
      BY <2>1, <2>3, QuietWalks DEF Quiet
    <3> QED BY <3>1 DEF Ring, Linked
  <2>4. ASSUME Quiet PROVE Ring("stack_user")
    <3>1. Walk("stack_user") = S /\ Linked(next, prev, "stack_user", S)
      BY <2>1, <2>4, QuietWalks DEF Quiet
    <3> QED BY <3>1 DEF Ring, Linked
  <2> QED BY <2>2, <2>3, <2>4 DEF ListsSound
<1> QED BY <1>1, Invariance, PTL

(* No fork loses a stack but the one that was between two lists, none is on  *)
(* two, and no thread runs on a stack that counts as free.                   *)
THEOREM Kept == Spec => []StacksKept
<1>1. ASSUME IInv PROVE StacksKept
  <2>1. PICK U \in SUBSET (Block \ User), C \in SUBSET (Block \ User), S \in SUBSET User : Shape(U, C, S)
    BY <1>1 DEF IInv
  <2> SUFFICES ASSUME Quiet PROVE /\ Walk("stack_used") \cap Walk("stack_cache") = {}
                                  /\ Walk("stack_used") \cup Walk("stack_cache") = mapped \ lost
                                  /\ \A b \in live : tid[b]
    BY DEF StacksKept
  <2>2. Walk("stack_used") = U /\ Walk("stack_cache") = C
    BY <2>1, QuietWalks DEF Quiet
  <2>3. U \cap C = {} /\ U \cup C = mapped \ lost
    BY <2>1 DEF Shape, Rings, MappedInv, Limbo, Quiet
  <2>4. \A b \in live : tid[b]
    BY <2>1 DEF Shape, ThreadInv
  <2> QED BY <2>2, <2>3, <2>4
<1> QED BY <1>1, Invariance, PTL

(* The size of the cache is right between two changes, in the child of any   *)
(* number of forks that came at no wrong moment, without wrapping around.    *)
THEOREM Accounted == Spec => []CacheAccounted
<1>1. ASSUME IInv PROVE CacheAccounted
  <2>1. PICK U \in SUBSET (Block \ User), C \in SUBSET (Block \ User), S \in SUBSET User : Shape(U, C, S)
    BY <1>1 DEF IInv
  <2> SUFFICES ASSUME Quiet, ~ skewed PROVE actsize = Cardinality(Walk("stack_cache"))
    BY DEF CacheAccounted
  <2>2. Walk("stack_cache") = C
    BY <2>1, QuietWalks DEF Quiet
  <2>3. C \subseteq Block
    OBVIOUS
  <2>4. Cardinality(C) \in Nat
    BY <2>3, ForkReclaimAssumption, FS_Subset, FS_CardinalityType
  <2>5. job.kind = "none"
    BY <2>1 DEF Shape, JobInv, Idle, Quiet
  <2> QED BY <2>1, <2>2, <2>4, <2>5 DEF Shape, SizeInv, Quiet
<1> QED BY <1>1, Invariance, PTL
=============================================================================
