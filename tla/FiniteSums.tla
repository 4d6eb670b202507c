------------------------------ MODULE FiniteSums ------------------------------
(***************************************************************************)
(* Sums over finite sets, as SumFunctionOnSet of the module Functions, and *)
(* over sequences that lose an entry: what the proofs of several           *)
(* components need of them.                                                *)
(***************************************************************************)
EXTENDS Integers, SequencesExt, SequenceTheorems, FiniteSetTheorems, WellFoundedInduction, TLAPS

\* A set of numbers that is not empty has its least one.
LEMMA LeastNumber ==
    ASSUME NEW S \in SUBSET Nat, S # {}
    PROVE  \E x \in S : \A y \in S : x <= y
<1>1. OpToRel(<, Nat) = {p \in Nat \X Nat : p[1] < p[2]}
  BY DEF OpToRel
<1>2. PICK x \in S : \A y \in S : <<y, x>> \notin {p \in Nat \X Nat : p[1] < p[2]}
  <2>1. IsWellFoundedOn({p \in Nat \X Nat : p[1] < p[2]}, Nat)
    BY <1>1, NatLessThanWellFounded
  <2>2. QED
    BY <2>1, WFMin
<1>3. ASSUME NEW y \in S, ~(x <= y) PROVE FALSE
  <2>1. <<y, x>> \in {p \in Nat \X Nat : p[1] < p[2]}
    BY <1>3
  <2>2. QED
    BY <1>2, <2>1
<1>4. QED
  BY <1>3

\* Among finite sets there is one that has no part among them: induction over finite sets.
LEMMA LeastSet ==
    ASSUME NEW F, F # {}, \A t \in F : IsFiniteSet(t)
    PROVE  \E t \in F : \A x \in t : t \ {x} \notin F
<1> DEFINE N == {Cardinality(t) : t \in F}
<1>1. N \in SUBSET Nat /\ N # {}
  BY FS_CardinalityType
<1>2. PICK n \in N : \A m \in N : n <= m
  BY <1>1, LeastNumber
<1>3. PICK t \in F : n = Cardinality(t)
  BY <1>2
<1>4. ASSUME NEW x \in t, t \ {x} \in F PROVE FALSE
  <2>1. Cardinality(t \ {x}) = Cardinality(t) - 1 /\ Cardinality(t) \in Nat
    BY FS_RemoveElement, FS_CardinalityType
  <2>2. n <= Cardinality(t \ {x})
    BY <1>2, <1>4
  <2>3. QED
    BY <1>3, <2>1, <2>2
<1>5. QED
  BY <1>4

-----------------------------------------------------------------------------
\* g is the recursive function that the sum of w over D is defined by.
Adds(w, D, g) ==
    g = [t \in SUBSET D |-> IF t = {} THEN 0
                            ELSE w[CHOOSE x \in t : TRUE] + g[t \ {CHOOSE x \in t : TRUE}]]

LEMMA SumAdds ==
    ASSUME NEW w, NEW D
    PROVE  SumFunctionOnSet(w, D) = (CHOOSE g : Adds(w, D, g))[D]
BY DEF SumFunctionOnSet, FoldFunctionOnSet, MapThenFoldSet, Adds

\* Two of them agree where both are defined.
LEMMA AddsAgree ==
    ASSUME NEW w, NEW D, NEW E, NEW g, NEW h, Adds(w, D, g), Adds(w, E, h),
           NEW S \in SUBSET (D \cap E), IsFiniteSet(S)
    PROVE  g[S] = h[S]
<1> DEFINE F == {t \in SUBSET S : g[t] # h[t]}
<1>1. SUFFICES ASSUME F # {} PROVE FALSE
  OBVIOUS
<1>2. PICK t \in F : \A x \in t : t \ {x} \notin F
  <2>1. \A t \in F : IsFiniteSet(t)
    BY FS_Subset
  <2>2. QED
    BY <1>1, <2>1, LeastSet
<1>3. t \in SUBSET D /\ t \in SUBSET E /\ t \in SUBSET S /\ g[t] # h[t]
  OBVIOUS
<1> DEFINE c == CHOOSE x \in t : TRUE
<1>4. /\ g[t] = IF t = {} THEN 0 ELSE w[c] + g[t \ {c}]
      /\ h[t] = IF t = {} THEN 0 ELSE w[c] + h[t \ {c}]
  BY <1>3 DEF Adds
<1>5. t # {}
  BY <1>3, <1>4
<1>6. c \in t
  BY <1>5
<1>7. g[t \ {c}] = h[t \ {c}]
  BY <1>2, <1>3, <1>6
<1>8. QED
  BY <1>3, <1>4, <1>7

\* There is one for every finite set.
LEMMA AddsExists ==
    ASSUME NEW w, NEW S, IsFiniteSet(S)
    PROVE  \E g : Adds(w, S, g)
<1> DEFINE F == {t \in SUBSET S : ~\E g : Adds(w, t, g)}
<1>1. SUFFICES ASSUME F # {} PROVE FALSE
  OBVIOUS
<1>2. PICK D \in F : \A x \in D : D \ {x} \notin F
  <2>1. \A t \in F : IsFiniteSet(t)
    BY FS_Subset
  <2>2. QED
    BY <1>1, <2>1, LeastSet
<1> DEFINE of(t) == (CHOOSE g : Adds(w, t, g))[t]
           c(t) == CHOOSE x \in t : TRUE
           all == [t \in SUBSET D |-> IF t = {} THEN 0 ELSE w[c(t)] + of(t \ {c(t)})]
<1>3. ASSUME NEW t \in SUBSET D, t # {}
      PROVE  all[t \ {c(t)}] = of(t \ {c(t)})
  <2> DEFINE u == t \ {c(t)}
             h == CHOOSE g : Adds(w, u, g)
  <2>1. c(t) \in t /\ c(t) \in D /\ u \in SUBSET (D \ {c(t)}) /\ D \in SUBSET S
    BY <1>3
  <2>2. \A v \in SUBSET (D \ {c(t)}) : \E g : Adds(w, v, g)
    <3>1. PICK p : Adds(w, D \ {c(t)}, p)
      BY <1>2, <2>1
    <3> SUFFICES ASSUME NEW v \in SUBSET (D \ {c(t)}) PROVE \E g : Adds(w, v, g)
      OBVIOUS
    <3> DEFINE q == [s \in SUBSET v |-> p[s]]
    <3>2. ASSUME NEW s \in SUBSET v
          PROVE  q[s] = IF s = {} THEN 0 ELSE w[c(s)] + q[s \ {c(s)}]
      <4>1. s \in SUBSET (D \ {c(t)}) /\ s \ {c(s)} \in SUBSET v
        OBVIOUS
      <4>2. p[s] = IF s = {} THEN 0 ELSE w[c(s)] + p[s \ {c(s)}]
        BY <3>1, <4>1 DEF Adds
      <4>3. QED
        BY <4>1, <4>2
    <3>3. q = [s \in SUBSET v |-> IF s = {} THEN 0 ELSE w[c(s)] + q[s \ {c(s)}]]
      BY <3>2
    <3>4. Adds(w, v, q)
      BY <3>3 DEF Adds
    <3>5. QED
      BY <3>4
  <2>3. Adds(w, u, h)
    BY <2>1, <2>2
  <2>4. h[u] = IF u = {} THEN 0 ELSE w[c(u)] + h[u \ {c(u)}]
    BY <2>3 DEF Adds
  <2>5. h[u \ {c(u)}] = of(u \ {c(u)})
    <3>1. Adds(w, u \ {c(u)}, CHOOSE g : Adds(w, u \ {c(u)}, g))
      BY <2>1, <2>2
    <3>2. u \ {c(u)} \in SUBSET (u \cap (u \ {c(u)})) /\ IsFiniteSet(u \ {c(u)})
      <4>1. u \ {c(u)} \in SUBSET S
        BY <2>1
      <4>2. QED
        BY <4>1, FS_Subset
    <3> DEFINE r == CHOOSE g : Adds(w, u \ {c(u)}, g)
    <3>3. h[u \ {c(u)}] = r[u \ {c(u)}]
      <4> HIDE DEF h, r, u, c
      <4>1. QED
        BY <2>3, <3>1, <3>2, AddsAgree DEF r
    <3>4. QED
      BY <3>3, Zenon
  <2>6. all[u] = IF u = {} THEN 0 ELSE w[c(u)] + of(u \ {c(u)})
    BY <2>1
  <2>7. QED
    BY <2>4, <2>5, <2>6
<1>4. \A t \in SUBSET D : all[t] = IF t = {} THEN 0 ELSE w[c(t)] + all[t \ {c(t)}]
  <2> SUFFICES ASSUME NEW t \in SUBSET D
               PROVE  all[t] = IF t = {} THEN 0 ELSE w[c(t)] + all[t \ {c(t)}]
    OBVIOUS
  <2>1. all[t] = IF t = {} THEN 0 ELSE w[c(t)] + of(t \ {c(t)})
    BY Zenon
  <2>2. t # {} => all[t \ {c(t)}] = of(t \ {c(t)})
    BY <1>3
  <2> HIDE DEF all, of, c
  <2>3. QED
    BY <2>1, <2>2
<1>5. Adds(w, D, all)
  <2>1. all = [t \in SUBSET D |-> all[t]]
    OBVIOUS
  <2> HIDE DEF all
  <2>2. all = [t \in SUBSET D |-> IF t = {} THEN 0 ELSE w[c(t)] + all[t \ {c(t)}]]
    BY <1>4, <2>1
  <2>3. QED
    BY <2>2 DEF Adds
<1>6. QED
  BY <1>5

\* A sum is that of its elements in the order in which they are chosen.
LEMMA SumUnfolds ==
    ASSUME NEW w, NEW S, IsFiniteSet(S)
    PROVE  SumFunctionOnSet(w, S) =
             IF S = {} THEN 0
             ELSE w[CHOOSE x \in S : TRUE] + SumFunctionOnSet(w, S \ {CHOOSE x \in S : TRUE})
<1> DEFINE g == CHOOSE h : Adds(w, S, h)
           c == CHOOSE x \in S : TRUE
           r == CHOOSE h : Adds(w, S \ {c}, h)
<1>1. Adds(w, S, g)
  BY AddsExists
<1>2. IsFiniteSet(S \ {c})
  BY FS_RemoveElement
<1>3. Adds(w, S \ {c}, r)
  BY <1>2, AddsExists
<1>4. g[S \ {c}] = r[S \ {c}]
  BY <1>1, <1>2, <1>3, AddsAgree
<1>5. g[S] = IF S = {} THEN 0 ELSE w[c] + g[S \ {c}]
  BY <1>1 DEF Adds
<1>6. SumFunctionOnSet(w, S) = g[S] /\ SumFunctionOnSet(w, S \ {c}) = r[S \ {c}]
  BY SumAdds
<1>7. QED
  BY <1>4, <1>5, <1>6

-----------------------------------------------------------------------------
LEMMA SumOfNone == \A w : SumFunctionOnSet(w, {}) = 0
BY SumUnfolds, FS_EmptySet

\* A sum of integers is an integer.
LEMMA SumIsInt ==
    ASSUME NEW S, IsFiniteSet(S), NEW w, \A x \in S : w[x] \in Int
    PROVE  SumFunctionOnSet(w, S) \in Int
<1> DEFINE F == {t \in SUBSET S : SumFunctionOnSet(w, t) \notin Int}
<1>1. SUFFICES ASSUME F # {} PROVE FALSE
  OBVIOUS
<1>2. \A t \in F : IsFiniteSet(t)
  BY FS_Subset
<1>3. PICK t \in F : \A x \in t : t \ {x} \notin F
  BY <1>1, <1>2, LeastSet
<1> DEFINE c == CHOOSE x \in t : TRUE
<1>4. SumFunctionOnSet(w, t) = IF t = {} THEN 0 ELSE w[c] + SumFunctionOnSet(w, t \ {c})
  BY <1>2, SumUnfolds
<1>5. CASE t = {}
  BY <1>4, <1>5
<1>6. CASE t # {}
  <2>1. c \in t /\ t \ {c} \in SUBSET S
    BY <1>6
  <2>2. SumFunctionOnSet(w, t \ {c}) \in Int /\ w[c] \in Int
    BY <1>3, <2>1
  <2>3. QED
    BY <1>4, <1>6, <2>2
<1>7. QED
  BY <1>5, <1>6

\* Any element may be taken first.
LEMMA SumTakes ==
    ASSUME NEW S, IsFiniteSet(S), NEW w, \A x \in S : w[x] \in Int, NEW a \in S
    PROVE  SumFunctionOnSet(w, S) = w[a] + SumFunctionOnSet(w, S \ {a})
<1> DEFINE sum(t) == SumFunctionOnSet(w, t)
           F == {t \in SUBSET S : \E x \in t : sum(t) # w[x] + sum(t \ {x})}
<1>1. SUFFICES ASSUME F # {} PROVE FALSE
  OBVIOUS
<1>2. \A t \in SUBSET S : IsFiniteSet(t) /\ sum(t) \in Int
  <2> SUFFICES ASSUME NEW t \in SUBSET S PROVE IsFiniteSet(t) /\ sum(t) \in Int
    OBVIOUS
  <2>1. IsFiniteSet(t)
    BY FS_Subset
  <2>2. QED
    BY <2>1, SumIsInt
<1>3. PICK t \in F : \A x \in t : t \ {x} \notin F
  BY <1>1, <1>2, LeastSet
<1>4. PICK x \in t : sum(t) # w[x] + sum(t \ {x})
  OBVIOUS
<1> DEFINE c == CHOOSE y \in t : TRUE
<1>5. c \in t /\ sum(t) = w[c] + sum(t \ {c})
  BY <1>2, <1>4, SumUnfolds
<1>6. c # x
  BY <1>4, <1>5
<1>7. /\ t \ {c} \in SUBSET S /\ t \ {x} \in SUBSET S /\ (t \ {c}) \ {x} \in SUBSET S
      /\ (t \ {c}) \ {x} = (t \ {x}) \ {c}
  BY <1>3
<1>8. sum(t \ {c}) = w[x] + sum((t \ {c}) \ {x})
  BY <1>3, <1>4, <1>5, <1>6, <1>7
<1>9. sum(t \ {x}) = w[c] + sum((t \ {x}) \ {c})
  BY <1>3, <1>4, <1>5, <1>6, <1>7
<1>10. w[x] \in Int /\ w[c] \in Int /\ sum((t \ {c}) \ {x}) \in Int
  BY <1>2, <1>4, <1>5, <1>7
<1> HIDE DEF sum, c
<1>11. sum(t) = w[c] + (w[x] + sum((t \ {c}) \ {x}))
  BY <1>5, <1>8, Zenon
<1>12. sum(t \ {x}) = w[c] + sum((t \ {c}) \ {x})
  BY <1>7, <1>9, Zenon
<1>13. QED
  BY <1>4, <1>10, <1>11, <1>12

\* Natural numbers add up to one.
LEMMA SumIsNat ==
    ASSUME NEW S, IsFiniteSet(S), NEW w, \A x \in S : w[x] \in Nat
    PROVE  SumFunctionOnSet(w, S) \in Nat
<1> DEFINE F == {t \in SUBSET S : SumFunctionOnSet(w, t) \notin Nat}
<1>1. SUFFICES ASSUME F # {} PROVE FALSE
  OBVIOUS
<1>2. \A t \in F : IsFiniteSet(t)
  BY FS_Subset
<1>3. PICK t \in F : \A x \in t : t \ {x} \notin F
  BY <1>1, <1>2, LeastSet
<1>4. CASE t = {}
  BY <1>3, <1>4, SumOfNone
<1>5. CASE t # {}
  <2>1. PICK x \in t : TRUE
    BY <1>5
  <2>2. SumFunctionOnSet(w, t \ {x}) \in Nat /\ w[x] \in Nat
    BY <1>3
  <2>3. SumFunctionOnSet(w, t) = w[x] + SumFunctionOnSet(w, t \ {x})
    BY <1>2, SumTakes
  <2>4. QED
    BY <1>3, <2>2, <2>3
<1>6. QED
  BY <1>4, <1>5

\* Adding an element adds what it weighs.
LEMMA SumGrows ==
    ASSUME NEW S, IsFiniteSet(S), NEW a, a \notin S, NEW w, \A x \in S \cup {a} : w[x] \in Int
    PROVE  SumFunctionOnSet(w, S \cup {a}) = SumFunctionOnSet(w, S) + w[a]
<1>1. IsFiniteSet(S \cup {a}) /\ (S \cup {a}) \ {a} = S
  BY FS_AddElement
<1>2. SumFunctionOnSet(w, S \cup {a}) = w[a] + SumFunctionOnSet(w, (S \cup {a}) \ {a})
  BY <1>1, SumTakes
<1>3. SumFunctionOnSet(w, S) \in Int /\ w[a] \in Int
  BY SumIsInt
<1>4. SumFunctionOnSet(w, S \cup {a}) = w[a] + SumFunctionOnSet(w, S)
  BY <1>1, <1>2, Zenon
<1>5. QED
  BY <1>3, <1>4

\* b takes S one to one to T, and what weighs v in S to what weighs as much in T.
Renames(b, S, T, v, w) ==
    /\ \A x, y \in S : b[x] = b[y] => x = y
    /\ \A x \in S : b[x] \in T /\ v[x] = w[b[x]] /\ v[x] \in Int
    /\ \A z \in T : \E x \in S : b[x] = z

\* What is renamed one to one sums to the same.
LEMMA SumRenamed ==
    ASSUME NEW S, IsFiniteSet(S), NEW T, NEW v, NEW w, \E b : Renames(b, S, T, v, w)
    PROVE  SumFunctionOnSet(v, S) = SumFunctionOnSet(w, T)
<1> PICK b : Renames(b, S, T, v, w)
  OBVIOUS
<1> USE DEF Renames
<1> DEFINE to(t) == {b[x] : x \in t}
           F == {t \in SUBSET S : SumFunctionOnSet(v, t) # SumFunctionOnSet(w, to(t))}
<1>0. T = to(S)
  OBVIOUS
<1>1. SUFFICES ASSUME F # {} PROVE FALSE
  BY <1>0
<1>2. \A t \in F : IsFiniteSet(t)
  BY FS_Subset
<1>3. PICK t \in F : \A x \in t : t \ {x} \notin F
  BY <1>1, <1>2, LeastSet
<1>4. CASE t = {}
  <2>1. to(t) = {}
    BY <1>4
  <2>2. QED
    BY <1>3, <1>4, <2>1, SumOfNone
<1>5. CASE t # {}
  <2>1. PICK x \in t : TRUE
    BY <1>5
  <2>2. IsFiniteSet(to(t))
    <3>1. [y \in t |-> b[y]] \in Surjection(t, to(t))
      BY DEF Surjection
    <3>2. QED
      BY <1>2, <3>1, FS_Surjection DEF ExistsSurjection
  <2>3. to(t) \ {b[x]} = to(t \ {x})
    OBVIOUS
  <2>4. SumFunctionOnSet(v, t) = v[x] + SumFunctionOnSet(v, t \ {x})
    <3>1. \A y \in t : v[y] \in Int
      OBVIOUS
    <3>2. IsFiniteSet(t) /\ x \in t
      BY <1>2
    <3>3. QED
      BY ONLY <3>1, <3>2, SumTakes
  <2>5. \A y \in to(t) : w[y] \in Int
    OBVIOUS
  <2>6. SumFunctionOnSet(w, to(t)) = w[b[x]] + SumFunctionOnSet(w, to(t) \ {b[x]})
    BY <2>2, <2>5, SumTakes
  <2>7. SumFunctionOnSet(v, t \ {x}) = SumFunctionOnSet(w, to(t \ {x}))
    BY <1>3
  <2>8. QED
    BY <1>3, <2>3, <2>4, <2>6, <2>7
<1>6. QED
  BY <1>4, <1>5

\* A sum asks for nothing but the elements it adds.
LEMMA SumSame ==
    ASSUME NEW S, IsFiniteSet(S), NEW v, NEW w, \A x \in S : v[x] = w[x] /\ v[x] \in Int
    PROVE  SumFunctionOnSet(v, S) = SumFunctionOnSet(w, S)
<1> DEFINE b == [x \in S |-> x]
<1>1. Renames(b, S, S, v, w)
  BY DEF Renames
<1>2. QED
  BY <1>1, SumRenamed

-----------------------------------------------------------------------------
\* t is s without its entry k.
Lacks(t, s, k) ==
    \E n \in Nat : /\ DOMAIN s = 1..(n + 1) /\ DOMAIN t = 1..n /\ k \in 1..(n + 1)
                  /\ \A j \in 1..n : t[j] = s[IF j < k THEN j ELSE j + 1]

\* A sequence that lacks the entry k of another sums to that much less.
LEMMA SumLacks ==
    ASSUME NEW w, NEW v, NEW k, Lacks(v, w, k), \A i \in DOMAIN w : w[i] \in Int
    PROVE  SumFunction(w) = w[k] + SumFunction(v)
<1> PICK n \in Nat :
      /\ DOMAIN w = 1..(n + 1) /\ DOMAIN v = 1..n /\ k \in 1..(n + 1)
      /\ \A j \in 1..n : v[j] = w[IF j < k THEN j ELSE j + 1]
  BY DEF Lacks
<1> DEFINE D == 1..n
           R == (1..(n + 1)) \ {k}
           b == [j \in D |-> IF j < k THEN j ELSE j + 1]
<1>1. IsFiniteSet(D) /\ IsFiniteSet(1..(n + 1))
  BY FS_Interval
<1>2. \A i \in R : \E j \in D : b[j] = i
  <2> SUFFICES ASSUME NEW i \in R PROVE \E j \in D : b[j] = i
    OBVIOUS
  <2>1. CASE i < k
    <3>1. i \in D /\ b[i] = i
      BY <2>1
    <3>2. QED
      BY <3>1
  <2>2. CASE ~(i < k)
    <3>1. i - 1 \in D /\ b[i - 1] = i
      BY <2>2
    <3>2. QED
      BY <3>1
  <2>3. QED
    BY <2>1, <2>2
<1>3. \A j \in D : b[j] \in R /\ v[j] = w[b[j]] /\ v[j] \in Int
  OBVIOUS
<1>4. \A x, y \in D : b[x] = b[y] => x = y
  OBVIOUS
<1>5. DOMAIN v = D /\ DOMAIN w = 1..(n + 1)
  OBVIOUS
<1>6. \A i \in 1..(n + 1) : w[i] \in Int
  OBVIOUS
<1>7. SumFunctionOnSet(w, 1..(n + 1)) = w[k] + SumFunctionOnSet(w, R)
  BY <1>1, <1>6, SumTakes
<1> HIDE DEF b, D, R
<1>8. SumFunctionOnSet(v, D) = SumFunctionOnSet(w, R)
  <2>1. Renames(b, D, R, v, w)
    BY <1>2, <1>3, <1>4, Zenon DEF Renames
  <2>2. QED
    BY <1>1, <2>1, SumRenamed
<1>9. QED
  BY <1>5, <1>7, <1>8, Zenon DEF SumFunction

\* RemoveAt removes one entry and moves the later ones up.
LEMMA RemoveAtLacks ==
    ASSUME NEW T, NEW s \in Seq(T), NEW k \in 1..Len(s)
    PROVE  RemoveAt(s, k) \in Seq(T) /\ Lacks(RemoveAt(s, k), s, k)
<1> DEFINE a == SubSeq(s, 1, k - 1)
           z == SubSeq(s, k + 1, Len(s))
<1>1. /\ a \in Seq(T) /\ Len(a) = k - 1 /\ \A j \in 1..(k - 1) : a[j] = s[j]
      /\ z \in Seq(T) /\ Len(z) = Len(s) - k /\ \A j \in 1..(Len(s) - k) : z[j] = s[k + j]
  OBVIOUS
<1>2. Len(s) \in Nat /\ k \in Nat /\ 1 <= k /\ k <= Len(s)
  OBVIOUS
<1> HIDE DEF a, z
<1>3. /\ a \o z \in Seq(T) /\ Len(a \o z) = Len(a) + Len(z)
      /\ \A j \in 1..(Len(a) + Len(z)) : (a \o z)[j] = IF j <= Len(a) THEN a[j] ELSE z[j - Len(a)]
  BY <1>1, ConcatProperties
<1>4. RemoveAt(s, k) = a \o z
  BY DEF RemoveAt, a, z
<1>5. Len(a \o z) = Len(s) - 1
  BY <1>1, <1>2, <1>3
<1>6. ASSUME NEW j \in 1..(Len(s) - 1)
      PROVE  (a \o z)[j] = s[IF j < k THEN j ELSE j + 1]
  <2>1. (a \o z)[j] = IF j <= k - 1 THEN a[j] ELSE z[j - (k - 1)]
    BY <1>1, <1>2, <1>3
  <2>2. CASE j < k
    BY <1>1, <1>2, <2>1, <2>2
  <2>3. CASE ~(j < k)
    <3>1. j - (k - 1) \in 1..(Len(s) - k) /\ k + (j - (k - 1)) = j + 1
      BY <1>2, <2>3
    <3>2. z[j - (k - 1)] = s[k + (j - (k - 1))]
      BY <1>1, <3>1
    <3>3. QED
      BY <1>2, <2>1, <2>3, <3>1, <3>2
  <2>4. QED
    BY <2>2, <2>3
<1>7. Lacks(a \o z, s, k)
  <2>1. Len(s) - 1 \in Nat /\ DOMAIN s = 1..((Len(s) - 1) + 1) /\ k \in 1..((Len(s) - 1) + 1)
    BY <1>2
  <2>2. DOMAIN (a \o z) = 1..(Len(s) - 1)
    BY <1>3, <1>5
  <2>3. QED
    BY <1>6, <2>1, <2>2 DEF Lacks
<1>8. QED
  BY <1>3, <1>4, <1>7

\* So do Tail and, the other way round, Append.
LEMMA TailLacks ==
    ASSUME NEW T, NEW s \in Seq(T), s # <<>>
    PROVE  Tail(s) \in Seq(T) /\ Head(s) = s[1] /\ Head(s) \in T /\ Lacks(Tail(s), s, 1)
<1>1. Len(s) - 1 \in Nat /\ DOMAIN s = 1..((Len(s) - 1) + 1) /\ 1 \in 1..((Len(s) - 1) + 1)
  OBVIOUS
<1>2. DOMAIN Tail(s) = 1..(Len(s) - 1)
  OBVIOUS
<1>3. \A j \in 1..(Len(s) - 1) : Tail(s)[j] = s[IF j < 1 THEN j ELSE j + 1]
  OBVIOUS
<1>4. Lacks(Tail(s), s, 1)
  BY <1>1, <1>2, <1>3, Zenon DEF Lacks
<1>5. QED
  BY <1>4

LEMMA AppendLacks ==
    ASSUME NEW T, NEW s \in Seq(T), NEW x \in T
    PROVE  /\ Append(s, x) \in Seq(T) /\ Append(s, x)[Len(s) + 1] = x
           /\ Lacks(s, Append(s, x), Len(s) + 1)
<1>1. Len(s) \in Nat /\ DOMAIN s = 1..Len(s) /\ DOMAIN Append(s, x) = 1..(Len(s) + 1)
  OBVIOUS
<1>2. \A j \in 1..Len(s) : s[j] = Append(s, x)[IF j < Len(s) + 1 THEN j ELSE j + 1]
  OBVIOUS
<1>3. Len(s) + 1 \in 1..(Len(s) + 1)
  OBVIOUS
<1>4. Lacks(s, Append(s, x), Len(s) + 1)
  BY <1>1, <1>2, <1>3, Zenon DEF Lacks
<1>5. QED
  BY <1>4
=============================================================================
