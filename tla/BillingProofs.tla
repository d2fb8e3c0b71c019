--------------------------- MODULE BillingProofs ---------------------------
(***************************************************************************)
(* What holds of Billing for any tables, requests and prices: the types,   *)
(* the exactness of every session's charges, what a step may never do to a *)
(* balance, the two ledgers as sums over the requests, and that a token    *)
(* with nothing left is shut.                                              *)
(***************************************************************************)
EXTENDS Billing, FiniteSetTheorems, TLAPS

-----------------------------------------------------------------------------
(***************************************************************************)
(* Finite sums. SumFunctionOnSet is a fold of the community modules: it    *)
(* adds the terms in the order CHOOSE picks them. What makes it a sum --   *)
(* that the order does not matter -- is proved by induction on the subsets *)
(* of a finite set, ordered by strict inclusion.                           *)
(***************************************************************************)

\* A set Q that holds a subset of D whenever it holds the smaller ones holds them all.
LEMMA SetInduction ==
    ASSUME NEW D, IsFiniteSet(D), NEW Q,
           ASSUME NEW s \in SUBSET D, \A u \in SUBSET s : u # s => u \in Q
           PROVE  s \in Q
    PROVE  \A s \in SUBSET D : s \in Q
  <1> DEFINE T == {s \in SUBSET D : s \notin Q}
  <1> SUFFICES ASSUME T # {} PROVE FALSE
    OBVIOUS
  <1>1. FiniteSubsetsOf(D) = SUBSET D
    BY FS_FiniteSubsetsOfFinite
  <1>2. IsWellFoundedOn(StrictSubsetOrdering(D), SUBSET D)
    <2>1. IsWellFoundedOn(StrictSubsetOrdering(D), FiniteSubsetsOf(D))
      BY FS_StrictSubsetOrderingWellFounded
    <2> QED
      BY <1>1, <2>1
  <1>3. PICK s \in T : \A u \in T : <<u, s>> \notin StrictSubsetOrdering(D)
    <2>1. T \subseteq SUBSET D
      OBVIOUS
    <2> HIDE DEF T
    <2> QED
      BY <1>2, <2>1, WFMin
  <1>4. \A u \in SUBSET s : u # s => u \in Q
    BY <1>3 DEF StrictSubsetOrdering
  <1> QED
    BY <1>3, <1>4

\* The element the fold takes out of s first.
Pick(s) == CHOOSE x \in s : TRUE

\* g is the function the fold chooses for f over D: its value at s is the sum over s.
Sums(g, f, D) ==
    g = [s \in SUBSET D |-> IF s = {} THEN 0 ELSE f[Pick(s)] + g[s \ {Pick(s)}]]

\* The sum is the value at D of such a function.
LEMMA SumDef ==
    ASSUME NEW f, NEW D
    PROVE  SumFunctionOnSet(f, D) = (CHOOSE g : Sums(g, f, D))[D]
  BY DEF SumFunctionOnSet, FoldFunctionOnSet, MapThenFoldSet, Sums, Pick

\* Two such functions agree where both are defined, so any of them may be chosen.
LEMMA SumsAgree ==
    ASSUME NEW f, NEW D, NEW E, NEW g, NEW h, Sums(g, f, D), Sums(h, f, E),
           IsFiniteSet(D), D \subseteq E
    PROVE  \A s \in SUBSET D : g[s] = h[s]
  <1> DEFINE Q == {s \in SUBSET D : g[s] = h[s]}
  <1>1. ASSUME NEW s \in SUBSET D, \A u \in SUBSET s : u # s => u \in Q
        PROVE  s \in Q
    <2>1. /\ g[s] = IF s = {} THEN 0 ELSE f[Pick(s)] + g[s \ {Pick(s)}]
          /\ h[s] = IF s = {} THEN 0 ELSE f[Pick(s)] + h[s \ {Pick(s)}]
      <3>1. s \in SUBSET E
        OBVIOUS
      <3> QED
        BY <3>1 DEF Sums
    <2>2. s # {} => Pick(s) \in s
      BY DEF Pick
    <2> QED
      BY <1>1, <2>1, <2>2
  <1> HIDE DEF Q
  <1>2. \A s \in SUBSET D : s \in Q
    BY <1>1, SetInduction
  <1> QED
    BY <1>2 DEF Q

\* There is such a function over every finite set.
LEMMA SumsExist ==
    ASSUME NEW f, NEW D, IsFiniteSet(D)
    PROVE  \E g : Sums(g, f, D)
  <1> DEFINE Q == {s \in SUBSET D : \E g : Sums(g, f, s)}
             val(t) == (CHOOSE g : Sums(g, f, t))[t]
  <1>1. ASSUME NEW s \in SUBSET D, \A u \in SUBSET s : u # s => u \in Q
        PROVE  s \in Q
    <2> DEFINE G == [t \in SUBSET s |-> IF t = {} THEN 0 ELSE f[Pick(t)] + val(t \ {Pick(t)})]
    <2>1. ASSUME NEW u \in SUBSET s, u # s
          PROVE  val(u) = G[u]
      <3>1. Sums(CHOOSE g : Sums(g, f, u), f, u)
        BY <1>1, <2>1
      <3>2. CASE u = {}
        BY <3>1, <3>2 DEF Sums
      <3>3. CASE u # {}
        <4> DEFINE v == u \ {Pick(u)}
        <4>1. Pick(u) \in u
          BY <3>3 DEF Pick
        <4>2. v \in SUBSET s /\ v # s /\ v \subseteq u
          BY <4>1
        <4>3. Sums(CHOOSE g : Sums(g, f, v), f, v) /\ IsFiniteSet(v)
          BY <1>1, <4>2, FS_Subset
        <4>4. (CHOOSE g : Sums(g, f, u))[v] = val(v)
          BY <3>1, <4>2, <4>3, SumsAgree
        <4>5. val(u) = f[Pick(u)] + (CHOOSE g : Sums(g, f, u))[v]
          BY <3>1, <3>3 DEF Sums
        <4> QED
          BY <3>3, <4>4, <4>5
      <3> QED
        BY <3>2, <3>3
    <2>2. ASSUME NEW t \in SUBSET s, t # {}
          PROVE  val(t \ {Pick(t)}) = G[t \ {Pick(t)}]
      <3>1. Pick(t) \in t
        BY <2>2 DEF Pick
      <3> HIDE DEF G, val
      <3> QED
        BY <2>1, <3>1
    <2> HIDE DEF val
    <2>3. Sums(G, f, s)
      BY <2>2 DEF Sums
    <2> QED
      BY <2>3
  <1> HIDE DEF Q
  <1>2. \A s \in SUBSET D : s \in Q
    BY <1>1, SetInduction
  <1> QED
    BY <1>2 DEF Q

\* The sum takes out the element picked first ...
LEMMA SumStep ==
    ASSUME NEW f, NEW D, IsFiniteSet(D), D # {}
    PROVE  SumFunctionOnSet(f, D) = f[Pick(D)] + SumFunctionOnSet(f, D \ {Pick(D)})
  <1> DEFINE E == D \ {Pick(D)}
             g == CHOOSE g : Sums(g, f, D)
             h == CHOOSE h : Sums(h, f, E)
  <1>1. IsFiniteSet(E)
    BY FS_Subset
  <1>2. Sums(g, f, D) /\ Sums(h, f, E)
    BY <1>1, SumsExist
  <1>3. g[E] = h[E]
    <2> HIDE DEF g, h
    <2> QED
      BY <1>1, <1>2, SumsAgree
  <1>4. g[D] = f[Pick(D)] + g[E]
    <2> HIDE DEF g
    <2> QED
      BY <1>2 DEF Sums
  <1>5. SumFunctionOnSet(f, D) = g[D] /\ SumFunctionOnSet(f, E) = h[E]
    BY SumDef
  <1> QED
    BY <1>3, <1>4, <1>5

\* ... and is nothing once none is left.
LEMMA SumEmpty == \A f : SumFunctionOnSet(f, {}) = 0
  <1> TAKE f
  <1> DEFINE g == CHOOSE g : Sums(g, f, {})
  <1>1. Sums(g, f, {})
    BY SumsExist, FS_EmptySet
  <1>2. g[{}] = 0
    <2> HIDE DEF g
    <2> QED
      BY <1>1 DEF Sums
  <1> QED
    BY <1>2, SumDef

\* A sum of whole numbers is one.
LEMMA SumInt ==
    ASSUME NEW D, IsFiniteSet(D), NEW f, \A x \in D : f[x] \in Int
    PROVE  SumFunctionOnSet(f, D) \in Int
  <1> DEFINE Q == {s \in SUBSET D : SumFunctionOnSet(f, s) \in Int}
  <1>1. ASSUME NEW s \in SUBSET D, \A u \in SUBSET s : u # s => u \in Q
        PROVE  s \in Q
    <2>1. IsFiniteSet(s)
      BY FS_Subset
    <2>2. CASE s = {}
      BY <2>2, SumEmpty
    <2>3. CASE s # {}
      <3>1. Pick(s) \in s
        BY <2>3 DEF Pick
      <3>2. s \ {Pick(s)} \in Q /\ f[Pick(s)] \in Int
        BY <1>1, <3>1
      <3> QED
        BY <2>1, <2>3, <3>2, SumStep
    <2> QED
      BY <2>2, <2>3
  <1> HIDE DEF Q
  <1>2. \A s \in SUBSET D : s \in Q
    BY <1>1, SetInduction
  <1> QED
    BY <1>2 DEF Q

\* Any element may be taken out: the order of the terms does not matter.
LEMMA SumRemove ==
    ASSUME NEW D, IsFiniteSet(D), NEW f, \A x \in D : f[x] \in Int, NEW x \in D
    PROVE  SumFunctionOnSet(f, D) = f[x] + SumFunctionOnSet(f, D \ {x})
  <1> DEFINE Q == {s \in SUBSET D : \A y \in s :
                     SumFunctionOnSet(f, s) = f[y] + SumFunctionOnSet(f, s \ {y})}
  <1>1. ASSUME NEW s \in SUBSET D, \A u \in SUBSET s : u # s => u \in Q, NEW y \in s
        PROVE  SumFunctionOnSet(f, s) = f[y] + SumFunctionOnSet(f, s \ {y})
    <2> DEFINE p == Pick(s)
    <2>1. IsFiniteSet(s) /\ p \in s
      BY FS_Subset DEF Pick
    <2>2. SumFunctionOnSet(f, s) = f[p] + SumFunctionOnSet(f, s \ {p})
      BY <2>1, SumStep
    <2>3. CASE y # p
      <3>1. SumFunctionOnSet(f, s \ {p}) = f[y] + SumFunctionOnSet(f, (s \ {p}) \ {y})
        BY <1>1, <2>1, <2>3
      <3>2. SumFunctionOnSet(f, s \ {y}) = f[p] + SumFunctionOnSet(f, (s \ {y}) \ {p})
        BY <1>1, <2>1, <2>3
      <3>3. (s \ {p}) \ {y} = (s \ {y}) \ {p}
        OBVIOUS
      <3>4. SumFunctionOnSet(f, (s \ {y}) \ {p}) \in Int /\ f[p] \in Int /\ f[y] \in Int
        <4>1. IsFiniteSet((s \ {y}) \ {p})
          BY <2>1, FS_Subset
        <4> QED
          BY <4>1, <2>1, SumInt
      <3>5. SumFunctionOnSet(f, s \ {p}) = f[y] + SumFunctionOnSet(f, (s \ {y}) \ {p})
        BY <3>1, <3>3
      <3> HIDE DEF p, Q
      <3> QED
        BY <2>2, <3>2, <3>4, <3>5
    <2> QED
      BY <2>2, <2>3
  <1>2. ASSUME NEW s \in SUBSET D, \A u \in SUBSET s : u # s => u \in Q PROVE s \in Q
    BY <1>1, <1>2
  <1> HIDE DEF Q
  <1>3. \A s \in SUBSET D : s \in Q
    BY <1>2, SetInduction
  <1> QED
    BY <1>3 DEF Q

\* Functions with the same terms have the same sum.
LEMMA SumSame ==
    ASSUME NEW D, IsFiniteSet(D), NEW f, NEW g, \A x \in D : f[x] = g[x]
    PROVE  SumFunctionOnSet(f, D) = SumFunctionOnSet(g, D)
  <1> DEFINE Q == {s \in SUBSET D : SumFunctionOnSet(f, s) = SumFunctionOnSet(g, s)}
  <1>1. ASSUME NEW s \in SUBSET D, \A u \in SUBSET s : u # s => u \in Q
        PROVE  s \in Q
    <2>1. IsFiniteSet(s)
      BY FS_Subset
    <2>2. CASE s = {}
      BY <2>2, SumEmpty
    <2>3. CASE s # {}
      <3>1. Pick(s) \in s
        BY <2>3 DEF Pick
      <3>2. s \ {Pick(s)} \in Q /\ f[Pick(s)] = g[Pick(s)]
        BY <1>1, <3>1
      <3> QED
        BY <2>1, <2>3, <3>2, SumStep
    <2> QED
      BY <2>2, <2>3
  <1> HIDE DEF Q
  <1>2. \A s \in SUBSET D : s \in Q
    BY <1>1, SetInduction
  <1> QED
    BY <1>2 DEF Q

\* One element more.
LEMMA SumAdd ==
    ASSUME NEW D, IsFiniteSet(D), NEW x, x \notin D, NEW f, \A y \in D \cup {x} : f[y] \in Int
    PROVE  SumFunctionOnSet(f, D \cup {x}) = f[x] + SumFunctionOnSet(f, D)
  <1>1. IsFiniteSet(D \cup {x})
    BY FS_AddElement
  <1>2. (D \cup {x}) \ {x} = D
    OBVIOUS
  <1> QED
    BY <1>1, <1>2, SumRemove

\* When one term changes, the sum changes by as much.
LEMMA SumExcept ==
    ASSUME NEW D, IsFiniteSet(D), NEW f, NEW g, \A y \in D : f[y] \in Int /\ g[y] \in Int,
           NEW x \in D, \A y \in D : y # x => g[y] = f[y]
    PROVE  SumFunctionOnSet(g, D) = SumFunctionOnSet(f, D) + (g[x] - f[x])
  <1>1. IsFiniteSet(D \ {x})
    BY FS_Subset
  <1>2. SumFunctionOnSet(g, D \ {x}) = SumFunctionOnSet(f, D \ {x})
    BY <1>1, SumSame
  <1>3. SumFunctionOnSet(f, D \ {x}) \in Int
    BY <1>1, SumInt
  <1>4. /\ SumFunctionOnSet(f, D) = f[x] + SumFunctionOnSet(f, D \ {x})
        /\ SumFunctionOnSet(g, D) = g[x] + SumFunctionOnSet(g, D \ {x})
    BY SumRemove
  <1> QED
    BY <1>2, <1>3, <1>4

\* Greater terms make a greater sum.
LEMMA SumLeq ==
    ASSUME NEW D, IsFiniteSet(D), NEW f, NEW g,
           \A x \in D : f[x] \in Int /\ g[x] \in Int /\ f[x] <= g[x]
    PROVE  SumFunctionOnSet(f, D) <= SumFunctionOnSet(g, D)
  <1> DEFINE Q == {s \in SUBSET D : SumFunctionOnSet(f, s) <= SumFunctionOnSet(g, s)}
  <1>1. ASSUME NEW s \in SUBSET D, \A u \in SUBSET s : u # s => u \in Q
        PROVE  s \in Q
    <2>1. IsFiniteSet(s)
      BY FS_Subset
    <2>2. CASE s = {}
      BY <2>2, SumEmpty
    <2>3. CASE s # {}
      <3> DEFINE p == Pick(s)
      <3>1. p \in s
        BY <2>3 DEF Pick
      <3>2. s \ {p} \in Q /\ f[p] <= g[p] /\ f[p] \in Int /\ g[p] \in Int
        BY <1>1, <3>1
      <3>3. /\ SumFunctionOnSet(f, s \ {p}) \in Int
            /\ SumFunctionOnSet(g, s \ {p}) \in Int
        BY <2>1, SumInt, FS_Subset
      <3>4. /\ SumFunctionOnSet(f, s) = f[p] + SumFunctionOnSet(f, s \ {p})
            /\ SumFunctionOnSet(g, s) = g[p] + SumFunctionOnSet(g, s \ {p})
        BY <2>1, <2>3, SumStep
      <3> HIDE DEF p
      <3> QED
        BY <3>2, <3>3, <3>4
    <2> QED
      BY <2>2, <2>3
  <1> HIDE DEF Q
  <1>2. \A s \in SUBSET D : s \in Q
    BY <1>1, SetInduction
  <1> QED
    BY <1>2 DEF Q

\* A sum of nothings is nothing.
LEMMA SumZero ==
    ASSUME NEW D, IsFiniteSet(D), NEW f, \A x \in D : f[x] = 0
    PROVE  SumFunctionOnSet(f, D) = 0
  <1> DEFINE Q == {s \in SUBSET D : SumFunctionOnSet(f, s) = 0}
  <1>1. ASSUME NEW s \in SUBSET D, \A u \in SUBSET s : u # s => u \in Q
        PROVE  s \in Q
    <2>1. IsFiniteSet(s)
      BY FS_Subset
    <2>2. CASE s = {}
      BY <2>2, SumEmpty
    <2>3. CASE s # {}
      <3>1. Pick(s) \in s
        BY <2>3 DEF Pick
      <3>2. s \ {Pick(s)} \in Q /\ f[Pick(s)] = 0
        BY <1>1, <3>1
      <3> QED
        BY <2>1, <2>3, <3>2, SumStep
    <2> QED
      BY <2>2, <2>3
  <1> HIDE DEF Q
  <1>2. \A s \in SUBSET D : s \in Q
    BY <1>1, SetInduction
  <1> QED
    BY <1>2 DEF Q

\* A sum of natural numbers is one.
LEMMA SumNonneg ==
    ASSUME NEW D, IsFiniteSet(D), NEW f, \A x \in D : f[x] \in Nat
    PROVE  SumFunctionOnSet(f, D) \in Nat
  <1> DEFINE z == [x \in D |-> 0]
  <1>1. SumFunctionOnSet(z, D) = 0
    BY SumZero
  <1>2. SumFunctionOnSet(z, D) <= SumFunctionOnSet(f, D)
    BY SumLeq
  <1>3. SumFunctionOnSet(f, D) \in Int
    BY SumInt
  <1> HIDE DEF z
  <1> QED
    BY <1>1, <1>2, <1>3

\* The sum over two disjoint sets is the sum of their sums.
LEMMA SumUnion ==
    ASSUME NEW D, IsFiniteSet(D), NEW E, IsFiniteSet(E), D \cap E = {},
           NEW f, \A x \in D \cup E : f[x] \in Int
    PROVE  SumFunctionOnSet(f, D \cup E) = SumFunctionOnSet(f, D) + SumFunctionOnSet(f, E)
  <1> DEFINE Q == {s \in SUBSET D : SumFunctionOnSet(f, s \cup E)
                                      = SumFunctionOnSet(f, s) + SumFunctionOnSet(f, E)}
  <1>0. SumFunctionOnSet(f, E) \in Int
    BY SumInt
  <1>1. ASSUME NEW s \in SUBSET D, \A u \in SUBSET s : u # s => u \in Q
        PROVE  s \in Q
    <2>1. IsFiniteSet(s)
      BY FS_Subset
    <2>2. CASE s = {}
      <3>1. s \cup E = E
        BY <2>2
      <3> QED
        BY <1>0, <2>2, <3>1, SumEmpty
    <2>3. CASE s # {}
      <3> DEFINE p == Pick(s)
      <3>1. p \in s
        BY <2>3 DEF Pick
      <3>2. s \ {p} \in Q /\ f[p] \in Int
        BY <1>1, <3>1
      <3>3. IsFiniteSet(s \cup E) /\ p \in s \cup E
        BY <2>1, <3>1, FS_Union
      <3>4. SumFunctionOnSet(f, s \cup E) = f[p] + SumFunctionOnSet(f, (s \cup E) \ {p})
        BY <3>3, SumRemove
      <3>5. (s \cup E) \ {p} = (s \ {p}) \cup E
        BY <3>1
      <3>6. SumFunctionOnSet(f, s) = f[p] + SumFunctionOnSet(f, s \ {p})
        BY <2>1, <2>3, SumStep
      <3>7. SumFunctionOnSet(f, s \ {p}) \in Int
        <4>1. IsFiniteSet(s \ {p})
          BY <2>1, FS_Subset
        <4> QED
          BY <4>1, SumInt
      <3>8. SumFunctionOnSet(f, (s \ {p}) \cup E)
              = SumFunctionOnSet(f, s \ {p}) + SumFunctionOnSet(f, E)
        BY <3>2
      <3> HIDE DEF p, Q
      <3>9. SumFunctionOnSet(f, s \cup E)
              = f[p] + (SumFunctionOnSet(f, s \ {p}) + SumFunctionOnSet(f, E))
        BY <3>4, <3>5, <3>8
      <3>10. SumFunctionOnSet(f, s \cup E) = SumFunctionOnSet(f, s) + SumFunctionOnSet(f, E)
        <4>1. f[p] \in Int
          BY <3>2
        <4> QED
          BY <1>0, <3>6, <3>7, <3>9, <4>1
      <3> QED
        BY <3>10 DEF Q
    <2> QED
      BY <2>2, <2>3
  <1> HIDE DEF Q
  <1>2. \A s \in SUBSET D : s \in Q
    BY <1>1, SetInduction
  <1> QED
    BY <1>2 DEF Q

\* A sum over E is the sum, over the values of h, of the sums over the parts of E on
\* which h has that value.
LEMMA SumFibres ==
    ASSUME NEW T, IsFiniteSet(T), NEW E, IsFiniteSet(E), NEW h, NEW f, NEW g, NEW part,
           \A x \in E : f[x] \in Int /\ h[x] \in T,
           \A t \in T : part[t] \subseteq E /\ (\A x \in E : x \in part[t] <=> h[x] = t),
           \A t \in T : g[t] = SumFunctionOnSet(f, part[t])
    PROVE  SumFunctionOnSet(g, T) = SumFunctionOnSet(f, E)
  <1> DEFINE Over(s) == {x \in E : h[x] \in s}
             Q == {s \in SUBSET T : SumFunctionOnSet(g, s) = SumFunctionOnSet(f, Over(s))}
  <1>1. ASSUME NEW s \in SUBSET T, \A u \in SUBSET s : u # s => u \in Q
        PROVE  s \in Q
    <2>1. IsFiniteSet(s)
      BY FS_Subset
    <2>2. CASE s = {}
      <3>1. Over(s) = {}
        BY <2>2
      <3> QED
        BY <2>2, <3>1, SumEmpty
    <2>3. CASE s # {}
      <3> DEFINE p == Pick(s)
                 A == part[p]
                 B == Over(s \ {p})
      <3>1. p \in s
        BY <2>3 DEF Pick
      <3>2. SumFunctionOnSet(g, s \ {p}) = SumFunctionOnSet(f, B)
        BY <1>1, <3>1
      <3>3. SumFunctionOnSet(g, s) = g[p] + SumFunctionOnSet(g, s \ {p})
        BY <2>1, <2>3, SumStep
      <3>4. g[p] = SumFunctionOnSet(f, A)
        BY <3>1
      <3>5. IsFiniteSet(A) /\ IsFiniteSet(B)
        BY <3>1, FS_Subset
      <3>6. Over(s) = A \cup B /\ A \cap B = {}
        BY <3>1
      <3>7. \A x \in A \cup B : f[x] \in Int
        BY <3>1
      <3> HIDE DEF p, A, B, Over, Q
      <3>8. SumFunctionOnSet(f, A \cup B) = SumFunctionOnSet(f, A) + SumFunctionOnSet(f, B)
        BY <3>5, <3>6, <3>7, SumUnion
      <3> QED
        BY <3>2, <3>3, <3>4, <3>6, <3>8 DEF Q
    <2> QED
      BY <2>2, <2>3
  <1> HIDE DEF Q
  <1>2. \A s \in SUBSET T : s \in Q
    BY <1>1, SetInduction
  <1>3. Over(T) = E
    OBVIOUS
  <1> QED
    BY <1>2, <1>3 DEF Q

-----------------------------------------------------------------------------
(* Types and sessions *)

(***************************************************************************)
(* SessionExact is not inductive by itself. A request that has not started *)
(* must be known to have applied nothing, since its user and token are not *)
(* chosen yet; and a started request whose token row is missing must be    *)
(* known to be an orphan, or creating a row with the same id would bring   *)
(* back a claim about what it applied.                                     *)
(***************************************************************************)
Booked(r) ==
    /\ pc[r] = "idle" => appliedUser[r] = 0 /\ appliedToken[r] = 0
    /\ (pc[r] # "idle" /\ tid[r] \notin tokenRows) => r \in orphans

IInv == TypeOK /\ SessionExact /\ \A r \in Requests : Booked(r)

-----------------------------------------------------------------------------

\* Writing whole numbers into both quota columns leaves a row of tokens.
LEMMA TokenRowWrite ==
    ASSUME NEW row \in TokenRow, NEW remain \in Int, NEW used \in Int
    PROVE  [row EXCEPT !.remain = remain, !.used = used] \in TokenRow
  BY DEF TokenRow

\* What an admin's edit writes leaves one too (update_token).
LEMMA TokenRowEdit ==
    ASSUME NEW row \in TokenRow, NEW remain \in Int, NEW unlimited \in BOOLEAN,
           NEW status \in Status
    PROVE  [row EXCEPT !.remain = remain, !.unlimited = unlimited, !.status = status]
              \in TokenRow
  <1>1. [row EXCEPT !.remain = remain] \in TokenRow
    BY DEF TokenRow
  <1>2. [row EXCEPT !.remain = remain, !.unlimited = unlimited] \in TokenRow
    BY <1>1 DEF TokenRow
  <1>3. [row EXCEPT !.remain = remain, !.unlimited = unlimited].status \in Status
    BY <1>2 DEF TokenRow
  <1> QED
    BY <1>2 DEF TokenRow

\* Each transaction keeps the tables and the histories well typed
\* (pre_charge_atomic, settle_atomic, refund_atomic).
LEMMA ChargeType ==
    ASSUME TypeOK, NEW r \in Requests, NEW amount \in Int, Charge(r, amount)
    PROVE  /\ users' \in [Users -> UserRow]
           /\ tokens' \in [Tokens -> TokenRow]
           /\ appliedUser' \in [Requests -> Int]
           /\ appliedToken' \in [Requests -> Int]
  <1> USE DEF TypeOK, Charge
  <1>1. users' \in [Users -> UserRow]
    <2>1. uid[r] \in Users /\ users[uid[r]] \in UserRow
      OBVIOUS
    <2>2. [users[uid[r]] EXCEPT !.used = @ + amount] \in UserRow
      BY <2>1 DEF UserRow
    <2> QED
      BY <2>1, <2>2
  <1>2. tokens' \in [Tokens -> TokenRow]
    <2>1. tid[r] \in Tokens /\ tokens[tid[r]] \in TokenRow
      OBVIOUS
    <2>2. [tokens[tid[r]] EXCEPT !.remain = @ - amount, !.used = @ + amount] \in TokenRow
      <3>1. tokens[tid[r]].remain - amount \in Int /\ tokens[tid[r]].used + amount \in Int
        BY <2>1 DEF TokenRow
      <3> QED
        BY <2>1, <3>1, TokenRowWrite
    <2>3. CASE ~unlim[r] /\ tid[r] \in tokenRows
      <3>1. tokens' = [tokens EXCEPT ![tid[r]] =
                         [tokens[tid[r]] EXCEPT !.remain = @ - amount, !.used = @ + amount]]
        BY <2>3, <2>1
      <3> QED
        BY <3>1, <2>1, <2>2
    <2>4. CASE ~(~unlim[r] /\ tid[r] \in tokenRows)
      BY <2>4
    <2> QED
      BY <2>3, <2>4
  <1>3. appliedUser' \in [Requests -> Int]
    OBVIOUS
  <1>4. appliedToken' \in [Requests -> Int]
    OBVIOUS
  <1> QED
    BY <1>1, <1>2, <1>3, <1>4

\* What a transaction records: the amount on the user's side while the row is
\* there, and on the token's side unless the session skips it (the UPDATEs).
LEMMA ChargeApplies ==
    ASSUME TypeOK, NEW r \in Requests, NEW amount \in Int, Charge(r, amount),
           NEW q \in Requests
    PROVE  /\ q # r => appliedUser'[q] = appliedUser[q] /\ appliedToken'[q] = appliedToken[q]
           /\ uid[r] \in userRows => appliedUser'[r] = appliedUser[r] + amount
           /\ tid[r] \in tokenRows =>
                 appliedToken'[r] = IF unlim[r] THEN appliedToken[r]
                                    ELSE appliedToken[r] + amount
  BY DEF TypeOK, Charge

\* Removing token rows keeps the histories well typed (the two delete handlers).
LEMMA OrphanType ==
    ASSUME TypeOK, NEW ts, Orphan(ts)
    PROVE  orphans' \subseteq Requests /\ appliedToken' \in [Requests -> Int]
  BY DEF TypeOK, Orphan

\* The empty tables and a request that has not started are well typed.
LEMMA InitTypeOK == Init => TypeOK
  <1> SUFFICES ASSUME Init PROVE TypeOK
    OBVIOUS
  <1>1. (CHOOSE u \in Users : TRUE) \in Users
    BY BillingAssumption
  <1>2. (CHOOSE t \in Tokens : TRUE) \in Tokens
    BY BillingAssumption
  <1>3. users \in [Users -> UserRow]
    <2>1. ASSUME NEW row \in [quota: Budgets, used: {0}, enabled: BOOLEAN]
          PROVE row \in UserRow
      <3>1. row.quota \in Int
        BY BillingAssumption
      <3>2. row.used \in Int
        OBVIOUS
      <3> QED
        BY <3>1, <3>2 DEF UserRow
    <2> QED
      BY <2>1 DEF Init
  <1>4. tokens \in [Tokens -> TokenRow]
    <2>1. ASSUME NEW row \in [user: Users, remain: Budgets, used: {0},
                              unlimited: BOOLEAN, status: {"enabled"}]
          PROVE row \in TokenRow
      <3>1. row.remain \in Int
        BY BillingAssumption
      <3>2. row.used \in Int
        OBVIOUS
      <3>3. row.status \in Status
        BY DEF Status
      <3> QED
        BY <3>1, <3>2, <3>3 DEF TokenRow
    <2> QED
      BY <2>1 DEF Init
  <1>5. uid \in [Requests -> Users] /\ tid \in [Requests -> Tokens]
    BY <1>1, <1>2 DEF Init
  <1>6. pc \in [Requests -> Steps]
    BY DEF Init, Steps
  <1>7. unlim \in [Requests -> BOOLEAN]
    BY Zenon DEF Init
  <1>8. /\ pre \in [Requests -> Nat] /\ cost \in [Requests -> Nat]
        /\ appliedUser \in [Requests -> Int] /\ appliedToken \in [Requests -> Int]
        /\ tests \in [Users -> Nat]
    BY DEF Init
  <1> QED
    BY <1>3, <1>4, <1>5, <1>6, <1>7, <1>8 DEF Init, TypeOK

\* Every request, admin and transaction step keeps the types (one step per action).
LEMMA NextTypeOK == TypeOK /\ [Next]_vars => TypeOK'
  <1> SUFFICES ASSUME TypeOK, [Next]_vars PROVE TypeOK'
    OBVIOUS
  <1> USE DEF TypeOK
  <1>1. ASSUME NEW r \in Requests, NEW t \in Tokens, Authenticate(r, t) PROVE TypeOK'
    <2>1. tokens[t].user \in Users
      BY DEF TokenRow
    <2> QED
      BY <1>1, <2>1 DEF Authenticate, GoTo, Steps, dbVars, historyVars
  <1>2. ASSUME NEW r \in Requests, NEW e \in Estimates, ReadUnlimited(r, e) PROVE TypeOK'
    <2>1. e \in Nat
      BY BillingAssumption
    <2>2. tokens[tid[r]].unlimited \in BOOLEAN
      BY DEF TokenRow
    <2>3. pc' \in [Requests -> Steps]
      BY <1>2 DEF ReadUnlimited, GoTo, Steps
    <2>4. unlim' \in [Requests -> BOOLEAN] /\ pre' \in [Requests -> Nat]
      BY <1>2, <2>1, <2>2 DEF ReadUnlimited
    <2> QED
      BY <1>2, <2>3, <2>4 DEF ReadUnlimited, dbVars, historyVars
  <1>3. ASSUME NEW r \in Requests, PreCharge(r) PROVE TypeOK'
    <2>1. pre[r] \in Int /\ Charge(r, pre[r])
      BY <1>3 DEF PreCharge
    <2>2. pc' \in [Requests -> Steps]
      BY <1>3 DEF PreCharge, GoTo, Steps
    <2> QED
      BY <1>3, <2>1, <2>2, ChargeType DEF PreCharge, Charge
  <1>4. ASSUME NEW r \in Requests, PreChargeRefused(r) PROVE TypeOK'
    BY <1>4 DEF PreChargeRefused, GoTo, Steps, dbVars, historyVars
  <1>5. ASSUME NEW r \in Requests, NEW c \in Costs, Settle(r, c) PROVE TypeOK'
    <2>1. c \in Nat /\ c - pre[r] \in Int /\ Charge(r, c - pre[r])
      BY <1>5, BillingAssumption DEF Settle
    <2>2. pc' \in [Requests -> Steps] /\ cost' \in [Requests -> Nat]
      BY <1>5, <2>1 DEF Settle, GoTo, Steps
    <2> QED
      BY <1>5, <2>1, <2>2, ChargeType DEF Settle, Charge
  <1>6. ASSUME NEW r \in Requests, ReadRemain(r) PROVE TypeOK'
    BY <1>6 DEF ReadRemain, GoTo, Steps, dbVars, historyVars
  <1>7. ASSUME NEW r \in Requests, MarkExhausted(r) PROVE TypeOK'
    BY <1>7 DEF MarkExhausted, GoTo, Steps, TokenRow, Status, historyVars
  <1>8. ASSUME NEW r \in Requests, Refund(r) PROVE TypeOK'
    <2>1. -pre[r] \in Int /\ Charge(r, -pre[r])
      BY <1>8 DEF Refund
    <2>2. pc' \in [Requests -> Steps]
      BY <1>8 DEF Refund, GoTo, Steps
    <2> QED
      BY <1>8, <2>1, <2>2, ChargeType DEF Refund, Charge
  <1>9. ASSUME NEW r \in Requests, LogUsage(r) PROVE TypeOK'
    BY <1>9 DEF LogUsage, GoTo, Steps, historyVars
  <1>10. ASSUME NEW r \in Requests, Abandon(r) PROVE TypeOK'
    BY <1>10 DEF Abandon, GoTo, Steps, dbVars, historyVars
  <1>11. CASE Admin
    <2> USE BillingAssumption
    <2>1. ASSUME NEW u \in Users, NEW q \in Budgets, NEW b \in BOOLEAN, UpdateUser(u, q, b)
          PROVE TypeOK'
      <3>1. [users[u] EXCEPT !.quota = q, !.enabled = b] \in UserRow
        BY DEF UserRow
      <3>2. users' = [users EXCEPT ![u] = [users[u] EXCEPT !.quota = q, !.enabled = b]]
        BY <2>1 DEF UpdateUser
      <3> QED
        BY <2>1, <3>1, <3>2 DEF UpdateUser, AdminWrite, sessionVars
    <2>2. ASSUME NEW t \in Tokens, NEW q \in Budgets, NEW b \in BOOLEAN,
                 NEW s \in {"enabled", "disabled"}, UpdateToken(t, q, b, s)
          PROVE TypeOK'
      <3>1. [tokens[t] EXCEPT !.remain = q, !.unlimited = b, !.status = s] \in TokenRow
        <4>1. tokens[t] \in TokenRow
          BY DEF TypeOK
        <4>2. q \in Int /\ s \in Status
          BY DEF Status
        <4> HIDE DEF TypeOK
        <4> QED
          BY <4>1, <4>2, TokenRowEdit
      <3>2. tokens' = [tokens EXCEPT ![t] =
                         [tokens[t] EXCEPT !.remain = q, !.unlimited = b, !.status = s]]
        BY <2>2 DEF UpdateToken
      <3> QED
        BY <2>2, <3>1, <3>2 DEF UpdateToken, AdminWrite, sessionVars
    <2>3. ASSUME NEW t \in Tokens, NEW u \in Users, NEW q \in Budgets, NEW b \in BOOLEAN,
                 CreateToken(t, u, q, b)
          PROVE TypeOK'
      BY <2>3 DEF CreateToken, AdminWrite, TokenRow, Status, sessionVars
    <2>4. ASSUME NEW t \in Tokens, DeleteToken(t) PROVE TypeOK'
      <3>1. Orphan({t})
        BY <2>4 DEF DeleteToken
      <3>2. orphans' \subseteq Requests /\ appliedToken' \in [Requests -> Int]
        BY <3>1, OrphanType
      <3> QED
        BY <2>4, <3>2 DEF DeleteToken, AdminWrite, sessionVars
    <2>5. ASSUME NEW u \in Users, DeleteUser(u) PROVE TypeOK'
      <3> DEFINE owned == {t \in tokenRows : tokens[t].user = u}
      <3>1. Orphan(owned)
        BY <2>5 DEF DeleteUser
      <3> HIDE DEF owned
      <3>2. orphans' \subseteq Requests /\ appliedToken' \in [Requests -> Int]
        BY <3>1, OrphanType
      <3>3. /\ userRows' = userRows \ {u} /\ tokenRows' \subseteq tokenRows
            /\ adminWrites' = adminWrites + 1
            /\ UNCHANGED <<users, tokens, usageLogs, sessionVars, appliedUser, tests>>
        BY <2>5 DEF DeleteUser, AdminWrite
      <3> QED
        BY <3>2, <3>3 DEF sessionVars
    <2>6. ASSUME NEW u \in Users, NEW a \in Costs, TestCharge(u, a) PROVE TypeOK'
      BY <2>6 DEF TestCharge, AdminWrite, UserRow, sessionVars
    <2> HIDE DEF TypeOK
    <2> QED
      BY <1>11, <2>1, <2>2, <2>3, <2>4, <2>5, <2>6 DEF Admin
  <1>12. CASE UNCHANGED vars
    BY <1>12 DEF vars, dbVars, sessionVars, historyVars
  <1> QED
    BY <1>1, <1>2, <1>3, <1>4, <1>5, <1>6, <1>7, <1>8, <1>9, <1>10, <1>11, <1>12
    DEF Next, Proceed

\* Every variable of the model keeps the type its column or field has.
THEOREM BillingTypes == Spec => []TypeOK
  BY InitTypeOK, NextTypeOK, PTL DEF Spec
-----------------------------------------------------------------------------
(* The exactness of the sessions *)

\* Once a request is exact and booked, a step that touches none of its session,
\* its histories or the tables' ids leaves it so.
LEMMA Untouched ==
    ASSUME NEW q \in Requests, Exact(q), Booked(q),
           UNCHANGED <<pc[q], uid[q], tid[q], unlim[q], pre[q], cost[q]>>,
           UNCHANGED <<appliedUser[q], appliedToken[q], userRows, tokenRows, orphans>>
    PROVE  Exact(q)' /\ Booked(q)'
  BY DEF Exact, Booked, Owed

\* A request's own steps keep it exact and booked, and leave the others alone.
LEMMA RequestStep ==
    ASSUME IInv, NEW r \in Requests, Proceed(r) \/ Abandon(r), NEW q \in Requests
    PROVE  Exact(q)' /\ Booked(q)'
  <1>1. TypeOK /\ Exact(q) /\ Booked(q)
    BY DEF IInv, SessionExact
  <1> USE <1>1 DEF TypeOK
  <1>2. ASSUME NEW t \in Tokens, Authenticate(r, t) PROVE Exact(q)' /\ Booked(q)'
    <2>1. CASE q = r
      BY <1>2, <2>1 DEF Authenticate, GoTo, Valid, Exact, Booked, Owed, dbVars, historyVars
    <2>2. CASE q # r
      BY <1>2, <2>2, Untouched DEF Authenticate, GoTo, dbVars, historyVars
    <2> QED
      BY <2>1, <2>2
  <1>3. ASSUME NEW e \in Estimates, ReadUnlimited(r, e) PROVE Exact(q)' /\ Booked(q)'
    <2>1. CASE q = r
      BY <1>3, <2>1 DEF ReadUnlimited, GoTo, Exact, Booked, Owed, dbVars, historyVars
    <2>2. CASE q # r
      BY <1>3, <2>2, Untouched DEF ReadUnlimited, GoTo, dbVars, historyVars
    <2> QED
      BY <2>1, <2>2
  <1>4. CASE PreCharge(r)
    <2>1. pre[r] \in Int /\ Charge(r, pre[r])
      BY <1>4 DEF PreCharge
    <2>2. CASE q = r
      BY <1>4, <2>1, <2>2, ChargeApplies
      DEF PreCharge, Charge, GoTo, Exact, Booked, Owed
    <2>3. CASE q # r
      BY <1>4, <2>1, <2>3, ChargeApplies, Untouched DEF PreCharge, Charge, GoTo
    <2> QED
      BY <2>2, <2>3
  <1>5. CASE PreChargeRefused(r)
    BY <1>5 DEF PreChargeRefused, GoTo, Exact, Booked, Owed, dbVars, historyVars
  <1>6. ASSUME NEW c \in Costs, Settle(r, c) PROVE Exact(q)' /\ Booked(q)'
    <2>1. c \in Nat /\ c - pre[r] \in Int /\ Charge(r, c - pre[r])
      BY <1>6, BillingAssumption DEF Settle
    <2>2. CASE q = r
      BY <1>6, <2>1, <2>2, ChargeApplies
      DEF Settle, Charge, GoTo, Exact, Booked, Owed
    <2>3. CASE q # r
      BY <1>6, <2>1, <2>3, ChargeApplies, Untouched DEF Settle, Charge, GoTo
    <2> QED
      BY <2>2, <2>3
  <1>7. CASE ReadRemain(r)
    BY <1>7 DEF ReadRemain, GoTo, Exact, Booked, Owed, dbVars, historyVars
  <1>8. CASE MarkExhausted(r)
    BY <1>8 DEF MarkExhausted, GoTo, Exact, Booked, Owed, historyVars
  <1>9. CASE Refund(r)
    <2>1. -pre[r] \in Int /\ Charge(r, -pre[r])
      BY <1>9 DEF Refund
    <2>2. CASE q = r
      BY <1>9, <2>1, <2>2, ChargeApplies
      DEF Refund, Charge, GoTo, Exact, Booked, Owed
    <2>3. CASE q # r
      BY <1>9, <2>1, <2>3, ChargeApplies, Untouched DEF Refund, Charge, GoTo
    <2> QED
      BY <2>2, <2>3
  <1>10. CASE LogUsage(r)
    BY <1>10 DEF LogUsage, GoTo, Exact, Booked, Owed, historyVars
  <1>11. CASE Abandon(r)
    BY <1>11 DEF Abandon, GoTo, Exact, Booked, Owed, dbVars, historyVars
  <1> QED
    BY <1>2, <1>3, <1>4, <1>5, <1>6, <1>7, <1>8, <1>9, <1>10, <1>11 DEF Proceed

\* So do the admin panel's writes: they touch no session, and a row they remove
\* makes orphans of the requests that use it.
LEMMA AdminStep ==
    ASSUME IInv, Admin, NEW q \in Requests
    PROVE  Exact(q)' /\ Booked(q)'
  <1>1. TypeOK /\ Exact(q) /\ Booked(q)
    BY DEF IInv, SessionExact
  <1>2. ASSUME NEW u, NEW quota, NEW b, UpdateUser(u, quota, b)
        PROVE Exact(q)' /\ Booked(q)'
    BY <1>1, <1>2, Untouched DEF UpdateUser, sessionVars
  <1>3. ASSUME NEW t, NEW remain, NEW b, NEW s, UpdateToken(t, remain, b, s)
        PROVE Exact(q)' /\ Booked(q)'
    BY <1>1, <1>3, Untouched DEF UpdateToken, sessionVars
  <1>4. ASSUME NEW t \in Tokens, NEW u, NEW remain, NEW b, CreateToken(t, u, remain, b)
        PROVE Exact(q)' /\ Booked(q)'
    <2>1. t \notin tokenRows
      BY <1>1, <1>4, BillingAssumption DEF CreateToken, TypeOK
    <2> QED
      BY <1>1, <1>4, <2>1 DEF CreateToken, sessionVars, Exact, Booked, Owed
  <1>5. ASSUME NEW t \in Tokens, DeleteToken(t) PROVE Exact(q)' /\ Booked(q)'
    BY <1>1, <1>5 DEF DeleteToken, Orphan, sessionVars, Exact, Booked, Owed, TypeOK
  <1>6. ASSUME NEW u \in Users, DeleteUser(u) PROVE Exact(q)' /\ Booked(q)'
    BY <1>1, <1>6 DEF DeleteUser, Orphan, sessionVars, Exact, Booked, Owed, TypeOK
  <1>7. ASSUME NEW u, NEW a, TestCharge(u, a) PROVE Exact(q)' /\ Booked(q)'
    BY <1>1, <1>7, Untouched DEF TestCharge, sessionVars
  <1> QED
    BY <1>2, <1>3, <1>4, <1>5, <1>6, <1>7 DEF Admin

\* No request has started, so none has applied or owes anything.
LEMMA InitIInv == Init => IInv
  BY InitTypeOK DEF Init, IInv, SessionExact, Exact, Booked, Owed

\* The strengthened invariant survives every step of the gateway.
LEMMA InvInductive == IInv /\ [Next]_vars => IInv'
  <1> SUFFICES ASSUME IInv, [Next]_vars PROVE IInv'
    OBVIOUS
  <1>1. TypeOK'
    BY NextTypeOK DEF IInv
  <1>2. ASSUME NEW q \in Requests PROVE Exact(q)' /\ Booked(q)'
    <2>1. ASSUME NEW r \in Requests, Proceed(r) \/ Abandon(r) PROVE Exact(q)' /\ Booked(q)'
      BY <2>1, RequestStep
    <2>2. CASE Admin
      BY <2>2, AdminStep
    <2>3. CASE UNCHANGED vars
      BY <2>3, Untouched DEF IInv, SessionExact, vars, dbVars, sessionVars, historyVars
    <2> QED
      BY <2>1, <2>2, <2>3 DEF Next
  <1> QED
    BY <1>1, <1>2 DEF IInv, SessionExact

\* Nothing is charged twice, refunded twice or moved on one layer only, in any
\* interleaving of any number of requests with the admin panel.
THEOREM SessionsAreExact == Spec => []SessionExact
  <1>1. IInv => SessionExact
    BY DEF IInv
  <1> QED
    BY <1>1, InitIInv, InvInductive, PTL DEF Spec

-----------------------------------------------------------------------------
(* What a step may never do to a balance *)

\* The token side of a transaction moves one row's remain and used against each other.
LEMMA ChargeConserves ==
    ASSUME TypeOK, NEW r \in Requests, NEW amount \in Int, Charge(r, amount),
           NEW t \in Tokens
    PROVE  tokens'[t].remain + tokens'[t].used = tokens[t].remain + tokens[t].used
  <1>1. tokens[t].remain \in Int /\ tokens[t].used \in Int
    BY DEF TypeOK, TokenRow
  <1>2. CASE t = tid[r] /\ ~unlim[r] /\ t \in tokenRows
    <2>1. /\ tokens'[t].remain = tokens[t].remain - amount
          /\ tokens'[t].used = tokens[t].used + amount
      BY <1>2 DEF TypeOK, Charge, TokenRow
    <2> QED
      BY <1>1, <2>1
  <1>3. CASE ~(t = tid[r] /\ ~unlim[r] /\ t \in tokenRows)
    <2>1. tokens'[t] = tokens[t]
      BY <1>3 DEF TypeOK, Charge
    <2> QED
      BY <2>1
  <1> QED
    BY <1>2, <1>3

\* Only an admin's own write creates or destroys a token's budget.
THEOREM BudgetsAreConserved == Spec => BudgetConserved
  <1> DEFINE Moves == adminWrites' = adminWrites =>
          /\ tokenRows' = tokenRows
          /\ \A t \in tokenRows :
                tokens'[t].remain + tokens'[t].used = tokens[t].remain + tokens[t].used
  <1>1. TypeOK /\ [Next]_vars => [Moves]_vars
    <2> SUFFICES ASSUME TypeOK, Next PROVE Moves
      OBVIOUS
    <2>1. ASSUME NEW r \in Requests, NEW amount \in Int, Charge(r, amount) PROVE Moves
      <3>1. tokenRows' = tokenRows /\ tokenRows \subseteq Tokens
        BY <2>1 DEF TypeOK, Charge
      <3> QED
        BY <2>1, <3>1, ChargeConserves
    <2>2. ASSUME NEW r \in Requests, Proceed(r) \/ Abandon(r) PROVE Moves
      <3>1. CASE PreCharge(r)
        BY <3>1, <2>1 DEF PreCharge, TypeOK
      <3>2. ASSUME NEW c \in Costs, Settle(r, c) PROVE Moves
        <4>1. c - pre[r] \in Int /\ Charge(r, c - pre[r])
          BY <3>2, BillingAssumption DEF Settle, TypeOK
        <4> QED
          BY <4>1, <2>1
      <3>3. CASE Refund(r)
        <4>1. -pre[r] \in Int /\ Charge(r, -pre[r])
          BY <3>3 DEF Refund, TypeOK
        <4> QED
          BY <4>1, <2>1
      <3>4. CASE MarkExhausted(r)
        BY <3>4 DEF MarkExhausted, TypeOK, TokenRow
      <3>5. ASSUME UNCHANGED <<tokens, tokenRows>> PROVE Moves
        BY <3>5
      <3> HIDE DEF Moves
      <3>6. CASE (\E t \in Tokens : Authenticate(r, t))
                 \/ (\E e \in Estimates : ReadUnlimited(r, e)) \/ PreChargeRefused(r)
                 \/ ReadRemain(r) \/ LogUsage(r) \/ Abandon(r)
        BY <3>5, <3>6
        DEF Authenticate, ReadUnlimited, PreChargeRefused, ReadRemain, LogUsage, Abandon,
            dbVars
      <3> QED
        BY <2>2, <3>1, <3>2, <3>3, <3>4, <3>6 DEF Proceed
    <2>3. ASSUME Admin PROVE Moves
      <3>1. adminWrites' = adminWrites + 1 /\ adminWrites \in Nat
        BY <2>3
        DEF TypeOK, Admin, AdminWrite, UpdateUser, UpdateToken, CreateToken, DeleteToken,
            DeleteUser, TestCharge
      <3> QED
        BY <3>1
    <2> QED
      BY <2>2, <2>3 DEF Next
  <1> QED
    BY <1>1, BillingTypes, PTL DEF Spec, BudgetConserved

\* The conditional UPDATEs admit a pre-charge only within what both layers hold.
THEOREM AdmissionsAreCovered == Spec => AdmittedWithinBalance
  <1> DEFINE Covered(r) ==
          (pc[r] = "precharging" /\ pc'[r] = "held") =>
             /\ users'[uid[r]].used <= users'[uid[r]].quota
             /\ unlim[r] \/ tokens'[tid[r]].remain >= 0
  <1>1. TypeOK /\ [Next]_vars => [\A r \in Requests : Covered(r)]_vars
    <2> SUFFICES ASSUME TypeOK, Next, NEW r \in Requests,
                        pc[r] = "precharging", pc'[r] = "held"
                 PROVE  /\ users'[uid[r]].used <= users'[uid[r]].quota
                        /\ unlim[r] \/ tokens'[tid[r]].remain >= 0
      OBVIOUS
    <2>1. PreCharge(r)
      <3>1. ASSUME NEW q \in Requests, Proceed(q) \/ Abandon(q) PROVE PreCharge(r)
        BY <3>1
        DEF TypeOK, Proceed, Authenticate, ReadUnlimited, PreCharge, PreChargeRefused,
            Settle, ReadRemain, MarkExhausted, Refund, LogUsage, Abandon, GoTo
      <3>2. ~Admin
        BY DEF Admin, UpdateUser, UpdateToken, CreateToken, DeleteToken, DeleteUser,
               TestCharge, sessionVars
      <3> QED
        BY <3>1, <3>2 DEF Next
    <2>2. /\ users[uid[r]].quota \in Int /\ users[uid[r]].used \in Int
          /\ tokens[tid[r]].remain \in Int /\ pre[r] \in Int
      BY DEF TypeOK, UserRow, TokenRow
    <2>3. users'[uid[r]].used <= users'[uid[r]].quota
      <3>1. uid[r] \in userRows /\ users[uid[r]].quota - users[uid[r]].used >= pre[r]
        BY <2>1 DEF PreCharge, UserCanPay
      <3>2. /\ users'[uid[r]].used = users[uid[r]].used + pre[r]
            /\ users'[uid[r]].quota = users[uid[r]].quota
        BY <2>1, <3>1 DEF PreCharge, Charge, TypeOK, UserRow
      <3> QED
        BY <2>2, <3>1, <3>2
    <2>4. ASSUME ~unlim[r] PROVE tokens'[tid[r]].remain >= 0
      <3>1. tid[r] \in tokenRows /\ tokens[tid[r]].remain >= pre[r]
        BY <2>1, <2>4 DEF PreCharge, TokenCanPay
      <3>2. tokens'[tid[r]].remain = tokens[tid[r]].remain - pre[r]
        BY <2>1, <2>4, <3>1 DEF PreCharge, Charge, TypeOK, TokenRow
      <3> QED
        BY <2>2, <3>1, <3>2
    <2> QED
      BY <2>3, <2>4
  <1> QED
    BY <1>1, BillingTypes, PTL DEF Spec, AdmittedWithinBalance

-----------------------------------------------------------------------------
(***************************************************************************)
(* The two ledgers. A ledger sums over requests what a transaction changes *)
(* one row at a time, so the induction keeps the sums themselves: what the *)
(* started requests have applied to a row is what its used_quota holds. It *)
(* needs that finitely many have started, that a request whose token row   *)
(* is gone has nothing applied on it (a row created with its id starts an  *)
(* empty ledger), and that a row that was never deleted under a request    *)
(* still belongs to the user the request was authenticated as.             *)
(***************************************************************************)

Started == {r \in Requests : pc[r] # "idle"}

Books ==
  /\ IsFiniteSet(Started)
  /\ \A u \in userRows : users[u].used = tests[u] + SumFunctionOnSet(appliedUser, By(u))
  /\ \A t \in tokenRows : tokens[t].used = SumFunctionOnSet(appliedToken, Of(t))
  /\ \A r \in Requests : tid[r] \notin tokenRows => appliedToken[r] = 0
  /\ \A r \in Started : r \notin orphans => tokens[tid[r]].user = uid[r]

\* An account and a token each have finitely many requests.
LEMMA Groups ==
    ASSUME IsFiniteSet(Started)
    PROVE  /\ \A u : IsFiniteSet(By(u)) /\ By(u) \subseteq Requests
           /\ \A t : IsFiniteSet(Of(t)) /\ Of(t) \subseteq Requests
  <1>1. \A u : By(u) \subseteq Started
    BY DEF By, Started
  <1>2. \A t : Of(t) \subseteq Started
    BY DEF Of, Started
  <1>3. Started \subseteq Requests
    BY DEF Started
  <1> QED
    BY <1>1, <1>2, <1>3, FS_Subset

\* A transaction enters the same amount in a ledger's column and in its sum.
LEMMA ChargeBooks ==
    ASSUME TypeOK, Books, NEW r \in Requests, pc[r] # "idle", NEW amount \in Int,
           Charge(r, amount)
    PROVE  /\ \A u \in userRows : users'[u].used = tests[u] + SumFunctionOnSet(appliedUser', By(u))
           /\ \A t \in tokenRows : tokens'[t].used = SumFunctionOnSet(appliedToken', Of(t))
           /\ \A t \in Tokens : tokens'[t].user = tokens[t].user
           /\ \A q \in Requests : tid[q] \notin tokenRows => appliedToken'[q] = 0
  <1>1. /\ \A q \in Requests : appliedUser[q] \in Int /\ appliedToken[q] \in Int
        /\ \A q \in Requests : appliedUser'[q] \in Int /\ appliedToken'[q] \in Int
    BY ChargeType DEF TypeOK
  <1>2. /\ \A u : IsFiniteSet(By(u)) /\ By(u) \subseteq Requests
        /\ \A t : IsFiniteSet(Of(t)) /\ Of(t) \subseteq Requests
    BY Groups DEF Books
  <1>3. /\ \A q \in Requests : q # r => appliedUser'[q] = appliedUser[q]
        /\ \A q \in Requests : q # r => appliedToken'[q] = appliedToken[q]
    BY ChargeApplies
  <1>4. ASSUME NEW u \in userRows
        PROVE  users'[u].used = tests[u] + SumFunctionOnSet(appliedUser', By(u))
    <2>1. /\ users[u].used \in Int /\ tests[u] \in Int
          /\ users[u].used = tests[u] + SumFunctionOnSet(appliedUser, By(u))
          /\ SumFunctionOnSet(appliedUser, By(u)) \in Int
      <3>1. SumFunctionOnSet(appliedUser, By(u)) \in Int
        BY <1>1, <1>2, SumInt
      <3> QED
        BY <3>1 DEF TypeOK, UserRow, Books
    <2>2. CASE u = uid[r]
      <3>1. r \in By(u)
        BY <2>2 DEF By
      <3>2. appliedUser'[r] = appliedUser[r] + amount
        BY <2>2, ChargeApplies
      <3>3. SumFunctionOnSet(appliedUser', By(u))
              = SumFunctionOnSet(appliedUser, By(u)) + (appliedUser'[r] - appliedUser[r])
        BY <1>1, <1>2, <1>3, <3>1, SumExcept
      <3>4. users'[u].used = users[u].used + amount
        BY <2>2 DEF Charge, TypeOK, UserRow
      <3>5. appliedUser[r] \in Int
        BY <1>1
      <3> QED
        BY <2>1, <3>2, <3>3, <3>4, <3>5
    <2>3. CASE u # uid[r]
      <3>1. \A q \in By(u) : appliedUser[q] = appliedUser'[q]
        BY <1>2, <1>3, <2>3 DEF By
      <3>2. SumFunctionOnSet(appliedUser, By(u)) = SumFunctionOnSet(appliedUser', By(u))
        BY <1>2, <3>1, SumSame
      <3>3. users'[u] = users[u]
        BY <2>3 DEF Charge, TypeOK
      <3> QED
        BY <2>1, <3>2, <3>3
    <2> QED
      BY <2>2, <2>3
  <1>5. ASSUME NEW t \in tokenRows
        PROVE  tokens'[t].used = SumFunctionOnSet(appliedToken', Of(t))
    <2>1. /\ tokens[t].used = SumFunctionOnSet(appliedToken, Of(t))
          /\ tokens[t].used \in Int
      BY DEF Books, TypeOK, TokenRow
    <2>2. CASE t = tid[r] /\ ~unlim[r]
      <3>1. r \in Of(t)
        BY <2>2 DEF Of
      <3>2. appliedToken'[r] = appliedToken[r] + amount
        BY <2>2, ChargeApplies
      <3>3. SumFunctionOnSet(appliedToken', Of(t))
              = SumFunctionOnSet(appliedToken, Of(t)) + (appliedToken'[r] - appliedToken[r])
        BY <1>1, <1>2, <1>3, <3>1, SumExcept
      <3>4. tokens'[t].used = tokens[t].used + amount
        BY <2>2 DEF Charge, TypeOK, TokenRow
      <3>5. appliedToken[r] \in Int
        BY <1>1
      <3> QED
        BY <2>1, <3>2, <3>3, <3>4, <3>5
    <2>3. CASE ~(t = tid[r] /\ ~unlim[r])
      <3>1. \A q \in Of(t) : appliedToken[q] = appliedToken'[q]
        <4>1. t = tid[r] => appliedToken'[r] = appliedToken[r]
          BY <2>3, ChargeApplies
        <4> QED
          BY <1>2, <1>3, <4>1 DEF Of
      <3>2. SumFunctionOnSet(appliedToken, Of(t)) = SumFunctionOnSet(appliedToken', Of(t))
        BY <1>2, <3>1, SumSame
      <3>3. tokens'[t] = tokens[t]
        BY <2>3 DEF Charge, TypeOK
      <3> QED
        BY <2>1, <3>2, <3>3
    <2> QED
      BY <2>2, <2>3
  <1>6. ASSUME NEW t \in Tokens PROVE tokens'[t].user = tokens[t].user
    BY DEF Charge, TypeOK, TokenRow
  <1>7. ASSUME NEW q \in Requests, tid[q] \notin tokenRows PROVE appliedToken'[q] = 0
    BY <1>7 DEF Charge, Books, TypeOK
  <1> QED
    BY <1>4, <1>5, <1>6, <1>7

\* A step that leaves the columns, the histories and the requests that have started
\* where they are keeps the books.
LEMMA BooksUntouched ==
    ASSUME TypeOK, Books, Started' = Started,
           \A q \in Started : tid'[q] = tid[q] /\ uid'[q] = uid[q],
           \A q \in Requests \ Started : tid'[q] \notin tokenRows => appliedToken[q] = 0,
           UNCHANGED <<userRows, tokenRows, appliedUser, appliedToken, tests, orphans>>,
           \A u \in userRows : users'[u].used = users[u].used,
           \A t \in Tokens : tokens'[t].used = tokens[t].used /\ tokens'[t].user = tokens[t].user
    PROVE  Books'
  <1>1. \A u : By(u)' = By(u)
    BY DEF By, Started
  <1>2. \A t : Of(t)' = Of(t)
    BY DEF Of, Started
  <1>3. tokenRows \subseteq Tokens /\ \A q \in Started : tid[q] \in Tokens
    BY DEF TypeOK, Started
  <1>4. \A u \in userRows' : users'[u].used = tests'[u] + SumFunctionOnSet(appliedUser', By(u)')
    BY <1>1 DEF Books
  <1>5. \A t \in tokenRows' : tokens'[t].used = SumFunctionOnSet(appliedToken', Of(t)')
    BY <1>2, <1>3 DEF Books
  <1>6. \A q \in Requests : tid'[q] \notin tokenRows' => appliedToken'[q] = 0
    BY DEF Books
  <1>7. \A q \in Started' : q \notin orphans' => tokens'[tid'[q]].user = uid'[q]
    BY <1>3 DEF Books
  <1>8. IsFiniteSet(Started')
    BY DEF Books
  <1> QED
    BY <1>4, <1>5, <1>6, <1>7, <1>8 DEF Books

\* A request that starts has moved nothing yet, whichever ledgers it joins.
LEMMA AuthenticateBooks ==
    ASSUME IInv, Books, NEW r \in Requests, NEW t \in Tokens, Authenticate(r, t)
    PROVE  Books'
  <1> USE DEF IInv, Authenticate, GoTo, dbVars, historyVars
  <1>1. /\ TypeOK /\ pc[r] = "idle" /\ t \in tokenRows
        /\ appliedUser[r] = 0 /\ appliedToken[r] = 0
    BY DEF Booked, Valid
  <1>2. /\ \A q \in Requests : appliedUser[q] \in Int /\ appliedToken[q] \in Int
        /\ \A u : IsFiniteSet(By(u)) /\ By(u) \subseteq Requests
        /\ \A x : IsFiniteSet(Of(x)) /\ Of(x) \subseteq Requests
    BY Groups DEF Books, TypeOK
  <1>3. Started' = Started \cup {r}
    BY <1>1 DEF Started, TypeOK
  <1>4. IsFiniteSet(Started')
    BY <1>3, FS_AddElement DEF Books
  <1>5. ASSUME NEW D, IsFiniteSet(D), D \subseteq Requests, r \notin D
        PROVE  /\ SumFunctionOnSet(appliedUser, D \cup {r}) = SumFunctionOnSet(appliedUser, D)
               /\ SumFunctionOnSet(appliedToken, D \cup {r}) = SumFunctionOnSet(appliedToken, D)
    <2>1. \A y \in D \cup {r} : appliedUser[y] \in Int /\ appliedToken[y] \in Int
      BY <1>2, <1>5
    <2>2. SumFunctionOnSet(appliedUser, D) \in Int /\ SumFunctionOnSet(appliedToken, D) \in Int
      BY <1>5, <2>1, SumInt
    <2>3. SumFunctionOnSet(appliedUser, D \cup {r})
            = appliedUser[r] + SumFunctionOnSet(appliedUser, D)
      BY <1>5, <2>1, SumAdd
    <2>4. SumFunctionOnSet(appliedToken, D \cup {r})
            = appliedToken[r] + SumFunctionOnSet(appliedToken, D)
      BY <1>5, <2>1, SumAdd
    <2> QED
      BY <1>1, <2>2, <2>3, <2>4
  <1>6. ASSUME NEW u \in userRows'
        PROVE  users'[u].used = tests'[u] + SumFunctionOnSet(appliedUser', By(u)')
    <2>1. By(u)' = By(u) \/ (r \notin By(u) /\ By(u)' = By(u) \cup {r})
      BY <1>1 DEF By, TypeOK
    <2>2. SumFunctionOnSet(appliedUser', By(u)') = SumFunctionOnSet(appliedUser, By(u))
      BY <1>2, <1>5, <2>1
    <2> QED
      BY <2>2 DEF Books
  <1>7. ASSUME NEW x \in tokenRows'
        PROVE  tokens'[x].used = SumFunctionOnSet(appliedToken', Of(x)')
    <2>1. Of(x)' = Of(x) \/ (r \notin Of(x) /\ Of(x)' = Of(x) \cup {r})
      BY <1>1 DEF Of, TypeOK
    <2>2. SumFunctionOnSet(appliedToken', Of(x)') = SumFunctionOnSet(appliedToken, Of(x))
      BY <1>2, <1>5, <2>1
    <2> QED
      BY <2>2 DEF Books
  <1>8. \A q \in Requests : tid'[q] \notin tokenRows' => appliedToken'[q] = 0
    BY <1>1 DEF Books, TypeOK
  <1>9. \A q \in Started' : q \notin orphans' => tokens'[tid'[q]].user = uid'[q]
    BY <1>1, <1>3 DEF Books, TypeOK, Started
  <1> QED
    BY <1>4, <1>6, <1>7, <1>8, <1>9 DEF Books

\* A step of a request that moves money keeps the books.
LEMMA ChargeKeepsBooks ==
    ASSUME TypeOK, Books, NEW r \in Requests, pc[r] # "idle", NEW amount \in Int,
           Charge(r, amount), NEW step, step # "idle", GoTo(r, step), UNCHANGED <<uid, tid>>
    PROVE  Books'
  <1>1. Started' = Started
    BY DEF GoTo, Started, TypeOK
  <1>2. \A u : By(u)' = By(u)
    BY <1>1 DEF By, Started
  <1>3. \A t : Of(t)' = Of(t)
    BY <1>1 DEF Of, Started
  <1>4. /\ \A u \in userRows : users'[u].used = tests[u] + SumFunctionOnSet(appliedUser', By(u))
        /\ \A t \in tokenRows : tokens'[t].used = SumFunctionOnSet(appliedToken', Of(t))
        /\ \A t \in Tokens : tokens'[t].user = tokens[t].user
        /\ \A q \in Requests : tid[q] \notin tokenRows => appliedToken'[q] = 0
    BY ChargeBooks
  <1>5. UNCHANGED <<userRows, tokenRows, orphans, tests>>
    BY DEF Charge
  <1>6. /\ \A u \in userRows' : users'[u].used = tests'[u] + SumFunctionOnSet(appliedUser', By(u)')
        /\ \A t \in tokenRows' : tokens'[t].used = SumFunctionOnSet(appliedToken', Of(t)')
    BY <1>2, <1>3, <1>4, <1>5
  <1>7. \A q \in Requests : tid'[q] \notin tokenRows' => appliedToken'[q] = 0
    BY <1>4, <1>5
  <1>8. \A q \in Started' : q \notin orphans' => tokens'[tid'[q]].user = uid'[q]
    <2>1. \A q \in Started : tid[q] \in Tokens
      BY DEF Started, TypeOK
    <2> QED
      BY <1>1, <1>4, <1>5, <2>1 DEF Books
  <1> QED
    BY <1>1, <1>6, <1>7, <1>8 DEF Books

\* Every step of a request keeps the books.
LEMMA RequestBooks ==
    ASSUME IInv, Books, NEW r \in Requests, Proceed(r) \/ Abandon(r)
    PROVE  Books'
  <1>1. TypeOK
    BY DEF IInv
  <1>2. ASSUME UNCHANGED <<userRows, tokenRows, users, uid, tid, historyVars>>,
               \A t \in Tokens : tokens'[t].used = tokens[t].used
                                   /\ tokens'[t].user = tokens[t].user,
               NEW step, step # "idle", pc[r] # "idle", GoTo(r, step)
        PROVE  Books'
    <2>1. Started' = Started
      BY <1>1, <1>2 DEF GoTo, Started, TypeOK
    <2> QED
      BY <1>1, <1>2, <2>1, BooksUntouched DEF historyVars, Books
  <1>3. ASSUME NEW t \in Tokens, Authenticate(r, t) PROVE Books'
    BY <1>3, AuthenticateBooks
  <1>4. ASSUME NEW e \in Estimates, ReadUnlimited(r, e) PROVE Books'
    BY <1>2, <1>4 DEF ReadUnlimited, dbVars
  <1>5. CASE PreCharge(r)
    <2>1. pre[r] \in Int
      BY <1>1 DEF TypeOK
    <2> QED
      BY <1>1, <1>5, <2>1, ChargeKeepsBooks DEF PreCharge
  <1>6. CASE PreChargeRefused(r)
    BY <1>2, <1>6 DEF PreChargeRefused, dbVars
  <1>7. ASSUME NEW c \in Costs, Settle(r, c) PROVE Books'
    <2>1. c - pre[r] \in Int
      BY <1>1, BillingAssumption DEF TypeOK
    <2> QED
      BY <1>1, <1>7, <2>1, ChargeKeepsBooks DEF Settle
  <1>8. CASE ReadRemain(r)
    BY <1>2, <1>8 DEF ReadRemain, dbVars
  <1>9. CASE MarkExhausted(r)
    <2>1. \A t \in Tokens : tokens'[t].used = tokens[t].used
                              /\ tokens'[t].user = tokens[t].user
      BY <1>1, <1>9 DEF MarkExhausted, TypeOK, TokenRow
    <2> QED
      BY <1>2, <1>9, <2>1 DEF MarkExhausted
  <1>10. CASE Refund(r)
    <2>1. -pre[r] \in Int
      BY <1>1 DEF TypeOK
    <2> QED
      BY <1>1, <1>10, <2>1, ChargeKeepsBooks DEF Refund
  <1>11. CASE LogUsage(r)
    BY <1>2, <1>11 DEF LogUsage
  <1>12. CASE Abandon(r)
    BY <1>2, <1>12 DEF Abandon, dbVars
  <1> QED
    BY <1>3, <1>4, <1>5, <1>6, <1>7, <1>8, <1>9, <1>10, <1>11, <1>12 DEF Proceed

\* Rows that go take their ledgers with them and leave the others as they are.
LEMMA OrphanBooks ==
    ASSUME TypeOK, Books, NEW ts, Orphan(ts), tokenRows' = tokenRows \ ts,
           userRows' \subseteq userRows,
           UNCHANGED <<users, tokens, sessionVars, appliedUser, tests>>
    PROVE  Books'
  <1> USE DEF Orphan, sessionVars
  <1>1. Started' = Started /\ (\A u : By(u)' = By(u)) /\ (\A t : Of(t)' = Of(t))
    BY DEF Started, By, Of
  <1>2. IsFiniteSet(Started')
    BY <1>1 DEF Books
  <1>3. \A u \in userRows' : users'[u].used = tests'[u] + SumFunctionOnSet(appliedUser', By(u)')
    BY <1>1 DEF Books
  <1>4. ASSUME NEW t \in tokenRows'
        PROVE  tokens'[t].used = SumFunctionOnSet(appliedToken', Of(t)')
    <2>1. \A q \in Of(t) : appliedToken[q] = appliedToken'[q]
      BY <1>4 DEF Of
    <2>2. IsFiniteSet(Of(t))
      BY Groups DEF Books
    <2>3. SumFunctionOnSet(appliedToken, Of(t)) = SumFunctionOnSet(appliedToken', Of(t))
      BY <2>1, <2>2, SumSame
    <2> QED
      BY <1>1, <1>4, <2>3 DEF Books
  <1>5. \A q \in Requests : tid'[q] \notin tokenRows' => appliedToken'[q] = 0
    BY DEF Books
  <1>6. \A q \in Started' : q \notin orphans' => tokens'[tid'[q]].user = uid'[q]
    BY <1>1 DEF Books
  <1> QED
    BY <1>2, <1>3, <1>4, <1>5, <1>6 DEF Books

\* The admin panel's writes keep the books: an edit leaves used_quota alone, a new
\* row starts with an empty ledger, a test call is entered in the account's own.
LEMMA AdminBooks ==
    ASSUME IInv, Books, Admin
    PROVE  Books'
  <1>0. TypeOK /\ \A r \in Requests : Booked(r)
    BY DEF IInv
  <1> USE <1>0
  <1>1. ASSUME UNCHANGED <<userRows, sessionVars, appliedUser, appliedToken, orphans>>
        PROVE  /\ Started' = Started
               /\ \A u : By(u)' = By(u)
               /\ \A t : Of(t)' = Of(t)
    BY <1>1 DEF Started, By, Of, sessionVars
  <1>2. ASSUME NEW u \in Users, NEW q \in Budgets, NEW b \in BOOLEAN, UpdateUser(u, q, b)
        PROVE  Books'
    <2>1. \A x \in userRows : users'[x].used = users[x].used
      BY <1>2 DEF UpdateUser, TypeOK, UserRow
    <2> QED
      BY <1>1, <1>2, <2>1, BooksUntouched DEF UpdateUser, sessionVars, Books
  <1>3. ASSUME NEW t \in Tokens, NEW q \in Budgets, NEW b \in BOOLEAN,
               NEW s \in {"enabled", "disabled"}, UpdateToken(t, q, b, s)
        PROVE  Books'
    <2>1. \A x \in Tokens : tokens'[x].used = tokens[x].used /\ tokens'[x].user = tokens[x].user
      BY <1>3 DEF UpdateToken, TypeOK, TokenRow
    <2> QED
      BY <1>1, <1>3, <2>1, BooksUntouched DEF UpdateToken, sessionVars, Books
  <1>4. ASSUME NEW t \in Tokens, NEW u \in Users, NEW q \in Budgets, NEW b \in BOOLEAN,
               CreateToken(t, u, q, b)
        PROVE  Books'
    <2> USE <1>4 DEF CreateToken
    <2>1. t \notin tokenRows
      <3>1. t \in Nat
        BY BillingAssumption
      <3>2. \A x \in tokenRows : x < t
        OBVIOUS
      <3> QED
        BY <3>1, <3>2
    <2>2. Started' = Started /\ (\A x : By(x)' = By(x)) /\ (\A x : Of(x)' = Of(x))
      BY <1>1
    <2>3. tokens'[t].used = SumFunctionOnSet(appliedToken', Of(t)')
      <3>1. \A r \in Of(t) : appliedToken[r] = 0
        BY <2>1 DEF Of, Books
      <3>2. IsFiniteSet(Of(t))
        BY Groups DEF Books
      <3>3. SumFunctionOnSet(appliedToken, Of(t)) = 0
        BY <3>1, <3>2, SumZero
      <3>4. tokens'[t].used = 0
        BY DEF TypeOK
      <3> QED
        BY <2>2, <3>3, <3>4
    <2>4. \A x \in tokenRows : tokens'[x] = tokens[x]
      BY <2>1 DEF TypeOK
    <2>5. \A x \in tokenRows' : tokens'[x].used = SumFunctionOnSet(appliedToken', Of(x)')
      BY <2>2, <2>3, <2>4 DEF Books
    <2>6. \A x \in userRows' : users'[x].used = tests'[x] + SumFunctionOnSet(appliedUser', By(x)')
      BY <2>2 DEF Books
    <2>7. \A r \in Requests : tid'[r] \notin tokenRows' => appliedToken'[r] = 0
      BY DEF Books, sessionVars
    <2>8. \A r \in Started' : r \notin orphans' => tokens'[tid'[r]].user = uid'[r]
      <3>1. \A r \in Started : r \notin orphans => tid[r] \in tokenRows
        BY DEF Booked, Started
      <3> QED
        BY <2>2, <2>4, <3>1 DEF Books, sessionVars, Started
    <2> QED
      BY <2>2, <2>5, <2>6, <2>7, <2>8 DEF Books
  <1>5. ASSUME NEW t \in Tokens, DeleteToken(t) PROVE Books'
    BY <1>5, OrphanBooks DEF DeleteToken
  <1>6. ASSUME NEW u \in Users, DeleteUser(u) PROVE Books'
    BY <1>6, OrphanBooks DEF DeleteUser
  <1>7. ASSUME NEW u \in Users, NEW a \in Costs, TestCharge(u, a) PROVE Books'
    <2> USE <1>7 DEF TestCharge
    <2>1. Started' = Started /\ (\A x : By(x)' = By(x)) /\ (\A x : Of(x)' = Of(x))
      BY <1>1
    <2>2. a \in Int
      BY BillingAssumption
    <2>3. ASSUME NEW x \in userRows
          PROVE  users'[x].used = tests'[x] + SumFunctionOnSet(appliedUser, By(x))
      <3>1. SumFunctionOnSet(appliedUser, By(x)) \in Int
        BY Groups, SumInt DEF Books, TypeOK
      <3>2. users[x].used = tests[x] + SumFunctionOnSet(appliedUser, By(x))
        BY DEF Books
      <3>3. users[x].used \in Int /\ tests[x] \in Int
        BY DEF TypeOK, UserRow
      <3>4. users'[x].used = (IF x = u THEN users[x].used + a ELSE users[x].used)
        BY DEF TypeOK, UserRow
      <3>5. tests'[x] = (IF x = u THEN tests[x] + a ELSE tests[x])
        BY DEF TypeOK
      <3> QED
        BY <2>2, <3>1, <3>2, <3>3, <3>4, <3>5
    <2> QED
      BY <2>1, <2>3 DEF Books, sessionVars
  <1> QED
    BY <1>2, <1>3, <1>4, <1>5, <1>6, <1>7 DEF Admin

\* The books are kept by every step of the gateway.
LEMMA BooksInductive == IInv /\ Books /\ [Next]_vars => Books'
  <1> SUFFICES ASSUME IInv, Books, [Next]_vars PROVE Books'
    OBVIOUS
  <1>1. ASSUME NEW r \in Requests, Proceed(r) \/ Abandon(r) PROVE Books'
    BY <1>1, RequestBooks
  <1>2. CASE Admin
    BY <1>2, AdminBooks
  <1>3. CASE UNCHANGED vars
    BY <1>3, BooksUntouched
    DEF IInv, Books, Started, vars, dbVars, sessionVars, historyVars
  <1> QED
    BY <1>1, <1>2, <1>3 DEF Next

\* The tables start with nothing used and no request started.
LEMMA InitBooks == Init => Books
  <1> SUFFICES ASSUME Init PROVE Books
    OBVIOUS
  <1>1. Started = {} /\ (\A u : By(u) = {}) /\ (\A t : Of(t) = {})
    BY DEF Init, Started, By, Of
  <1>2. \A u \in Users : users[u].used = 0 /\ tests[u] = 0
    BY DEF Init
  <1>3. \A t \in Tokens : tokens[t].used = 0
    BY DEF Init
  <1> QED
    <2>1. \A f : SumFunctionOnSet(f, {}) = 0
      BY SumEmpty
    <2>2. userRows = Users /\ tokenRows = Tokens /\ \A r \in Requests : appliedToken[r] = 0
      BY DEF Init
    <2>3. IsFiniteSet(Started)
      BY <1>1, FS_EmptySet
    <2>4. \A u \in userRows : users[u].used = tests[u] + SumFunctionOnSet(appliedUser, By(u))
      BY <1>1, <1>2, <2>1, <2>2
    <2>5. \A t \in tokenRows : tokens[t].used = SumFunctionOnSet(appliedToken, Of(t))
      BY <1>1, <1>3, <2>1, <2>2
    <2> QED
      BY <1>1, <2>2, <2>3, <2>4, <2>5 DEF Books

\* What the books say of a state: the two ledgers.
LEMMA BooksLedgers ==
    ASSUME IInv, Books
    PROVE  Ledgers
  <1> DEFINE owed == [r \in Requests |-> Owed(r)]
             spent == [t \in Tokens |-> tokens[t].used]
             part == [t \in Tokens |-> Of(t)]
  <1> USE DEF IInv
  <1>1. /\ \A u : IsFiniteSet(By(u)) /\ By(u) \subseteq Requests
        /\ \A t : IsFiniteSet(Of(t)) /\ Of(t) \subseteq Requests
    BY Groups DEF Books
  <1>2. ASSUME NEW u \in userRows
        PROVE  SumFunctionOnSet(appliedUser, By(u)) = SumFunctionOnSet(owed, By(u))
    <2>1. \A r \in By(u) : appliedUser[r] = owed[r]
      BY DEF By, SessionExact, Exact
    <2> HIDE DEF owed
    <2> QED
      BY <1>1, <2>1, SumSame
  <1>3. UserLedger
    BY <1>2 DEF UserLedger, Books
  <1>4. ASSUME orphans = {}, NEW u \in userRows
        PROVE  users[u].used >= SumFunctionOnSet(spent, {t \in tokenRows : tokens[t].user = u})
    <2> DEFINE T == {t \in tokenRows : tokens[t].user = u}
    <2>1. IsFiniteSet(T) /\ T \subseteq Tokens
      BY BillingAssumption, FS_Subset DEF TypeOK
    <2>2. \A r \in By(u) : appliedToken[r] \in Int /\ tid[r] \in T
      BY <1>4 DEF TypeOK, By, Started, Books, Booked
    <2>3. ASSUME NEW t \in T
          PROVE  /\ part[t] \subseteq By(u) /\ (\A r \in By(u) : r \in part[t] <=> tid[r] = t)
                 /\ spent[t] = SumFunctionOnSet(appliedToken, part[t])
      <3>1. part[t] = Of(t)
        BY <2>1
      <3>2. \A r \in Of(t) : uid[r] = u
        BY <1>4 DEF Of, Started, Books, Booked
      <3>3. spent[t] = SumFunctionOnSet(appliedToken, Of(t))
        BY <2>1 DEF Books
      <3> QED
        BY <3>1, <3>2, <3>3 DEF Of, By
    <2>4. SumFunctionOnSet(spent, T) = SumFunctionOnSet(appliedToken, By(u))
      <3> HIDE DEF spent, T, part
      <3> QED
        BY <1>1, <2>1, <2>2, <2>3, SumFibres
    <2>6. \A r \in By(u) : /\ appliedToken[r] \in Int /\ appliedUser[r] \in Int
                           /\ appliedToken[r] <= appliedUser[r]
      <3>1. ASSUME NEW r \in By(u) PROVE appliedToken[r] <= appliedUser[r]
        <4>1. appliedUser[r] = Owed(r) /\ appliedToken[r] = IF unlim[r] THEN 0 ELSE Owed(r)
          BY <1>4 DEF By, SessionExact, Exact, Booked
        <4>2. Owed(r) \in Nat
          BY DEF By, Owed, TypeOK
        <4> QED
          BY <4>1, <4>2
      <3> QED
        BY <1>1, <3>1 DEF TypeOK
    <2>7. SumFunctionOnSet(appliedToken, By(u)) <= SumFunctionOnSet(appliedUser, By(u))
      BY <1>1, <2>6, SumLeq
    <2>8. /\ SumFunctionOnSet(appliedToken, By(u)) \in Int
          /\ SumFunctionOnSet(appliedUser, By(u)) \in Int
      BY <1>1, <2>6, SumInt
    <2>9. users[u].used = tests[u] + SumFunctionOnSet(appliedUser, By(u)) /\ tests[u] \in Nat
      BY DEF Books, TypeOK
    <2> HIDE DEF spent, T
    <2>10. users[u].used >= SumFunctionOnSet(spent, T)
      BY <2>4, <2>7, <2>8, <2>9
    <2> QED
      BY <2>10 DEF T
  <1>5. TokenLedger
    BY <1>4 DEF TokenLedger, Books
  <1> QED
    BY <1>3, <1>5 DEF Ledgers

\* No interleaving of pre-charges, settlements, refunds, admin writes and deletions loses
\* or invents a charge: both layers' used_quota is the sum of what the requests applied.
THEOREM LedgersBalance == Spec => []Ledgers
  BY InitIInv, InvInductive, InitBooks, BooksInductive, BooksLedgers, PTL DEF Spec

-----------------------------------------------------------------------------
(***************************************************************************)
(* A spent token is shut. settle charges, reads and marks in three strides *)
(* of the mutex, so the budget a settlement reads may already be another's *)
(* doing. What is inductive is a bound with the open sessions put back:    *)
(* they may yet be refunded, and a refund opens no gate.                   *)
(***************************************************************************)

\* The open sessions of token t.
HeldOf(t) == {r \in Of(t) : pc[r] = "held"}

\* A limited token not marked as exhausted, on which a session was settled and every
\* settlement has looked at the budget, still has something left once the open
\* sessions are given back.
Gated(t) ==
    (/\ ~tokens[t].unlimited
     /\ tokens[t].status # "exhausted"
     /\ \E r \in Of(t) : pc[r] \in {"settled", "logged"}
     /\ \A r \in Of(t) : pc[r] \notin {"reading", "marking", "leaked", "cut"})
       => tokens[t].remain + SumFunctionOnSet(pre, HeldOf(t)) > 0

\* While no admin has written, every token is gated, and a session's copy of the
\* unlimited flag is the row's.
Undisturbed ==
    adminWrites = 0 =>
       /\ tokenRows = Tokens
       /\ \A r \in Requests :
             pc[r] \notin {"idle", "authed", "rejected"} => unlim[r] = tokens[tid[r]].unlimited
       /\ \A t \in Tokens : Gated(t)

\* What Gated asks does not change with a step of r when r is not with token t ...
LEMMA GatedElsewhere ==
    ASSUME TypeOK, NEW t \in Tokens, Gated(t), IsFiniteSet(Started), NEW r \in Requests,
           NEW step, GoTo(r, step), r \notin Of(t), r \notin Of(t)',
           \A q \in Requests : q # r => tid'[q] = tid[q] /\ pre'[q] = pre[q],
           UNCHANGED tokens[t]
    PROVE  Gated(t)'
  <1>1. Of(t)' = Of(t) /\ \A q \in Of(t) : pc'[q] = pc[q] /\ pre'[q] = pre[q]
    BY DEF Of, GoTo, TypeOK
  <1>2. HeldOf(t)' = HeldOf(t) /\ IsFiniteSet(HeldOf(t)) /\ HeldOf(t) \subseteq Of(t)
    BY <1>1, Groups, FS_Subset DEF HeldOf
  <1>3. SumFunctionOnSet(pre, HeldOf(t)) = SumFunctionOnSet(pre', HeldOf(t))
    BY <1>1, <1>2, SumSame
  <1> QED
    BY <1>1, <1>2, <1>3 DEF Gated

\* ... and with a step of one of its requests it can only if the request opens or
\* closes its session.
LEMMA GatedBeside ==
    ASSUME TypeOK, NEW t \in Tokens, Gated(t), IsFiniteSet(Started), NEW r \in Of(t),
           NEW step, GoTo(r, step), UNCHANGED <<tid, tokens[t].remain, tokens[t].unlimited>>,
           step # "idle",
           tokens'[t].status # "exhausted" => tokens[t].status # "exhausted",
           \A q \in Requests : q # r => pre'[q] = pre[q],
           (pc[r] = "held" \/ step = "held") => pc[r] = step /\ pre'[r] = pre[r],
           \/ step \in {"reading", "marking", "leaked", "cut"}
           \/ /\ pc[r] \notin {"reading", "marking", "leaked", "cut"}
              /\ step \in {"settled", "logged"} => pc[r] \in {"settled", "logged"}
    PROVE  Gated(t)'
  <1>1. r \in Requests /\ Of(t)' = Of(t) /\ Of(t) \subseteq Requests
        /\ pc'[r] = step /\ \A q \in Of(t) : q # r => pc'[q] = pc[q]
    BY DEF Of, GoTo, TypeOK
  <1>2. HeldOf(t)' = HeldOf(t)
    BY <1>1 DEF HeldOf
  <1>3. IsFiniteSet(HeldOf(t)) /\ HeldOf(t) \subseteq Of(t)
    BY Groups, FS_Subset DEF HeldOf
  <1>4. SumFunctionOnSet(pre, HeldOf(t)) = SumFunctionOnSet(pre', HeldOf(t))
    <2>1. \A q \in HeldOf(t) : pre[q] = pre'[q]
      BY <1>1 DEF HeldOf
    <2> QED
      BY <1>3, <2>1, SumSame
  <1>5. CASE step \in {"reading", "marking", "leaked", "cut"}
    BY <1>1, <1>5 DEF Gated
  <1>6. CASE /\ step \notin {"reading", "marking", "leaked", "cut"}
             /\ pc[r] \notin {"reading", "marking", "leaked", "cut"}
             /\ step \in {"settled", "logged"} => pc[r] \in {"settled", "logged"}
    BY <1>1, <1>2, <1>4, <1>6 DEF Gated
  <1> QED
    BY <1>5, <1>6

\* Opening a session holds back from the budget what the transaction takes from it.
LEMMA GatedOpen ==
    ASSUME TypeOK, NEW t \in Tokens, Gated(t), IsFiniteSet(Started), NEW r \in Of(t),
           GoTo(r, "held"), pc[r] \in {"authed", "precharging"},
           UNCHANGED <<tid, tokens[t].unlimited, tokens[t].status>>,
           pre' \in [Requests -> Nat], \A q \in Requests : q # r => pre'[q] = pre[q],
           ~tokens[t].unlimited => tokens'[t].remain = tokens[t].remain - pre'[r]
    PROVE  Gated(t)'
  <1>1. r \in Requests /\ Of(t)' = Of(t) /\ Of(t) \subseteq Requests
        /\ pc'[r] = "held" /\ \A q \in Of(t) : q # r => pc'[q] = pc[q]
    BY DEF Of, GoTo, TypeOK
  <1>2. HeldOf(t)' = HeldOf(t) \cup {r} /\ r \notin HeldOf(t)
    BY <1>1 DEF HeldOf
  <1>3. IsFiniteSet(HeldOf(t)) /\ HeldOf(t) \subseteq Of(t)
    BY Groups, FS_Subset DEF HeldOf
  <1>4. /\ SumFunctionOnSet(pre', HeldOf(t)') = pre'[r] + SumFunctionOnSet(pre', HeldOf(t))
        /\ SumFunctionOnSet(pre', HeldOf(t)) = SumFunctionOnSet(pre, HeldOf(t))
        /\ SumFunctionOnSet(pre, HeldOf(t)) \in Int
    <2>1. \A q \in HeldOf(t) \cup {r} : pre'[q] \in Int
      BY <1>1, <1>3
    <2>2. \A q \in HeldOf(t) : pre'[q] = pre[q] /\ pre[q] \in Int
      BY <1>1, <1>2, <1>3 DEF TypeOK
    <2>3. SumFunctionOnSet(pre', HeldOf(t)') = pre'[r] + SumFunctionOnSet(pre', HeldOf(t))
      BY <1>2, <1>3, <2>1, SumAdd
    <2>4. SumFunctionOnSet(pre', HeldOf(t)) = SumFunctionOnSet(pre, HeldOf(t))
      BY <1>3, <2>2, SumSame
    <2>5. SumFunctionOnSet(pre, HeldOf(t)) \in Int
      BY <1>3, <2>2, SumInt
    <2> QED
      BY <2>3, <2>4, <2>5
  <1>5. tokens[t].remain \in Int /\ pre'[r] \in Int
    BY <1>1 DEF TypeOK, TokenRow
  <1>6. ASSUME ~tokens'[t].unlimited, tokens'[t].status # "exhausted",
               NEW q \in Of(t)', pc'[q] \in {"settled", "logged"},
               \A p \in Of(t)' : pc'[p] \notin {"reading", "marking", "leaked", "cut"}
        PROVE  tokens'[t].remain + SumFunctionOnSet(pre', HeldOf(t)') > 0
    <2>1. tokens[t].remain + SumFunctionOnSet(pre, HeldOf(t)) > 0
      BY <1>1, <1>6 DEF Gated
    <2>2. tokens'[t].remain = tokens[t].remain - pre'[r]
      BY <1>6
    <2> QED
      BY <1>4, <1>5, <2>1, <2>2
  <1> QED
    BY <1>6 DEF Gated

\* A refund gives to the budget what the session held.
LEMMA GatedRefund ==
    ASSUME TypeOK, NEW t \in Tokens, Gated(t), IsFiniteSet(Started), NEW r \in Of(t),
           GoTo(r, "refunded"), pc[r] = "held",
           UNCHANGED <<tid, pre, tokens[t].unlimited, tokens[t].status>>,
           ~tokens[t].unlimited => tokens'[t].remain = tokens[t].remain + pre[r]
    PROVE  Gated(t)'
  <1>1. r \in Requests /\ Of(t)' = Of(t) /\ Of(t) \subseteq Requests
        /\ pc'[r] = "refunded" /\ \A q \in Of(t) : q # r => pc'[q] = pc[q]
    BY DEF Of, GoTo, TypeOK
  <1>2. HeldOf(t)' = HeldOf(t) \ {r} /\ r \in HeldOf(t)
    BY <1>1 DEF HeldOf
  <1>3. IsFiniteSet(HeldOf(t)) /\ HeldOf(t) \subseteq Of(t)
    BY Groups, FS_Subset DEF HeldOf
  <1>4. \A q \in HeldOf(t) : pre[q] \in Int
    BY <1>1, <1>3 DEF TypeOK
  <1>5. SumFunctionOnSet(pre, HeldOf(t)) = pre[r] + SumFunctionOnSet(pre, HeldOf(t) \ {r})
    BY <1>2, <1>3, <1>4, SumRemove
  <1>6. SumFunctionOnSet(pre, HeldOf(t) \ {r}) \in Int
    <2>1. IsFiniteSet(HeldOf(t) \ {r})
      BY <1>3, FS_Subset
    <2> QED
      BY <1>4, <2>1, SumInt
  <1>7. tokens[t].remain \in Int /\ pre[r] \in Int
    BY <1>1 DEF TypeOK, TokenRow
  <1>8. ASSUME ~tokens'[t].unlimited, tokens'[t].status # "exhausted",
               NEW q \in Of(t)', pc'[q] \in {"settled", "logged"},
               \A p \in Of(t)' : pc'[p] \notin {"reading", "marking", "leaked", "cut"}
        PROVE  tokens'[t].remain + SumFunctionOnSet(pre', HeldOf(t)') > 0
    <2>1. tokens[t].remain + SumFunctionOnSet(pre, HeldOf(t)) > 0
      BY <1>1, <1>8 DEF Gated
    <2>2. tokens'[t].remain = tokens[t].remain + pre[r]
      BY <1>8
    <2> QED
      BY <1>2, <1>5, <1>6, <1>7, <2>1, <2>2
  <1> QED
    BY <1>8 DEF Gated

\* A request that arrives changes nothing either: it has no session yet.
LEMMA GatedArrival ==
    ASSUME TypeOK, NEW t \in Tokens, Gated(t), IsFiniteSet(Started), NEW r \in Requests,
           pc[r] = "idle", GoTo(r, "authed"), tid' = [tid EXCEPT ![r] = t],
           UNCHANGED <<tokens, pre>>
    PROVE  Gated(t)'
  <1>1. Of(t)' = Of(t) \cup {r} /\ r \notin Of(t) /\ Of(t) \subseteq Requests
        /\ pc'[r] = "authed" /\ \A q \in Of(t) : pc'[q] = pc[q]
    BY DEF Of, GoTo, TypeOK
  <1>2. HeldOf(t)' = HeldOf(t)
    BY <1>1 DEF HeldOf
  <1> QED
    BY <1>1, <1>2 DEF Gated

\* A transaction leaves the rows of other tokens alone, and of its own the flag, the
\* status and, when the session skips it, the budget.
LEMMA ChargeToken ==
    ASSUME TypeOK, tokenRows = Tokens, NEW r \in Requests, NEW amount \in Int, Charge(r, amount),
           unlim[r] = tokens[tid[r]].unlimited
    PROVE  /\ \A t \in Tokens : t # tid[r] => tokens'[t] = tokens[t]
           /\ tokens'[tid[r]].unlimited = tokens[tid[r]].unlimited
           /\ tokens'[tid[r]].status = tokens[tid[r]].status
           /\ ~tokens[tid[r]].unlimited =>
                 tokens'[tid[r]].remain = tokens[tid[r]].remain - amount
  <1>1. tid[r] \in Tokens /\ tokens[tid[r]] \in TokenRow /\ tokens \in [Tokens -> TokenRow]
    BY DEF TypeOK
  <1>2. CASE unlim[r]
    <2>1. tokens' = tokens
      BY <1>2 DEF Charge
    <2>2. /\ tokens'[tid[r]].unlimited = tokens[tid[r]].unlimited
          /\ tokens'[tid[r]].status = tokens[tid[r]].status
      BY <2>1, Zenon
    <2> QED
      BY <1>2, <2>1, <2>2, Zenon
  <1>3. CASE ~unlim[r]
    <2>1. tokens' = [tokens EXCEPT ![tid[r]].remain = @ - amount, ![tid[r]].used = @ + amount]
      BY <1>1, <1>3 DEF Charge
    <2> DEFINE row == tokens[tid[r]]
               after == [row EXCEPT !.remain = @ - amount, !.used = @ + amount]
    <2>2. tokens' = [tokens EXCEPT ![tid[r]] = after]
      BY <2>1
    <2>3. tokens'[tid[r]] = after
      BY <1>1, <2>2
    <2>4. /\ after.unlimited = row.unlimited /\ after.status = row.status
          /\ after.remain = row.remain - amount
      BY <1>1 DEF TokenRow
    <2>5. \A t \in Tokens : t # tid[r] => tokens'[t] = tokens[t]
      BY <1>1, <2>2
    <2> HIDE DEF after
    <2> QED
      BY <2>3, <2>4, <2>5, Zenon
  <1> QED
    BY <1>2, <1>3

\* Every step of a request keeps the budgets gated, as long as no admin has written.
LEMMA RequestUndisturbed ==
    ASSUME IInv, IsFiniteSet(Started), Undisturbed, NEW r \in Requests, Proceed(r) \/ Abandon(r)
    PROVE  Undisturbed'
  <1>1. SUFFICES ASSUME adminWrites = 0
                 PROVE  /\ tokenRows' = Tokens
                        /\ \A q \in Requests : pc'[q] \notin {"idle", "authed", "rejected"} =>
                              unlim'[q] = tokens'[tid'[q]].unlimited
                        /\ \A t \in Tokens : Gated(t)'
    <2>1. adminWrites' = adminWrites
      BY DEF Proceed, Authenticate, ReadUnlimited, PreCharge, PreChargeRefused, Settle,
             ReadRemain, MarkExhausted, Refund, LogUsage, Abandon, Charge, historyVars
    <2> QED
      BY <1>1, <2>1 DEF Undisturbed
  <1>2. /\ TypeOK /\ tokenRows = Tokens
        /\ \A q \in Requests : pc[q] \notin {"idle", "authed", "rejected"} =>
              unlim[q] = tokens[tid[q]].unlimited
        /\ \A t \in Tokens : Gated(t)
    BY <1>1 DEF IInv, Undisturbed
  <1>3. tokenRows' = Tokens
    BY <1>2
    DEF Proceed, Authenticate, ReadUnlimited, PreCharge, PreChargeRefused, Settle,
        ReadRemain, MarkExhausted, Refund, LogUsage, Abandon, Charge, dbVars
  <1>4. pc[r] # "idle" => r \in Of(tid[r]) /\ tid[r] \in Tokens
    BY <1>2 DEF Of, TypeOK
  <1> DEFINE Flags == \A q \in Requests : pc'[q] \notin {"idle", "authed", "rejected"} =>
                         unlim'[q] = tokens'[tid'[q]].unlimited
             Gates == \A t \in Tokens : Gated(t)'
  <1>5. ASSUME NEW step, GoTo(r, step), UNCHANGED tid, pc[r] # "idle",
               \A q \in Requests : q # r => pre'[q] = pre[q],
               \A t \in Tokens : t # tid[r] => tokens'[t] = tokens[t],
               Gated(tid[r])', step # "idle"
        PROVE  Gates
    <2>1. ASSUME NEW t \in Tokens, t # tid[r] PROVE Gated(t)'
      <3>1. r \notin Of(t) /\ r \notin Of(t)'
        BY <1>5, <2>1 DEF Of
      <3>2. \A q \in Requests : q # r => tid'[q] = tid[q] /\ pre'[q] = pre[q]
        BY <1>5
      <3>3. UNCHANGED tokens[t]
        BY <1>5, <2>1
      <3> QED
        BY <1>2, <1>5, <3>1, <3>2, <3>3, GatedElsewhere
    <2> QED
      BY <1>5, <2>1
  <1>6. ASSUME NEW step, GoTo(r, step), step # "idle",
               UNCHANGED <<tid, unlim>>, pc[r] \notin {"idle", "authed", "rejected"},
               \A t \in Tokens : tokens'[t].unlimited = tokens[t].unlimited
        PROVE  Flags
    BY <1>2, <1>6 DEF GoTo, TypeOK
  <1>7. ASSUME NEW step, GoTo(r, step), UNCHANGED <<tid, tokens, pre>>, pc[r] # "idle",
               step # "idle",
               (pc[r] = "held" \/ step = "held") => pc[r] = step,
               \/ step \in {"reading", "marking", "leaked", "cut"}
               \/ /\ pc[r] \notin {"reading", "marking", "leaked", "cut"}
                  /\ step \in {"settled", "logged"} => pc[r] \in {"settled", "logged"}
        PROVE  Gates
    <2>1. Gated(tid[r])'
      BY <1>2, <1>4, <1>7, GatedBeside
    <2> QED
      BY <1>5, <1>7, <2>1
  <1>8. ASSUME NEW t \in Tokens, Authenticate(r, t) PROVE Flags /\ Gates
    <2> USE <1>8 DEF Authenticate, dbVars, historyVars
    <2>1. Flags
      BY <1>2 DEF GoTo, TypeOK
    <2>2. ASSUME NEW x \in Tokens PROVE Gated(x)'
      <3>1. CASE x = t
        BY <1>2, <3>1, GatedArrival
      <3>2. CASE x # t
        <4>1. r \notin Of(x) /\ r \notin Of(x)'
          BY <1>2, <3>2 DEF Of, TypeOK
        <4>2. \A q \in Requests : q # r => tid'[q] = tid[q] /\ pre'[q] = pre[q]
          BY <1>2 DEF TypeOK
        <4>3. GoTo(r, "authed") /\ UNCHANGED tokens[x]
          OBVIOUS
        <4> QED
          BY <1>2, <4>1, <4>2, <4>3, GatedElsewhere
      <3> QED
        BY <3>1, <3>2
    <2> QED
      BY <2>1, <2>2
  <1>9. ASSUME NEW e \in Estimates, ReadUnlimited(r, e) PROVE Flags /\ Gates
    <2>1. /\ pc[r] = "authed" /\ tid[r] \in Tokens /\ e \in Nat
          /\ unlim' = [unlim EXCEPT ![r] = tokens[tid[r]].unlimited]
          /\ pre' = [pre EXCEPT ![r] = e]
          /\ GoTo(r, IF e = 0 THEN "held" ELSE "precharging")
          /\ UNCHANGED <<tid, tokens>>
      BY <1>2, <1>9, BillingAssumption DEF ReadUnlimited, dbVars, TypeOK
    <2>2. Flags
      BY <1>2, <2>1 DEF GoTo, TypeOK
    <2>3. pre' \in [Requests -> Nat] /\ \A q \in Requests : q # r => pre'[q] = pre[q]
      BY <1>2, <2>1 DEF TypeOK
    <2>4. Gated(tid[r])'
      <3>1. CASE e = 0
        <4>1. /\ GoTo(r, "held") /\ pre'[r] = 0 /\ tokens[tid[r]].remain \in Int
          BY <1>2, <2>1, <3>1 DEF TypeOK, TokenRow
        <4>2. tokens'[tid[r]].remain = tokens[tid[r]].remain - pre'[r]
          BY <2>1, <4>1
        <4> QED
          BY <1>2, <1>4, <2>1, <2>3, <4>1, <4>2, GatedOpen
      <3>2. CASE e # 0
        BY <1>2, <1>4, <2>1, <2>3, <3>2, GatedBeside
      <3> QED
        BY <3>1, <3>2
    <2>5. Gates
      <3>1. PICK step \in {"held", "precharging"} : GoTo(r, step)
        BY <2>1
      <3> QED
        BY <1>5, <2>1, <2>3, <2>4, <3>1
    <2> QED
      BY <2>2, <2>5
  <1>10. ASSUME PreCharge(r) PROVE Flags /\ Gates
    <2>1. /\ pc[r] = "precharging" /\ pre[r] \in Int /\ Charge(r, pre[r])
          /\ GoTo(r, "held") /\ UNCHANGED <<tid, unlim, pre>>
          /\ unlim[r] = tokens[tid[r]].unlimited
      BY <1>2, <1>10 DEF PreCharge, TypeOK
    <2>2. /\ \A t \in Tokens : t # tid[r] => tokens'[t] = tokens[t]
          /\ tokens'[tid[r]].unlimited = tokens[tid[r]].unlimited
          /\ tokens'[tid[r]].status = tokens[tid[r]].status
          /\ ~tokens[tid[r]].unlimited =>
                tokens'[tid[r]].remain = tokens[tid[r]].remain - pre[r]
      BY <1>2, <2>1, ChargeToken
    <2>3. Gated(tid[r])'
      BY <1>2, <1>4, <2>1, <2>2, GatedOpen DEF TypeOK
    <2>4. Gates
      BY <1>5, <2>1, <2>2, <2>3
    <2> QED
      BY <1>6, <2>1, <2>2, <2>4
  <1>11. ASSUME PreChargeRefused(r) PROVE Flags /\ Gates
    <2>1. /\ pc[r] = "precharging" /\ GoTo(r, "rejected")
          /\ UNCHANGED <<tid, unlim, tokens, pre>>
      BY <1>11 DEF PreChargeRefused, dbVars
    <2> QED
      BY <1>6, <1>7, <2>1
  <1>12. ASSUME NEW c \in Costs, Settle(r, c) PROVE Flags /\ Gates
    <2>1. /\ pc[r] = "held" /\ c - pre[r] \in Int /\ Charge(r, c - pre[r])
          /\ GoTo(r, IF unlim[r] THEN "settled" ELSE "reading")
          /\ UNCHANGED <<tid, unlim, pre>>
          /\ unlim[r] = tokens[tid[r]].unlimited
      BY <1>2, <1>12, BillingAssumption DEF Settle, TypeOK
    <2>2. /\ \A t \in Tokens : t # tid[r] => tokens'[t] = tokens[t]
          /\ tokens'[tid[r]].unlimited = tokens[tid[r]].unlimited
          /\ tokens'[tid[r]].status = tokens[tid[r]].status
      BY <1>2, <2>1, ChargeToken
    <2>3. Gated(tid[r])'
      <3>1. CASE unlim[r]
        BY <2>1, <2>2, <3>1 DEF Gated
      <3>2. CASE ~unlim[r]
        <4>1. pc'[r] = "reading" /\ r \in Of(tid[r])'
          BY <1>2, <2>1, <3>2 DEF GoTo, TypeOK, Of
        <4> QED
          BY <2>1, <4>1 DEF Gated
      <3> QED
        BY <3>1, <3>2
    <2>4. PICK step \in {"settled", "reading"} : GoTo(r, step)
      BY <2>1
    <2>5. Gates
      BY <1>5, <2>1, <2>2, <2>3, <2>4
    <2> QED
      BY <1>6, <2>1, <2>2, <2>4, <2>5
  <1>13. ASSUME ReadRemain(r) PROVE Flags /\ Gates
    <2>1. /\ pc[r] = "reading" /\ tid[r] \in Tokens
          /\ GoTo(r, IF tokens[tid[r]].remain <= 0 THEN "marking" ELSE "settled")
          /\ UNCHANGED <<tid, unlim, tokens, pre>>
      BY <1>2, <1>13 DEF ReadRemain, dbVars, TypeOK
    <2>2. CASE tokens[tid[r]].remain <= 0
      BY <1>6, <1>7, <2>1, <2>2
    <2>3. CASE ~(tokens[tid[r]].remain <= 0)
      <3>1. GoTo(r, "settled")
        BY <2>1, <2>3
      <3>2. tokens[tid[r]].remain \in Int /\ tokens[tid[r]].remain > 0
        BY <1>2, <2>1, <2>3 DEF TypeOK, TokenRow
      <3>3. SumFunctionOnSet(pre', HeldOf(tid[r])') \in Nat
        <4>1. Started' = Started
          BY <1>2, <2>1, <3>1 DEF GoTo, Started, TypeOK
        <4>2. HeldOf(tid[r])' \subseteq Started' /\ HeldOf(tid[r])' \subseteq Requests
          BY DEF HeldOf, Of, Started
        <4>3. IsFiniteSet(HeldOf(tid[r])')
          BY <4>1, <4>2, FS_Subset
        <4>4. \A q \in HeldOf(tid[r])' : pre'[q] \in Nat
          BY <1>2, <2>1, <4>2 DEF TypeOK
        <4> QED
          BY <4>3, <4>4, SumNonneg
      <3>4. Gated(tid[r])'
        BY <2>1, <3>2, <3>3 DEF Gated
      <3>5. Gates
        BY <1>5, <2>1, <3>1, <3>4
      <3> QED
        BY <1>6, <2>1, <3>1, <3>5
    <2> QED
      BY <2>2, <2>3
  <1>14. ASSUME MarkExhausted(r) PROVE Flags /\ Gates
    <2>1. /\ pc[r] = "marking" /\ tid[r] \in Tokens
          /\ tokens' = [tokens EXCEPT ![tid[r]].status = "exhausted"]
          /\ GoTo(r, "settled") /\ UNCHANGED <<tid, unlim, pre>>
      BY <1>2, <1>14 DEF MarkExhausted, TypeOK
    <2>2. /\ \A t \in Tokens : t # tid[r] => tokens'[t] = tokens[t]
          /\ \A t \in Tokens : tokens'[t].unlimited = tokens[t].unlimited
          /\ tokens'[tid[r]].status = "exhausted"
      BY <1>2, <2>1 DEF TypeOK, TokenRow
    <2>3. Gated(tid[r])'
      BY <2>1, <2>2 DEF Gated
    <2>4. Gates
      BY <1>5, <2>1, <2>2, <2>3
    <2> QED
      BY <1>6, <2>1, <2>2, <2>4
  <1>15. ASSUME Refund(r) PROVE Flags /\ Gates
    <2>1. /\ pc[r] = "held" /\ pre[r] \in Int /\ -pre[r] \in Int /\ Charge(r, -pre[r])
          /\ GoTo(r, "refunded") /\ UNCHANGED <<tid, unlim, pre>>
          /\ unlim[r] = tokens[tid[r]].unlimited /\ tokens[tid[r]].remain \in Int
      BY <1>2, <1>15 DEF Refund, TypeOK, TokenRow
    <2>2. /\ \A t \in Tokens : t # tid[r] => tokens'[t] = tokens[t]
          /\ tokens'[tid[r]].unlimited = tokens[tid[r]].unlimited
          /\ tokens'[tid[r]].status = tokens[tid[r]].status
          /\ ~tokens[tid[r]].unlimited =>
                tokens'[tid[r]].remain = tokens[tid[r]].remain - (-pre[r])
      BY <1>2, <2>1, ChargeToken
    <2>3. ~tokens[tid[r]].unlimited => tokens'[tid[r]].remain = tokens[tid[r]].remain + pre[r]
      BY <2>1, <2>2
    <2>4. Gated(tid[r])'
      BY <1>2, <1>4, <2>1, <2>2, <2>3, GatedRefund
    <2>5. Gates
      BY <1>5, <2>1, <2>2, <2>4
    <2> QED
      BY <1>6, <2>1, <2>2, <2>5
  <1>16. ASSUME LogUsage(r) PROVE Flags /\ Gates
    <2>1. /\ pc[r] \in {"held", "settled"}
          /\ GoTo(r, IF pc[r] = "settled" THEN "logged" ELSE "held")
          /\ UNCHANGED <<tid, unlim, tokens, pre>>
      BY <1>16 DEF LogUsage
    <2>2. CASE pc[r] = "settled"
      BY <1>6, <1>7, <2>1, <2>2
    <2>3. CASE pc[r] = "held"
      BY <1>6, <1>7, <2>1, <2>3
    <2> QED
      BY <2>1, <2>2, <2>3
  <1>17. ASSUME Abandon(r) PROVE Flags /\ Gates
    <2>1. UNCHANGED <<tid, unlim, tokens, pre>>
      BY <1>17 DEF Abandon, dbVars
    <2>2. CASE pc[r] \in {"authed", "precharging"} /\ GoTo(r, "rejected")
      <3>1. Flags
        BY <1>2, <2>1, <2>2 DEF GoTo, TypeOK
      <3> QED
        BY <1>7, <2>1, <2>2, <3>1
    <2>3. CASE pc[r] = "held" /\ GoTo(r, "leaked")
      <3>1. Flags
        BY <1>6, <2>1, <2>3
      <3>2. Gated(tid[r])'
        <4>1. pc'[r] = "leaked" /\ r \in Of(tid[r])'
          BY <1>2, <2>1, <2>3 DEF GoTo, TypeOK, Of
        <4> QED
          BY <2>1, <4>1 DEF Gated
      <3> QED
        BY <1>5, <2>1, <2>3, <3>1, <3>2
    <2>4. CASE pc[r] \in {"reading", "marking"} /\ GoTo(r, "cut")
      BY <1>6, <1>7, <2>1, <2>4
    <2> QED
      BY <1>17, <2>2, <2>3, <2>4 DEF Abandon
  <1> HIDE DEF Flags, Gates
  <1>18. Flags /\ Gates
    BY <1>8, <1>9, <1>10, <1>11, <1>12, <1>13, <1>14, <1>15, <1>16, <1>17 DEF Proceed
  <1> QED
    BY <1>3, <1>18 DEF Flags, Gates

\* No admin write ever un-happens; without one the gates hold after every step.
LEMMA UndisturbedInductive ==
    IInv /\ IsFiniteSet(Started) /\ Undisturbed /\ [Next]_vars => Undisturbed'
  <1> SUFFICES ASSUME IInv, IsFiniteSet(Started), Undisturbed, [Next]_vars
               PROVE  Undisturbed'
    OBVIOUS
  <1>1. ASSUME NEW r \in Requests, Proceed(r) \/ Abandon(r) PROVE Undisturbed'
    BY <1>1, RequestUndisturbed
  <1>2. CASE Admin
    <2>1. adminWrites' = adminWrites + 1 /\ adminWrites \in Nat
      BY <1>2
      DEF IInv, TypeOK, Admin, AdminWrite, UpdateUser, UpdateToken, CreateToken,
          DeleteToken, DeleteUser, TestCharge
    <2> QED
      BY <2>1 DEF Undisturbed
  <1>3. CASE UNCHANGED vars
    BY <1>3 DEF Undisturbed, Gated, HeldOf, Of, vars, dbVars, sessionVars, historyVars
  <1> QED
    BY <1>1, <1>2, <1>3 DEF Next

\* A gate with no session open is a budget with something left.
LEMMA UndisturbedShut == IInv /\ Undisturbed => SpentTokenIsShut
  <1> SUFFICES ASSUME IInv, Undisturbed, NEW t \in tokenRows, adminWrites = 0,
                      \A r \in Of(t) : pc[r] \notin {"held", "reading", "marking", "leaked", "cut"},
                      NEW q \in Of(t), pc[q] \in {"settled", "logged"}, ~unlim[q],
                      tokens[t].remain <= 0
               PROVE  tokens[t].status = "exhausted"
    BY DEF SpentTokenIsShut
  <1>1. t \in Tokens /\ tokens[t].remain \in Int
    BY DEF IInv, TypeOK, TokenRow
  <1>2. ~tokens[t].unlimited
    BY DEF Undisturbed, Of
  <1>3. SumFunctionOnSet(pre, HeldOf(t)) = 0
    <2>1. HeldOf(t) = {}
      BY DEF HeldOf
    <2> QED
      BY <2>1, SumEmpty
  <1>4. Gated(t)
    BY <1>1 DEF Undisturbed
  <1> QED
    BY <1>1, <1>2, <1>3, <1>4 DEF Gated

\* Once every session on it is settled or refunded, a limited token with nothing left
\* is marked exhausted, although settle reads and writes in separate strides.
THEOREM SpentTokensAreShut == Spec => []SpentTokenIsShut
  <1>1. Init => Undisturbed
    BY DEF Init, Undisturbed, Gated, Of
  <1>2. Books => IsFiniteSet(Started)
    BY DEF Books
  <1> QED
    BY <1>1, <1>2, InitIInv, InvInductive, InitBooks, BooksInductive, UndisturbedInductive,
       UndisturbedShut, PTL DEF Spec
=============================================================================
