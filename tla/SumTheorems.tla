---------------------------- MODULE SumTheorems ----------------------------
(***************************************************************************)
(* Sums over finite sets, which MapThenSumSet of the community modules     *)
(* computes by a recursive function.  Induction is on sets: in a non-empty *)
(* set of finite subsets of S there is one that is minimal for inclusion.  *)
(***************************************************************************)
EXTENDS Integers, FiniteSetsExt, FiniteSetTheorems, TLAPS

\* What w maps the members of S to, added up.
SumOver(w, S) == MapThenSumSet(LAMBDA x : w[x], S)

\* The recursion behind it: g is the sum over every subset of S.
First(s) == CHOOSE x \in s : TRUE
Sums(g, w, S) ==
    g = [s \in SUBSET S |-> IF s = {} THEN 0 ELSE w[First(s)] + g[s \ {First(s)}]]

\* A set of subsets of a finite set has a minimal member.
LEMMA MinimalSubset ==
    ASSUME NEW S, IsFiniteSet(S), NEW C \in SUBSET SUBSET S, C # {}
    PROVE  \E s \in C : \A r \in C : r \subseteq s => r = s
<1>1. C \subseteq FiniteSubsetsOf(S)
  BY FS_Subset DEF FiniteSubsetsOf
<1>2. PICK s \in C : \A r \in C : ~ (<<r, s>> \in StrictSubsetOrdering(S))
  BY <1>1, FS_StrictSubsetOrderingWellFounded, WFMin
<1> QED
  BY <1>2 DEF StrictSubsetOrdering

LEMMA FirstIn == ASSUME NEW s, s # {} PROVE First(s) \in s
BY DEF First

\* Two recursions agree wherever their functions do.
LEMMA SumsAgree ==
    ASSUME NEW S, IsFiniteSet(S), NEW T, NEW w, NEW v, NEW g, NEW h,
           Sums(g, w, S), Sums(h, v, T), S \subseteq T, \A x \in S : w[x] = v[x]
    PROVE  \A s \in SUBSET S : g[s] = h[s]
<1> DEFINE C == {s \in SUBSET S : g[s] # h[s]}
<1> SUFFICES ASSUME C # {} PROVE FALSE
  OBVIOUS
<1>1. PICK s \in C : \A r \in C : r \subseteq s => r = s
  <2> HIDE DEF C
  <2>1. C \in SUBSET SUBSET S
    BY DEF C
  <2> QED
    BY <2>1, MinimalSubset
<1>2. s # {}
  BY DEF Sums
<1>3. g[s \ {First(s)}] = h[s \ {First(s)}]
  BY <1>1, <1>2, FirstIn
<1>4. s \in SUBSET S /\ s \in SUBSET T /\ First(s) \in s
  BY <1>2, FirstIn
<1>5. g[s] = w[First(s)] + g[s \ {First(s)}]
  BY <1>2, <1>4 DEF Sums
<1>6. h[s] = v[First(s)] + h[s \ {First(s)}]
  BY <1>2, <1>4 DEF Sums
<1>7. w[First(s)] = v[First(s)]
  BY <1>4
<1> HIDE DEF C
<1>8. g[s] # h[s]
  BY DEF C
<1> QED
  BY <1>3, <1>5, <1>6, <1>7, <1>8

\* The recursion is well-founded: sums of finite sets exist.
LEMMA SumsExist ==
    ASSUME NEW S, IsFiniteSet(S), NEW w
    PROVE  \E g : Sums(g, w, S)
<1> DEFINE C == {s \in SUBSET S : ~ \E g : Sums(g, w, s)}
<1> SUFFICES ASSUME C # {} PROVE FALSE
  OBVIOUS
<1>1. PICK s \in C : \A r \in C : r \subseteq s => r = s
  <2> HIDE DEF C
  <2>1. C \in SUBSET SUBSET S
    BY DEF C
  <2> QED
    BY <2>1, MinimalSubset
<1> DEFINE G(r) == CHOOSE g : Sums(g, w, r)
           t == s \ {First(s)}
           h == [r \in SUBSET s |->
                   IF r = {} THEN 0 ELSE IF r = s THEN w[First(s)] + G(t)[t] ELSE G(r)[r]]
<1>2. ASSUME NEW r \in SUBSET s, r # s PROVE Sums(G(r), w, r)
  <2>1. \E g : Sums(g, w, r)
    BY <1>1, <1>2
  <2> QED
    BY <2>1
<1>3. ASSUME NEW r \in SUBSET s, r # {}, r # s
      PROVE  G(r)[r] = w[First(r)] + G(r \ {First(r)})[r \ {First(r)}]
  <2> DEFINE q == r \ {First(r)}
  <2>1. First(r) \in r /\ q \in SUBSET r /\ q \in SUBSET s /\ q # s
    BY <1>3, FirstIn
  <2>2. Sums(G(r), w, r) /\ Sums(G(q), w, q)
    BY <1>2, <1>3, <2>1
  <2>3. IsFiniteSet(q)
    BY <1>1, <2>1, FS_Subset
  <2> HIDE DEF G, q
  <2>4. G(r)[q] = G(q)[q]
    BY <2>1, <2>2, <2>3, SumsAgree
  <2>5. G(r)[r] = w[First(r)] + G(r)[q]
    BY <1>3, <2>2 DEF Sums, q
  <2> QED
    BY <2>4, <2>5 DEF q
<1>4. G({})[{}] = 0 \/ s = {}
  BY <1>2 DEF Sums
<1>5. h[{}] = 0
  OBVIOUS
<1>6. ASSUME NEW r \in SUBSET s, r # s PROVE h[r] = G(r)[r]
  BY <1>4, <1>6
<1>7. ASSUME NEW r \in SUBSET s, r # {} PROVE h[r] = w[First(r)] + h[r \ {First(r)}]
  <2>1. First(r) \in r /\ r \ {First(r)} \in SUBSET s /\ r \ {First(r)} # s
    BY <1>7, FirstIn
  <2>2. h[r \ {First(r)}] = G(r \ {First(r)})[r \ {First(r)}]
    BY <1>6, <2>1
  <2>3. h[r] = IF r = s THEN w[First(s)] + G(t)[t] ELSE G(r)[r]
    BY <1>7
  <2> HIDE DEF h, G
  <2> QED
    BY <1>3, <1>7, <2>2, <2>3
<1>8. Sums(h, w, s)
  <2>1. h = [r \in SUBSET s |-> h[r]]
    OBVIOUS
  <2> HIDE DEF h
  <2> QED
    BY <1>5, <1>7, <2>1 DEF Sums
<1> QED
  BY <1>1, <1>8

\* Any member may be taken first.
LEMMA SumsRemove ==
    ASSUME NEW S, IsFiniteSet(S), NEW w, \A x \in S : w[x] \in Int, NEW g, Sums(g, w, S)
    PROVE  \A s \in SUBSET S : g[s] \in Int /\ \A x \in s : g[s] = w[x] + g[s \ {x}]
<1> DEFINE Right(s) == g[s] \in Int /\ \A x \in s : g[s] = w[x] + g[s \ {x}]
           C == {s \in SUBSET S : ~Right(s)}
<1> SUFFICES ASSUME C # {} PROVE FALSE
  OBVIOUS
<1>1. PICK s \in C : \A r \in C : r \subseteq s => r = s
  <2> HIDE DEF C
  <2>1. C \in SUBSET SUBSET S
    BY DEF C
  <2> QED
    BY <2>1, MinimalSubset
<1> DEFINE f == First(s)
<1>2. s # {}
  <2>1. g[{}] = 0
    BY DEF Sums
  <2> QED
    BY <2>1
<1>3. f \in s /\ g[s] = w[f] + g[s \ {f}]
  BY <1>2, FirstIn DEF Sums
<1>4. ASSUME NEW x \in s PROVE Right(s \ {x})
  BY <1>1, <1>4
<1> HIDE DEF f
<1>5. g[s] \in Int
  <2>1. w[f] \in Int
    BY <1>3
  <2>2. g[s \ {f}] \in Int
    BY <1>3, <1>4
  <2> QED
    BY <1>3, <2>1, <2>2
<1>6. ASSUME NEW x \in s, x # f PROVE g[s] = w[x] + g[s \ {x}]
  <2> DEFINE q == (s \ {f}) \ {x}
  <2>1. g[s \ {f}] = w[x] + g[q] /\ g[q] \in Int
    <3>1. g[s \ {f}] = w[x] + g[q]
      BY <1>3, <1>4, <1>6
    <3>2. q \in SUBSET S /\ q \subseteq s /\ q # s
      BY <1>3
    <3>3. g[q] \in Int
      <4> HIDE DEF q
      <4> QED
        BY <1>1, <3>2
    <3> QED
      BY <3>1, <3>3
  <2>2. g[s \ {x}] = w[f] + g[q]
    <3>1. (s \ {x}) \ {f} = q /\ f \in s \ {x}
      BY <1>3, <1>6
    <3> HIDE DEF q
    <3> QED
      BY <1>4, <3>1
  <2>3. w[f] \in Int /\ w[x] \in Int
    BY <1>3
  <2> HIDE DEF q
  <2> QED
    BY <1>3, <2>1, <2>2, <2>3
<1>7. Right(s)
  BY <1>3, <1>5, <1>6
<1> QED
  BY <1>7

-----------------------------------------------------------------------------
\* SumOver is the value of such a recursion.
LEMMA SumOverIs ==
    ASSUME NEW S, IsFiniteSet(S), NEW w
    PROVE  \E g : Sums(g, w, S) /\ SumOver(w, S) = g[S]
<1>1. \E g : Sums(g, w, S)
  BY SumsExist
<1> QED
  BY <1>1 DEF SumOver, MapThenSumSet, MapThenFoldSet, Sums, First

\* The empty sum.
LEMMA SumOverEmpty == ASSUME NEW w PROVE SumOver(w, {}) = 0
BY SumOverIs, FS_EmptySet DEF Sums

\* A sum depends only on what is added up.
LEMMA SumOverSame ==
    ASSUME NEW S, IsFiniteSet(S), NEW w, NEW v, \A x \in S : w[x] = v[x]
    PROVE  SumOver(w, S) = SumOver(v, S)
<1>1. PICK g : Sums(g, w, S) /\ SumOver(w, S) = g[S]
  BY SumOverIs
<1>2. PICK h : Sums(h, v, S) /\ SumOver(v, S) = h[S]
  BY SumOverIs
<1>3. g[S] = h[S]
  BY <1>1, <1>2, SumsAgree
<1> QED
  BY <1>1, <1>2, <1>3

\* One more summand.
LEMMA SumOverAdd ==
    ASSUME NEW S, IsFiniteSet(S), NEW x, x \notin S, NEW w, \A y \in S \cup {x} : w[y] \in Int
    PROVE  SumOver(w, S \cup {x}) = SumOver(w, S) + w[x] /\ SumOver(w, S) \in Int
<1> DEFINE T == S \cup {x}
<1>1. IsFiniteSet(T) /\ S = T \ {x} /\ x \in T
  BY FS_AddElement
<1> HIDE DEF T
<1>2. PICK g : Sums(g, w, S) /\ SumOver(w, S) = g[S]
  BY SumOverIs
<1>3. PICK h : Sums(h, w, T) /\ SumOver(w, T) = h[T]
  BY <1>1, SumOverIs
<1>4. g[S] = h[S]
  BY <1>1, <1>2, <1>3, SumsAgree
<1>5. h[T] = w[x] + h[T \ {x}] /\ h[T \ {x}] \in Int
  <2>1. \A y \in T : w[y] \in Int
    BY DEF T
  <2>2. \A s \in SUBSET T : h[s] \in Int /\ \A y \in s : h[s] = w[y] + h[s \ {y}]
    BY <1>1, <1>3, <2>1, SumsRemove
  <2>3. T \in SUBSET T /\ T \ {x} \in SUBSET T
    OBVIOUS
  <2> QED
    BY <1>1, <2>2, <2>3
<1>6. w[x] \in Int
  OBVIOUS
<1>7. SumOver(w, T) = SumOver(w, S) + w[x] /\ SumOver(w, S) \in Int
  BY <1>1, <1>2, <1>3, <1>4, <1>5, <1>6
<1> QED
  BY <1>7 DEF T

\* A sum of integers is one.
LEMMA SumOverType ==
    ASSUME NEW S, IsFiniteSet(S), NEW w, \A x \in S : w[x] \in Int
    PROVE  SumOver(w, S) \in Int
<1>1. PICK g : Sums(g, w, S) /\ SumOver(w, S) = g[S]
  BY SumOverIs
<1> QED
  BY <1>1, SumsRemove

\* One summand less.
LEMMA SumOverRemove ==
    ASSUME NEW S, IsFiniteSet(S), NEW x \in S, NEW w, \A y \in S : w[y] \in Int
    PROVE  SumOver(w, S) = SumOver(w, S \ {x}) + w[x]
<1>1. IsFiniteSet(S \ {x}) /\ S = (S \ {x}) \cup {x}
  BY FS_RemoveElement
<1> QED
  BY <1>1, SumOverAdd

\* One summand changes.
LEMMA SumOverUpdate ==
    ASSUME NEW S, IsFiniteSet(S), NEW x \in S, NEW w, NEW v,
           \A y \in S : w[y] \in Int /\ v[y] \in Int,
           \A y \in S \ {x} : w[y] = v[y]
    PROVE  SumOver(v, S) = SumOver(w, S) - w[x] + v[x]
<1> DEFINE R == S \ {x}
<1>1. IsFiniteSet(R)
  BY FS_RemoveElement
<1>2. SumOver(w, R) = SumOver(v, R)
  BY <1>1, SumOverSame
<1>3. SumOver(w, R) \in Int
  BY <1>1, SumOverType
<1>4. SumOver(w, S) = SumOver(w, R) + w[x] /\ SumOver(v, S) = SumOver(v, R) + v[x]
  BY SumOverRemove
<1> QED
  BY <1>2, <1>3, <1>4

\* Summands that are zero may be left out.
LEMMA SumOverZeros ==
    ASSUME NEW S, IsFiniteSet(S), NEW T \in SUBSET S, NEW w, \A x \in S : w[x] \in Int,
           \A x \in S \ T : w[x] = 0
    PROVE  SumOver(w, T) = SumOver(w, S)
<1> DEFINE C == {s \in SUBSET S : T \subseteq s /\ SumOver(w, s) # SumOver(w, T)}
<1> SUFFICES ASSUME C # {} PROVE FALSE
  OBVIOUS
<1>1. PICK s \in C : \A r \in C : r \subseteq s => r = s
  <2> HIDE DEF C
  <2>1. C \in SUBSET SUBSET S
    BY DEF C
  <2> QED
    BY <2>1, MinimalSubset
<1>2. PICK x \in s : x \notin T
  OBVIOUS
<1>3. IsFiniteSet(s) /\ IsFiniteSet(s \ {x})
  BY FS_Subset
<1>4. SumOver(w, s) = SumOver(w, s \ {x}) + w[x]
  BY <1>3, SumOverRemove
<1>5. SumOver(w, s \ {x}) = SumOver(w, T)
  BY <1>1, <1>2
<1>6. SumOver(w, T) \in Int
  BY FS_Subset, SumOverType
<1> QED
  BY <1>2, <1>4, <1>5, <1>6

=============================================================================
