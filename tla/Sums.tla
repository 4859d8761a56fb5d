-------------------------------- MODULE Sums --------------------------------
(***************************************************************************)
(* The sum of a function over a finite set (SumFunctionOnSet, of Functions)*)
(* as the proofs of the modules of the mint use it.  The library defines   *)
(* it by a recursive function on the subsets of the set; the lemmas below  *)
(* show that the function exists, and that the sum does not depend on the  *)
(* order in which it picks elements, by induction on the subsets.          *)
(*                                                                         *)
(* The lemmas start from the definition of a finite set, not from the      *)
(* theorems of the library on them, which would be visible to every proof  *)
(* of every module that uses this one and slow all of them down.           *)
(***************************************************************************)
EXTENDS Naturals, Sequences, FiniteSets, Functions, WellFoundedInduction, TLAPS

\* A finite set has a sequence with its elements.
LEMMA Enumerated ==
    ASSUME NEW S, IsFiniteSet(S)
    PROVE  \E seq \in Seq(S) : \A x \in S : \E i \in 1 .. Len(seq) : seq[i] = x
  BY Zenon DEF IsFiniteSet

\* The empty set is finite.
LEMMA EmptyFinite == IsFiniteSet({})
  <1>1. <<>> \in Seq({})
    OBVIOUS
  <1> QED
    BY <1>1, Zenon DEF IsFiniteSet

\* A part of a finite set is finite.
LEMMA SubsetFinite ==
    ASSUME NEW S, IsFiniteSet(S), NEW T \in SUBSET S
    PROVE  IsFiniteSet(T)
  <1>1. PICK seq \in Seq(S) : \A x \in S : \E i \in 1 .. Len(seq) : seq[i] = x
    BY Enumerated, Zenon
  <1>2. ASSUME NEW t \in T
        PROVE  IsFiniteSet(T)
    <2> DEFINE e == [i \in 1 .. Len(seq) |-> IF seq[i] \in T THEN seq[i] ELSE t]
    <2>1. e \in Seq(T) /\ Len(e) = Len(seq)
      OBVIOUS
    <2>2. \A x \in T : \E i \in 1 .. Len(e) : e[i] = x
      <3> TAKE x \in T
      <3>1. PICK i \in 1 .. Len(seq) : seq[i] = x
        BY <1>1, Zenon
      <3> QED
        BY <2>1, <3>1
    <2> HIDE DEF e
    <2> QED
      BY <2>1, <2>2, Zenon DEF IsFiniteSet
  <1> QED
    BY <1>2, EmptyFinite

\* Induction over the natural numbers, for a set of them.
LEMMA NatSetInduction ==
    ASSUME NEW T \in SUBSET Nat, 0 \in T, \A n \in T : n + 1 \in T
    PROVE  T = Nat
  <1> DEFINE U == Nat \ T
  <1> SUFFICES ASSUME U # {} PROVE FALSE
    BY Zenon
  <1>1. PICK x \in U : \A y \in U : ~ (<<y, x>> \in OpToRel(<, Nat))
    <2>1. IsWellFoundedOn(OpToRel(<, Nat), Nat)
      BY NatLessThanWellFounded, Zenon
    <2>2. U \subseteq Nat
      BY Zenon
    <2> HIDE DEF U
    <2> QED
      BY <2>1, <2>2, WFMin, Zenon
  <1>2. \A y \in U : ~(y < x)
    BY <1>1, Zenon DEF OpToRel
  <1>3. x # 0 /\ x - 1 \in Nat
    OBVIOUS
  <1>4. x - 1 \in T
    BY <1>2, <1>3
  <1> QED
    BY <1>4

\* A family of subsets of a finite set has one that contains no other.
LEMMA MinimalSubset ==
    ASSUME NEW S, IsFiniteSet(S), NEW U \in SUBSET (SUBSET S), U # {}
    PROVE  \E m \in U : \A t \in U : t \subseteq m => t = m
  <1>1. PICK seq \in Seq(S) : \A x \in S : \E i \in 1 .. Len(seq) : seq[i] = x
    BY Enumerated, Zenon
  <1> DEFINE Part(k) == {seq[i] : i \in 1 .. k}
             Minimal(m, V) == \A t \in V : t \subseteq m => t = m
             T == {k \in Nat : \A V \in SUBSET (SUBSET Part(k)) :
                                  V # {} => \E m \in V : Minimal(m, V)}
  <1>2. 0 \in T
    <2>1. Part(0) = {}
      OBVIOUS
    <2> QED
      BY <2>1
  <1>3. ASSUME NEW k \in T PROVE k + 1 \in T
    <2> SUFFICES ASSUME NEW V \in SUBSET (SUBSET Part(k + 1)), V # {}
                 PROVE  \E m \in V : Minimal(m, V)
      OBVIOUS
    <2>1. PICK a : Part(k + 1) = Part(k) \cup {a}
      <3>1. 1 .. k + 1 = (1 .. k) \cup {k + 1}
        OBVIOUS
      <3>2. Part(k + 1) = Part(k) \cup {seq[k + 1]}
        BY <3>1
      <3> QED
        BY <3>2, Zenon
    <2> HIDE DEF Part
    <2>2. CASE \E s \in V : a \notin s
      <3>1. PICK W : W = {s \in V : a \notin s}
        BY Zenon
      <3>2. W \in SUBSET (SUBSET Part(k)) /\ W # {}
        BY <2>1, <2>2, <3>1
      <3>3. PICK m \in W : Minimal(m, W)
        BY <3>2, Zenon
      <3>4. m \in V /\ a \notin m
        BY <3>1, Zenon
      <3>5. \A t \in V : t \subseteq m => t \in W
        BY <3>1, <3>4
      <3>6. Minimal(m, V)
        BY <3>3, <3>5, Zenon
      <3> QED
        BY <3>4, <3>6, Zenon
    <2>3. CASE \A s \in V : a \in s
      <3>1. PICK W : W = {s \ {a} : s \in V}
        BY Zenon
      <3>2. W \in SUBSET (SUBSET Part(k)) /\ W # {}
        <4>1. \A w \in W : \E s \in V : w = s \ {a}
          BY <3>1, Zenon
        <4>2. \A s \in V : s \ {a} \in W
          BY <3>1, Zenon
        <4>3. \A s \in V : s \subseteq Part(k) \cup {a}
          BY <2>1, Zenon
        <4>4. \A s \in V : s \ {a} \subseteq Part(k)
          BY <4>3
        <4>5. \A w \in W : w \in SUBSET Part(k)
          <5> TAKE w \in W
          <5>1. PICK s \in V : w = s \ {a}
            BY <4>1, Zenon
          <5> QED
            BY <4>4, <5>1
        <4> QED
          BY <4>2, <4>5, Zenon
      <3>3. PICK w \in W : Minimal(w, W)
        BY <3>2, Zenon
      <3>4. PICK m \in V : w = m \ {a}
        BY <3>1, Zenon
      <3>5. ASSUME NEW t \in V, t \subseteq m
            PROVE  t = m
        <4>1. t \ {a} \in W /\ t \ {a} \subseteq w
          BY <3>1, <3>4, <3>5, Zenon
        <4>2. t \ {a} = m \ {a}
          BY <3>3, <3>4, <4>1, Zenon
        <4>3. a \in t /\ a \in m
          BY <2>3, Zenon
        <4>4. m \subseteq t
          <5> SUFFICES ASSUME NEW x \in m, x # a PROVE x \in t
            BY <4>3, Zenon
          <5>1. x \in m \ {a}
            BY Zenon
          <5> QED
            BY <4>2, <5>1, Zenon
        <4> QED
          BY <3>5, <4>4, Zenon
      <3> QED
        BY <3>5, Zenon
    <2> QED
      BY <2>2, <2>3, Zenon
  <1>4. T = Nat
    <2>1. T \in SUBSET Nat
      BY Zenon
    <2> HIDE DEF T
    <2> QED
      BY <1>2, <1>3, <2>1, NatSetInduction, Zenon
  <1>5. Len(seq) \in T
    <2>1. Len(seq) \in Nat
      OBVIOUS
    <2> QED
      BY <1>4, <2>1, Zenon
  <1>6. U \in SUBSET (SUBSET Part(Len(seq)))
    BY <1>1
  <1> HIDE DEF Part
  <1> QED
    BY <1>5, <1>6, Zenon

\* A family of subsets of a finite set that has a set whenever it has all those
\* with one element less has them all.
LEMMA SubsetInduction ==
    ASSUME NEW S, IsFiniteSet(S), NEW F,
           \A s \in SUBSET S : (\A x \in s : s \ {x} \in F) => s \in F
    PROVE  \A s \in SUBSET S : s \in F
  <1>1. PICK U : U = (SUBSET S) \ F
    BY Zenon
  <1> SUFFICES ASSUME U # {} PROVE FALSE
    BY <1>1, Zenon
  <1>2. U \in SUBSET (SUBSET S)
    BY <1>1, Zenon
  <1>3. PICK s \in U : \A t \in U : t \subseteq s => t = s
    BY <1>2, MinimalSubset
  <1>4. \A x \in s : s \ {x} \in F
    <2> SUFFICES ASSUME NEW x \in s, s \ {x} \notin F PROVE FALSE
      BY Zenon
    <2>1. s \ {x} \in U
      BY <1>1, Zenon
    <2>2. s \ {x} = s
      BY <1>3, <2>1, Zenon
    <2> QED
      BY <2>2, Zenon
  <1>5. s \in SUBSET S /\ s \notin F
    BY <1>1, Zenon
  <1> QED
    BY <1>4, <1>5, Zenon

\* The element of a set that the library takes first.
Pick(s) == CHOOSE x \in s : TRUE

\* g is the recursive function of the library on the sets of D.
AreSums(f, D, g) ==
    g = [s \in D |-> IF s = {} THEN 0 ELSE f[Pick(s)] + g[s \ {Pick(s)}]]

\* The sum is the value for S of the recursive function on the subsets of S.
LEMMA SumDef ==
    ASSUME NEW f, NEW S
    PROVE  SumFunctionOnSet(f, S) = (CHOOSE g : AreSums(f, SUBSET S, g))[S]
  BY DEF SumFunctionOnSet, FoldFunctionOnSet, MapThenFoldSet, Pick, AreSums

\* The recursive function on the subsets of a set has the sum of each of them.
LEMMA SumsAgree ==
    ASSUME NEW f, NEW S, IsFiniteSet(S), NEW g, AreSums(f, SUBSET S, g)
    PROVE  \A R \in SUBSET S : g[R] = SumFunctionOnSet(f, R)
  <1> SUFFICES ASSUME NEW R \in SUBSET S
               PROVE  g[R] = SumFunctionOnSet(f, R)
    BY Zenon
  <1>1. IsFiniteSet(R)
    BY SubsetFinite, Zenon
  <1>2. PICK h : AreSums(f, SUBSET R, h) /\ SumFunctionOnSet(f, R) = h[R]
    <2>1. \A s \in SUBSET R : s \in SUBSET S
      BY Zenon
    <2>2. \A s \in SUBSET R : s # {} => s \ {Pick(s)} \in SUBSET R
      BY Zenon
    <2>3. AreSums(f, SUBSET R, [s \in SUBSET R |-> g[s]])
      BY <2>1, <2>2, Zenon DEF AreSums
    <2> QED
      BY <2>3, SumDef, Zenon
  <1> DEFINE F == {s \in SUBSET R : g[s] = h[s]}
  <1>3. ASSUME NEW s \in SUBSET R, \A x \in s : s \ {x} \in F
        PROVE  s \in F
    <2>1. CASE s = {}
      BY <1>2, <2>1 DEF AreSums
    <2>2. CASE s # {}
      <3>1. Pick(s) \in s
        BY <2>2 DEF Pick
      <3>2. g[s \ {Pick(s)}] = h[s \ {Pick(s)}]
        BY <1>3, <3>1, Zenon
      <3>3. /\ g[s] = f[Pick(s)] + g[s \ {Pick(s)}]
            /\ h[s] = f[Pick(s)] + h[s \ {Pick(s)}]
        BY <1>2, <2>2, Zenon DEF AreSums
      <3> QED
        BY <3>2, <3>3, Zenon
    <2> QED
      BY <2>1, <2>2, Zenon
  <1>4. \A s \in SUBSET R : s \in F
    <2> HIDE DEF F
    <2> QED
      BY <1>1, <1>3, SubsetInduction, Zenon
  <1>5. R \in F
    BY <1>4, Zenon
  <1> QED
    BY <1>2, <1>5, Zenon

\* The sum of nothing is zero.
LEMMA SumEmpty ==
    ASSUME NEW f
    PROVE  SumFunctionOnSet(f, {}) = 0
  <1>1. PICK g : g = [s \in SUBSET {} |-> 0]
    BY Zenon
  <1>2. AreSums(f, SUBSET {}, g)
    BY <1>1 DEF AreSums
  <1>3. \A R \in SUBSET {} : g[R] = SumFunctionOnSet(f, R)
    BY <1>2, EmptyFinite, SumsAgree, Zenon
  <1>4. g[{}] = 0
    BY <1>1
  <1> QED
    BY <1>3, <1>4

\* The recursive function exists on the subsets of a finite set.
LEMMA SumsExist ==
    ASSUME NEW f, NEW S, IsFiniteSet(S)
    PROVE  \E g : AreSums(f, SUBSET S, g)
  <1> DEFINE F == {s \in SUBSET S : \E g : AreSums(f, SUBSET s, g)}
             Step(t) == f[Pick(t)] + SumFunctionOnSet(f, t \ {Pick(t)})
  <1>1. ASSUME NEW s \in SUBSET S, \A x \in s : s \ {x} \in F
        PROVE  s \in F
    <2> DEFINE h == [t \in SUBSET s |-> IF t = {} THEN 0 ELSE Step(t)]
    <2>1. ASSUME NEW x \in s, NEW r \in SUBSET (s \ {x})
          PROVE  SumFunctionOnSet(f, r) = h[r]
      <3>1. PICK g : AreSums(f, SUBSET (s \ {x}), g)
        BY <1>1, Zenon
      <3>2. IsFiniteSet(s \ {x})
        <4>1. s \ {x} \in SUBSET S
          BY Zenon
        <4> QED
          BY <4>1, SubsetFinite, Zenon
      <3>3. \A q \in SUBSET (s \ {x}) : g[q] = SumFunctionOnSet(f, q)
        BY <3>1, <3>2, SumsAgree, Zenon
      <3>4. CASE r = {}
        <4>1. h[{}] = 0
          BY Zenon
        <4> QED
          BY <3>4, <4>1, SumEmpty, Zenon
      <3>5. CASE r # {}
        <4>1. g[r] = f[Pick(r)] + g[r \ {Pick(r)}]
          BY <3>1, <3>5, Zenon DEF AreSums
        <4>2. r \ {Pick(r)} \in SUBSET (s \ {x})
          BY Zenon
        <4>3. SumFunctionOnSet(f, r) = Step(r)
          BY <3>3, <4>1, <4>2, Zenon
        <4>4. r \in SUBSET s
          BY Zenon
        <4> QED
          BY <3>5, <4>3, <4>4, Zenon
      <3> QED
        BY <3>4, <3>5, Zenon
    <2>2. \A t \in SUBSET s : t # {} =>
             SumFunctionOnSet(f, t \ {Pick(t)}) = h[t \ {Pick(t)}]
      <3> SUFFICES ASSUME NEW t \in SUBSET s, t # {}
                   PROVE  SumFunctionOnSet(f, t \ {Pick(t)}) = h[t \ {Pick(t)}]
        BY Zenon
      <3>1. Pick(t) \in s
        BY DEF Pick
      <3>2. t \ {Pick(t)} \in SUBSET (s \ {Pick(t)})
        BY Zenon
      <3> HIDE DEF h
      <3> QED
        BY <2>1, <3>1, <3>2, Zenon
    <2>3. AreSums(f, SUBSET s, h)
      BY <2>2, Zenon DEF AreSums
    <2> QED
      BY <2>3, Zenon
  <1>2. \A s \in SUBSET S : s \in F
    <2> HIDE DEF F
    <2> QED
      BY <1>1, SubsetInduction, Zenon
  <1>3. S \in F
    BY <1>2, Zenon
  <1> QED
    BY <1>3, Zenon

\* One step of the recursion.
LEMMA SumPick ==
    ASSUME NEW f, NEW S, IsFiniteSet(S), S # {}
    PROVE  /\ Pick(S) \in S
           /\ SumFunctionOnSet(f, S)
                = f[Pick(S)] + SumFunctionOnSet(f, S \ {Pick(S)})
  <1>1. Pick(S) \in S
    BY DEF Pick
  <1>2. PICK g : AreSums(f, SUBSET S, g)
    BY SumsExist, Zenon
  <1>3. \A R \in SUBSET S : g[R] = SumFunctionOnSet(f, R)
    BY <1>2, SumsAgree, Zenon
  <1>4. g[S] = f[Pick(S)] + g[S \ {Pick(S)}]
    BY <1>2, Zenon DEF AreSums
  <1>5. S \ {Pick(S)} \in SUBSET S /\ S \in SUBSET S
    BY Zenon
  <1> QED
    BY <1>1, <1>3, <1>4, <1>5, Zenon

\* A sum of natural numbers is one.
LEMMA SumType ==
    ASSUME NEW D, NEW f \in [D -> Nat], NEW S \in SUBSET D, IsFiniteSet(S)
    PROVE  \A s \in SUBSET S : SumFunctionOnSet(f, s) \in Nat
  <1> DEFINE F == {s \in SUBSET S : SumFunctionOnSet(f, s) \in Nat}
  <1>1. ASSUME NEW s \in SUBSET S, \A x \in s : s \ {x} \in F
        PROVE  s \in F
    <2>1. CASE s = {}
      BY <2>1, SumEmpty
    <2>2. CASE s # {}
      <3>1. IsFiniteSet(s)
        BY SubsetFinite, Zenon
      <3>2. PICK p \in s : SumFunctionOnSet(f, s)
                               = f[p] + SumFunctionOnSet(f, s \ {p})
        BY <2>2, <3>1, SumPick, Zenon
      <3>3. SumFunctionOnSet(f, s \ {p}) \in Nat /\ f[p] \in Nat
        BY <1>1
      <3> QED
        BY <3>2, <3>3
    <2> QED
      BY <2>1, <2>2, Zenon
  <1>2. \A s \in SUBSET S : s \in F
    <2> HIDE DEF F
    <2> QED
      BY <1>1, SubsetInduction, Zenon
  <1> QED
    BY <1>2, Zenon

\* Any element can be taken out first.
LEMMA SumRemove ==
    ASSUME NEW D, NEW f \in [D -> Nat], NEW S \in SUBSET D, IsFiniteSet(S)
    PROVE  \A x \in S : SumFunctionOnSet(f, S) = f[x] + SumFunctionOnSet(f, S \ {x})
  <1> DEFINE Good(s) ==
                \A x \in s : SumFunctionOnSet(f, s)
                                = f[x] + SumFunctionOnSet(f, s \ {x})
             F == {s \in SUBSET S : Good(s)}
  <1>1. ASSUME NEW s \in SUBSET S, \A x \in s : s \ {x} \in F
        PROVE  s \in F
    <2>1. CASE s = {}
      BY <2>1, SumEmpty
    <2>2. CASE s # {}
      <3>1. IsFiniteSet(s)
        BY SubsetFinite, Zenon
      <3>2. PICK p \in s : SumFunctionOnSet(f, s)
                               = f[p] + SumFunctionOnSet(f, s \ {p})
        BY <2>2, <3>1, SumPick, Zenon
      <3>3. \A t \in SUBSET S : SumFunctionOnSet(f, t) \in Nat
        BY SumType, Zenon
      <3>4. ASSUME NEW x \in s, x # p
            PROVE  SumFunctionOnSet(f, s) = f[x] + SumFunctionOnSet(f, s \ {x})
        <4>1. PICK r : r = s \ {p, x}
          BY Zenon
        <4>2. (s \ {p}) \ {x} = r /\ (s \ {x}) \ {p} = r
          BY <4>1
        <4>3. Good(s \ {p}) /\ Good(s \ {x})
          BY <1>1, Zenon
        <4>4. x \in s \ {p} /\ p \in s \ {x}
          BY <3>4, Zenon
        <4>5. /\ SumFunctionOnSet(f, s \ {p}) = f[x] + SumFunctionOnSet(f, r)
              /\ SumFunctionOnSet(f, s \ {x}) = f[p] + SumFunctionOnSet(f, r)
          BY <4>2, <4>3, <4>4, Zenon
        <4>6. r \in SUBSET S /\ f[x] \in Nat /\ f[p] \in Nat
          BY <4>1
        <4> QED
          BY <3>2, <3>3, <4>5, <4>6
      <3> QED
        BY <3>2, <3>4, Zenon
    <2> QED
      BY <2>1, <2>2, Zenon
  <1>2. \A s \in SUBSET S : s \in F
    <2> HIDE DEF F
    <2> QED
      BY <1>1, SubsetInduction, Zenon
  <1> QED
    BY <1>2, Zenon

\* The sum over one element.
LEMMA SumSingleton ==
    ASSUME NEW D, NEW f \in [D -> Nat], IsFiniteSet(D), NEW x \in D
    PROVE  SumFunctionOnSet(f, {x}) = f[x]
  <1>1. IsFiniteSet({x}) /\ {x} \in SUBSET D
    <2>1. {x} \in SUBSET D
      BY Zenon
    <2> QED
      BY <2>1, SubsetFinite, Zenon
  <1>2. PICK S : S = {x}
    BY Zenon
  <1>3. \A y \in S : SumFunctionOnSet(f, S) = f[y] + SumFunctionOnSet(f, S \ {y})
    BY <1>1, <1>2, SumRemove
  <1>4. S \ {x} = {} /\ f[x] \in Nat
    BY <1>2
  <1>5. SumFunctionOnSet(f, S) = f[x] + SumFunctionOnSet(f, S \ {x})
    BY <1>2, <1>3, Zenon
  <1> QED
    BY <1>2, <1>4, <1>5, SumEmpty

\* The sum over two sets that have no element in common.
LEMMA SumUnion ==
    ASSUME NEW D, NEW f \in [D -> Nat], IsFiniteSet(D)
    PROVE  \A S, T \in SUBSET D : S \cap T = {} =>
               SumFunctionOnSet(f, S \cup T)
                   = SumFunctionOnSet(f, S) + SumFunctionOnSet(f, T)
  <1> SUFFICES ASSUME NEW S \in SUBSET D, NEW T \in SUBSET D, S \cap T = {}
               PROVE  SumFunctionOnSet(f, S \cup T)
                          = SumFunctionOnSet(f, S) + SumFunctionOnSet(f, T)
    BY Zenon
  <1> DEFINE F == {t \in SUBSET T : SumFunctionOnSet(f, S \cup t)
                       = SumFunctionOnSet(f, S) + SumFunctionOnSet(f, t)}
  <1>1. \A s \in SUBSET D : SumFunctionOnSet(f, s) \in Nat
    BY SumType, Zenon
  <1>2. ASSUME NEW t \in SUBSET T, \A x \in t : t \ {x} \in F
        PROVE  t \in F
    <2>1. CASE t = {}
      <3>1. S \cup t = S
        BY <2>1, Zenon
      <3> QED
        BY <1>1, <2>1, <3>1, SumEmpty
    <2>2. CASE t # {}
      <3>1. PICK x : x \in t
        BY <2>2, Zenon
      <3>2. PICK r : r = t \ {x}
        BY Zenon
      <3>3. PICK u : u = S \cup t
        BY Zenon
      <3>4. /\ IsFiniteSet(t) /\ t \in SUBSET D
            /\ IsFiniteSet(u) /\ u \in SUBSET D
        BY <3>3, SubsetFinite, Zenon
      <3>5. SumFunctionOnSet(f, u) = f[x] + SumFunctionOnSet(f, S \cup r)
        <4>1. \A y \in u : SumFunctionOnSet(f, u)
                                = f[y] + SumFunctionOnSet(f, u \ {y})
          BY <3>4, SumRemove
        <4>2. x \in u /\ u \ {x} = S \cup r
          BY <3>1, <3>2, <3>3
        <4> QED
          BY <4>1, <4>2, Zenon
      <3>6. SumFunctionOnSet(f, t) = f[x] + SumFunctionOnSet(f, r)
        <4>1. \A y \in t : SumFunctionOnSet(f, t)
                                = f[y] + SumFunctionOnSet(f, t \ {y})
          BY <3>4, SumRemove
        <4> QED
          BY <3>1, <3>2, <4>1, Zenon
      <3>7. SumFunctionOnSet(f, S \cup r)
                = SumFunctionOnSet(f, S) + SumFunctionOnSet(f, r)
        BY <1>2, <3>1, <3>2, Zenon
      <3>8. r \in SUBSET D /\ f[x] \in Nat
        BY <3>1, <3>2
      <3> QED
        BY <1>1, <3>3, <3>5, <3>6, <3>7, <3>8
    <2> QED
      BY <2>1, <2>2, Zenon
  <1>3. IsFiniteSet(T)
    BY SubsetFinite, Zenon
  <1>4. \A t \in SUBSET T : t \in F
    <2> HIDE DEF F
    <2> QED
      BY <1>2, <1>3, SubsetInduction, Zenon
  <1>5. T \in F
    BY <1>4, Zenon
  <1> QED
    BY <1>5, Zenon

\* The sum over a part of a set is no more than the sum over the set.
LEMMA SumSubset ==
    ASSUME NEW D, NEW f \in [D -> Nat], IsFiniteSet(D),
           NEW T \in SUBSET D, NEW S \in SUBSET T
    PROVE  SumFunctionOnSet(f, S) =< SumFunctionOnSet(f, T)
  <1>1. PICK R : R = T \ S
    BY Zenon
  <1>2. S \in SUBSET D /\ R \in SUBSET D /\ S \cap R = {} /\ S \cup R = T
    BY <1>1
  <1>3. SumFunctionOnSet(f, S \cup R)
            = SumFunctionOnSet(f, S) + SumFunctionOnSet(f, R)
    BY <1>2, SumUnion
  <1>4. SumFunctionOnSet(f, S) \in Nat /\ SumFunctionOnSet(f, R) \in Nat
    BY <1>2, SumType, Zenon
  <1>5. SumFunctionOnSet(f, T)
            = SumFunctionOnSet(f, S) + SumFunctionOnSet(f, R)
    BY <1>2, <1>3, Zenon
  <1> QED
    BY <1>4, <1>5

\* The sums of two functions that are equal on a set.
LEMMA SumSame ==
    ASSUME NEW f, NEW g, NEW S, IsFiniteSet(S), \A x \in S : f[x] = g[x]
    PROVE  SumFunctionOnSet(f, S) = SumFunctionOnSet(g, S)
  <1> DEFINE F == {s \in SUBSET S :
                      SumFunctionOnSet(f, s) = SumFunctionOnSet(g, s)}
  <1>1. ASSUME NEW s \in SUBSET S, \A x \in s : s \ {x} \in F
        PROVE  s \in F
    <2>1. CASE s = {}
      BY <2>1, SumEmpty, Zenon
    <2>2. CASE s # {}
      <3>1. IsFiniteSet(s)
        BY SubsetFinite, Zenon
      <3>2. Pick(s) \in s
        BY <2>2, <3>1, SumPick, Zenon
      <3>3. SumFunctionOnSet(f, s)
                = f[Pick(s)] + SumFunctionOnSet(f, s \ {Pick(s)})
        BY <2>2, <3>1, SumPick
      <3>4. SumFunctionOnSet(g, s)
                = g[Pick(s)] + SumFunctionOnSet(g, s \ {Pick(s)})
        BY <2>2, <3>1, SumPick
      <3>5. f[Pick(s)] = g[Pick(s)]
        BY <3>2, Zenon
      <3>6. SumFunctionOnSet(f, s \ {Pick(s)}) = SumFunctionOnSet(g, s \ {Pick(s)})
        BY <1>1, <3>2, Zenon
      <3> QED
        BY <3>3, <3>4, <3>5, <3>6, Zenon
    <2> QED
      BY <2>1, <2>2, Zenon
  <1>2. \A s \in SUBSET S : s \in F
    <2> HIDE DEF F
    <2> QED
      BY <1>1, SubsetInduction, Zenon
  <1>3. S \in F
    BY <1>2, Zenon
  <1> QED
    BY <1>3, Zenon

=============================================================================
