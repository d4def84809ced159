-------------------------- MODULE ClientLedgerProofs --------------------------
(***************************************************************************)
(* Proofs about ClientLedger, for any workers, clients, dates and forms.   *)
(*                                                                         *)
(* The books agree because PairsAgree is inductive: every operation writes *)
(* the two tables row by row alike, however the requests interleave; a     *)
(* reversal is never half done, and office fees follow it through chains   *)
(* of any length; and a client is overdrawn only by what DeficitCauses     *)
(* lists.                                                                  *)
(*                                                                         *)
(* Served one at a time, requests promise more: a posting counts at most   *)
(* once, what a request checked holds when it writes, and the books        *)
(* implement ClientMoney.                                                  *)
(***************************************************************************)
EXTENDS MCClientLedger, SequenceTheorems, FiniteSetTheorems, WellFoundedInduction, TLAPS

-----------------------------------------------------------------------------
(* Sums over finite sets: the books are sums over their tables. The fold     *)
(* SumFunctionOnSet of the module Functions picks its elements one by one,   *)
(* so each lemma goes by the size of the set; the induction is an argument   *)
(* about a least size.                                                       *)

LEMMA LeastNumber ==
  ASSUME NEW N, N \subseteq Nat, N # {}
  PROVE  \E n \in N : \A m \in N : n <= m
<1> DEFINE R == OpToRel(<, Nat)
<1>1. IsWellFoundedOn(R, Nat)
  BY NatLessThanWellFounded
<1>2. \A m, n \in Nat : <<m, n>> \in R <=> m < n
  BY DEF OpToRel
<1> HIDE DEF R
<1>3. PICK n \in N : \A m \in N : ~(<<m, n>> \in R)
  BY <1>1, WFMin
<1>4. \A m \in N : ~(m < n)
  BY <1>2, <1>3
<1> QED
  BY <1>4

\* Induction: a set of numbers that has 0 and with n also n + 1 has them all.
LEMMA NumberInduction ==
  ASSUME NEW N, 0 \in N, \A n \in Nat : n \in N => n + 1 \in N
  PROVE  Nat \subseteq N
<1> SUFFICES ASSUME Nat \ N # {} PROVE FALSE
  OBVIOUS
<1>1. PICK n \in Nat \ N : \A m \in Nat \ N : n <= m
  BY LeastNumber
<1>2. n - 1 \in Nat /\ n - 1 \notin N
  BY <1>1
<1> QED
  BY <1>1, <1>2

\* A family of subsets of S that grows by one element at a time has S.
LEMMA SubsetInduction ==
  ASSUME NEW S, IsFiniteSet(S), NEW F, {} \in F,
         \A T \in SUBSET S : \A x \in S \ T : T \in F => T \cup {x} \in F
  PROVE  S \in F
<1> DEFINE N == {n \in Nat : \A T \in SUBSET S : Cardinality(T) = n => T \in F}
<1>1. \A T \in SUBSET S : IsFiniteSet(T) /\ Cardinality(T) \in Nat
  BY FS_Subset, FS_CardinalityType
<1>2. 0 \in N
  BY <1>1, FS_EmptySet
<1>3. ASSUME NEW n \in Nat, n \in N PROVE n + 1 \in N
  <2> SUFFICES ASSUME NEW T \in SUBSET S, Cardinality(T) = n + 1 PROVE T \in F
    OBVIOUS
  <2>0. T # {}
    <3>1. T = {} => Cardinality(T) = 0
      BY FS_EmptySet, Zenon
    <3> QED
      BY <3>1
  <2>1. PICK x \in T : TRUE
    BY <2>0
  <2>2. Cardinality(T \ {x}) = n
    <3>1. Cardinality(T \ {x}) = Cardinality(T) - 1
      BY <1>1, <2>1, FS_RemoveElement, Zenon
    <3> QED
      BY <3>1
  <2>3. T \ {x} \in F
    BY <1>3, <2>2
  <2>4. (T \ {x}) \cup {x} \in F
    BY <2>3
  <2>5. (T \ {x}) \cup {x} = T
    OBVIOUS
  <2> QED
    BY <2>4, <2>5
<1> HIDE DEF N
<1>4. Nat \subseteq N
  BY <1>2, <1>3, NumberInduction
<1> QED
  BY <1>1, <1>4 DEF N

-----------------------------------------------------------------------------
(* The fold, as one function of all subsets.                                *)

Pick(s) == CHOOSE x \in s : TRUE

IsIter(f, S, g) ==
    g = [s \in SUBSET S |-> IF s = {} THEN 0 ELSE f[Pick(s)] + g[s \ {Pick(s)}]]

LEMMA PickIn == ASSUME NEW s, s # {} PROVE Pick(s) \in s
  BY DEF Pick

LEMMA SumUnfold ==
  ASSUME NEW f, NEW S
  PROVE  SumFunctionOnSet(f, S) = (CHOOSE g : IsIter(f, S, g))[S]
  BY Zenon DEF SumFunctionOnSet, FoldFunctionOnSet, MapThenFoldSet, Pick, IsIter

LEMMA IterExists ==
  ASSUME NEW f, NEW S, IsFiniteSet(S)
  PROVE  \E g : IsIter(f, S, g)
<1> DEFINE Small(n) == {s \in SUBSET S : Cardinality(s) <= n}
           Body(g, s) == IF s = {} THEN 0 ELSE f[Pick(s)] + g[s \ {Pick(s)}]
           Has(n) == \E g : g = [s \in Small(n) |-> Body(g, s)]
           N == {n \in Nat : Has(n)}
<1>1. \A s \in SUBSET S : IsFiniteSet(s) /\ Cardinality(s) \in Nat
  BY FS_Subset, FS_CardinalityType
<1>2. Has(0)
  <2>1. Small(0) = {{}}
    BY <1>1, FS_EmptySet
  <2> DEFINE g == [s \in {{}} |-> 0]
  <2>2. g = [s \in Small(0) |-> Body(g, s)]
    BY <2>1
  <2> QED
    BY <2>2
<1>3. ASSUME NEW n \in Nat, Has(n) PROVE Has(n + 1)
  <2>1. PICK g : g = [s \in Small(n) |-> Body(g, s)]
    BY <1>3
  <2> DEFINE h == [s \in Small(n + 1) |-> Body(g, s)]
  <2>2. \A s \in Small(n + 1) : s # {} => s \ {Pick(s)} \in Small(n)
    BY <1>1, PickIn, FS_RemoveElement
  <2>3. Small(n) \subseteq Small(n + 1)
    BY <1>1
  <2>4. \A s \in Small(n) : h[s] = g[s]
    BY <2>1, <2>3
  <2>5. \A s \in Small(n + 1) : Body(g, s) = Body(h, s)
    BY <2>2, <2>4
  <2>6. h = [s \in Small(n + 1) |-> Body(h, s)]
    BY <2>5
  <2> HIDE DEF h
  <2> QED
    BY <2>6
<1> HIDE DEF Has
<1>4. Nat \subseteq N
  <2>1. 0 \in N /\ \A n \in Nat : n \in N => n + 1 \in N
    BY <1>2, <1>3
  <2> HIDE DEF N
  <2> QED
    BY <2>1, NumberInduction
<1>5. Has(Cardinality(S))
  BY <1>1, <1>4
<1>6. Small(Cardinality(S)) = SUBSET S
  BY <1>1, FS_Subset
<1> QED
  BY <1>5, <1>6 DEF Has, IsIter

\* What any such function gives a subset depends on f and the subset alone.
LEMMA IterUnique ==
  ASSUME NEW f, NEW S, NEW T, NEW g, NEW h, IsFiniteSet(S), IsFiniteSet(T),
         IsIter(f, S, g), IsIter(f, T, h)
  PROVE  \A s \in SUBSET (S \cap T) : g[s] = h[s]
<1> DEFINE N == {n \in Nat : \A s \in SUBSET (S \cap T) : Cardinality(s) = n => g[s] = h[s]}
<1>1. \A s \in SUBSET (S \cap T) : IsFiniteSet(s) /\ Cardinality(s) \in Nat
  BY FS_Subset, FS_CardinalityType
<1>2. 0 \in N
  BY <1>1, FS_EmptySet DEF IsIter
<1>3. ASSUME NEW n \in Nat, n \in N PROVE n + 1 \in N
  <2> SUFFICES ASSUME NEW s \in SUBSET (S \cap T), Cardinality(s) = n + 1 PROVE g[s] = h[s]
    OBVIOUS
  <2>1. s # {}
    <3>1. s = {} => Cardinality(s) = 0
      BY FS_EmptySet, Zenon
    <3> QED
      BY <3>1
  <2>2. Pick(s) \in s
    BY <2>1, PickIn
  <2>3. Cardinality(s \ {Pick(s)}) = n
    <3>1. Cardinality(s \ {Pick(s)}) = Cardinality(s) - 1
      BY <1>1, <2>2, FS_RemoveElement, Zenon
    <3> QED
      BY <3>1
  <2>4. g[s \ {Pick(s)}] = h[s \ {Pick(s)}]
    BY <1>3, <2>3
  <2> QED
    BY <2>1, <2>4 DEF IsIter
<1> HIDE DEF N
<1>4. Nat \subseteq N
  BY <1>2, <1>3, NumberInduction
<1> QED
  BY <1>1, <1>4 DEF N

-----------------------------------------------------------------------------
(* The sums.                                                                *)

LEMMA SumIs ==
  ASSUME NEW f, NEW S, IsFiniteSet(S)
  PROVE  /\ SumFunctionOnSet(f, {}) = 0
         /\ S # {} =>
              SumFunctionOnSet(f, S) = f[Pick(S)] + SumFunctionOnSet(f, S \ {Pick(S)})
<1> DEFINE Fold(T) == CHOOSE g : IsIter(f, T, g)
<1>1. ASSUME NEW T, IsFiniteSet(T) PROVE IsIter(f, T, Fold(T)) /\ SumFunctionOnSet(f, T) = Fold(T)[T]
  BY <1>1, IterExists, SumUnfold, Zenon
<1> HIDE DEF Fold
<1>2. SumFunctionOnSet(f, {}) = 0
  BY <1>1, FS_EmptySet DEF IsIter
<1>3. ASSUME S # {}
      PROVE  SumFunctionOnSet(f, S) = f[Pick(S)] + SumFunctionOnSet(f, S \ {Pick(S)})
  <2> DEFINE T == S \ {Pick(S)}
  <2>1. IsFiniteSet(T)
    BY FS_RemoveElement
  <2>2. Fold(S)[T] = Fold(T)[T]
    BY <1>1, <2>1, IterUnique
  <2>3. Fold(S)[S] = f[Pick(S)] + Fold(S)[T]
    BY <1>1, <1>3 DEF IsIter
  <2> QED
    BY <1>1, <2>1, <2>2, <2>3
<1> QED
  BY <1>2, <1>3

\* A sum of integers is one, and any element may be taken out of it first.
LEMMA SumParts ==
  ASSUME NEW f, NEW S, IsFiniteSet(S), \A x \in S : f[x] \in Int
  PROVE  /\ SumFunctionOnSet(f, S) \in Int
         /\ \A x \in S : SumFunctionOnSet(f, S) = f[x] + SumFunctionOnSet(f, S \ {x})
<1> DEFINE Sum(T) == SumFunctionOnSet(f, T)
           Parts(T) == Sum(T) \in Int /\ \A x \in T : Sum(T) = f[x] + Sum(T \ {x})
           Sized(n) == \A T \in SUBSET S : Cardinality(T) <= n => Parts(T)
           N == {n \in Nat : Sized(n)}
<1>1. \A T \in SUBSET S : IsFiniteSet(T) /\ Cardinality(T) \in Nat
  BY FS_Subset, FS_CardinalityType
<1>2. Sum({}) = 0
  BY FS_EmptySet, SumIs
<1>3. ASSUME NEW T \in SUBSET S, NEW x \in T
      PROVE  T \ {x} \in SUBSET S /\ Cardinality(T \ {x}) = Cardinality(T) - 1
  BY <1>1, FS_RemoveElement, Zenon
<1>4. ASSUME NEW T \in SUBSET S, T # {}
      PROVE  Pick(T) \in T /\ Sum(T) = f[Pick(T)] + Sum(T \ {Pick(T)})
  BY <1>1, <1>4, SumIs, PickIn
<1> HIDE DEF Sum
<1>5. Sized(0)
  BY <1>1, <1>2, FS_EmptySet
<1>6. ASSUME NEW n \in Nat, Sized(n) PROVE Sized(n + 1)
  <2> SUFFICES ASSUME NEW T \in SUBSET S, Cardinality(T) <= n + 1 PROVE Parts(T)
    OBVIOUS
  <2>1. CASE T = {}
    BY <1>2, <2>1
  <2>2. CASE T # {}
    <3>1. PICK c \in T : Sum(T) = f[c] + Sum(T \ {c})
      BY <1>4, <2>2
    <3>2. \A x \in T : T \ {x} \in SUBSET S /\ Parts(T \ {x})
      <4>1. \A x \in T : T \ {x} \in SUBSET S /\ Cardinality(T \ {x}) = Cardinality(T) - 1
        BY <1>3
      <4>2. \A x \in T : Cardinality(T \ {x}) <= n
        BY <1>1, <4>1
      <4> HIDE DEF Parts
      <4> QED
        BY <1>6, <4>1, <4>2
    <3> HIDE DEF Parts
    <3>3. f[c] \in Int /\ Sum(T \ {c}) \in Int
      BY <3>2 DEF Parts
    <3>4. ASSUME NEW x \in T, x # c PROVE Sum(T) = f[x] + Sum(T \ {x})
      <4> DEFINE U == T \ {c, x}
      <4>1. U = (T \ {c}) \ {x} /\ U = (T \ {x}) \ {c} /\ U \in SUBSET S
        OBVIOUS
      <4>2. x \in T \ {c} /\ c \in T \ {x}
        BY <3>4
      <4>3. Sum(T \ {c}) = f[x] + Sum(U) /\ Sum(T \ {x}) = f[c] + Sum(U)
        BY <3>2, <4>1, <4>2 DEF Parts
      <4>4. Cardinality(U) <= n
        <5>1. Cardinality(T \ {c}) = Cardinality(T) - 1
          BY <1>3
        <5>2. Cardinality(U) = Cardinality(T \ {c}) - 1
          BY <1>3, <3>2, <4>1, <4>2
        <5> QED
          BY <1>1, <5>1, <5>2
      <4>5. Sum(U) \in Int
        BY <1>6, <4>1, <4>4 DEF Parts
      <4>6. f[x] \in Int
        OBVIOUS
      <4> HIDE DEF U
      <4> QED
        BY <3>1, <3>3, <4>3, <4>5, <4>6
    <3>5. Sum(T) \in Int
      BY <3>1, <3>3
    <3>6. \A x \in T : Sum(T) = f[x] + Sum(T \ {x})
      BY <3>1, <3>4
    <3> QED
      BY <3>5, <3>6 DEF Parts
  <2> QED
    BY <2>1, <2>2
<1> HIDE DEF Sized
<1>7. Nat \subseteq N
  <2>1. 0 \in N /\ \A n \in Nat : n \in N => n + 1 \in N
    BY <1>5, <1>6
  <2> HIDE DEF N
  <2> QED
    BY <2>1, NumberInduction
<1>8. Sized(Cardinality(S))
  BY <1>1, <1>7
<1>9. Parts(S)
  BY <1>1, <1>8 DEF Sized
<1> QED
  BY <1>9 DEF Sum

LEMMA SumEmpty == ASSUME NEW f PROVE SumFunctionOnSet(f, {}) = 0
  BY FS_EmptySet, SumIs

\* One element more.
LEMMA SumAdd ==
  ASSUME NEW f, NEW S, NEW x, IsFiniteSet(S), x \notin S, \A y \in S \cup {x} : f[y] \in Int
  PROVE  SumFunctionOnSet(f, S \cup {x}) = f[x] + SumFunctionOnSet(f, S)
<1>1. IsFiniteSet(S \cup {x}) /\ (S \cup {x}) \ {x} = S
  BY FS_AddElement
<1> QED
  BY <1>1, SumParts

\* Functions that agree on the set have the same sum.
LEMMA SumSame ==
  ASSUME NEW f, NEW g, NEW S, IsFiniteSet(S), \A x \in S : f[x] \in Int /\ g[x] = f[x]
  PROVE  SumFunctionOnSet(g, S) = SumFunctionOnSet(f, S)
<1> DEFINE F == {T \in SUBSET S : SumFunctionOnSet(g, T) = SumFunctionOnSet(f, T)}
<1>1. {} \in F
  BY SumEmpty
<1>2. ASSUME NEW T \in SUBSET S, NEW x \in S \ T, T \in F PROVE T \cup {x} \in F
  <2>1. IsFiniteSet(T)
    BY FS_Subset
  <2>2. /\ SumFunctionOnSet(f, T \cup {x}) = f[x] + SumFunctionOnSet(f, T)
        /\ SumFunctionOnSet(g, T \cup {x}) = g[x] + SumFunctionOnSet(g, T)
    BY <2>1, SumAdd
  <2> QED
    BY <1>2, <2>2
<1> HIDE DEF F
<1>3. S \in F
  BY <1>1, <1>2, SubsetInduction
<1> QED
  BY <1>3 DEF F

\* The sum of a function that is nowhere less is not less.
LEMMA SumLess ==
  ASSUME NEW f, NEW g, NEW S, IsFiniteSet(S),
         \A x \in S : f[x] \in Int /\ g[x] \in Int /\ f[x] <= g[x]
  PROVE  SumFunctionOnSet(f, S) <= SumFunctionOnSet(g, S)
<1> DEFINE F == {T \in SUBSET S : SumFunctionOnSet(f, T) <= SumFunctionOnSet(g, T)}
<1>1. {} \in F
  BY SumEmpty
<1>2. ASSUME NEW T \in SUBSET S, NEW x \in S \ T, T \in F PROVE T \cup {x} \in F
  <2>1. IsFiniteSet(T)
    BY FS_Subset
  <2>2. /\ SumFunctionOnSet(f, T \cup {x}) = f[x] + SumFunctionOnSet(f, T)
        /\ SumFunctionOnSet(g, T \cup {x}) = g[x] + SumFunctionOnSet(g, T)
    BY <2>1, SumAdd
  <2>3. SumFunctionOnSet(f, T) \in Int /\ SumFunctionOnSet(g, T) \in Int
    BY <2>1, SumParts
  <2> QED
    BY <1>2, <2>2, <2>3
<1> HIDE DEF F
<1>3. S \in F
  BY <1>1, <1>2, SubsetInduction
<1> QED
  BY <1>3 DEF F

\* Elements that count nothing may be left out.
LEMMA SumSupport ==
  ASSUME NEW f, NEW S, NEW T, IsFiniteSet(S), T \subseteq S,
         \A x \in S : f[x] \in Int, \A x \in S \ T : f[x] = 0
  PROVE  SumFunctionOnSet(f, S) = SumFunctionOnSet(f, T)
<1> DEFINE F == {U \in SUBSET (S \ T) : SumFunctionOnSet(f, T \cup U) = SumFunctionOnSet(f, T)}
<1>1. {} \in F
  <2>1. T \cup {} = T
    OBVIOUS
  <2> QED
    BY <2>1
<1>2. ASSUME NEW U \in SUBSET (S \ T), NEW x \in (S \ T) \ U, U \in F PROVE U \cup {x} \in F
  <2>1. IsFiniteSet(T \cup U) /\ x \notin T \cup U /\ T \cup (U \cup {x}) = (T \cup U) \cup {x}
    BY FS_Subset
  <2>2. SumFunctionOnSet(f, (T \cup U) \cup {x}) = f[x] + SumFunctionOnSet(f, T \cup U)
    BY <2>1, SumAdd
  <2>3. SumFunctionOnSet(f, T \cup U) \in Int /\ f[x] = 0
    BY <2>1, SumParts
  <2>4. SumFunctionOnSet(f, T \cup (U \cup {x})) = SumFunctionOnSet(f, T \cup U)
    <3>1. SumFunctionOnSet(f, T \cup (U \cup {x})) = SumFunctionOnSet(f, (T \cup U) \cup {x})
      BY <2>1, Zenon
    <3> QED
      BY <2>2, <2>3, <3>1
  <2>5. U \cup {x} \in SUBSET (S \ T)
    OBVIOUS
  <2> QED
    BY <1>2, <2>4, <2>5
<1>3. IsFiniteSet(S \ T)
  BY FS_Subset
<1> HIDE DEF F
<1>4. S \ T \in F
  BY <1>1, <1>2, <1>3, SubsetInduction
<1>5. T \cup (S \ T) = S
  OBVIOUS
<1> QED
  BY <1>4, <1>5 DEF F

\* Two functions that differ at one element have sums that differ by as much.
LEMMA SumChange ==
  ASSUME NEW f, NEW g, NEW S, NEW x \in S, IsFiniteSet(S),
         \A y \in S : f[y] \in Int /\ g[y] \in Int, \A y \in S \ {x} : g[y] = f[y]
  PROVE  SumFunctionOnSet(g, S) = SumFunctionOnSet(f, S) - f[x] + g[x]
<1>1. /\ SumFunctionOnSet(f, S) = f[x] + SumFunctionOnSet(f, S \ {x})
      /\ SumFunctionOnSet(g, S) = g[x] + SumFunctionOnSet(g, S \ {x})
  BY SumParts
<1>2. IsFiniteSet(S \ {x})
  BY FS_Subset
<1>3. SumFunctionOnSet(f, S \ {x}) = SumFunctionOnSet(g, S \ {x}) /\ SumFunctionOnSet(f, S \ {x}) \in Int
  BY <1>2, SumSame, SumParts
<1> QED
  BY <1>1, <1>3

\* The sum of the opposites.
LEMMA SumNegate ==
  ASSUME NEW f, NEW g, NEW S, IsFiniteSet(S), \A x \in S : f[x] \in Int /\ g[x] = -f[x]
  PROVE  SumFunctionOnSet(g, S) = -SumFunctionOnSet(f, S)
<1> DEFINE F == {T \in SUBSET S : SumFunctionOnSet(g, T) = -SumFunctionOnSet(f, T)}
<1>1. {} \in F
  BY SumEmpty
<1>2. ASSUME NEW T \in SUBSET S, NEW x \in S \ T, T \in F PROVE T \cup {x} \in F
  <2>1. IsFiniteSet(T)
    BY FS_Subset
  <2>2. \A y \in T \cup {x} : f[y] \in Int /\ g[y] \in Int
    OBVIOUS
  <2>3. /\ SumFunctionOnSet(f, T \cup {x}) = f[x] + SumFunctionOnSet(f, T)
        /\ SumFunctionOnSet(g, T \cup {x}) = g[x] + SumFunctionOnSet(g, T)
    BY <2>1, <2>2, SumAdd
  <2>4. SumFunctionOnSet(f, T) \in Int /\ SumFunctionOnSet(g, T) = -SumFunctionOnSet(f, T)
    BY <1>2, <2>1, SumParts
  <2>5. f[x] \in Int /\ g[x] = -f[x]
    OBVIOUS
  <2>6. SumFunctionOnSet(g, T \cup {x}) = -SumFunctionOnSet(f, T \cup {x})
    BY <2>3, <2>4, <2>5
  <2>7. T \cup {x} \in SUBSET S
    BY <1>2
  <2> QED
    BY <2>6, <2>7
<1> HIDE DEF F
<1>3. S \in F
  BY <1>1, <1>2, SubsetInduction
<1> QED
  BY <1>3 DEF F

-----------------------------------------------------------------------------
(* The tables and their rows.                                               *)

\* Appending a row to a table.
LEMMA AppendRow ==
    ASSUME NEW T, NEW s \in Seq(T), NEW x \in T
    PROVE  /\ Append(s, x) \in Seq(T)
           /\ Len(s) \in Nat
           /\ Len(Append(s, x)) = Len(s) + 1
           /\ DOMAIN s = 1..Len(s)
           /\ DOMAIN Append(s, x) = 1..(Len(s) + 1)
           /\ \A j \in 1..Len(s) : Append(s, x)[j] = s[j]
           /\ Append(s, x)[Len(s) + 1] = x
  OBVIOUS

\* Marking row i of the client ledger REVERSED and adding the compensating leg.
LEMMA ReversedLedger ==
    ASSUME NEW s \in Seq(LedgerRow), NEW i \in DOMAIN s, NEW x \in LedgerRow
    PROVE  /\ Reversed(s, i, x) \in Seq(LedgerRow)
           /\ Len(Reversed(s, i, x)) = Len(s) + 1
           /\ \A j \in 1..Len(s) : j # i => Reversed(s, i, x)[j] = s[j]
           /\ Reversed(s, i, x)[i] = [s[i] EXCEPT !.reversed = TRUE]
           /\ Reversed(s, i, x)[Len(s) + 1] = x
<1> DEFINE e == [s[i] EXCEPT !.reversed = TRUE]
           t == [s EXCEPT ![i] = e]
<1>1. /\ Len(s) \in Nat
      /\ DOMAIN s = 1..Len(s)
      /\ s[i] \in LedgerRow
  OBVIOUS
<1>2. e \in LedgerRow
  BY <1>1 DEF LedgerRow
<1>3. /\ t \in Seq(LedgerRow)
      /\ Len(t) = Len(s)
      /\ \A j \in 1..Len(s) : t[j] = IF j = i THEN e ELSE s[j]
  BY <1>1, <1>2, ExceptSeq
<1>4. Reversed(s, i, x) = Append(t, x)
  BY DEF Reversed
<1>5. QED
  BY <1>1, <1>3, <1>4, AppendRow

\* The same for the cashbook.
LEMMA ReversedCashbook ==
    ASSUME NEW s \in Seq(CashbookRow), NEW i \in DOMAIN s, NEW x \in CashbookRow
    PROVE  /\ Reversed(s, i, x) \in Seq(CashbookRow)
           /\ Len(Reversed(s, i, x)) = Len(s) + 1
           /\ \A j \in 1..Len(s) : j # i => Reversed(s, i, x)[j] = s[j]
           /\ Reversed(s, i, x)[i] = [s[i] EXCEPT !.reversed = TRUE]
           /\ Reversed(s, i, x)[Len(s) + 1] = x
<1> DEFINE e == [s[i] EXCEPT !.reversed = TRUE]
           t == [s EXCEPT ![i] = e]
<1>1. /\ Len(s) \in Nat
      /\ DOMAIN s = 1..Len(s)
      /\ s[i] \in CashbookRow
  OBVIOUS
<1>2. e \in CashbookRow
  BY <1>1 DEF CashbookRow
<1>3. /\ t \in Seq(CashbookRow)
      /\ Len(t) = Len(s)
      /\ \A j \in 1..Len(s) : t[j] = IF j = i THEN e ELSE s[j]
  BY <1>1, <1>2, ExceptSeq
<1>4. Reversed(s, i, x) = Append(t, x)
  BY DEF Reversed
<1>5. QED
  BY <1>1, <1>3, <1>4, AppendRow

-----------------------------------------------------------------------------
(* The nets.                                                                *)

\* Where the rows agree the two queries sum the same terms, whatever the
\* clients and the dates.
LEMMA NetsAgree ==
    ASSUME BooksInv, NEW C, NEW S
    PROVE  LedgerNet(C, S) = CashbookNet(C, S)
<1>1. DOMAIN ledger = 1..Len(ledger) /\ DOMAIN cashbook = 1..Len(ledger)
  BY DEF BooksInv, TypeOK, PairsAgree
<1>2. ASSUME NEW i \in DOMAIN ledger
      PROVE  /\ ledger[cashbook[i].link].client = ledger[i].client
             /\ CashbookCounts(i) <=> LedgerCounts(i)
             /\ Sign(cashbook[i].kind) = Sign(ledger[i].kind)
             /\ cashbook[i].date = ledger[i].date
             /\ cashbook[i].amount = ledger[i].amount
  <2>1. /\ ledger[i].link = i /\ cashbook[i].link = i
        /\ cashbook[i].date = ledger[i].date
        /\ cashbook[i].amount = ledger[i].amount
        /\ cashbook[i].kind = CashbookType(ledger[i].kind)
        /\ cashbook[i].reversed = ledger[i].reversed
        /\ cashbook[i].depth = ledger[i].depth
    BY DEF BooksInv, PairsAgree
  <2>2. QED
    BY <2>1 DEF CashbookCounts, LedgerCounts, Active, Sign, CashbookType
<1>3. LedgerDelta(C, S) = CashbookDelta(C, S)
  BY <1>1, <1>2 DEF LedgerDelta, CashbookDelta
<1>4. QED
  BY <1>3 DEF LedgerNet, CashbookNet

LEMMA InvImpliesBooksAgree == BooksInv => BooksAgree
  BY NetsAgree DEF BooksAgree

-----------------------------------------------------------------------------
(* The invariant.                                                           *)

LEMMA InitInv == Init => BooksInv
<1> SUFFICES ASSUME Init PROVE BooksInv
  OBVIOUS
<1>1. ledger \in Seq(LedgerRow) /\ cashbook \in Seq(CashbookRow)
  BY DEF Init
<1>2. TypeOK
  BY <1>1 DEF Init, TypeOK, Request
<1>3. PairsAgree
  BY DEF Init, PairsAgree
<1>4. RequestsNameRows
  BY DEF Init, RequestsNameRows, NoReq
<1>5. QED
  BY <1>2, <1>3, <1>4 DEF BooksInv

\* A new pair of rows agrees and disturbs no other.
LEMMA InsertPairInv ==
    ASSUME BooksInv,
           NEW f, f.client \in Clients, f.date \in Dates, f.amount \in Amounts,
           NEW kind \in TxnTypes, NEW source \in Sources, NEW status \in Statuses,
           InsertPair(f, kind, source, status)
    PROVE  /\ ledger' \in Seq(LedgerRow)
           /\ cashbook' \in Seq(CashbookRow)
           /\ PairsAgree'
           /\ DOMAIN ledger \subseteq DOMAIN ledger'
<1> DEFINE n == Len(ledger) + 1
           x == [client |-> f.client, date |-> f.date, amount |-> f.amount, kind |-> kind,
                 link |-> Len(cashbook) + 1, reversed |-> FALSE, depth |-> 0, parent |-> 0]
           y == [date |-> f.date, amount |-> f.amount, kind |-> CashbookType(kind),
                 source |-> source, status |-> status,
                 link |-> Len(ledger) + 1, reversed |-> FALSE, depth |-> 0, parent |-> 0]
<1>1. /\ ledger \in Seq(LedgerRow) /\ cashbook \in Seq(CashbookRow)
      /\ Len(ledger) = Len(cashbook) /\ Len(ledger) \in Nat
  BY DEF BooksInv, TypeOK, PairsAgree
<1>2. x \in LedgerRow
  BY <1>1 DEF LedgerRow
<1>3. y \in CashbookRow
  BY <1>1 DEF CashbookRow, CashbookType
<1>4. ledger' = Append(ledger, x) /\ cashbook' = Append(cashbook, y)
  BY DEF InsertPair
<1>5. /\ ledger' \in Seq(LedgerRow)
      /\ DOMAIN ledger = 1..Len(ledger)
      /\ Len(ledger') = n /\ DOMAIN ledger' = 1..n
      /\ \A j \in 1..Len(ledger) : ledger'[j] = ledger[j]
      /\ ledger'[n] = x
  BY <1>1, <1>2, <1>4, AppendRow
<1>6. /\ cashbook' \in Seq(CashbookRow)
      /\ Len(cashbook') = n
      /\ \A j \in 1..Len(ledger) : cashbook'[j] = cashbook[j]
      /\ cashbook'[n] = y
  BY <1>1, <1>3, <1>4, AppendRow
<1>7. PairsAgree'
  <2>1. Len(ledger') = Len(cashbook')
    BY <1>5, <1>6
  <2>2. ASSUME NEW i \in DOMAIN ledger'
        PROVE  /\ ledger'[i].link = i /\ cashbook'[i].link = i
               /\ cashbook'[i].date = ledger'[i].date
               /\ cashbook'[i].amount = ledger'[i].amount
               /\ cashbook'[i].kind = CashbookType(ledger'[i].kind)
               /\ cashbook'[i].reversed = ledger'[i].reversed
               /\ cashbook'[i].depth = ledger'[i].depth
    <3>1. CASE i = n
      BY <3>1, <1>1, <1>5, <1>6
    <3>2. CASE i \in 1..Len(ledger)
      BY <3>2, <1>5, <1>6 DEF BooksInv, PairsAgree
    <3>3. QED
      BY <3>1, <3>2, <1>1, <1>5
  <2>3. QED
    BY <2>1, <2>2 DEF PairsAgree
<1>8. QED
  BY <1>1, <1>5, <1>6, <1>7
\* A reversal adds an agreeing pair and marks the same row in both tables.
LEMMA ReverseWriteInv ==
    ASSUME BooksInv, NEW w \in Workers, ReverseWrite(w),
           req[w].row \in DOMAIN ledger, req[w].date \in Dates
    PROVE  /\ ledger' \in Seq(LedgerRow)
           /\ cashbook' \in Seq(CashbookRow)
           /\ fees' \subseteq FeeRow
           /\ PairsAgree'
           /\ DOMAIN ledger \subseteq DOMAIN ledger'
<1> DEFINE i == req[w].row
           d == req[w].date
           orig == ledger[i]
           cb == cashbook[i]
           n == Len(ledger) + 1
           x == [client |-> orig.client, date |-> d, amount |-> orig.amount,
                 kind |-> Opposite(orig.kind), link |-> Len(cashbook) + 1,
                 reversed |-> FALSE, depth |-> orig.depth + 1, parent |-> i]
           y == [date |-> d, amount |-> cb.amount, kind |-> Opposite(cb.kind),
                 source |-> cb.source, status |-> "Cleared", link |-> Len(ledger) + 1,
                 reversed |-> FALSE, depth |-> orig.depth + 1, parent |-> i]
<1>1. /\ ledger \in Seq(LedgerRow) /\ cashbook \in Seq(CashbookRow)
      /\ Len(ledger) = Len(cashbook) /\ Len(ledger) \in Nat
      /\ DOMAIN ledger = 1..Len(ledger) /\ DOMAIN cashbook = 1..Len(ledger)
      /\ i \in 1..Len(ledger)
  BY DEF BooksInv, TypeOK, PairsAgree
<1>2. /\ orig \in LedgerRow /\ cb \in CashbookRow
      /\ orig.link = i
  BY <1>1 DEF BooksInv, PairsAgree
<1>3. x \in LedgerRow
  BY <1>1, <1>2, SMTT(30) DEF LedgerRow, Opposite, TxnTypes
<1>4. y \in CashbookRow
  <2>1. /\ cb.amount \in Amounts /\ cb.source \in Sources
        /\ Opposite(cb.kind) \in {"Receipt", "Payment"}
    BY <1>2 DEF CashbookRow, Opposite
  <2>2. orig.depth + 1 \in Nat /\ i \in Nat /\ Len(ledger) + 1 \in Nat
    BY <1>1, <1>2 DEF LedgerRow
  <2>3. QED
    BY <2>1, <2>2 DEF CashbookRow, Statuses
<1>5. /\ ledger' = Reversed(ledger, i, x)
      /\ cashbook' = Reversed(cashbook, i, y)
      /\ fees' = CompensatedFees(i, d)
  BY <1>2 DEF ReverseWrite
<1> HIDE DEF x, y, i
<1>6. /\ ledger' \in Seq(LedgerRow)
      /\ Len(ledger') = n
      /\ \A j \in 1..Len(ledger) : j # i => ledger'[j] = ledger[j]
      /\ ledger'[i] = [orig EXCEPT !.reversed = TRUE]
      /\ ledger'[n] = x
  <2>1. ledger \in Seq(LedgerRow) /\ i \in DOMAIN ledger /\ x \in LedgerRow
    BY <1>1, <1>3
  <2>2. /\ Reversed(ledger, i, x) \in Seq(LedgerRow)
        /\ Len(Reversed(ledger, i, x)) = Len(ledger) + 1
        /\ \A j \in 1..Len(ledger) : j # i => Reversed(ledger, i, x)[j] = ledger[j]
        /\ Reversed(ledger, i, x)[i] = [ledger[i] EXCEPT !.reversed = TRUE]
        /\ Reversed(ledger, i, x)[Len(ledger) + 1] = x
    BY <2>1, ReversedLedger
  <2>3. QED
    BY <2>2, <1>1, <1>5
<1>7. /\ cashbook' \in Seq(CashbookRow)
      /\ Len(cashbook') = n
      /\ \A j \in 1..Len(ledger) : j # i => cashbook'[j] = cashbook[j]
      /\ cashbook'[i] = [cb EXCEPT !.reversed = TRUE]
      /\ cashbook'[n] = y
  <2>1. cashbook \in Seq(CashbookRow) /\ i \in DOMAIN cashbook /\ y \in CashbookRow
    BY <1>1, <1>4
  <2>2. /\ Reversed(cashbook, i, y) \in Seq(CashbookRow)
        /\ Len(Reversed(cashbook, i, y)) = Len(cashbook) + 1
        /\ \A j \in 1..Len(cashbook) : j # i => Reversed(cashbook, i, y)[j] = cashbook[j]
        /\ Reversed(cashbook, i, y)[i] = [cashbook[i] EXCEPT !.reversed = TRUE]
        /\ Reversed(cashbook, i, y)[Len(cashbook) + 1] = y
    BY <2>1, ReversedCashbook
  <2>3. QED
    BY <2>2, <1>1, <1>5
<1>8. fees' \subseteq FeeRow
  BY <1>1, <1>5 DEF CompensatedFees, BooksInv, TypeOK, FeeRow
<1>9. DOMAIN ledger' = 1..n
  BY <1>1, <1>6
<1>10. PairsAgree'
  <2>1. ASSUME NEW j \in DOMAIN ledger'
        PROVE  /\ ledger'[j].link = j /\ cashbook'[j].link = j
               /\ cashbook'[j].date = ledger'[j].date
               /\ cashbook'[j].amount = ledger'[j].amount
               /\ cashbook'[j].kind = CashbookType(ledger'[j].kind)
               /\ cashbook'[j].reversed = ledger'[j].reversed
               /\ cashbook'[j].depth = ledger'[j].depth
    <3>1. CASE j = n
      <4>1. /\ cb.amount = orig.amount
            /\ cb.kind = CashbookType(orig.kind)
        BY <1>1 DEF BooksInv, PairsAgree
      <4>2. Opposite(cb.kind) = CashbookType(Opposite(orig.kind))
        BY <4>1, <1>2 DEF Opposite, CashbookType
      <4>3. QED
        BY <3>1, <4>1, <4>2, <1>1, <1>6, <1>7 DEF x, y
    <3>2. CASE j = i
      <4>1. /\ orig.link = i /\ cb.link = i
            /\ cb.date = orig.date /\ cb.amount = orig.amount
            /\ cb.kind = CashbookType(orig.kind)
            /\ cb.depth = orig.depth
        BY <1>1 DEF BooksInv, PairsAgree
      <4>2. /\ ledger'[j].link = orig.link /\ ledger'[j].date = orig.date
            /\ ledger'[j].amount = orig.amount /\ ledger'[j].kind = orig.kind
            /\ ledger'[j].reversed = TRUE /\ ledger'[j].depth = orig.depth
        BY <3>2, <1>2, <1>6 DEF LedgerRow
      <4>3. /\ cashbook'[j].link = cb.link /\ cashbook'[j].date = cb.date
            /\ cashbook'[j].amount = cb.amount /\ cashbook'[j].kind = cb.kind
            /\ cashbook'[j].reversed = TRUE /\ cashbook'[j].depth = cb.depth
        BY <3>2, <1>2, <1>7 DEF CashbookRow
      <4>4. QED
        BY <3>2, <4>1, <4>2, <4>3
    <3>3. CASE j \in 1..Len(ledger) /\ j # i
      BY <3>3, <1>1, <1>6, <1>7 DEF BooksInv, PairsAgree
    <3>4. QED
      BY <3>1, <3>2, <3>3, <1>1, <1>9
  <2>2. Len(ledger') = Len(cashbook')
    BY <1>6, <1>7
  <2>3. QED
    BY <2>1, <2>2 DEF PairsAgree
<1>11. QED
  BY <1>1, <1>6, <1>7, <1>8, <1>9, <1>10

\* A change of status touches no column that the rows share.
LEMMA ChequeWriteInv ==
    ASSUME BooksInv, NEW w \in Workers, ChequeWrite(w),
           req[w].row \in DOMAIN ledger, req[w].to \in {"Cleared", "Declined"}
    PROVE  /\ cashbook' \in Seq(CashbookRow)
           /\ PairsAgree'
<1> DEFINE i == req[w].row
           e == [cashbook[i] EXCEPT !.status = req[w].to]
<1>1. /\ cashbook \in Seq(CashbookRow)
      /\ Len(ledger) = Len(cashbook) /\ Len(ledger) \in Nat
      /\ DOMAIN ledger = 1..Len(ledger)
      /\ i \in 1..Len(cashbook) /\ cashbook[i] \in CashbookRow
  BY DEF BooksInv, TypeOK, PairsAgree
<1>2. e \in CashbookRow
  BY <1>1 DEF CashbookRow, Statuses
<1>3. cashbook' = [cashbook EXCEPT ![i] = e] /\ ledger' = ledger
  BY DEF ChequeWrite
<1>4. /\ cashbook' \in Seq(CashbookRow)
      /\ Len(cashbook') = Len(cashbook)
      /\ \A j \in 1..Len(cashbook) : cashbook'[j] = IF j = i THEN e ELSE cashbook[j]
  BY <1>1, <1>2, <1>3, ExceptSeq
<1>5. /\ e.link = cashbook[i].link /\ e.date = cashbook[i].date
      /\ e.amount = cashbook[i].amount /\ e.kind = cashbook[i].kind
      /\ e.reversed = cashbook[i].reversed /\ e.depth = cashbook[i].depth
  BY <1>1 DEF CashbookRow
<1>6. PairsAgree'
  BY <1>1, <1>3, <1>4, <1>5 DEF BooksInv, PairsAgree
<1>7. QED
  BY <1>4, <1>6
\* What a request holds follows from its operation.
LEMMA RequestKinds ==
    ASSUME NEW r \in Request
    PROVE  /\ r.op = "post" => r \in PostReq
           /\ r.op = "fee" => r \in FeeReq
           /\ r.op = "cheque" => r \in ChequeReq
           /\ r.op = "reverse" => r \in ReverseReq
           /\ r.op = "close" => r \in CloseReq
  BY DEF Request, NoReq, PostReq, FeeReq, ChequeReq, ReverseReq, CloseReq

\* A worker's request may be replaced by any that names an existing row.
LEMMA NewRequest ==
    ASSUME BooksInv, NEW w \in Workers, NEW r \in Request,
           req' = [req EXCEPT ![w] = r],
           DOMAIN ledger \subseteq DOMAIN ledger',
           r.op \in {"cheque", "reverse"} => r.row \in DOMAIN ledger
    PROVE  /\ req' \in [Workers -> Request]
           /\ RequestsNameRows'
  BY DEF BooksInv, TypeOK, RequestsNameRows

LEMMA FinishedRequest ==
    ASSUME BooksInv, NEW w \in Workers, Finish(w), DOMAIN ledger \subseteq DOMAIN ledger'
    PROVE  /\ req' \in [Workers -> Request]
           /\ RequestsNameRows'
<1>1. NoReq \in Request /\ NoReq.op \notin {"cheque", "reverse"}
  BY DEF Request, NoReq
<1>2. QED
  BY <1>1, NewRequest DEF Finish

LEMMA TablesUnchanged ==
    ASSUME BooksInv, UNCHANGED tables,
           req' \in [Workers -> Request], RequestsNameRows'
    PROVE  BooksInv'
  BY DEF tables, BooksInv, TypeOK, PairsAgree

\* A check of a request changes only where the request stands.
LEMMA ProceedInv ==
    ASSUME BooksInv, NEW w \in Workers, NEW ok, NEW step, Proceed(w, ok, step),
           [req[w] EXCEPT !.at = step] \in Request
    PROVE  BooksInv'
<1> DEFINE r == IF ok THEN [req[w] EXCEPT !.at = step] ELSE NoReq
<1>1. req[w] \in Request
  BY DEF BooksInv, TypeOK
<1>2. r \in Request
  BY DEF Request
<1>3. r.op \in {"cheque", "reverse"} => r.row \in DOMAIN ledger
  <2>1. NoReq.op \notin {"cheque", "reverse"}
    BY DEF NoReq
  <2>2. req[w].op \in {"cheque", "reverse"} => req[w].row \in DOMAIN ledger
    BY DEF BooksInv, RequestsNameRows
  <2>3. ASSUME r = [req[w] EXCEPT !.at = step], r.op \in {"cheque", "reverse"}
        PROVE  r.row \in DOMAIN ledger
    <3>1. req[w].op = "cheque" \/ req[w].op = "reverse"
      BY <2>3, <1>1 DEF Request, NoReq, PostReq, FeeReq, ChequeReq, ReverseReq, CloseReq
    <3>2. req[w] \in ChequeReq \/ req[w] \in ReverseReq
      BY <3>1, <1>1, RequestKinds
    <3>3. r.row = req[w].row
      BY <3>2, <2>3 DEF ChequeReq, ReverseReq
    <3>4. QED
      BY <3>1, <3>3, <2>2
  <2>4. QED
    BY <2>1, <2>3
<1>4. req' = [req EXCEPT ![w] = r] /\ UNCHANGED tables
  BY DEF Proceed
<1>5. DOMAIN ledger \subseteq DOMAIN ledger'
  BY <1>4 DEF tables
<1> HIDE DEF r
<1>6. req' \in [Workers -> Request] /\ RequestsNameRows'
  BY <1>2, <1>3, <1>4, <1>5, NewRequest
<1>7. QED
  BY <1>4, <1>6, TablesUnchanged
-----------------------------------------------------------------------------
(* One lemma per operation: its steps preserve the invariant.               *)

LEMMA PostInv ==
    ASSUME BooksInv, NEW w \in Workers, Post(w)
    PROVE  BooksInv'
<1>1. req[w] \in Request
  BY DEF BooksInv, TypeOK
<1>2. CASE PostBegin(w)
  <2>1. PICK f \in PostForms : PostBegin(w)!(f)
    BY <1>2 DEF PostBegin
  <2>2. [op |-> "post", at |-> "month", form |-> f] \in Request
    BY <2>1, FormsAssumption DEF Request, PostReq
  <2>3. /\ req' = [req EXCEPT ![w] = [op |-> "post", at |-> "month", form |-> f]]
        /\ UNCHANGED tables
    BY <2>1
  <2>4. DOMAIN ledger \subseteq DOMAIN ledger'
    BY <2>3 DEF tables
  <2>5. req' \in [Workers -> Request] /\ RequestsNameRows'
    BY <2>2, <2>3, <2>4, NewRequest
  <2>6. QED
    BY <2>3, <2>5, TablesUnchanged
<1>3. CASE PostMonth(w)
  <2>1. req[w] \in PostReq
    BY <1>1, <1>3, RequestKinds DEF PostMonth, At
  <2>2. [req[w] EXCEPT !.at = "write"] \in Request
    BY <2>1 DEF PostReq, Request
  <2>3. QED
    BY <1>3, <2>2, ProceedInv DEF PostMonth
<1>4. CASE PostWrite(w)
  <2> DEFINE f == req[w].form
             status == IF f.source = "Cheque" THEN "Pending" ELSE "Cleared"
  <2>1. req[w] \in PostReq
    BY <1>1, <1>4, RequestKinds DEF PostWrite, At
  <2>2. /\ f.client \in Clients /\ f.date \in Dates /\ f.amount \in Amounts
        /\ f.kind \in TxnTypes /\ f.source \in Sources /\ status \in Statuses
    BY <2>1 DEF PostReq, PostForm, Statuses
  <2>3. /\ InsertPair(f, f.kind, f.source, status)
        /\ Finish(w)
        /\ UNCHANGED <<fees, matter, lockedMonths>>
    BY <1>4 DEF PostWrite
  <2> HIDE DEF f, status
  <2>4. /\ ledger' \in Seq(LedgerRow) /\ cashbook' \in Seq(CashbookRow)
        /\ PairsAgree' /\ DOMAIN ledger \subseteq DOMAIN ledger'
    BY <2>2, <2>3, InsertPairInv
  <2>5. req' \in [Workers -> Request] /\ RequestsNameRows'
    BY <2>3, <2>4, FinishedRequest
  <2>6. QED
    BY <2>3, <2>4, <2>5 DEF BooksInv, TypeOK
<1>5. CASE PostRefused(w)
  <2>1. Finish(w) /\ UNCHANGED tables
    BY <1>5 DEF PostRefused
  <2>2. DOMAIN ledger \subseteq DOMAIN ledger'
    BY <2>1 DEF tables
  <2>3. QED
    BY <2>1, <2>2, FinishedRequest, TablesUnchanged
<1>6. QED
  BY <1>2, <1>3, <1>4, <1>5 DEF Post

LEMMA TransferFeeInv ==
    ASSUME BooksInv, NEW w \in Workers, TransferFee(w)
    PROVE  BooksInv'
<1>1. req[w] \in Request
  BY DEF BooksInv, TypeOK
<1>2. CASE FeeBegin(w)
  <2>1. PICK f \in FeeForms : FeeBegin(w)!(f)
    BY <1>2 DEF FeeBegin
  <2>2. [op |-> "fee", at |-> "funds", form |-> f] \in Request
    BY <2>1, FormsAssumption DEF Request, FeeReq
  <2>3. /\ req' = [req EXCEPT ![w] = [op |-> "fee", at |-> "funds", form |-> f]]
        /\ UNCHANGED tables
    BY <2>1
  <2>4. DOMAIN ledger \subseteq DOMAIN ledger'
    BY <2>3 DEF tables
  <2>5. req' \in [Workers -> Request] /\ RequestsNameRows'
    BY <2>2, <2>3, <2>4, NewRequest
  <2>6. QED
    BY <2>3, <2>5, TablesUnchanged
<1>3. CASE FeeFunds(w) \/ FeeMonth(w)
  <2>1. req[w] \in FeeReq
    BY <1>1, <1>3, RequestKinds DEF FeeFunds, FeeMonth, At
  <2>2. /\ [req[w] EXCEPT !.at = "month"] \in Request
        /\ [req[w] EXCEPT !.at = "write"] \in Request
    BY <2>1 DEF FeeReq, Request
  <2>3. CASE FeeFunds(w)
    BY <2>2, <2>3, ProceedInv DEF FeeFunds
  <2>4. CASE FeeMonth(w)
    BY <2>2, <2>4, ProceedInv DEF FeeMonth
  <2>5. QED
    BY <1>3, <2>3, <2>4
<1>4. CASE FeeWrite(w)
  <2> DEFINE f == req[w].form
  <2>1. req[w] \in FeeReq
    BY <1>1, <1>4, RequestKinds DEF FeeWrite, At
  <2>2. f.client \in Clients /\ f.date \in Dates /\ f.amount \in Amounts
    BY <2>1 DEF FeeReq, FeeForm
  <2>3. /\ InsertPair(f, "Payment", "Other", "Cleared")
        /\ fees' = fees \cup {[link |-> Len(ledger) + 1, client |-> f.client,
                               date |-> f.date, amount |-> f.amount]}
        /\ Finish(w)
        /\ UNCHANGED <<matter, lockedMonths>>
    BY <1>4 DEF FeeWrite
  <2> HIDE DEF f
  <2>4. "Payment" \in TxnTypes /\ "Other" \in Sources /\ "Cleared" \in Statuses
    BY DEF TxnTypes, Sources, Statuses
  <2>5. /\ ledger' \in Seq(LedgerRow) /\ cashbook' \in Seq(CashbookRow)
        /\ PairsAgree' /\ DOMAIN ledger \subseteq DOMAIN ledger'
    BY <2>2, <2>3, <2>4, InsertPairInv
  <2>6. fees' \subseteq FeeRow
    <3>1. Len(ledger) + 1 \in Nat
      BY DEF BooksInv, TypeOK
    <3>2. QED
      BY <2>2, <2>3, <3>1 DEF BooksInv, TypeOK, FeeRow, Amounts
  <2>7. req' \in [Workers -> Request] /\ RequestsNameRows'
    BY <2>3, <2>5, FinishedRequest
  <2>8. QED
    BY <2>3, <2>5, <2>6, <2>7 DEF BooksInv, TypeOK
<1>5. QED
  BY <1>2, <1>3, <1>4 DEF TransferFee
LEMMA UpdateChequeInv ==
    ASSUME BooksInv, NEW w \in Workers, UpdateCheque(w)
    PROVE  BooksInv'
<1>1. req[w] \in Request
  BY DEF BooksInv, TypeOK
<1>2. CASE ChequeBegin(w)
  <2>1. PICK i \in DOMAIN cashbook, to \in {"Cleared", "Declined"} : ChequeBegin(w)!(i, to)
    BY <1>2 DEF ChequeBegin
  <2> DEFINE r == [op |-> "cheque", at |-> "month", row |-> i, to |-> to]
  <2>2. i \in DOMAIN ledger /\ i \in Nat
    BY DEF BooksInv, TypeOK, PairsAgree
  <2>3. r \in Request
    BY <2>2 DEF Request, ChequeReq
  <2>4. r.row \in DOMAIN ledger
    BY <2>2
  <2>5. req' = [req EXCEPT ![w] = r] /\ UNCHANGED tables
    BY <2>1
  <2>6. DOMAIN ledger \subseteq DOMAIN ledger'
    BY <2>5 DEF tables
  <2> HIDE DEF r
  <2>7. req' \in [Workers -> Request] /\ RequestsNameRows'
    BY <2>3, <2>4, <2>5, <2>6, NewRequest
  <2>8. QED
    BY <2>5, <2>7, TablesUnchanged
<1>3. CASE ChequeMonth(w)
  <2>1. req[w] \in ChequeReq
    BY <1>1, <1>3, RequestKinds DEF ChequeMonth, At
  <2>2. [req[w] EXCEPT !.at = "write"] \in Request
    BY <2>1 DEF ChequeReq, Request
  <2>3. QED
    BY <1>3, <2>2, ProceedInv DEF ChequeMonth
<1>4. CASE ChequeWrite(w)
  <2>1. req[w].op = "cheque"
    BY <1>4 DEF ChequeWrite, At
  <2>2. req[w].to \in {"Cleared", "Declined"}
    BY <2>1, <1>1, RequestKinds DEF ChequeReq
  <2>3. req[w].row \in DOMAIN ledger
    BY <2>1 DEF BooksInv, RequestsNameRows
  <2>4. cashbook' \in Seq(CashbookRow) /\ PairsAgree'
    BY <1>4, <2>2, <2>3, ChequeWriteInv
  <2>5. Finish(w) /\ UNCHANGED <<ledger, fees, matter, lockedMonths>>
    BY <1>4 DEF ChequeWrite
  <2>6. req' \in [Workers -> Request] /\ RequestsNameRows'
    BY <2>5, FinishedRequest
  <2>7. QED
    BY <2>4, <2>5, <2>6 DEF BooksInv, TypeOK
<1>5. QED
  BY <1>2, <1>3, <1>4 DEF UpdateCheque

LEMMA ReverseInv ==
    ASSUME BooksInv, NEW w \in Workers, Reverse(w)
    PROVE  BooksInv'
<1>1. req[w] \in Request
  BY DEF BooksInv, TypeOK
<1>2. CASE ReverseBegin(w)
  <2>1. PICK i \in DOMAIN ledger, d \in Dates : ReverseBegin(w)!(i, d)
    BY <1>2 DEF ReverseBegin
  <2> DEFINE r == [op |-> "reverse", at |-> "read", row |-> i, date |-> d]
  <2>2. i \in Nat
    BY DEF BooksInv, TypeOK
  <2>3. r \in Request /\ r.row \in DOMAIN ledger
    BY <2>2 DEF Request, ReverseReq
  <2>4. req' = [req EXCEPT ![w] = r] /\ UNCHANGED tables
    BY <2>1
  <2>5. DOMAIN ledger \subseteq DOMAIN ledger'
    BY <2>4 DEF tables
  <2> HIDE DEF r
  <2>6. req' \in [Workers -> Request] /\ RequestsNameRows'
    BY <2>3, <2>4, <2>5, NewRequest
  <2>7. QED
    BY <2>4, <2>6, TablesUnchanged
<1>3. CASE ReverseRead(w)
  <2>1. req[w] \in ReverseReq
    BY <1>1, <1>3, RequestKinds DEF ReverseRead, At
  <2>2. [req[w] EXCEPT !.at = "write"] \in Request
    BY <2>1 DEF ReverseReq, Request
  <2>3. QED
    BY <1>3, <2>2, ProceedInv DEF ReverseRead
<1>4. CASE ReverseWrite(w)
  <2>1. req[w].op = "reverse"
    BY <1>4 DEF ReverseWrite, At
  <2>2. req[w].date \in Dates
    BY <2>1, <1>1, RequestKinds DEF ReverseReq
  <2>3. req[w].row \in DOMAIN ledger
    BY <2>1 DEF BooksInv, RequestsNameRows
  <2>4. /\ ledger' \in Seq(LedgerRow) /\ cashbook' \in Seq(CashbookRow)
        /\ fees' \subseteq FeeRow
        /\ PairsAgree' /\ DOMAIN ledger \subseteq DOMAIN ledger'
    BY <1>4, <2>2, <2>3, ReverseWriteInv
  <2>5. Finish(w) /\ UNCHANGED <<matter, lockedMonths>>
    BY <1>4 DEF ReverseWrite
  <2>6. req' \in [Workers -> Request] /\ RequestsNameRows'
    BY <2>4, <2>5, FinishedRequest
  <2>7. QED
    BY <2>4, <2>5, <2>6 DEF BooksInv, TypeOK
<1>5. QED
  BY <1>2, <1>3, <1>4 DEF Reverse

LEMMA AdministerInv ==
    ASSUME BooksInv, NEW w \in Workers, Administer(w)
    PROVE  BooksInv'
<1>1. req[w] \in Request
  BY DEF BooksInv, TypeOK
<1>2. CASE CloseBegin(w)
  <2>1. PICK c \in Clients : CloseBegin(w)!(c)
    BY <1>2 DEF CloseBegin
  <2> DEFINE r == [op |-> "close", at |-> "write", client |-> c]
  <2>2. r \in Request /\ r.op \notin {"cheque", "reverse"}
    BY DEF Request, CloseReq
  <2>3. req' = [req EXCEPT ![w] = r] /\ UNCHANGED tables
    BY <2>1
  <2>4. DOMAIN ledger \subseteq DOMAIN ledger'
    BY <2>3 DEF tables
  <2> HIDE DEF r
  <2>5. req' \in [Workers -> Request] /\ RequestsNameRows'
    BY <2>2, <2>3, <2>4, NewRequest
  <2>6. QED
    BY <2>3, <2>5, TablesUnchanged
<1>3. CASE CloseWrite(w)
  <2>1. Finish(w) /\ UNCHANGED <<ledger, cashbook, fees, lockedMonths>>
    BY <1>3 DEF CloseWrite
  <2>2. req' \in [Workers -> Request] /\ RequestsNameRows'
    BY <2>1, FinishedRequest
  <2>3. matter' \in [Clients -> {"OPEN", "CLOSED"}]
    BY <1>3 DEF CloseWrite, BooksInv, TypeOK
  <2>4. QED
    BY <2>1, <2>2, <2>3 DEF BooksInv, TypeOK, PairsAgree
<1>4. CASE Reopen(w)
  BY <1>4 DEF Reopen, BooksInv, TypeOK, PairsAgree, RequestsNameRows
<1>5. CASE LockMonth(w) \/ UnlockMonth(w)
  BY <1>5 DEF LockMonth, UnlockMonth, BooksInv, TypeOK, PairsAgree, RequestsNameRows
<1>6. QED
  BY <1>2, <1>3, <1>4, <1>5 DEF Administer

LEMMA AbortInv ==
    ASSUME BooksInv, NEW w \in Workers, Abort(w)
    PROVE  BooksInv'
<1>1. Finish(w) /\ UNCHANGED tables
  BY DEF Abort
<1>2. DOMAIN ledger \subseteq DOMAIN ledger'
  BY <1>1 DEF tables
<1>3. QED
  BY <1>1, <1>2, FinishedRequest, TablesUnchanged

LEMMA StepInv == BooksInv /\ [Next]_vars => BooksInv'
<1> SUFFICES ASSUME BooksInv, [Next]_vars PROVE BooksInv'
  OBVIOUS
<1>1. CASE Next
  <2>1. PICK w \in Workers : Post(w) \/ TransferFee(w) \/ UpdateCheque(w) \/ Reverse(w)
                                \/ Administer(w) \/ Abort(w)
    BY <1>1 DEF Next, Step
  <2>2. QED
    BY <2>1, PostInv, TransferFeeInv, UpdateChequeInv, ReverseInv, AdministerInv, AbortInv
<1>2. CASE UNCHANGED vars
  BY <1>2 DEF vars, BooksInv, TypeOK, PairsAgree, RequestsNameRows
<1>3. QED
  BY <1>1, <1>2

-----------------------------------------------------------------------------
(* The theorems.                                                            *)

\* In every reachable state row i of the client ledger and row i of the
\* cashbook are linked and agree: what database.py keeps by writing both rows
\* in one transaction, however the workers interleave.
THEOREM BooksInvariant == Spec => []BooksInv
<1>1. Init => BooksInv
  BY InitInv
<1>2. BooksInv /\ [Next]_vars => BooksInv'
  BY StepInv
<1>3. QED
  BY <1>1, <1>2, PTL DEF Spec

\* The tables and the requests under way keep to their types.
THEOREM TypeCorrect == Spec => []TypeOK
<1>1. BooksInv => TypeOK
  BY DEF BooksInv
<1>2. QED
  BY <1>1, BooksInvariant, PTL

\* The client ledger and the cashbook give every client the same balance at
\* every date: no operation of the program, and no interleaving of any number
\* of workers, opens the difference that the reconciliation page looks for.
THEOREM Agreement == Spec => []BooksAgree
<1>1. BooksInv => BooksAgree
  BY InvImpliesBooksAgree
<1>2. QED
  BY <1>1, BooksInvariant, PTL

-----------------------------------------------------------------------------
(* Chains of reversals.                                                     *)

\* The clauses of ChainSound for row i with compensating leg or parent.
Compensated(i) == ledger[i].reversed => \E j \in DOMAIN ledger : ledger[j].parent = i

Undoes(i) ==
    ledger[i].parent # 0 =>
        /\ ledger[i].parent \in 1..(i - 1)
        /\ ledger[ledger[i].parent].reversed
        /\ ledger[i].client = ledger[ledger[i].parent].client
        /\ ledger[i].amount = ledger[ledger[i].parent].amount
        /\ ledger[i].kind = Opposite(ledger[ledger[i].parent].kind)
        /\ ledger[i].depth = ledger[ledger[i].parent].depth + 1
        /\ cashbook[ledger[i].link].parent = ledger[ledger[i].parent].link
        /\ cashbook[ledger[ledger[i].parent].link].reversed

LEMMA ChainSoundIs == ChainSound <=> \A i \in DOMAIN ledger : Compensated(i) /\ Undoes(i)
  BY DEF ChainSound, Compensated, Undoes

Mirrors(f) ==
    /\ f.link \in DOMAIN ledger
    /\ f.client = ledger[f.link].client /\ f.date = ledger[f.link].date
    /\ f.amount = -Sign(ledger[f.link].kind) * ledger[f.link].amount

IsFee(i) == \E f \in fees : f.link = i

LEMMA FeesFollowLedgerIs ==
  FeesFollowLedger <=> /\ \A f \in fees : Mirrors(f)
                       /\ \A i \in DOMAIN ledger :
                             ledger[i].parent # 0 => (IsFee(i) <=> IsFee(ledger[i].parent))
  BY DEF FeesFollowLedger, Mirrors, IsFee

ChainInv == BooksInv /\ ChainSound /\ FeesFollowLedger

-----------------------------------------------------------------------------
(* What the writes do to the rows.                                          *)

LEMMA TablesAre ==
  BooksInv => /\ ledger \in Seq(LedgerRow) /\ cashbook \in Seq(CashbookRow)
              /\ Len(ledger) = Len(cashbook) /\ Len(ledger) \in Nat
              /\ DOMAIN ledger = 1..Len(ledger) /\ DOMAIN cashbook = 1..Len(ledger)
              /\ \A i \in DOMAIN ledger :
                    /\ ledger[i] \in LedgerRow /\ cashbook[i] \in CashbookRow
                    /\ ledger[i].link = i
                    /\ cashbook[i].reversed = ledger[i].reversed
<1> SUFFICES ASSUME BooksInv
             PROVE  /\ ledger \in Seq(LedgerRow) /\ cashbook \in Seq(CashbookRow)
                    /\ Len(ledger) = Len(cashbook) /\ Len(ledger) \in Nat
                    /\ DOMAIN ledger = 1..Len(ledger) /\ DOMAIN cashbook = 1..Len(ledger)
                    /\ \A i \in DOMAIN ledger :
                          /\ ledger[i] \in LedgerRow /\ cashbook[i] \in CashbookRow
                          /\ ledger[i].link = i
                          /\ cashbook[i].reversed = ledger[i].reversed
  OBVIOUS
<1> QED
  BY DEF BooksInv, TypeOK, PairsAgree

\* A new pair is a row of its own.
LEMMA InsertedRows ==
  ASSUME BooksInv, NEW f, NEW kind, NEW source, NEW status, InsertPair(f, kind, source, status)
  PROVE  /\ DOMAIN ledger' = 1..(Len(ledger) + 1)
         /\ \A j \in DOMAIN ledger : ledger'[j] = ledger[j] /\ cashbook'[j] = cashbook[j]
         /\ ledger'[Len(ledger) + 1] =
               [client |-> f.client, date |-> f.date, amount |-> f.amount, kind |-> kind,
                link |-> Len(cashbook) + 1, reversed |-> FALSE, depth |-> 0, parent |-> 0]
<1> DEFINE x == [client |-> f.client, date |-> f.date, amount |-> f.amount, kind |-> kind,
                 link |-> Len(cashbook) + 1, reversed |-> FALSE, depth |-> 0, parent |-> 0]
           y == [date |-> f.date, amount |-> f.amount, kind |-> CashbookType(kind),
                 source |-> source, status |-> status,
                 link |-> Len(ledger) + 1, reversed |-> FALSE, depth |-> 0, parent |-> 0]
<1>1. ledger' = Append(ledger, x) /\ cashbook' = Append(cashbook, y)
  BY DEF InsertPair
<1> HIDE DEF x, y
<1>2. /\ DOMAIN ledger' = 1..(Len(ledger) + 1) /\ ledger'[Len(ledger) + 1] = x
      /\ \A j \in DOMAIN ledger : ledger'[j] = ledger[j] /\ cashbook'[j] = cashbook[j]
  BY <1>1, TablesAre
<1> QED
  BY <1>2 DEF x

\* A reversal marks row i in both tables and adds one leg to each.
RowsReversed(i, d, n) ==
    /\ i \in DOMAIN ledger /\ DOMAIN ledger' = 1..n
    /\ \A j \in DOMAIN ledger \ {i} : ledger'[j] = ledger[j] /\ cashbook'[j] = cashbook[j]
    /\ ledger'[i] = [ledger[i] EXCEPT !.reversed = TRUE]
    /\ cashbook'[i] = [cashbook[i] EXCEPT !.reversed = TRUE]
    /\ ledger'[n] = [client |-> ledger[i].client, date |-> d, amount |-> ledger[i].amount,
                     kind |-> Opposite(ledger[i].kind), link |-> n,
                     reversed |-> FALSE, depth |-> ledger[i].depth + 1, parent |-> i]
    /\ cashbook'[n].parent = i
    /\ cashbook'[n].status = "Cleared" /\ cashbook'[n].source = cashbook[i].source
    /\ fees' = CompensatedFees(i, d)

LEMMA ReversedRows ==
  ASSUME BooksInv, NEW w \in Workers, ReverseWrite(w), NEW i, i = req[w].row,
         NEW d, d = req[w].date, NEW n, n = Len(ledger) + 1
  PROVE  RowsReversed(i, d, n)
<1> DEFINE x == [client |-> ledger[i].client, date |-> d, amount |-> ledger[i].amount,
                 kind |-> Opposite(ledger[i].kind), link |-> n,
                 reversed |-> FALSE, depth |-> ledger[i].depth + 1, parent |-> i]
           y == [date |-> d, amount |-> cashbook[i].amount, kind |-> Opposite(cashbook[i].kind),
                 source |-> cashbook[i].source, status |-> "Cleared", link |-> n,
                 reversed |-> FALSE, depth |-> ledger[i].depth + 1, parent |-> i]
           e == [ledger[i] EXCEPT !.reversed = TRUE]
           c == [cashbook[i] EXCEPT !.reversed = TRUE]
<1>1. i \in DOMAIN ledger /\ ledger[i].link = i /\ Len(cashbook) + 1 = n
  BY TablesAre DEF ReverseWrite, At, BooksInv, RequestsNameRows
<1>2. /\ ledger' = Append([ledger EXCEPT ![i] = e], x)
      /\ cashbook' = Append([cashbook EXCEPT ![i] = c], y)
      /\ fees' = CompensatedFees(i, d)
  BY <1>1 DEF ReverseWrite, Reversed
<1>3. y.parent = i /\ y.status = "Cleared" /\ y.source = cashbook[i].source
  OBVIOUS
<1>4. e \in LedgerRow /\ c \in CashbookRow
  <2>1. ledger[i] \in LedgerRow /\ cashbook[i] \in CashbookRow
    BY <1>1, TablesAre
  <2>2. e \in LedgerRow
    BY <2>1 DEF LedgerRow
  <2>3. c \in CashbookRow
    BY <2>1 DEF CashbookRow
  <2> QED
    BY <2>2, <2>3
<1> HIDE DEF x, y, e, c
<1>5. /\ [ledger EXCEPT ![i] = e] \in Seq(LedgerRow) /\ Len([ledger EXCEPT ![i] = e]) = Len(ledger)
      /\ \A j \in DOMAIN ledger : [ledger EXCEPT ![i] = e][j] = IF j = i THEN e ELSE ledger[j]
  BY <1>1, <1>4, TablesAre, ExceptSeq
<1>6. /\ [cashbook EXCEPT ![i] = c] \in Seq(CashbookRow)
      /\ Len([cashbook EXCEPT ![i] = c]) = Len(ledger)
      /\ \A j \in DOMAIN ledger : [cashbook EXCEPT ![i] = c][j] = IF j = i THEN c ELSE cashbook[j]
  BY <1>1, <1>4, TablesAre, ExceptSeq
<1>7. /\ DOMAIN ledger' = 1..n /\ ledger'[n] = x
      /\ \A j \in DOMAIN ledger : ledger'[j] = IF j = i THEN e ELSE ledger[j]
  BY <1>2, <1>5, TablesAre
<1>8. cashbook'[n] = y /\ \A j \in DOMAIN ledger : cashbook'[j] = IF j = i THEN c ELSE cashbook[j]
  BY <1>2, <1>6, TablesAre
<1> QED
  BY <1>1, <1>2, <1>3, <1>7, <1>8 DEF x, e, c, RowsReversed

-----------------------------------------------------------------------------
(* The chains.                                                              *)

\* A step that adds no leg: rows are added that undo nothing, and old ones keep
\* what the chains rest on.
LEMMA ChainKept ==
  ASSUME BooksInv, ChainSound, NEW m \in Nat, Len(ledger) <= m, DOMAIN ledger' = 1..m,
         \A j \in DOMAIN ledger : /\ ledger'[j] = ledger[j]
                                  /\ cashbook'[j].parent = cashbook[j].parent
                                  /\ cashbook'[j].reversed = cashbook[j].reversed,
         \A j \in DOMAIN ledger' \ DOMAIN ledger : ~ledger'[j].reversed /\ ledger'[j].parent = 0
  PROVE  ChainSound'
<1>1. DOMAIN ledger \subseteq DOMAIN ledger' /\ DOMAIN ledger = 1..Len(ledger) /\ Len(ledger) \in Nat
  BY TablesAre
<1>2. ASSUME NEW i \in DOMAIN ledger PROVE Compensated(i)' /\ Undoes(i)'
  <2>1. Compensated(i) /\ Undoes(i)
    BY ChainSoundIs
  <2>2. Compensated(i)'
    BY <1>1, <2>1 DEF Compensated
  <2>3. ASSUME ledger[i].parent # 0
        PROVE  /\ ledger[i].parent \in DOMAIN ledger
               /\ ledger[i].link = i /\ ledger[ledger[i].parent].link = ledger[i].parent
    BY <1>1, <2>1, <2>3, TablesAre DEF Undoes
  <2>4. Undoes(i)'
    BY <2>1, <2>3 DEF Undoes
  <2> QED
    BY <2>2, <2>4
<1>3. ASSUME NEW i \in DOMAIN ledger' \ DOMAIN ledger PROVE Compensated(i)' /\ Undoes(i)'
  BY <1>3 DEF Compensated, Undoes
<1> QED
  BY <1>2, <1>3, ChainSoundIs, SMTT(30) DEF ChainSound, Compensated, Undoes

LEMMA ChainReverse ==
  ASSUME BooksInv, ChainSound, NEW w \in Workers, ReverseWrite(w)
  PROVE  ChainSound'
<1> SUFFICES ASSUME NEW i, i = req[w].row, NEW d, d = req[w].date, NEW n, n = Len(ledger) + 1
             PROVE  ChainSound'
  OBVIOUS
<1>1. /\ i \in DOMAIN ledger /\ DOMAIN ledger' = 1..n
      /\ \A j \in DOMAIN ledger \ {i} : ledger'[j] = ledger[j] /\ cashbook'[j] = cashbook[j]
      /\ ledger'[i] = [ledger[i] EXCEPT !.reversed = TRUE]
      /\ cashbook'[i] = [cashbook[i] EXCEPT !.reversed = TRUE]
      /\ ledger'[n] = [client |-> ledger[i].client, date |-> d, amount |-> ledger[i].amount,
                       kind |-> Opposite(ledger[i].kind), link |-> n,
                       reversed |-> FALSE, depth |-> ledger[i].depth + 1, parent |-> i]
      /\ cashbook'[n].parent = i
  BY ReversedRows DEF RowsReversed
<1>2. DOMAIN ledger = 1..Len(ledger) /\ Len(ledger) \in Nat
  BY TablesAre
<1>3. i \in 1..(n - 1) /\ i # 0 /\ n \in DOMAIN ledger' /\ DOMAIN ledger \subseteq DOMAIN ledger'
  BY <1>1, <1>2
<1>4. \A j \in DOMAIN ledger :
         /\ ledger'[j].client = ledger[j].client /\ ledger'[j].amount = ledger[j].amount
         /\ ledger'[j].kind = ledger[j].kind /\ ledger'[j].depth = ledger[j].depth
         /\ ledger'[j].link = ledger[j].link /\ ledger'[j].parent = ledger[j].parent
         /\ cashbook'[j].parent = cashbook[j].parent
         /\ ledger[j].reversed => ledger'[j].reversed
         /\ cashbook[j].reversed => cashbook'[j].reversed
  <2> SUFFICES ASSUME NEW j \in DOMAIN ledger
               PROVE  /\ ledger'[j].client = ledger[j].client /\ ledger'[j].amount = ledger[j].amount
                      /\ ledger'[j].kind = ledger[j].kind /\ ledger'[j].depth = ledger[j].depth
                      /\ ledger'[j].link = ledger[j].link /\ ledger'[j].parent = ledger[j].parent
                      /\ cashbook'[j].parent = cashbook[j].parent
                      /\ ledger[j].reversed => ledger'[j].reversed
                      /\ cashbook[j].reversed => cashbook'[j].reversed
    OBVIOUS
  <2>1. CASE j = i
    <3>1. ledger[j] \in LedgerRow /\ cashbook[j] \in CashbookRow
      BY TablesAre
    <3> QED
      BY <1>1, <2>1, <3>1 DEF LedgerRow, CashbookRow
  <2>2. CASE j # i
    BY <1>1, <2>2
  <2> QED
    BY <2>1, <2>2
<1>5. ledger'[i].reversed /\ cashbook'[i].reversed
  <2>1. ledger[i] \in LedgerRow /\ cashbook[i] \in CashbookRow
    BY <1>1, TablesAre
  <2> QED
    BY <1>1, <2>1 DEF LedgerRow, CashbookRow
<1>6. ASSUME NEW j \in DOMAIN ledger PROVE Compensated(j)'
  <2>1. CASE j = i
    BY <1>1, <1>3, <2>1 DEF Compensated
  <2>2. CASE j # i
    BY <1>1, <1>3, <1>4, <2>2, ChainSoundIs DEF Compensated
  <2> QED
    BY <2>1, <2>2
<1>7. ASSUME NEW j \in DOMAIN ledger PROVE Undoes(j)'
  <2> SUFFICES ASSUME ledger'[j].parent # 0, NEW p, p = ledger[j].parent
               PROVE  Undoes(j)'
    BY DEF Undoes
  <2>1. /\ p # 0 /\ p \in 1..(j - 1) /\ ledger[p].reversed
        /\ ledger[j].client = ledger[p].client /\ ledger[j].amount = ledger[p].amount
        /\ ledger[j].kind = Opposite(ledger[p].kind) /\ ledger[j].depth = ledger[p].depth + 1
        /\ cashbook[ledger[j].link].parent = ledger[p].link
        /\ cashbook[ledger[p].link].reversed
    BY <1>4, ChainSoundIs DEF Undoes
  <2>2. p \in DOMAIN ledger
    BY <1>2, <2>1
  <2>3. ledger[j].link = j /\ ledger[p].link = p
    BY <2>2, TablesAre
  <2>4. /\ ledger'[p].reversed
        /\ ledger'[j].client = ledger'[p].client /\ ledger'[j].amount = ledger'[p].amount
        /\ ledger'[j].kind = Opposite(ledger'[p].kind)
        /\ ledger'[j].depth = ledger'[p].depth + 1
    BY <1>4, <2>1, <2>2
  <2>5. ledger'[j].link = j /\ ledger'[p].link = p /\ ledger'[j].parent = p
    BY <1>4, <2>2, <2>3
  <2>6. cashbook'[j].parent = p /\ cashbook'[p].reversed
    BY <1>4, <2>1, <2>2, <2>3
  <2> QED
    BY <2>1, <2>4, <2>5, <2>6 DEF Undoes
<1>8. Compensated(n)'
  BY <1>1 DEF Compensated
<1>9. Undoes(n)'
  <2>1. /\ ledger'[n].parent = i /\ ledger'[n].client = ledger[i].client
        /\ ledger'[n].amount = ledger[i].amount /\ ledger'[n].kind = Opposite(ledger[i].kind)
        /\ ledger'[n].depth = ledger[i].depth + 1 /\ ledger'[n].link = n
    BY <1>1
  <2>2. ledger'[i].link = i
    BY <1>1, <1>4, TablesAre
  <2>3. /\ ledger'[n].client = ledger'[i].client /\ ledger'[n].amount = ledger'[i].amount
        /\ ledger'[n].kind = Opposite(ledger'[i].kind)
        /\ ledger'[n].depth = ledger'[i].depth + 1
    BY <1>1, <1>4, <2>1
  <2>4. cashbook'[ledger'[n].link].parent = ledger'[i].link /\ cashbook'[ledger'[i].link].reversed
    BY <1>1, <1>5, <2>1, <2>2
  <2>5. ledger'[n].parent = i /\ i \in 1..(n - 1) /\ ledger'[i].reversed
    BY <1>3, <1>5, <2>1
  <2> QED
    BY <2>3, <2>4, <2>5 DEF Undoes
<1>10. \A j \in DOMAIN ledger' : j \in DOMAIN ledger \/ j = n
  BY <1>1, <1>2
<1> QED
  BY <1>6, <1>7, <1>8, <1>9, <1>10 DEF ChainSound, Compensated, Undoes

-----------------------------------------------------------------------------
(* The fees.                                                                *)

\* The direction of a row, and of one that undoes it.
LEMMA SignOpposite == ASSUME NEW kind, NEW a \in Int
                      PROVE  /\ -Sign(Opposite(kind)) * a = -(-Sign(kind) * a)
                             /\ -Sign("Payment") * a = a
<1>1. CASE kind = "Receipt"
  BY <1>1 DEF Sign, Opposite
<1>2. CASE kind # "Receipt"
  BY <1>2 DEF Sign, Opposite
<1> QED
  BY <1>1, <1>2

\* Fee rows are only added, to a row of the ledger that is new.
LEMMA FeesKept ==
  ASSUME BooksInv, ChainSound, FeesFollowLedger, NEW m \in Nat, Len(ledger) <= m,
         DOMAIN ledger' = 1..m,
         \A j \in DOMAIN ledger :
            /\ ledger'[j].client = ledger[j].client /\ ledger'[j].date = ledger[j].date
            /\ ledger'[j].amount = ledger[j].amount /\ ledger'[j].kind = ledger[j].kind
            /\ ledger'[j].parent = ledger[j].parent,
         fees \subseteq fees',
         \A f \in fees' \ fees : f.link \notin DOMAIN ledger /\ Mirrors(f)',
         \A j \in DOMAIN ledger' \ DOMAIN ledger :
            ledger'[j].parent # 0 => (IsFee(j)' <=> IsFee(ledger[j].parent)')
  PROVE  FeesFollowLedger'
<1>1. DOMAIN ledger \subseteq DOMAIN ledger' /\ DOMAIN ledger = 1..Len(ledger) /\ Len(ledger) \in Nat
  BY TablesAre
<1>2. ASSUME NEW f \in fees PROVE Mirrors(f)'
  <2>1. Mirrors(f)
    BY FeesFollowLedgerIs
  <2> QED
    BY <1>1, <2>1 DEF Mirrors
<1>3. ASSUME NEW j \in DOMAIN ledger PROVE IsFee(j)' <=> IsFee(j)
  BY DEF IsFee
<1>4. ASSUME NEW j \in DOMAIN ledger, ledger'[j].parent # 0
      PROVE  IsFee(j)' <=> IsFee(ledger[j].parent)'
  <2> SUFFICES ASSUME NEW p, p = ledger[j].parent PROVE IsFee(j)' <=> IsFee(p)'
    BY <1>4
  <2>1. p # 0 /\ (IsFee(j) <=> IsFee(p))
    BY <1>4, FeesFollowLedgerIs
  <2>2. p \in DOMAIN ledger
    BY <1>1, <2>1, ChainSoundIs DEF Undoes
  <2> QED
    BY <1>3, <2>1, <2>2
<1> QED
  BY <1>2, <1>4 DEF FeesFollowLedger, Mirrors, IsFee

LEMMA FeesReverse ==
  ASSUME BooksInv, ChainSound, FeesFollowLedger, NEW w \in Workers, ReverseWrite(w)
  PROVE  FeesFollowLedger'
<1> SUFFICES ASSUME NEW i, i = req[w].row, NEW d, d = req[w].date, NEW n, n = Len(ledger) + 1
             PROVE  FeesFollowLedger'
  OBVIOUS
<1>1. /\ i \in DOMAIN ledger /\ DOMAIN ledger' = 1..n
      /\ \A j \in DOMAIN ledger \ {i} : ledger'[j] = ledger[j] /\ cashbook'[j] = cashbook[j]
      /\ ledger'[i] = [ledger[i] EXCEPT !.reversed = TRUE]
      /\ cashbook'[i] = [cashbook[i] EXCEPT !.reversed = TRUE]
      /\ ledger'[n] = [client |-> ledger[i].client, date |-> d, amount |-> ledger[i].amount,
                       kind |-> Opposite(ledger[i].kind), link |-> n,
                       reversed |-> FALSE, depth |-> ledger[i].depth + 1, parent |-> i]
      /\ cashbook'[n].parent = i
      /\ fees' = CompensatedFees(i, d)
  BY ReversedRows DEF RowsReversed
<1>2. DOMAIN ledger = 1..Len(ledger) /\ Len(ledger) \in Nat
  BY TablesAre
<1>3. n \in Nat /\ Len(ledger) <= n /\ n \notin DOMAIN ledger /\ n \in DOMAIN ledger'
  BY <1>1, <1>2
<1>4. \A j \in DOMAIN ledger :
         /\ ledger'[j].client = ledger[j].client /\ ledger'[j].date = ledger[j].date
         /\ ledger'[j].amount = ledger[j].amount /\ ledger'[j].kind = ledger[j].kind
         /\ ledger'[j].parent = ledger[j].parent
  <2> SUFFICES ASSUME NEW j \in DOMAIN ledger
               PROVE  /\ ledger'[j].client = ledger[j].client /\ ledger'[j].date = ledger[j].date
                      /\ ledger'[j].amount = ledger[j].amount /\ ledger'[j].kind = ledger[j].kind
                      /\ ledger'[j].parent = ledger[j].parent
    OBVIOUS
  <2>1. CASE j = i
    <3>1. ledger[j] \in LedgerRow
      BY TablesAre
    <3> QED
      BY <1>1, <2>1, <3>1 DEF LedgerRow
  <2>2. CASE j # i
    BY <1>1, <2>2
  <2> QED
    BY <2>1, <2>2
<1> DEFINE g(f) == [link |-> n, client |-> f.client, date |-> d, amount |-> -f.amount]
<1>5. fees' = fees \cup {g(f) : f \in {f \in fees : f.link = i}}
  BY <1>1 DEF CompensatedFees
<1>6. \A f \in fees' \ fees : f.link \notin DOMAIN ledger /\ Mirrors(f)'
  <2> SUFFICES ASSUME NEW f \in fees, f.link = i, NEW h, h = g(f)
               PROVE  h.link \notin DOMAIN ledger /\ Mirrors(h)'
    BY <1>5
  <2>1. Mirrors(f)
    BY FeesFollowLedgerIs
  <2>2. /\ f.client = ledger[i].client
        /\ f.amount = -Sign(ledger[i].kind) * ledger[i].amount
    BY <2>1 DEF Mirrors
  <2>3. h.link = n /\ h.client = f.client /\ h.date = d /\ h.amount = -f.amount
    OBVIOUS
  <2>4. ledger[i].amount \in Int
    BY <1>1, TablesAre DEF LedgerRow, Amounts
  <2>5. -f.amount = -Sign(Opposite(ledger[i].kind)) * ledger[i].amount
    BY <2>2, <2>4, SignOpposite
  <2>6. /\ ledger'[n].client = ledger[i].client /\ ledger'[n].date = d
        /\ ledger'[n].kind = Opposite(ledger[i].kind) /\ ledger'[n].amount = ledger[i].amount
    BY <1>1
  <2> QED
    BY <1>3, <2>2, <2>3, <2>5, <2>6 DEF Mirrors
<1>7. IsFee(n)' <=> IsFee(i)'
  <2>1. \A f \in fees : f.link # n
    BY <1>3, FeesFollowLedgerIs DEF Mirrors
  <2>2. \A f \in fees : g(f).link = n
    OBVIOUS
  <2> HIDE DEF g
  <2>3. IsFee(n)' <=> IsFee(i)
    BY <1>5, <2>1, <2>2 DEF IsFee
  <2>4. IsFee(i)' <=> IsFee(i)
    BY <1>1, <1>3, <1>5, <2>2 DEF IsFee
  <2> QED
    BY <2>3, <2>4
<1>8. \A j \in DOMAIN ledger' \ DOMAIN ledger :
         ledger'[j].parent # 0 => (IsFee(j)' <=> IsFee(ledger[j].parent)')
  <2>1. \A j \in DOMAIN ledger' \ DOMAIN ledger : j = n
    BY <1>1, <1>2
  <2>2. ledger'[n].parent = i
    BY <1>1
  <2> QED
    BY <1>7, <2>1, <2>2 DEF IsFee
<1> HIDE DEF g
<1>9. fees \subseteq fees'
  BY <1>5
<1> QED
  BY <1>1, <1>3, <1>4, <1>6, <1>8, <1>9, FeesKept

-----------------------------------------------------------------------------
LEMMA ChainInit == Init => ChainSound /\ FeesFollowLedger
  BY DEF Init, ChainSound, FeesFollowLedger

\* Requests that write neither table nor a fee.
LEMMA ChainQuiet ==
  ASSUME ChainSound, FeesFollowLedger, UNCHANGED <<ledger, cashbook, fees>>
  PROVE  ChainSound' /\ FeesFollowLedger'
  BY DEF ChainSound, FeesFollowLedger

LEMMA ChainPost ==
  ASSUME ChainInv, NEW w \in Workers, PostWrite(w)
  PROVE  ChainSound' /\ FeesFollowLedger'
<1> SUFFICES ASSUME NEW f, f = req[w].form, NEW n, n = Len(ledger) + 1
             PROVE  ChainSound' /\ FeesFollowLedger'
  OBVIOUS
<1>1. PICK status : InsertPair(f, f.kind, f.source, status) /\ UNCHANGED fees
  BY DEF PostWrite
<1>2. /\ DOMAIN ledger' = 1..n
      /\ \A j \in DOMAIN ledger : ledger'[j] = ledger[j] /\ cashbook'[j] = cashbook[j]
      /\ ledger'[n].reversed = FALSE /\ ledger'[n].parent = 0
  <2>1. BooksInv
    BY DEF ChainInv
  <2> DEFINE x == [client |-> f.client, date |-> f.date, amount |-> f.amount, kind |-> f.kind,
                   link |-> Len(cashbook) + 1, reversed |-> FALSE, depth |-> 0, parent |-> 0]
  <2>2. /\ DOMAIN ledger' = 1..(Len(ledger) + 1) /\ ledger'[Len(ledger) + 1] = x
        /\ \A j \in DOMAIN ledger : ledger'[j] = ledger[j] /\ cashbook'[j] = cashbook[j]
    BY <1>1, <2>1, InsertedRows
  <2> QED
    BY <2>2
<1>3. /\ n \in Nat /\ Len(ledger) <= n
      /\ \A j \in DOMAIN ledger' \ DOMAIN ledger : j = n
  BY <1>2, TablesAre DEF ChainInv
<1> QED
  BY <1>1, <1>2, <1>3, ChainKept, FeesKept DEF ChainInv

LEMMA ChainFee ==
  ASSUME ChainInv, NEW w \in Workers, FeeWrite(w)
  PROVE  ChainSound' /\ FeesFollowLedger'
<1> SUFFICES ASSUME NEW f, f = req[w].form, NEW n, n = Len(ledger) + 1
             PROVE  ChainSound' /\ FeesFollowLedger'
  OBVIOUS
<1> DEFINE fee == [link |-> n, client |-> f.client, date |-> f.date, amount |-> f.amount]
<1>1. InsertPair(f, "Payment", "Other", "Cleared") /\ fees' = fees \cup {fee}
  BY DEF FeeWrite
<1>2. /\ DOMAIN ledger' = 1..n
      /\ \A j \in DOMAIN ledger : ledger'[j] = ledger[j] /\ cashbook'[j] = cashbook[j]
      /\ ledger'[n].reversed = FALSE /\ ledger'[n].parent = 0
      /\ ledger'[n].client = f.client /\ ledger'[n].date = f.date
      /\ ledger'[n].amount = f.amount /\ ledger'[n].kind = "Payment"
  <2>1. BooksInv
    BY DEF ChainInv
  <2> DEFINE x == [client |-> f.client, date |-> f.date, amount |-> f.amount, kind |-> "Payment",
                   link |-> Len(cashbook) + 1, reversed |-> FALSE, depth |-> 0, parent |-> 0]
  <2>2. /\ DOMAIN ledger' = 1..(Len(ledger) + 1) /\ ledger'[Len(ledger) + 1] = x
        /\ \A j \in DOMAIN ledger : ledger'[j] = ledger[j] /\ cashbook'[j] = cashbook[j]
    BY <1>1, <2>1, InsertedRows
  <2> QED
    BY <2>2
<1>3. /\ n \in Nat /\ Len(ledger) <= n /\ n \notin DOMAIN ledger
      /\ \A j \in DOMAIN ledger' \ DOMAIN ledger : j = n
  BY <1>2, TablesAre DEF ChainInv
<1>4. f.amount \in Int
  <2>1. req[w] \in FeeReq
    BY RequestKinds DEF FeeWrite, At, ChainInv, BooksInv, TypeOK
  <2> QED
    BY <2>1 DEF FeeReq, FeeForm, Amounts
<1>5. Mirrors(fee)'
  BY <1>2, <1>3, <1>4, SignOpposite DEF Mirrors
<1>6. \A g \in fees' \ fees : g = fee /\ g.link \notin DOMAIN ledger
  BY <1>1, <1>3
<1> HIDE DEF fee
<1>7. \A g \in fees' \ fees : g.link \notin DOMAIN ledger /\ Mirrors(g)'
  BY <1>5, <1>6 DEF Mirrors
<1> QED
  BY <1>1, <1>2, <1>3, <1>7, ChainKept, FeesKept DEF ChainInv

\* A cheque's status is no part of a chain.
LEMMA ChainCheque ==
  ASSUME ChainInv, NEW w \in Workers, ChequeWrite(w)
  PROVE  ChainSound' /\ FeesFollowLedger'
<1>1. UNCHANGED <<ledger, fees>>
  BY DEF ChequeWrite
<1>2. \A j \in DOMAIN ledger : /\ cashbook'[j].parent = cashbook[j].parent
                               /\ cashbook'[j].reversed = cashbook[j].reversed
  BY TablesAre DEF ChainInv, ChequeWrite, CashbookRow
<1>3. /\ DOMAIN ledger' = 1..Len(ledger) /\ Len(ledger) \in Nat /\ Len(ledger) <= Len(ledger)
      /\ DOMAIN ledger' \ DOMAIN ledger = {} /\ \A j \in DOMAIN ledger : ledger'[j] = ledger[j]
  BY <1>1, TablesAre DEF ChainInv
<1>4. ChainSound'
  <2>1. BooksInv /\ ChainSound
    BY DEF ChainInv
  <2> QED
    BY <1>2, <1>3, <2>1, ChainKept
<1> QED
  BY <1>1, <1>4 DEF ChainInv, FeesFollowLedger

LEMMA ChainStep == ChainInv /\ [Next]_vars => ChainInv'
<1> SUFFICES ASSUME ChainInv, [Next]_vars PROVE ChainSound' /\ FeesFollowLedger'
  BY StepInv DEF ChainInv
<1>1. CASE UNCHANGED <<ledger, cashbook, fees>>
  BY <1>1, ChainQuiet DEF ChainInv
<1>2. CASE ~UNCHANGED <<ledger, cashbook, fees>>
  <2>1. PICK w \in Workers : PostWrite(w) \/ FeeWrite(w) \/ ChequeWrite(w) \/ ReverseWrite(w)
    BY <1>2 DEF Next, vars, tables, Step, Post, PostBegin, PostMonth, PostRefused,
       TransferFee, FeeBegin, FeeFunds, FeeMonth, UpdateCheque, ChequeBegin, ChequeMonth,
       Reverse, ReverseBegin, ReverseRead, Administer, CloseBegin, CloseWrite, Reopen,
       LockMonth, UnlockMonth, Abort, Proceed
  <2> QED
    BY <2>1, ChainPost, ChainFee, ChainCheque, ChainReverse, FeesReverse DEF ChainInv
<1> QED
  BY <1>1, <1>2

LEMMA ChainAlways == Spec => []ChainInv
<1>1. Init => ChainInv
  BY InitInv, ChainInit DEF ChainInv
<1> QED
  BY <1>1, ChainStep, PTL DEF Spec

\* A reversal is never half done: its leg, the mark on what it undoes and the
\* cashbook's side of both come together, for chains of any length and however
\* the requests interleave (database.py, reverse_ledger_transaction).
THEOREM ChainsSound == Spec => []ChainSound
<1>1. ChainInv => ChainSound
  BY DEF ChainInv
<1> QED
  BY <1>1, ChainAlways, PTL

\* Each fee row of the office mirrors the ledger leg it is linked to, and a leg
\* that undoes a fee leg takes the fee back (database.py,
\* reverse_ledger_transaction and create_transfer_fee_to_office).
THEOREM FeesFollow == Spec => []FeesFollowLedger
<1>1. ChainInv => FeesFollowLedger
  BY DEF ChainInv
<1> QED
  BY <1>1, ChainAlways, PTL

-----------------------------------------------------------------------------
(* What the rows add to a client's net, and how a write changes it.         *)

\* The net is the sum of whole numbers over the ledger's rows.
NetsSum ==
    /\ IsFiniteSet(DOMAIN ledger)
    /\ \A C, S :
          /\ DOMAIN LedgerDelta(C, S) = DOMAIN ledger
          /\ \A i \in DOMAIN ledger : LedgerDelta(C, S)[i] \in Int
          /\ LedgerNet(C, S) = SumFunctionOnSet(LedgerDelta(C, S), DOMAIN ledger)
          /\ LedgerNet(C, S) \in Int

LEMMA SignInt == ASSUME NEW kind, NEW a \in Int
                 PROVE  /\ Sign(kind) * a \in Int /\ -Sign(kind) * a \in Int
                        /\ kind = "Receipt" => Sign(kind) * a = a
                        /\ kind # "Receipt" => Sign(kind) * a = -a
  BY DEF Sign

LEMMA NetsAre == BooksInv => NetsSum
<1> SUFFICES ASSUME BooksInv PROVE NetsSum
  OBVIOUS
<1>1. IsFiniteSet(DOMAIN ledger)
  BY TablesAre, FS_Interval
<1>2. ASSUME NEW C, NEW S
      PROVE  /\ DOMAIN LedgerDelta(C, S) = DOMAIN ledger
             /\ \A i \in DOMAIN ledger : LedgerDelta(C, S)[i] \in Int
  <2>1. \A i \in DOMAIN ledger : Sign(ledger[i].kind) * ledger[i].amount \in Int
    BY TablesAre, SignInt DEF LedgerRow, Amounts
  <2> QED
    BY <2>1 DEF LedgerDelta
<1>3. ASSUME NEW C, NEW S
      PROVE  LedgerNet(C, S) = SumFunctionOnSet(LedgerDelta(C, S), DOMAIN ledger)
  BY <1>2, Zenon DEF LedgerNet, SumFunction
<1> QED
  BY <1>1, <1>2, <1>3, SumParts DEF NetsSum

LEMMA NetsNext == (BooksInv => NetsSum)'
<1>1. BooksInv => NetsSum
  BY NetsAre
<1> QED
  BY <1>1, PTL

\* A net rises when no row counts less and new rows do not count against it.
LEMMA NetRises ==
  ASSUME BooksInv, BooksInv', DOMAIN ledger \subseteq DOMAIN ledger', NEW C, NEW S,
         \A i \in DOMAIN ledger : LedgerDelta(C, S)[i] <= LedgerDelta(C, S)'[i],
         \A i \in DOMAIN ledger' \ DOMAIN ledger : 0 <= LedgerDelta(C, S)'[i]
  PROVE  LedgerNet(C, S) <= LedgerNet(C, S)'
<1> DEFINE old == LedgerDelta(C, S)
           new == LedgerDelta(C, S)'
           wide == [i \in DOMAIN ledger' |-> IF i \in DOMAIN ledger THEN old[i] ELSE 0]
<1>1. IsFiniteSet(DOMAIN ledger') /\ IsFiniteSet(DOMAIN ledger)
  BY NetsAre, NetsNext DEF NetsSum
<1>2. /\ \A i \in DOMAIN ledger : old[i] \in Int
      /\ \A i \in DOMAIN ledger' : new[i] \in Int
      /\ LedgerNet(C, S) = SumFunctionOnSet(old, DOMAIN ledger)
      /\ LedgerNet(C, S)' = SumFunctionOnSet(new, DOMAIN ledger')
  BY NetsAre, NetsNext DEF NetsSum
<1> HIDE DEF old, new
<1>3. \A i \in DOMAIN ledger' : wide[i] \in Int /\ wide[i] <= new[i]
  BY <1>2 DEF old, new
<1>4. SumFunctionOnSet(wide, DOMAIN ledger) = SumFunctionOnSet(old, DOMAIN ledger)
  BY <1>1, <1>2, SumSame
<1>5. SumFunctionOnSet(wide, DOMAIN ledger') = SumFunctionOnSet(wide, DOMAIN ledger)
  BY <1>1, <1>3, SumSupport
<1>6. SumFunctionOnSet(wide, DOMAIN ledger') <= SumFunctionOnSet(new, DOMAIN ledger')
  BY <1>1, <1>2, <1>3, SumLess
<1> QED
  BY <1>2, <1>4, <1>5, <1>6

\* A net stays when every row counts as before and new ones do not count.
LEMMA NetKept ==
  ASSUME BooksInv, BooksInv', DOMAIN ledger \subseteq DOMAIN ledger', NEW C, NEW S,
         \A i \in DOMAIN ledger : LedgerDelta(C, S)'[i] = LedgerDelta(C, S)[i],
         \A i \in DOMAIN ledger' \ DOMAIN ledger : LedgerDelta(C, S)'[i] = 0
  PROVE  LedgerNet(C, S)' = LedgerNet(C, S)
<1> DEFINE old == LedgerDelta(C, S)
           new == LedgerDelta(C, S)'
<1>1. IsFiniteSet(DOMAIN ledger') /\ IsFiniteSet(DOMAIN ledger)
  BY NetsAre, NetsNext DEF NetsSum
<1>2. /\ \A i \in DOMAIN ledger : old[i] \in Int
      /\ \A i \in DOMAIN ledger' : new[i] \in Int
      /\ LedgerNet(C, S) = SumFunctionOnSet(old, DOMAIN ledger)
      /\ LedgerNet(C, S)' = SumFunctionOnSet(new, DOMAIN ledger')
  BY NetsAre, NetsNext DEF NetsSum
<1> HIDE DEF old, new
<1>3. SumFunctionOnSet(new, DOMAIN ledger) = SumFunctionOnSet(old, DOMAIN ledger)
  BY <1>1, <1>2, SumSame DEF old, new
<1>4. SumFunctionOnSet(new, DOMAIN ledger') = SumFunctionOnSet(new, DOMAIN ledger)
  BY <1>1, <1>2, SumSupport DEF old, new
<1> QED
  BY <1>2, <1>3, <1>4

\* A row that is added adds what it counts.
LEMMA NetAdds ==
  ASSUME BooksInv, BooksInv', NEW n, n \notin DOMAIN ledger, DOMAIN ledger' = DOMAIN ledger \cup {n},
         NEW C, NEW S, \A i \in DOMAIN ledger : LedgerDelta(C, S)'[i] = LedgerDelta(C, S)[i]
  PROVE  LedgerNet(C, S)' = LedgerNet(C, S) + LedgerDelta(C, S)'[n]
<1> DEFINE old == LedgerDelta(C, S)
           new == LedgerDelta(C, S)'
<1>1. IsFiniteSet(DOMAIN ledger)
  BY NetsAre DEF NetsSum
<1>2. /\ \A i \in DOMAIN ledger : old[i] \in Int
      /\ \A i \in DOMAIN ledger' : new[i] \in Int
      /\ LedgerNet(C, S) = SumFunctionOnSet(old, DOMAIN ledger)
      /\ LedgerNet(C, S)' = SumFunctionOnSet(new, DOMAIN ledger')
      /\ LedgerNet(C, S) \in Int
  BY NetsAre, NetsNext DEF NetsSum
<1> HIDE DEF old, new
<1>3. SumFunctionOnSet(new, DOMAIN ledger) = SumFunctionOnSet(old, DOMAIN ledger)
  BY <1>1, <1>2, SumSame DEF old, new
<1>4. SumFunctionOnSet(new, DOMAIN ledger \cup {n}) = new[n] + SumFunctionOnSet(new, DOMAIN ledger)
  BY <1>1, <1>2, SumAdd
<1>5. LedgerNet(C, S)' = new[n] + LedgerNet(C, S)
  BY <1>2, <1>3, <1>4
<1>6. new[n] \in Int
  BY <1>2
<1> QED
  BY <1>2, <1>5, <1>6 DEF new

\* What a row adds to a net, before and after a step.
LEMMA DeltaIs ==
  ASSUME NEW C, NEW S
  PROVE  /\ \A i \in DOMAIN ledger :
               LedgerDelta(C, S)[i] =
                  IF ledger[i].client \in C /\ ledger[i].date \in S /\ LedgerCounts(i)
                  THEN Sign(ledger[i].kind) * ledger[i].amount ELSE 0
         /\ \A i \in DOMAIN ledger' :
               LedgerDelta(C, S)'[i] =
                  IF ledger'[i].client \in C /\ ledger'[i].date \in S /\ LedgerCounts(i)'
                  THEN Sign(ledger'[i].kind) * ledger'[i].amount ELSE 0
  BY DEF LedgerDelta, LedgerCounts, Active

\* Which rows count, in the columns of the two rows of a pair.
LEMMA CountsAre ==
  /\ BooksInv =>
        \A i \in DOMAIN ledger :
           LedgerCounts(i) <=> /\ cashbook[i].status = "Cleared"
                               /\ ~ledger[i].reversed /\ ledger[i].depth % 2 = 0
  /\ BooksInv' =>
        \A i \in DOMAIN ledger' :
           LedgerCounts(i)' <=> /\ cashbook'[i].status = "Cleared"
                                /\ ~ledger'[i].reversed /\ ledger'[i].depth % 2 = 0
  BY DEF LedgerCounts, Active, BooksInv, PairsAgree

\* A row whose fields and status are kept counts as before.
LEMMA DeltaKept ==
  ASSUME BooksInv, BooksInv', NEW j \in DOMAIN ledger, j \in DOMAIN ledger',
         ledger'[j] = ledger[j], cashbook'[j].status = cashbook[j].status, NEW C, NEW S
  PROVE  LedgerDelta(C, S)'[j] = LedgerDelta(C, S)[j]
<1>1. ledger[j].link = j /\ ledger'[j].link = j
  BY DEF BooksInv, PairsAgree
<1>2. LedgerCounts(j)' <=> LedgerCounts(j)
  BY <1>1 DEF LedgerCounts, Active
<1> QED
  BY <1>2, DeltaIs

\* The row that an insert adds.
LEMMA NewRowIs ==
  ASSUME BooksInv, BooksInv', NEW f, NEW kind, NEW source, NEW status,
         InsertPair(f, kind, source, status), NEW n, n = Len(ledger) + 1
  PROVE  /\ n \notin DOMAIN ledger /\ DOMAIN ledger' = DOMAIN ledger \cup {n}
         /\ ledger'[n] =
               [client |-> f.client, date |-> f.date, amount |-> f.amount, kind |-> kind,
                link |-> Len(cashbook) + 1, reversed |-> FALSE, depth |-> 0, parent |-> 0]
         /\ cashbook'[n] =
               [date |-> f.date, amount |-> f.amount, kind |-> CashbookType(kind),
                source |-> source, status |-> status,
                link |-> Len(ledger) + 1, reversed |-> FALSE, depth |-> 0, parent |-> 0]
         /\ \A j \in DOMAIN ledger : ledger'[j] = ledger[j] /\ cashbook'[j] = cashbook[j]
         /\ \A C, S : \A j \in DOMAIN ledger : LedgerDelta(C, S)'[j] = LedgerDelta(C, S)[j]
<1> DEFINE x == [client |-> f.client, date |-> f.date, amount |-> f.amount, kind |-> kind,
                 link |-> Len(cashbook) + 1, reversed |-> FALSE, depth |-> 0, parent |-> 0]
           y == [date |-> f.date, amount |-> f.amount, kind |-> CashbookType(kind),
                 source |-> source, status |-> status,
                 link |-> Len(ledger) + 1, reversed |-> FALSE, depth |-> 0, parent |-> 0]
<1>1. /\ DOMAIN ledger' = 1..n /\ ledger'[n] = x
      /\ \A j \in DOMAIN ledger : ledger'[j] = ledger[j] /\ cashbook'[j] = cashbook[j]
  BY InsertedRows
<1>2. cashbook'[n] = y
  <2>1. cashbook' = Append(cashbook, y)
    BY DEF InsertPair
  <2> HIDE DEF y
  <2> QED
    BY <2>1, TablesAre
<1>3. n \notin DOMAIN ledger /\ DOMAIN ledger' = DOMAIN ledger \cup {n}
  BY <1>1, TablesAre
<1>5. \A C, S : \A j \in DOMAIN ledger : LedgerDelta(C, S)'[j] = LedgerDelta(C, S)[j]
  BY <1>1, <1>3, DeltaKept
<1> HIDE DEF x, y
<1>6. \A j \in DOMAIN ledger : ledger'[j] = ledger[j] /\ cashbook'[j] = cashbook[j]
  BY <1>1
<1> QED
  BY <1>1, <1>2, <1>3, <1>5, <1>6 DEF x, y

\* What the client has up to a date, it has at least over all dates, when no
\* later row that counts takes money out.
LEMMA LaterRows ==
  ASSUME BooksInv, NEW c \in Clients, NEW d \in Dates, ~LaterPayment(c, d)
  PROVE  LedgerNet({c}, UpTo(d)) <= ClientBalance(c)
<1>1. ASSUME NEW i \in DOMAIN ledger
      PROVE  LedgerDelta({c}, UpTo(d))[i] <= LedgerDelta({c}, Dates)[i]
  <2>1. ledger[i] \in LedgerRow
    BY TablesAre
  <2>2. ledger[i].date \in Dates /\ Dates \subseteq Nat /\ ledger[i].amount \in Nat
    BY <2>1, DatesAssumption DEF LedgerRow, Amounts
  <2>3. CASE ledger[i].date <= d
    BY <2>2, <2>3, DeltaIs, NetsAre DEF UpTo, NetsSum
  <2>4. CASE ledger[i].date > d
    <3>1. ledger[i].date \notin UpTo(d)
      BY <2>2, <2>4 DEF UpTo
    <3>2. LedgerDelta({c}, UpTo(d))[i] = 0
      BY <3>1, DeltaIs
    <3>3. LedgerDelta({c}, Dates)[i] >= 0
      BY <2>2, <2>4, DeltaIs, SignInt DEF LaterPayment
    <3> QED
      BY <3>2, <3>3, NetsAre DEF NetsSum
  <2> QED
    BY <2>2, <2>3, <2>4
<1>2. /\ IsFiniteSet(DOMAIN ledger)
      /\ \A i \in DOMAIN ledger : /\ LedgerDelta({c}, UpTo(d))[i] \in Int
                                  /\ LedgerDelta({c}, Dates)[i] \in Int
      /\ LedgerNet({c}, UpTo(d)) = SumFunctionOnSet(LedgerDelta({c}, UpTo(d)), DOMAIN ledger)
      /\ ClientBalance(c) = SumFunctionOnSet(LedgerDelta({c}, Dates), DOMAIN ledger)
  BY NetsAre DEF NetsSum, ClientBalance
<1> QED
  BY <1>1, <1>2, SumLess

\* A new row takes the client below zero only if it takes out more than there is.
LEMMA InsertOverdraws ==
  ASSUME BooksInv, BooksInv', NEW f, f.client \in Clients, f.date \in Dates, f.amount \in Amounts,
         NEW kind, NEW source, NEW status, InsertPair(f, kind, source, status),
         NEW c \in Clients, Overdraws(c)
  PROVE  /\ kind # "Receipt" /\ f.client = c
         /\ LedgerNet({c}, UpTo(f.date)) >= f.amount => LaterPayment(c, f.date)
<1> SUFFICES ASSUME NEW n, n = Len(ledger) + 1
             PROVE  /\ kind # "Receipt" /\ f.client = c
                    /\ LedgerNet({c}, UpTo(f.date)) >= f.amount => LaterPayment(c, f.date)
  OBVIOUS
<1> DEFINE x == [client |-> f.client, date |-> f.date, amount |-> f.amount, kind |-> kind,
                 link |-> Len(cashbook) + 1, reversed |-> FALSE, depth |-> 0, parent |-> 0]
<1>0. /\ n \notin DOMAIN ledger /\ DOMAIN ledger' = DOMAIN ledger \cup {n}
      /\ ledger'[n] = x
      /\ \A C, S : \A j \in DOMAIN ledger : LedgerDelta(C, S)'[j] = LedgerDelta(C, S)[j]
  BY NewRowIs, ZenonT(30)
<1>1. /\ n \notin DOMAIN ledger /\ DOMAIN ledger' = DOMAIN ledger \cup {n}
      /\ \A j \in DOMAIN ledger : LedgerDelta({c}, Dates)'[j] = LedgerDelta({c}, Dates)[j]
      /\ LedgerDelta({c}, Dates)'[n] # 0 =>
            f.client = c /\ LedgerDelta({c}, Dates)'[n] = Sign(kind) * f.amount
  <2>1. n \in DOMAIN ledger' /\ ledger'[n].client = f.client /\ ledger'[n].kind = kind
        /\ ledger'[n].amount = f.amount
    BY <1>0
  <2> HIDE DEF x
  <2> QED
    BY <1>0, <2>1, DeltaIs
<1> HIDE DEF x
<1>2. ClientBalance(c)' = ClientBalance(c) + LedgerDelta({c}, Dates)'[n]
  BY <1>1, NetAdds DEF ClientBalance
<1>3. ClientBalance(c) \in Int /\ LedgerDelta({c}, Dates)'[n] \in Int
  BY <1>1, NetsAre, NetsNext DEF NetsSum, ClientBalance
<1>4. LedgerDelta({c}, Dates)'[n] < 0
  BY <1>2, <1>3 DEF Overdraws
<1>5. f.client = c /\ kind # "Receipt" /\ LedgerDelta({c}, Dates)'[n] = -f.amount
  <2>1. f.amount \in Nat
    BY DEF Amounts
  <2>2. f.client = c /\ LedgerDelta({c}, Dates)'[n] = Sign(kind) * f.amount
    BY <1>1, <1>4
  <2>3. /\ kind = "Receipt" => Sign(kind) * f.amount = f.amount
        /\ kind # "Receipt" => Sign(kind) * f.amount = -f.amount
    BY <2>1, SignInt
  <2> QED
    BY <1>4, <2>1, <2>2, <2>3
<1>6. ASSUME ~LaterPayment(c, f.date) PROVE ~(LedgerNet({c}, UpTo(f.date)) >= f.amount)
  <2>1. LedgerNet({c}, UpTo(f.date)) <= ClientBalance(c)
    BY <1>6, LaterRows
  <2>2. LedgerNet({c}, UpTo(f.date)) \in Int
    BY NetsAre DEF NetsSum
  <2> QED
    BY <1>2, <1>3, <1>5, <2>1, <2>2 DEF Overdraws, Amounts
<1> QED
  BY <1>5, <1>6

\* The row whose status a cheque request changes.
LEMMA ChequeRow ==
  ASSUME BooksInv, BooksInv', NEW w \in Workers, ChequeWrite(w), NEW i, i = req[w].row
  PROVE  /\ i \in DOMAIN ledger /\ ledger' = ledger /\ req[w].to \in {"Cleared", "Declined"}
         /\ cashbook'[i] = [cashbook[i] EXCEPT !.status = req[w].to]
         /\ \A j \in DOMAIN ledger \ {i} : cashbook'[j] = cashbook[j]
<1>1. i \in DOMAIN ledger /\ ledger' = ledger /\ req[w].to \in {"Cleared", "Declined"}
  <2>1. req[w] \in ChequeReq
    BY RequestKinds DEF ChequeWrite, At, BooksInv, TypeOK
  <2> QED
    BY <2>1 DEF ChequeWrite, At, BooksInv, RequestsNameRows, ChequeReq
<1>2. /\ cashbook'[i] = [cashbook[i] EXCEPT !.status = req[w].to]
      /\ \A j \in DOMAIN ledger \ {i} : cashbook'[j] = cashbook[j]
  BY <1>1, TablesAre DEF ChequeWrite
<1> QED
  BY <1>1, <1>2

LEMMA ChequeOverdraws ==
  ASSUME BooksInv, BooksInv', NEW w \in Workers, ChequeWrite(w), NEW c \in Clients, Overdraws(c)
  PROVE  MayOverdraw(req[w], c)
<1> SUFFICES ASSUME ~(req[w].to = "Cleared" /\ cashbook[req[w].row].kind = "Payment"),
                    ~(req[w].to = "Declined" /\ cashbook[req[w].row].status = "Cleared"),
                    NEW i, i = req[w].row
             PROVE  FALSE
  BY DEF MayOverdraw, ChequeWrite, At
<1>0. /\ i \in DOMAIN ledger /\ ledger' = ledger /\ req[w].to \in {"Cleared", "Declined"}
      /\ cashbook'[i] = [cashbook[i] EXCEPT !.status = req[w].to]
      /\ \A j \in DOMAIN ledger \ {i} : cashbook'[j] = cashbook[j]
  BY ChequeRow
<1>1. /\ i \in DOMAIN ledger /\ ledger' = ledger /\ req[w].to \in {"Cleared", "Declined"}
      /\ \A j \in DOMAIN ledger \ {i} :
            LedgerDelta({c}, Dates)'[j] = LedgerDelta({c}, Dates)[j]
      /\ LedgerCounts(i) <=> cashbook[i].status = "Cleared" /\ Active(ledger[i])
      /\ LedgerCounts(i)' <=> req[w].to = "Cleared" /\ Active(ledger[i])
  <2>1. cashbook'[i].status = req[w].to
    BY <1>0, TablesAre DEF CashbookRow
  <2>2. \A j \in DOMAIN ledger \ {i} :
            LedgerDelta({c}, Dates)'[j] = LedgerDelta({c}, Dates)[j]
    BY <1>0, DeltaKept
  <2>3. LedgerCounts(i) <=> cashbook[i].status = "Cleared" /\ Active(ledger[i])
    BY <1>0, CountsAre DEF Active
  <2>4. LedgerCounts(i)' <=> req[w].to = "Cleared" /\ Active(ledger[i])
    BY <1>0, <2>1, CountsAre DEF Active
  <2> QED
    BY <1>0, <2>2, <2>3, <2>4
<1> DEFINE D == LedgerDelta({c}, Dates)[i]
           E == LedgerDelta({c}, Dates)'[i]
<1>2. ledger[i] \in LedgerRow /\ cashbook[i] \in CashbookRow
      /\ cashbook[i].kind = CashbookType(ledger[i].kind)
  BY <1>1, TablesAre DEF BooksInv, PairsAgree
<1>3. ledger[i].amount \in Nat /\ D \in Int /\ E \in Int
  BY <1>1, <1>2, NetsAre, NetsNext DEF LedgerRow, Amounts, NetsSum
<1>4. D <= E
  <2>1. CASE req[w].to = "Cleared"
    <3>1. ledger[i].kind = "Receipt"
      BY <1>2, <2>1 DEF CashbookType
    <3>2. LedgerCounts(i) => LedgerCounts(i)'
      BY <1>1, <2>1
    <3> QED
      BY <1>1, <1>3, <3>1, <3>2, DeltaIs, SignInt
  <2>2. CASE req[w].to = "Declined"
    <3>1. ~LedgerCounts(i) /\ ~LedgerCounts(i)'
      BY <1>1, <2>2
    <3>2. D = 0 /\ E = 0
      BY <1>1, <3>1, DeltaIs
    <3> QED
      BY <3>2
  <2> QED
    BY <1>1, <2>1, <2>2
<1>5. \A j \in DOMAIN ledger :
         LedgerDelta({c}, Dates)[j] <= LedgerDelta({c}, Dates)'[j]
  <2> SUFFICES ASSUME NEW j \in DOMAIN ledger
               PROVE  LedgerDelta({c}, Dates)[j] <= LedgerDelta({c}, Dates)'[j]
    OBVIOUS
  <2>1. LedgerDelta({c}, Dates)[j] \in Int
    BY NetsAre DEF NetsSum
  <2> QED
    BY <1>1, <1>4, <2>1
<1>6. ClientBalance(c) <= ClientBalance(c)'
  <2>1. DOMAIN ledger \subseteq DOMAIN ledger' /\ DOMAIN ledger' \ DOMAIN ledger = {}
    BY <1>1
  <2> QED
    BY <1>5, <2>1, NetRises DEF ClientBalance
<1>7. ClientBalance(c) \in Int /\ ClientBalance(c)' \in Int
  BY NetsAre, NetsNext DEF NetsSum, ClientBalance
<1> QED
  BY <1>6, <1>7 DEF Overdraws

LEMMA ReverseOverdraws ==
  ASSUME BooksInv, BooksInv', NEW w \in Workers, ReverseWrite(w), NEW c \in Clients, Overdraws(c)
  PROVE  MayOverdraw(req[w], c)
<1> SUFFICES ASSUME ledger[req[w].row].kind # "Receipt", NEW i, i = req[w].row,
                    NEW d, d = req[w].date, NEW n, n = Len(ledger) + 1
             PROVE  FALSE
  BY DEF MayOverdraw, ReverseWrite, At
<1>a. RowsReversed(i, d, n)
  BY ReversedRows
<1>0. /\ i \in DOMAIN ledger /\ DOMAIN ledger' = 1..n
      /\ \A j \in DOMAIN ledger \ {i} : ledger'[j] = ledger[j] /\ cashbook'[j] = cashbook[j]
      /\ ledger'[i] = [ledger[i] EXCEPT !.reversed = TRUE]
      /\ ledger'[n] = [client |-> ledger[i].client, date |-> d, amount |-> ledger[i].amount,
                       kind |-> Opposite(ledger[i].kind), link |-> n,
                       reversed |-> FALSE, depth |-> ledger[i].depth + 1, parent |-> i]
  BY <1>a DEF RowsReversed
<1>1. /\ n \notin DOMAIN ledger /\ DOMAIN ledger' = DOMAIN ledger \cup {n}
      /\ i \in DOMAIN ledger /\ ledger'[i].reversed
      /\ \A j \in DOMAIN ledger \ {i} : ledger'[j] = ledger[j] /\ cashbook'[j] = cashbook[j]
  BY <1>0, TablesAre DEF LedgerRow
<1>2. ledger[i].amount \in Nat
  BY <1>1, TablesAre DEF LedgerRow, Amounts
<1>3. LedgerDelta({c}, Dates)[i] <= 0
  <2>1. \/ LedgerDelta({c}, Dates)[i] = 0
        \/ LedgerDelta({c}, Dates)[i] = Sign(ledger[i].kind) * ledger[i].amount
    <3>1. BooksInv /\ i \in DOMAIN ledger
      BY <1>1
    <3> QED
      BY ONLY <3>1, DeltaIs, Zenon
  <2>2. ledger[i].kind # "Receipt" /\ ledger[i].amount \in Int
    BY <1>2
  <2>3. Sign(ledger[i].kind) * ledger[i].amount = -ledger[i].amount
    BY <2>2, SignInt, Zenon
  <2> QED
    BY <1>2, <2>1, <2>3
<1>4. 0 <= LedgerDelta({c}, Dates)'[n]
  <2>1. Opposite(ledger[i].kind) = "Receipt"
    BY DEF Opposite
  <2>2. Sign(Opposite(ledger[i].kind)) * ledger[i].amount = ledger[i].amount
    BY <1>2, <2>1, SignInt
  <2>3. n \in DOMAIN ledger' /\ ledger'[n].kind = Opposite(ledger[i].kind)
        /\ ledger'[n].amount = ledger[i].amount
    BY <1>0, <1>1
  <2>4. LedgerDelta({c}, Dates)'[n] \in {0, Sign(ledger'[n].kind) * ledger'[n].amount}
    BY <2>3, DeltaIs
  <2> QED
    BY <1>2, <2>2, <2>3, <2>4
<1>5. \A j \in DOMAIN ledger :
         LedgerDelta({c}, Dates)[j] <= LedgerDelta({c}, Dates)'[j]
  <2> SUFFICES ASSUME NEW j \in DOMAIN ledger
               PROVE  LedgerDelta({c}, Dates)[j] <= LedgerDelta({c}, Dates)'[j]
    OBVIOUS
  <2>1. LedgerDelta({c}, Dates)[j] \in Int
    BY NetsAre DEF NetsSum
  <2> QED
    <3>1. CASE j = i
      <4>1. LedgerDelta({c}, Dates)'[i] = 0
        BY <1>1, DeltaIs, CountsAre
      <4> QED
        BY <1>3, <3>1, <4>1
    <3>2. CASE j # i
      <4>1. LedgerDelta({c}, Dates)'[j] = LedgerDelta({c}, Dates)[j]
        BY <1>1, <3>2, DeltaKept
      <4> QED
        BY <2>1, <4>1
    <3> QED
      BY <3>1, <3>2
<1>6. ClientBalance(c) <= ClientBalance(c)'
  <2>1. DOMAIN ledger \subseteq DOMAIN ledger' /\ \A j \in DOMAIN ledger' \ DOMAIN ledger : j = n
    BY <1>1
  <2> QED
    BY <1>4, <1>5, <2>1, NetRises DEF ClientBalance
<1>7. ClientBalance(c) \in Int /\ ClientBalance(c)' \in Int
  BY NetsAre, NetsNext DEF NetsSum, ClientBalance
<1> QED
  BY <1>6, <1>7 DEF Overdraws

\* Only four actions write rows.
LEMMA RowWriters ==
  ASSUME [Next]_vars, ~UNCHANGED <<ledger, cashbook, fees>>
  PROVE  \E w \in Workers : PostWrite(w) \/ FeeWrite(w) \/ ChequeWrite(w) \/ ReverseWrite(w)
  BY DEF Next, vars, tables, Step, Post, PostBegin, PostMonth, PostRefused,
     TransferFee, FeeBegin, FeeFunds, FeeMonth, UpdateCheque, ChequeBegin, ChequeMonth,
     Reverse, ReverseBegin, ReverseRead, Administer, CloseBegin, CloseWrite, Reopen,
     LockMonth, UnlockMonth, Abort, Proceed

LEMMA WriterFinishes ==
  ASSUME BooksInv, NEW w \in Workers,
         PostWrite(w) \/ FeeWrite(w) \/ ChequeWrite(w) \/ ReverseWrite(w)
  PROVE  Finished(w)
<1>1. req \in [Workers -> Request] /\ req' = [req EXCEPT ![w] = NoReq] /\ ~Idle(w)
  BY DEF BooksInv, TypeOK, PostWrite, FeeWrite, ChequeWrite, ReverseWrite, Finish, At, Idle, NoReq
<1> QED
  BY <1>1 DEF Finished

LEMMA DeficitStep ==
  ASSUME BooksInv, [Next]_vars, NEW c \in Clients, Overdraws(c)
  PROVE  \E w \in Workers : Finished(w) /\ MayOverdraw(req[w], c)
<1>1. BooksInv'
  BY StepInv
<1>2. PICK w \in Workers : PostWrite(w) \/ FeeWrite(w) \/ ChequeWrite(w) \/ ReverseWrite(w)
  BY RowWriters DEF Overdraws
<1>3. Finished(w)
  BY <1>2, WriterFinishes
<1> DEFINE f == req[w].form
<1>4. CASE PostWrite(w)
  <2>1. req[w] \in PostReq /\ req[w].op = "post"
    BY <1>4, RequestKinds DEF PostWrite, At, BooksInv, TypeOK
  <2>2. f.client \in Clients /\ f.date \in Dates /\ f.amount \in Amounts
    BY <2>1 DEF PostReq, PostForm
  <2>3. PICK status : InsertPair(f, f.kind, f.source, status)
    BY <1>4 DEF PostWrite
  <2>4. f.kind # "Receipt" /\ f.client = c
        /\ (LedgerNet({c}, UpTo(f.date)) >= f.amount => LaterPayment(c, f.date))
    BY <1>1, <2>2, <2>3, InsertOverdraws
  <2>5. Funded(f)
    BY <1>4 DEF PostWrite
  <2>6. f.override \/ LaterPayment(c, f.date)
    BY <2>4, <2>5 DEF Funded
  <2> QED
    BY <1>3, <2>1, <2>6 DEF MayOverdraw
<1>5. CASE FeeWrite(w)
  <2>1. req[w] \in FeeReq /\ req[w].op = "fee"
    BY <1>5, RequestKinds DEF FeeWrite, At, BooksInv, TypeOK
  <2>2. f.client \in Clients /\ f.date \in Dates /\ f.amount \in Amounts
    BY <2>1 DEF FeeReq, FeeForm
  <2>3. InsertPair(f, "Payment", "Other", "Cleared")
    BY <1>5 DEF FeeWrite
  <2>4. f.client = c
        /\ (LedgerNet({c}, UpTo(f.date)) >= f.amount => LaterPayment(c, f.date))
    BY <1>1, <2>2, <2>3, InsertOverdraws
  <2>5. ~FeeFunded(f) \/ LaterPayment(c, f.date)
    BY <2>4 DEF FeeFunded
  <2> QED
    BY <1>3, <2>1, <2>5 DEF MayOverdraw
<1>6. CASE ChequeWrite(w)
  BY <1>1, <1>3, <1>6, ChequeOverdraws
<1>7. CASE ReverseWrite(w)
  BY <1>1, <1>3, <1>7, ReverseOverdraws
<1> QED
  BY <1>2, <1>4, <1>5, <1>6, <1>7

\* A client's books go below zero only by an override, a payment dated before
\* later ones, a fee whose funds went after the check, a cheque that clears or
\* is declined too late, or the reversal of incoming money
\* (create_ledger_and_cashbook_transaction's BEGIN IMMEDIATE check).
THEOREM OverdrawnOnlyBy == Spec => DeficitCauses
<1>1. BooksInv /\ [Next]_vars =>
         [\A c \in Clients :
             Overdraws(c) => \E w \in Workers : Finished(w) /\ MayOverdraw(req[w], c)]_vars
  BY DeficitStep
<1> QED
  BY <1>1, BooksInvariant, PTL DEF Spec, DeficitCauses

-----------------------------------------------------------------------------
(* Requests served one at a time.                                            *)

(* What the request under way has checked.                                  *)

\* What the checks of the request under way have found still holds: nobody
\* else has written since.
Checked(w) ==
    LET r == req[w] IN
    /\ r.op = "post" =>
          /\ MatterOpen(r.form.client)
          /\ r.at = "write" => MonthUnlocked(r.form.date)
    /\ r.op = "fee" =>
          /\ MatterOpen(r.form.client)
          /\ \A f \in FeeForm : r.form = f /\ r.at # "funds" => FeeFunded(f)
          /\ r.at = "write" => MonthUnlocked(r.form.date)
    /\ r.op = "cheque" =>
          /\ StatusChangeAllowed(cashbook[r.row], r.to)
          /\ r.at = "write" => MonthUnlocked(cashbook[r.row].date)
    /\ r.op = "reverse" =>
          /\ MonthUnlocked(r.date)
          /\ r.at = "write" => ~ledger[r.row].reversed

AllChecked == \A w \in Workers : Checked(w)

\* A fee is never moved by cheque, so its two sides are cleared for good.
FeeRowsCleared ==
    \A f \in fees : cashbook[f.link].status = "Cleared" /\ cashbook[f.link].source = "Other"

LEMMA NoReqIs == NoReq.op = "none"
  BY DEF NoReq

\* A step of a worker leaves the requests of the others.
LEMMA OwnRequest ==
  ASSUME BooksInv, NEW w \in Workers, Step(w)
  PROVE  /\ req' \in [Workers -> Request]
         /\ \A v \in Workers \ {w} : req'[v] = req[v]
<1>1. req \in [Workers -> Request]
  BY DEF BooksInv, TypeOK
<1>2. req' = req \/ \E r : req' = [req EXCEPT ![w] = r]
  BY DEF Step, Post, PostBegin, PostMonth, PostWrite, PostRefused, TransferFee, FeeBegin,
     FeeFunds, FeeMonth, FeeWrite, UpdateCheque, ChequeBegin, ChequeMonth, ChequeWrite, Reverse,
     ReverseBegin, ReverseRead, ReverseWrite, Administer, CloseBegin, CloseWrite, Reopen,
     LockMonth, UnlockMonth, Abort, Proceed, Finish
<1>3. BooksInv'
  BY StepInv DEF Next
<1> QED
  BY <1>1, <1>2, <1>3 DEF BooksInv, TypeOK

\* The workers that do not move have nothing to check.
LEMMA OneStep ==
  ASSUME BooksInv, NEW w \in Workers, Step(w), Alone(w)
  PROVE  \A v \in Workers \ {w} : Checked(v)'
<1>1. \A v \in Workers \ {w} : req'[v] = NoReq
  BY OwnRequest DEF Alone, Idle
<1>2. \A v \in Workers \ {w} : Checked(v)'
  BY <1>1, NoReqIs DEF Checked
<1> QED
  BY <1>2

\* A finished request has nothing to check.
LEMMA CheckedDone ==
  ASSUME NEW w \in Workers, req'[w] = NoReq
  PROVE  Checked(w)'
  BY NoReqIs DEF Checked

\* The funds of a fee stay as long as the books do.
LEMMA FundsKept ==
  ASSUME BooksInv, BooksInv', UNCHANGED tables, NEW f, FeeFunded(f)
  PROVE  FeeFunded(f)'
<1>1. ledger' = ledger /\ cashbook' = cashbook
  BY DEF tables
<1>2. LedgerNet({f.client}, UpTo(f.date))' = LedgerNet({f.client}, UpTo(f.date))
  <2>1. DOMAIN ledger \subseteq DOMAIN ledger' /\ DOMAIN ledger' \ DOMAIN ledger = {}
    BY <1>1
  <2>2. \A i \in DOMAIN ledger : LedgerDelta({f.client}, UpTo(f.date))'[i]
                                    = LedgerDelta({f.client}, UpTo(f.date))[i]
    BY <1>1, DeltaKept
  <2> QED
    BY <2>1, <2>2, NetKept
<1> QED
  BY <1>2 DEF FeeFunded

\* A check of the one request: it goes on to the next step or ends.
LEMMA CheckedPost ==
  ASSUME BooksInv, BooksInv', NEW w \in Workers, Checked(w), Post(w)
  PROVE  Checked(w)'
<1>1. req \in [Workers -> Request] /\ req[w] \in Request
  BY DEF BooksInv, TypeOK
<1>2. CASE PostBegin(w)
  <2>1. PICK f \in PostForms : PostBegin(w)!(f)
    BY <1>2 DEF PostBegin
  <2>2. req'[w] = [op |-> "post", at |-> "month", form |-> f] /\ matter' = matter
        /\ MatterOpen(f.client)
    BY <1>1, <2>1 DEF tables
  <2> QED
    BY <2>2 DEF Checked, MatterOpen
<1>3. CASE PostMonth(w)
  <2>1. req[w] \in PostReq
    BY <1>1, <1>3, RequestKinds DEF PostMonth, At
  <2>2. req[w].op = "post"
    BY <1>3 DEF PostMonth, At
  <2>3. /\ matter' = matter /\ lockedMonths' = lockedMonths
        /\ req'[w] = IF MonthUnlocked(req[w].form.date) THEN [req[w] EXCEPT !.at = "write"] ELSE NoReq
    BY <1>1, <1>3 DEF PostMonth, Proceed, tables
  <2>4. CASE ~MonthUnlocked(req[w].form.date)
    BY <2>3, <2>4, CheckedDone
  <2>5. CASE MonthUnlocked(req[w].form.date)
    <3>1. req'[w].op = "post" /\ req'[w].form = req[w].form
      BY <2>1, <2>3, <2>5 DEF PostReq
    <3>2. MatterOpen(req[w].form.client)
      BY <2>2 DEF Checked
    <3> QED
      BY <2>3, <2>5, <3>1, <3>2 DEF Checked, MatterOpen, MonthUnlocked
  <2> QED
    BY <2>4, <2>5
<1>4. CASE PostWrite(w) \/ PostRefused(w)
  BY <1>1, <1>4, CheckedDone DEF PostWrite, PostRefused, Finish
<1> QED
  BY <1>2, <1>3, <1>4 DEF Post

\* A fee's checks, step by step.
LEMMA CheckedFee ==
  ASSUME BooksInv, BooksInv', NEW w \in Workers, Checked(w), TransferFee(w)
  PROVE  Checked(w)'
<1>1. req \in [Workers -> Request] /\ req[w] \in Request
  BY DEF BooksInv, TypeOK
<1>2. CASE FeeBegin(w)
  <2>1. PICK f \in FeeForms : FeeBegin(w)!(f)
    BY <1>2 DEF FeeBegin
  <2>2. req'[w] = [op |-> "fee", at |-> "funds", form |-> f] /\ matter' = matter
        /\ MatterOpen(f.client)
    BY <1>1, <2>1 DEF tables
  <2> QED
    BY <2>2 DEF Checked, MatterOpen
<1>3. CASE FeeFunds(w)
  <2>1. req[w] \in FeeReq /\ req[w].op = "fee" /\ Proceed(w, FeeFunded(req[w].form), "month")
    BY <1>1, <1>3, RequestKinds DEF FeeFunds, At
  <2>2. /\ matter' = matter /\ UNCHANGED tables
        /\ req'[w] = IF FeeFunded(req[w].form) THEN [req[w] EXCEPT !.at = "month"] ELSE NoReq
    BY <1>1, <2>1 DEF Proceed, tables
  <2>3. CASE ~FeeFunded(req[w].form)
    BY <2>2, <2>3, CheckedDone
  <2>4. CASE FeeFunded(req[w].form)
    <3>1. req'[w].op = "fee" /\ req'[w].form = req[w].form /\ req'[w].at = "month"
      BY <2>1, <2>2, <2>4 DEF FeeReq
    <3>2. MatterOpen(req[w].form.client)
      BY <2>1 DEF Checked
    <3>3. \A f \in FeeForm : req[w].form = f => FeeFunded(f)'
      BY <2>2, <2>4, FundsKept
    <3> QED
      BY <2>2, <3>1, <3>2, <3>3 DEF Checked, MatterOpen
  <2> QED
    BY <2>3, <2>4
<1>4. CASE FeeMonth(w)
  <2>1. req[w] \in FeeReq /\ req[w].op = "fee" /\ req[w].at = "month"
        /\ Proceed(w, MonthUnlocked(req[w].form.date), "write")
    BY <1>1, <1>4, RequestKinds DEF FeeMonth, At
  <2>2. /\ matter' = matter /\ lockedMonths' = lockedMonths /\ UNCHANGED tables
        /\ req'[w] = IF MonthUnlocked(req[w].form.date) THEN [req[w] EXCEPT !.at = "write"] ELSE NoReq
    BY <1>1, <2>1 DEF Proceed, tables
  <2>3. CASE ~MonthUnlocked(req[w].form.date)
    BY <2>2, <2>3, CheckedDone
  <2>4. CASE MonthUnlocked(req[w].form.date)
    <3>1. req'[w].op = "fee" /\ req'[w].form = req[w].form
      BY <2>1, <2>2, <2>4 DEF FeeReq
    <3>2. MatterOpen(req[w].form.client)
      BY <2>1 DEF Checked
    <3>3. \A f \in FeeForm : req[w].form = f => FeeFunded(f)'
      <4>1. \A f \in FeeForm : req[w].form = f => FeeFunded(f)
        BY <2>1 DEF Checked
      <4> QED
        BY <2>2, <4>1, FundsKept
    <3> QED
      BY <2>2, <2>4, <3>1, <3>2, <3>3 DEF Checked, MatterOpen, MonthUnlocked
  <2> QED
    BY <2>3, <2>4
<1>5. CASE FeeWrite(w)
  BY <1>1, <1>5, CheckedDone DEF FeeWrite, Finish
<1> QED
  BY <1>2, <1>3, <1>4, <1>5 DEF TransferFee

\* A cheque's.
LEMMA CheckedCheque ==
  ASSUME BooksInv, BooksInv', NEW w \in Workers, Checked(w), UpdateCheque(w)
  PROVE  Checked(w)'
<1>1. req \in [Workers -> Request] /\ req[w] \in Request
  BY DEF BooksInv, TypeOK
<1>2. CASE ChequeBegin(w)
  <2>1. PICK i \in DOMAIN cashbook, to \in {"Cleared", "Declined"} : ChequeBegin(w)!(i, to)
    BY <1>2 DEF ChequeBegin
  <2>2. req'[w] = [op |-> "cheque", at |-> "month", row |-> i, to |-> to] /\ cashbook' = cashbook
        /\ StatusChangeAllowed(cashbook[i], to)
    BY <1>1, <2>1 DEF tables
  <2> QED
    BY <2>2 DEF Checked, StatusChangeAllowed
<1>3. CASE ChequeMonth(w)
  <2>1. req[w] \in ChequeReq /\ req[w].op = "cheque"
        /\ Proceed(w, MonthUnlocked(cashbook[req[w].row].date), "write")
    BY <1>1, <1>3, RequestKinds DEF ChequeMonth, At
  <2>2. /\ cashbook' = cashbook /\ lockedMonths' = lockedMonths
        /\ req'[w] = IF MonthUnlocked(cashbook[req[w].row].date)
                     THEN [req[w] EXCEPT !.at = "write"] ELSE NoReq
    BY <1>1, <2>1 DEF Proceed, tables
  <2>3. CASE ~MonthUnlocked(cashbook[req[w].row].date)
    BY <2>2, <2>3, CheckedDone
  <2>4. CASE MonthUnlocked(cashbook[req[w].row].date)
    <3>1. req'[w].op = "cheque" /\ req'[w].row = req[w].row /\ req'[w].to = req[w].to
      BY <2>1, <2>2, <2>4 DEF ChequeReq
    <3>2. StatusChangeAllowed(cashbook[req[w].row], req[w].to)
      BY <2>1 DEF Checked
    <3> QED
      BY <2>2, <2>4, <3>1, <3>2 DEF Checked, StatusChangeAllowed, MonthUnlocked
  <2> QED
    BY <2>3, <2>4
<1>4. CASE ChequeWrite(w)
  BY <1>1, <1>4, CheckedDone DEF ChequeWrite, Finish
<1> QED
  BY <1>2, <1>3, <1>4 DEF UpdateCheque

\* A reversal's.
LEMMA CheckedReverse ==
  ASSUME BooksInv, BooksInv', NEW w \in Workers, Checked(w), Reverse(w)
  PROVE  Checked(w)'
<1>1. req \in [Workers -> Request] /\ req[w] \in Request
  BY DEF BooksInv, TypeOK
<1>2. CASE ReverseBegin(w)
  <2>1. PICK i \in DOMAIN ledger, d \in Dates : ReverseBegin(w)!(i, d)
    BY <1>2 DEF ReverseBegin
  <2>2. req'[w] = [op |-> "reverse", at |-> "read", row |-> i, date |-> d]
        /\ lockedMonths' = lockedMonths /\ MonthUnlocked(d)
    BY <1>1, <2>1 DEF tables
  <2> QED
    BY <2>2 DEF Checked, MonthUnlocked
<1>3. CASE ReverseRead(w)
  <2>1. req[w] \in ReverseReq /\ req[w].op = "reverse"
        /\ Proceed(w, ~ledger[req[w].row].reversed, "write")
    BY <1>1, <1>3, RequestKinds DEF ReverseRead, At
  <2>2. /\ ledger' = ledger /\ lockedMonths' = lockedMonths
        /\ req'[w] = IF ~ledger[req[w].row].reversed
                     THEN [req[w] EXCEPT !.at = "write"] ELSE NoReq
    BY <1>1, <2>1 DEF Proceed, tables
  <2>3. CASE ledger[req[w].row].reversed
    BY <2>2, <2>3, CheckedDone
  <2>4. CASE ~ledger[req[w].row].reversed
    <3>1. req'[w].op = "reverse" /\ req'[w].row = req[w].row /\ req'[w].date = req[w].date
      BY <2>1, <2>2, <2>4 DEF ReverseReq
    <3>2. MonthUnlocked(req[w].date)
      BY <2>1 DEF Checked
    <3> QED
      BY <2>2, <2>4, <3>1, <3>2 DEF Checked, MonthUnlocked
  <2> QED
    BY <2>3, <2>4
<1>4. CASE ReverseWrite(w)
  BY <1>1, <1>4, CheckedDone DEF ReverseWrite, Finish
<1> QED
  BY <1>2, <1>3, <1>4 DEF Reverse

\* Requests without checks of their own.
LEMMA CheckedOther ==
  ASSUME BooksInv, BooksInv', NEW w \in Workers, Administer(w) \/ Abort(w)
  PROVE  Checked(w)'
<1>1. req \in [Workers -> Request] /\ req[w] \in Request
  BY DEF BooksInv, TypeOK
<1>2. CASE CloseBegin(w)
  <2>1. PICK c \in Clients : req' = [req EXCEPT ![w] = [op |-> "close", at |-> "write", client |-> c]]
    BY <1>2 DEF CloseBegin
  <2>2. req'[w].op = "close"
    BY <1>1, <2>1
  <2> QED
    BY <2>2 DEF Checked
<1>3. CASE CloseWrite(w) \/ Reopen(w) \/ LockMonth(w) \/ UnlockMonth(w) \/ Abort(w)
  <2>1. req'[w] = NoReq
    BY <1>1, <1>3 DEF CloseWrite, Reopen, LockMonth, UnlockMonth, Abort, Finish, Idle
  <2> QED
    BY <2>1, CheckedDone
<1> QED
  BY <1>2, <1>3 DEF Administer

\* Alone, a request keeps what it has checked until it writes.
LEMMA CheckedStep ==
  ASSUME BooksInv, AllChecked, NEW w \in Workers, Step(w), Alone(w)
  PROVE  AllChecked'
<1>1. BooksInv'
  BY StepInv DEF Next
<1>2. Checked(w)
  BY DEF AllChecked
<1>3. Checked(w)'
  BY <1>1, <1>2, CheckedPost, CheckedFee, CheckedCheque, CheckedReverse, CheckedOther DEF Step
<1> QED
  BY <1>3, OneStep DEF AllChecked
-----------------------------------------------------------------------------
(* The four writes, as one request at a time makes them.                    *)

\* A pair of rows is posted as the form says, in an unlocked month and for an
\* open matter.
Posted(n, f, kind, source) ==
    /\ n \notin DOMAIN ledger /\ DOMAIN ledger' = DOMAIN ledger \cup {n} /\ n \in Nat \ {0}
    /\ f.client \in Clients /\ f.date \in Dates /\ f.amount \in Amounts
    /\ ledger'[n] = [client |-> f.client, date |-> f.date, amount |-> f.amount, kind |-> kind,
                     link |-> n, reversed |-> FALSE, depth |-> 0, parent |-> 0]
    /\ cashbook'[n].source = source
    /\ source # "Cheque" => cashbook'[n].status = "Cleared"
    /\ \A j \in DOMAIN ledger : ledger'[j] = ledger[j] /\ cashbook'[j] = cashbook[j]

FeeOf(n, f) == [link |-> n, client |-> f.client, date |-> f.date, amount |-> f.amount]

\* What the insert of a pair does to the rows.
LEMMA PostedRows ==
  ASSUME BooksInv, BooksInv', NEW f, f.client \in Clients, f.date \in Dates, f.amount \in Amounts,
         NEW kind, NEW source, NEW status, source # "Cheque" => status = "Cleared",
         InsertPair(f, kind, source, status), NEW n, n = Len(ledger) + 1
  PROVE  Posted(n, f, kind, source)
<1> DEFINE x == [client |-> f.client, date |-> f.date, amount |-> f.amount, kind |-> kind,
                 link |-> Len(cashbook) + 1, reversed |-> FALSE, depth |-> 0, parent |-> 0]
           y == [date |-> f.date, amount |-> f.amount, kind |-> CashbookType(kind),
                 source |-> source, status |-> status,
                 link |-> Len(ledger) + 1, reversed |-> FALSE, depth |-> 0, parent |-> 0]
<1>1. /\ DOMAIN ledger' = 1..n /\ ledger'[n] = x
      /\ \A j \in DOMAIN ledger : ledger'[j] = ledger[j] /\ cashbook'[j] = cashbook[j]
  BY InsertedRows
<1>2. cashbook'[n] = y
  <2>1. cashbook' = Append(cashbook, y)
    BY DEF InsertPair
  <2> HIDE DEF y
  <2> QED
    BY <2>1, TablesAre
<1>3. y.source = source /\ y.status = status
  OBVIOUS
<1> HIDE DEF y
<1>4. cashbook'[n].source = source /\ (source # "Cheque" => cashbook'[n].status = "Cleared")
  BY <1>2, <1>3
<1>5. n \notin DOMAIN ledger /\ DOMAIN ledger' = DOMAIN ledger \cup {n} /\ n \in Nat \ {0}
      /\ Len(cashbook) + 1 = n
  BY <1>1, TablesAre
<1> QED
  BY <1>1, <1>4, <1>5 DEF Posted

\* The write of a posting.
LEMMA PostWriteIs ==
  ASSUME BooksInv, BooksInv', NEW w \in Workers, Checked(w), PostWrite(w),
         NEW f, f = req[w].form, NEW n, n = Len(ledger) + 1
  PROVE  /\ Posted(n, f, f.kind, f.source) /\ fees' = fees
         /\ MonthUnlocked(f.date) /\ MatterOpen(f.client)
<1>1. req[w] \in PostReq /\ req[w].op = "post" /\ req[w].at = "write"
  BY RequestKinds DEF PostWrite, At, BooksInv, TypeOK
<1>2. f.client \in Clients /\ f.date \in Dates /\ f.amount \in Amounts
  BY <1>1 DEF PostReq, PostForm
<1>3. InsertPair(f, f.kind, f.source, IF f.source = "Cheque" THEN "Pending" ELSE "Cleared")
      /\ fees' = fees
  BY DEF PostWrite
<1>4. Posted(n, f, f.kind, f.source)
  BY <1>2, <1>3, PostedRows
<1>5. MonthUnlocked(f.date) /\ MatterOpen(f.client)
  BY <1>1 DEF Checked
<1> QED
  BY <1>3, <1>4, <1>5

\* The write of a fee.
LEMMA FeeWriteIs ==
  ASSUME BooksInv, BooksInv', NEW w \in Workers, Checked(w), FeeWrite(w),
         NEW f, f = req[w].form, NEW n, n = Len(ledger) + 1
  PROVE  /\ Posted(n, f, "Payment", "Other") /\ fees' = fees \cup {FeeOf(n, f)}
         /\ MonthUnlocked(f.date) /\ MatterOpen(f.client) /\ FeeFunded(f)
<1>1. req[w] \in FeeReq /\ req[w].op = "fee" /\ req[w].at = "write"
  BY RequestKinds DEF FeeWrite, At, BooksInv, TypeOK
<1>2. f \in FeeForm /\ f.client \in Clients /\ f.date \in Dates /\ f.amount \in Amounts
  BY <1>1 DEF FeeReq, FeeForm
<1>3. InsertPair(f, "Payment", "Other", "Cleared") /\ fees' = fees \cup {FeeOf(n, f)}
  BY DEF FeeWrite, FeeOf
<1>4. Posted(n, f, "Payment", "Other")
  BY <1>2, <1>3, PostedRows
<1>5. MonthUnlocked(f.date) /\ MatterOpen(f.client) /\ FeeFunded(f)
  BY <1>1, <1>2 DEF Checked
<1> QED
  BY <1>3, <1>4, <1>5

\* A cheque that is not final gets the status to, in an unlocked month.
ChequeSet(i, to) ==
    /\ i \in DOMAIN ledger /\ ledger' = ledger /\ fees' = fees /\ to \in {"Cleared", "Declined"}
    /\ StatusChangeAllowed(cashbook[i], to) /\ MonthUnlocked(ledger[i].date)
    /\ cashbook'[i] = [cashbook[i] EXCEPT !.status = to] /\ cashbook'[i].status = to
    /\ cashbook'[i].source = cashbook[i].source
    /\ \A j \in DOMAIN ledger \ {i} : cashbook'[j] = cashbook[j]

\* The write of a cheque.
LEMMA ChequeWriteIs ==
  ASSUME BooksInv, BooksInv', NEW w \in Workers, Checked(w), ChequeWrite(w),
         NEW i, i = req[w].row, NEW to, to = req[w].to
  PROVE  ChequeSet(i, to)
<1>1. /\ i \in DOMAIN ledger /\ ledger' = ledger /\ req[w].to \in {"Cleared", "Declined"}
      /\ cashbook'[i] = [cashbook[i] EXCEPT !.status = req[w].to]
      /\ \A j \in DOMAIN ledger \ {i} : cashbook'[j] = cashbook[j]
  BY ChequeRow
<1>2. req[w].op = "cheque" /\ req[w].at = "write" /\ fees' = fees
  BY DEF ChequeWrite, At
<1>3. StatusChangeAllowed(cashbook[i], to) /\ MonthUnlocked(cashbook[i].date)
  BY <1>2 DEF Checked
<1>4. cashbook[i] \in CashbookRow /\ cashbook[i].date = ledger[i].date
  BY <1>1, TablesAre DEF BooksInv, PairsAgree
<1>5. cashbook'[i].status = to /\ cashbook'[i].source = cashbook[i].source
  BY <1>1, <1>4 DEF CashbookRow
<1> QED
  BY <1>1, <1>2, <1>3, <1>4, <1>5 DEF ChequeSet

\* The compensation of a fee.
TakenBack(g, d, n) == [link |-> n, client |-> g.client, date |-> d, amount |-> -g.amount]

\* An active row is reversed, in an unlocked month.
Undone(i, d, n) ==
    /\ RowsReversed(i, d, n) /\ ~ledger[i].reversed /\ MonthUnlocked(d)
    /\ n \notin DOMAIN ledger /\ DOMAIN ledger' = DOMAIN ledger \cup {n}
    /\ i \in DOMAIN ledger /\ i # n /\ i # 0 /\ i \in Nat /\ n \in Nat /\ d \in Dates
    /\ \A j \in DOMAIN ledger :
          /\ ledger'[j].client = ledger[j].client /\ ledger'[j].date = ledger[j].date
          /\ ledger'[j].amount = ledger[j].amount /\ ledger'[j].kind = ledger[j].kind
          /\ ledger'[j].depth = ledger[j].depth /\ ledger'[j].parent = ledger[j].parent
          /\ j # i => ledger'[j] = ledger[j]
          /\ cashbook'[j].status = cashbook[j].status /\ cashbook'[j].source = cashbook[j].source
    /\ ledger'[i].reversed
    /\ ledger'[n].parent = i /\ ~ledger'[n].reversed /\ ledger'[n].depth = ledger[i].depth + 1
    /\ ledger'[n].client = ledger[i].client /\ ledger'[n].amount = ledger[i].amount
    /\ ledger'[n].kind = Opposite(ledger[i].kind) /\ ledger'[n].date = d
    /\ cashbook'[n].status = "Cleared" /\ cashbook'[n].source = cashbook[i].source
    /\ fees' = fees \cup {TakenBack(g, d, n) : g \in {g \in fees : g.link = i}}

\* The write of a reversal.
LEMMA ReverseWriteIs ==
  ASSUME BooksInv, BooksInv', NEW w \in Workers, Checked(w), ReverseWrite(w),
         NEW i, i = req[w].row, NEW d, d = req[w].date, NEW n, n = Len(ledger) + 1
  PROVE  Undone(i, d, n)
<1>1. RowsReversed(i, d, n)
  BY ReversedRows
<1>2. req[w] \in ReverseReq /\ req[w].op = "reverse" /\ req[w].at = "write"
  BY RequestKinds DEF ReverseWrite, At, BooksInv, TypeOK
<1>3. ~ledger[i].reversed /\ MonthUnlocked(d) /\ d \in Dates
  BY <1>2 DEF Checked, ReverseReq
<1>4. n \notin DOMAIN ledger /\ DOMAIN ledger' = DOMAIN ledger \cup {n}
      /\ i \in DOMAIN ledger /\ i # n /\ i # 0 /\ i \in Nat /\ n \in Nat
  BY <1>1, TablesAre DEF RowsReversed
<1>5. ASSUME NEW j \in DOMAIN ledger
      PROVE  /\ ledger'[j].client = ledger[j].client /\ ledger'[j].date = ledger[j].date
             /\ ledger'[j].amount = ledger[j].amount /\ ledger'[j].kind = ledger[j].kind
             /\ ledger'[j].depth = ledger[j].depth /\ ledger'[j].parent = ledger[j].parent
             /\ j # i => ledger'[j] = ledger[j]
             /\ cashbook'[j].status = cashbook[j].status /\ cashbook'[j].source = cashbook[j].source
  <2>1. ledger[j] \in LedgerRow /\ cashbook[j] \in CashbookRow
    BY TablesAre
  <2>2. CASE j = i
    BY <1>1, <2>1, <2>2 DEF RowsReversed, LedgerRow, CashbookRow
  <2>3. CASE j # i
    BY <1>1, <2>3 DEF RowsReversed
  <2> QED
    BY <2>2, <2>3
<1>6. ledger'[i].reversed
  BY <1>1, TablesAre DEF RowsReversed, LedgerRow
<1>7. /\ ledger'[n].parent = i /\ ~ledger'[n].reversed /\ ledger'[n].depth = ledger[i].depth + 1
      /\ ledger'[n].client = ledger[i].client /\ ledger'[n].amount = ledger[i].amount
      /\ ledger'[n].kind = Opposite(ledger[i].kind) /\ ledger'[n].date = d
      /\ cashbook'[n].status = "Cleared" /\ cashbook'[n].source = cashbook[i].source
  BY <1>1 DEF RowsReversed
<1>8. fees' = fees \cup {TakenBack(g, d, n) : g \in {g \in fees : g.link = i}}
  BY <1>1 DEF RowsReversed, CompensatedFees, TakenBack
<1> QED
  BY <1>1, <1>3, <1>4, <1>5, <1>6, <1>7, <1>8 DEF Undone

\* What a step does to the books.
Booked ==
    \/ UNCHANGED <<ledger, cashbook, fees>>
    \/ \E n, f : /\ MonthUnlocked(f.date) /\ MatterOpen(f.client)
                 /\ \/ Posted(n, f, f.kind, f.source) /\ fees' = fees
                    \/ Posted(n, f, "Payment", "Other") /\ fees' = fees \cup {FeeOf(n, f)}
    \/ \E i, to : ChequeSet(i, to)
    \/ \E i, d, n : Undone(i, d, n)

\* Every step makes one of the four writes, or none.
LEMMA StepBooked ==
  ASSUME BooksInv, AllChecked, NEW w \in Workers, Step(w)
  PROVE  Booked
<1>1. BooksInv' /\ Checked(w)
  BY StepInv DEF Next, AllChecked
<1>2. CASE PostWrite(w)
  <2> SUFFICES ASSUME NEW f, f = req[w].form, NEW n, n = Len(ledger) + 1 PROVE Booked
    OBVIOUS
  <2> QED
    BY <1>1, <1>2, PostWriteIs DEF Booked
<1>3. CASE FeeWrite(w)
  <2> SUFFICES ASSUME NEW f, f = req[w].form, NEW n, n = Len(ledger) + 1 PROVE Booked
    OBVIOUS
  <2> QED
    BY <1>1, <1>3, FeeWriteIs DEF Booked
<1>4. CASE ChequeWrite(w)
  <2> SUFFICES ASSUME NEW i, i = req[w].row, NEW to, to = req[w].to PROVE Booked
    OBVIOUS
  <2> QED
    BY <1>1, <1>4, ChequeWriteIs DEF Booked
<1>5. CASE ReverseWrite(w)
  <2> SUFFICES ASSUME NEW i, i = req[w].row, NEW d, d = req[w].date, NEW n, n = Len(ledger) + 1
               PROVE  Booked
    OBVIOUS
  <2> QED
    BY <1>1, <1>5, ReverseWriteIs DEF Booked
<1>6. CASE ~(PostWrite(w) \/ FeeWrite(w) \/ ChequeWrite(w) \/ ReverseWrite(w))
  BY <1>6 DEF Booked, vars, tables, Step, Post, PostBegin, PostMonth, PostRefused, TransferFee,
     FeeBegin, FeeFunds, FeeMonth, UpdateCheque, ChequeBegin, ChequeMonth, Reverse, ReverseBegin,
     ReverseRead, Administer, CloseBegin, CloseWrite, Reopen, LockMonth, UnlockMonth, Abort, Proceed
<1> QED
  BY <1>2, <1>3, <1>4, <1>5, <1>6

-----------------------------------------------------------------------------
(* What the checks promise of the writes.                                   *)

\* A row undoes another exactly when it is below the top of its chain.
DepthParent == \A i \in DOMAIN ledger : ledger[i].depth = 0 <=> ledger[i].parent = 0

\* The steps: a reversed row is never reversed again.
LEMMA ReversedOnceStep ==
  ASSUME BooksInv, ChainSound, ReversedOnce, Booked
  PROVE  ReversedOnce'
<1>1. CASE UNCHANGED <<ledger, cashbook, fees>>
  BY <1>1 DEF ReversedOnce
<1>2. ASSUME NEW n, NEW f, NEW kind, NEW source, Posted(n, f, kind, source) PROVE ReversedOnce'
  <2>1. /\ DOMAIN ledger' = DOMAIN ledger \cup {n} /\ ledger'[n].parent = 0
        /\ \A j \in DOMAIN ledger : ledger'[j] = ledger[j]
    BY <1>2 DEF Posted
  <2> QED
    BY <2>1 DEF ReversedOnce
<1>3. ASSUME NEW i, NEW to, ChequeSet(i, to) PROVE ReversedOnce'
  BY <1>3 DEF ChequeSet, ReversedOnce
<1>4. ASSUME NEW i, NEW d, NEW n, Undone(i, d, n) PROVE ReversedOnce'
  <2>1. /\ DOMAIN ledger' = DOMAIN ledger \cup {n} /\ ledger'[n].parent = i
        /\ \A j \in DOMAIN ledger : ledger'[j].parent = ledger[j].parent
        /\ ~ledger[i].reversed
    BY <1>4 DEF Undone
  <2>2. \A j \in DOMAIN ledger : ledger[j].parent # i
    <3> SUFFICES ASSUME NEW j \in DOMAIN ledger, ledger[j].parent = i PROVE FALSE
      OBVIOUS
    <3>1. i # 0
      BY <1>4 DEF Undone
    <3> QED
      BY <2>1, <3>1, ChainSoundIs DEF Undoes
  <2> QED
    BY <2>1, <2>2 DEF ReversedOnce
<1> QED
  BY <1>1, <1>2, <1>3, <1>4 DEF Booked

\* A fee's rows are cleared when written, and no cheque's.
LEMMA FeeRowsStep ==
  ASSUME BooksInv, FeesFollowLedger, FeeRowsCleared, Booked
  PROVE  FeeRowsCleared'
<1>0. \A g \in fees : g.link \in DOMAIN ledger
  BY FeesFollowLedgerIs DEF Mirrors
<1>1. CASE UNCHANGED <<ledger, cashbook, fees>>
  BY <1>1 DEF FeeRowsCleared
<1>2. ASSUME NEW n, NEW f, Posted(n, f, f.kind, f.source), fees' = fees PROVE FeeRowsCleared'
  BY <1>0, <1>2 DEF Posted, FeeRowsCleared
<1>3. ASSUME NEW n, NEW f, Posted(n, f, "Payment", "Other"), fees' = fees \cup {FeeOf(n, f)}
      PROVE  FeeRowsCleared'
  <2>1. /\ cashbook'[n].source = "Other" /\ cashbook'[n].status = "Cleared"
        /\ \A j \in DOMAIN ledger : cashbook'[j] = cashbook[j]
    BY <1>3 DEF Posted
  <2>2. FeeOf(n, f).link = n
    BY DEF FeeOf
  <2> QED
    BY <1>0, <1>3, <2>1, <2>2 DEF FeeRowsCleared
<1>4. ASSUME NEW i, NEW to, ChequeSet(i, to) PROVE FeeRowsCleared'
  <2>1. /\ fees' = fees /\ \A j \in DOMAIN ledger \ {i} : cashbook'[j] = cashbook[j]
        /\ cashbook[i].source = "Cheque"
    BY <1>4 DEF ChequeSet, StatusChangeAllowed
  <2> QED
    BY <1>0, <2>1 DEF FeeRowsCleared
<1>5. ASSUME NEW i, NEW d, NEW n, Undone(i, d, n) PROVE FeeRowsCleared'
  <2>1. /\ \A j \in DOMAIN ledger : cashbook'[j].status = cashbook[j].status
                                    /\ cashbook'[j].source = cashbook[j].source
        /\ cashbook'[n].status = "Cleared" /\ cashbook'[n].source = cashbook[i].source
    BY <1>5 DEF Undone
  <2>2. \A g \in fees' : g \in fees \/ (g.link = n /\ \E h \in fees : h.link = i)
    BY <1>5 DEF Undone, TakenBack
  <2> QED
    BY <1>0, <2>1, <2>2 DEF FeeRowsCleared
<1> QED
  BY <1>1, <1>2, <1>3, <1>4, <1>5 DEF Booked

\* Only a posting has depth 0.
LEMMA DepthParentStep ==
  ASSUME BooksInv, DepthParent, Booked
  PROVE  DepthParent'
<1>1. CASE UNCHANGED <<ledger, cashbook, fees>>
  BY <1>1 DEF DepthParent
<1>2. ASSUME NEW n, NEW f, NEW kind, NEW source, Posted(n, f, kind, source) PROVE DepthParent'
  <2>1. /\ DOMAIN ledger' = DOMAIN ledger \cup {n} /\ ledger'[n].parent = 0 /\ ledger'[n].depth = 0
        /\ \A j \in DOMAIN ledger : ledger'[j] = ledger[j]
    BY <1>2 DEF Posted
  <2> QED
    BY <2>1 DEF DepthParent
<1>3. ASSUME NEW i, NEW to, ChequeSet(i, to) PROVE DepthParent'
  BY <1>3 DEF ChequeSet, DepthParent
<1>4. ASSUME NEW i, NEW d, NEW n, Undone(i, d, n) PROVE DepthParent'
  <2>1. /\ DOMAIN ledger' = DOMAIN ledger \cup {n} /\ ledger'[n].parent = i /\ i # 0
        /\ ledger'[n].depth = ledger[i].depth + 1
        /\ i \in DOMAIN ledger
        /\ \A j \in DOMAIN ledger : /\ ledger'[j].parent = ledger[j].parent
                                    /\ ledger'[j].depth = ledger[j].depth
    BY <1>4 DEF Undone
  <2>2. ledger[i].depth \in Nat
    BY <2>1, TablesAre DEF LedgerRow
  <2> QED
    BY <2>1, <2>2 DEF DepthParent
<1> QED
  BY <1>1, <1>2, <1>3, <1>4 DEF Booked

-----------------------------------------------------------------------------
(* The steps.                                                               *)

\* Rows are written in unlocked months and open matters, and change no
\* cleared status.
LEMMA RowsOfUnlocked ==
  ASSUME BooksInv, BooksInv', Booked
  PROVE  LockedMonthsClosed /\ ClosedMattersRest /\ ClearedFinal
<1>1. CASE UNCHANGED <<ledger, cashbook, fees>>
  BY <1>1 DEF LockedMonthsClosed, ClosedMattersRest, ClearedFinal
<1>2. ASSUME NEW n, NEW f, MonthUnlocked(f.date), MatterOpen(f.client),
             NEW kind, NEW source, Posted(n, f, kind, source)
      PROVE  LockedMonthsClosed /\ ClosedMattersRest /\ ClearedFinal
  <2>1. /\ \A j \in DOMAIN ledger' \ DOMAIN ledger : j = n
        /\ ledger'[n].date = f.date /\ ledger'[n].client = f.client
        /\ \A j \in DOMAIN ledger : cashbook'[j] = cashbook[j]
    BY <1>2 DEF Posted
  <2>2. DOMAIN cashbook = DOMAIN ledger
    BY TablesAre
  <2> QED
    BY <1>2, <2>1, <2>2 DEF LockedMonthsClosed, ClosedMattersRest, ClearedFinal, MonthUnlocked, MatterOpen
<1>3. ASSUME NEW i, NEW to, ChequeSet(i, to)
      PROVE  LockedMonthsClosed /\ ClosedMattersRest /\ ClearedFinal
  <2>1. /\ ledger' = ledger /\ \A j \in DOMAIN ledger \ {i} : cashbook'[j] = cashbook[j]
        /\ cashbook'[i].status = to /\ StatusChangeAllowed(cashbook[i], to) /\ i \in DOMAIN ledger
    BY <1>3 DEF ChequeSet
  <2>2. DOMAIN cashbook = DOMAIN ledger
    BY TablesAre
  <2>3. cashbook[i].status = "Cleared" => to = "Cleared"
    BY <1>3 DEF ChequeSet, StatusChangeAllowed
  <2> QED
    BY <2>1, <2>2, <2>3 DEF LockedMonthsClosed, ClosedMattersRest, ClearedFinal
<1>4. ASSUME NEW i, NEW d, NEW n, Undone(i, d, n)
      PROVE  LockedMonthsClosed /\ ClosedMattersRest /\ ClearedFinal
  <2>1. /\ \A j \in DOMAIN ledger' \ DOMAIN ledger : j = n
        /\ ledger'[n].date = d /\ MonthUnlocked(d) /\ i \in DOMAIN ledger
        /\ ledger'[n].depth = ledger[i].depth + 1
        /\ \A j \in DOMAIN ledger : cashbook'[j].status = cashbook[j].status
    BY <1>4 DEF Undone
  <2>2. DOMAIN cashbook = DOMAIN ledger /\ ledger[i].depth \in Nat
    BY <2>1, TablesAre DEF LedgerRow
  <2>3. ledger'[n].depth # 0
    BY <2>1, <2>2
  <2> QED
    BY <2>1, <2>2, <2>3 DEF LockedMonthsClosed, ClosedMattersRest, ClearedFinal, MonthUnlocked
<1> QED
  BY <1>1, <1>2, <1>3, <1>4 DEF Booked

\* A row outside the dates counts for nothing.
LEMMA OutOfMonth ==
  ASSUME NEW C, NEW S
  PROVE  /\ \A i \in DOMAIN ledger : ledger[i].date \notin S => LedgerDelta(C, S)[i] = 0
         /\ \A i \in DOMAIN ledger' : ledger'[i].date \notin S => LedgerDelta(C, S)'[i] = 0
  BY DeltaIs

\* A write with no reversal in month m changes no row of it that counts.
LEMMA FiguresKept ==
  ASSUME BooksInv, BooksInv', Booked, NEW m \in lockedMonths,
         \A i \in DOMAIN ledger :
            MonthOf[ledger[i].date] = m /\ ~ledger[i].reversed => ~ledger'[i].reversed
  PROVE  MonthFigure(m)' = MonthFigure(m)
<1> SUFFICES ASSUME NEW S, S = {d \in Dates : MonthOf[d] = m}
             PROVE  LedgerNet(Clients, S)' = LedgerNet(Clients, S)
  BY DEF MonthFigure
<1> SUFFICES /\ DOMAIN ledger \subseteq DOMAIN ledger'
             /\ \A j \in DOMAIN ledger : LedgerDelta(Clients, S)'[j] = LedgerDelta(Clients, S)[j]
             /\ \A j \in DOMAIN ledger' \ DOMAIN ledger : LedgerDelta(Clients, S)'[j] = 0
  BY NetKept
<1>0. \A d : MonthUnlocked(d) => d \notin S
  BY DEF MonthUnlocked
<1>1. CASE UNCHANGED <<ledger, cashbook, fees>>
  BY <1>1, DeltaKept
<1>2. ASSUME NEW n, NEW f, MonthUnlocked(f.date), NEW kind, NEW source, Posted(n, f, kind, source)
      PROVE  /\ DOMAIN ledger \subseteq DOMAIN ledger'
             /\ \A j \in DOMAIN ledger : LedgerDelta(Clients, S)'[j] = LedgerDelta(Clients, S)[j]
             /\ \A j \in DOMAIN ledger' \ DOMAIN ledger : LedgerDelta(Clients, S)'[j] = 0
  <2>1. /\ DOMAIN ledger' = DOMAIN ledger \cup {n} /\ ledger'[n].date = f.date
        /\ \A j \in DOMAIN ledger : ledger'[j] = ledger[j] /\ cashbook'[j] = cashbook[j]
    BY <1>2 DEF Posted
  <2>2. LedgerDelta(Clients, S)'[n] = 0
    BY <1>0, <1>2, <2>1, OutOfMonth
  <2>3. \A j \in DOMAIN ledger : LedgerDelta(Clients, S)'[j] = LedgerDelta(Clients, S)[j]
    BY <2>1, DeltaKept
  <2> QED
    BY <2>1, <2>2, <2>3
<1>3. ASSUME NEW i, NEW to, ChequeSet(i, to)
      PROVE  /\ DOMAIN ledger \subseteq DOMAIN ledger'
             /\ \A j \in DOMAIN ledger : LedgerDelta(Clients, S)'[j] = LedgerDelta(Clients, S)[j]
             /\ \A j \in DOMAIN ledger' \ DOMAIN ledger : LedgerDelta(Clients, S)'[j] = 0
  <2>1. /\ i \in DOMAIN ledger /\ ledger' = ledger /\ MonthUnlocked(ledger[i].date)
        /\ \A j \in DOMAIN ledger \ {i} : cashbook'[j] = cashbook[j]
    BY <1>3 DEF ChequeSet
  <2>2. LedgerDelta(Clients, S)'[i] = 0 /\ LedgerDelta(Clients, S)[i] = 0
    BY <1>0, <2>1, OutOfMonth
  <2>3. \A j \in DOMAIN ledger \ {i} : LedgerDelta(Clients, S)'[j] = LedgerDelta(Clients, S)[j]
    BY <2>1, DeltaKept
  <2>4. \A j \in DOMAIN ledger : LedgerDelta(Clients, S)'[j] = LedgerDelta(Clients, S)[j]
    BY <2>2, <2>3
  <2> QED
    BY <2>1, <2>4
<1>4. ASSUME NEW i, NEW d, NEW n, Undone(i, d, n)
      PROVE  /\ DOMAIN ledger \subseteq DOMAIN ledger'
             /\ \A j \in DOMAIN ledger : LedgerDelta(Clients, S)'[j] = LedgerDelta(Clients, S)[j]
             /\ \A j \in DOMAIN ledger' \ DOMAIN ledger : LedgerDelta(Clients, S)'[j] = 0
  <2>1. /\ DOMAIN ledger' = DOMAIN ledger \cup {n} /\ ledger'[n].date = d /\ MonthUnlocked(d)
        /\ i \in DOMAIN ledger /\ ~ledger[i].reversed /\ ledger'[i].reversed
        /\ ledger'[i].date = ledger[i].date
        /\ \A j \in DOMAIN ledger \ {i} : /\ ledger'[j] = ledger[j]
                                          /\ cashbook'[j].status = cashbook[j].status
    BY <1>4 DEF Undone
  <2>2. LedgerDelta(Clients, S)'[n] = 0
    BY <1>0, <2>1, OutOfMonth
  <2>3. ledger[i].date \notin S
    BY <2>1
  <2>4. LedgerDelta(Clients, S)'[i] = 0 /\ LedgerDelta(Clients, S)[i] = 0
    BY <2>1, <2>3, OutOfMonth
  <2>5. \A j \in DOMAIN ledger \ {i} : LedgerDelta(Clients, S)'[j] = LedgerDelta(Clients, S)[j]
    BY <2>1, DeltaKept
  <2>6. \A j \in DOMAIN ledger : LedgerDelta(Clients, S)'[j] = LedgerDelta(Clients, S)[j]
    BY <2>4, <2>5
  <2> QED
    BY <2>1, <2>2, <2>6
<1> QED
  BY <1>1, <1>2, <1>3, <1>4 DEF Booked

LEMMA FiguresCaused ==
  ASSUME BooksInv, BooksInv', Booked
  PROVE  LockedFiguresCauses
  BY FiguresKept DEF LockedFiguresCauses

\* A posting changes a net by its own row.
LEMMA PostedNet ==
  ASSUME BooksInv, BooksInv', NEW n, NEW f, NEW kind, NEW source, Posted(n, f, kind, source),
         NEW C, NEW S
  PROVE  LedgerNet(C, S)' = LedgerNet(C, S) + LedgerDelta(C, S)'[n]
<1>1. /\ n \notin DOMAIN ledger /\ DOMAIN ledger' = DOMAIN ledger \cup {n}
      /\ \A j \in DOMAIN ledger : ledger'[j] = ledger[j] /\ cashbook'[j] = cashbook[j]
  BY DEF Posted
<1>2. \A j \in DOMAIN ledger : LedgerDelta(C, S)'[j] = LedgerDelta(C, S)[j]
  BY <1>1, DeltaKept
<1> QED
  BY <1>1, <1>2, NetAdds

\* The fee that is written was funded when it is written.
LEMMA FeeCovered ==
  ASSUME BooksInv, BooksInv', AllChecked, NEW w \in Workers, Step(w), Alone(w)
  PROVE  FeeTransferFunded
<1> SUFFICES ASSUME NEW v \in Workers, NEW f \in FeeForms, At(v, "fee", "write"),
                    req[v].form = f, Finished(v), ledger' # ledger
             PROVE  LedgerNet({f.client}, UpTo(f.date))' >= 0
  BY DEF FeeTransferFunded
<1>1. v = w
  BY NoReqIs DEF Alone, Idle, At
<1>2. FeeWrite(w)
  BY <1>1 DEF At, vars, tables, Step, Post, PostBegin, PostMonth, PostRefused, PostWrite,
     TransferFee, FeeBegin, FeeFunds, FeeMonth, UpdateCheque, ChequeBegin, ChequeMonth,
     ChequeWrite, Reverse, ReverseBegin, ReverseRead, ReverseWrite, Administer, CloseBegin,
     CloseWrite, Reopen, LockMonth, UnlockMonth, Abort, Proceed
<1> SUFFICES ASSUME NEW n, n = Len(ledger) + 1,
                    NEW C, C = {f.client}, NEW S, S = UpTo(f.date)
             PROVE  LedgerNet(C, S)' >= 0
  OBVIOUS
<1>3. Posted(n, f, "Payment", "Other") /\ FeeFunded(f)
  <2>1. Checked(w) /\ f = req[w].form
    BY <1>1 DEF AllChecked
  <2> QED
    BY <1>2, <2>1, FeeWriteIs
<1>4. /\ n \notin DOMAIN ledger /\ DOMAIN ledger' = DOMAIN ledger \cup {n}
      /\ f.amount \in Nat /\ ledger'[n].amount = f.amount /\ ledger'[n].kind = "Payment"
      /\ \A j \in DOMAIN ledger : ledger'[j] = ledger[j] /\ cashbook'[j] = cashbook[j]
  BY <1>3 DEF Posted, Amounts
<1>5. LedgerNet(C, S)' = LedgerNet(C, S) + LedgerDelta(C, S)'[n]
  BY <1>3, PostedNet
<1>6. LedgerDelta(C, S)'[n] = 0 \/ LedgerDelta(C, S)'[n] = -f.amount
  <2>1. Sign("Payment") * f.amount = -f.amount
    BY <1>4, SignInt
  <2> QED
    BY <1>4, <2>1, DeltaIs
<1>7. LedgerNet(C, S) >= f.amount /\ LedgerNet(C, S) \in Int
  BY <1>3, NetsAre DEF FeeFunded, NetsSum
<1> QED
  BY <1>4, <1>5, <1>6, <1>7

-----------------------------------------------------------------------------
(* The posting that a row goes back to.                                     *)
(* Origin is defined by recursion over the rows: each row's parent is       *)
(* before it.                                                               *)

IsRoot(L, g) == g = [i \in DOMAIN L |-> IF L[i].parent = 0 THEN i ELSE g[L[i].parent]]

Root(L) == CHOOSE g : IsRoot(L, g)

Rooted(L, n) ==
    /\ n \in Nat /\ DOMAIN L = 1..n
    /\ \A i \in 1..n : L[i].parent # 0 => L[i].parent \in 1..(i - 1)

\* By induction over the rows, such a function exists and is unfolded.
LEMMA RootIs ==
  ASSUME NEW L, NEW n, Rooted(L, n)
  PROVE  \A i \in 1..n : Root(L)[i] = IF L[i].parent = 0 THEN i ELSE Root(L)[L[i].parent]
<1> DEFINE Has(k) == \E g : g = [i \in 1..k |-> IF L[i].parent = 0 THEN i ELSE g[L[i].parent]]
           N == {k \in Nat : k <= n => Has(k)}
<1>1. n \in Nat /\ DOMAIN L = 1..n
      /\ \A i \in 1..n : L[i].parent # 0 => L[i].parent \in 1..(i - 1)
  BY DEF Rooted
<1>2. 0 \in N
  <2> DEFINE g == [i \in 1..0 |-> 0]
  <2>1. g = [i \in 1..0 |-> IF L[i].parent = 0 THEN i ELSE g[L[i].parent]]
    OBVIOUS
  <2> QED
    BY <2>1
<1>3. ASSUME NEW k \in Nat, k \in N, k + 1 <= n PROVE Has(k + 1)
  <2>1. PICK g : g = [i \in 1..k |-> IF L[i].parent = 0 THEN i ELSE g[L[i].parent]]
    BY <1>1, <1>3
  <2> DEFINE top == IF L[k + 1].parent = 0 THEN k + 1 ELSE g[L[k + 1].parent]
             h == [i \in 1..(k + 1) |-> IF i = k + 1 THEN top ELSE g[i]]
  <2>2. \A i \in 1..k : h[i] = g[i]
    BY <1>3
  <2>3. ASSUME NEW i \in 1..(k + 1)
        PROVE  h[i] = IF L[i].parent = 0 THEN i ELSE h[L[i].parent]
    <3>1. L[i].parent # 0 => L[i].parent \in 1..k /\ L[i].parent \in 1..(i - 1)
      BY <1>1, <1>3
    <3>2. CASE i = k + 1
      BY <2>2, <3>1, <3>2
    <3>3. CASE i # k + 1
      <4>1. i \in 1..k
        BY <1>3, <3>3
      <4>2. g[i] = IF L[i].parent = 0 THEN i ELSE g[L[i].parent]
        BY <2>1, <4>1, Zenon
      <4> QED
        BY <2>2, <3>1, <4>1, <4>2
    <3> QED
      BY <3>2, <3>3
  <2>4. h = [i \in 1..(k + 1) |-> IF L[i].parent = 0 THEN i ELSE h[L[i].parent]]
    <3>1. h = [i \in 1..(k + 1) |-> h[i]]
      OBVIOUS
    <3> HIDE DEF h
    <3> QED
      BY <2>3, <3>1
  <2> HIDE DEF h
  <2> QED
    BY <2>4
<1> HIDE DEF Has
<1>4. \A k \in Nat : k \in N => k + 1 \in N
  BY <1>3
<1>5. Has(n)
  <2> HIDE DEF N
  <2>1. Nat \subseteq N
    BY <1>2, <1>4, NumberInduction
  <2> QED
    BY <1>1, <2>1 DEF N
<1>6. IsRoot(L, Root(L))
  <2>1. \E g : IsRoot(L, g)
    BY <1>1, <1>5 DEF Has, IsRoot
  <2> QED
    BY <2>1, Zenon DEF Root
<1>7. ASSUME NEW g, IsRoot(L, g), NEW i \in 1..n
      PROVE  g[i] = IF L[i].parent = 0 THEN i ELSE g[L[i].parent]
  <2>1. g = [k \in 1..n |-> IF L[k].parent = 0 THEN k ELSE g[L[k].parent]]
    BY <1>1, <1>7 DEF IsRoot
  <2> QED
    BY <2>1, Zenon
<1> QED
  BY <1>6, <1>7

\* Rows that are added leave the roots of the others.
LEMMA RootKept ==
  ASSUME NEW L, NEW n, Rooted(L, n), NEW M, NEW m, Rooted(M, m), n <= m,
         \A i \in 1..n : M[i].parent = L[i].parent
  PROVE  \A i \in 1..n : Root(M)[i] = Root(L)[i]
<1> DEFINE N == {k \in Nat : \A i \in 1..n : i <= k => Root(M)[i] = Root(L)[i]}
<1>1. /\ n \in Nat /\ m \in Nat
      /\ \A i \in 1..n : L[i].parent # 0 => L[i].parent \in 1..(i - 1)
  BY DEF Rooted
<1>2. 0 \in N
  OBVIOUS
<1>3. ASSUME NEW k \in Nat, k \in N PROVE k + 1 \in N
  <2> SUFFICES ASSUME NEW i \in 1..n, i = k + 1 PROVE Root(M)[i] = Root(L)[i]
    BY <1>3
  <2>1. i \in 1..m
    BY <1>1
  <2>2. /\ Root(M)[i] = IF M[i].parent = 0 THEN i ELSE Root(M)[M[i].parent]
        /\ Root(L)[i] = IF L[i].parent = 0 THEN i ELSE Root(L)[L[i].parent]
    BY <2>1, RootIs
  <2>3. L[i].parent # 0 => Root(M)[L[i].parent] = Root(L)[L[i].parent]
    BY <1>1, <1>3
  <2> QED
    BY <2>2, <2>3
<1>4. Nat \subseteq N
  BY <1>2, <1>3, NumberInduction
<1>5. \A i \in 1..n : i \in Nat /\ i <= i
  BY <1>1
<1> QED
  BY <1>4, <1>5

LEMMA OriginRoot == Origin = Root(ledger)
  BY Zenon DEF Origin, Root, IsRoot

LEMMA OriginRootNext == (Origin = Root(ledger))'
<1>1. Origin = Root(ledger)
  BY OriginRoot
<1> QED
  BY <1>1, PTL

LEMMA LedgerRooted == BooksInv /\ ChainSound => Rooted(ledger, Len(ledger))
<1> SUFFICES ASSUME BooksInv, ChainSound PROVE Rooted(ledger, Len(ledger))
  OBVIOUS
<1>1. DOMAIN ledger = 1..Len(ledger) /\ Len(ledger) \in Nat
  BY TablesAre
<1>2. \A i \in DOMAIN ledger : ledger[i].parent # 0 => ledger[i].parent \in 1..(i - 1)
  BY ChainSoundIs DEF Undoes
<1> QED
  BY <1>1, <1>2 DEF Rooted

LEMMA LedgerRootedNext == (BooksInv /\ ChainSound => Rooted(ledger, Len(ledger)))'
<1>1. BooksInv /\ ChainSound => Rooted(ledger, Len(ledger))
  BY LedgerRooted
<1> QED
  BY <1>1, PTL

\* What Origin is of every row.
LEMMA OriginIs ==
  BooksInv /\ ChainSound =>
     \A i \in DOMAIN ledger :
        Origin[i] = IF ledger[i].parent = 0 THEN i ELSE Origin[ledger[i].parent]
<1> SUFFICES ASSUME BooksInv, ChainSound, NEW i \in DOMAIN ledger
             PROVE  Origin[i] = IF ledger[i].parent = 0 THEN i ELSE Origin[ledger[i].parent]
  OBVIOUS
<1>1. i \in 1..Len(ledger) /\ Rooted(ledger, Len(ledger))
  BY TablesAre, LedgerRooted
<1>2. Root(ledger)[i] = IF ledger[i].parent = 0 THEN i ELSE Root(ledger)[ledger[i].parent]
  BY <1>1, RootIs
<1> QED
  BY <1>2, OriginRoot

LEMMA OriginIsNext ==
  (BooksInv /\ ChainSound =>
     \A i \in DOMAIN ledger :
        Origin[i] = IF ledger[i].parent = 0 THEN i ELSE Origin[ledger[i].parent])'
<1>1. BooksInv /\ ChainSound =>
        \A i \in DOMAIN ledger :
           Origin[i] = IF ledger[i].parent = 0 THEN i ELSE Origin[ledger[i].parent]
  BY OriginIs
<1> QED
  BY <1>1, PTL

LEMMA OriginKept ==
  ASSUME BooksInv, ChainSound, BooksInv', ChainSound', DOMAIN ledger \subseteq DOMAIN ledger',
         \A i \in DOMAIN ledger : ledger'[i].parent = ledger[i].parent
  PROVE  \A i \in DOMAIN ledger : Origin'[i] = Origin[i]
<1>1. Rooted(ledger, Len(ledger)) /\ Rooted(ledger', Len(ledger'))
  BY LedgerRooted, LedgerRootedNext
<1>2. DOMAIN ledger = 1..Len(ledger) /\ DOMAIN ledger' = 1..Len(ledger')
      /\ Len(ledger) \in Nat /\ Len(ledger') \in Nat
  BY <1>1 DEF Rooted
<1>3. Len(ledger) <= Len(ledger')
  BY <1>2
<1> QED
  BY <1>1, <1>2, <1>3, RootKept, OriginRoot, OriginRootNext

\* The row that a posting began with: of the same client, sum and sort, its
\* direction turned at each depth.
Kin(i) ==
    /\ Origin[i] \in DOMAIN ledger
    /\ ledger[Origin[i]].depth = 0
    /\ ledger[i].client = ledger[Origin[i]].client
    /\ ledger[i].amount = ledger[Origin[i]].amount
    /\ IsFee(i) <=> IsFee(Origin[i])
    /\ Sign(ledger[i].kind) = IF ledger[i].depth % 2 = 0 THEN Sign(ledger[Origin[i]].kind)
                                                         ELSE -Sign(ledger[Origin[i]].kind)

\* By the chains' soundness, a row is its posting's up to sign.
LEMMA Kindred ==
  ASSUME BooksInv, ChainSound, FeesFollowLedger, DepthParent
  PROVE  \A i \in DOMAIN ledger : Kin(i)
<1> DEFINE N == {k \in Nat : \A i \in DOMAIN ledger : i <= k => Kin(i)}
<1>1. DOMAIN ledger = 1..Len(ledger) /\ Len(ledger) \in Nat
  BY TablesAre
<1>2. 0 \in N
  BY <1>1
<1>3. ASSUME NEW k \in Nat, k \in N PROVE k + 1 \in N
  <2> SUFFICES ASSUME NEW i \in DOMAIN ledger, i = k + 1 PROVE Kin(i)
    BY <1>1, <1>3
  <2>1. ledger[i].depth \in Nat
    BY TablesAre DEF LedgerRow
  <2>2. CASE ledger[i].parent = 0
    <3>1. Origin[i] = i
      BY <2>2, OriginIs
    <3>2. ledger[i].depth = 0 /\ 0 % 2 = 0
      BY <2>2 DEF DepthParent
    <3> QED
      BY <3>1, <3>2 DEF Kin
  <2>3. CASE ledger[i].parent # 0
    <3> SUFFICES ASSUME NEW p, p = ledger[i].parent PROVE Kin(i)
      OBVIOUS
    <3>1. /\ p \in 1..(i - 1) /\ ledger[i].client = ledger[p].client
          /\ ledger[i].amount = ledger[p].amount /\ ledger[i].kind = Opposite(ledger[p].kind)
          /\ ledger[i].depth = ledger[p].depth + 1
      BY <2>3, ChainSoundIs DEF Undoes
    <3>2. p \in DOMAIN ledger /\ p <= k
      BY <1>1, <1>3, <3>1
    <3>3. Kin(p)
      BY <1>3, <3>2
    <3>4. Origin[i] = Origin[p]
      BY <2>3, OriginIs
    <3>5. IsFee(i) <=> IsFee(p)
      BY <2>3, FeesFollowLedgerIs
    <3>6. /\ Sign(Opposite(ledger[p].kind)) = -Sign(ledger[p].kind) /\ Sign(ledger[p].kind) \in Int
          /\ Sign(ledger[Origin[p]].kind) \in Int
      BY DEF Sign, Opposite
    <3>7. ledger[p].depth \in Nat
      BY <3>2, TablesAre DEF LedgerRow
    <3>8. ledger[i].depth % 2 = 0 <=> ledger[p].depth % 2 # 0
      BY <3>1, <3>7
    <3>9. Sign(ledger[i].kind) = IF ledger[i].depth % 2 = 0 THEN Sign(ledger[Origin[p]].kind)
                                                           ELSE -Sign(ledger[Origin[p]].kind)
      BY <3>1, <3>3, <3>6, <3>8 DEF Kin
    <3> QED
      BY <3>1, <3>3, <3>4, <3>5, <3>9 DEF Kin
  <2> QED
    BY <2>2, <2>3
<1>4. \A k \in Nat : k \in N => k + 1 \in N
  BY <1>3
<1>5. Nat \subseteq N
  <2> HIDE DEF N
  <2> QED
    BY <1>2, <1>4, NumberInduction
<1>6. \A i \in DOMAIN ledger : i \in Nat /\ i <= i
  BY <1>1
<1> QED
  BY <1>5, <1>6

\* What a row adds to the books of its client, in terms of its posting.
LEMMA CountedSum ==
  ASSUME BooksInv, ChainSound, FeesFollowLedger, DepthParent, NEW i \in DOMAIN ledger
  PROVE  LedgerDelta(Clients, Dates)[i] =
            IF LedgerCounts(i) THEN Sign(ledger[Origin[i]].kind) * ledger[Origin[i]].amount ELSE 0
<1>1. ledger[i].client \in Clients /\ ledger[i].date \in Dates
  BY TablesAre DEF LedgerRow
<1>2. LedgerCounts(i) => ledger[i].depth % 2 = 0
  BY CountsAre
<1>3. Kin(i)
  BY Kindred
<1>4. LedgerCounts(i) => Sign(ledger[i].kind) = Sign(ledger[Origin[i]].kind)
                         /\ ledger[i].amount = ledger[Origin[i]].amount
  BY <1>2, <1>3 DEF Kin
<1> QED
  BY <1>1, <1>4, DeltaIs

\* Of the rows of a posting at most one is not REVERSED.
OneTip ==
    \A i, j \in DOMAIN ledger :
        ~ledger[i].reversed /\ ~ledger[j].reversed /\ Origin[i] = Origin[j] => i = j

\* No write moves an old row to another posting.
LEMMA OriginOld ==
  ASSUME BooksInv, ChainSound, BooksInv', ChainSound', Booked
  PROVE  /\ DOMAIN ledger \subseteq DOMAIN ledger'
         /\ \A i \in DOMAIN ledger : Origin'[i] = Origin[i]
<1> SUFFICES /\ DOMAIN ledger \subseteq DOMAIN ledger'
             /\ \A i \in DOMAIN ledger : ledger'[i].parent = ledger[i].parent
  BY OriginKept
<1>1. CASE UNCHANGED <<ledger, cashbook, fees>>
  BY <1>1
<1>2. ASSUME NEW n, NEW f, NEW kind, NEW source, Posted(n, f, kind, source)
      PROVE  /\ DOMAIN ledger \subseteq DOMAIN ledger'
             /\ \A i \in DOMAIN ledger : ledger'[i].parent = ledger[i].parent
  BY <1>2 DEF Posted
<1>3. ASSUME NEW i, NEW to, ChequeSet(i, to) PROVE ledger' = ledger
  BY <1>3 DEF ChequeSet
<1>4. ASSUME NEW i, NEW d, NEW n, Undone(i, d, n)
      PROVE  /\ DOMAIN ledger \subseteq DOMAIN ledger'
             /\ \A j \in DOMAIN ledger : ledger'[j].parent = ledger[j].parent
  BY <1>4 DEF Undone
<1> QED
  BY <1>1, <1>2, <1>3, <1>4 DEF Booked

\* A new posting is its own origin; a leg belongs to the posting it undoes.
LEMMA OriginNew ==
  ASSUME BooksInv, ChainSound, BooksInv', ChainSound', Booked
  PROVE  /\ \A n, f, kind, source : Posted(n, f, kind, source) => Origin'[n] = n
         /\ \A i, d, n : Undone(i, d, n) => Origin'[n] = Origin[i]
<1>1. ASSUME NEW n, NEW f, NEW kind, NEW source, Posted(n, f, kind, source) PROVE Origin'[n] = n
  <2>1. n \in DOMAIN ledger' /\ ledger'[n].parent = 0
    BY <1>1 DEF Posted
  <2> QED
    BY <2>1, OriginIsNext
<1>2. ASSUME NEW i, NEW d, NEW n, Undone(i, d, n) PROVE Origin'[n] = Origin[i]
  <2>1. n \in DOMAIN ledger' /\ ledger'[n].parent = i /\ i # 0 /\ i \in DOMAIN ledger
    BY <1>2 DEF Undone
  <2>2. Origin'[n] = Origin'[i]
    BY <2>1, OriginIsNext
  <2> QED
    BY <2>1, <2>2, OriginOld
<1> QED
  BY <1>1, <1>2

\* A posting has one row that is not reversed: a new row is of a new posting,
\* or undoes that one.
LEMMA OneTipStep ==
  ASSUME BooksInv, ChainSound, FeesFollowLedger, DepthParent, BooksInv', ChainSound', OneTip, Booked
  PROVE  OneTip'
<1>0. \A i \in DOMAIN ledger : Origin'[i] = Origin[i]
  BY OriginOld
<1>1. CASE ledger' = ledger
  BY <1>0, <1>1 DEF OneTip
<1>2. ASSUME NEW n, NEW f, NEW kind, NEW source, Posted(n, f, kind, source) PROVE OneTip'
  <2>1. /\ DOMAIN ledger' = DOMAIN ledger \cup {n} /\ n \notin DOMAIN ledger
        /\ \A j \in DOMAIN ledger : ledger'[j] = ledger[j]
    BY <1>2 DEF Posted
  <2>2. Origin'[n] = n
    BY <1>2, OriginNew
  <2>3. \A j \in DOMAIN ledger : Origin[j] \in DOMAIN ledger
    BY Kindred DEF Kin
  <2> QED
    BY <1>0, <2>1, <2>2, <2>3 DEF OneTip
<1>3. ASSUME NEW i, NEW d, NEW n, Undone(i, d, n) PROVE OneTip'
  <2>1. /\ DOMAIN ledger' = DOMAIN ledger \cup {n} /\ n \notin DOMAIN ledger /\ i \in DOMAIN ledger
        /\ \A j \in DOMAIN ledger \ {i} : ledger'[j] = ledger[j]
        /\ ~ledger[i].reversed /\ ledger'[i].reversed
    BY <1>3 DEF Undone
  <2>2. Origin'[n] = Origin[i]
    BY <1>3, OriginNew
  <2>3. \A j \in DOMAIN ledger : ~ledger'[j].reversed => Origin[j] # Origin[i]
    BY <2>1 DEF OneTip
  <2>4. \A j, k \in DOMAIN ledger : ~ledger'[j].reversed /\ ~ledger'[k].reversed
                                    /\ Origin[j] = Origin[k] => j = k
    BY <2>1 DEF OneTip
  <2> QED
    BY <1>0, <2>1, <2>2, <2>3, <2>4 DEF OneTip
<1>4. ASSUME NEW i, NEW to, ChequeSet(i, to) PROVE ledger' = ledger
  BY <1>4 DEF ChequeSet
<1> QED
  BY <1>1, <1>2, <1>3, <1>4 DEF Booked

\* The books hold all of a posting while one of its rows counts, and else nothing.
HeldOf(o) == SumFunctionOnSet(LedgerDelta(Clients, Dates), Legs(o))

CountedNow(o) == \E i \in Legs(o) : LedgerCounts(i)

\* The rows of a posting that do not count add nothing.
LEMMA HeldIs ==
  ASSUME BooksInv, ChainSound, FeesFollowLedger, DepthParent, OneTip, NEW o
  PROVE  /\ CountedNow(o) => HeldOf(o) = Sign(ledger[o].kind) * ledger[o].amount
         /\ ~CountedNow(o) => HeldOf(o) = 0
<1> SUFFICES ASSUME NEW D, D = LedgerDelta(Clients, Dates), NEW L, L = Legs(o)
             PROVE  /\ CountedNow(o) => SumFunctionOnSet(D, L) = Sign(ledger[o].kind) * ledger[o].amount
                    /\ ~CountedNow(o) => SumFunctionOnSet(D, L) = 0
  BY DEF HeldOf
<1>1. L \subseteq DOMAIN ledger /\ IsFiniteSet(L) /\ (\A i \in L : D[i] \in Int)
  <2>1. L \subseteq DOMAIN ledger
    BY DEF Legs
  <2> QED
    BY <2>1, NetsAre, FS_Subset DEF NetsSum
<1>2. \A i \in L : ~LedgerCounts(i) => D[i] = 0
  BY <1>1, CountedSum
<1>3. CASE ~CountedNow(o)
  <2>1. \A i \in L \ {} : D[i] = 0
    BY <1>2, <1>3 DEF CountedNow
  <2>2. SumFunctionOnSet(D, L) = SumFunctionOnSet(D, {})
    BY <1>1, <2>1, SumSupport
  <2> QED
    BY <1>3, <2>2, SumEmpty
<1>4. CASE CountedNow(o)
  <2>1. PICK i \in L : LedgerCounts(i)
    BY <1>4 DEF CountedNow
  <2>2. i \in DOMAIN ledger /\ Origin[i] = o
    BY <2>1 DEF Legs
  <2>3. ~ledger[i].reversed
    BY <2>1, <2>2, CountsAre
  <2>4. \A j \in L \ {i} : D[j] = 0
    <3> SUFFICES ASSUME NEW j \in L, j # i PROVE ~LedgerCounts(j)
      BY <1>2
    <3>1. j \in DOMAIN ledger /\ Origin[j] = o
      BY DEF Legs
    <3> QED
      BY <2>2, <2>3, <3>1, CountsAre DEF OneTip
  <2>5. SumFunctionOnSet(D, L) = SumFunctionOnSet(D, {i})
    BY <1>1, <2>1, <2>4, SumSupport
  <2>6. SumFunctionOnSet(D, {} \cup {i}) = D[i] + SumFunctionOnSet(D, {})
    BY <1>1, <2>1, SumAdd, FS_EmptySet
  <2>7. SumFunctionOnSet(D, {i}) = D[i]
    <3>1. {} \cup {i} = {i} /\ D[i] \in Int
      BY <1>1, <2>1
    <3> QED
      BY <2>6, <3>1, SumEmpty
  <2>8. D[i] = Sign(ledger[o].kind) * ledger[o].amount
    BY <2>1, <2>2, CountedSum
  <2> QED
    BY <1>4, <2>5, <2>7, <2>8
<1> QED
  BY <1>3, <1>4
-----------------------------------------------------------------------------
(* The office's fees of a set of rows against what the books hold of them.  *)

FeesOn(K) == {f \in fees : f.link \in K}

FeeRowsOn(K) == {i \in K : IsFee(i)}

FeeSum(K) == SumFunctionOnSet([f \in fees |-> f.amount], FeesOn(K))

FeeHeld(K) == SumFunctionOnSet(LedgerDelta(Clients, Dates), FeeRowsOn(K))

Balanced(K) == FeeSum(K) = -FeeHeld(K)

\* What the fees rest on.
FeesInv == /\ BooksInv /\ ChainSound /\ FeesFollowLedger /\ DepthParent
           /\ FeeRowsCleared /\ IsFiniteSet(fees)

\* A fee is known by its row.
LEMMA FeeOnce ==
  ASSUME BooksInv, FeesFollowLedger
  PROVE  \A f, g \in fees : f.link = g.link => f = g
<1> SUFFICES ASSUME NEW f \in fees, NEW g \in fees, f.link = g.link PROVE f = g
  OBVIOUS
<1>1. f \in FeeRow /\ g \in FeeRow
  BY DEF BooksInv, TypeOK
<1>2. f.client = g.client /\ f.date = g.date /\ f.amount = g.amount
  BY FeesFollowLedgerIs DEF Mirrors
<1> QED
  BY <1>1, <1>2 DEF FeeRow

\* A reversal takes back the fee of its row, if there is one.
LEMMA UndoneFee ==
  ASSUME BooksInv, FeesFollowLedger, NEW i, NEW d, NEW n, Undone(i, d, n)
  PROVE  /\ ~IsFee(i) => fees' = fees
         /\ IsFee(i) => \E g \in fees : g.link = i /\ fees' = fees \cup {TakenBack(g, d, n)}
<1>1. fees' = fees \cup {TakenBack(g, d, n) : g \in {g \in fees : g.link = i}}
  BY DEF Undone
<1>2. CASE ~IsFee(i)
  BY <1>1, <1>2 DEF IsFee
<1>3. CASE IsFee(i)
  <2>1. PICK g \in fees : g.link = i
    BY <1>3 DEF IsFee
  <2>2. {h \in fees : h.link = i} = {g}
    BY <2>1, FeeOnce
  <2>3. fees' = fees \cup {TakenBack(g, d, n)}
    BY <1>1, <2>2
  <2> QED
    BY <1>3, <2>1, <2>3
<1> QED
  BY <1>2, <1>3

\* Writes add finitely many fees.
LEMMA FeesFiniteStep ==
  ASSUME BooksInv, FeesFollowLedger, IsFiniteSet(fees), Booked
  PROVE  IsFiniteSet(fees')
<1>1. ASSUME NEW i, NEW d, NEW n, Undone(i, d, n) PROVE IsFiniteSet(fees')
  BY <1>1, UndoneFee, FS_AddElement
<1>2. ASSUME NEW i, NEW to, ChequeSet(i, to) PROVE IsFiniteSet(fees')
  BY <1>2 DEF ChequeSet
<1> QED
  BY <1>1, <1>2, FS_AddElement DEF Booked

\* The sums are over finite sets of whole numbers.
LEMMA FeesAre ==
  FeesInv =>
     /\ \A f \in fees : f.link \in DOMAIN ledger /\ f.amount \in Int
     /\ \A K : /\ IsFiniteSet(FeesOn(K)) /\ FeesOn(K) \subseteq fees
               /\ FeeSum(K) \in Int
               /\ K \subseteq DOMAIN ledger =>
                     /\ IsFiniteSet(FeeRowsOn(K)) /\ FeeRowsOn(K) \subseteq DOMAIN ledger
                     /\ FeeHeld(K) \in Int
<1> SUFFICES ASSUME FeesInv
             PROVE  /\ \A f \in fees : f.link \in DOMAIN ledger /\ f.amount \in Int
                    /\ \A K : /\ IsFiniteSet(FeesOn(K)) /\ FeesOn(K) \subseteq fees
                              /\ FeeSum(K) \in Int
                              /\ K \subseteq DOMAIN ledger =>
                                    /\ IsFiniteSet(FeeRowsOn(K)) /\ FeeRowsOn(K) \subseteq DOMAIN ledger
                                    /\ FeeHeld(K) \in Int
  OBVIOUS
<1>1. \A f \in fees : f.link \in DOMAIN ledger /\ f.amount \in Int
  BY FeesFollowLedgerIs DEF FeesInv, Mirrors, BooksInv, TypeOK, FeeRow
<1>2. ASSUME NEW K
      PROVE  IsFiniteSet(FeesOn(K)) /\ FeesOn(K) \subseteq fees /\ FeeSum(K) \in Int
  <2> DEFINE A == [f \in fees |-> f.amount]
  <2>1. FeesOn(K) \subseteq fees
    BY DEF FeesOn
  <2>2. IsFiniteSet(FeesOn(K))
    BY <2>1, FS_Subset DEF FeesInv
  <2>3. \A f \in FeesOn(K) : A[f] \in Int
    BY <1>1, <2>1
  <2>4. FeeSum(K) = SumFunctionOnSet(A, FeesOn(K))
    BY DEF FeeSum
  <2> HIDE DEF A
  <2> QED
    BY <2>1, <2>2, <2>3, <2>4, SumParts
<1>3. ASSUME NEW K, K \subseteq DOMAIN ledger
      PROVE  /\ IsFiniteSet(FeeRowsOn(K)) /\ FeeRowsOn(K) \subseteq DOMAIN ledger
             /\ FeeHeld(K) \in Int
  <2>1. FeeRowsOn(K) \subseteq DOMAIN ledger
    BY <1>3 DEF FeeRowsOn
  <2>2. IsFiniteSet(FeeRowsOn(K)) /\ \A i \in FeeRowsOn(K) : LedgerDelta(Clients, Dates)[i] \in Int
    BY <2>1, NetsAre, FS_Subset DEF FeesInv, NetsSum
  <2> QED
    BY <2>1, <2>2, SumParts DEF FeeHeld
<1> QED
  BY <1>1, <1>2, <1>3

LEMMA FeesAreNext ==
  (FeesInv =>
     /\ \A f \in fees : f.link \in DOMAIN ledger /\ f.amount \in Int
     /\ \A K : /\ IsFiniteSet(FeesOn(K)) /\ FeesOn(K) \subseteq fees
               /\ FeeSum(K) \in Int
               /\ K \subseteq DOMAIN ledger =>
                     /\ IsFiniteSet(FeeRowsOn(K)) /\ FeeRowsOn(K) \subseteq DOMAIN ledger
                     /\ FeeHeld(K) \in Int)'
<1>1. FeesInv =>
     /\ \A f \in fees : f.link \in DOMAIN ledger /\ f.amount \in Int
     /\ \A K : /\ IsFiniteSet(FeesOn(K)) /\ FeesOn(K) \subseteq fees
               /\ FeeSum(K) \in Int
               /\ K \subseteq DOMAIN ledger =>
                     /\ IsFiniteSet(FeeRowsOn(K)) /\ FeeRowsOn(K) \subseteq DOMAIN ledger
                     /\ FeeHeld(K) \in Int
  BY FeesAre
<1> QED
  BY <1>1, PTL

\* The same fees have the same sum.
LEMMA FeeSumSame ==
  ASSUME FeesInv, FeesInv', NEW K, NEW L, FeesOn(L)' = FeesOn(K)
  PROVE  FeeSum(L)' = FeeSum(K)
<1> DEFINE A == [f \in fees |-> f.amount]
           B == [f \in fees' |-> f.amount]
           F == FeesOn(K)
<1>1. FeeSum(K) = SumFunctionOnSet(A, F) /\ FeeSum(L)' = SumFunctionOnSet(B, F)
  BY DEF FeeSum
<1>2. F \subseteq fees /\ F \subseteq fees' /\ IsFiniteSet(F)
  BY FeesAre, FeesAreNext
<1>3. \A f \in F : A[f] \in Int /\ B[f] = A[f]
  BY <1>2, FeesAre
<1> HIDE DEF A, B, F
<1> QED
  BY <1>1, <1>2, <1>3, SumSame

\* One fee more adds its amount.
LEMMA FeeSumAdds ==
  ASSUME FeesInv, FeesInv', NEW K, NEW L, NEW h, h \notin FeesOn(K),
         FeesOn(L)' = FeesOn(K) \cup {h}
  PROVE  FeeSum(L)' = FeeSum(K) + h.amount
<1> DEFINE A == [f \in fees |-> f.amount]
           B == [f \in fees' |-> f.amount]
           F == FeesOn(K)
<1>1. FeeSum(K) = SumFunctionOnSet(A, F) /\ FeeSum(L)' = SumFunctionOnSet(B, F \cup {h})
  BY DEF FeeSum
<1>2. F \subseteq fees /\ F \cup {h} \subseteq fees' /\ IsFiniteSet(F) /\ h \notin F
  BY FeesAre, FeesAreNext
<1>3. (\A f \in F : A[f] \in Int /\ B[f] = A[f]) /\ B[h] = h.amount /\ h.amount \in Int
  BY <1>2, FeesAre, FeesAreNext
<1> HIDE DEF A, B, F
<1>4. SumFunctionOnSet(B, F) = SumFunctionOnSet(A, F)
  BY <1>2, <1>3, SumSame
<1>5. \A f \in F \cup {h} : B[f] \in Int
  BY <1>3
<1>6. SumFunctionOnSet(B, F \cup {h}) = B[h] + SumFunctionOnSet(B, F)
  BY <1>2, <1>5, SumAdd
<1>7. FeeSum(K) \in Int
  BY FeesAre
<1> QED
  BY <1>1, <1>3, <1>4, <1>6, <1>7

\* The same of what the books hold.
LEMMA FeeHeldSame ==
  ASSUME FeesInv, FeesInv', NEW K, NEW L, K \subseteq DOMAIN ledger, FeeRowsOn(L)' = FeeRowsOn(K),
         \A i \in FeeRowsOn(K) : LedgerDelta(Clients, Dates)'[i] = LedgerDelta(Clients, Dates)[i]
  PROVE  FeeHeld(L)' = FeeHeld(K)
<1> DEFINE D == LedgerDelta(Clients, Dates)
           E == LedgerDelta(Clients, Dates)'
           F == FeeRowsOn(K)
<1>1. FeeHeld(K) = SumFunctionOnSet(D, F) /\ FeeHeld(L)' = SumFunctionOnSet(E, F)
  BY DEF FeeHeld
<1>2. IsFiniteSet(F) /\ \A i \in F : D[i] \in Int
  BY FeesAre, NetsAre DEF FeesInv, NetsSum
<1>3. \A i \in F : E[i] = D[i]
  OBVIOUS
<1> HIDE DEF D, E, F
<1> QED
  BY <1>1, <1>2, <1>3, SumSame

\* A new row adds to what the books hold.
LEMMA HeldAdds ==
  ASSUME FeesInv, FeesInv', NEW K, NEW L, K \subseteq DOMAIN ledger, NEW n, n \notin DOMAIN ledger,
         n \in DOMAIN ledger', FeeRowsOn(L)' = FeeRowsOn(K) \cup {n},
         \A i \in FeeRowsOn(K) : LedgerDelta(Clients, Dates)'[i] = LedgerDelta(Clients, Dates)[i]
  PROVE  FeeHeld(L)' = FeeHeld(K) + LedgerDelta(Clients, Dates)'[n]
<1> DEFINE D == LedgerDelta(Clients, Dates)
           E == LedgerDelta(Clients, Dates)'
           F == FeeRowsOn(K)
<1>1. FeeHeld(K) = SumFunctionOnSet(D, F) /\ FeeHeld(L)' = SumFunctionOnSet(E, F \cup {n})
  BY DEF FeeHeld
<1>2. IsFiniteSet(F) /\ F \subseteq DOMAIN ledger /\ (\A i \in F : D[i] \in Int) /\ n \notin F
  BY FeesAre, NetsAre DEF FeesInv, NetsSum
<1>3. (\A i \in F : E[i] = D[i]) /\ E[n] \in Int
  BY NetsNext DEF FeesInv, NetsSum
<1>4. FeeHeld(K) \in Int
  BY FeesAre
<1> HIDE DEF D, E, F
<1>5. SumFunctionOnSet(E, F) = SumFunctionOnSet(D, F)
  BY <1>2, <1>3, SumSame
<1>6. \A i \in F \cup {n} : E[i] \in Int
  BY <1>2, <1>3
<1>7. SumFunctionOnSet(E, F \cup {n}) = E[n] + SumFunctionOnSet(E, F)
  BY <1>2, <1>6, SumAdd
<1> QED
  BY <1>1, <1>3, <1>4, <1>5, <1>7 DEF E

\* The office and the books stay even: K are rows before a step and L are the
\* same rows after it, with the leg of a row among them.
LEMMA BalancedPosted ==
  ASSUME FeesInv, FeesInv', NEW K, NEW L, Balanced(K), K \subseteq DOMAIN ledger,
         L \subseteq DOMAIN ledger', L \cap DOMAIN ledger = K,
         NEW n, NEW f, NEW kind, NEW source, Posted(n, f, kind, source), fees' = fees
  PROVE  Balanced(L)'
<1>1. /\ n \notin DOMAIN ledger /\ DOMAIN ledger' = DOMAIN ledger \cup {n}
      /\ \A j \in DOMAIN ledger : ledger'[j] = ledger[j] /\ cashbook'[j] = cashbook[j]
  BY DEF Posted
<1>2. \A g \in fees : g.link \in DOMAIN ledger
  BY FeesAre
<1>3. FeesOn(L)' = FeesOn(K)
  BY <1>1, <1>2 DEF FeesOn
<1>4. FeeRowsOn(L)' = FeeRowsOn(K)
  BY <1>1, <1>2 DEF FeeRowsOn, IsFee
<1>5. \A i \in DOMAIN ledger : LedgerDelta(Clients, Dates)'[i] = LedgerDelta(Clients, Dates)[i]
  BY <1>1, DeltaKept DEF FeesInv
<1>6. \A i \in FeeRowsOn(K) : LedgerDelta(Clients, Dates)'[i] = LedgerDelta(Clients, Dates)[i]
  BY <1>5 DEF FeeRowsOn
<1>7. FeeSum(L)' = FeeSum(K)
  BY <1>3, FeeSumSame
<1>8. FeeHeld(L)' = FeeHeld(K)
  BY <1>4, <1>6, FeeHeldSame
<1> QED
  BY <1>7, <1>8 DEF Balanced

\* A fee moves the same sum out of the client's books and into the office's.
LEMMA BalancedFee ==
  ASSUME FeesInv, FeesInv', NEW K, NEW L, Balanced(K), K \subseteq DOMAIN ledger,
         L \subseteq DOMAIN ledger', L \cap DOMAIN ledger = K,
         NEW n, NEW f, Posted(n, f, "Payment", "Other"), fees' = fees \cup {FeeOf(n, f)}
  PROVE  Balanced(L)'
<1>1. /\ n \notin DOMAIN ledger /\ DOMAIN ledger' = DOMAIN ledger \cup {n}
      /\ \A j \in DOMAIN ledger : ledger'[j] = ledger[j] /\ cashbook'[j] = cashbook[j]
      /\ f.client \in Clients /\ f.date \in Dates /\ f.amount \in Nat
      /\ ledger'[n].client = f.client /\ ledger'[n].date = f.date /\ ledger'[n].amount = f.amount
      /\ ledger'[n].kind = "Payment" /\ ~ledger'[n].reversed /\ ledger'[n].depth = 0
      /\ cashbook'[n].status = "Cleared"
  BY DEF Posted, Amounts
<1>2. \A g \in fees : g.link \in DOMAIN ledger
  BY FeesAre
<1>3. FeeOf(n, f).link = n /\ FeeOf(n, f).amount = f.amount
  BY DEF FeeOf
<1>5. \A i \in DOMAIN ledger : LedgerDelta(Clients, Dates)'[i] = LedgerDelta(Clients, Dates)[i]
  BY <1>1, DeltaKept DEF FeesInv
<1>6. \A i \in FeeRowsOn(K) : LedgerDelta(Clients, Dates)'[i] = LedgerDelta(Clients, Dates)[i]
  BY <1>5 DEF FeeRowsOn
<1>7. CASE n \notin L
  <2>1. FeesOn(L)' = FeesOn(K)
    BY <1>1, <1>2, <1>3, <1>7 DEF FeesOn
  <2>2. FeeRowsOn(L)' = FeeRowsOn(K)
    BY <1>1, <1>2, <1>3, <1>7 DEF FeeRowsOn, IsFee
  <2>3. FeeSum(L)' = FeeSum(K)
    BY <2>1, FeeSumSame
  <2>4. FeeHeld(L)' = FeeHeld(K)
    BY <1>6, <2>2, FeeHeldSame
  <2> QED
    BY <2>3, <2>4 DEF Balanced
<1>8. CASE n \in L
  <2>1. FeesOn(L)' = FeesOn(K) \cup {FeeOf(n, f)}
    BY <1>1, <1>2, <1>3, <1>8 DEF FeesOn
  <2>2. FeeRowsOn(L)' = FeeRowsOn(K) \cup {n}
    BY <1>1, <1>2, <1>3, <1>8 DEF FeeRowsOn, IsFee
  <2>3. FeeSum(L)' = FeeSum(K) + f.amount
    <3>1. FeeOf(n, f) \notin FeesOn(K)
      BY <1>1, <1>2, <1>3 DEF FeesOn
    <3> QED
      BY <1>3, <2>1, <3>1, FeeSumAdds
  <2>4. LedgerDelta(Clients, Dates)'[n] = -f.amount
    <3>1. LedgerCounts(n)'
      <4>1. 0 % 2 = 0
        OBVIOUS
      <4> QED
        BY <1>1, <4>1, CountsAre DEF FeesInv
    <3>2. Sign("Payment") * f.amount = -f.amount
      BY <1>1, SignInt
    <3> QED
      BY <1>1, <3>1, <3>2, DeltaIs
  <2>5. FeeHeld(L)' = FeeHeld(K) + LedgerDelta(Clients, Dates)'[n]
    BY <1>1, <1>6, <2>2, HeldAdds
  <2>6. FeeSum(K) \in Int /\ FeeHeld(K) \in Int
    BY FeesAre
  <2> QED
    BY <1>1, <2>3, <2>4, <2>5, <2>6 DEF Balanced
<1> QED
  BY <1>7, <1>8

\* No cheque's row is a fee's.
LEMMA BalancedCheque ==
  ASSUME FeesInv, FeesInv', NEW K, NEW L, Balanced(K), K \subseteq DOMAIN ledger,
         L \subseteq DOMAIN ledger', L \cap DOMAIN ledger = K,
         NEW i, NEW to, ChequeSet(i, to)
  PROVE  Balanced(L)'
<1>1. /\ i \in DOMAIN ledger /\ ledger' = ledger /\ fees' = fees
      /\ cashbook[i].source = "Cheque"
      /\ \A j \in DOMAIN ledger \ {i} : cashbook'[j] = cashbook[j]
  BY DEF ChequeSet, StatusChangeAllowed
<1>2. \A j \in FeeRowsOn(K) : j \in DOMAIN ledger /\ j # i
  BY <1>1 DEF FeeRowsOn, IsFee, FeesInv, FeeRowsCleared
<1>3. FeesOn(L)' = FeesOn(K) /\ FeeRowsOn(L)' = FeeRowsOn(K)
  BY <1>1 DEF FeesOn, FeeRowsOn, IsFee
<1>4. \A j \in FeeRowsOn(K) : LedgerDelta(Clients, Dates)'[j] = LedgerDelta(Clients, Dates)[j]
  BY <1>1, <1>2, DeltaKept DEF FeesInv
<1>5. FeeSum(L)' = FeeSum(K)
  BY <1>3, FeeSumSame
<1>6. FeeHeld(L)' = FeeHeld(K)
  BY <1>3, <1>4, FeeHeldSame
<1> QED
  BY <1>5, <1>6 DEF Balanced

\* What the reversal of a fee's row changes of what the books hold of fees.
LEMMA HeldTurns ==
  ASSUME FeesInv, FeesInv', NEW K, NEW L, K \subseteq DOMAIN ledger, NEW n, n \notin DOMAIN ledger,
         n \in DOMAIN ledger', FeeRowsOn(L)' = FeeRowsOn(K) \cup {n}, NEW i \in FeeRowsOn(K),
         \A j \in FeeRowsOn(K) \ {i} :
            LedgerDelta(Clients, Dates)'[j] = LedgerDelta(Clients, Dates)[j],
         LedgerDelta(Clients, Dates)'[i] = 0, DOMAIN ledger \subseteq DOMAIN ledger'
  PROVE  FeeHeld(L)' = FeeHeld(K) - LedgerDelta(Clients, Dates)[i] + LedgerDelta(Clients, Dates)'[n]
<1> DEFINE D == LedgerDelta(Clients, Dates)
           E == LedgerDelta(Clients, Dates)'
           F == FeeRowsOn(K)
<1>1. FeeHeld(K) = SumFunctionOnSet(D, F) /\ FeeHeld(L)' = SumFunctionOnSet(E, F \cup {n})
  BY DEF FeeHeld
<1>2. IsFiniteSet(F) /\ F \subseteq DOMAIN ledger /\ (\A j \in F : D[j] \in Int) /\ n \notin F
  BY FeesAre, NetsAre DEF FeesInv, NetsSum
<1>3. \A j \in F \cup {n} : E[j] \in Int
  BY <1>2, NetsNext DEF FeesInv, NetsSum
<1>4. FeeHeld(K) \in Int
  BY FeesAre
<1>5. i \in F /\ \A j \in F \ {i} : E[j] = D[j]
  OBVIOUS
<1>9. E[i] = 0
  OBVIOUS
<1> HIDE DEF D, E, F
<1>6. SumFunctionOnSet(E, F) = SumFunctionOnSet(D, F) - D[i] + E[i]
  <2>1. \A j \in F : D[j] \in Int /\ E[j] \in Int
    BY <1>2, <1>3
  <2> QED
    BY <1>2, <1>5, <2>1, SumChange
<1>7. SumFunctionOnSet(E, F \cup {n}) = E[n] + SumFunctionOnSet(E, F)
  BY <1>2, <1>3, SumAdd
<1>8. FeeHeld(L)' = FeeHeld(K) - D[i] + E[n]
  BY <1>1, <1>2, <1>3, <1>4, <1>5, <1>6, <1>7, <1>9
<1> QED
  BY <1>8 DEF D, E

\* A reversal takes the fee back in both.
LEMMA BalancedUndone ==
  ASSUME FeesInv, FeesInv', NEW K, NEW L, Balanced(K), K \subseteq DOMAIN ledger,
         L \subseteq DOMAIN ledger', L \cap DOMAIN ledger = K,
         NEW i, NEW d, NEW n, Undone(i, d, n), n \in L <=> i \in K
  PROVE  Balanced(L)'
<1>1. /\ n \notin DOMAIN ledger /\ DOMAIN ledger' = DOMAIN ledger \cup {n} /\ i \in DOMAIN ledger
      /\ \A j \in DOMAIN ledger \ {i} : ledger'[j] = ledger[j]
                                        /\ cashbook'[j].status = cashbook[j].status
      /\ ~ledger[i].reversed /\ ledger'[i].reversed
      /\ ~ledger'[n].reversed /\ ledger'[n].depth = ledger[i].depth + 1
      /\ ledger'[n].client = ledger[i].client /\ ledger'[n].amount = ledger[i].amount
      /\ ledger'[n].kind = Opposite(ledger[i].kind) /\ ledger'[n].date = d /\ d \in Dates
      /\ cashbook'[n].status = "Cleared"
  BY DEF Undone
<1>2. \A g \in fees : g.link \in DOMAIN ledger
  BY FeesAre
<1>3. \A j \in DOMAIN ledger \ {i} :
         LedgerDelta(Clients, Dates)'[j] = LedgerDelta(Clients, Dates)[j]
  BY <1>1, DeltaKept DEF FeesInv
<1>4. CASE ~IsFee(i)
  <2>1. fees' = fees
    BY <1>4, UndoneFee DEF FeesInv
  <2>2. FeesOn(L)' = FeesOn(K)
    BY <1>1, <1>2, <2>1 DEF FeesOn
  <2>3. FeeRowsOn(L)' = FeeRowsOn(K)
    BY <1>1, <1>2, <2>1 DEF FeeRowsOn, IsFee
  <2>4. \A j \in FeeRowsOn(K) : LedgerDelta(Clients, Dates)'[j] = LedgerDelta(Clients, Dates)[j]
    BY <1>3, <1>4 DEF FeeRowsOn
  <2>5. FeeSum(L)' = FeeSum(K)
    BY <2>2, FeeSumSame
  <2>6. FeeHeld(L)' = FeeHeld(K)
    BY <2>3, <2>4, FeeHeldSame
  <2> QED
    BY <2>5, <2>6 DEF Balanced
<1>5. CASE IsFee(i)
  <2>1. PICK g \in fees : g.link = i /\ fees' = fees \cup {TakenBack(g, d, n)}
    BY <1>5, UndoneFee DEF FeesInv
  <2>2. TakenBack(g, d, n).link = n /\ TakenBack(g, d, n).amount = -g.amount
    BY DEF TakenBack
  <2>3. CASE i \notin K
    <3>1. FeesOn(L)' = FeesOn(K)
      BY <1>1, <1>2, <2>1, <2>2, <2>3 DEF FeesOn
    <3>2. FeeRowsOn(L)' = FeeRowsOn(K)
      BY <1>1, <1>2, <2>1, <2>2, <2>3 DEF FeeRowsOn, IsFee
    <3>3. \A j \in FeeRowsOn(K) : LedgerDelta(Clients, Dates)'[j] = LedgerDelta(Clients, Dates)[j]
      BY <1>3, <2>3 DEF FeeRowsOn
    <3>4. FeeSum(L)' = FeeSum(K)
      BY <3>1, FeeSumSame
    <3>5. FeeHeld(L)' = FeeHeld(K)
      BY <3>2, <3>3, FeeHeldSame
    <3> QED
      BY <3>4, <3>5 DEF Balanced
  <2>4. CASE i \in K
    <3>1. FeesOn(L)' = FeesOn(K) \cup {TakenBack(g, d, n)}
      BY <1>1, <1>2, <2>1, <2>2, <2>4 DEF FeesOn
    <3>2. FeeRowsOn(L)' = FeeRowsOn(K) \cup {n}
      BY <1>1, <1>2, <2>1, <2>2, <2>4 DEF FeeRowsOn, IsFee
    <3>3. i \in FeeRowsOn(K)
      BY <1>5, <2>4 DEF FeeRowsOn
    <3>4. FeeSum(L)' = FeeSum(K) - g.amount
      <4>1. TakenBack(g, d, n) \notin FeesOn(K)
        BY <1>1, <1>2, <2>2 DEF FeesOn
      <4>2. FeeSum(L)' = FeeSum(K) + TakenBack(g, d, n).amount
        BY <3>1, <4>1, FeeSumAdds
      <4>3. FeeSum(K) \in Int /\ g.amount \in Int
        BY <2>1, FeesAre
      <4> QED
        BY <2>2, <4>2, <4>3
    <3>5. LedgerDelta(Clients, Dates)'[i] = 0
      <4>1. ~LedgerCounts(i)'
        BY <1>1, CountsAre DEF FeesInv
      <4> QED
        BY <1>1, <4>1, DeltaIs
    <3>6. FeeHeld(L)' = FeeHeld(K) - LedgerDelta(Clients, Dates)[i] + LedgerDelta(Clients, Dates)'[n]
      <4>1. \A j \in FeeRowsOn(K) \ {i} :
               LedgerDelta(Clients, Dates)'[j] = LedgerDelta(Clients, Dates)[j]
        BY <1>3 DEF FeeRowsOn
      <4> QED
        BY <1>1, <3>2, <3>3, <3>5, <4>1, HeldTurns
    <3>7. LedgerDelta(Clients, Dates)'[n] - LedgerDelta(Clients, Dates)[i] = g.amount
      <4> DEFINE s == Sign(ledger[i].kind) * ledger[i].amount
      <4>1. ledger[i].client \in Clients /\ ledger[i].date \in Dates /\ ledger[i].amount \in Int
            /\ ledger[i].depth \in Nat
        BY <1>1, TablesAre DEF LedgerRow, Amounts, FeesInv
      <4>2. g.amount = -s /\ s \in Int /\ Sign(Opposite(ledger[i].kind)) * ledger[i].amount = -s
        <5>1. g.amount = -Sign(ledger[i].kind) * ledger[i].amount
          BY <2>1, FeesFollowLedgerIs DEF Mirrors, FeesInv
        <5> QED
          BY <4>1, <5>1 DEF Sign, Opposite
      <4>3. cashbook[i].status = "Cleared"
        BY <2>1 DEF FeesInv, FeeRowsCleared
      <4>4. LedgerCounts(i) <=> ledger[i].depth % 2 = 0
        BY <1>1, <4>3, CountsAre DEF FeesInv
      <4>5. LedgerCounts(n)' <=> (ledger[i].depth + 1) % 2 = 0
        BY <1>1, CountsAre DEF FeesInv
      <4>6. LedgerCounts(n)' <=> ~LedgerCounts(i)
        BY <4>1, <4>4, <4>5
      <4>7. LedgerDelta(Clients, Dates)[i] = IF LedgerCounts(i) THEN s ELSE 0
        BY <1>1, <4>1, DeltaIs
      <4>8. LedgerDelta(Clients, Dates)'[n] = IF LedgerCounts(n)' THEN -s ELSE 0
        BY <1>1, <4>1, <4>2, DeltaIs
      <4> HIDE DEF s
      <4> QED
        BY <4>2, <4>6, <4>7, <4>8
    <3>8. FeeSum(K) \in Int /\ FeeHeld(K) \in Int /\ LedgerDelta(Clients, Dates)[i] \in Int
          /\ LedgerDelta(Clients, Dates)'[n] \in Int /\ g.amount \in Int
      BY <1>1, <2>1, FeesAre, NetsAre, NetsNext DEF FeesInv, NetsSum
    <3>9. FeeHeld(L)' = FeeHeld(K) + g.amount
      BY <3>6, <3>7, <3>8
    <3> QED
      BY <3>4, <3>8, <3>9 DEF Balanced
  <2> QED
    BY <2>3, <2>4
<1> QED
  BY <1>4, <1>5

\* Nothing changes.
LEMMA BalancedSame ==
  ASSUME NEW K, Balanced(K), UNCHANGED <<ledger, cashbook, fees>>
  PROVE  Balanced(K)'
<1>1. LedgerDelta(Clients, Dates)' = LedgerDelta(Clients, Dates)
  BY DEF LedgerDelta, LedgerCounts, Active
<1> QED
  BY <1>1 DEF Balanced, FeeSum, FeeHeld, FeesOn, FeeRowsOn, IsFee

\* All writes.
LEMMA BalancedStep ==
  ASSUME FeesInv, FeesInv', Booked, NEW K, NEW L, Balanced(K), K \subseteq DOMAIN ledger,
         L \subseteq DOMAIN ledger', L \cap DOMAIN ledger = K,
         \A i, d, n : Undone(i, d, n) => (n \in L <=> i \in K)
  PROVE  Balanced(L)'
<1>1. CASE UNCHANGED <<ledger, cashbook, fees>>
  <2>1. K = L
    BY <1>1
  <2> QED
    BY <1>1, <2>1, BalancedSame
<1>2. ASSUME NEW n, NEW f, Posted(n, f, f.kind, f.source), fees' = fees PROVE Balanced(L)'
  BY <1>2, BalancedPosted
<1>3. ASSUME NEW n, NEW f, Posted(n, f, "Payment", "Other"), fees' = fees \cup {FeeOf(n, f)}
      PROVE  Balanced(L)'
  BY <1>3, BalancedFee
<1>4. ASSUME NEW i, NEW to, ChequeSet(i, to) PROVE Balanced(L)'
  BY <1>4, BalancedCheque
<1>5. ASSUME NEW i, NEW d, NEW n, Undone(i, d, n) PROVE Balanced(L)'
  BY <1>5, BalancedUndone
<1> QED
  BY <1>1, <1>2, <1>3, <1>4, <1>5 DEF Booked

RowsOf(c) == {i \in DOMAIN ledger : ledger[i].client = c}

AllBalanced ==
    /\ \A c \in Clients : Balanced(RowsOf(c))
    /\ \A o \in DOMAIN ledger : Balanced(Legs(o))

LEMMA BalancedNone == Balanced({})
<1>1. FeesOn({}) = {} /\ FeeRowsOn({}) = {}
  BY DEF FeesOn, FeeRowsOn
<1>2. FeeSum({}) = 0 /\ FeeHeld({}) = 0
  BY <1>1, SumEmpty DEF FeeSum, FeeHeld
<1> QED
  BY <1>2 DEF Balanced

\* For every posting and every client.
LEMMA AllBalancedStep ==
  ASSUME FeesInv, FeesInv', Booked, AllBalanced
  PROVE  AllBalanced'
<1>0. /\ DOMAIN ledger \subseteq DOMAIN ledger'
      /\ \A i \in DOMAIN ledger : Origin'[i] = Origin[i]
      /\ \A i, d, n : Undone(i, d, n) => Origin'[n] = Origin[i]
  BY OriginOld, OriginNew DEF FeesInv
<1>1. ASSUME NEW c \in Clients PROVE Balanced(RowsOf(c))'
  <2> SUFFICES ASSUME NEW L, L = RowsOf(c)', NEW K, K = RowsOf(c) PROVE Balanced(L)'
    BY DEF Balanced, FeeSum, FeeHeld, FeesOn, FeeRowsOn
  <2>1. Balanced(K) /\ K \subseteq DOMAIN ledger /\ L \subseteq DOMAIN ledger'
    BY DEF AllBalanced, RowsOf
  <2>2. L \cap DOMAIN ledger = K
    <3>1. \A i \in DOMAIN ledger : ledger'[i].client = ledger[i].client
      BY ZenonT(30) DEF Booked, Posted, ChequeSet, Undone
    <3> QED
      BY <1>0, <3>1 DEF RowsOf
  <2>3. \A i, d, n : Undone(i, d, n) => (n \in L <=> i \in K)
    BY DEF Undone, RowsOf
  <2> QED
    BY <2>1, <2>2, <2>3, BalancedStep
<1>2. ASSUME NEW o \in DOMAIN ledger' PROVE Balanced(Legs(o))'
  <2> SUFFICES ASSUME NEW L, L = Legs(o)', NEW K, K = Legs(o) PROVE Balanced(L)'
    BY DEF Balanced, FeeSum, FeeHeld, FeesOn, FeeRowsOn
  <2>1. K \subseteq DOMAIN ledger /\ L \subseteq DOMAIN ledger'
    BY DEF Legs
  <2>2. L \cap DOMAIN ledger = K
    BY <1>0 DEF Legs
  <2>3. \A i, d, n : Undone(i, d, n) => (n \in L <=> i \in K)
    BY <1>0 DEF Undone, Legs
  <2>4. Balanced(K)
    <3>1. CASE o \in DOMAIN ledger
      BY <3>1 DEF AllBalanced
    <3>2. CASE o \notin DOMAIN ledger
      <4>1. K = {}
        BY <3>2, Kindred DEF Kin, Legs, FeesInv
      <4> QED
        BY <4>1, BalancedNone
    <3> QED
      BY <3>1, <3>2
  <2> QED
    BY <2>1, <2>2, <2>3, <2>4, BalancedStep
<1> QED
  BY <1>1, <1>2 DEF AllBalanced

\* The fees that the office counts are those that the client's rows earned.
LEMMA BalancedMatch ==
  ASSUME FeesInv, AllBalanced
  PROVE  FeesMatch
<1> SUFFICES ASSUME NEW c \in Clients PROVE FeeIncome(c) = FeesEarned(c)
  BY DEF FeesMatch
<1> DEFINE K == RowsOf(c)
           A == [f \in fees |-> f.amount]
           B == [f \in {f \in fees : f.client = c} |-> f.amount]
           D == LedgerDelta(Clients, Dates)
           E == [i \in {f.link : f \in {f \in fees : f.client = c}} |-> -LedgerDelta({c}, Dates)[i]]
<1>1. K \subseteq DOMAIN ledger
  BY DEF RowsOf
<1>2. \A f \in fees : f.link \in DOMAIN ledger /\ f.client = ledger[f.link].client
  BY FeesFollowLedgerIs DEF FeesInv, Mirrors
<1>3. FeesOn(K) = {f \in fees : f.client = c}
  BY <1>2 DEF FeesOn, RowsOf
<1>4. FeeRowsOn(K) = {f.link : f \in {f \in fees : f.client = c}}
  BY <1>2 DEF FeeRowsOn, IsFee, RowsOf
<1>5. FeeIncome(c) = FeeSum(K)
  <2>1. FeeIncome(c) = SumFunctionOnSet(B, FeesOn(K))
    <3>1. FeeIncome(c) = SumFunctionOnSet(B, DOMAIN B)
      BY Zenon DEF FeeIncome, SumFunction
    <3>2. DOMAIN B = FeesOn(K)
      BY <1>3
    <3> HIDE DEF B, K
    <3> QED
      BY <3>1, <3>2
  <2>2. \A f \in FeesOn(K) : A[f] \in Int /\ B[f] = A[f]
    BY <1>3, FeesAre
  <2>3. IsFiniteSet(FeesOn(K)) /\ FeeSum(K) = SumFunctionOnSet(A, FeesOn(K))
    BY FeesAre DEF FeeSum
  <2> HIDE DEF A, B, K
  <2> QED
    BY <2>1, <2>2, <2>3, SumSame
<1>6. FeesEarned(c) = -FeeHeld(K)
  <2>1. FeesEarned(c) = SumFunctionOnSet(E, FeeRowsOn(K))
    <3>1. FeesEarned(c) = SumFunctionOnSet(E, DOMAIN E)
      BY Zenon DEF FeesEarned, SumFunction
    <3>2. DOMAIN E = FeeRowsOn(K)
      BY <1>4
    <3> HIDE DEF E, K
    <3> QED
      BY <3>1, <3>2
  <2>2. \A i \in FeeRowsOn(K) : D[i] \in Int /\ E[i] = -D[i]
    <3> SUFFICES ASSUME NEW i \in FeeRowsOn(K) PROVE D[i] \in Int /\ E[i] = -D[i]
      OBVIOUS
    <3>1. i \in DOMAIN ledger /\ ledger[i].client = c
      BY DEF FeeRowsOn, RowsOf
    <3>2. LedgerDelta({c}, Dates)[i] = D[i]
      BY <3>1, DeltaIs
    <3>3. E[i] = -LedgerDelta({c}, Dates)[i]
      BY <1>4
    <3>4. D[i] \in Int
      BY <3>1, NetsAre DEF FeesInv, NetsSum
    <3> QED
      BY <3>2, <3>3, <3>4
  <2>3. IsFiniteSet(FeeRowsOn(K)) /\ FeeHeld(K) = SumFunctionOnSet(D, FeeRowsOn(K))
    BY <1>1, FeesAre DEF FeeHeld
  <2> HIDE DEF D, E, K
  <2> QED
    BY <2>1, <2>2, <2>3, SumNegate
<1> QED
  BY <1>5, <1>6 DEF AllBalanced, Balanced
-----------------------------------------------------------------------------
(* The inductive invariant of one request at a time.                        *)

SerialInv ==
    /\ ChainInv /\ AllChecked
    /\ DepthParent /\ ReversedOnce /\ OneTip
    /\ FeeRowsCleared /\ IsFiniteSet(fees) /\ AllBalanced

SerialNext == \E w \in Workers : Step(w) /\ Alone(w)

\* It holds initially,
LEMMA SerialInit == Init => SerialInv
<1> SUFFICES ASSUME Init PROVE SerialInv
  OBVIOUS
<1>1. ChainInv
  BY InitInv, ChainInit DEF ChainInv
<1>2. AllChecked
  BY NoReqIs DEF Init, AllChecked, Checked
<1>3. DOMAIN ledger = {} /\ fees = {}
  BY DEF Init
<1>4. AllBalanced
  <2>1. \A c \in Clients : RowsOf(c) = {}
    BY <1>3 DEF RowsOf
  <2> QED
    BY <1>3, <2>1, BalancedNone DEF AllBalanced
<1> QED
  BY <1>1, <1>2, <1>3, <1>4, FS_EmptySet DEF SerialInv, DepthParent, ReversedOnce, OneTip,
     FeeRowsCleared

\* What every step makes of the books.
LEMMA SerialBooks ==
  ASSUME SerialInv, [SerialNext]_vars
  PROVE  Booked /\ ChainInv'
<1>1. CASE UNCHANGED vars
  <2>1. Booked
    BY <1>1 DEF Booked, vars
  <2>2. ChainInv'
    BY <1>1, ChainStep DEF SerialInv
  <2> QED
    BY <2>1, <2>2
<1>2. ASSUME NEW w \in Workers, Step(w) PROVE Booked /\ ChainInv'
  <2>1. BooksInv /\ AllChecked /\ ChainInv
    BY DEF SerialInv, ChainInv
  <2>2. Booked
    BY <1>2, <2>1, StepBooked
  <2>3. ChainInv'
    BY <1>2, <2>1, ChainStep DEF Next
  <2> QED
    BY <2>2, <2>3
<1> QED
  BY <1>1, <1>2 DEF SerialNext

LEMMA CheckedSame ==
  ASSUME AllChecked, UNCHANGED vars
  PROVE  AllChecked'
  BY DEF vars, AllChecked, Checked, MatterOpen, MonthUnlocked, FeeFunded, LedgerNet, LedgerDelta,
     LedgerCounts, Active, StatusChangeAllowed

\* is kept by every step,
LEMMA SerialStep == SerialInv /\ [SerialNext]_vars => SerialInv'
<1> SUFFICES ASSUME SerialInv, [SerialNext]_vars PROVE SerialInv'
  OBVIOUS
<1>1. Booked /\ ChainInv' /\ BooksInv' /\ ChainSound' /\ FeesFollowLedger'
  BY SerialBooks DEF ChainInv
<1>2. /\ BooksInv /\ ChainSound /\ FeesFollowLedger /\ AllChecked /\ DepthParent /\ ReversedOnce
      /\ OneTip /\ FeeRowsCleared /\ IsFiniteSet(fees) /\ AllBalanced
  BY DEF SerialInv, ChainInv
<1>3. AllChecked'
  BY <1>2, CheckedStep, CheckedSame DEF SerialNext
<1>4. DepthParent' /\ ReversedOnce' /\ FeeRowsCleared' /\ IsFiniteSet(fees')
  BY <1>1, <1>2, DepthParentStep, ReversedOnceStep, FeeRowsStep, FeesFiniteStep
<1>5. OneTip'
  BY <1>1, <1>2, OneTipStep
<1>6. FeesInv /\ FeesInv'
  BY <1>1, <1>2, <1>4 DEF FeesInv
<1>7. AllBalanced'
  BY <1>1, <1>2, <1>6, AllBalancedStep
<1> QED
  BY <1>1, <1>3, <1>4, <1>5, <1>7 DEF SerialInv

\* and so always holds.
LEMMA SerialAlways == SerialSpec => []SerialInv
  BY SerialInit, SerialStep, PTL DEF SerialSpec, SerialNext

\* It says that nothing counts twice,
LEMMA SerialOnce == SerialInv => ReversedOnce /\ FeesMatch
<1> SUFFICES ASSUME SerialInv PROVE ReversedOnce /\ FeesMatch
  OBVIOUS
<1>1. FeesInv /\ AllBalanced /\ ReversedOnce
  BY DEF SerialInv, ChainInv, FeesInv
<1> QED
  BY <1>1, BalancedMatch

Promises == /\ LockedMonthsClosed /\ LockedFiguresCauses
            /\ ClosedMattersRest /\ ClearedFinal /\ FeeTransferFunded

\* and that each step keeps its promises.
LEMMA SerialPromises ==
  ASSUME SerialInv, SerialNext
  PROVE  Promises
<1>1. BooksInv /\ BooksInv' /\ AllChecked /\ Booked
  BY SerialBooks DEF SerialInv, ChainInv
<1>2. LockedMonthsClosed /\ ClosedMattersRest /\ ClearedFinal
  BY <1>1, RowsOfUnlocked
<1>3. LockedFiguresCauses
  BY <1>1, FiguresCaused
<1>4. FeeTransferFunded
  BY <1>1, FeeCovered DEF SerialNext
<1> QED
  BY <1>2, <1>3, <1>4 DEF Promises

\* Served one at a time, requests never reverse a row twice, and the office's
\* fees are what the clients' books show as paid: the tests for REVERSED and
\* for an even depth, in both queries, keep every posting from counting twice
\* (reverse_ledger_transaction, get_office_balance).
THEOREM CountedOnce == SerialSpec => [](ReversedOnce /\ FeesMatch)
  BY SerialAlways, SerialOnce, PTL

\* Served one at a time, a request does what its checks promise, though it
\* checks and writes in different transactions: no row enters a locked month
\* or a closed matter, the figures of a locked month move only when one of its
\* rows is reversed, a cleared row stays cleared, and a fee is covered by the
\* client's balance at its date (create_ledger_and_cashbook_transaction,
\* create_transfer_fee_to_office, update_cashbook_status,
\* reverse_ledger_transaction).
THEOREM ChecksHold ==
  SerialSpec => [][/\ LockedMonthsClosed /\ LockedFiguresCauses
                   /\ ClosedMattersRest /\ ClearedFinal /\ FeeTransferFunded]_vars
<1>1. SerialInv /\ [SerialNext]_vars => [Promises]_vars
  BY SerialPromises
<1> QED
  BY <1>1, SerialAlways, PTL DEF SerialSpec, SerialNext, Promises
-----------------------------------------------------------------------------
(* The refinement.                                                          *)

SumOf(o) == Sign(ledger[o].kind) * ledger[o].amount

\* A posting, by its first row, its fee and whether it counts.
Portrait(o) ==
    [client |-> ledger[o].client,
     sum    |-> SumOf(o),
     isFee  |-> IsFee(o),
     held   |-> IF CountedNow(o) THEN SumOf(o) ELSE 0,
     office |-> IF IsFee(o) /\ CountedNow(o) THEN -SumOf(o) ELSE 0]

PostingIds == {i \in DOMAIN ledger : ledger[i].depth = 0}

\* The office's side of a posting, as a sum over its legs.
LEMMA OfficeIs ==
  ASSUME SerialInv, NEW o \in DOMAIN ledger
  PROVE  SumFunction([f \in {f \in fees : f.link \in Legs(o)} |-> f.amount]) = FeeSum(Legs(o))
<1> SUFFICES ASSUME NEW K, K = Legs(o)
             PROVE  SumFunction([f \in {f \in fees : f.link \in K} |-> f.amount]) = FeeSum(K)
  OBVIOUS
<1> DEFINE A == [f \in fees |-> f.amount]
           B == [f \in {f \in fees : f.link \in K} |-> f.amount]
<1>1. SumFunction(B) = SumFunctionOnSet(B, FeesOn(K))
  <2>1. SumFunction(B) = SumFunctionOnSet(B, DOMAIN B)
    BY Zenon DEF SumFunction
  <2>2. DOMAIN B = FeesOn(K)
    BY DEF FeesOn
  <2> HIDE DEF B
  <2> QED
    BY <2>1, <2>2
<1>2. FeesInv
  BY DEF SerialInv, ChainInv, FeesInv
<1>3. \A f \in FeesOn(K) : A[f] \in Int /\ B[f] = A[f]
  BY <1>2, FeesAre DEF FeesOn
<1>4. IsFiniteSet(FeesOn(K)) /\ FeeSum(K) = SumFunctionOnSet(A, FeesOn(K))
  BY <1>2, FeesAre DEF FeeSum
<1> HIDE DEF A, B
<1>5. SumFunction(B) = FeeSum(K)
  BY <1>1, <1>3, <1>4, SumSame
<1> QED
  BY <1>5 DEF B

\* Every posting is settled: all of it counts or none.
LEMMA PostingIs ==
  ASSUME SerialInv, NEW o \in PostingIds
  PROVE  PostingOf(o) = Portrait(o)
<1>1. o \in DOMAIN ledger /\ ledger[o].depth = 0
  BY DEF PostingIds
<1>2. FeesInv /\ OneTip /\ Balanced(Legs(o))
  BY <1>1 DEF SerialInv, ChainInv, FeesInv, AllBalanced
<1>3. HeldOf(o) = IF CountedNow(o) THEN SumOf(o) ELSE 0
  BY <1>2, HeldIs DEF FeesInv, SumOf
<1>4. SumOf(o) \in Int
  BY <1>1, <1>2, TablesAre, SignInt DEF SumOf, LedgerRow, Amounts, FeesInv
<1>5. \A i \in Legs(o) : IsFee(i) <=> IsFee(o)
  BY <1>2, Kindred DEF Legs, Kin, FeesInv
<1>6. FeeSum(Legs(o)) = IF IsFee(o) THEN -HeldOf(o) ELSE 0
  <2>1. CASE IsFee(o)
    <3>1. FeeRowsOn(Legs(o)) = Legs(o)
      BY <1>5, <2>1 DEF FeeRowsOn
    <3>2. FeeHeld(Legs(o)) = HeldOf(o)
      BY <3>1 DEF FeeHeld, HeldOf
    <3> QED
      BY <1>2, <2>1, <3>2 DEF Balanced
  <2>2. CASE ~IsFee(o)
    <3>1. FeeRowsOn(Legs(o)) = {}
      BY <1>5, <2>2 DEF FeeRowsOn
    <3>2. FeeHeld(Legs(o)) = 0
      BY <3>1, SumEmpty DEF FeeHeld
    <3>3. FeeSum(Legs(o)) = -FeeHeld(Legs(o))
      BY <1>2 DEF Balanced
    <3>4. \A x \in Int : -x = 0 - x
      OBVIOUS
    <3>5. 0 \in Int
      OBVIOUS
    <3>6. FeeSum(Legs(o)) = 0 - FeeHeld(Legs(o))
      BY <3>2, <3>3, <3>4, <3>5, Zenon
    <3>7. FeeSum(Legs(o)) = 0
      BY <3>2, <3>6
    <3> QED
      BY <2>2, <3>7
  <2> QED
    BY <2>1, <2>2
<1>7. FeeSum(Legs(o)) = IF IsFee(o) /\ CountedNow(o) THEN -SumOf(o) ELSE 0
  BY <1>3, <1>4, <1>6
<1> QED
  BY <1>1, <1>3, <1>7, OfficeIs DEF PostingOf, Portrait, HeldOf, SumOf, IsFee

LEMMA PostingsAre ==
  SerialInv => Postings = [o \in PostingIds |-> Portrait(o)]
<1> SUFFICES ASSUME SerialInv PROVE Postings = [o \in PostingIds |-> Portrait(o)]
  OBVIOUS
<1>1. \A o \in PostingIds : PostingOf(o) = Portrait(o)
  BY PostingIs
<1> QED
  BY <1>1 DEF Postings, PostingIds

LEMMA PostingsAreNext ==
  (SerialInv => Postings = [o \in PostingIds |-> Portrait(o)])'
<1>1. SerialInv => Postings = [o \in PostingIds |-> Portrait(o)]
  BY PostingsAre
<1> QED
  BY <1>1, PTL

\* ClientMoney's turn of a posting, field by field.
LEMMA FieldsTurned ==
  ASSUME NEW C,
         NEW p \in [client : C, sum : Int, isFee : BOOLEAN, held : Int, office : Int],
         NEW q \in [client : C, sum : Int, isFee : BOOLEAN, held : Int, office : Int]
  PROVE  (/\ q.client = p.client /\ q.sum = p.sum /\ q.isFee = p.isFee
          /\ q.held = p.sum - p.held
          /\ q.office = IF p.isFee THEN -q.held ELSE 0) => q = Money!Turned(p)
<1>1. ASSUME NEW a, NEW b,
             q.client = p.client, q.sum = p.sum, q.isFee = p.isFee, q.held = a, q.office = b
      PROVE  q = [p EXCEPT !.held = a, !.office = b]
  BY <1>1
<1>2. SUFFICES ASSUME /\ q.client = p.client /\ q.sum = p.sum /\ q.isFee = p.isFee
                      /\ q.held = p.sum - p.held
                      /\ q.office = IF p.isFee THEN -q.held ELSE 0
               PROVE  q = Money!Turned(p)
  OBVIOUS
<1>3. q = [p EXCEPT !.held = q.held, !.office = q.office]
  BY <1>1, <1>2
<1> QED
  BY <1>2, <1>3, Zenon DEF Money!Turned

LEMMA TurnedIs ==
  ASSUME NEW c, NEW s \in Int, NEW fee \in BOOLEAN, NEW h \in {0, s},
         NEW p, p = [client |-> c, sum |-> s, isFee |-> fee, held |-> h,
                     office |-> IF fee THEN -h ELSE 0],
         NEW q, q = [client |-> c, sum |-> s, isFee |-> fee, held |-> s - h,
                     office |-> IF fee THEN -(s - h) ELSE 0]
  PROVE  q = Money!Turned(p)
<1> DEFINE R == [client : {c}, sum : Int, isFee : BOOLEAN, held : Int, office : Int]
<1>1. p \in R /\ q \in R
  OBVIOUS
<1>2. /\ q.client = p.client /\ q.sum = p.sum /\ q.isFee = p.isFee
      /\ q.held = p.sum - p.held
      /\ q.office = IF p.isFee THEN -q.held ELSE 0
  OBVIOUS
<1> QED
  BY <1>1, <1>2, FieldsTurned, ZenonT(30)

\* Turning a posting on or off, or leaving it.
LEMMA Turns ==
  ASSUME SerialInv, SerialInv', NEW t \in PostingIds, PostingIds' = PostingIds,
         \A o \in PostingIds : /\ ledger'[o].client = ledger[o].client
                               /\ SumOf(o)' = SumOf(o)
                               /\ IsFee(o)' = IsFee(o)
                               /\ o # t => CountedNow(o)' = CountedNow(o)
  PROVE  Money!Turn \/ UNCHANGED Postings
<1>1. /\ Postings = [o \in PostingIds |-> Portrait(o)]
      /\ Postings' = [o \in PostingIds |-> Portrait(o)']
  BY PostingsAre, PostingsAreNext
<1>2. \A o \in PostingIds : o # t => Portrait(o)' = Portrait(o)
  BY Zenon DEF Portrait
<1>3. CASE CountedNow(t)' = CountedNow(t)
  <2>1. Portrait(t)' = Portrait(t)
    BY <1>3, Zenon DEF Portrait
  <2> QED
    BY <1>1, <1>2, <2>1
<1>4. CASE CountedNow(t)' # CountedNow(t)
  <2>1. SumOf(t) \in Int
    BY TablesAre, SignInt DEF SumOf, LedgerRow, Amounts, PostingIds, SerialInv, ChainInv
  <2>2. Portrait(t)' = Money!Turned(Portrait(t))
    <3> DEFINE C == {ledger[t].client}
               R == [client : C, sum : Int, isFee : BOOLEAN, held : Int, office : Int]
    <3> SUFFICES ASSUME NEW p, p = Portrait(t), NEW q, q = Portrait(t)',
                        NEW s \in Int, s = SumOf(t), NEW fee \in BOOLEAN, fee = IsFee(t)
                 PROVE  q = Money!Turned(p)
      BY <2>1, Zenon DEF IsFee
    <3>1. CASE CountedNow(t)
      <4>1. ~CountedNow(t)'
        BY <1>4, <3>1 DEF CountedNow
      <4>2. p = [client |-> ledger[t].client, sum |-> s, isFee |-> fee, held |-> s,
                 office |-> IF fee THEN -s ELSE 0]
        BY <3>1 DEF Portrait
      <4>3. q = [client |-> ledger[t].client, sum |-> s, isFee |-> fee, held |-> 0,
                 office |-> 0]
        BY <4>1, Zenon DEF Portrait
      <4> QED
        BY <4>2, <4>3, TurnedIs
    <3>2. CASE ~CountedNow(t)
      <4>1. CountedNow(t)'
        BY <1>4, <3>2 DEF CountedNow
      <4>2. p = [client |-> ledger[t].client, sum |-> s, isFee |-> fee, held |-> 0, office |-> 0]
        <5>1. p = [client |-> ledger[t].client, sum |-> s, isFee |-> fee, held |-> 0,
                   office |-> IF fee /\ FALSE THEN -s ELSE 0]
          BY <3>2, Zenon DEF Portrait
        <5> QED
          BY <5>1
      <4>3. q = [client |-> ledger[t].client, sum |-> s, isFee |-> fee, held |-> s,
                 office |-> IF fee THEN -s ELSE 0]
        BY <4>1, Zenon DEF Portrait
      <4> QED
        BY <4>2, <4>3, TurnedIs
    <3> QED
      BY <3>1, <3>2
  <2>3. t \in DOMAIN Postings /\ Postings' = [Postings EXCEPT ![t] = Money!Turned(Postings[t])]
    BY <1>1, <1>2, <2>2
  <2> QED
    BY <2>3 DEF Money!Turn
<1> QED
  BY <1>3, <1>4

LEMMA TablesNext == (BooksInv => \A i \in DOMAIN ledger : ledger[i] \in LedgerRow)'
<1>1. BooksInv => \A i \in DOMAIN ledger : ledger[i] \in LedgerRow
  BY TablesAre
<1> QED
  BY <1>1, PTL

\* Recording a new posting.
LEMMA Records ==
  ASSUME SerialInv, SerialInv', NEW n, n \notin PostingIds, PostingIds' = PostingIds \cup {n},
         \A o \in PostingIds : /\ ledger'[o].client = ledger[o].client
                               /\ SumOf(o)' = SumOf(o)
                               /\ IsFee(o)' = IsFee(o)
                               /\ CountedNow(o)' = CountedNow(o)
  PROVE  Money!Record
<1>1. /\ Postings = [o \in PostingIds |-> Portrait(o)]
      /\ Postings' = [o \in PostingIds \cup {n} |-> Portrait(o)']
  BY PostingsAre, PostingsAreNext
<1>2. \A o \in PostingIds : Portrait(o)' = Portrait(o)
  BY Zenon DEF Portrait
<1>3. Money!Settled(Portrait(n)')
  <2>1. SumOf(n)' \in Int
    <3>1. n \in DOMAIN ledger' /\ BooksInv'
      BY DEF PostingIds, SerialInv, ChainInv
    <3>2. ledger'[n] \in LedgerRow
      BY <3>1, TablesNext
    <3> QED
      BY <3>2, SignInt DEF SumOf, LedgerRow, Amounts
  <2> QED
    BY <2>1 DEF Portrait, Money!Settled
<1>4. /\ n \in DOMAIN Postings' \ DOMAIN Postings /\ Postings'[n] = Portrait(n)'
      /\ Postings' = [p \in DOMAIN Postings \cup {n} |-> IF p = n THEN Postings'[n] ELSE Postings[p]]
  BY <1>1, <1>2
<1> QED
  BY <1>3, <1>4 DEF Money!Record

\* What a step leaves of the fixed columns of posting o, and of its fee.
Lasting(o) ==
    /\ ledger'[o].client = ledger[o].client
    /\ SumOf(o)' = SumOf(o)
    /\ IsFee(o)' = IsFee(o)

\* Writes leave the fixed columns, and only a posting adds one.
LEMMA Lasts ==
  ASSUME ChainInv, Booked
  PROVE  /\ \A o \in DOMAIN ledger : Lasting(o)
         /\ \A n, f, kind, source : Posted(n, f, kind, source) => PostingIds' = PostingIds \cup {n}
         /\ \A i, to : ChequeSet(i, to) => PostingIds' = PostingIds
         /\ \A i, d, n : Undone(i, d, n) => PostingIds' = PostingIds
<1>1. \A g \in fees : g.link \in DOMAIN ledger
  BY DEF ChainInv, FeesFollowLedger
<1>2. ASSUME NEW n, NEW f, NEW kind, NEW source, Posted(n, f, kind, source),
             NEW g, fees' = fees \/ fees' = fees \cup {g}, g.link = n
      PROVE  \A o \in DOMAIN ledger : Lasting(o)
  <2>1. n \notin DOMAIN ledger /\ \A j \in DOMAIN ledger : ledger'[j] = ledger[j]
    BY <1>2 DEF Posted
  <2>2. \A o \in DOMAIN ledger : IsFee(o)' = IsFee(o)
    BY <1>1, <1>2, <2>1 DEF IsFee
  <2> QED
    BY <2>1, <2>2 DEF Lasting, SumOf
<1>3. ASSUME NEW n, NEW f, NEW kind, NEW source, Posted(n, f, kind, source)
      PROVE  PostingIds' = PostingIds \cup {n}
  <2>1. /\ DOMAIN ledger' = DOMAIN ledger \cup {n} /\ n \notin DOMAIN ledger
        /\ ledger'[n].depth = 0 /\ \A j \in DOMAIN ledger : ledger'[j] = ledger[j]
    BY <1>3 DEF Posted
  <2> QED
    BY <2>1 DEF PostingIds
<1>4. ASSUME NEW i, NEW to, ChequeSet(i, to)
      PROVE  PostingIds' = PostingIds /\ \A o \in DOMAIN ledger : Lasting(o)
  BY <1>4 DEF ChequeSet, Lasting, SumOf, IsFee, PostingIds
<1>5. ASSUME NEW i, NEW d, NEW n, Undone(i, d, n)
      PROVE  PostingIds' = PostingIds /\ \A o \in DOMAIN ledger : Lasting(o)
  <2>1. /\ DOMAIN ledger' = DOMAIN ledger \cup {n} /\ n \notin DOMAIN ledger
        /\ i \in DOMAIN ledger /\ ledger'[n].depth = ledger[i].depth + 1
        /\ \A j \in DOMAIN ledger :
              /\ ledger'[j].client = ledger[j].client /\ ledger'[j].amount = ledger[j].amount
              /\ ledger'[j].kind = ledger[j].kind /\ ledger'[j].depth = ledger[j].depth
    BY <1>5 DEF Undone
  <2>2. ledger[i].depth \in Nat
    BY <2>1, TablesAre DEF ChainInv, LedgerRow
  <2>3. PostingIds' = PostingIds
    BY <2>1, <2>2 DEF PostingIds
  <2>4. \A o \in DOMAIN ledger : IsFee(o)' = IsFee(o)
    <3>1. CASE fees' = fees
      BY <3>1 DEF IsFee
    <3>2. ASSUME NEW g \in fees, fees' = fees \cup {TakenBack(g, d, n)}
          PROVE  \A o \in DOMAIN ledger : IsFee(o)' = IsFee(o)
      <4>1. TakenBack(g, d, n).link = n
        BY DEF TakenBack
      <4> QED
        BY <2>1, <3>2, <4>1 DEF IsFee
    <3> QED
      BY <1>5, <3>1, <3>2, UndoneFee DEF ChainInv
  <2>5. \A o \in DOMAIN ledger : SumOf(o)' = SumOf(o)
    BY <2>1 DEF SumOf
  <2> QED
    BY <2>1, <2>3, <2>4, <2>5 DEF Lasting
<1>6. ASSUME UNCHANGED <<ledger, cashbook, fees>> PROVE \A o \in DOMAIN ledger : Lasting(o)
  BY <1>6 DEF Lasting, SumOf, IsFee
<1>7. ASSUME NEW n, NEW f, MonthUnlocked(f.date) /\ MatterOpen(f.client),
             \/ Posted(n, f, f.kind, f.source) /\ fees' = fees
             \/ Posted(n, f, "Payment", "Other") /\ fees' = fees \cup {FeeOf(n, f)}
      PROVE  \A o \in DOMAIN ledger : Lasting(o)
  <2>1. FeeOf(n, f).link = n
    BY DEF FeeOf
  <2> QED
    BY <1>2, <1>7, <2>1
<1>8. \A o \in DOMAIN ledger : Lasting(o)
  BY <1>4, <1>5, <1>6, <1>7 DEF Booked
<1> QED
  BY <1>3, <1>4, <1>5, <1>8

\* A posting whose rows are left counts as before.
LEMMA CountedSame ==
  ASSUME BooksInv, BooksInv', NEW o, Legs(o)' = Legs(o), DOMAIN ledger \subseteq DOMAIN ledger',
         \A j \in Legs(o) : ledger'[j] = ledger[j] /\ cashbook'[j].status = cashbook[j].status
  PROVE  CountedNow(o)' = CountedNow(o)
<1>1. Legs(o) \subseteq DOMAIN ledger
  BY DEF Legs
<1>2. \A j \in Legs(o) : LedgerCounts(j)' <=> LedgerCounts(j)
  BY <1>1, CountsAre
<1> QED
  BY <1>2 DEF CountedNow

\* A posting other than the one a step is about counts as before.
LEMMA CountedKept ==
  ASSUME SerialInv, SerialInv', Booked
  PROVE  /\ \A n, f, kind, source : Posted(n, f, kind, source) =>
               \A o \in PostingIds : CountedNow(o)' = CountedNow(o)
         /\ \A i, to : ChequeSet(i, to) =>
               \A o \in PostingIds : o # Origin[i] => CountedNow(o)' = CountedNow(o)
         /\ \A i, d, n : Undone(i, d, n) =>
               \A o \in PostingIds : o # Origin[i] => CountedNow(o)' = CountedNow(o)
<1>1. /\ BooksInv /\ ChainSound /\ BooksInv' /\ ChainSound'
      /\ FeesFollowLedger /\ DepthParent
  BY DEF SerialInv, ChainInv
<1>2. DOMAIN ledger \subseteq DOMAIN ledger' /\ \A j \in DOMAIN ledger : Origin'[j] = Origin[j]
  BY <1>1, OriginOld
<1>3. ASSUME NEW n, NEW f, NEW kind, NEW source, Posted(n, f, kind, source), NEW o \in PostingIds
      PROVE  CountedNow(o)' = CountedNow(o)
  <2>1. /\ DOMAIN ledger' = DOMAIN ledger \cup {n} /\ n \notin DOMAIN ledger
        /\ \A j \in DOMAIN ledger : ledger'[j] = ledger[j] /\ cashbook'[j] = cashbook[j]
    BY <1>3 DEF Posted
  <2>2. Origin'[n] = n
    BY <1>1, <1>3, OriginNew
  <2>3. Legs(o)' = Legs(o)
    BY <1>2, <2>1, <2>2 DEF Legs, PostingIds
  <2> QED
    BY <1>1, <1>2, <2>1, <2>3, CountedSame DEF Legs
<1>4. ASSUME NEW i, NEW to, ChequeSet(i, to), NEW o \in PostingIds, o # Origin[i]
      PROVE  CountedNow(o)' = CountedNow(o)
  <2>1. ledger' = ledger /\ \A j \in DOMAIN ledger \ {i} : cashbook'[j] = cashbook[j]
    BY <1>4 DEF ChequeSet
  <2>2. Legs(o)' = Legs(o) /\ i \notin Legs(o) /\ Legs(o) \subseteq DOMAIN ledger
    BY <1>2, <1>4, <2>1 DEF Legs
  <2> QED
    BY <1>1, <1>2, <2>1, <2>2, CountedSame
<1>5. ASSUME NEW i, NEW d, NEW n, Undone(i, d, n), NEW o \in PostingIds, o # Origin[i]
      PROVE  CountedNow(o)' = CountedNow(o)
  <2>1. /\ DOMAIN ledger' = DOMAIN ledger \cup {n} /\ n \notin DOMAIN ledger
        /\ \A j \in DOMAIN ledger \ {i} : ledger'[j] = ledger[j]
                                          /\ cashbook'[j].status = cashbook[j].status
    BY <1>5 DEF Undone
  <2>2. Origin'[n] = Origin[i]
    BY <1>1, <1>5, OriginNew
  <2>3. Legs(o)' = Legs(o) /\ i \notin Legs(o) /\ Legs(o) \subseteq DOMAIN ledger
    BY <1>2, <1>5, <2>1, <2>2 DEF Legs
  <2> QED
    BY <1>1, <1>2, <2>1, <2>3, CountedSame
<1> QED
  BY <1>3, <1>4, <1>5

\* A step that leaves the tables leaves the postings.
LEMMA BooksKept ==
  ASSUME UNCHANGED <<ledger, cashbook, fees>>
  PROVE  UNCHANGED Postings
<1>1. /\ ledger' = ledger /\ cashbook' = cashbook /\ fees' = fees
  OBVIOUS
<1>2. Origin' = Origin
  BY <1>1, OriginRoot, OriginRootNext
<1>3. \A i : Legs(i)' = Legs(i)
  BY <1>1, <1>2 DEF Legs
<1>4. LedgerDelta(Clients, Dates)' = LedgerDelta(Clients, Dates)
  BY <1>1, Zenon DEF LedgerDelta, LedgerCounts, Active
<1>5. \A i : PostingOf(i)' = PostingOf(i)
  BY <1>1, <1>3, <1>4, Zenon DEF PostingOf
<1> QED
  BY <1>1, <1>5, Zenon DEF Postings

\* Every step is one of ClientMoney's, or leaves the postings.
LEMMA MoneyStep ==
  SerialInv /\ SerialInv' /\ [SerialNext]_vars => [Money!Next]_Postings
<1> SUFFICES ASSUME SerialInv, SerialInv', [SerialNext]_vars PROVE [Money!Next]_Postings
  OBVIOUS
<1>1. Booked /\ ChainInv
  BY SerialBooks DEF SerialInv
<1>2. \A o \in PostingIds : Lasting(o) /\ o \in DOMAIN ledger
  BY <1>1, Lasts DEF PostingIds
<1>3. ASSUME NEW n, NEW f, NEW kind, NEW source, Posted(n, f, kind, source) PROVE Money!Record
  <2>1. n \notin PostingIds
    BY <1>3 DEF Posted, PostingIds
  <2>2. PostingIds' = PostingIds \cup {n} /\ \A o \in PostingIds : CountedNow(o)' = CountedNow(o)
    BY <1>1, <1>3, Lasts, CountedKept
  <2> QED
    BY <1>2, <2>1, <2>2, Records DEF Lasting
<1>4. ASSUME NEW t, t \in PostingIds, PostingIds' = PostingIds,
             \A o \in PostingIds : o # t => CountedNow(o)' = CountedNow(o)
      PROVE  Money!Turn \/ UNCHANGED Postings
  BY <1>2, <1>4, Turns DEF Lasting
<1>5. \A i \in DOMAIN ledger : Origin[i] \in PostingIds
  BY <1>1, Kindred DEF Kin, PostingIds, SerialInv, ChainInv
<1>6. ASSUME NEW i, NEW to, ChequeSet(i, to) PROVE Money!Turn \/ UNCHANGED Postings
  <2>1. Origin[i] \in PostingIds
    BY <1>5, <1>6 DEF ChequeSet
  <2> QED
    BY <1>1, <1>4, <1>6, <2>1, Lasts, CountedKept
<1>7. ASSUME NEW i, NEW d, NEW n, Undone(i, d, n) PROVE Money!Turn \/ UNCHANGED Postings
  <2>1. Origin[i] \in PostingIds
    BY <1>5, <1>7 DEF Undone
  <2> QED
    BY <1>1, <1>4, <1>7, <2>1, Lasts, CountedKept
<1> QED
  BY <1>1, <1>3, <1>6, <1>7, BooksKept DEF Booked, Money!Next

\* No postings to begin with.
LEMMA MoneyInit == Init => Money!Init
<1> SUFFICES ASSUME Init PROVE Postings = [id \in {} |-> {}]
  BY DEF Money!Init
<1>1. DOMAIN ledger = {}
  BY DEF Init
<1> QED
  BY <1>1 DEF Postings

\* Served one at a time, the three tables implement ClientMoney: every request
\* records one posting, turns one on or off, or leaves them all, whatever the
\* chain of reversals and cheque changes (database.py's four writes).
THEOREM OneByOneIsMoney == SerialSpec => ImplementsClientMoney
<1>1. Init => Money!Init
  BY MoneyInit
<1>2. SerialInv /\ SerialInv' /\ [SerialNext]_vars => [Money!Next]_Postings
  BY MoneyStep
<1> QED
  BY <1>1, <1>2, SerialAlways, PTL DEF SerialSpec, SerialNext, ImplementsClientMoney, Money!Spec

-----------------------------------------------------------------------------
(* The same of the runs of MCClientLedger.                                  *)

\* The inductive invariant of MCClientLedger's runs.
RunInv == oneByOne => SerialInv

\* A step of the run is one of ClientLedger's, alone when oneByOne.
LEMMA RunStep ==
  ASSUME RunInv, [MCNext]_MCvars
  PROVE  RunInv' /\ (oneByOne => [SerialNext]_vars) /\ oneByOne' = oneByOne
<1>1. CASE UNCHANGED MCvars
  <2>1. oneByOne' = oneByOne /\ UNCHANGED vars
    BY <1>1 DEF MCvars
  <2> QED
    BY <2>1, SerialStep DEF RunInv
<1>2. CASE MCNext
  <2>1. oneByOne' = oneByOne /\ \E w \in Workers : Step(w) /\ (oneByOne => Alone(w))
    BY <1>2 DEF MCNext
  <2>2. oneByOne => SerialNext
    BY <2>1 DEF SerialNext
  <2> QED
    BY <2>1, <2>2, SerialStep DEF RunInv
<1> QED
  BY <1>1, <1>2

LEMMA RunAlways == MCSpec => []RunInv
<1>1. MCInit => RunInv
  BY SerialInit DEF MCInit, RunInv
<1>2. RunInv /\ [MCNext]_MCvars => RunInv'
  BY RunStep
<1> QED
  BY <1>1, <1>2, PTL DEF MCSpec

\* CountedOnce of the behaviours that TLC explores, of any size: reversing
\* (reverse_ledger_transaction) never counts a posting twice.
THEOREM RunsCountOnce == MCSpec => []SerialCountedOnce
<1>1. RunInv => SerialCountedOnce
  BY SerialOnce DEF RunInv, SerialCountedOnce
<1> QED
  BY <1>1, RunAlways, PTL

\* ChecksHold of the behaviours that TLC explores, of any size: a single
\* request's checks of month, matter, cheque and funds bind its write.
THEOREM RunsKeepChecks == MCSpec => SerialChecksHold
<1>1. RunInv /\ [MCNext]_MCvars =>
         [oneByOne => /\ LockedMonthsClosed /\ LockedFiguresCauses
                      /\ ClosedMattersRest /\ ClearedFinal /\ FeeTransferFunded]_MCvars
  <2> SUFFICES ASSUME RunInv, MCNext, oneByOne
               PROVE  /\ LockedMonthsClosed /\ LockedFiguresCauses
                      /\ ClosedMattersRest /\ ClearedFinal /\ FeeTransferFunded
    OBVIOUS
  <2>1. SerialInv /\ SerialNext
    BY DEF RunInv, MCNext, SerialNext
  <2> QED
    BY <2>1, SerialPromises DEF Promises
<1> QED
  BY <1>1, RunAlways, PTL DEF MCSpec, SerialChecksHold

\* The refinement of ClientMoney in the behaviours that TLC explores, of any
\* size: what database.py writes only records and turns postings.
THEOREM RunsKeepMoney == MCSpec => SerialClientMoney
<1>1. MCInit => (oneByOne => Money!Init)
  BY MoneyInit DEF MCInit
<1>2. RunInv /\ RunInv' /\ [MCNext]_MCvars =>
         [oneByOne => UNCHANGED <<ledger, cashbook, fees>> \/ [Money!Next]_Postings]_MCvars
  <2> SUFFICES ASSUME RunInv, RunInv', [MCNext]_MCvars, oneByOne
               PROVE  [Money!Next]_Postings
    OBVIOUS
  <2>1. SerialInv /\ SerialInv' /\ [SerialNext]_vars
    BY RunStep DEF RunInv
  <2> QED
    BY <2>1, MoneyStep
<1> QED
  BY <1>1, <1>2, RunAlways, PTL DEF MCSpec, SerialClientMoney
===============================================================================
