--------------------------- MODULE VatReturnsProofs ---------------------------
(***************************************************************************)
(* Proofs about VatReturns, for any workers, cycles, imports and months.   *)
(* Whatever the requests interleave: every table keeps to its columns, a   *)
(* submitted return stands, and what an open draft shows was calculated    *)
(* with it or posted in a form.                                            *)
(* Served one at a time: a return is submitted with the figures that its   *)
(* rows have, and neither it nor they change afterwards.                   *)
(***************************************************************************)
EXTENDS MCVatReturns, SequenceTheorems, FiniteSetTheorems, WellFoundedInduction, TLAPS

-----------------------------------------------------------------------------
(* Sums over finite sets: the books are sums over their tables. The fold     *)
(* SumFunctionOnSet of the module Functions picks its elements one by one,   *)
(* so each lemma goes by the size of the set; the induction is an argument   *)
(* about a least size.                                                       *)

LEMMA LeastNumber ==
  ASSUME NEW N, N \subseteq Nat, N # {}
  PROVE  \E n \in N : \A m \in N : n <= m
<1> DEFINE R == OpToRel(<, Nat)
<1>1. IsWellFoundedOn(R, Nat)
  BY NatLessThanWellFounded
<1>2. \A m, n \in Nat : <<m, n>> \in R <=> m < n
  BY DEF OpToRel
<1> HIDE DEF R
<1>3. PICK n \in N : \A m \in N : ~(<<m, n>> \in R)
  BY <1>1, WFMin
<1>4. \A m \in N : ~(m < n)
  BY <1>2, <1>3
<1> QED
  BY <1>4

\* Induction: a set of numbers that has 0 and with n also n + 1 has them all.
LEMMA NumberInduction ==
  ASSUME NEW N, 0 \in N, \A n \in Nat : n \in N => n + 1 \in N
  PROVE  Nat \subseteq N
<1> SUFFICES ASSUME Nat \ N # {} PROVE FALSE
  OBVIOUS
<1>1. PICK n \in Nat \ N : \A m \in Nat \ N : n <= m
  BY LeastNumber
<1>2. n - 1 \in Nat /\ n - 1 \notin N
  BY <1>1
<1> QED
  BY <1>1, <1>2

\* A family of subsets of S that grows by one element at a time has S.
LEMMA SubsetInduction ==
  ASSUME NEW S, IsFiniteSet(S), NEW F, {} \in F,
         \A T \in SUBSET S : \A x \in S \ T : T \in F => T \cup {x} \in F
  PROVE  S \in F
<1> DEFINE N == {n \in Nat : \A T \in SUBSET S : Cardinality(T) = n => T \in F}
<1>1. \A T \in SUBSET S : IsFiniteSet(T) /\ Cardinality(T) \in Nat
  BY FS_Subset, FS_CardinalityType
<1>2. 0 \in N
  BY <1>1, FS_EmptySet
<1>3. ASSUME NEW n \in Nat, n \in N PROVE n + 1 \in N
  <2> SUFFICES ASSUME NEW T \in SUBSET S, Cardinality(T) = n + 1 PROVE T \in F
    OBVIOUS
  <2>0. T # {}
    <3>1. T = {} => Cardinality(T) = 0
      BY FS_EmptySet, Zenon
    <3> QED
      BY <3>1
  <2>1. PICK x \in T : TRUE
    BY <2>0
  <2>2. Cardinality(T \ {x}) = n
    <3>1. Cardinality(T \ {x}) = Cardinality(T) - 1
      BY <1>1, <2>1, FS_RemoveElement, Zenon
    <3> QED
      BY <3>1
  <2>3. T \ {x} \in F
    BY <1>3, <2>2
  <2>4. (T \ {x}) \cup {x} \in F
    BY <2>3
  <2>5. (T \ {x}) \cup {x} = T
    OBVIOUS
  <2> QED
    BY <2>4, <2>5
<1> HIDE DEF N
<1>4. Nat \subseteq N
  BY <1>2, <1>3, NumberInduction
<1> QED
  BY <1>1, <1>4 DEF N

-----------------------------------------------------------------------------
(* The fold, as one function of all subsets.                                *)

Pick(s) == CHOOSE x \in s : TRUE

IsIter(f, S, g) ==
    g = [s \in SUBSET S |-> IF s = {} THEN 0 ELSE f[Pick(s)] + g[s \ {Pick(s)}]]

LEMMA PickIn == ASSUME NEW s, s # {} PROVE Pick(s) \in s
  BY DEF Pick

LEMMA SumUnfold ==
  ASSUME NEW f, NEW S
  PROVE  SumFunctionOnSet(f, S) = (CHOOSE g : IsIter(f, S, g))[S]
  BY Zenon DEF SumFunctionOnSet, FoldFunctionOnSet, MapThenFoldSet, Pick, IsIter

LEMMA IterExists ==
  ASSUME NEW f, NEW S, IsFiniteSet(S)
  PROVE  \E g : IsIter(f, S, g)
<1> DEFINE Small(n) == {s \in SUBSET S : Cardinality(s) <= n}
           Body(g, s) == IF s = {} THEN 0 ELSE f[Pick(s)] + g[s \ {Pick(s)}]
           Has(n) == \E g : g = [s \in Small(n) |-> Body(g, s)]
           N == {n \in Nat : Has(n)}
<1>1. \A s \in SUBSET S : IsFiniteSet(s) /\ Cardinality(s) \in Nat
  BY FS_Subset, FS_CardinalityType
<1>2. Has(0)
  <2>1. Small(0) = {{}}
    BY <1>1, FS_EmptySet
  <2> DEFINE g == [s \in {{}} |-> 0]
  <2>2. g = [s \in Small(0) |-> Body(g, s)]
    BY <2>1
  <2> QED
    BY <2>2
<1>3. ASSUME NEW n \in Nat, Has(n) PROVE Has(n + 1)
  <2>1. PICK g : g = [s \in Small(n) |-> Body(g, s)]
    BY <1>3
  <2> DEFINE h == [s \in Small(n + 1) |-> Body(g, s)]
  <2>2. \A s \in Small(n + 1) : s # {} => s \ {Pick(s)} \in Small(n)
    BY <1>1, PickIn, FS_RemoveElement
  <2>3. Small(n) \subseteq Small(n + 1)
    BY <1>1
  <2>4. \A s \in Small(n) : h[s] = g[s]
    BY <2>1, <2>3
  <2>5. \A s \in Small(n + 1) : Body(g, s) = Body(h, s)
    BY <2>2, <2>4
  <2>6. h = [s \in Small(n + 1) |-> Body(h, s)]
    BY <2>5
  <2> HIDE DEF h
  <2> QED
    BY <2>6
<1> HIDE DEF Has
<1>4. Nat \subseteq N
  <2>1. 0 \in N /\ \A n \in Nat : n \in N => n + 1 \in N
    BY <1>2, <1>3
  <2> HIDE DEF N
  <2> QED
    BY <2>1, NumberInduction
<1>5. Has(Cardinality(S))
  BY <1>1, <1>4
<1>6. Small(Cardinality(S)) = SUBSET S
  BY <1>1, FS_Subset
<1> QED
  BY <1>5, <1>6 DEF Has, IsIter

\* What any such function gives a subset depends on f and the subset alone.
LEMMA IterUnique ==
  ASSUME NEW f, NEW S, NEW T, NEW g, NEW h, IsFiniteSet(S), IsFiniteSet(T),
         IsIter(f, S, g), IsIter(f, T, h)
  PROVE  \A s \in SUBSET (S \cap T) : g[s] = h[s]
<1> DEFINE N == {n \in Nat : \A s \in SUBSET (S \cap T) : Cardinality(s) = n => g[s] = h[s]}
<1>1. \A s \in SUBSET (S \cap T) : IsFiniteSet(s) /\ Cardinality(s) \in Nat
  BY FS_Subset, FS_CardinalityType
<1>2. 0 \in N
  BY <1>1, FS_EmptySet DEF IsIter
<1>3. ASSUME NEW n \in Nat, n \in N PROVE n + 1 \in N
  <2> SUFFICES ASSUME NEW s \in SUBSET (S \cap T), Cardinality(s) = n + 1 PROVE g[s] = h[s]
    OBVIOUS
  <2>1. s # {}
    <3>1. s = {} => Cardinality(s) = 0
      BY FS_EmptySet, Zenon
    <3> QED
      BY <3>1
  <2>2. Pick(s) \in s
    BY <2>1, PickIn
  <2>3. Cardinality(s \ {Pick(s)}) = n
    <3>1. Cardinality(s \ {Pick(s)}) = Cardinality(s) - 1
      BY <1>1, <2>2, FS_RemoveElement, Zenon
    <3> QED
      BY <3>1
  <2>4. g[s \ {Pick(s)}] = h[s \ {Pick(s)}]
    BY <1>3, <2>3
  <2> QED
    BY <2>1, <2>4 DEF IsIter
<1> HIDE DEF N
<1>4. Nat \subseteq N
  BY <1>2, <1>3, NumberInduction
<1> QED
  BY <1>1, <1>4 DEF N

-----------------------------------------------------------------------------
(* The sums.                                                                *)

LEMMA SumIs ==
  ASSUME NEW f, NEW S, IsFiniteSet(S)
  PROVE  /\ SumFunctionOnSet(f, {}) = 0
         /\ S # {} =>
              SumFunctionOnSet(f, S) = f[Pick(S)] + SumFunctionOnSet(f, S \ {Pick(S)})
<1> DEFINE Fold(T) == CHOOSE g : IsIter(f, T, g)
<1>1. ASSUME NEW T, IsFiniteSet(T) PROVE IsIter(f, T, Fold(T)) /\ SumFunctionOnSet(f, T) = Fold(T)[T]
  BY <1>1, IterExists, SumUnfold, Zenon
<1> HIDE DEF Fold
<1>2. SumFunctionOnSet(f, {}) = 0
  BY <1>1, FS_EmptySet DEF IsIter
<1>3. ASSUME S # {}
      PROVE  SumFunctionOnSet(f, S) = f[Pick(S)] + SumFunctionOnSet(f, S \ {Pick(S)})
  <2> DEFINE T == S \ {Pick(S)}
  <2>1. IsFiniteSet(T)
    BY FS_RemoveElement
  <2>2. Fold(S)[T] = Fold(T)[T]
    BY <1>1, <2>1, IterUnique
  <2>3. Fold(S)[S] = f[Pick(S)] + Fold(S)[T]
    BY <1>1, <1>3 DEF IsIter
  <2> QED
    BY <1>1, <2>1, <2>2, <2>3
<1> QED
  BY <1>2, <1>3

\* A sum of integers is one, and any element may be taken out of it first.
LEMMA SumParts ==
  ASSUME NEW f, NEW S, IsFiniteSet(S), \A x \in S : f[x] \in Int
  PROVE  /\ SumFunctionOnSet(f, S) \in Int
         /\ \A x \in S : SumFunctionOnSet(f, S) = f[x] + SumFunctionOnSet(f, S \ {x})
<1> DEFINE Sum(T) == SumFunctionOnSet(f, T)
           Parts(T) == Sum(T) \in Int /\ \A x \in T : Sum(T) = f[x] + Sum(T \ {x})
           Sized(n) == \A T \in SUBSET S : Cardinality(T) <= n => Parts(T)
           N == {n \in Nat : Sized(n)}
<1>1. \A T \in SUBSET S : IsFiniteSet(T) /\ Cardinality(T) \in Nat
  BY FS_Subset, FS_CardinalityType
<1>2. Sum({}) = 0
  BY FS_EmptySet, SumIs
<1>3. ASSUME NEW T \in SUBSET S, NEW x \in T
      PROVE  T \ {x} \in SUBSET S /\ Cardinality(T \ {x}) = Cardinality(T) - 1
  BY <1>1, FS_RemoveElement, Zenon
<1>4. ASSUME NEW T \in SUBSET S, T # {}
      PROVE  Pick(T) \in T /\ Sum(T) = f[Pick(T)] + Sum(T \ {Pick(T)})
  BY <1>1, <1>4, SumIs, PickIn
<1> HIDE DEF Sum
<1>5. Sized(0)
  BY <1>1, <1>2, FS_EmptySet
<1>6. ASSUME NEW n \in Nat, Sized(n) PROVE Sized(n + 1)
  <2> SUFFICES ASSUME NEW T \in SUBSET S, Cardinality(T) <= n + 1 PROVE Parts(T)
    OBVIOUS
  <2>1. CASE T = {}
    BY <1>2, <2>1
  <2>2. CASE T # {}
    <3>1. PICK c \in T : Sum(T) = f[c] + Sum(T \ {c})
      BY <1>4, <2>2
    <3>2. \A x \in T : T \ {x} \in SUBSET S /\ Parts(T \ {x})
      <4>1. \A x \in T : T \ {x} \in SUBSET S /\ Cardinality(T \ {x}) = Cardinality(T) - 1
        BY <1>3
      <4>2. \A x \in T : Cardinality(T \ {x}) <= n
        BY <1>1, <4>1
      <4> HIDE DEF Parts
      <4> QED
        BY <1>6, <4>1, <4>2
    <3> HIDE DEF Parts
    <3>3. f[c] \in Int /\ Sum(T \ {c}) \in Int
      BY <3>2 DEF Parts
    <3>4. ASSUME NEW x \in T, x # c PROVE Sum(T) = f[x] + Sum(T \ {x})
      <4> DEFINE U == T \ {c, x}
      <4>1. U = (T \ {c}) \ {x} /\ U = (T \ {x}) \ {c} /\ U \in SUBSET S
        OBVIOUS
      <4>2. x \in T \ {c} /\ c \in T \ {x}
        BY <3>4
      <4>3. Sum(T \ {c}) = f[x] + Sum(U) /\ Sum(T \ {x}) = f[c] + Sum(U)
        BY <3>2, <4>1, <4>2 DEF Parts
      <4>4. Cardinality(U) <= n
        <5>1. Cardinality(T \ {c}) = Cardinality(T) - 1
          BY <1>3
        <5>2. Cardinality(U) = Cardinality(T \ {c}) - 1
          BY <1>3, <3>2, <4>1, <4>2
        <5> QED
          BY <1>1, <5>1, <5>2
      <4>5. Sum(U) \in Int
        BY <1>6, <4>1, <4>4 DEF Parts
      <4>6. f[x] \in Int
        OBVIOUS
      <4> HIDE DEF U
      <4> QED
        BY <3>1, <3>3, <4>3, <4>5, <4>6
    <3>5. Sum(T) \in Int
      BY <3>1, <3>3
    <3>6. \A x \in T : Sum(T) = f[x] + Sum(T \ {x})
      BY <3>1, <3>4
    <3> QED
      BY <3>5, <3>6 DEF Parts
  <2> QED
    BY <2>1, <2>2
<1> HIDE DEF Sized
<1>7. Nat \subseteq N
  <2>1. 0 \in N /\ \A n \in Nat : n \in N => n + 1 \in N
    BY <1>5, <1>6
  <2> HIDE DEF N
  <2> QED
    BY <2>1, NumberInduction
<1>8. Sized(Cardinality(S))
  BY <1>1, <1>7
<1>9. Parts(S)
  BY <1>1, <1>8 DEF Sized
<1> QED
  BY <1>9 DEF Sum

LEMMA SumEmpty == ASSUME NEW f PROVE SumFunctionOnSet(f, {}) = 0
  BY FS_EmptySet, SumIs

\* One element more.
LEMMA SumAdd ==
  ASSUME NEW f, NEW S, NEW x, IsFiniteSet(S), x \notin S, \A y \in S \cup {x} : f[y] \in Int
  PROVE  SumFunctionOnSet(f, S \cup {x}) = f[x] + SumFunctionOnSet(f, S)
<1>1. IsFiniteSet(S \cup {x}) /\ (S \cup {x}) \ {x} = S
  BY FS_AddElement
<1> QED
  BY <1>1, SumParts

\* Functions that agree on the set have the same sum.
LEMMA SumSame ==
  ASSUME NEW f, NEW g, NEW S, IsFiniteSet(S), \A x \in S : f[x] \in Int /\ g[x] = f[x]
  PROVE  SumFunctionOnSet(g, S) = SumFunctionOnSet(f, S)
<1> DEFINE F == {T \in SUBSET S : SumFunctionOnSet(g, T) = SumFunctionOnSet(f, T)}
<1>1. {} \in F
  BY SumEmpty
<1>2. ASSUME NEW T \in SUBSET S, NEW x \in S \ T, T \in F PROVE T \cup {x} \in F
  <2>1. IsFiniteSet(T)
    BY FS_Subset
  <2>2. /\ SumFunctionOnSet(f, T \cup {x}) = f[x] + SumFunctionOnSet(f, T)
        /\ SumFunctionOnSet(g, T \cup {x}) = g[x] + SumFunctionOnSet(g, T)
    BY <2>1, SumAdd
  <2> QED
    BY <1>2, <2>2
<1> HIDE DEF F
<1>3. S \in F
  BY <1>1, <1>2, SubsetInduction
<1> QED
  BY <1>3 DEF F

\* Elements that count nothing may be left out.
LEMMA SumSupport ==
  ASSUME NEW f, NEW S, NEW T, IsFiniteSet(S), T \subseteq S,
         \A x \in S : f[x] \in Int, \A x \in S \ T : f[x] = 0
  PROVE  SumFunctionOnSet(f, S) = SumFunctionOnSet(f, T)
<1> DEFINE F == {U \in SUBSET (S \ T) : SumFunctionOnSet(f, T \cup U) = SumFunctionOnSet(f, T)}
<1>1. {} \in F
  <2>1. T \cup {} = T
    OBVIOUS
  <2> QED
    BY <2>1
<1>2. ASSUME NEW U \in SUBSET (S \ T), NEW x \in (S \ T) \ U, U \in F PROVE U \cup {x} \in F
  <2>1. IsFiniteSet(T \cup U) /\ x \notin T \cup U /\ T \cup (U \cup {x}) = (T \cup U) \cup {x}
    BY FS_Subset
  <2>2. SumFunctionOnSet(f, (T \cup U) \cup {x}) = f[x] + SumFunctionOnSet(f, T \cup U)
    BY <2>1, SumAdd
  <2>3. SumFunctionOnSet(f, T \cup U) \in Int /\ f[x] = 0
    BY <2>1, SumParts
  <2>4. SumFunctionOnSet(f, T \cup (U \cup {x})) = SumFunctionOnSet(f, T \cup U)
    <3>1. SumFunctionOnSet(f, T \cup (U \cup {x})) = SumFunctionOnSet(f, (T \cup U) \cup {x})
      BY <2>1, Zenon
    <3> QED
      BY <2>2, <2>3, <3>1
  <2>5. U \cup {x} \in SUBSET (S \ T)
    OBVIOUS
  <2> QED
    BY <1>2, <2>4, <2>5
<1>3. IsFiniteSet(S \ T)
  BY FS_Subset
<1> HIDE DEF F
<1>4. S \ T \in F
  BY <1>1, <1>2, <1>3, SubsetInduction
<1>5. T \cup (S \ T) = S
  OBVIOUS
<1> QED
  BY <1>4, <1>5 DEF F

\* A sum of natural numbers is one.
LEMMA SumNatural ==
  ASSUME NEW f, NEW S, IsFiniteSet(S), \A x \in S : f[x] \in Nat
  PROVE  SumFunctionOnSet(f, S) \in Nat
<1> DEFINE F == {T \in SUBSET S : SumFunctionOnSet(f, T) \in Nat}
<1>1. {} \in F
  BY SumEmpty
<1>2. ASSUME NEW T \in SUBSET S, NEW x \in S \ T, T \in F PROVE T \cup {x} \in F
  <2>1. IsFiniteSet(T)
    BY FS_Subset
  <2>2. SumFunctionOnSet(f, T \cup {x}) = f[x] + SumFunctionOnSet(f, T)
    BY <2>1, SumAdd
  <2> QED
    BY <1>2, <2>2
<1> HIDE DEF F
<1>3. S \in F
  BY <1>1, <1>2, SubsetInduction
<1> QED
  BY <1>3 DEF F

\* Elements that count the same, and new ones that count nothing.
LEMMA SumStays ==
  ASSUME NEW f, NEW g, NEW S, NEW T, IsFiniteSet(T), S \subseteq T,
         \A x \in S : f[x] \in Int /\ g[x] = f[x], \A x \in T \ S : g[x] = 0
  PROVE  SumFunctionOnSet(g, T) = SumFunctionOnSet(f, S)
<1>1. IsFiniteSet(S)
  BY FS_Subset
<1>2. \A x \in T : g[x] \in Int
  OBVIOUS
<1>3. SumFunctionOnSet(g, T) = SumFunctionOnSet(g, S)
  BY <1>2, SumSupport
<1>4. SumFunctionOnSet(g, S) = SumFunctionOnSet(f, S)
  BY <1>1, SumSame
<1> QED
  BY <1>3, <1>4

-----------------------------------------------------------------------------
(* Requests and rows.                                                       *)

\* The tables a step may touch: returns are written by two steps only, saved
\* months by one.
LEMMA ReturnsWriters ==
    ASSUME NEW w \in Workers, Step(w)
    PROVE  SaveDraft(w) \/ SubmitWrite(w) \/ UNCHANGED returns
<1>1. CASE Import(w) \/ Clear(w) \/ Exclude(w)
      BY <1>1 DEF Import, ImportRead, ImportWrite, Clear, Exclude, ExcludeBegin, ExcludeWrite, Begin, tables
<1>2. CASE Reverse(w) \/ Edit(w)
      BY <1>2 DEF Reverse, ReverseRead, ReverseVat, ReverseWrite,
                  Edit, EditBegin, EditRow, EditVat, EditWrite, Begin, Proceed, tables
<1>3. CASE Context(w) \/ Prepare(w)
      BY <1>3 DEF Context, ContextSettings, SubmitSettings, ContextRows, Prepare, ViewReturn, SubmitReturn,
                  Begin, Proceed, tables
<1>4. CASE Submit(w) \/ SaveMonth(w)
      BY <1>4 DEF Submit, SubmitLock, SaveMonth, MonthReturn, MonthWrite, Proceed, tables
<1>5. CASE Setup(w)
      BY <1>5 DEF Setup, SetupRead, SetupScope, SetupReturn, SetupRows, SetupSave, SetupRecalc,
                  Deactivate, Begin, Proceed, tables
<1>6. CASE Abort(w)
      BY <1>6 DEF Abort, tables
<1>7. QED BY <1>1, <1>2, <1>3, <1>4, <1>5, <1>6 DEF Step

LEMMA SavedWriters ==
    ASSUME NEW w \in Workers, Step(w)
    PROVE  MonthWrite(w) \/ UNCHANGED saved
<1>1. CASE Import(w) \/ Clear(w) \/ Exclude(w)
      BY <1>1 DEF Import, ImportRead, ImportWrite, Clear, Exclude, ExcludeBegin, ExcludeWrite, Begin, tables
<1>2. CASE Reverse(w) \/ Edit(w)
      BY <1>2 DEF Reverse, ReverseRead, ReverseVat, ReverseWrite,
                  Edit, EditBegin, EditRow, EditVat, EditWrite, Begin, Proceed, tables
<1>3. CASE Context(w) \/ Prepare(w)
      BY <1>3 DEF Context, ContextSettings, SubmitSettings, ContextRows, Prepare, ViewReturn, SubmitReturn,
                  SaveDraft, Begin, Proceed, tables
<1>4. CASE Submit(w) \/ SaveMonth(w)
      BY <1>4 DEF Submit, SubmitLock, SubmitWrite, SaveMonth, MonthReturn, Proceed, tables
<1>5. CASE Setup(w)
      BY <1>5 DEF Setup, SetupRead, SetupScope, SetupReturn, SetupRows, SetupSave, SetupRecalc,
                  Deactivate, Begin, Proceed, tables
<1>6. CASE Abort(w)
      BY <1>6 DEF Abort, tables
<1>7. QED BY <1>1, <1>2, <1>3, <1>4, <1>5, <1>6 DEF Step

-----------------------------------------------------------------------------
\* A draft is never saved over a submitted return (its upsert says WHERE
\* is_locked = 0), and only a submission that passed its check earlier can
\* replace the boxes; the calculated ones stay. No invariant is needed.
LEMMA DraftStands ==
    ASSUME NEW w \in Workers, SaveDraft(w), NEW q \in DOMAIN returns, returns[q].locked
    PROVE  q \in DOMAIN returns' /\ returns'[q] = returns[q]
BY DEF SaveDraft, WithDraft, Locked

LEMMA SubmitStands ==
    ASSUME NEW w \in Workers, SubmitWrite(w), NEW q \in DOMAIN returns, returns[q].locked
    PROVE  /\ q \in DOMAIN returns' /\ returns'[q].locked
           /\ returns'[q].calc = returns[q].calc
           /\ returns'[q] # returns[q] => Resubmitted(w, q)
<1>1. returns' = [x \in DOMAIN returns \cup {req[w].key} |->
          IF x # req[w].key THEN returns[x]
          ELSE [calc |-> IF req[w].key \in DOMAIN returns
                         THEN returns[req[w].key].calc ELSE NoBoxes,
                final |-> req[w].final, locked |-> TRUE]]
      BY DEF SubmitWrite
<1>2. CASE q = req[w].key
      BY <1>1, <1>2 DEF SubmitWrite, Resubmitted
<1>3. CASE q # req[w].key
      BY <1>1, <1>3
<1>4. QED BY <1>2, <1>3

LEMMA SubmittedStep == [Next]_vars => LockedReturnKept
<1> SUFFICES ASSUME [Next]_vars, NEW q \in DOMAIN returns, returns[q].locked
             PROVE  /\ q \in DOMAIN returns' /\ returns'[q].locked
                    /\ returns'[q].calc = returns[q].calc
                    /\ returns'[q] # returns[q] => \E w \in Workers : Resubmitted(w, q)
    BY DEF LockedReturnKept
<1>1. CASE UNCHANGED vars
      BY <1>1 DEF vars
<1>2. ASSUME NEW w \in Workers, Step(w)
      PROVE  /\ q \in DOMAIN returns' /\ returns'[q].locked
             /\ returns'[q].calc = returns[q].calc
             /\ returns'[q] # returns[q] => Resubmitted(w, q)
  <2>1. CASE SaveDraft(w)
        BY <2>1, DraftStands
  <2>2. CASE SubmitWrite(w)
        BY <2>2, SubmitStands
  <2>3. CASE UNCHANGED returns
        BY <2>3
  <2>4. QED BY <1>2, <2>1, <2>2, <2>3, ReturnsWriters
<1>3. QED BY <1>1, <1>2 DEF Next

\* Whatever the workers interleave, a submitted return stays as it is but for
\* the boxes that a second submission, already past its check, puts in.
THEOREM SubmittedStand == Spec => LockedReturnsStand
<1>1. [Next]_vars => LockedReturnKept
      BY SubmittedStep
<1>2. QED BY <1>1, PTL DEF Spec, LockedReturnsStand

-----------------------------------------------------------------------------
\* What the next two theorems need to know of a request: it is a record that
\* says where it stands, and a submission at its check has a key.
Shape(r) ==
    /\ "op" \in DOMAIN r
    /\ r.op # "none" => "at" \in DOMAIN r
    /\ r.op = "submit" /\ r.at = "lock" => "key" \in DOMAIN r

Shapes == DOMAIN req = Workers /\ \A w \in Workers : Shape(req[w])

AtDraft(w) == At(w, "view", "draft") \/ At(w, "submit", "draft")

\* A step replaces its worker's request only, and a request comes to its write
\* only by the step that made the check.
Moves(w) ==
    /\ DOMAIN req' = Workers
    /\ \A v \in Workers \ {w} : req'[v] = req[v]
    /\ Shape(req'[w])
    /\ AtDraft(w)' => ViewReturn(w) \/ SubmitReturn(w) \/ UNCHANGED req
    /\ At(w, "submit", "write")' => SubmitLock(w) \/ UNCHANGED req
    /\ At(w, "month", "write")' => MonthReturn(w) \/ UNCHANGED req
    /\ At(w, "submit", "rows")' => SubmitSettings(w) \/ UNCHANGED req
    /\ At(w, "submit", "return")' => ContextRows(w) \/ UNCHANGED req

LEMMA Finishes ==
    ASSUME Shapes, NEW w \in Workers, Finish(w) PROVE Moves(w)
BY DEF Shapes, Shape, Finish, NoReq, Moves, AtDraft, At

LEMMA Rests ==
    ASSUME Shapes, NEW w \in Workers, UNCHANGED req PROVE Moves(w)
BY DEF Shapes, Moves

LEMMA RequestMoves ==
    ASSUME Shapes, NEW w \in Workers, Step(w) PROVE Moves(w)
<1> USE DEF Shapes, Shape, Moves, AtDraft, At, NoReq, Proceed, Begin
<1>1. CASE Import(w)
      BY <1>1, Finishes DEF Import, ImportRead, ImportWrite
<1>2. CASE Clear(w) \/ Exclude(w)
      BY <1>2, Finishes, Rests DEF Clear, Exclude, ExcludeBegin, ExcludeWrite
<1>3. CASE Reverse(w)
      BY <1>3, Finishes DEF Reverse, ReverseRead, ReverseVat, ReverseWrite
<1>4. CASE Edit(w)
      BY <1>4, Finishes DEF Edit, EditBegin, EditRow, EditVat, EditWrite
<1>5. CASE Context(w)
      BY <1>5 DEF Context, ContextSettings, SubmitSettings, ContextRows, Scope
<1>6. CASE ViewReturn(w) \/ SubmitReturn(w)
      BY <1>6, Finishes DEF ViewReturn, SubmitReturn
<1>7. CASE SaveDraft(w)
      BY <1>7 DEF SaveDraft
<1>8. CASE Submit(w)
      BY <1>8, Finishes DEF Submit, SubmitLock, SubmitWrite
<1>9. CASE SaveMonth(w)
      BY <1>9, Finishes DEF SaveMonth, MonthReturn, MonthWrite
<1>10. CASE SetupRead(w) \/ SetupScope(w) \/ SetupReturn(w) \/ SetupRows(w)
      BY <1>10 DEF SetupRead, SetupScope, SetupReturn, SetupRows, ToSave
<1>11. CASE SetupSave(w) \/ SetupRecalc(w) \/ Deactivate(w)
      BY <1>11, Finishes, Rests DEF SetupSave, SetupRecalc, Deactivate
<1>12. CASE Abort(w)
      BY <1>12, Finishes DEF Abort
<1>13. QED BY <1>1, <1>2, <1>3, <1>4, <1>5, <1>6, <1>7, <1>8, <1>9, <1>10, <1>11, <1>12
           DEF Step, Prepare, Setup

-----------------------------------------------------------------------------
\* DraftsFollow needs that a draft under way follows its own calculation or a
\* form that was posted. What it was calculated from may be outdated by the
\* time it is saved, for both come from the same reading.
DraftReady(w) == AtDraft(w) => Follows(req[w].final, req[w].boxes)

FormPosted(w) ==
    At(w, "submit", "rows") \/ At(w, "submit", "return") => req[w].form \in posted

DraftInv ==
    /\ Shapes
    /\ DraftsFollow
    /\ \A w \in Workers : DraftReady(w) /\ FormPosted(w)

\* A form once posted stays so.
LEMMA PostedStays ==
    ASSUME NEW w \in Workers, Step(w)
    PROVE  SubmitSettings(w) \/ UNCHANGED posted
<1> USE DEF Begin, Proceed, browsers
<1>1. CASE Import(w) \/ Clear(w) \/ Exclude(w)
      BY <1>1 DEF Import, ImportRead, ImportWrite, Clear, Exclude, ExcludeBegin, ExcludeWrite
<1>2. CASE Reverse(w) \/ Edit(w)
      BY <1>2 DEF Reverse, ReverseRead, ReverseVat, ReverseWrite,
                  Edit, EditBegin, EditRow, EditVat, EditWrite
<1>3. CASE Context(w) \/ Prepare(w)
      BY <1>3 DEF Context, ContextSettings, ContextRows, Prepare, ViewReturn, SubmitReturn, SaveDraft
<1>4. CASE Submit(w) \/ SaveMonth(w)
      BY <1>4 DEF Submit, SubmitLock, SubmitWrite, SaveMonth, MonthReturn, MonthWrite
<1>5. CASE Setup(w)
      BY <1>5 DEF Setup, SetupRead, SetupScope, SetupReturn, SetupRows, SetupSave, SetupRecalc,
                  Deactivate
<1>6. CASE Abort(w)
      BY <1>6 DEF Abort
<1>7. QED BY <1>1, <1>2, <1>3, <1>4, <1>5, <1>6 DEF Step

LEMMA PostedGrows ==
    ASSUME NEW w \in Workers, Step(w)
    PROVE  posted \subseteq posted'
BY PostedStays DEF SubmitSettings

LEMMA ShapesKept ==
    ASSUME Shapes, NEW w \in Workers, Step(w) PROVE Shapes'
BY RequestMoves DEF Shapes, Moves

LEMMA DraftInit == Init => DraftInv
BY DEF Init, DraftInv, Shapes, Shape, DraftsFollow, DraftReady, FormPosted, AtDraft, At, NoReq

\* A figure is shown over the calculated one only where the stored draft
\* differs from its calculation, and there a form had it.
LEMMA ShownFollows ==
    ASSUME DraftInv, NEW q, ~Locked(q), NEW fresh
    PROVE  Follows(UserFigures(q, fresh), fresh)
<1>1. CASE q \notin DOMAIN returns \/ returns[q].calc = NoBoxes
      BY <1>1 DEF UserFigures, Follows
<1>2. CASE q \in DOMAIN returns /\ returns[q].calc # NoBoxes
  <2>1. Follows(returns[q].final, returns[q].calc)
        BY <1>2 DEF DraftInv, DraftsFollow, Locked
  <2>2. QED BY <1>2, <2>1 DEF UserFigures, Shown, Follows
<1>3. QED BY <1>1, <1>2

LEMMA FormsPosted ==
    ASSUME DraftInv, NEW w \in Workers, Step(w), NEW v \in Workers
    PROVE  FormPosted(v)'
<1>1. Moves(w) /\ posted \subseteq posted'
      BY RequestMoves, PostedGrows DEF DraftInv
<1>2. CASE req'[v] = req[v]
      BY <1>1, <1>2 DEF DraftInv, FormPosted, At
<1>3. CASE v = w /\ SubmitSettings(w)
  <2>1. PICK key, form : req' = [req EXCEPT ![w] = Scope("submit", key, form)]
                         /\ posted' = posted \cup {form}
        BY <1>3 DEF SubmitSettings
  <2>2. req'[w].form = form
        BY <2>1 DEF DraftInv, Shapes, Scope
  <2>3. QED BY <1>3, <2>1, <2>2 DEF FormPosted
<1>4. CASE v = w /\ ContextRows(w) /\ At(w, "submit", "return")'
  <2>1. req'[w].form = req[w].form /\ req'[w].op = req[w].op
        BY <1>4 DEF ContextRows, Proceed, DraftInv, Shapes
  <2>2. At(w, "submit", "rows")
        BY <1>4, <2>1 DEF ContextRows, At
  <2>3. QED BY <1>1, <1>4, <2>1, <2>2 DEF FormPosted, DraftInv
<1>5. QED BY <1>1, <1>2, <1>3, <1>4 DEF Moves, FormPosted

LEMMA DraftsReady ==
    ASSUME DraftInv, NEW w \in Workers, Step(w), NEW v \in Workers
    PROVE  DraftReady(v)'
<1>1. Moves(w) /\ posted \subseteq posted'
      BY RequestMoves, PostedGrows DEF DraftInv
<1>2. CASE req'[v] = req[v]
  <2>1. AtDraft(v)' => AtDraft(v)
        BY <1>2 DEF AtDraft, At
  <2>2. SUFFICES ASSUME AtDraft(v) PROVE Follows(req[v].final, req[v].boxes)'
        BY <2>1 DEF DraftReady
  <2>3. Follows(req[v].final, req[v].boxes)
        BY <2>2 DEF DraftInv, DraftReady
  <2>4. QED BY <1>1, <1>2, <2>3 DEF Follows
<1>3. CASE v = w /\ ViewReturn(w) /\ AtDraft(w)'
  <2>1. /\ ~Locked(req[w].quarter)
        /\ req'[w] = [op |-> "view", at |-> "draft", key |-> req[w].key,
                      quarter |-> req[w].quarter, boxes |-> req[w].boxes,
                      final |-> UserFigures(req[w].quarter, req[w].boxes)]
        BY <1>3 DEF ViewReturn, Finish, AtDraft, At, NoReq, DraftInv, Shapes
  <2>2. Follows(UserFigures(req[w].quarter, req[w].boxes), req[w].boxes)
        BY <2>1, ShownFollows
  <2>3. QED BY <1>1, <1>3, <2>1, <2>2 DEF DraftReady, Follows
<1>4. CASE v = w /\ SubmitReturn(w) /\ AtDraft(w)'
  <2>1. PICK final \in [output : {req[w].form.output, req[w].boxes.output},
                        input : {req[w].form.input, req[w].boxes.input}] :
            req'[w] = [op |-> "submit", at |-> "draft", key |-> req[w].key,
                       quarter |-> req[w].quarter, boxes |-> req[w].boxes, final |-> final]
        BY <1>4 DEF SubmitReturn, Proceed, AtDraft, At, NoReq, DraftInv, Shapes
  <2>2. req[w].form \in posted
        BY <1>4 DEF SubmitReturn, DraftInv, FormPosted
  <2>3. Follows(final, req[w].boxes)
        BY <2>1, <2>2 DEF Follows
  <2>4. QED BY <1>1, <1>4, <2>1, <2>3 DEF DraftReady, Follows
<1>5. QED BY <1>1, <1>2, <1>3, <1>4 DEF Moves, DraftReady

LEMMA DraftsKept ==
    ASSUME DraftInv, NEW w \in Workers, Step(w)
    PROVE  DraftsFollow'
<1>0. posted \subseteq posted'
      BY PostedGrows
<1>1. CASE SaveDraft(w)
  <2>1. Follows(req[w].final, req[w].boxes)
        BY <1>1 DEF DraftInv, DraftReady, AtDraft, At, SaveDraft
  <2>2. ASSUME NEW q \in DOMAIN returns', ~returns'[q].locked
        PROVE  Follows(returns'[q].final, returns'[q].calc)
    <3>1. CASE q = req[w].quarter /\ ~Locked(q)
      <4>1. returns'[q] = Draft(req[w])
            BY <1>1, <2>2, <3>1 DEF SaveDraft, WithDraft
      <4>2. QED BY <2>1, <4>1 DEF Draft
    <3>2. CASE ~(q = req[w].quarter /\ ~Locked(q))
      <4>1. q \in DOMAIN returns /\ returns'[q] = returns[q]
            BY <1>1, <2>2, <3>2 DEF SaveDraft, WithDraft, Locked
      <4>2. QED BY <2>2, <4>1 DEF DraftInv, DraftsFollow
    <3>3. QED BY <3>1, <3>2
  <2>3. QED BY <1>0, <2>2 DEF DraftsFollow, Follows
<1>2. CASE SubmitWrite(w)
      BY <1>0, <1>2 DEF DraftInv, DraftsFollow, Follows, SubmitWrite
<1>3. CASE UNCHANGED returns
      BY <1>0, <1>3 DEF DraftInv, DraftsFollow, Follows
<1>4. QED BY <1>1, <1>2, <1>3, ReturnsWriters

LEMMA DraftStep == DraftInv /\ [Next]_vars => DraftInv'
<1> SUFFICES ASSUME DraftInv, [Next]_vars PROVE DraftInv'
    OBVIOUS
<1>1. ASSUME NEW w \in Workers, Step(w) PROVE DraftInv'
      BY <1>1, ShapesKept, DraftsReady, FormsPosted, DraftsKept DEF DraftInv
<1>2. CASE UNCHANGED vars
      BY <1>2 DEF vars, DraftInv, Shapes, DraftsFollow, DraftReady, FormPosted, Follows, AtDraft, At
<1>3. QED BY <1>1, <1>2 DEF Next

\* Whatever the workers interleave, every box of an open draft is the one
\* calculated with it or one that a submitted form held: opening the page keeps
\* no figure that was calculated before (_vat_user_figures).
THEOREM DraftsFollowAlways == Spec => []DraftsFollow
<1>1. DraftInv => DraftsFollow
      BY DEF DraftInv
<1>2. QED BY <1>1, DraftInit, DraftStep, PTL DEF Spec

-----------------------------------------------------------------------------
\* With a single worker no quarter is submitted between a request's check and
\* its write.
OneWorker == \A v, w \in Workers : v = w

CheckHolds(w) ==
    /\ At(w, "submit", "write") => ~Locked(req[w].key)
    /\ At(w, "month", "write") => ~Locked(req[w].quarter)

SerialInv == Shapes /\ \A w \in Workers : CheckHolds(w)

LEMMA SerialInit == Init => SerialInv
BY DEF Init, SerialInv, Shapes, Shape, CheckHolds, At, NoReq

LEMMA SerialChecks ==
    ASSUME OneWorker, SerialInv, NEW w \in Workers, Step(w)
    PROVE  CheckHolds(w)'
<1>1. Moves(w)
      BY RequestMoves DEF SerialInv
<1>2. CASE At(w, "submit", "write")' /\ SubmitLock(w)
  <2>1. ~Locked(req[w].key) /\ UNCHANGED returns /\ req'[w] = [req[w] EXCEPT !.at = "write"]
        BY <1>2 DEF SubmitLock, Proceed, At, NoReq, SerialInv, Shapes, tables
  <2>2. req'[w].key = req[w].key /\ req'[w].op = "submit"
        BY <1>2, <2>1 DEF SubmitLock, At, SerialInv, Shapes, Shape
  <2>3. QED BY <2>1, <2>2 DEF CheckHolds, At, Locked
<1>3. CASE At(w, "month", "write")' /\ MonthReturn(w)
  <2>1. /\ ~Locked(req[w].quarter) /\ UNCHANGED returns
        /\ req'[w] = [op |-> "month", at |-> "write", quarter |-> req[w].quarter,
                      active |-> req[w].active]
        BY <1>3 DEF MonthReturn, Proceed, At, NoReq, SerialInv, Shapes, tables
  <2>2. QED BY <2>1 DEF CheckHolds, At, Locked
<1>4. CASE UNCHANGED req /\ UNCHANGED returns
      BY <1>4 DEF SerialInv, CheckHolds, At, Locked
<1>5. CASE UNCHANGED req /\ (SaveDraft(w) \/ SubmitWrite(w))
      BY <1>5 DEF SaveDraft, SubmitWrite, SerialInv, Shapes, CheckHolds, At, NoReq, Finish
<1>6. QED BY <1>1, <1>2, <1>3, <1>4, <1>5, ReturnsWriters DEF Moves, CheckHolds

LEMMA SerialStep == OneWorker /\ SerialInv /\ [Next]_vars => SerialInv'
<1> SUFFICES ASSUME OneWorker, SerialInv, [Next]_vars PROVE SerialInv'
    OBVIOUS
<1>1. ASSUME NEW w \in Workers, Step(w) PROVE SerialInv'
      BY <1>1, ShapesKept, SerialChecks DEF SerialInv, OneWorker
<1>2. CASE UNCHANGED vars
      BY <1>2 DEF vars, SerialInv, Shapes, CheckHolds, At, Locked
<1>3. QED BY <1>1, <1>2 DEF Next

LEMMA SerialRest == OneWorker /\ SerialInv /\ [Next]_vars => ClosedQuartersRest
<1> SUFFICES ASSUME OneWorker, SerialInv, [Next]_vars, NEW q \in DOMAIN returns, returns[q].locked
             PROVE  returns'[q] = returns[q] /\ \A m \in saved' \ saved : m[1] # q
    BY DEF ClosedQuartersRest
<1>1. CASE UNCHANGED vars
      BY <1>1 DEF vars
<1>2. ASSUME NEW w \in Workers, Step(w)
      PROVE  returns'[q] = returns[q] /\ \A m \in saved' \ saved : m[1] # q
  <2>1. returns'[q] = returns[q]
    <3>1. CASE SaveDraft(w)
          BY <3>1, DraftStands
    <3>2. CASE SubmitWrite(w)
          BY <3>2, SubmitStands DEF SerialInv, CheckHolds, Resubmitted, Locked
    <3>3. QED BY <1>2, <3>1, <3>2, ReturnsWriters
  <2>2. CASE MonthWrite(w)
        BY <2>1, <2>2 DEF MonthWrite, SerialInv, CheckHolds, Locked
  <2>3. QED BY <1>2, <2>1, <2>2, SavedWriters
<1>3. QED BY <1>1, <1>2 DEF Next

\* A single worker never changes a submitted return and never saves a month of
\* its quarter.
THEOREM ClosedForOneWorker == ASSUME OneWorker PROVE Spec => [][ClosedQuartersRest]_vars
<1>1. Init => SerialInv
      BY SerialInit
<1>2. SerialInv /\ [Next]_vars => SerialInv'
      BY SerialStep
<1>3. SerialInv /\ [Next]_vars => ClosedQuartersRest
      BY SerialRest
<1>4. QED BY <1>1, <1>2, <1>3, PTL DEF Spec

-----------------------------------------------------------------------------
(* Types. A request names a row that exists, a submission has the boxes of a *)
(* form, and the period start is chosen with the cycle.                     *)

Sound(r) ==
    /\ r.op \in {"reverse", "exclude", "edit"} => r.row \in DOMAIN rows
    /\ r.op = "setup" /\ r.at = "scope" => r.old # NoCycle
    /\ r.op = "submit" /\ r.at \in {"rows", "return"} => r.form \in Boxes

VatInv ==
    /\ TypeOK
    /\ settings.cycle # NoCycle => settings.start \in Starts
    /\ \A w \in Workers : Sound(req[w])

LEMMA RequestKinds ==
  ASSUME NEW r \in Request
  PROVE  /\ r.op = "import" => r \in ImportReq
         /\ r.op = "reverse" => r \in ReverseReq
         /\ r.op = "exclude" => r \in ExcludeReq
         /\ r.op = "edit" /\ r.at = "row" => r \in EditReq
         /\ r.op = "edit" /\ r.at # "row" => r \in EditKeyReq
         /\ r.op \in {"view", "submit", "month"} /\ r.at = "rows" => r \in ScopeReq
         /\ r.op \in {"view", "submit", "month"} /\ r.at = "return" => r \in FiguresReq
         /\ r.op \in {"view", "submit"} /\ r.at = "draft" => r \in DraftReq
         /\ r.op = "submit" /\ r.at \in {"lock", "write"} => r \in SubmitReq
         /\ r.op = "month" /\ r.at = "write" => r \in MonthReq
         /\ r.op = "setup" /\ r.at \in {"scope", "save"} => r \in SetupReq
         /\ r.op = "setup" /\ r.at \in {"return", "rows"} => r \in CheckReq
         /\ r.op = "setup" /\ r.at = "recalc" => r \in RecalcReq
  BY DEF Request, NoReq, ImportReq, ReverseReq, ExcludeReq, EditReq, EditKeyReq, ScopeReq,
         FiguresReq, DraftReq, SubmitReq, MonthReq, SetupReq, CheckReq, RecalcReq

LEMMA RowsAre ==
  ASSUME VatInv
  PROVE  /\ rows \in Seq(Row) /\ Len(rows) \in Nat /\ DOMAIN rows = 1..Len(rows)
         /\ \A i \in DOMAIN rows : rows[i] \in Row
  BY DEF VatInv, TypeOK

LEMMA SettingsAre ==
  ASSUME VatInv
  PROVE  settings.cycle \in Cycles \cup {NoCycle} /\ settings.start \in Nat
<1>1. ASSUME NEW S, settings \in [cycle : Cycles \cup {NoCycle}, start : S]
      PROVE  settings.cycle \in Cycles \cup {NoCycle} /\ settings.start \in S
  BY <1>1
<1>2. Starts \cup {0} \subseteq Nat
  BY MonthsAssumption
<1> QED
  BY <1>1, <1>2 DEF VatInv, TypeOK

LEMMA WorkerRequest ==
  ASSUME VatInv, NEW w \in Workers
  PROVE  req[w] \in Request /\ Sound(req[w]) /\ DOMAIN req = Workers
  BY DEF VatInv, TypeOK

LEMMA NoRequest == NoReq \in Request /\ Sound(NoReq)
  BY DEF Request, NoReq, Sound

\* A worker's request may be replaced by any that is sound, while rows stay.
LEMMA NewRequest ==
  ASSUME VatInv, NEW w \in Workers, NEW r \in Request, Sound(r),
         req' = [req EXCEPT ![w] = r], DOMAIN rows \subseteq DOMAIN rows'
  PROVE  req' \in [Workers -> Request] /\ \A v \in Workers : Sound(req[v])'
<1>1. req' \in [Workers -> Request]
  BY DEF VatInv, TypeOK
<1>2. \A v \in Workers : Sound(req'[v])
  BY DEF VatInv, TypeOK
<1>3. \A v \in Workers : Sound(req[v])'
  BY <1>2 DEF Sound
<1> QED
  BY <1>1, <1>3

\* A step that only moves a request.
LEMMA MoveInv ==
  ASSUME VatInv, NEW w \in Workers, NEW r \in Request, Sound(r),
         req' = [req EXCEPT ![w] = r], UNCHANGED <<tables, browsers>>
  PROVE  VatInv'
<1>1. UNCHANGED <<settings, rows, returns, saved, pages, posted>>
  BY DEF tables, browsers
<1>2. req' \in [Workers -> Request] /\ \A v \in Workers : Sound(req[v])'
  BY <1>1, NewRequest
<1>3. TypeOK'
  BY <1>1, <1>2 DEF VatInv, TypeOK
<1> QED
  BY <1>1, <1>2, <1>3 DEF VatInv

LEMMA BeginInv ==
  ASSUME VatInv, NEW w \in Workers, NEW r \in Request, Sound(r), Begin(w, r)
  PROVE  VatInv'
  BY MoveInv DEF Begin

LEMMA ProceedInv ==
  ASSUME VatInv, NEW w \in Workers, NEW ok, NEW r, Proceed(w, ok, r),
         ok => r \in Request /\ Sound(r)
  PROVE  VatInv'
<1> DEFINE s == IF ok THEN r ELSE NoReq
<1>1. s \in Request /\ Sound(s)
  BY NoRequest
<1>2. req' = [req EXCEPT ![w] = s] /\ UNCHANGED <<tables, browsers>>
  BY DEF Proceed
<1> HIDE DEF s
<1> QED
  BY <1>1, <1>2, MoveInv

LEMMA EndInv ==
  ASSUME VatInv, NEW w \in Workers, Finish(w), DOMAIN rows \subseteq DOMAIN rows'
  PROVE  req' \in [Workers -> Request] /\ \A v \in Workers : Sound(req[v])'
  BY NoRequest, NewRequest DEF Finish

\* A step that ends a request and writes rows only.
LEMMA RowsInv ==
  ASSUME VatInv, NEW w \in Workers, Finish(w), rows' \in Seq(Row),
         DOMAIN rows \subseteq DOMAIN rows', UNCHANGED <<settings, returns, saved, browsers>>
  PROVE  VatInv'
<1>1. req' \in [Workers -> Request] /\ \A v \in Workers : Sound(req[v])'
  BY EndInv
<1>2. TypeOK'
  BY <1>1 DEF VatInv, TypeOK, browsers
<1> QED
  BY <1>1, <1>2 DEF VatInv

-----------------------------------------------------------------------------
(* Quarters and figures are numbers.                                        *)

LEMMA QuarterIs ==
  ASSUME NEW c \in Cycles, NEW m \in Nat
  PROVE  /\ QuarterEnd(c, m) \in Nat
         /\ QuarterEnd(c, QuarterEnd(c, m)) = QuarterEnd(c, m)
<1> SUFFICES ASSUME NEW d \in Int, d = c PROVE
         /\ QuarterEnd(d, m) \in Nat
         /\ QuarterEnd(d, QuarterEnd(d, m)) = QuarterEnd(d, m)
  BY CyclesAssumption
<1>1. (d - m) % 3 \in 0..2
  OBVIOUS
<1>2. (d - (m + ((d - m) % 3))) % 3 = 0
  OBVIOUS
<1> QED
  BY <1>1, <1>2 DEF QuarterEnd

\* What each row adds to a box.
VatDelta(kind, q, start) ==
    [i \in DOMAIN rows |->
        IF InReturn(rows[i], q, start) /\ Counted(rows[i]) /\ rows[i].kind = kind
        THEN rows[i].vat ELSE 0]

VatSums ==
    /\ IsFiniteSet(DOMAIN rows)
    /\ \A kind, q, start :
          /\ \A i \in DOMAIN rows : VatDelta(kind, q, start)[i] \in Nat
          /\ VatOf(kind, q, start) = SumFunctionOnSet(VatDelta(kind, q, start), DOMAIN rows)
          /\ VatOf(kind, q, start) \in Nat

LEMMA SumsAre == VatInv => VatSums
<1> SUFFICES ASSUME VatInv PROVE VatSums
  OBVIOUS
<1>1. IsFiniteSet(DOMAIN rows)
  BY RowsAre, FS_Interval
<1>2. ASSUME NEW kind, NEW q, NEW start
      PROVE  /\ DOMAIN VatDelta(kind, q, start) = DOMAIN rows
             /\ \A i \in DOMAIN rows : VatDelta(kind, q, start)[i] \in Nat
  <2>1. \A i \in DOMAIN rows : rows[i].vat \in Nat
    BY RowsAre DEF Row
  <2> QED
    BY <2>1 DEF VatDelta
<1>3. ASSUME NEW kind, NEW q, NEW start
      PROVE  VatOf(kind, q, start) = SumFunctionOnSet(VatDelta(kind, q, start), DOMAIN rows)
  <2>1. VatOf(kind, q, start) = SumFunction(VatDelta(kind, q, start))
    BY DEF VatOf, VatDelta
  <2> QED
    BY <1>2, <2>1, Zenon DEF SumFunction
<1>4. ASSUME NEW kind, NEW q, NEW start PROVE VatOf(kind, q, start) \in Nat
  BY <1>1, <1>2, <1>3, SumNatural
<1> QED
  BY <1>1, <1>2, <1>3, <1>4 DEF VatSums

LEMMA FiguresAre ==
  ASSUME VatInv, NEW q, NEW start
  PROVE  /\ Figures(q, start) \in Boxes
         /\ ActiveMonths(q, start) \in SUBSET Nat
         /\ AwaitsReview(q, start) \in BOOLEAN
<1>1. Figures(q, start) \in Boxes
  BY SumsAre DEF VatSums, Figures, Boxes
<1>2. ActiveMonths(q, start) \in SUBSET Nat
  BY RowsAre DEF ActiveMonths, Row
<1> QED
  BY <1>1, <1>2 DEF AwaitsReview

LEMMA ShownAre ==
  ASSUME VatInv, NEW q, NEW fresh \in Boxes
  PROVE  UserFigures(q, fresh) \in Boxes
<1>1. CASE q \notin DOMAIN returns \/ returns[q].calc = NoBoxes
  BY <1>1 DEF UserFigures
<1>2. CASE q \in DOMAIN returns /\ returns[q].calc # NoBoxes
  <2>1. returns[q] \in Return
    BY <1>2 DEF VatInv, TypeOK
  <2>2. returns[q].final \in Boxes
    BY <2>1 DEF Return
  <2> QED
    BY <1>2, <2>2 DEF UserFigures, Shown, Boxes
<1> QED
  BY <1>1, <1>2

-----------------------------------------------------------------------------
(* One lemma per group of steps: they preserve the types.                   *)

LEMMA ImportTypes ==
  ASSUME VatInv, NEW w \in Workers, Import(w)
  PROVE  VatInv'
<1>1. CASE ImportRead(w)
  <2>1. PICK new \in Imports :
            Begin(w, [op |-> "import", at |-> "write",
                      new |-> [i \in DOMAIN new |-> Keyed(new[i])]])
    BY <1>1 DEF ImportRead
  <2> DEFINE s == [i \in DOMAIN new |-> Keyed(new[i])]
             r == [op |-> "import", at |-> "write", new |-> s]
  <2>2. new \in Seq(NewRow) /\ DOMAIN new = 1..Len(new) /\ Len(new) \in Nat
    BY ImportsAssumption
  <2>3. ASSUME NEW i \in DOMAIN new PROVE Keyed(new[i]) \in Row
    <3>1. new[i] \in NewRow
      BY <2>2
    <3>2. settings.cycle # NoCycle => QuarterEnd(settings.cycle, new[i].date) \in Nat
      BY <3>1, QuarterIs DEF NewRow, VatInv, TypeOK
    <3> QED
      BY <3>1, <3>2 DEF Keyed, NewRow, Row
  <2>4. s \in [1..Len(new) -> Row]
    BY <2>2, <2>3
  <2>5. s \in Seq(Row)
    BY <2>2, <2>4, SeqDef
  <2> HIDE DEF s
  <2>6. r \in ImportReq
    BY <2>5 DEF ImportReq
  <2>7. r \in Request /\ Sound(r)
    BY <2>6 DEF Request, Sound
  <2>8. Begin(w, r)
    BY <2>1 DEF s
  <2> HIDE DEF r
  <2> QED
    BY <2>7, <2>8, BeginInv
<1>2. CASE ImportWrite(w)
  <2>1. req[w].new \in Seq(Row)
    BY <1>2, WorkerRequest, RequestKinds DEF ImportWrite, At, ImportReq
  <2> DEFINE s == req[w].new
  <2>2. rows' = rows \o s
    BY <1>2 DEF ImportWrite
  <2> HIDE DEF s
  <2>3. s \in Seq(Row)
    BY <2>1 DEF s
  <2>4. rows' \in Seq(Row) /\ Len(rows') = Len(rows) + Len(s)
    BY <2>2, <2>3, RowsAre, ConcatProperties
  <2>5. DOMAIN rows \subseteq DOMAIN rows'
    BY <2>3, <2>4, RowsAre
  <2> QED
    BY <1>2, <2>4, <2>5, RowsInv DEF ImportWrite
<1> QED
  BY <1>1, <1>2 DEF Import

\* A row is replaced by another.
LEMMA ReplaceRows ==
  ASSUME VatInv, NEW i, NEW x, i \in DOMAIN rows => x \in Row, rows' = [rows EXCEPT ![i] = x]
  PROVE  rows' \in Seq(Row) /\ DOMAIN rows' = DOMAIN rows
<1>1. CASE i \in DOMAIN rows
  BY <1>1, RowsAre, ExceptSeq
<1>2. CASE i \notin DOMAIN rows
  <2>1. rows' = rows
    BY <1>2, RowsAre
  <2> QED
    BY <2>1, RowsAre
<1> QED
  BY <1>1, <1>2

LEMMA ClearTypes ==
  ASSUME VatInv, NEW w \in Workers, Clear(w)
  PROVE  VatInv'
<1>1. PICK i \in DOMAIN rows :
          /\ rows' = [rows EXCEPT ![i].cleared = TRUE]
          /\ UNCHANGED <<settings, returns, saved, pages, posted, req>>
  BY DEF Clear, browsers
<1> DEFINE x == [rows[i] EXCEPT !.cleared = TRUE]
<1>2. x \in Row
  BY RowsAre DEF Row
<1>3. rows' = [rows EXCEPT ![i] = x]
  BY <1>1
<1> HIDE DEF x
<1>4. rows' \in Seq(Row) /\ DOMAIN rows' = DOMAIN rows
  BY <1>2, <1>3, ReplaceRows
<1>5. TypeOK'
  BY <1>1, <1>4 DEF VatInv, TypeOK
<1>6. \A v \in Workers : Sound(req[v])'
  BY <1>1, <1>4 DEF VatInv, Sound
<1> QED
  BY <1>1, <1>5, <1>6 DEF VatInv

LEMMA ReverseTypes ==
  ASSUME VatInv, NEW w \in Workers, Reverse(w)
  PROVE  VatInv'
<1>1. CASE ReverseRead(w)
  <2>1. PICK i \in DOMAIN rows, today \in Today : ReverseRead(w)!(i, today)
    BY <1>1 DEF ReverseRead
  <2> DEFINE r == [op |-> "reverse", at |-> IF rows[i].key = NoKey THEN "write" ELSE "vat",
                   row |-> i, copy |-> rows[i], today |-> today]
  <2>2. r \in ReverseReq
    BY RowsAre DEF ReverseReq
  <2>3. r \in Request /\ Sound(r) /\ Begin(w, r)
    BY <2>1, <2>2 DEF Request, Sound
  <2> HIDE DEF r
  <2> QED
    BY <2>3, BeginInv
<1>2. CASE ReverseVat(w)
  <2> DEFINE r == [req[w] EXCEPT !.at = "write"]
  <2>1. req[w] \in ReverseReq /\ Sound(req[w]) /\ req[w].op = "reverse"
    BY <1>2, WorkerRequest, RequestKinds DEF ReverseVat, At
  <2>2. r \in ReverseReq /\ r.op = "reverse" /\ r.row = req[w].row
    BY <2>1 DEF ReverseReq
  <2>3. PICK ok : Proceed(w, ok, r)
    BY <1>2 DEF ReverseVat
  <2>4. r \in Request /\ Sound(r)
    BY <2>1, <2>2 DEF Request, Sound
  <2> HIDE DEF r
  <2> QED
    BY <2>3, <2>4, ProceedInv
<1>3. CASE ReverseWrite(w)
  <2> SUFFICES ASSUME NEW i, i = req[w].row PROVE VatInv'
    OBVIOUS
  <2> DEFINE x == Leg(req[w])
             e == [rows[i] EXCEPT !.reversed = TRUE]
             t == [rows EXCEPT ![i] = e]
  <2>1. req[w] \in ReverseReq /\ Sound(req[w]) /\ req[w].op = "reverse"
    BY <1>3, WorkerRequest, RequestKinds DEF ReverseWrite, At
  <2>2. x \in Row
    <3>1. req[w].copy \in Row /\ req[w].today \in Nat \ {0} /\ req[w].row \in Nat
      BY <2>1, MonthsAssumption DEF ReverseReq
    <3> QED
      BY <3>1 DEF Leg, Row, Opposite, Kinds
  <2>3. i \in DOMAIN rows
    BY <2>1 DEF Sound
  <2>4. e \in Row
    BY <2>3, RowsAre, ZenonT(30) DEF Row
  <2>5. rows' = Append(t, x)
    BY <1>3 DEF ReverseWrite
  <2>6. t \in Seq(Row) /\ Len(t) = Len(rows)
    BY <2>3, <2>4, RowsAre, ExceptSeq
  <2> HIDE DEF x, e, t
  <2>7. rows' \in Seq(Row) /\ Len(rows') = Len(rows) + 1
    BY <2>2, <2>5, <2>6, AppendProperties
  <2>8. DOMAIN rows \subseteq DOMAIN rows'
    BY <2>7, RowsAre
  <2> QED
    BY <1>3, <2>7, <2>8, RowsInv DEF ReverseWrite
<1> QED
  BY <1>1, <1>2, <1>3 DEF Reverse

LEMMA ExcludeTypes ==
  ASSUME VatInv, NEW w \in Workers, Exclude(w)
  PROVE  VatInv'
<1>1. CASE ExcludeBegin(w)
  <2>1. PICK i \in DOMAIN rows : Begin(w, [op |-> "exclude", at |-> "write", row |-> i])
    BY <1>1 DEF ExcludeBegin
  <2> DEFINE r == [op |-> "exclude", at |-> "write", row |-> i]
  <2>2. r \in ExcludeReq
    BY RowsAre DEF ExcludeReq
  <2>3. r \in Request /\ Sound(r) /\ Begin(w, r)
    BY <2>1, <2>2 DEF Request, Sound
  <2> HIDE DEF r
  <2> QED
    BY <2>3, BeginInv
<1>2. CASE ExcludeWrite(w)
  <2> SUFFICES ASSUME NEW i, i = req[w].row PROVE VatInv'
    OBVIOUS
  <2> DEFINE x == [rows[i] EXCEPT !.excluded = TRUE]
  <2>1. i \in DOMAIN rows => x \in Row
    BY RowsAre DEF Row
  <2>2. rows' = [rows EXCEPT ![i] = x]
    BY <1>2 DEF ExcludeWrite
  <2> HIDE DEF x
  <2>3. rows' \in Seq(Row) /\ DOMAIN rows' = DOMAIN rows
    BY <2>1, <2>2, ReplaceRows
  <2> QED
    BY <1>2, <2>3, RowsInv DEF ExcludeWrite
<1> QED
  BY <1>1, <1>2 DEF Exclude

LEMMA EditTypes ==
  ASSUME VatInv, NEW w \in Workers, Edit(w)
  PROVE  VatInv'
<1>1. CASE EditBegin(w)
  <2>1. PICK i \in DOMAIN rows, vat \in EditedVat :
            Begin(w, [op |-> "edit", at |-> "row", row |-> i, vat |-> vat])
    BY <1>1 DEF EditBegin
  <2> DEFINE r == [op |-> "edit", at |-> "row", row |-> i, vat |-> vat]
  <2>2. r \in EditReq
    BY RowsAre DEF EditReq
  <2>3. r \in Request /\ Sound(r) /\ Begin(w, r)
    BY <2>1, <2>2 DEF Request, Sound
  <2> HIDE DEF r
  <2> QED
    BY <2>3, BeginInv
<1>2. CASE EditRow(w)
  <2> SUFFICES ASSUME NEW i, i = req[w].row, NEW key, key = rows[i].key PROVE VatInv'
    OBVIOUS
  <2> DEFINE r == [op |-> "edit", at |-> IF key = NoKey THEN "write" ELSE "vat",
                   row |-> i, key |-> key, vat |-> req[w].vat]
  <2>1. req[w] \in EditReq /\ Sound(req[w]) /\ req[w].op = "edit"
    BY <1>2, WorkerRequest, RequestKinds DEF EditRow, At
  <2>2. i \in DOMAIN rows /\ i \in Nat /\ req[w].vat \in EditedVat
    BY <2>1 DEF Sound, EditReq
  <2>3. key \in Nat \cup {NoKey}
    BY <2>2, RowsAre DEF Row
  <2>4. r \in EditKeyReq
    BY <2>2, <2>3 DEF EditKeyReq
  <2>5. r \in Request /\ Sound(r)
    BY <2>2, <2>4 DEF Request, Sound
  <2>6. Proceed(w, TRUE, r)
    BY <1>2 DEF EditRow
  <2> HIDE DEF r
  <2> QED
    BY <2>5, <2>6, ProceedInv
<1>3. CASE EditVat(w)
  <2> DEFINE r == [req[w] EXCEPT !.at = "write"]
  <2>1. req[w] \in EditKeyReq /\ Sound(req[w]) /\ req[w].op = "edit"
    BY <1>3, WorkerRequest, RequestKinds DEF EditVat, At
  <2>2. r \in EditKeyReq /\ r.op = "edit" /\ r.row = req[w].row
    BY <2>1 DEF EditKeyReq
  <2>3. PICK ok : Proceed(w, ok, r)
    BY <1>3 DEF EditVat
  <2>4. r \in Request /\ Sound(r)
    BY <2>1, <2>2 DEF Request, Sound
  <2> HIDE DEF r
  <2> QED
    BY <2>3, <2>4, ProceedInv
<1>4. CASE EditWrite(w)
  <2> SUFFICES ASSUME NEW i, i = req[w].row PROVE VatInv'
    OBVIOUS
  <2> DEFINE x == [rows[i] EXCEPT !.vat = req[w].vat, !.review = TRUE]
  <2>1. req[w] \in EditKeyReq /\ i \in DOMAIN rows
    BY <1>4, WorkerRequest, RequestKinds DEF EditWrite, At, Sound
  <2>2. req[w].vat \in Nat
    BY <2>1, VatAssumption DEF EditKeyReq
  <2>3. x \in Row
    BY <2>1, <2>2, RowsAre, ZenonT(30) DEF Row
  <2>4. rows' = [rows EXCEPT ![i] = x]
    BY <1>4, <2>1, RowsAre DEF EditWrite
  <2> HIDE DEF x
  <2>5. rows' \in Seq(Row) /\ DOMAIN rows' = DOMAIN rows
    BY <2>3, <2>4, ReplaceRows
  <2> QED
    BY <1>4, <2>5, RowsInv DEF EditWrite
<1> QED
  BY <1>1, <1>2, <1>3, <1>4 DEF Edit

LEMMA ContextTypes ==
  ASSUME VatInv, NEW w \in Workers, Context(w)
  PROVE  VatInv'
<1>1. CASE ContextSettings(w)
  <2>1. PICK op \in {"view", "month"}, c \in Cycles, m \in Today :
            ContextSettings(w)!(op, c, m)
    BY <1>1 DEF ContextSettings
  <2> DEFINE r == Scope(op, QuarterEnd(c, m), NoBoxes)
  <2>2. QuarterEnd(c, m) \in Nat
    BY MonthsAssumption, QuarterIs
  <2>3. settings.cycle \in Cycles /\ settings.start \in Starts
    BY <2>1 DEF VatInv, TypeOK
  <2>4. r \in ScopeReq
    BY <2>2, <2>3 DEF ScopeReq, Scope
  <2>5. r \in Request /\ Sound(r) /\ Begin(w, r)
    BY <2>1, <2>4 DEF Request, Sound, Scope
  <2> HIDE DEF r
  <2> QED
    BY <2>5, BeginInv
<1>3. CASE SubmitSettings(w)
  <2>0. PICK page \in pages :
            \E form \in [output : {page.final.output} \cup OutputsTyped,
                         input : {page.final.input} \cup InputsTyped] :
                /\ settings.cycle # NoCycle
                /\ req' = [req EXCEPT ![w] = Scope("submit", page.key, form)]
                /\ posted' = posted \cup {form}
                /\ UNCHANGED <<settings, rows, returns, saved, pages>>
    BY <1>3 DEF SubmitSettings, tables
  <2>1. PICK form \in [output : {page.final.output} \cup OutputsTyped,
                       input : {page.final.input} \cup InputsTyped] :
            /\ settings.cycle # NoCycle
            /\ req' = [req EXCEPT ![w] = Scope("submit", page.key, form)]
            /\ posted' = posted \cup {form}
            /\ UNCHANGED <<settings, rows, returns, saved, pages>>
    BY <2>0
  <2>2. page \in Page /\ posted \subseteq Boxes
    BY DEF VatInv, TypeOK
  <2>3. form \in Boxes
    BY <2>2, TypedAssumption DEF Page, Boxes, OutputsTyped, InputsTyped
  <2>4. settings.cycle \in Cycles /\ settings.start \in Starts
    BY <2>1 DEF VatInv, TypeOK
  <2> DEFINE r == Scope("submit", page.key, form)
  <2>5. r \in ScopeReq
    BY <2>2, <2>3, <2>4 DEF ScopeReq, Scope, Page
  <2>6. r \in Request /\ Sound(r)
    BY <2>3, <2>5 DEF Request, Sound, Scope
  <2>7. /\ req' = [req EXCEPT ![w] = r] /\ posted' = posted \cup {form}
        /\ UNCHANGED <<settings, rows, returns, saved, pages>>
    BY <2>1
  <2> HIDE DEF r
  <2>8. req' \in [Workers -> Request] /\ \A v \in Workers : Sound(req[v])'
    BY <2>6, <2>7, NewRequest
  <2>9. TypeOK'
    BY <2>2, <2>3, <2>7, <2>8 DEF VatInv, TypeOK
  <2> QED
    BY <2>7, <2>8, <2>9 DEF VatInv
<1>2. CASE ContextRows(w)
  <2> SUFFICES ASSUME NEW q, q = QuarterEnd(req[w].cycle, req[w].key),
                      NEW boxes, boxes = Figures(q, req[w].start),
                      NEW active, active = ActiveMonths(q, req[w].start),
                      NEW awaits, awaits = AwaitsReview(q, req[w].start)
               PROVE  VatInv'
    OBVIOUS
  <2> DEFINE r == [op |-> req[w].op, at |-> "return", form |-> req[w].form,
                   key |-> req[w].key, quarter |-> q, boxes |-> boxes,
                   active |-> active, unreviewed |-> awaits]
  <2>1. req[w] \in ScopeReq
    BY <1>2, WorkerRequest, RequestKinds DEF ContextRows
  <2>2. /\ q \in Nat /\ req[w].key \in Nat /\ req[w].op \in {"view", "submit", "month"}
        /\ req[w].form \in Boxes \cup {NoBoxes}
        /\ req[w].op = "submit" => req[w].form \in Boxes
    BY <2>1, QuarterIs, WorkerRequest DEF ScopeReq, Sound
  <2>3. boxes \in Boxes /\ active \in SUBSET Nat /\ awaits \in BOOLEAN
    BY FiguresAre
  <2>4. r \in FiguresReq
    BY <2>2, <2>3 DEF FiguresReq
  <2>5. r \in Request /\ Sound(r)
    BY <2>2, <2>4 DEF Request, Sound
  <2>6. Proceed(w, TRUE, r)
    BY <1>2 DEF ContextRows
  <2> HIDE DEF r
  <2> QED
    BY <2>5, <2>6, ProceedInv
<1> QED
  BY <1>1, <1>2, <1>3 DEF Context

LEMMA PrepareTypes ==
  ASSUME VatInv, NEW w \in Workers, Prepare(w)
  PROVE  VatInv'
<1>1. ASSUME NEW op \in {"view", "submit"}, NEW final \in Boxes, req[w] \in FiguresReq
      PROVE  LET r == [op |-> op, at |-> "draft", key |-> req[w].key, quarter |-> req[w].quarter,
                       boxes |-> req[w].boxes, final |-> final]
             IN  r \in Request /\ Sound(r)
  <2> DEFINE r == [op |-> op, at |-> "draft", key |-> req[w].key,
                   quarter |-> req[w].quarter, boxes |-> req[w].boxes, final |-> final]
  <2>1. r \in DraftReq
    BY <1>1 DEF FiguresReq, DraftReq
  <2> QED
    BY <1>1, <2>1 DEF Request, Sound
<1>2. CASE ViewReturn(w)
  <2> SUFFICES ASSUME NEW shown, shown = UserFigures(req[w].quarter, req[w].boxes)
               PROVE  VatInv'
    OBVIOUS
  <2>1. req[w] \in FiguresReq
    BY <1>2, WorkerRequest, RequestKinds DEF ViewReturn, At
  <2>2. shown \in Boxes /\ req[w].quarter \in Nat
    BY <2>1, ShownAre DEF FiguresReq
  <2> DEFINE r == [op |-> "view", at |-> "draft", key |-> req[w].key,
                   quarter |-> req[w].quarter, boxes |-> req[w].boxes, final |-> shown]
  <2>3. r \in Request /\ Sound(r)
    BY <1>1, <2>1, <2>2
  <2>4. PICK s \in {r, NoReq} : req' = [req EXCEPT ![w] = s]
    BY <1>2 DEF ViewReturn, Finish
  <2>5. pages' \subseteq pages \cup {[key |-> req[w].quarter, final |-> shown]}
    BY <1>2 DEF ViewReturn
  <2>6. UNCHANGED <<settings, rows, returns, saved, posted>>
    BY <1>2 DEF ViewReturn, tables
  <2> HIDE DEF r
  <2>7. req' \in [Workers -> Request] /\ \A v \in Workers : Sound(req[v])'
    BY <2>3, <2>4, <2>6, NoRequest, NewRequest
  <2>8. pages' \subseteq Page
    BY <2>2, <2>5 DEF VatInv, TypeOK, Page
  <2>9. TypeOK'
    BY <2>6, <2>7, <2>8 DEF VatInv, TypeOK
  <2> QED
    BY <2>6, <2>7, <2>9 DEF VatInv
<1>3. CASE SubmitReturn(w)
  <2>1. req[w] \in FiguresReq /\ req[w].form \in Boxes
    BY <1>3, WorkerRequest, RequestKinds DEF SubmitReturn, At, Sound
  <2>2. PICK final \in [output : {req[w].form.output, req[w].boxes.output},
                        input : {req[w].form.input, req[w].boxes.input}], ok \in BOOLEAN :
            Proceed(w, ok, [op |-> "submit", at |-> "draft", key |-> req[w].key,
                            quarter |-> req[w].quarter, boxes |-> req[w].boxes,
                            final |-> final])
    BY <1>3 DEF SubmitReturn, Submittable, Locked
  <2>3. final \in Boxes
    BY <2>1, <2>2 DEF FiguresReq, Boxes
  <2> QED
    BY <1>1, <2>1, <2>2, <2>3, ProceedInv
<1>4. CASE SaveDraft(w)
  <2>1. req[w] \in DraftReq
    BY <1>4, WorkerRequest, RequestKinds DEF SaveDraft
  <2>2. /\ returns' = WithDraft(req[w]) /\ UNCHANGED <<settings, rows, saved, posted>>
        /\ pages' \subseteq pages \cup {[key |-> req[w].quarter, final |-> req[w].final]}
    BY <1>4 DEF SaveDraft
  <2>3. Draft(req[w]) \in Return /\ req[w].quarter \in Nat
    BY <2>1 DEF DraftReq, Draft, Return
  <2>4. DOMAIN returns' \subseteq Nat /\ \A q \in DOMAIN returns' : returns'[q] \in Return
    BY <2>2, <2>3 DEF WithDraft, Locked, VatInv, TypeOK
  <2> DEFINE s == [op |-> "submit", at |-> "lock", key |-> req[w].key, final |-> req[w].final]
             r == IF req[w].op = "submit" THEN s ELSE NoReq
  <2>5. s \in SubmitReq
    BY <2>1 DEF DraftReq, SubmitReq
  <2>6. s \in Request /\ Sound(s)
    BY <2>5 DEF Request, Sound
  <2>7. req' = [req EXCEPT ![w] = r]
    BY <1>4 DEF SaveDraft
  <2>8. r \in Request /\ Sound(r)
    BY <2>6, NoRequest
  <2> HIDE DEF r, s
  <2>9. req' \in [Workers -> Request] /\ \A v \in Workers : Sound(req[v])'
    BY <2>2, <2>7, <2>8, NewRequest
  <2>11. pages' \subseteq Page
    BY <2>1, <2>2 DEF VatInv, TypeOK, Page, DraftReq
  <2>10. TypeOK'
    BY <2>2, <2>4, <2>9, <2>11 DEF VatInv, TypeOK
  <2> QED
    BY <2>2, <2>9, <2>10 DEF VatInv
<1> QED
  BY <1>2, <1>3, <1>4 DEF Prepare

LEMMA SubmitTypes ==
  ASSUME VatInv, NEW w \in Workers, Submit(w)
  PROVE  VatInv'
<1>1. CASE SubmitLock(w)
  <2> DEFINE r == [req[w] EXCEPT !.at = "write"]
  <2>1. req[w] \in SubmitReq
    BY <1>1, WorkerRequest, RequestKinds DEF SubmitLock, At
  <2>2. r \in SubmitReq /\ r.op = "submit"
    BY <2>1 DEF SubmitReq
  <2>3. r \in Request /\ Sound(r)
    BY <2>2 DEF Request, Sound
  <2>4. PICK ok : Proceed(w, ok, r)
    BY <1>1 DEF SubmitLock
  <2> HIDE DEF r
  <2> QED
    BY <2>3, <2>4, ProceedInv
<1>2. CASE SubmitWrite(w)
  <2> SUFFICES ASSUME NEW k, k = req[w].key PROVE VatInv'
    OBVIOUS
  <2>1. req[w] \in SubmitReq
    BY <1>2, WorkerRequest, RequestKinds DEF SubmitWrite, At
  <2>2. k \in Nat /\ req[w].final \in Boxes
    BY <2>1 DEF SubmitReq
  <2> DEFINE x == [calc |-> IF k \in DOMAIN returns THEN returns[k].calc ELSE NoBoxes,
                   final |-> req[w].final, locked |-> TRUE]
  <2>3. x \in Return
    BY <2>2 DEF Return, VatInv, TypeOK
  <2>4. /\ returns' = [q \in DOMAIN returns \cup {k} |-> IF q # k THEN returns[q] ELSE x]
        /\ Finish(w) /\ UNCHANGED <<settings, rows, saved, pages, posted>>
    BY <1>2 DEF SubmitWrite, browsers
  <2> HIDE DEF x
  <2>5. DOMAIN returns' \subseteq Nat /\ \A q \in DOMAIN returns' : returns'[q] \in Return
    BY <2>2, <2>3, <2>4 DEF VatInv, TypeOK
  <2>6. req' \in [Workers -> Request] /\ \A v \in Workers : Sound(req[v])'
    BY <2>4, EndInv
  <2>7. TypeOK'
    BY <2>4, <2>5, <2>6 DEF VatInv, TypeOK
  <2> QED
    BY <2>4, <2>6, <2>7 DEF VatInv
<1> QED
  BY <1>1, <1>2 DEF Submit

LEMMA SaveMonthTypes ==
  ASSUME VatInv, NEW w \in Workers, SaveMonth(w)
  PROVE  VatInv'
<1>1. CASE MonthReturn(w)
  <2> DEFINE r == [op |-> "month", at |-> "write", quarter |-> req[w].quarter,
                   active |-> req[w].active]
  <2>1. req[w] \in FiguresReq
    BY <1>1, WorkerRequest, RequestKinds DEF MonthReturn, At
  <2>2. r \in MonthReq
    BY <2>1 DEF FiguresReq, MonthReq
  <2>3. r \in Request /\ Sound(r)
    BY <2>2 DEF Request, Sound
  <2>4. PICK ok : Proceed(w, ok, r)
    BY <1>1 DEF MonthReturn
  <2> HIDE DEF r
  <2> QED
    BY <2>3, <2>4, ProceedInv
<1>2. CASE MonthWrite(w)
  <2>1. req[w] \in MonthReq
    BY <1>2, WorkerRequest, RequestKinds DEF MonthWrite, At
  <2>2. PICK m \in req[w].active : saved' = saved \cup {<<req[w].quarter, m>>}
    BY <1>2 DEF MonthWrite
  <2>3. saved' \subseteq Nat \X Nat
    BY <2>1, <2>2 DEF MonthReq, VatInv, TypeOK
  <2>4. Finish(w) /\ UNCHANGED <<settings, rows, returns, pages, posted>>
    BY <1>2 DEF MonthWrite, browsers
  <2>5. req' \in [Workers -> Request] /\ \A v \in Workers : Sound(req[v])'
    BY <2>4, EndInv
  <2>6. TypeOK'
    BY <2>3, <2>4, <2>5 DEF VatInv, TypeOK
  <2> QED
    BY <2>4, <2>5, <2>6 DEF VatInv
<1> QED
  BY <1>1, <1>2 DEF SaveMonth

LEMMA SetupTypes ==
  ASSUME VatInv, NEW w \in Workers, Setup(w)
  PROVE  VatInv'
<1>1. CASE SetupRead(w)
  <2>1. PICK c \in Cycles, s \in Starts : SetupRead(w)!(c, s)
    BY <1>1 DEF SetupRead
  <2> DEFINE at == IF settings.cycle \in {NoCycle, c} THEN "save" ELSE "scope"
             r == [op |-> "setup", at |-> at, old |-> settings.cycle, cycle |-> c, start |-> s]
  <2>2. settings.cycle \in Cycles \cup {NoCycle}
    BY DEF VatInv, TypeOK
  <2>3. at \in {"scope", "save"} /\ (at = "scope" => settings.cycle # NoCycle) /\ Begin(w, r)
    BY <2>1
  <2> HIDE DEF at
  <2>4. r \in SetupReq
    BY <2>2, <2>3 DEF SetupReq
  <2>5. r \in Request /\ Sound(r)
    BY <2>3, <2>4 DEF Request, Sound
  <2> HIDE DEF r
  <2> QED
    BY <2>3, <2>5, BeginInv
<1>2. CASE SetupScope(w)
  <2>1. req[w] \in SetupReq /\ Sound(req[w]) /\ req[w].op = "setup" /\ req[w].at = "scope"
    BY <1>2, WorkerRequest, RequestKinds DEF SetupScope, At
  <2>2. req[w].old \in Cycles
    BY <2>1 DEF SetupReq, Sound
  <2>3. PICK today \in Today :
            Proceed(w, TRUE,
               [op |-> "setup", at |-> "return", old |-> req[w].old, cycle |-> req[w].cycle,
                start |-> req[w].start, quarter |-> QuarterEnd(req[w].old, today),
                since |-> settings.start])
    BY <1>2 DEF SetupScope
  <2> DEFINE r == [op |-> "setup", at |-> "return", old |-> req[w].old, cycle |-> req[w].cycle,
                   start |-> req[w].start, quarter |-> QuarterEnd(req[w].old, today),
                   since |-> settings.start]
  <2>8. today \in Nat /\ req[w].old \in Cycles
    BY <2>2, MonthsAssumption
  <2>9. QuarterEnd(req[w].old, today) \in Nat
    BY <2>8, QuarterIs
  <2>11. settings.start \in Nat
    BY SettingsAre
  <2>4. QuarterEnd(req[w].old, today) \in Nat /\ settings.start \in Nat
    BY <2>9, <2>11
  <2>5. r \in CheckReq
    BY <2>1, <2>2, <2>4 DEF SetupReq, CheckReq
  <2>6. r \in Request /\ Sound(r)
    BY <2>5 DEF Request, Sound
  <2>7. Proceed(w, TRUE, r)
    BY <2>3
  <2> HIDE DEF r
  <2> QED
    BY <2>6, <2>7, ProceedInv
<1>3. ASSUME req[w] \in CheckReq
      PROVE  ToSave(req[w]) \in Request /\ Sound(ToSave(req[w]))
  <2>1. ToSave(req[w]) \in SetupReq /\ ToSave(req[w]).op = "setup" /\ ToSave(req[w]).at = "save"
    BY <1>3 DEF CheckReq, SetupReq, ToSave
  <2> QED
    BY <2>1 DEF Request, Sound
<1>4. CASE SetupReturn(w)
  <2>1. req[w] \in CheckReq
    BY <1>4, WorkerRequest, RequestKinds DEF SetupReturn, At
  <2> DEFINE s == [req[w] EXCEPT !.at = "rows"]
             r == IF Locked(req[w].quarter) THEN ToSave(req[w]) ELSE s
  <2>2. s \in CheckReq /\ s.op = "setup" /\ s.at = "rows"
    BY <2>1 DEF CheckReq
  <2>3. s \in Request /\ Sound(s)
    BY <2>2 DEF Request, Sound
  <2>4. Proceed(w, TRUE, r)
    BY <1>4 DEF SetupReturn
  <2>5. r \in Request /\ Sound(r)
    BY <1>3, <2>1, <2>3
  <2> HIDE DEF r
  <2> QED
    BY <2>4, <2>5, ProceedInv
<1>5. CASE SetupRows(w)
  <2>1. req[w] \in CheckReq
    BY <1>5, WorkerRequest, RequestKinds DEF SetupRows, At
  <2>2. PICK ok : Proceed(w, ok, ToSave(req[w]))
    BY <1>5 DEF SetupRows
  <2> QED
    BY <1>3, <2>1, <2>2, ProceedInv
<1>6. CASE SetupSave(w)
  <2>1. req[w] \in SetupReq
    BY <1>6, WorkerRequest, RequestKinds DEF SetupSave, At
  <2> DEFINE s == [op |-> "setup", at |-> "recalc", cycle |-> req[w].cycle]
             r == IF req[w].old \in {NoCycle, req[w].cycle} THEN NoReq ELSE s
  <2>2. s \in RecalcReq
    BY <2>1 DEF SetupReq, RecalcReq
  <2>3. s \in Request /\ Sound(s)
    BY <2>2 DEF Request, Sound
  <2>4. r \in Request /\ Sound(r)
    BY <2>3, NoRequest
  <2>5. /\ settings' = [cycle |-> req[w].cycle, start |-> req[w].start]
        /\ req' = [req EXCEPT ![w] = r] /\ UNCHANGED <<rows, returns, saved, pages, posted>>
    BY <1>6 DEF SetupSave, browsers
  <2> HIDE DEF r
  <2>6. req' \in [Workers -> Request] /\ \A v \in Workers : Sound(req[v])'
    BY <2>4, <2>5, NewRequest
  <2>7. req[w].cycle \in Cycles /\ req[w].start \in Starts
    BY <2>1 DEF SetupReq
  <2>8. TypeOK' /\ settings'.start \in Starts
    BY <2>5, <2>6, <2>7 DEF VatInv, TypeOK
  <2> QED
    BY <2>6, <2>8 DEF VatInv
<1>7. CASE SetupRecalc(w)
  <2>1. req[w].cycle \in Cycles
    BY <1>7, WorkerRequest, RequestKinds DEF SetupRecalc, At, RecalcReq
  <2> DEFINE f == [i \in DOMAIN rows |->
                      [rows[i] EXCEPT !.key = QuarterEnd(req[w].cycle, rows[i].date)]]
  <2>2. ASSUME NEW i \in DOMAIN rows
        PROVE  [rows[i] EXCEPT !.key = QuarterEnd(req[w].cycle, rows[i].date)] \in Row
    <3>1. rows[i] \in Row
      BY RowsAre
    <3>2. QuarterEnd(req[w].cycle, rows[i].date) \in Nat
      BY <2>1, <3>1, QuarterIs DEF Row
    <3> QED
      BY <3>1, <3>2 DEF Row
  <2>3. f \in [1..Len(rows) -> Row]
    BY <2>2, RowsAre
  <2>4. rows' = f
    BY <1>7 DEF SetupRecalc
  <2> HIDE DEF f
  <2>5. rows' \in Seq(Row) /\ DOMAIN rows' = DOMAIN rows
    BY <2>3, <2>4, RowsAre, SeqDef
  <2> QED
    BY <1>7, <2>5, RowsInv DEF SetupRecalc
<1>8. CASE Deactivate(w)
  <2>1. /\ UNCHANGED <<rows, returns, saved, pages, posted, req>>
        /\ settings' = [cycle |-> NoCycle, start |-> 0]
    BY <1>8 DEF Deactivate, browsers
  <2>2. TypeOK' /\ settings'.cycle = NoCycle
    BY <2>1 DEF VatInv, TypeOK
  <2>3. \A v \in Workers : Sound(req[v])'
    BY <2>1 DEF VatInv, Sound
  <2> QED
    BY <2>2, <2>3 DEF VatInv
<1> QED
  BY <1>1, <1>2, <1>4, <1>5, <1>6, <1>7, <1>8 DEF Setup

LEMMA VatInit == Init => VatInv
<1> SUFFICES ASSUME Init PROVE VatInv
  OBVIOUS
<1>1. TypeOK
  BY NoRequest DEF Init, TypeOK
<1>2. \A w \in Workers : Sound(req[w])
  BY NoRequest DEF Init
<1> QED
  BY <1>1, <1>2 DEF Init, VatInv

LEMMA VatStep == VatInv /\ [Next]_vars => VatInv'
<1> SUFFICES ASSUME VatInv, [Next]_vars PROVE VatInv'
  OBVIOUS
<1>1. ASSUME NEW w \in Workers, Abort(w) PROVE VatInv'
  BY <1>1, NoRequest, MoveInv DEF Abort, Finish
<1>2. ASSUME NEW w \in Workers, Step(w) PROVE VatInv'
  BY <1>1, <1>2, ImportTypes, ClearTypes, ReverseTypes, ExcludeTypes, EditTypes, ContextTypes,
     PrepareTypes, SubmitTypes, SaveMonthTypes, SetupTypes DEF Step
<1>3. CASE UNCHANGED vars
  <2>1. TypeOK'
    BY <1>3 DEF vars, VatInv, TypeOK
  <2>2. \A v \in Workers : Sound(req[v])'
    BY <1>3 DEF vars, VatInv, Sound
  <2> QED
    BY <1>3, <2>1, <2>2 DEF vars, VatInv
<1> QED
  BY <1>2, <1>3 DEF Next

LEMMA VatAlways == Spec => []VatInv
  BY VatInit, VatStep, PTL DEF Spec

\* Every table and request keeps to its columns: the figures that a return is
\* drafted with are whole pounds and pence, its quarter one of the calendar,
\* and a request edits, excludes or reverses a row that exists (lib/vat.py).
THEOREM VatTypes == Spec => []TypeOK
<1>1. VatInv => TypeOK
  BY DEF VatInv
<1> QED
  BY <1>1, VatAlways, PTL

-----------------------------------------------------------------------------
(* Requests served one at a time: what a request has read or checked is     *)
(* still so when it goes on.                                                *)

FreshScope(r) ==
    r.op \in {"view", "submit", "month"} /\ r.at = "rows" =>
        /\ r.cycle = settings.cycle /\ settings.cycle # NoCycle
        /\ r.start = settings.start

FreshFigures(r) ==
    r.op \in {"view", "submit", "month"} /\ r.at = "return" =>
        /\ settings.cycle # NoCycle
        /\ r.quarter = QuarterEnd(settings.cycle, r.key)
        /\ r.boxes = Figures(r.quarter, settings.start)
        /\ ~r.unreviewed => ~AwaitsReview(r.quarter, settings.start)

FreshDraft(r) ==
    r.op = "submit" /\ r.at = "draft" =>
        /\ settings.cycle # NoCycle
        /\ r.quarter = QuarterEnd(settings.cycle, r.key)
        /\ r.boxes = Figures(r.quarter, settings.start)
        /\ ~AwaitsReview(r.quarter, settings.start)
        /\ ~Locked(r.quarter)

\* The form's key is the drafted quarter unless it is of another cycle.
FreshSubmission(r) ==
    /\ r.op = "submit" /\ r.at \in {"lock", "write"} /\ InCycle(r.key) =>
           /\ r.key \in DOMAIN returns
           /\ returns[r.key].calc = Figures(r.key, settings.start)
           /\ ~AwaitsReview(r.key, settings.start)
    /\ r.op = "submit" /\ r.at = "write" => ~Locked(r.key)

FreshRow(r) ==
    /\ r.op = "reverse" => r.copy = rows[r.row]
    /\ r.op = "reverse" /\ r.at = "write" => r.copy.key = NoKey \/ ~Locked(r.copy.key)
    /\ r.op = "edit" /\ r.at # "row" => r.key = rows[r.row].key
    /\ r.op = "edit" /\ r.at = "write" => r.key = NoKey \/ ~Locked(r.key)

Fresh(r) ==
    /\ FreshScope(r) /\ FreshFigures(r) /\ FreshDraft(r) /\ FreshSubmission(r)
    /\ FreshRow(r)
    /\ r.op = "month" /\ r.at = "write" => ~Locked(r.quarter)

LEMMA FreshOther ==
  ASSUME NEW r, r.op \notin {"view", "submit", "month", "reverse", "edit"}
  PROVE  Fresh(r)
  BY DEF Fresh, FreshScope, FreshFigures, FreshDraft, FreshSubmission, FreshRow

LEMMA FreshOtherNext ==
  ASSUME NEW r, r.op \notin {"view", "submit", "month", "reverse", "edit"}
  PROVE  Fresh(r)'
  BY DEF Fresh, FreshScope, FreshFigures, FreshDraft, FreshSubmission, FreshRow

LEMMA FreshNone == Fresh(NoReq)'
  BY FreshOtherNext DEF NoReq

LEMMA FreshMove ==
  ASSUME VatInv, NEW w \in Workers, NEW r, req' = [req EXCEPT ![w] = r], Fresh(r)'
  PROVE  Fresh(req[w])'
<1>1. req'[w] = r
  BY WorkerRequest
<1> QED
  BY <1>1 DEF Fresh, FreshScope, FreshFigures, FreshDraft, FreshSubmission, FreshRow

LEMMA FreshProceed ==
  ASSUME VatInv, NEW w \in Workers, NEW ok, NEW r, Proceed(w, ok, r), ok => Fresh(r)'
  PROVE  Fresh(req[w])'
<1> DEFINE s == IF ok THEN r ELSE NoReq
<1>1. Fresh(s)'
  BY FreshNone
<1>2. req' = [req EXCEPT ![w] = s]
  BY DEF Proceed
<1> HIDE DEF s
<1> QED
  BY <1>1, <1>2, FreshMove

LEMMA FreshBegin ==
  ASSUME VatInv, NEW w \in Workers, NEW r, Begin(w, r), Fresh(r)'
  PROVE  Fresh(req[w])'
  BY FreshMove DEF Begin

LEMMA FreshFinish ==
  ASSUME VatInv, NEW w \in Workers, Finish(w)
  PROVE  Fresh(req[w])'
  BY FreshNone, FreshMove DEF Finish

\* While rows and settings stay, so does what is read of them.
LEMMA ReadingsStay ==
  ASSUME UNCHANGED <<settings, rows>>
  PROVE  /\ \A q, start : /\ Figures(q, start)' = Figures(q, start)
                          /\ AwaitsReview(q, start)' <=> AwaitsReview(q, start)
         /\ \A q : InCycle(q)' <=> InCycle(q)
<1>1. ASSUME NEW kind, NEW q, NEW start PROVE VatOf(kind, q, start)' = VatOf(kind, q, start)
  BY DEF VatOf
<1>2. ASSUME NEW q, NEW start PROVE AwaitsReview(q, start)' <=> AwaitsReview(q, start)
  BY DEF AwaitsReview
<1>3. ASSUME NEW q PROVE InCycle(q)' <=> InCycle(q)
  BY DEF InCycle
<1> QED
  BY <1>1, <1>2, <1>3 DEF Figures

LEMMA LocksStay ==
  ASSUME UNCHANGED returns
  PROVE  \A q : Locked(q)' <=> Locked(q)
  BY DEF Locked

LEMMA TablesStay == ASSUME UNCHANGED tables PROVE UNCHANGED <<settings, rows, returns, saved>>
  BY DEF tables

LEMMA ProceedStays == ASSUME NEW w, NEW ok, NEW r, Proceed(w, ok, r)
                      PROVE  UNCHANGED <<settings, rows, returns, saved>>
  BY DEF Proceed, tables

LEMMA BeginStays == ASSUME NEW w, NEW r, Begin(w, r)
                    PROVE  UNCHANGED <<settings, rows, returns, saved>>
  BY DEF Begin, tables

LEMMA ReverseFresh ==
  ASSUME VatInv, NEW w \in Workers, Fresh(req[w]), Reverse(w)
  PROVE  Fresh(req[w])'
<1>1. CASE ReverseRead(w)
  <2>1. PICK i \in DOMAIN rows, today \in Today : ReverseRead(w)!(i, today)
    BY <1>1 DEF ReverseRead
  <2> SUFFICES ASSUME NEW c, c = rows[i] PROVE Fresh(req[w])'
    OBVIOUS
  <2> DEFINE r == [op |-> "reverse", at |-> IF c.key = NoKey THEN "write" ELSE "vat",
                   row |-> i, copy |-> c, today |-> today]
  <2>2. Begin(w, r)
    BY <2>1
  <2>3. UNCHANGED rows
    BY <2>2, BeginStays
  <2>4. Fresh(r)'
    BY <2>3 DEF Fresh, FreshScope, FreshFigures, FreshDraft, FreshSubmission, FreshRow
  <2> HIDE DEF r
  <2> QED
    BY <2>2, <2>4, FreshBegin
<1>2. CASE ReverseVat(w)
  <2> SUFFICES ASSUME NEW old, old = req[w] PROVE Fresh(req[w])'
    OBVIOUS
  <2> DEFINE r == [old EXCEPT !.at = "write"]
  <2>1. old \in ReverseReq /\ old.op = "reverse"
    BY <1>2, WorkerRequest, RequestKinds DEF ReverseVat, At
  <2>2. r.op = "reverse" /\ r.copy = old.copy /\ r.row = old.row /\ r.at = "write"
    BY <2>1 DEF ReverseReq
  <2>3. Proceed(w, ~Locked(old.copy.key), r)
    BY <1>2 DEF ReverseVat
  <2>4. UNCHANGED <<settings, rows, returns, saved>>
    BY <2>3, ProceedStays
  <2>5. old.copy = rows[old.row]
    BY <2>1 DEF Fresh, FreshRow
  <2>6. ~Locked(old.copy.key) => FreshRow(r)'
    BY <2>2, <2>4, <2>5, LocksStay DEF FreshRow
  <2>7. ~Locked(old.copy.key) => Fresh(r)'
    BY <2>2, <2>6 DEF Fresh, FreshScope, FreshFigures, FreshDraft, FreshSubmission
  <2> HIDE DEF r
  <2> QED
    BY <2>3, <2>7, FreshProceed
<1>3. CASE ReverseWrite(w)
  BY <1>3, FreshFinish DEF ReverseWrite
<1> QED
  BY <1>1, <1>2, <1>3 DEF Reverse

LEMMA EditFresh ==
  ASSUME VatInv, NEW w \in Workers, Fresh(req[w]), Edit(w)
  PROVE  Fresh(req[w])'
<1>1. CASE EditBegin(w)
  <2>1. PICK i \in DOMAIN rows, vat \in EditedVat :
            Begin(w, [op |-> "edit", at |-> "row", row |-> i, vat |-> vat])
    BY <1>1 DEF EditBegin
  <2> DEFINE r == [op |-> "edit", at |-> "row", row |-> i, vat |-> vat]
  <2>2. Fresh(r)'
    BY DEF Fresh, FreshScope, FreshFigures, FreshDraft, FreshSubmission, FreshRow
  <2>3. Begin(w, r)
    BY <2>1
  <2> HIDE DEF r
  <2> QED
    BY <2>2, <2>3, FreshBegin
<1>2. CASE EditRow(w)
  <2> SUFFICES ASSUME NEW i, i = req[w].row, NEW key, key = rows[i].key,
                      NEW vat, vat = req[w].vat PROVE Fresh(req[w])'
    OBVIOUS
  <2> DEFINE r == [op |-> "edit", at |-> IF key = NoKey THEN "write" ELSE "vat",
                   row |-> i, key |-> key, vat |-> vat]
  <2>1. Proceed(w, TRUE, r)
    BY <1>2 DEF EditRow
  <2>2. UNCHANGED rows
    BY <2>1, ProceedStays
  <2>3. Fresh(r)'
    BY <2>2 DEF Fresh, FreshScope, FreshFigures, FreshDraft, FreshSubmission, FreshRow
  <2> HIDE DEF r
  <2> QED
    BY <2>1, <2>3, FreshProceed
<1>3. CASE EditVat(w)
  <2> SUFFICES ASSUME NEW old, old = req[w] PROVE Fresh(req[w])'
    OBVIOUS
  <2> DEFINE r == [old EXCEPT !.at = "write"]
  <2>1. old \in EditKeyReq /\ old.op = "edit" /\ old.at # "row"
    BY <1>3, WorkerRequest, RequestKinds DEF EditVat, At
  <2>2. r.op = "edit" /\ r.key = old.key /\ r.row = old.row /\ r.at = "write"
    BY <2>1 DEF EditKeyReq
  <2>3. Proceed(w, ~Locked(old.key), r)
    BY <1>3 DEF EditVat
  <2>4. UNCHANGED <<settings, rows, returns, saved>>
    BY <2>3, ProceedStays
  <2>5. old.key = rows[old.row].key
    BY <2>1 DEF Fresh, FreshRow
  <2>6. ~Locked(old.key) => FreshRow(r)'
    BY <2>2, <2>4, <2>5, LocksStay DEF FreshRow
  <2>7. ~Locked(old.key) => Fresh(r)'
    BY <2>2, <2>6 DEF Fresh, FreshScope, FreshFigures, FreshDraft, FreshSubmission
  <2> HIDE DEF r
  <2> QED
    BY <2>3, <2>7, FreshProceed
<1>4. CASE EditWrite(w)
  BY <1>4, FreshFinish DEF EditWrite
<1> QED
  BY <1>1, <1>2, <1>3, <1>4 DEF Edit

LEMMA ContextFresh ==
  ASSUME VatInv, NEW w \in Workers, Fresh(req[w]), Context(w)
  PROVE  Fresh(req[w])'
<1>1. CASE ContextSettings(w)
  <2>1. PICK op \in {"view", "month"}, c \in Cycles, m \in Today :
            ContextSettings(w)!(op, c, m)
    BY <1>1 DEF ContextSettings
  <2> SUFFICES ASSUME NEW cycle, cycle = settings.cycle, NEW start, start = settings.start,
                      NEW key, key = QuarterEnd(c, m)
               PROVE  Fresh(req[w])'
    OBVIOUS
  <2> DEFINE r == [op |-> op, at |-> "rows", form |-> NoBoxes, key |-> key,
                   cycle |-> cycle, start |-> start]
  <2>2. Begin(w, r) /\ cycle # NoCycle
    BY <2>1 DEF Scope
  <2>3. UNCHANGED settings
    BY <2>2, BeginStays
  <2>4. Fresh(r)'
    BY <2>2, <2>3 DEF Fresh, FreshScope, FreshFigures, FreshDraft, FreshSubmission, FreshRow
  <2> HIDE DEF r
  <2> QED
    BY <2>2, <2>4, FreshBegin
<1>3. CASE SubmitSettings(w)
  <2> SUFFICES ASSUME NEW cycle, cycle = settings.cycle, NEW start, start = settings.start
               PROVE  Fresh(req[w])'
    OBVIOUS
  <2>1. PICK key, form :
            /\ cycle # NoCycle /\ UNCHANGED <<settings, rows, returns, saved>>
            /\ req' = [req EXCEPT ![w] = [op |-> "submit", at |-> "rows", form |-> form,
                                         key |-> key, cycle |-> cycle, start |-> start]]
    BY <1>3 DEF SubmitSettings, Scope, tables
  <2> DEFINE r == [op |-> "submit", at |-> "rows", form |-> form, key |-> key,
                   cycle |-> cycle, start |-> start]
  <2>2. Fresh(r)'
    BY <2>1 DEF Fresh, FreshScope, FreshFigures, FreshDraft, FreshSubmission, FreshRow
  <2>3. req' = [req EXCEPT ![w] = r]
    BY <2>1
  <2> HIDE DEF r
  <2> QED
    BY <2>2, <2>3, FreshMove
<1>2. CASE ContextRows(w)
  <2> SUFFICES ASSUME NEW old, old = req[w], NEW cycle, cycle = settings.cycle,
                      NEW start, start = settings.start,
                      NEW q, q = QuarterEnd(cycle, old.key),
                      NEW boxes, boxes = Figures(q, start),
                      NEW active, active = ActiveMonths(q, start),
                      NEW awaits, awaits = AwaitsReview(q, start)
               PROVE  Fresh(req[w])'
    OBVIOUS
  <2> DEFINE r == [op |-> old.op, at |-> "return", form |-> old.form, key |-> old.key,
                   quarter |-> q, boxes |-> boxes, active |-> active, unreviewed |-> awaits]
  <2>1. old.op \in {"view", "submit", "month"} /\ old.at = "rows"
    BY <1>2 DEF ContextRows
  <2>2. old.cycle = cycle /\ cycle # NoCycle /\ old.start = start
    BY <2>1 DEF Fresh, FreshScope
  <2>3. Proceed(w, TRUE, r)
    BY <1>2, <2>2 DEF ContextRows
  <2>4. UNCHANGED <<settings, rows, returns, saved>>
    BY <2>3, ProceedStays
  <2>5. Figures(q, start)' = boxes /\ (AwaitsReview(q, start)' <=> awaits)
    BY <2>4, ReadingsStay
  <2>6. FreshFigures(r)'
    BY <2>2, <2>4, <2>5 DEF FreshFigures
  <2>7. Fresh(r)'
    BY <2>1, <2>6 DEF Fresh, FreshScope, FreshDraft, FreshSubmission, FreshRow
  <2> HIDE DEF r
  <2> QED
    BY <2>3, <2>7, FreshProceed
<1> QED
  BY <1>1, <1>2, <1>3 DEF Context

LEMMA PrepareFresh ==
  ASSUME VatInv, NEW w \in Workers, Fresh(req[w]), Prepare(w)
  PROVE  Fresh(req[w])'
<1>1. CASE ViewReturn(w)
  <2> SUFFICES ASSUME NEW old, old = req[w], NEW final, final = UserFigures(old.quarter, old.boxes)
               PROVE  Fresh(req[w])'
    OBVIOUS
  <2> DEFINE r == [op |-> "view", at |-> "draft", key |-> old.key, quarter |-> old.quarter,
                   boxes |-> old.boxes, final |-> final]
  <2>1. PICK s \in {r, NoReq} : req' = [req EXCEPT ![w] = s]
    BY <1>1 DEF ViewReturn, Finish
  <2>2. Fresh(r)'
    BY DEF Fresh, FreshScope, FreshFigures, FreshDraft, FreshSubmission, FreshRow
  <2> HIDE DEF r
  <2>3. Fresh(s)'
    BY <2>2, FreshNone
  <2> QED
    BY <2>1, <2>3, FreshMove
<1>2. CASE SubmitReturn(w)
  <2> SUFFICES ASSUME NEW old, old = req[w], NEW cycle, cycle = settings.cycle,
                      NEW start, start = settings.start
               PROVE  Fresh(req[w])'
    OBVIOUS
  <2>1. PICK final :
          Proceed(w, Submittable(old),
              [op |-> "submit", at |-> "draft", key |-> old.key, quarter |-> old.quarter,
               boxes |-> old.boxes, final |-> final])
    BY <1>2 DEF SubmitReturn
  <2> DEFINE r == [op |-> "submit", at |-> "draft", key |-> old.key, quarter |-> old.quarter,
                   boxes |-> old.boxes, final |-> final]
  <2>2. Proceed(w, Submittable(old), r)
    BY <2>1
  <2>3. UNCHANGED <<settings, rows, returns, saved>>
    BY <2>2, ProceedStays
  <2>4. /\ cycle # NoCycle /\ old.quarter = QuarterEnd(cycle, old.key)
        /\ old.boxes = Figures(old.quarter, start)
        /\ ~old.unreviewed => ~AwaitsReview(old.quarter, start)
    BY <1>2 DEF SubmitReturn, At, Fresh, FreshFigures
  <2> SUFFICES ASSUME NEW q, q = old.quarter, Submittable(old) PROVE Fresh(r)'
    <3> HIDE DEF r
    <3> QED
      BY <2>2, FreshProceed
  <2>5. ~Locked(q)' /\ Figures(q, start)' = old.boxes /\ ~AwaitsReview(q, start)'
    BY <2>3, <2>4, ReadingsStay, LocksStay DEF Submittable
  <2>6. FreshDraft(r)'
    BY <2>3, <2>4, <2>5 DEF FreshDraft
  <2> QED
    BY <2>6 DEF Fresh, FreshScope, FreshFigures, FreshSubmission, FreshRow
<1>3. CASE SaveDraft(w)
  <2> SUFFICES ASSUME NEW old, old = req[w], NEW cycle, cycle = settings.cycle,
                      NEW start, start = settings.start, NEW k, k = old.key
               PROVE  Fresh(req[w])'
    OBVIOUS
  <2>1. returns' = WithDraft(old) /\ UNCHANGED <<settings, rows, saved>>
    BY <1>3 DEF SaveDraft
  <2> DEFINE s == [op |-> "submit", at |-> "lock", key |-> k, final |-> old.final]
             r == IF old.op = "submit" THEN s ELSE NoReq
  <2>2. req' = [req EXCEPT ![w] = r]
    BY <1>3 DEF SaveDraft
  <2>3. ASSUME old.op = "submit", InCycle(k)
        PROVE  k \in DOMAIN returns' /\ returns'[k].calc = Figures(k, start) /\ ~AwaitsReview(k, start)
    <3>1. /\ old.quarter = QuarterEnd(cycle, k)
          /\ old.boxes = Figures(old.quarter, start)
          /\ ~AwaitsReview(old.quarter, start)
          /\ ~Locked(old.quarter)
      BY <1>3, <2>3 DEF SaveDraft, Fresh, FreshDraft
    <3>2. old.quarter = k
      BY <2>3, <3>1 DEF InCycle
    <3>4. returns' = [q \in DOMAIN returns \cup {k} |->
                        IF q = k /\ ~Locked(q) THEN Draft(old) ELSE returns[q]]
      BY <2>1, <3>2 DEF WithDraft
    <3>5. ~Locked(k)
      BY <3>1, <3>2
    <3>3. k \in DOMAIN returns' /\ returns'[k] = Draft(old)
      BY <3>4, <3>5
    <3>6. Draft(old).calc = old.boxes
      BY DEF Draft
    <3>7. old.boxes = Figures(k, start) /\ ~AwaitsReview(k, start)
      BY <3>1, <3>2
    <3> QED
      BY <3>3, <3>6, <3>7
  <2>4. InCycle(k)' <=> InCycle(k)
    BY <2>1, ReadingsStay
  <2>5. old.op = "submit" => FreshSubmission(s)'
    BY <2>1, <2>3, <2>4, ReadingsStay DEF FreshSubmission
  <2>6. old.op = "submit" => Fresh(s)'
    BY <2>5 DEF Fresh, FreshScope, FreshFigures, FreshDraft, FreshRow
  <2> HIDE DEF s
  <2>7. Fresh(r)'
    BY <2>6, FreshNone
  <2> HIDE DEF r
  <2> QED
    BY <2>2, <2>7, FreshMove
<1> QED
  BY <1>1, <1>2, <1>3 DEF Prepare

LEMMA SubmitFresh ==
  ASSUME VatInv, NEW w \in Workers, Fresh(req[w]), Submit(w)
  PROVE  Fresh(req[w])'
<1>1. CASE SubmitLock(w)
  <2> SUFFICES ASSUME NEW old, old = req[w], NEW k, k = old.key,
                      NEW start, start = settings.start
               PROVE  Fresh(req[w])'
    OBVIOUS
  <2> DEFINE r == [old EXCEPT !.at = "write"]
  <2>1. old \in SubmitReq /\ old.op = "submit" /\ old.at = "lock"
    BY <1>1, WorkerRequest, RequestKinds DEF SubmitLock, At
  <2>2. r.op = "submit" /\ r.key = k /\ r.at = "write"
    BY <2>1 DEF SubmitReq
  <2>3. Proceed(w, ~Locked(k), r)
    BY <1>1 DEF SubmitLock
  <2>4. UNCHANGED <<settings, rows, returns, saved>>
    BY <2>3, ProceedStays
  <2>5. InCycle(k) => k \in DOMAIN returns /\ returns[k].calc = Figures(k, start)
                      /\ ~AwaitsReview(k, start)
    BY <2>1 DEF Fresh, FreshSubmission
  <2>6. ~Locked(k) => FreshSubmission(r)'
    BY <2>2, <2>4, <2>5, ReadingsStay, LocksStay DEF FreshSubmission
  <2>7. ~Locked(k) => Fresh(r)'
    BY <2>2, <2>6 DEF Fresh, FreshScope, FreshFigures, FreshDraft, FreshRow
  <2> HIDE DEF r
  <2> QED
    BY <2>3, <2>7, FreshProceed
<1>2. CASE SubmitWrite(w)
  BY <1>2, FreshFinish DEF SubmitWrite
<1> QED
  BY <1>1, <1>2 DEF Submit

LEMMA SaveMonthFresh ==
  ASSUME VatInv, NEW w \in Workers, Fresh(req[w]), SaveMonth(w)
  PROVE  Fresh(req[w])'
<1>1. CASE MonthReturn(w)
  <2> SUFFICES ASSUME NEW q, q = req[w].quarter, NEW active, active = req[w].active
               PROVE  Fresh(req[w])'
    OBVIOUS
  <2> DEFINE r == [op |-> "month", at |-> "write", quarter |-> q, active |-> active]
             ok == ~Locked(q) /\ active # {}
  <2>1. Proceed(w, ok, r)
    BY <1>1 DEF MonthReturn
  <2>2. UNCHANGED returns
    BY <2>1, ProceedStays
  <2>3. ok => Fresh(r)'
    BY <2>2, LocksStay DEF Fresh, FreshScope, FreshFigures, FreshDraft, FreshSubmission, FreshRow
  <2> HIDE DEF r, ok
  <2> QED
    BY <2>1, <2>3, FreshProceed
<1>2. CASE MonthWrite(w)
  BY <1>2, FreshFinish DEF MonthWrite
<1> QED
  BY <1>1, <1>2 DEF SaveMonth

LEMMA SetupFresh ==
  ASSUME VatInv, NEW w \in Workers, Fresh(req[w]), Setup(w)
  PROVE  Fresh(req[w])'
<1>1. ASSUME NEW ok, NEW r, r.op = "setup", Proceed(w, ok, r) PROVE Fresh(req[w])'
  BY <1>1, FreshOtherNext, FreshProceed
<1>2. CASE SetupRead(w)
  BY <1>2, FreshOtherNext, FreshBegin DEF SetupRead
<1>3. CASE SetupScope(w)
  BY <1>1, <1>3 DEF SetupScope
<1>4. CASE SetupReturn(w)
  <2> DEFINE s == [req[w] EXCEPT !.at = "rows"]
             r == IF Locked(req[w].quarter) THEN ToSave(req[w]) ELSE s
  <2>1. req[w] \in CheckReq
    BY <1>4, WorkerRequest, RequestKinds DEF SetupReturn, At
  <2>2. s.op = "setup" /\ ToSave(req[w]).op = "setup"
    BY <2>1 DEF CheckReq, ToSave
  <2>3. Proceed(w, TRUE, r) /\ r.op = "setup"
    BY <1>4, <2>2 DEF SetupReturn
  <2> HIDE DEF r
  <2> QED
    BY <1>1, <2>3
<1>5. CASE SetupRows(w)
  <2>1. ToSave(req[w]).op = "setup"
    BY DEF ToSave
  <2> QED
    BY <1>1, <1>5, <2>1 DEF SetupRows
<1>6. CASE SetupSave(w)
  <2> DEFINE s == [op |-> "setup", at |-> "recalc", cycle |-> req[w].cycle]
             r == IF req[w].old \in {NoCycle, req[w].cycle} THEN NoReq ELSE s
  <2>1. req' = [req EXCEPT ![w] = r]
    BY <1>6 DEF SetupSave
  <2>2. r.op \in {"none", "setup"}
    BY DEF NoReq
  <2> HIDE DEF r
  <2> QED
    BY <2>1, <2>2, FreshOtherNext, FreshMove
<1>7. CASE SetupRecalc(w)
  BY <1>7, FreshFinish DEF SetupRecalc
<1>8. CASE Deactivate(w)
  <2>1. req'[w] = NoReq
    BY <1>8 DEF Deactivate, Idle
  <2> QED
    BY <2>1, FreshNone DEF Fresh, FreshScope, FreshFigures, FreshDraft, FreshSubmission, FreshRow
<1> QED
  BY <1>2, <1>3, <1>4, <1>5, <1>6, <1>7, <1>8 DEF Setup

LEMMA OthersFresh ==
  ASSUME VatInv, NEW w \in Workers, Fresh(req[w]),
         Import(w) \/ Clear(w) \/ Exclude(w) \/ Abort(w)
  PROVE  Fresh(req[w])'
<1>1. CASE ImportRead(w)
  BY <1>1, FreshOtherNext, FreshBegin DEF ImportRead
<1>2. CASE ImportWrite(w) \/ ExcludeWrite(w) \/ Abort(w)
  BY <1>2, FreshFinish DEF ImportWrite, ExcludeWrite, Abort
<1>3. CASE ExcludeBegin(w)
  BY <1>3, FreshOtherNext, FreshBegin DEF ExcludeBegin
<1>4. CASE Clear(w)
  <2>1. req'[w] = NoReq
    BY <1>4 DEF Clear, Idle
  <2> QED
    BY <2>1, FreshNone DEF Fresh, FreshScope, FreshFigures, FreshDraft, FreshSubmission, FreshRow
<1> QED
  BY <1>1, <1>2, <1>3, <1>4 DEF Import, Exclude

LEMMA FreshStep ==
  ASSUME VatInv, NEW w \in Workers, Fresh(req[w]), Step(w)
  PROVE  Fresh(req[w])'
  BY ReverseFresh, EditFresh, ContextFresh, PrepareFresh, SubmitFresh, SaveMonthFresh,
     SetupFresh, OthersFresh DEF Step

-----------------------------------------------------------------------------
(* Served one at a time, every request goes on from what still holds.       *)

LoneInv == \A w \in Workers : Fresh(req[w])

LEMMA OtherWorkers ==
  ASSUME VatInv, NEW w \in Workers, Step(w), NEW v \in Workers \ {w}
  PROVE  req'[v] = req[v]
<1>1. Shapes
  <2>1. ASSUME NEW u \in Workers PROVE Shape(req[u])
    BY WorkerRequest
       DEF Shape, Request, NoReq, ImportReq, ReverseReq, ExcludeReq, EditReq, EditKeyReq,
           ScopeReq, FiguresReq, DraftReq, SubmitReq, MonthReq, SetupReq, CheckReq, RecalcReq
  <2> QED
    BY <2>1 DEF Shapes, VatInv, TypeOK
<1> QED
  BY <1>1, RequestMoves DEF Moves

LEMMA LoneInit == Init => LoneInv
<1> SUFFICES ASSUME Init, NEW w \in Workers PROVE Fresh(req[w])
  BY DEF LoneInv
<1> QED
  BY FreshOther DEF Init, NoReq

LEMMA LoneStep ==
  ASSUME VatInv, LoneInv, NEW w \in Workers, Step(w), \A v \in Workers \ {w} : Idle(v)
  PROVE  LoneInv'
<1>1. Fresh(req[w])'
  BY FreshStep DEF LoneInv
<1>2. ASSUME NEW v \in Workers \ {w} PROVE Fresh(req[v])'
  <2>1. req'[v] = NoReq
    BY OtherWorkers DEF Idle
  <2> QED
    BY <2>1, FreshNone DEF Fresh, FreshScope, FreshFigures, FreshDraft, FreshSubmission, FreshRow
<1> QED
  BY <1>1, <1>2 DEF LoneInv

-----------------------------------------------------------------------------
(* What a step may do to a submitted quarter.                               *)

LEMMA WholeStep ==
  ASSUME VatInv, NEW w \in Workers, Fresh(req[w]), Step(w)
  PROVE  SubmittedWhole
<1> SUFFICES ASSUME NEW q \in DOMAIN returns', NewlyLocked(q), InCycle(q)
             PROVE  /\ returns'[q].calc = Figures(q, settings.start)
                    /\ ~AwaitsReview(q, settings.start)
  BY DEF SubmittedWhole
<1>1. CASE SaveDraft(w)
  <2>1. returns' = WithDraft(req[w])
    BY <1>1 DEF SaveDraft
  <2>2. ~returns'[q].locked
    BY <2>1 DEF NewlyLocked, WithDraft, Locked, Draft
  <2> QED
    BY <2>2 DEF NewlyLocked, Locked
<1>2. CASE SubmitWrite(w)
  <2> SUFFICES ASSUME NEW k, k = req[w].key
               PROVE  /\ returns'[q].calc = Figures(q, settings.start)
                      /\ ~AwaitsReview(q, settings.start)
    OBVIOUS
  <2>1. returns' = [x \in DOMAIN returns \cup {k} |->
          IF x # k THEN returns[x]
          ELSE [calc |-> IF k \in DOMAIN returns THEN returns[k].calc ELSE NoBoxes,
                final |-> req[w].final, locked |-> TRUE]]
    BY <1>2 DEF SubmitWrite
  <2>2. q = k
    BY <2>1 DEF NewlyLocked, Locked
  <2>3. /\ k \in DOMAIN returns /\ returns[k].calc = Figures(k, settings.start)
        /\ ~AwaitsReview(k, settings.start)
    BY <1>2, <2>2 DEF SubmitWrite, At, Fresh, FreshSubmission
  <2> QED
    BY <2>1, <2>2, <2>3
<1>3. CASE UNCHANGED returns
  BY <1>3 DEF NewlyLocked, Locked
<1> QED
  BY <1>1, <1>2, <1>3, ReturnsWriters

LEMMA RestStep ==
  ASSUME NEW w \in Workers, Fresh(req[w]), Step(w)
  PROVE  ClosedQuartersRest
<1> SUFFICES ASSUME NEW q \in DOMAIN returns, returns[q].locked
             PROVE  returns'[q] = returns[q] /\ \A m \in saved' \ saved : m[1] # q
  BY DEF ClosedQuartersRest
<1>1. returns'[q] = returns[q]
  <2>1. CASE SubmitWrite(w)
    <3>1. ~Locked(req[w].key)
      BY <2>1 DEF SubmitWrite, At, Fresh, FreshSubmission
    <3> QED
      BY <2>1, <3>1, SubmitStands DEF Resubmitted, Locked
  <2> QED
    BY <2>1, DraftStands, ReturnsWriters
<1>2. CASE MonthWrite(w)
  <2>1. ~Locked(req[w].quarter)
    BY <1>2 DEF MonthWrite, At, Fresh
  <2> QED
    BY <1>1, <1>2, <2>1 DEF MonthWrite, Locked
<1> QED
  BY <1>1, <1>2, SavedWriters

LEMMA RowsWriters ==
  ASSUME NEW w \in Workers, Step(w)
  PROVE  \/ ImportWrite(w) \/ Clear(w) \/ ReverseWrite(w) \/ ExcludeWrite(w) \/ EditWrite(w)
         \/ SetupRecalc(w) \/ UNCHANGED rows
<1>1. CASE Import(w) \/ Exclude(w) \/ Abort(w)
  BY <1>1 DEF Import, ImportRead, Exclude, ExcludeBegin, Abort, Begin, tables
<1>2. CASE Reverse(w) \/ Edit(w)
  BY <1>2 DEF Reverse, ReverseRead, ReverseVat, Edit, EditBegin, EditRow, EditVat, Begin, Proceed, tables
<1>3. CASE Context(w) \/ Prepare(w)
  BY <1>3 DEF Context, ContextSettings, SubmitSettings, ContextRows, Prepare, ViewReturn, SubmitReturn,
              SaveDraft, Begin, Proceed, tables
<1>4. CASE Submit(w) \/ SaveMonth(w)
  BY <1>4 DEF Submit, SubmitLock, SubmitWrite, SaveMonth, MonthReturn, MonthWrite, Proceed, tables
<1>5. CASE Setup(w)
  BY <1>5 DEF Setup, SetupRead, SetupScope, SetupReturn, SetupRows, SetupSave,
              Deactivate, Begin, Proceed, tables
<1> QED
  BY <1>1, <1>2, <1>3, <1>4, <1>5 DEF Step

\* A row keyed to another quarter adds nothing to quarter q, now or later.
Elsewhere(row, q) == row.key \notin {q, NoKey}

LEMMA ElsewhereAdds ==
  ASSUME NEW kind, NEW q, NEW start, NEW i \in DOMAIN rows, Elsewhere(rows[i], q)
  PROVE  VatDelta(kind, q, start)[i] = 0
  BY DEF VatDelta, InReturn, Elsewhere

LEMMA ElsewhereAddsNext ==
  (\A kind, q, start : \A i \in DOMAIN rows :
      Elsewhere(rows[i], q) => VatDelta(kind, q, start)[i] = 0)'
<1>1. \A kind, q, start : \A i \in DOMAIN rows :
          Elsewhere(rows[i], q) => VatDelta(kind, q, start)[i] = 0
  BY ElsewhereAdds
<1> QED
  BY <1>1, PTL

LEMMA SumsAreNext == VatInv' => VatSums'
<1>1. VatInv => VatSums
  BY SumsAre
<1> QED
  BY <1>1, PTL

LEMMA RowsAreNext == VatInv' => rows' \in Seq(Row) /\ \A i \in DOMAIN rows' : rows'[i] \in Row
  BY DEF VatInv, TypeOK

\* Rows that change while keyed elsewhere leave the figures of q alone.
LEMMA FiguresStay ==
  ASSUME VatInv, VatInv', NEW q, NEW start, DOMAIN rows \subseteq DOMAIN rows',
         \A i \in DOMAIN rows :
            rows'[i] = rows[i] \/ (Elsewhere(rows[i], q) /\ Elsewhere(rows'[i], q)),
         \A i \in DOMAIN rows' \ DOMAIN rows : Elsewhere(rows'[i], q)
  PROVE  Figures(q, start)' = Figures(q, start)
<1>1. ASSUME NEW kind PROVE VatOf(kind, q, start)' = VatOf(kind, q, start)
  <2> SUFFICES ASSUME NEW f, f = VatDelta(kind, q, start), NEW g, g = VatDelta(kind, q, start)',
                      NEW S, S = DOMAIN rows, NEW T, T = DOMAIN rows'
               PROVE  VatOf(kind, q, start)' = VatOf(kind, q, start)
    OBVIOUS
  <2>1. /\ IsFiniteSet(T) /\ S \subseteq T
        /\ VatOf(kind, q, start) = SumFunctionOnSet(f, S)
        /\ VatOf(kind, q, start)' = SumFunctionOnSet(g, T)
    BY SumsAre, SumsAreNext, Zenon DEF VatSums
  <2>2. \A i \in S : f[i] \in Int
    BY SumsAre DEF VatSums
  <2>3. ASSUME NEW i \in T, Elsewhere(rows'[i], q) PROVE g[i] = 0
    BY <2>3, ElsewhereAddsNext
  <2>4. ASSUME NEW i \in S PROVE g[i] = f[i]
    <3>1. CASE rows'[i] = rows[i]
      <4>1. i \in DOMAIN rows' /\ i \in DOMAIN rows
        OBVIOUS
      <4>2. g[i] = IF InReturn(rows'[i], q, start) /\ Counted(rows'[i]) /\ rows'[i].kind = kind
                   THEN rows'[i].vat ELSE 0
        BY <4>1 DEF VatDelta, InReturn, InPeriod, Counted
      <4>3. f[i] = IF InReturn(rows[i], q, start) /\ Counted(rows[i]) /\ rows[i].kind = kind
                   THEN rows[i].vat ELSE 0
        BY <4>1 DEF VatDelta
      <4> QED
        BY <3>1, <4>2, <4>3
    <3>2. CASE Elsewhere(rows[i], q) /\ Elsewhere(rows'[i], q)
      BY <2>1, <2>3, <3>2, ElsewhereAdds
    <3> QED
      BY <3>1, <3>2
  <2>5. \A i \in T \ S : g[i] = 0
    BY <2>3
  <2> QED
    BY <2>1, <2>2, <2>4, <2>5, SumStays
<1> QED
  BY <1>1 DEF Figures

LEMMA DriftStep ==
  ASSUME VatInv, VatInv', NEW w \in Workers, Fresh(req[w]), Step(w)
  PROVE  FiguresDrift
<1> SUFFICES ASSUME NEW q \in DOMAIN returns, Locked(q), InCycle(q), settings' = settings,
                    ~\E v \in Workers : MayDrift(v)
             PROVE  Figures(q, settings.start)' = Figures(q, settings.start)
  BY DEF FiguresDrift
<1> SUFFICES ASSUME NEW start, start = settings.start
             PROVE  Figures(q, start)' = Figures(q, start)
  OBVIOUS
<1>0. ~MayDrift(w)
  OBVIOUS
<1>1. CASE UNCHANGED rows
  BY <1>1, ReadingsStay
<1>2. CASE ImportWrite(w) \/ SetupRecalc(w)
  BY <1>0, <1>2 DEF ImportWrite, SetupRecalc, MayDrift
<1>3. CASE Clear(w)
  <2>1. PICK i \in DOMAIN rows : ~rows[i].cleared /\ rows' = [rows EXCEPT ![i].cleared = TRUE]
    BY <1>3 DEF Clear
  <2>2. rows[i] \in Row
    BY RowsAre
  <2>3. rows'[i].cleared = TRUE
    BY <2>1, <2>2 DEF Row
  <2> QED
    BY <1>0, <2>1, <2>3 DEF MayDrift
<1>4. CASE ExcludeWrite(w)
  <2> SUFFICES ASSUME NEW i, i = req[w].row PROVE UNCHANGED rows
    BY <1>1
  <2>1. rows' = [rows EXCEPT ![i].excluded = TRUE]
    BY <1>4 DEF ExcludeWrite
  <2>2. req[w].op = "exclude"
    BY <1>4 DEF ExcludeWrite, At
  <2>3. i \in DOMAIN rows
    BY <2>2, WorkerRequest DEF Sound
  <2>4. rows[i] \in Row /\ rows \in Seq(Row)
    BY <2>3, RowsAre
  <2>5. rows'[i].excluded = TRUE
    BY <2>1, <2>3, <2>4 DEF Row
  <2>6. rows[i].excluded = TRUE
    BY <1>0, <2>3, <2>5 DEF MayDrift
  <2>7. [rows[i] EXCEPT !.excluded = TRUE] = rows[i]
    BY <2>4, <2>6 DEF Row
  <2> QED
    BY <2>1, <2>3, <2>4, <2>7
<1>5. CASE EditWrite(w)
  <2> SUFFICES ASSUME NEW i, i = req[w].row, NEW vat, vat = req[w].vat, NEW k, k = req[w].key
               PROVE  Figures(q, start)' = Figures(q, start)
    OBVIOUS
  <2>1. rows' = [rows EXCEPT ![i].vat = vat, ![i].review = TRUE]
    BY <1>5 DEF EditWrite
  <2>2. req[w].op = "edit" /\ req[w].at = "write"
    BY <1>5 DEF EditWrite, At
  <2>3. i \in DOMAIN rows
    BY <2>2, WorkerRequest DEF Sound
  <2>4. k = rows[i].key /\ (k = NoKey \/ ~Locked(k))
    BY <2>2 DEF Fresh, FreshRow
  <2>5. k # NoKey
    BY <1>0, <2>2, <2>4 DEF MayDrift, At
  <2>6. k # q
    BY <2>4, <2>5
  <2>7. rows[i] \in Row /\ DOMAIN rows' = DOMAIN rows
    BY <2>1, <2>3, RowsAre
  <2>8. rows'[i].key = k
    BY <2>1, <2>3, <2>4, <2>7, RowsAre DEF Row
  <2>9. Elsewhere(rows[i], q) /\ Elsewhere(rows'[i], q)
    BY <2>4, <2>5, <2>6, <2>8 DEF Elsewhere
  <2>10. \A j \in DOMAIN rows : j # i => rows'[j] = rows[j]
    BY <2>1, RowsAre
  <2> QED
    BY <2>7, <2>9, <2>10, FiguresStay
<1>6. CASE ReverseWrite(w)
  <2> SUFFICES ASSUME NEW old, old = req[w], NEW i, i = old.row, NEW k, k = old.copy.key,
                      NEW n, n = Len(rows)
               PROVE  Figures(q, start)' = Figures(q, start)
    OBVIOUS
  <2> DEFINE x == Leg(old)
             e == [rows[i] EXCEPT !.reversed = TRUE]
             t == [rows EXCEPT ![i] = e]
  <2>1. rows' = Append(t, x)
    BY <1>6 DEF ReverseWrite
  <2>2. old.op = "reverse" /\ old.at = "write"
    BY <1>6 DEF ReverseWrite, At
  <2>3. i \in DOMAIN rows
    BY <2>2, WorkerRequest DEF Sound
  <2>4. old.copy = rows[i] /\ (k = NoKey \/ ~Locked(k))
    BY <2>2 DEF Fresh, FreshRow
  <2>5. k # NoKey
    BY <1>0, <2>2 DEF MayDrift, At
  <2>6. k # q
    BY <2>4, <2>5
  <2>7. rows[i] \in Row /\ rows \in Seq(Row) /\ n \in Nat /\ DOMAIN rows = 1..n
    BY <2>3, RowsAre
  <2>16. rows[i].key = k
    BY <2>4
  <2>17. ASSUME NEW y \in Row
         PROVE  [y EXCEPT !.reversed = TRUE] \in Row /\ [y EXCEPT !.reversed = TRUE].key = y.key
    BY DEF Row
  <2>8. e \in Row /\ e.key = k
    BY <2>7, <2>16, <2>17
  <2>18. i \in 1..Len(rows) /\ e \in Row
    BY <2>3, <2>7, <2>8
  <2> HIDE DEF e
  <2>19. /\ t \in Seq(Row) /\ Len(t) = Len(rows)
         /\ \A j \in 1..Len(rows) : t[j] = IF j = i THEN e ELSE rows[j]
    BY <2>7, <2>18, ExceptSeq
  <2>9. t[i] = e /\ \A j \in DOMAIN rows : j # i => t[j] = rows[j]
    BY <2>7, <2>18, <2>19
  <2>10. x.key = k
    BY DEF Leg
  <2> HIDE DEF x, t
  <2>11. /\ DOMAIN rows' = 1..(n + 1) /\ rows'[n + 1] = x
         /\ \A j \in DOMAIN rows : rows'[j] = t[j]
    BY <2>1, <2>7, <2>19, AppendProperties
  <2>12. Elsewhere(rows[i], q) /\ Elsewhere(e, q) /\ Elsewhere(x, q)
    BY <2>4, <2>5, <2>6, <2>8, <2>10 DEF Elsewhere
  <2>13. ASSUME NEW j \in DOMAIN rows
         PROVE  rows'[j] = rows[j] \/ (Elsewhere(rows[j], q) /\ Elsewhere(rows'[j], q))
    BY <2>9, <2>11, <2>12
  <2>14. DOMAIN rows \subseteq DOMAIN rows' /\ \A j \in DOMAIN rows' \ DOMAIN rows : j = n + 1
    BY <2>7, <2>11
  <2>15. \A j \in DOMAIN rows' \ DOMAIN rows : Elsewhere(rows'[j], q)
    BY <2>11, <2>12, <2>14
  <2> QED
    BY <2>13, <2>14, <2>15, FiguresStay
<1> QED
  BY <1>1, <1>2, <1>3, <1>4, <1>5, <1>6, RowsWriters

-----------------------------------------------------------------------------
LEMMA MCVatAlways == MCSpec => []VatInv
<1>1. MCInit => VatInv
  BY VatInit DEF MCInit
<1>2. VatInv /\ [MCNext]_MCvars => VatInv'
  <2>1. [MCNext]_MCvars => [Next]_vars
    BY DEF MCNext, Serve, Done, MCvars, Next, vars
  <2> QED
    BY <2>1, VatStep
<1> QED
  BY <1>1, <1>2, PTL DEF MCSpec

LEMMA LoneAlways == MCSpec => [](oneByOne => LoneInv)
<1>1. MCInit => (oneByOne => LoneInv)
  BY LoneInit DEF MCInit
<1>2. VatInv /\ (oneByOne => LoneInv) /\ [MCNext]_MCvars => (oneByOne => LoneInv)'
  <2> SUFFICES ASSUME VatInv, oneByOne => LoneInv, [MCNext]_MCvars, oneByOne' PROVE LoneInv'
    OBVIOUS
  <2>1. CASE UNCHANGED MCvars
    <3>1. UNCHANGED <<settings, rows, returns, saved, req, oneByOne>>
      BY <2>1 DEF MCvars, vars
    <3>2. ASSUME NEW w \in Workers, NEW r, r = req[w] PROVE Fresh(r)'
      <4>1. Fresh(r)
        BY <3>1, <3>2 DEF LoneInv
      <4>2. FreshScope(r)' /\ FreshRow(r)'
        BY <3>1, <4>1, LocksStay DEF Fresh, FreshScope, FreshRow
      <4>3. FreshFigures(r)' /\ FreshDraft(r)' /\ FreshSubmission(r)'
        BY <3>1, <4>1, LocksStay, ReadingsStay DEF Fresh, FreshFigures, FreshDraft, FreshSubmission
      <4> QED
        <5>1. r.op = "month" /\ r.at = "write" => ~Locked(r.quarter)'
          BY <3>1, <4>1, LocksStay DEF Fresh
        <5> QED
          BY <4>2, <4>3, <5>1 DEF Fresh
    <3>3. ASSUME NEW w \in Workers PROVE Fresh(req[w])'
      <4>1. PICK r : r = req[w] /\ r = req'[w] /\ Fresh(r)'
        BY <3>1, <3>2
      <4> QED
        BY <4>1 DEF Fresh, FreshScope, FreshFigures, FreshDraft, FreshSubmission, FreshRow
    <3> QED
      BY <3>3 DEF LoneInv
  <2>2. CASE Done
    <3>1. UNCHANGED MCvars
      BY <2>2 DEF Done
    <3> QED
      BY <2>1, <3>1
  <2>3. ASSUME NEW w \in Workers, Serve(w) PROVE LoneInv'
    BY <2>3, LoneStep DEF Serve
  <2> QED
    BY <2>1, <2>2, <2>3 DEF MCNext
<1> QED
  BY <1>1, <1>2, MCVatAlways, PTL DEF MCSpec

ReturnsStand == SubmittedWhole /\ ClosedQuartersRest /\ FiguresDrift

\* Requests served one at a time: a return of the cycle is submitted with the
\* figures that its rows have and none left to review; it then stays as it is
\* and takes no saved month; and of the rows' edits and reversals only those of
\* rows without a key change its figures afterwards (submit_vat_return,
\* _save_vat_month_action, update_office_vat_transaction).
THEOREM ReturnsStandAlone == MCSpec => SerialReturnsStand
<1>1. VatInv /\ VatInv' /\ (oneByOne => LoneInv) /\ [MCNext]_MCvars
        => [oneByOne => ReturnsStand]_MCvars
  <2> SUFFICES ASSUME VatInv, VatInv', LoneInv, MCNext, ~UNCHANGED MCvars PROVE ReturnsStand
    OBVIOUS
  <2>1. PICK w \in Workers : Step(w)
    BY DEF MCNext, Serve, Done
  <2>2. Fresh(req[w])
    BY DEF LoneInv
  <2> QED
    BY <2>1, <2>2, WholeStep, RestStep, DriftStep DEF ReturnsStand
<1>2. MCSpec => [][oneByOne => ReturnsStand]_MCvars
  BY <1>1, MCVatAlways, LoneAlways, PTL DEF MCSpec
<1> QED
  BY <1>2 DEF SerialReturnsStand, ReturnsStand
=============================================================================
