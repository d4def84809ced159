------------------------- MODULE OfficeAccountProofs -------------------------
(***************************************************************************)
(* Proofs about OfficeAccount, for any workers, dates, forms, batches and  *)
(* reviews. Whatever the requests interleave: a reversal undoes its row    *)
(* completely and is never itself undone, the account is overdrawn only by *)
(* the causes listed, and an import is whole. Served one at a time: a row  *)
(* is reversed once, and what is closed stays closed.                      *)
(***************************************************************************)
EXTENDS MCOfficeAccount, SequenceTheorems, FiniteSetTheorems, WellFoundedInduction, TLAPS

-----------------------------------------------------------------------------
(* Sums over finite sets: the books are sums over their tables. The fold     *)
(* SumFunctionOnSet of the module Functions picks its elements one by one,   *)
(* so each lemma goes by the size of the set; the induction is an argument   *)
(* about a least size.                                                       *)

LEMMA LeastNumber ==
  ASSUME NEW N, N \subseteq Nat, N # {}
  PROVE  \E n \in N : \A m \in N : n <= m
<1> DEFINE R == OpToRel(<, Nat)
<1>1. IsWellFoundedOn(R, Nat)
  BY NatLessThanWellFounded
<1>2. \A m, n \in Nat : <<m, n>> \in R <=> m < n
  BY DEF OpToRel
<1> HIDE DEF R
<1>3. PICK n \in N : \A m \in N : ~(<<m, n>> \in R)
  BY <1>1, WFMin
<1>4. \A m \in N : ~(m < n)
  BY <1>2, <1>3
<1> QED
  BY <1>4

\* Induction: a set of numbers that has 0 and with n also n + 1 has them all.
LEMMA NumberInduction ==
  ASSUME NEW N, 0 \in N, \A n \in Nat : n \in N => n + 1 \in N
  PROVE  Nat \subseteq N
<1> SUFFICES ASSUME Nat \ N # {} PROVE FALSE
  OBVIOUS
<1>1. PICK n \in Nat \ N : \A m \in Nat \ N : n <= m
  BY LeastNumber
<1>2. n - 1 \in Nat /\ n - 1 \notin N
  BY <1>1
<1> QED
  BY <1>1, <1>2

\* A family of subsets of S that grows by one element at a time has S.
LEMMA SubsetInduction ==
  ASSUME NEW S, IsFiniteSet(S), NEW F, {} \in F,
         \A T \in SUBSET S : \A x \in S \ T : T \in F => T \cup {x} \in F
  PROVE  S \in F
<1> DEFINE N == {n \in Nat : \A T \in SUBSET S : Cardinality(T) = n => T \in F}
<1>1. \A T \in SUBSET S : IsFiniteSet(T) /\ Cardinality(T) \in Nat
  BY FS_Subset, FS_CardinalityType
<1>2. 0 \in N
  BY <1>1, FS_EmptySet
<1>3. ASSUME NEW n \in Nat, n \in N PROVE n + 1 \in N
  <2> SUFFICES ASSUME NEW T \in SUBSET S, Cardinality(T) = n + 1 PROVE T \in F
    OBVIOUS
  <2>0. T # {}
    <3>1. T = {} => Cardinality(T) = 0
      BY FS_EmptySet, Zenon
    <3> QED
      BY <3>1
  <2>1. PICK x \in T : TRUE
    BY <2>0
  <2>2. Cardinality(T \ {x}) = n
    <3>1. Cardinality(T \ {x}) = Cardinality(T) - 1
      BY <1>1, <2>1, FS_RemoveElement, Zenon
    <3> QED
      BY <3>1
  <2>3. T \ {x} \in F
    BY <1>3, <2>2
  <2>4. (T \ {x}) \cup {x} \in F
    BY <2>3
  <2>5. (T \ {x}) \cup {x} = T
    OBVIOUS
  <2> QED
    BY <2>4, <2>5
<1> HIDE DEF N
<1>4. Nat \subseteq N
  BY <1>2, <1>3, NumberInduction
<1> QED
  BY <1>1, <1>4 DEF N

-----------------------------------------------------------------------------
(* The fold, as one function of all subsets.                                *)

Pick(s) == CHOOSE x \in s : TRUE

IsIter(f, S, g) ==
    g = [s \in SUBSET S |-> IF s = {} THEN 0 ELSE f[Pick(s)] + g[s \ {Pick(s)}]]

LEMMA PickIn == ASSUME NEW s, s # {} PROVE Pick(s) \in s
  BY DEF Pick

LEMMA SumUnfold ==
  ASSUME NEW f, NEW S
  PROVE  SumFunctionOnSet(f, S) = (CHOOSE g : IsIter(f, S, g))[S]
  BY Zenon DEF SumFunctionOnSet, FoldFunctionOnSet, MapThenFoldSet, Pick, IsIter

LEMMA IterExists ==
  ASSUME NEW f, NEW S, IsFiniteSet(S)
  PROVE  \E g : IsIter(f, S, g)
<1> DEFINE Small(n) == {s \in SUBSET S : Cardinality(s) <= n}
           Body(g, s) == IF s = {} THEN 0 ELSE f[Pick(s)] + g[s \ {Pick(s)}]
           Has(n) == \E g : g = [s \in Small(n) |-> Body(g, s)]
           N == {n \in Nat : Has(n)}
<1>1. \A s \in SUBSET S : IsFiniteSet(s) /\ Cardinality(s) \in Nat
  BY FS_Subset, FS_CardinalityType
<1>2. Has(0)
  <2>1. Small(0) = {{}}
    BY <1>1, FS_EmptySet
  <2> DEFINE g == [s \in {{}} |-> 0]
  <2>2. g = [s \in Small(0) |-> Body(g, s)]
    BY <2>1
  <2> QED
    BY <2>2
<1>3. ASSUME NEW n \in Nat, Has(n) PROVE Has(n + 1)
  <2>1. PICK g : g = [s \in Small(n) |-> Body(g, s)]
    BY <1>3
  <2> DEFINE h == [s \in Small(n + 1) |-> Body(g, s)]
  <2>2. \A s \in Small(n + 1) : s # {} => s \ {Pick(s)} \in Small(n)
    BY <1>1, PickIn, FS_RemoveElement
  <2>3. Small(n) \subseteq Small(n + 1)
    BY <1>1
  <2>4. \A s \in Small(n) : h[s] = g[s]
    BY <2>1, <2>3
  <2>5. \A s \in Small(n + 1) : Body(g, s) = Body(h, s)
    BY <2>2, <2>4
  <2>6. h = [s \in Small(n + 1) |-> Body(h, s)]
    BY <2>5
  <2> HIDE DEF h
  <2> QED
    BY <2>6
<1> HIDE DEF Has
<1>4. Nat \subseteq N
  <2>1. 0 \in N /\ \A n \in Nat : n \in N => n + 1 \in N
    BY <1>2, <1>3
  <2> HIDE DEF N
  <2> QED
    BY <2>1, NumberInduction
<1>5. Has(Cardinality(S))
  BY <1>1, <1>4
<1>6. Small(Cardinality(S)) = SUBSET S
  BY <1>1, FS_Subset
<1> QED
  BY <1>5, <1>6 DEF Has, IsIter

\* What any such function gives a subset depends on f and the subset alone.
LEMMA IterUnique ==
  ASSUME NEW f, NEW S, NEW T, NEW g, NEW h, IsFiniteSet(S), IsFiniteSet(T),
         IsIter(f, S, g), IsIter(f, T, h)
  PROVE  \A s \in SUBSET (S \cap T) : g[s] = h[s]
<1> DEFINE N == {n \in Nat : \A s \in SUBSET (S \cap T) : Cardinality(s) = n => g[s] = h[s]}
<1>1. \A s \in SUBSET (S \cap T) : IsFiniteSet(s) /\ Cardinality(s) \in Nat
  BY FS_Subset, FS_CardinalityType
<1>2. 0 \in N
  BY <1>1, FS_EmptySet DEF IsIter
<1>3. ASSUME NEW n \in Nat, n \in N PROVE n + 1 \in N
  <2> SUFFICES ASSUME NEW s \in SUBSET (S \cap T), Cardinality(s) = n + 1 PROVE g[s] = h[s]
    OBVIOUS
  <2>1. s # {}
    <3>1. s = {} => Cardinality(s) = 0
      BY FS_EmptySet, Zenon
    <3> QED
      BY <3>1
  <2>2. Pick(s) \in s
    BY <2>1, PickIn
  <2>3. Cardinality(s \ {Pick(s)}) = n
    <3>1. Cardinality(s \ {Pick(s)}) = Cardinality(s) - 1
      BY <1>1, <2>2, FS_RemoveElement, Zenon
    <3> QED
      BY <3>1
  <2>4. g[s \ {Pick(s)}] = h[s \ {Pick(s)}]
    BY <1>3, <2>3
  <2> QED
    BY <2>1, <2>4 DEF IsIter
<1> HIDE DEF N
<1>4. Nat \subseteq N
  BY <1>2, <1>3, NumberInduction
<1> QED
  BY <1>1, <1>4 DEF N

-----------------------------------------------------------------------------
(* The sums.                                                                *)

LEMMA SumIs ==
  ASSUME NEW f, NEW S, IsFiniteSet(S)
  PROVE  /\ SumFunctionOnSet(f, {}) = 0
         /\ S # {} =>
              SumFunctionOnSet(f, S) = f[Pick(S)] + SumFunctionOnSet(f, S \ {Pick(S)})
<1> DEFINE Fold(T) == CHOOSE g : IsIter(f, T, g)
<1>1. ASSUME NEW T, IsFiniteSet(T) PROVE IsIter(f, T, Fold(T)) /\ SumFunctionOnSet(f, T) = Fold(T)[T]
  BY <1>1, IterExists, SumUnfold, Zenon
<1> HIDE DEF Fold
<1>2. SumFunctionOnSet(f, {}) = 0
  BY <1>1, FS_EmptySet DEF IsIter
<1>3. ASSUME S # {}
      PROVE  SumFunctionOnSet(f, S) = f[Pick(S)] + SumFunctionOnSet(f, S \ {Pick(S)})
  <2> DEFINE T == S \ {Pick(S)}
  <2>1. IsFiniteSet(T)
    BY FS_RemoveElement
  <2>2. Fold(S)[T] = Fold(T)[T]
    BY <1>1, <2>1, IterUnique
  <2>3. Fold(S)[S] = f[Pick(S)] + Fold(S)[T]
    BY <1>1, <1>3 DEF IsIter
  <2> QED
    BY <1>1, <2>1, <2>2, <2>3
<1> QED
  BY <1>2, <1>3

\* A sum of integers is one, and any element may be taken out of it first.
LEMMA SumParts ==
  ASSUME NEW f, NEW S, IsFiniteSet(S), \A x \in S : f[x] \in Int
  PROVE  /\ SumFunctionOnSet(f, S) \in Int
         /\ \A x \in S : SumFunctionOnSet(f, S) = f[x] + SumFunctionOnSet(f, S \ {x})
<1> DEFINE Sum(T) == SumFunctionOnSet(f, T)
           Parts(T) == Sum(T) \in Int /\ \A x \in T : Sum(T) = f[x] + Sum(T \ {x})
           Sized(n) == \A T \in SUBSET S : Cardinality(T) <= n => Parts(T)
           N == {n \in Nat : Sized(n)}
<1>1. \A T \in SUBSET S : IsFiniteSet(T) /\ Cardinality(T) \in Nat
  BY FS_Subset, FS_CardinalityType
<1>2. Sum({}) = 0
  BY FS_EmptySet, SumIs
<1>3. ASSUME NEW T \in SUBSET S, NEW x \in T
      PROVE  T \ {x} \in SUBSET S /\ Cardinality(T \ {x}) = Cardinality(T) - 1
  BY <1>1, FS_RemoveElement, Zenon
<1>4. ASSUME NEW T \in SUBSET S, T # {}
      PROVE  Pick(T) \in T /\ Sum(T) = f[Pick(T)] + Sum(T \ {Pick(T)})
  BY <1>1, <1>4, SumIs, PickIn
<1> HIDE DEF Sum
<1>5. Sized(0)
  BY <1>1, <1>2, FS_EmptySet
<1>6. ASSUME NEW n \in Nat, Sized(n) PROVE Sized(n + 1)
  <2> SUFFICES ASSUME NEW T \in SUBSET S, Cardinality(T) <= n + 1 PROVE Parts(T)
    OBVIOUS
  <2>1. CASE T = {}
    BY <1>2, <2>1
  <2>2. CASE T # {}
    <3>1. PICK c \in T : Sum(T) = f[c] + Sum(T \ {c})
      BY <1>4, <2>2
    <3>2. \A x \in T : T \ {x} \in SUBSET S /\ Parts(T \ {x})
      <4>1. \A x \in T : T \ {x} \in SUBSET S /\ Cardinality(T \ {x}) = Cardinality(T) - 1
        BY <1>3
      <4>2. \A x \in T : Cardinality(T \ {x}) <= n
        BY <1>1, <4>1
      <4> HIDE DEF Parts
      <4> QED
        BY <1>6, <4>1, <4>2
    <3> HIDE DEF Parts
    <3>3. f[c] \in Int /\ Sum(T \ {c}) \in Int
      BY <3>2 DEF Parts
    <3>4. ASSUME NEW x \in T, x # c PROVE Sum(T) = f[x] + Sum(T \ {x})
      <4> DEFINE U == T \ {c, x}
      <4>1. U = (T \ {c}) \ {x} /\ U = (T \ {x}) \ {c} /\ U \in SUBSET S
        OBVIOUS
      <4>2. x \in T \ {c} /\ c \in T \ {x}
        BY <3>4
      <4>3. Sum(T \ {c}) = f[x] + Sum(U) /\ Sum(T \ {x}) = f[c] + Sum(U)
        BY <3>2, <4>1, <4>2 DEF Parts
      <4>4. Cardinality(U) <= n
        <5>1. Cardinality(T \ {c}) = Cardinality(T) - 1
          BY <1>3
        <5>2. Cardinality(U) = Cardinality(T \ {c}) - 1
          BY <1>3, <3>2, <4>1, <4>2
        <5> QED
          BY <1>1, <5>1, <5>2
      <4>5. Sum(U) \in Int
        BY <1>6, <4>1, <4>4 DEF Parts
      <4>6. f[x] \in Int
        OBVIOUS
      <4> HIDE DEF U
      <4> QED
        BY <3>1, <3>3, <4>3, <4>5, <4>6
    <3>5. Sum(T) \in Int
      BY <3>1, <3>3
    <3>6. \A x \in T : Sum(T) = f[x] + Sum(T \ {x})
      BY <3>1, <3>4
    <3> QED
      BY <3>5, <3>6 DEF Parts
  <2> QED
    BY <2>1, <2>2
<1> HIDE DEF Sized
<1>7. Nat \subseteq N
  <2>1. 0 \in N /\ \A n \in Nat : n \in N => n + 1 \in N
    BY <1>5, <1>6
  <2> HIDE DEF N
  <2> QED
    BY <2>1, NumberInduction
<1>8. Sized(Cardinality(S))
  BY <1>1, <1>7
<1>9. Parts(S)
  BY <1>1, <1>8 DEF Sized
<1> QED
  BY <1>9 DEF Sum

LEMMA SumEmpty == ASSUME NEW f PROVE SumFunctionOnSet(f, {}) = 0
  BY FS_EmptySet, SumIs

\* One element more.
LEMMA SumAdd ==
  ASSUME NEW f, NEW S, NEW x, IsFiniteSet(S), x \notin S, \A y \in S \cup {x} : f[y] \in Int
  PROVE  SumFunctionOnSet(f, S \cup {x}) = f[x] + SumFunctionOnSet(f, S)
<1>1. IsFiniteSet(S \cup {x}) /\ (S \cup {x}) \ {x} = S
  BY FS_AddElement
<1> QED
  BY <1>1, SumParts

\* Functions that agree on the set have the same sum.
LEMMA SumSame ==
  ASSUME NEW f, NEW g, NEW S, IsFiniteSet(S), \A x \in S : f[x] \in Int /\ g[x] = f[x]
  PROVE  SumFunctionOnSet(g, S) = SumFunctionOnSet(f, S)
<1> DEFINE F == {T \in SUBSET S : SumFunctionOnSet(g, T) = SumFunctionOnSet(f, T)}
<1>1. {} \in F
  BY SumEmpty
<1>2. ASSUME NEW T \in SUBSET S, NEW x \in S \ T, T \in F PROVE T \cup {x} \in F
  <2>1. IsFiniteSet(T)
    BY FS_Subset
  <2>2. /\ SumFunctionOnSet(f, T \cup {x}) = f[x] + SumFunctionOnSet(f, T)
        /\ SumFunctionOnSet(g, T \cup {x}) = g[x] + SumFunctionOnSet(g, T)
    BY <2>1, SumAdd
  <2> QED
    BY <1>2, <2>2
<1> HIDE DEF F
<1>3. S \in F
  BY <1>1, <1>2, SubsetInduction
<1> QED
  BY <1>3 DEF F

\* The sum of a function that is nowhere less is not less.
LEMMA SumLess ==
  ASSUME NEW f, NEW g, NEW S, IsFiniteSet(S),
         \A x \in S : f[x] \in Int /\ g[x] \in Int /\ f[x] <= g[x]
  PROVE  SumFunctionOnSet(f, S) <= SumFunctionOnSet(g, S)
<1> DEFINE F == {T \in SUBSET S : SumFunctionOnSet(f, T) <= SumFunctionOnSet(g, T)}
<1>1. {} \in F
  BY SumEmpty
<1>2. ASSUME NEW T \in SUBSET S, NEW x \in S \ T, T \in F PROVE T \cup {x} \in F
  <2>1. IsFiniteSet(T)
    BY FS_Subset
  <2>2. /\ SumFunctionOnSet(f, T \cup {x}) = f[x] + SumFunctionOnSet(f, T)
        /\ SumFunctionOnSet(g, T \cup {x}) = g[x] + SumFunctionOnSet(g, T)
    BY <2>1, SumAdd
  <2>3. SumFunctionOnSet(f, T) \in Int /\ SumFunctionOnSet(g, T) \in Int
    BY <2>1, SumParts
  <2> QED
    BY <1>2, <2>2, <2>3
<1> HIDE DEF F
<1>3. S \in F
  BY <1>1, <1>2, SubsetInduction
<1> QED
  BY <1>3 DEF F

\* Elements that count nothing may be left out.
LEMMA SumSupport ==
  ASSUME NEW f, NEW S, NEW T, IsFiniteSet(S), T \subseteq S,
         \A x \in S : f[x] \in Int, \A x \in S \ T : f[x] = 0
  PROVE  SumFunctionOnSet(f, S) = SumFunctionOnSet(f, T)
<1> DEFINE F == {U \in SUBSET (S \ T) : SumFunctionOnSet(f, T \cup U) = SumFunctionOnSet(f, T)}
<1>1. {} \in F
  <2>1. T \cup {} = T
    OBVIOUS
  <2> QED
    BY <2>1
<1>2. ASSUME NEW U \in SUBSET (S \ T), NEW x \in (S \ T) \ U, U \in F PROVE U \cup {x} \in F
  <2>1. IsFiniteSet(T \cup U) /\ x \notin T \cup U /\ T \cup (U \cup {x}) = (T \cup U) \cup {x}
    BY FS_Subset
  <2>2. SumFunctionOnSet(f, (T \cup U) \cup {x}) = f[x] + SumFunctionOnSet(f, T \cup U)
    BY <2>1, SumAdd
  <2>3. SumFunctionOnSet(f, T \cup U) \in Int /\ f[x] = 0
    BY <2>1, SumParts
  <2>4. SumFunctionOnSet(f, T \cup (U \cup {x})) = SumFunctionOnSet(f, T \cup U)
    <3>1. SumFunctionOnSet(f, T \cup (U \cup {x})) = SumFunctionOnSet(f, (T \cup U) \cup {x})
      BY <2>1, Zenon
    <3> QED
      BY <2>2, <2>3, <3>1
  <2>5. U \cup {x} \in SUBSET (S \ T)
    OBVIOUS
  <2> QED
    BY <1>2, <2>4, <2>5
<1>3. IsFiniteSet(S \ T)
  BY FS_Subset
<1> HIDE DEF F
<1>4. S \ T \in F
  BY <1>1, <1>2, <1>3, SubsetInduction
<1>5. T \cup (S \ T) = S
  OBVIOUS
<1> QED
  BY <1>4, <1>5 DEF F

\* No element adds less than before, and the new ones do not take away.
LEMMA SumRises ==
  ASSUME NEW f, NEW g, NEW S, NEW T, IsFiniteSet(T), S \subseteq T,
         \A x \in S : f[x] \in Int /\ f[x] <= g[x], \A x \in T : g[x] \in Int,
         \A x \in T \ S : 0 <= g[x]
  PROVE  SumFunctionOnSet(f, S) <= SumFunctionOnSet(g, T)
<1> DEFINE h == [x \in T |-> IF x \in S THEN f[x] ELSE 0]
<1>1. IsFiniteSet(S)
  BY FS_Subset
<1>2. \A x \in T : h[x] \in Int /\ h[x] <= g[x]
  OBVIOUS
<1>3. \A x \in S : f[x] \in Int /\ h[x] = f[x]
  OBVIOUS
<1>4. \A x \in T \ S : h[x] = 0
  OBVIOUS
<1> HIDE DEF h
<1>5. SumFunctionOnSet(h, S) = SumFunctionOnSet(f, S)
  BY <1>1, <1>3, SumSame
<1>6. SumFunctionOnSet(h, T) = SumFunctionOnSet(h, S)
  BY <1>2, <1>4, SumSupport
<1>7. SumFunctionOnSet(h, T) <= SumFunctionOnSet(g, T)
  BY <1>2, SumLess
<1> QED
  BY <1>5, <1>6, <1>7

\* One element more, the others adding what they did.
LEMMA SumGrows ==
  ASSUME NEW f, NEW g, NEW S, NEW x, IsFiniteSet(S), x \notin S,
         \A y \in S : f[y] \in Int /\ g[y] = f[y], g[x] \in Int
  PROVE  SumFunctionOnSet(g, S \cup {x}) = SumFunctionOnSet(f, S) + g[x]
<1>1. SumFunctionOnSet(g, S \cup {x}) = g[x] + SumFunctionOnSet(g, S)
  BY SumAdd
<1>2. SumFunctionOnSet(g, S) = SumFunctionOnSet(f, S) /\ SumFunctionOnSet(f, S) \in Int
  BY SumSame, SumParts
<1> QED
  BY <1>1, <1>2

-----------------------------------------------------------------------------
(* Requests and rows.                                                       *)

\* What a request holds follows from its operation.
LEMMA RequestKinds ==
    ASSUME NEW r \in Request
    PROVE  /\ r.op = "create" => r \in CreateReq
           /\ r.op = "status" => r \in StatusReq
           /\ r.op = "clear" => r \in ClearReq
           /\ r.op = "reverse" => r \in ReverseReq
           /\ r.op = "approve" => r \in ApproveReq
  BY DEF Request, NoReq, CreateReq, StatusReq, ClearReq, ReverseReq, ApproveReq

LEMMA OfficeRows ==
    ASSUME OfficeInv
    PROVE  /\ office \in Seq(OfficeRow) /\ Len(office) \in Nat
           /\ DOMAIN office = 1..Len(office)
           /\ \A i \in DOMAIN office : office[i] \in OfficeRow
  BY DEF OfficeInv, TypeOK

\* No row goes and none becomes a reversal of another; no upload is undone.
RowsKept ==
    /\ DOMAIN office \subseteq DOMAIN office'
    /\ \A i \in DOMAIN office : office'[i].of = office[i].of

BatchesKept == \A b \in Batches : staging[b] # "new" => staging'[b] # "new"

\* A worker's request may be replaced by any that is sound.
LEMMA NewRequest ==
    ASSUME OfficeInv, NEW w \in Workers, NEW r \in Request, RequestSound(r),
           req' = [req EXCEPT ![w] = r], RowsKept, BatchesKept
    PROVE  req' \in [Workers -> Request] /\ RequestsSound'
<1>1. req' \in [Workers -> Request]
  BY DEF OfficeInv, TypeOK
<1>2. ASSUME NEW v \in Workers PROVE RequestSound(req[v])' 
  <2>1. req'[v] \in Request /\ RequestSound(req'[v])
    BY DEF OfficeInv, TypeOK, RequestsSound
  <2>2. req'[v].op = "approve" => req'[v].batch \in Batches
    BY <2>1, RequestKinds DEF ApproveReq
  <2>3. QED
    BY <2>1, <2>2 DEF RequestSound, RowsKept, BatchesKept
<1>3. QED
  BY <1>1, <1>2 DEF RequestsSound

LEMMA FinishedRequest ==
    ASSUME OfficeInv, NEW w \in Workers, Finish(w), RowsKept, BatchesKept
    PROVE  req' \in [Workers -> Request] /\ RequestsSound'
<1>1. NoReq \in Request /\ RequestSound(NoReq)
  BY DEF Request, NoReq, RequestSound
<1>2. QED
  BY <1>1, NewRequest DEF Finish

LEMMA TablesUnchanged ==
    ASSUME OfficeInv, UNCHANGED tables, req' \in [Workers -> Request], RequestsSound'
    PROVE  OfficeInv'
  BY DEF tables, OfficeInv, TypeOK, ReversalsSound, LegUndoes

LEMMA TablesKept == ASSUME UNCHANGED tables PROVE RowsKept /\ BatchesKept
  BY DEF tables, RowsKept, BatchesKept

\* A new request that is sound leaves everything else as it was.
LEMMA BeginInv ==
    ASSUME OfficeInv, NEW w \in Workers, NEW r \in Request, RequestSound(r),
           req' = [req EXCEPT ![w] = r], UNCHANGED tables
    PROVE  OfficeInv'
  BY NewRequest, TablesUnchanged, TablesKept

\* A check of a request changes only where the request stands.
LEMMA ProceedInv ==
    ASSUME OfficeInv, NEW w \in Workers, NEW ok, NEW step, Proceed(w, ok, step),
           [req[w] EXCEPT !.at = step] \in Request,
           req[w] \in StatusReq \cup ClearReq \cup ReverseReq
    PROVE  OfficeInv'
<1> DEFINE s == [req[w] EXCEPT !.at = step]
           r == IF ok THEN s ELSE NoReq
<1>1. s.op = req[w].op /\ s.row = req[w].row
  BY DEF StatusReq, ClearReq, ReverseReq
<1>2. req[w].op # "approve"
  BY DEF StatusReq, ClearReq, ReverseReq
<1>3. RequestSound(s)
  BY <1>1, <1>2 DEF OfficeInv, RequestsSound, RequestSound
<1>4. NoReq \in Request /\ RequestSound(NoReq)
  BY DEF Request, NoReq, RequestSound
<1>5. req' = [req EXCEPT ![w] = r] /\ UNCHANGED tables
  BY DEF Proceed
<1>6. r \in Request /\ RequestSound(r)
  BY <1>3, <1>4
<1> HIDE DEF r
<1>7. QED
  BY <1>5, <1>6, BeginInv

LEMMA EndInv ==
    ASSUME OfficeInv, NEW w \in Workers, Finish(w), UNCHANGED tables
    PROVE  OfficeInv'
  BY FinishedRequest, TablesUnchanged, TablesKept

-----------------------------------------------------------------------------
(* The three ways in which office_cashbook changes.                         *)

\* Rows that are no reversals are added at the end.
LEMMA GrowSound ==
    ASSUME OfficeInv, NEW n \in Nat, office' \in Seq(OfficeRow), Len(office') = Len(office) + n,
           \A i \in 1..Len(office) : office'[i] = office[i],
           \A i \in (Len(office) + 1)..(Len(office) + n) :
               office'[i].of = 0 /\ office'[i].depth = 0 /\ ~office'[i].reversed
    PROVE  ReversalsSound' /\ RowsKept
<1>1. /\ DOMAIN office = 1..Len(office) /\ Len(office) \in Nat
      /\ DOMAIN office' = 1..(Len(office) + n)
  BY OfficeRows
<1>2. RowsKept
  BY <1>1 DEF RowsKept
<1>3. ASSUME NEW i \in DOMAIN office'
      PROVE  /\ office'[i].of # 0 => LegUndoes(i)'
             /\ office'[i].of = 0 => office'[i].depth = 0
             /\ office'[i].reversed => \E j \in DOMAIN office' : office'[j].of = i
  <2>1. CASE i \in 1..Len(office)
    BY <2>1, <1>1 DEF OfficeInv, ReversalsSound, LegUndoes
  <2>2. CASE i \in (Len(office) + 1)..(Len(office) + n)
    BY <2>2
  <2>3. QED
    BY <2>1, <2>2, <1>1
<1>4. QED
  BY <1>2, <1>3 DEF ReversalsSound

\* The status of a row that is no reversal changes.
LEMMA SettleSound ==
    ASSUME OfficeInv, NEW i \in DOMAIN office, office[i].of = 0, NEW s \in Statuses,
           office' = [office EXCEPT ![i].status = s]
    PROVE  office' \in Seq(OfficeRow) /\ ReversalsSound' /\ RowsKept
<1> DEFINE e == [office[i] EXCEPT !.status = s]
<1>1. /\ office \in Seq(OfficeRow) /\ DOMAIN office = 1..Len(office) /\ Len(office) \in Nat
      /\ office[i] \in OfficeRow
  BY OfficeRows
<1>2. e \in OfficeRow
  BY <1>1 DEF OfficeRow
<1>3. office' \in Seq(OfficeRow) /\ DOMAIN office' = DOMAIN office
  BY <1>1, <1>2, ExceptSeq
<1>4. /\ office'[i].of = 0 /\ office'[i].amount = office[i].amount
      /\ office'[i].quarter = office[i].quarter /\ office'[i].kind = office[i].kind
      /\ office'[i].reversed = office[i].reversed /\ office'[i].depth = office[i].depth
  BY <1>1 DEF OfficeRow
<1>5. \A j \in DOMAIN office : j # i => office'[j] = office[j]
  BY <1>1
<1>6. RowsKept
  BY <1>3, <1>4, <1>5 DEF RowsKept
<1>7. ReversalsSound'
  <2>1. ASSUME NEW j \in DOMAIN office
        PROVE  /\ office'[j].of # 0 => LegUndoes(j)'
               /\ office'[j].of = 0 => office'[j].depth = 0
               /\ office'[j].reversed => \E k \in DOMAIN office : office'[k].of = j
    <3>1. /\ office[j].of # 0 => LegUndoes(j)
          /\ office[j].of = 0 => office[j].depth = 0
          /\ office[j].reversed => \E k \in DOMAIN office : office[k].of = j
      BY DEF OfficeInv, ReversalsSound
    <3>2. office'[j].of # 0 => LegUndoes(j)'
      <4>1. SUFFICES ASSUME office'[j].of # 0 PROVE LegUndoes(j)'
        OBVIOUS
      <4>2. j # i /\ office'[j] = office[j]
        BY <4>1, <1>4, <1>5
      <4>3. LegUndoes(j)
        BY <3>1, <4>1, <4>2
      <4>4. office[j].of \in DOMAIN office
        BY <4>3, <1>1 DEF LegUndoes
      <4>5. QED
        BY <4>2, <4>3, <4>4, <1>4, <1>5 DEF LegUndoes
    <3>3. office'[j].of = office[j].of /\ office'[j].depth = office[j].depth
            /\ office'[j].reversed = office[j].reversed
      BY <1>4, <1>5
    <3>4. office'[j].reversed => \E k \in DOMAIN office : office'[k].of = j
      BY <3>1, <3>3, <1>4, <1>5
    <3>5. QED
      BY <3>1, <3>2, <3>3, <3>4
  <2>2. QED
    BY <2>1, <1>3 DEF ReversalsSound
<1>8. QED
  BY <1>3, <1>6, <1>7

\* The row is marked and its compensating row added.
LEMMA ReverseSound ==
    ASSUME OfficeInv, NEW i \in DOMAIN office, office[i].of = 0, NEW d \in Dates,
           office' = Append([office EXCEPT ![i].reversed = TRUE], Leg(i, d))
    PROVE  office' \in Seq(OfficeRow) /\ ReversalsSound' /\ RowsKept
<1> DEFINE n == Len(office) + 1
           e == [office[i] EXCEPT !.reversed = TRUE]
           t == [office EXCEPT ![i] = e]
           x == Leg(i, d)
<1>1. /\ office \in Seq(OfficeRow) /\ DOMAIN office = 1..Len(office) /\ Len(office) \in Nat
      /\ office[i] \in OfficeRow /\ i \in 1..Len(office)
  BY OfficeRows
<1>2. office[i].depth = 0
  BY DEF OfficeInv, ReversalsSound
<1>3. e \in OfficeRow
  BY <1>1 DEF OfficeRow
<1>4. /\ x \in OfficeRow
      /\ x.of = i /\ x.depth = 1 /\ ~x.reversed /\ x.status = "Cleared"
      /\ x.amount = office[i].amount /\ x.quarter = office[i].quarter
      /\ x.kind = Opposite(office[i].kind)
  BY <1>1, <1>2 DEF Leg, OfficeRow, Opposite, Kinds, Statuses
<1>5. office' = Append(t, x)
  OBVIOUS
<1>6. /\ t \in Seq(OfficeRow) /\ Len(t) = Len(office)
      /\ \A j \in 1..Len(office) : t[j] = IF j = i THEN e ELSE office[j]
  BY <1>1, <1>3, ExceptSeq
<1>7. /\ e.of = 0 /\ e.reversed /\ e.amount = office[i].amount /\ e.depth = 0
      /\ e.quarter = office[i].quarter /\ e.kind = office[i].kind
  BY <1>1, <1>2 DEF OfficeRow
<1> HIDE DEF x, e, t
<1>8. /\ office' \in Seq(OfficeRow)
      /\ DOMAIN office' = 1..n
      /\ \A j \in 1..Len(office) : office'[j] = IF j = i THEN e ELSE office[j]
      /\ office'[n] = x
  <2>1. /\ Append(t, x) \in Seq(OfficeRow)
        /\ Len(Append(t, x)) = Len(t) + 1
        /\ \A j \in 1..Len(t) : Append(t, x)[j] = t[j]
        /\ Append(t, x)[Len(t) + 1] = x
    BY <1>4, <1>6, AppendProperties
  <2>2. office' \in Seq(OfficeRow) /\ Len(office') = n /\ office'[n] = x
    BY <2>1, <1>5, <1>6
  <2>3. \A j \in 1..Len(office) : office'[j] = t[j]
    BY <2>1, <1>5, <1>6
  <2>4. DOMAIN office' = 1..n
    BY <2>2, <1>1
  <2>5. QED
    BY <2>2, <2>3, <2>4, <1>6
<1>9. RowsKept
  BY <1>1, <1>7, <1>8 DEF RowsKept
<1>10. ReversalsSound'
  <2>1. ASSUME NEW j \in DOMAIN office'
        PROVE  /\ office'[j].of # 0 => LegUndoes(j)'
               /\ office'[j].of = 0 => office'[j].depth = 0
               /\ office'[j].reversed => \E k \in DOMAIN office' : office'[k].of = j
    <3>1. CASE j = n
      <4>1. office'[j] = x /\ office'[i] = e /\ i \in 1..(j - 1)
        BY <3>1, <1>1, <1>8
      <4>2. x.of # 0
        BY <1>1, <1>4
      <4>3. LegUndoes(j)'
        BY <4>1, <1>4, <1>7 DEF LegUndoes
      <4>4. QED
        BY <4>1, <4>2, <4>3, <1>4
    <3>2. CASE j = i
      <4>1. office'[j].of = 0 /\ office'[j].depth = 0
        BY <3>2, <1>1, <1>7, <1>8
      <4>2. n \in DOMAIN office' /\ office'[n].of = j
        BY <3>2, <1>1, <1>4, <1>8
      <4>3. QED
        BY <4>1, <4>2
    <3>3. CASE j \in 1..Len(office) /\ j # i
      <4>1. office'[j] = office[j] /\ j \in DOMAIN office
        BY <3>3, <1>1, <1>8
      <4>2. /\ office[j].of # 0 => LegUndoes(j)
            /\ office[j].of = 0 => office[j].depth = 0
            /\ office[j].reversed => \E k \in DOMAIN office : office[k].of = j
        BY <4>1 DEF OfficeInv, ReversalsSound
      <4>3. office'[j].of # 0 => LegUndoes(j)'
        <5>1. SUFFICES ASSUME office[j].of # 0 PROVE LegUndoes(j)'
          BY <4>1
        <5>2. LegUndoes(j) /\ office[j].of \in 1..Len(office)
          BY <5>1, <4>1, <4>2, <1>1 DEF LegUndoes
        <5>3. QED
          BY <5>2, <4>1, <1>7, <1>8 DEF LegUndoes
      <4>4. office'[j].reversed => \E k \in DOMAIN office' : office'[k].of = j
        BY <4>1, <4>2, <1>9 DEF RowsKept
      <4>5. QED
        BY <4>1, <4>2, <4>3, <4>4
    <3>4. QED
      BY <3>1, <3>2, <3>3, <1>1, <1>8
  <2>2. QED
    BY <2>1 DEF ReversalsSound
<1>11. QED
  BY <1>8, <1>9, <1>10

\* An approval adds the reviewed rows.
LEMMA InsertSound ==
    ASSUME OfficeInv, NEW b \in Batches, NEW kept \in Seq(KeptRow),
           office' = office \o [k \in DOMAIN kept |-> ImportedRow(kept[k], b)]
    PROVE  office' \in Seq(OfficeRow) /\ ReversalsSound' /\ RowsKept
<1> DEFINE s == [k \in DOMAIN kept |-> ImportedRow(kept[k], b)]
<1>1. /\ office \in Seq(OfficeRow) /\ Len(office) \in Nat
      /\ DOMAIN kept = 1..Len(kept) /\ Len(kept) \in Nat
  BY OfficeRows
<1>2. ASSUME NEW k \in DOMAIN kept
      PROVE  /\ s[k] \in OfficeRow
             /\ s[k].of = 0 /\ s[k].depth = 0 /\ ~s[k].reversed
  <2>1. kept[k] \in KeptRow
    OBVIOUS
  <2>2. s[k] = ImportedRow(kept[k], b)
    OBVIOUS
  <2>3. QED
    BY <2>1, <2>2 DEF ImportedRow, KeptRow, OfficeRow, Statuses
<1>3. DOMAIN s = 1..Len(kept)
  BY <1>1
<1>4. office' = office \o s
  OBVIOUS
<1> HIDE DEF s
<1>5. s \in Seq(OfficeRow) /\ Len(s) = Len(kept)
  <2>1. s \in [1..Len(kept) -> OfficeRow]
    BY <1>1, <1>2, <1>3 DEF s
  <2>2. s \in Seq(OfficeRow)
    BY <2>1, <1>1, SeqDef
  <2>3. Len(s) = Len(kept)
    BY <2>2, <1>1, <1>3, LenProperties
  <2>4. QED
    BY <2>2, <2>3
<1>6. /\ office \o s \in Seq(OfficeRow)
      /\ Len(office \o s) = Len(office) + Len(s)
      /\ \A i \in 1..(Len(office) + Len(s)) :
            (office \o s)[i] = IF i <= Len(office) THEN office[i] ELSE s[i - Len(office)]
  BY <1>1, <1>5, ConcatProperties
<1>7. /\ office' \in Seq(OfficeRow) /\ Len(office') = Len(office) + Len(kept)
      /\ \A i \in 1..Len(office) : office'[i] = office[i]
  BY <1>1, <1>4, <1>5, <1>6
<1>8. ASSUME NEW i \in (Len(office) + 1)..(Len(office) + Len(kept))
      PROVE  office'[i].of = 0 /\ office'[i].depth = 0 /\ ~office'[i].reversed
  <2>1. i - Len(office) \in DOMAIN kept /\ office'[i] = s[i - Len(office)]
    BY <1>1, <1>4, <1>5, <1>6
  <2>2. QED
    BY <2>1, <1>2
<1>9. QED
  BY <1>1, <1>7, <1>8, GrowSound

-----------------------------------------------------------------------------
(* One lemma per operation: its steps preserve the invariant.               *)

\* A step that ends a request and changes only office_cashbook.
LEMMA OfficeWritten ==
    ASSUME OfficeInv, NEW w \in Workers, Finish(w),
           office' \in Seq(OfficeRow), ReversalsSound', RowsKept,
           UNCHANGED <<staging, history, lockedMonths, submitted>>
    PROVE  OfficeInv'
<1>1. BatchesKept
  BY DEF BatchesKept
<1>2. req' \in [Workers -> Request] /\ RequestsSound'
  BY <1>1, FinishedRequest
<1>3. TypeOK'
  BY <1>2 DEF OfficeInv, TypeOK
<1>4. QED
  BY <1>2, <1>3 DEF OfficeInv

\* A step of the import that changes only where a batch stands.
LEMMA StagingWritten ==
    ASSUME OfficeInv, NEW b \in Batches, NEW s \in {"staged", "gone"},
           staging' = [staging EXCEPT ![b] = s],
           UNCHANGED <<office, history, lockedMonths, submitted>>
    PROVE  /\ RowsKept /\ BatchesKept
           /\ req' \in [Workers -> Request] /\ RequestsSound' => OfficeInv'
<1>1. staging' \in [Batches -> {"new", "staged", "gone"}]
  BY DEF OfficeInv, TypeOK
<1>2. BatchesKept
  BY DEF BatchesKept, OfficeInv, TypeOK
<1>3. RowsKept
  BY DEF RowsKept
<1>4. ReversalsSound'
  BY DEF OfficeInv, ReversalsSound, LegUndoes
<1>5. ASSUME req' \in [Workers -> Request], RequestsSound' PROVE OfficeInv'
  <2>1. TypeOK'
    BY <1>1, <1>5 DEF OfficeInv, TypeOK
  <2>2. QED
    BY <2>1, <1>4, <1>5 DEF OfficeInv
<1>6. QED
  BY <1>2, <1>3, <1>5

LEMMA CreateInv ==
    ASSUME OfficeInv, NEW w \in Workers, Create(w)
    PROVE  OfficeInv'
<1>1. CASE CreateBegin(w)
  <2>1. PICK f \in Forms : CreateBegin(w)!(f)
    BY <1>1 DEF CreateBegin
  <2> DEFINE r == [op |-> "create", at |-> "write", form |-> f]
  <2>2. r \in Request
    BY <2>1, FormsAssumption DEF Request, CreateReq
  <2>3. RequestSound(r)
    BY DEF RequestSound
  <2>4. req' = [req EXCEPT ![w] = r] /\ UNCHANGED tables
    BY <2>1
  <2> HIDE DEF r
  <2>5. QED
    BY <2>2, <2>3, <2>4, BeginInv
<1>2. CASE CreateWrite(w)
  <2> DEFINE x == NewRow(req[w].form)
  <2>1. req[w].form \in Form
    <3>1. req[w] \in Request /\ req[w].op = "create"
      BY <1>2 DEF CreateWrite, At, OfficeInv, TypeOK
    <3>2. QED
      BY <3>1, RequestKinds DEF CreateReq
  <2>2. x \in OfficeRow /\ x.of = 0 /\ x.depth = 0 /\ ~x.reversed
    BY <2>1 DEF NewRow, Form, OfficeRow, Statuses
  <2>3. /\ office' = Append(office, x) /\ Finish(w)
        /\ UNCHANGED <<staging, history, lockedMonths, submitted>>
    BY <1>2 DEF CreateWrite
  <2> HIDE DEF x
  <2>4. /\ office' \in Seq(OfficeRow)
        /\ Len(office') = Len(office) + 1
        /\ \A i \in 1..Len(office) : office'[i] = office[i]
        /\ office'[Len(office) + 1] = x
    BY <2>2, <2>3, OfficeRows, AppendProperties
  <2>5. \A i \in (Len(office) + 1)..(Len(office) + 1) :
            office'[i].of = 0 /\ office'[i].depth = 0 /\ ~office'[i].reversed
    BY <2>2, <2>4, OfficeRows
  <2>6. ReversalsSound' /\ RowsKept
    BY <2>4, <2>5, GrowSound
  <2>7. QED
    BY <2>3, <2>4, <2>6, OfficeWritten
<1>3. CASE CreateRefused(w)
  BY <1>3, EndInv DEF CreateRefused
<1>4. QED
  BY <1>1, <1>2, <1>3 DEF Create

\* The row that a request settles or reverses.
LEMMA RequestRow ==
    ASSUME OfficeInv, NEW w \in Workers, req[w].op \in {"status", "clear", "reverse"}
    PROVE  /\ req[w] \in Request
           /\ req[w].row \in DOMAIN office /\ office[req[w].row].of = 0
           /\ office[req[w].row] \in OfficeRow
  BY OfficeRows DEF OfficeInv, TypeOK, RequestsSound, RequestSound

\* A reversal is cleared, so neither kind of settlement takes it.
LEMMA ReversalsAreSettled ==
    ASSUME OfficeInv, NEW i \in DOMAIN office,
           office[i].status = "Pending" \/ \E to \in {"Cleared", "Declined"} :
               StatusChangeAllowed(office[i], to)
    PROVE  office[i].of = 0
<1>1. office[i].status # "Cleared"
  BY DEF StatusChangeAllowed
<1>2. QED
  BY <1>1 DEF OfficeInv, ReversalsSound, LegUndoes

LEMMA StatusInv ==
    ASSUME OfficeInv, NEW w \in Workers, UpdateStatus(w)
    PROVE  OfficeInv'
<1>1. CASE StatusBegin(w)
  <2>1. PICK i \in DOMAIN office, to \in {"Cleared", "Declined"} : StatusBegin(w)!(i, to)
    BY <1>1 DEF StatusBegin
  <2> DEFINE r == [op |-> "status", at |-> "month", row |-> i, to |-> to]
  <2>2. r \in Request
    BY OfficeRows DEF Request, StatusReq
  <2>3. RequestSound(r)
    BY <2>1, ReversalsAreSettled DEF RequestSound
  <2>4. req' = [req EXCEPT ![w] = r] /\ UNCHANGED tables
    BY <2>1
  <2> HIDE DEF r
  <2>5. QED
    BY <2>2, <2>3, <2>4, BeginInv
<1>2. CASE StatusMonth(w)
  <2>1. req[w] \in StatusReq
    BY <1>2, RequestRow, RequestKinds DEF StatusMonth, At
  <2>2. [req[w] EXCEPT !.at = "write"] \in Request
    BY <2>1 DEF StatusReq, Request
  <2>3. PICK ok : Proceed(w, ok, "write")
    BY <1>2 DEF StatusMonth
  <2>4. QED
    BY <2>1, <2>2, <2>3, ProceedInv
<1>3. CASE StatusWrite(w)
  <2>1. req[w] \in StatusReq /\ req[w].row \in DOMAIN office /\ office[req[w].row].of = 0
    BY <1>3, RequestRow, RequestKinds DEF StatusWrite, At
  <2>2. req[w].to \in Statuses
    BY <2>1 DEF StatusReq, Statuses
  <2>3. /\ office' = [office EXCEPT ![req[w].row].status = req[w].to] /\ Finish(w)
        /\ UNCHANGED <<staging, history, lockedMonths, submitted>>
    BY <1>3 DEF StatusWrite
  <2>4. office' \in Seq(OfficeRow) /\ ReversalsSound' /\ RowsKept
    BY <2>1, <2>2, <2>3, SettleSound
  <2>5. QED
    BY <2>3, <2>4, OfficeWritten
<1>4. QED
  BY <1>1, <1>2, <1>3 DEF UpdateStatus

LEMMA ClearInv ==
    ASSUME OfficeInv, NEW w \in Workers, ClearImported(w)
    PROVE  OfficeInv'
<1>1. CASE ClearBegin(w)
  <2>1. PICK i \in DOMAIN office : ClearBegin(w)!(i)
    BY <1>1 DEF ClearBegin
  <2> DEFINE r == [op |-> "clear", at |-> "month", row |-> i]
  <2>2. r \in Request
    BY OfficeRows DEF Request, ClearReq
  <2>3. RequestSound(r)
    BY <2>1, ReversalsAreSettled DEF RequestSound
  <2>4. req' = [req EXCEPT ![w] = r] /\ UNCHANGED tables
    BY <2>1
  <2> HIDE DEF r
  <2>5. QED
    BY <2>2, <2>3, <2>4, BeginInv
<1>2. CASE ClearMonth(w)
  <2>1. req[w] \in ClearReq
    BY <1>2, RequestRow, RequestKinds DEF ClearMonth, At
  <2>2. [req[w] EXCEPT !.at = "write"] \in Request
    BY <2>1 DEF ClearReq, Request
  <2>3. PICK ok : Proceed(w, ok, "write")
    BY <1>2 DEF ClearMonth
  <2>4. QED
    BY <2>1, <2>2, <2>3, ProceedInv
<1>3. CASE ClearWrite(w)
  <2> DEFINE i == req[w].row
             s == IF office[i].status = "Pending" THEN "Cleared" ELSE office[i].status
  <2>1. i \in DOMAIN office /\ office[i].of = 0 /\ office[i] \in OfficeRow
    BY <1>3, RequestRow DEF ClearWrite, At
  <2>2. s \in Statuses
    BY <2>1 DEF OfficeRow, Statuses
  <2>3. /\ office' = [office EXCEPT ![i].status = s] /\ Finish(w)
        /\ UNCHANGED <<staging, history, lockedMonths, submitted>>
    BY <1>3 DEF ClearWrite
  <2> HIDE DEF s
  <2>4. office' \in Seq(OfficeRow) /\ ReversalsSound' /\ RowsKept
    BY <2>1, <2>2, <2>3, SettleSound
  <2>5. QED
    BY <2>3, <2>4, OfficeWritten
<1>4. QED
  BY <1>1, <1>2, <1>3 DEF ClearImported

LEMMA ReverseInv ==
    ASSUME OfficeInv, NEW w \in Workers, Reverse(w)
    PROVE  OfficeInv'
<1>1. CASE ReverseBegin(w)
  <2>1. PICK i \in DOMAIN office, today \in Dates : ReverseBegin(w)!(i, today)
    BY <1>1 DEF ReverseBegin
  <2> DEFINE r == [op |-> "reverse",
                   at |-> IF office[i].quarter = NoQuarter THEN "month" ELSE "vat",
                   row |-> i, date |-> today]
  <2>2. r \in Request
    BY OfficeRows DEF Request, ReverseReq
  <2>3. RequestSound(r)
    BY <2>1 DEF RequestSound, Reversible
  <2>4. req' = [req EXCEPT ![w] = r] /\ UNCHANGED tables
    BY <2>1
  <2> HIDE DEF r
  <2>5. QED
    BY <2>2, <2>3, <2>4, BeginInv
<1>2. CASE ReverseVat(w) \/ ReverseMonth(w)
  <2>1. req[w] \in ReverseReq
    BY <1>2, RequestRow, RequestKinds DEF ReverseVat, ReverseMonth, At
  <2>2. ASSUME NEW ok, NEW step \in {"month", "write"}, Proceed(w, ok, step) PROVE OfficeInv'
    <3>1. [req[w] EXCEPT !.at = step] \in Request
      BY <2>1 DEF ReverseReq, Request
    <3>2. QED
      BY <2>1, <2>2, <3>1, ProceedInv
  <2>3. CASE ReverseVat(w)
    BY <2>3, <2>2 DEF ReverseVat
  <2>4. CASE ReverseMonth(w)
    BY <2>4, <2>2 DEF ReverseMonth
  <2>5. QED
    BY <1>2, <2>3, <2>4
<1>3. CASE ReverseWrite(w)
  <2>1. req[w] \in ReverseReq /\ req[w].row \in DOMAIN office /\ office[req[w].row].of = 0
    BY <1>3, RequestRow, RequestKinds DEF ReverseWrite, At
  <2>2. req[w].date \in Dates
    BY <2>1 DEF ReverseReq
  <2>3. /\ office' = Append([office EXCEPT ![req[w].row].reversed = TRUE],
                            Leg(req[w].row, req[w].date))
        /\ Finish(w)
        /\ UNCHANGED <<staging, history, lockedMonths, submitted>>
    BY <1>3 DEF ReverseWrite
  <2>4. office' \in Seq(OfficeRow) /\ ReversalsSound' /\ RowsKept
    BY <2>1, <2>2, <2>3, ReverseSound
  <2>5. QED
    BY <2>3, <2>4, OfficeWritten
<1>4. QED
  BY <1>1, <1>2, <1>3 DEF Reverse

\* What an approval under way holds.
LEMMA ApprovalUnderWay ==
    ASSUME OfficeInv, NEW w \in Workers, req[w].op = "approve"
    PROVE  /\ req[w] \in ApproveReq
           /\ req[w].batch \in Batches /\ req[w].kept \in Seq(KeptRow)
           /\ req[w].kept \in Reviews[req[w].batch] /\ staging[req[w].batch] # "new"
<1>1. req[w] \in ApproveReq
  BY RequestKinds DEF OfficeInv, TypeOK
<1>2. QED
  BY <1>1 DEF ApproveReq, OfficeInv, RequestsSound, RequestSound

LEMMA ApproveInv ==
    ASSUME OfficeInv, NEW w \in Workers, Approve(w)
    PROVE  OfficeInv'
<1>1. CASE ApproveRead(w)
  <2>1. PICK b \in Batches : \E kept \in Reviews[b] : ApproveRead(w)!(b)!(kept)
    BY <1>1 DEF ApproveRead
  <2>2. PICK kept \in Reviews[b] : ApproveRead(w)!(b)!(kept)
    BY <2>1
  <2> DEFINE r == [op |-> "approve", at |-> IF kept = <<>> THEN "discard" ELSE "insert",
                   batch |-> b, kept |-> kept, tries |-> 1]
  <2>3. r \in ApproveReq
    <3>1. kept \in Seq(KeptRow) /\ 1 \in 1..Retries
      BY ReviewsAssumption, BoundsAssumption
    <3>2. QED
      BY <3>1 DEF ApproveReq
  <2>4. RequestSound(r)
    BY <2>2 DEF RequestSound, Approvable
  <2>5. req' = [req EXCEPT ![w] = r] /\ UNCHANGED tables
    BY <2>2
  <2>6. r \in Request
    BY <2>3 DEF Request
  <2> HIDE DEF r
  <2>7. QED
    BY <2>4, <2>5, <2>6, BeginInv
<1>2. CASE ApproveDiscard(w) \/ ApproveCleanup(w)
  <2>1. req[w].batch \in Batches
    BY <1>2, ApprovalUnderWay DEF ApproveDiscard, ApproveCleanup, At
  <2>2. /\ staging' = [staging EXCEPT ![req[w].batch] = "gone"] /\ Finish(w)
        /\ UNCHANGED <<office, history, lockedMonths, submitted>>
    BY <1>2 DEF ApproveDiscard, ApproveCleanup
  <2>3. RowsKept /\ BatchesKept
    BY <2>1, <2>2, StagingWritten
  <2>4. req' \in [Workers -> Request] /\ RequestsSound'
    BY <2>2, <2>3, FinishedRequest
  <2>5. QED
    BY <2>1, <2>2, <2>4, StagingWritten
<1>3. CASE ApproveInsert(w)
  <2> DEFINE b == req[w].batch
             kept == req[w].kept
             r == [req[w] EXCEPT !.at = "cleanup"]
  <2>1. /\ req[w] \in ApproveReq /\ b \in Batches /\ kept \in Seq(KeptRow)
        /\ kept \in Reviews[b] /\ staging[b] # "new"
    BY <1>3, ApprovalUnderWay DEF ApproveInsert, At
  <2>2. r \in ApproveReq /\ r.batch = b /\ r.kept = kept /\ r.op = "approve"
    BY <2>1 DEF ApproveReq
  <2>3. r \in Request /\ RequestSound(r)
    BY <2>1, <2>2 DEF Request, RequestSound
  <2>4. /\ office' = office \o [k \in DOMAIN kept |-> ImportedRow(kept[k], b)]
        /\ req' = [req EXCEPT ![w] = r]
        /\ UNCHANGED <<staging, lockedMonths, submitted>>
    BY <1>3 DEF ApproveInsert
  <2>5. DOMAIN history' \subseteq Batches
    BY <1>3, <2>1 DEF ApproveInsert, OfficeInv, TypeOK
  <2> HIDE DEF r, b, kept
  <2>6. office' \in Seq(OfficeRow) /\ ReversalsSound' /\ RowsKept
    BY <2>1, <2>4, InsertSound
  <2>7. BatchesKept
    BY <2>4 DEF BatchesKept
  <2>8. req' \in [Workers -> Request] /\ RequestsSound'
    BY <2>3, <2>4, <2>6, <2>7, NewRequest
  <2>9. TypeOK'
    BY <2>4, <2>5, <2>6, <2>8 DEF OfficeInv, TypeOK
  <2>10. QED
    BY <2>6, <2>8, <2>9 DEF OfficeInv
<1>4. CASE ApproveBusy(w)
  <2> DEFINE again == [req[w] EXCEPT !.at = "insert", !.tries = req[w].tries + 1]
             r == IF req[w].tries < Retries THEN again ELSE NoReq
  <2>1. /\ req[w] \in ApproveReq
        /\ req[w].kept \in Reviews[req[w].batch] /\ staging[req[w].batch] # "new"
    BY <1>4, ApprovalUnderWay DEF ApproveBusy
  <2>2. req' = [req EXCEPT ![w] = r] /\ UNCHANGED tables
    BY <1>4 DEF ApproveBusy
  <2>3. ASSUME req[w].tries < Retries
        PROVE  again \in Request /\ RequestSound(again)
    <3>1. req[w].tries \in 1..Retries /\ Retries \in Nat
      BY <2>1, BoundsAssumption DEF ApproveReq
    <3>2. req[w].tries + 1 \in 1..Retries
      BY <2>3, <3>1
    <3>3. /\ again \in ApproveReq /\ again.op = "approve"
          /\ again.batch = req[w].batch /\ again.kept = req[w].kept
      BY <2>1, <3>2 DEF ApproveReq
    <3>4. QED
      BY <3>3, <2>1 DEF Request, RequestSound
  <2>4. NoReq \in Request /\ RequestSound(NoReq)
    BY DEF Request, NoReq, RequestSound
  <2>5. r \in Request /\ RequestSound(r)
    BY <2>3, <2>4
  <2> HIDE DEF r
  <2>6. QED
    BY <2>2, <2>5, BeginInv
<1>5. QED
  BY <1>1, <1>2, <1>3, <1>4 DEF Approve

LEMMA ImportInv ==
    ASSUME OfficeInv, NEW w \in Workers, Import(w)
    PROVE  OfficeInv'
<1>1. ASSUME Upload(w) \/ CancelImport(w) PROVE OfficeInv'
  <2>1. PICK b \in Batches, s \in {"staged", "gone"} :
            /\ staging' = [staging EXCEPT ![b] = s]
            /\ UNCHANGED <<office, history, lockedMonths, submitted, req>>
    BY <1>1 DEF Upload, CancelImport
  <2>2. RowsKept /\ BatchesKept
    BY <2>1, StagingWritten
  <2>3. req' \in [Workers -> Request]
    BY <2>1 DEF OfficeInv, TypeOK
  <2>4. req[w] \in Request /\ RequestSound(req[w]) /\ req' = [req EXCEPT ![w] = req[w]]
    BY <2>1 DEF OfficeInv, TypeOK, RequestsSound
  <2>5. req' \in [Workers -> Request] /\ RequestsSound'
    BY <2>2, <2>4, NewRequest
  <2>6. QED
    BY <2>1, <2>5, StagingWritten
<1>2. QED
  BY <1>1, ApproveInv DEF Import

LEMMA ElsewhereInv ==
    ASSUME OfficeInv, NEW w \in Workers, Elsewhere(w)
    PROVE  OfficeInv'
<1>1. /\ UNCHANGED <<office, staging, history, req>>
      /\ lockedMonths' \subseteq Months /\ submitted' \subseteq Quarters
  BY DEF Elsewhere, LockMonth, UnlockMonth, SubmitReturn, OfficeInv, TypeOK
<1>2. TypeOK'
  BY <1>1 DEF OfficeInv, TypeOK
<1>3. ReversalsSound'
  BY <1>1 DEF OfficeInv, ReversalsSound, LegUndoes
<1>4. RequestsSound'
  BY <1>1 DEF OfficeInv, RequestsSound, RequestSound
<1>5. QED
  BY <1>2, <1>3, <1>4 DEF OfficeInv

-----------------------------------------------------------------------------
LEMMA InitInv == Init => OfficeInv
<1> SUFFICES ASSUME Init PROVE OfficeInv
  OBVIOUS
<1>1. TypeOK
  BY DEF Init, TypeOK, Request
<1>2. ReversalsSound
  BY DEF Init, ReversalsSound
<1>3. RequestsSound
  BY DEF Init, RequestsSound, RequestSound, NoReq
<1>4. QED
  BY <1>1, <1>2, <1>3 DEF OfficeInv

LEMMA StepInv == OfficeInv /\ [Next]_vars => OfficeInv'
<1> SUFFICES ASSUME OfficeInv, [Next]_vars PROVE OfficeInv'
  OBVIOUS
<1>1. ASSUME NEW w \in Workers, Step(w) PROVE OfficeInv'
  <2>1. CASE Create(w)
    BY <2>1, CreateInv
  <2>2. CASE UpdateStatus(w)
    BY <2>2, StatusInv
  <2>3. CASE ClearImported(w)
    BY <2>3, ClearInv
  <2>4. CASE Reverse(w)
    BY <2>4, ReverseInv
  <2>5. CASE Import(w)
    BY <2>5, ImportInv
  <2>6. CASE Elsewhere(w)
    BY <2>6, ElsewhereInv
  <2>7. CASE Abort(w)
    BY <2>7, EndInv DEF Abort
  <2>8. QED
    BY <1>1, <2>1, <2>2, <2>3, <2>4, <2>5, <2>6, <2>7 DEF Step
<1>2. CASE UNCHANGED vars
  <2>1. UNCHANGED tables /\ req' \in [Workers -> Request] /\ RequestsSound'
    BY <1>2 DEF vars, tables, OfficeInv, TypeOK, RequestsSound, RequestSound
  <2>2. QED
    BY <2>1, TablesUnchanged
<1>3. QED
  BY <1>1, <1>2 DEF Next

\* The strengthened invariant holds of every behaviour: requests under way keep
\* naming rows that are no reversals, because no handler turns a row into one.
THEOREM OfficeInvariant == Spec => []OfficeInv
  BY InitInv, StepInv, PTL DEF Spec

\* office_cashbook, the staging and every request keep to their columns.
THEOREM TypeCorrect == Spec => []TypeOK
<1>1. OfficeInv => TypeOK
  BY DEF OfficeInv
<1>2. QED
  BY <1>1, OfficeInvariant, PTL

\* Whatever reversals, settlements and imports interleave, a reversal undoes a
\* row that was no reversal, completely, and is never reversed or settled.
THEOREM ReversalsUndo == Spec => []ReversalsSound
<1>1. OfficeInv => ReversalsSound
  BY DEF OfficeInv
<1>2. QED
  BY <1>1, OfficeInvariant, PTL

-----------------------------------------------------------------------------
(* The rows after each way in which office_cashbook changes.                *)

\* A row x is added.
Added(n, x) ==
    /\ n = Len(office) + 1 /\ n \notin DOMAIN office
    /\ DOMAIN office' = DOMAIN office \cup {n}
    /\ office'[n] = x
    /\ \A j \in DOMAIN office : office'[j] = office[j]

\* The status of row i becomes s.
Settled(i, s) ==
    /\ i \in DOMAIN office /\ DOMAIN office' = DOMAIN office
    /\ office'[i] = [office[i] EXCEPT !.status = s]
    /\ \A j \in DOMAIN office \ {i} : office'[j] = office[j]

\* Row i is marked and its compensating row added.
Undone(n, i, d) ==
    /\ i \in DOMAIN office /\ n = Len(office) + 1 /\ n \notin DOMAIN office
    /\ DOMAIN office' = DOMAIN office \cup {n}
    /\ office'[i] = [office[i] EXCEPT !.reversed = TRUE]
    /\ office'[n] = Leg(i, d)
    /\ \A j \in DOMAIN office \ {i} : office'[j] = office[j]

\* The reviewed rows are added.
Taken(b, kept) ==
    /\ Len(office') = Len(office) + Len(kept) /\ Len(kept) \in Nat /\ DOMAIN kept = 1..Len(kept)
    /\ DOMAIN office' = 1..(Len(office) + Len(kept))
    /\ \A j \in DOMAIN office : j \in DOMAIN office' /\ office'[j] = office[j]
    /\ \A k \in DOMAIN kept : office'[Len(office) + k] = ImportedRow(kept[k], b)

LEMMA CreateRows ==
  ASSUME OfficeInv, NEW w \in Workers, CreateWrite(w)
  PROVE  /\ req[w] \in CreateReq /\ req[w].form \in Form
         /\ Added(Len(office) + 1, NewRow(req[w].form))
<1> DEFINE x == NewRow(req[w].form)
<1>1. req[w] \in CreateReq
  BY RequestKinds DEF CreateWrite, At, OfficeInv, TypeOK
<1>2. req[w].form \in Form
  BY <1>1 DEF CreateReq
<1>3. office' = Append(office, x)
  BY DEF CreateWrite
<1>4. x \in OfficeRow
  BY <1>2 DEF NewRow, Form, OfficeRow, Statuses
<1> HIDE DEF x
<1>5. /\ office' \in Seq(OfficeRow) /\ Len(office') = Len(office) + 1
      /\ \A i \in 1..Len(office) : office'[i] = office[i]
      /\ office'[Len(office) + 1] = x
  BY <1>3, <1>4, OfficeRows, AppendProperties
<1>6. DOMAIN office' = 1..(Len(office) + 1)
  BY <1>5, OfficeRows
<1>7. Added(Len(office) + 1, x)
  BY <1>5, <1>6, OfficeRows DEF Added
<1> QED
  BY <1>1, <1>2, <1>7 DEF x

LEMMA SettleRows ==
  ASSUME OfficeInv, NEW i \in DOMAIN office, NEW s,
         office' = [office EXCEPT ![i].status = s]
  PROVE  Settled(i, s)
  BY OfficeRows DEF Settled

LEMMA StatusRows ==
  ASSUME OfficeInv, NEW w \in Workers, StatusWrite(w)
  PROVE  req[w] \in StatusReq /\ req[w].op = "status" /\ Settled(req[w].row, req[w].to)
<1>1. req[w] \in StatusReq /\ req[w].op = "status" /\ req[w].row \in DOMAIN office
  BY RequestRow, RequestKinds DEF StatusWrite, At
<1> QED
  BY <1>1, SettleRows DEF StatusWrite

LEMMA ClearRows ==
  ASSUME OfficeInv, NEW w \in Workers, ClearWrite(w)
  PROVE  /\ req[w] \in ClearReq /\ req[w].op = "clear"
         /\ Settled(req[w].row, IF office[req[w].row].status = "Pending" THEN "Cleared"
                                ELSE office[req[w].row].status)
<1>1. req[w] \in ClearReq /\ req[w].op = "clear" /\ req[w].row \in DOMAIN office
  BY RequestRow, RequestKinds DEF ClearWrite, At
<1> QED
  BY <1>1, SettleRows DEF ClearWrite

LEMMA ReverseRows ==
  ASSUME OfficeInv, NEW w \in Workers, ReverseWrite(w)
  PROVE  /\ req[w] \in ReverseReq /\ req[w].op = "reverse"
         /\ req[w].date \in Dates /\ req[w].row \in DOMAIN office
         /\ office[req[w].row].of = 0 /\ office[req[w].row].depth = 0
         /\ Undone(Len(office) + 1, req[w].row, req[w].date)
<1> SUFFICES ASSUME NEW i, i = req[w].row, NEW d, d = req[w].date
             PROVE  /\ req[w] \in ReverseReq /\ req[w].op = "reverse"
                    /\ d \in Dates /\ i \in DOMAIN office
                    /\ office[i].of = 0 /\ office[i].depth = 0
                    /\ Undone(Len(office) + 1, i, d)
  OBVIOUS
<1>1. req[w] \in ReverseReq /\ req[w].op = "reverse" /\ i \in DOMAIN office /\ office[i].of = 0
  BY RequestRow, RequestKinds DEF ReverseWrite, At
<1>2. d \in Dates
  BY <1>1 DEF ReverseReq
<1>3. office[i].depth = 0
  BY <1>1 DEF OfficeInv, ReversalsSound
<1> DEFINE e == [office[i] EXCEPT !.reversed = TRUE]
           t == [office EXCEPT ![i] = e]
           x == Leg(i, d)
<1>4. office' = Append(t, x)
  BY DEF ReverseWrite
<1>5. /\ office \in Seq(OfficeRow) /\ DOMAIN office = 1..Len(office) /\ Len(office) \in Nat
      /\ office[i] \in OfficeRow
  BY <1>1, OfficeRows
<1>6. e \in OfficeRow
  BY <1>5 DEF OfficeRow
<1>7. x \in OfficeRow
  BY <1>1, <1>2, <1>3, <1>5 DEF Leg, OfficeRow, Opposite, Kinds, Statuses
<1>8. /\ t \in Seq(OfficeRow) /\ Len(t) = Len(office)
      /\ \A j \in 1..Len(office) : t[j] = IF j = i THEN e ELSE office[j]
  BY <1>1, <1>5, <1>6, ExceptSeq
<1> HIDE DEF x, e, t
<1>9. /\ Len(office') = Len(office) + 1 /\ office' \in Seq(OfficeRow)
      /\ \A j \in 1..Len(office) : office'[j] = t[j]
      /\ office'[Len(office) + 1] = x
  BY <1>4, <1>7, <1>8, AppendProperties
<1>10. DOMAIN office' = 1..(Len(office) + 1)
  BY <1>9, <1>5
<1>11. DOMAIN office' = DOMAIN office \cup {Len(office) + 1} /\ Len(office) + 1 \notin DOMAIN office
  BY <1>10, <1>5
<1>12. office'[i] = e /\ \A j \in DOMAIN office \ {i} : office'[j] = office[j]
  BY <1>1, <1>5, <1>8, <1>9
<1>13. Undone(Len(office) + 1, i, d)
  BY <1>1, <1>9, <1>11, <1>12 DEF Undone, x, e
<1> QED
  BY <1>1, <1>2, <1>3, <1>13

LEMMA InsertRows ==
  ASSUME OfficeInv, NEW w \in Workers, ApproveInsert(w)
  PROVE  Taken(req[w].batch, req[w].kept)
<1> DEFINE b == req[w].batch
           kept == req[w].kept
           s == [k \in DOMAIN kept |-> ImportedRow(kept[k], b)]
<1>1. b \in Batches /\ kept \in Seq(KeptRow)
  BY ApprovalUnderWay DEF ApproveInsert, At
<1>2. office' = office \o s
  BY DEF ApproveInsert
<1>3. /\ office \in Seq(OfficeRow) /\ Len(office) \in Nat /\ DOMAIN office = 1..Len(office)
      /\ DOMAIN kept = 1..Len(kept) /\ Len(kept) \in Nat
  BY <1>1, OfficeRows
<1> HIDE DEF b, kept
<1>4. \A k \in DOMAIN kept : s[k] \in OfficeRow /\ s[k] = ImportedRow(kept[k], b)
  <2> SUFFICES ASSUME NEW k \in DOMAIN kept
               PROVE  s[k] \in OfficeRow /\ s[k] = ImportedRow(kept[k], b)
    OBVIOUS
  <2>1. kept[k] \in KeptRow
    BY <1>1
  <2> QED
    BY <2>1, <1>1 DEF ImportedRow, KeptRow, OfficeRow, Statuses
<1>5. DOMAIN s = 1..Len(kept)
  BY <1>3
<1>6. s \in [1..Len(kept) -> OfficeRow]
  BY <1>3, <1>4, <1>5
<1> HIDE DEF s
<1>7. s \in Seq(OfficeRow)
  BY <1>6, <1>3, SeqDef
<1>8. Len(s) = Len(kept)
  BY <1>7, <1>3, <1>5, LenProperties
<1>9. /\ office \o s \in Seq(OfficeRow)
      /\ Len(office \o s) = Len(office) + Len(s)
      /\ \A i \in 1..(Len(office) + Len(s)) :
            (office \o s)[i] = IF i <= Len(office) THEN office[i] ELSE s[i - Len(office)]
  BY <1>3, <1>7, ConcatProperties
<1>10. /\ Len(office') = Len(office) + Len(kept)
       /\ DOMAIN office' = 1..(Len(office) + Len(kept))
       /\ \A j \in DOMAIN office : j \in DOMAIN office' /\ office'[j] = office[j]
  BY <1>2, <1>3, <1>8, <1>9
<1>11. ASSUME NEW k \in DOMAIN kept PROVE office'[Len(office) + k] = ImportedRow(kept[k], b)
  <2>1. office'[Len(office) + k] = s[k]
    BY <1>2, <1>3, <1>8, <1>9
  <2> QED
    BY <2>1, <1>4
<1> QED
  BY <1>3, <1>10, <1>11 DEF Taken, b, kept

\* Every other step leaves the rows alone.
LEMMA RowWriters ==
  ASSUME NEW w \in Workers, Step(w), office' # office
  PROVE  CreateWrite(w) \/ StatusWrite(w) \/ ClearWrite(w) \/ ReverseWrite(w) \/ ApproveInsert(w)
  BY DEF Step, tables, Proceed, Create, CreateBegin, CreateRefused,
     UpdateStatus, StatusBegin, StatusMonth, ClearImported, ClearBegin, ClearMonth,
     Reverse, ReverseBegin, ReverseVat, ReverseMonth, Import, Upload, CancelImport, Approve,
     ApproveRead, ApproveDiscard, ApproveCleanup, ApproveBusy,
     Elsewhere, LockMonth, UnlockMonth, SubmitReturn, Abort

-----------------------------------------------------------------------------
(* What the rows add to the balance, and how a write changes it.            *)

OfficeDelta(S) ==
    [i \in DOMAIN office |->
        IF office[i].date \in S /\ Counts(i) THEN Sign(office[i].kind) * office[i].amount ELSE 0]

\* The balance is the sum of whole numbers over the rows.
NetSums ==
    /\ IsFiniteSet(DOMAIN office)
    /\ \A S : /\ \A i \in DOMAIN office : OfficeDelta(S)[i] \in Int
              /\ OfficeNet(S) = SumFunctionOnSet(OfficeDelta(S), DOMAIN office)
              /\ OfficeNet(S) \in Int

LEMMA SignInt == ASSUME NEW kind, NEW a \in Int
                 PROVE  /\ Sign(kind) * a \in Int
                        /\ kind = "Receipt" => Sign(kind) * a = a
                        /\ kind # "Receipt" => Sign(kind) * a = 0 - a
  BY DEF Sign

LEMMA NetsAre == OfficeInv => NetSums
<1> SUFFICES ASSUME OfficeInv PROVE NetSums
  OBVIOUS
<1>1. IsFiniteSet(DOMAIN office)
  BY OfficeRows, FS_Interval
<1>2. ASSUME NEW S
      PROVE  /\ DOMAIN OfficeDelta(S) = DOMAIN office
             /\ \A i \in DOMAIN office : OfficeDelta(S)[i] \in Int
  <2>1. \A i \in DOMAIN office : Sign(office[i].kind) * office[i].amount \in Int
    BY OfficeRows, SignInt DEF OfficeRow, Amounts
  <2> QED
    BY <2>1 DEF OfficeDelta
<1>3. ASSUME NEW S PROVE OfficeNet(S) = SumFunctionOnSet(OfficeDelta(S), DOMAIN office)
  <2>1. OfficeNet(S) = SumFunction(OfficeDelta(S))
    BY DEF OfficeNet, OfficeDelta
  <2> QED
    BY <1>2, <2>1, Zenon DEF SumFunction
<1> QED
  BY <1>1, <1>2, <1>3, SumParts DEF NetSums

LEMMA NetsNext == (OfficeInv => NetSums)'
<1>1. OfficeInv => NetSums
  BY NetsAre
<1> QED
  BY <1>1, PTL

\* What a row adds, before and after a step.
Value(row) == Sign(row.kind) * row.amount

Counted(row, S) ==
    row.date \in S /\ row.status = "Cleared" /\ ~row.reversed /\ row.depth % 2 = 0

LEMMA DeltaIs ==
  ASSUME NEW S
  PROVE  /\ \A i \in DOMAIN office :
               OfficeDelta(S)[i] = IF Counted(office[i], S) THEN Value(office[i]) ELSE 0
         /\ \A i \in DOMAIN office' :
               OfficeDelta(S)'[i] = IF Counted(office'[i], S) THEN Value(office'[i]) ELSE 0
  BY DEF OfficeDelta, Counts, Counted, Value

LEMMA ValueIs ==
  ASSUME NEW row, row.amount \in Nat
  PROVE  /\ Value(row) \in Int
         /\ row.kind = "Receipt" => Value(row) = row.amount
         /\ row.kind # "Receipt" => Value(row) = 0 - row.amount
<1>1. row.amount \in Int
  OBVIOUS
<1> QED
  BY <1>1, SignInt, Zenon DEF Value

LEMMA DeltaKept ==
  ASSUME NEW S, NEW j \in DOMAIN office, j \in DOMAIN office', office'[j] = office[j]
  PROVE  OfficeDelta(S)'[j] = OfficeDelta(S)[j]
  BY DeltaIs

\* The balance rises when no row counts less and new rows do not count against it.
LEMMA NetRises ==
  ASSUME OfficeInv, OfficeInv', DOMAIN office \subseteq DOMAIN office', NEW S,
         \A i \in DOMAIN office : OfficeDelta(S)[i] <= OfficeDelta(S)'[i],
         \A i \in DOMAIN office' \ DOMAIN office : 0 <= OfficeDelta(S)'[i]
  PROVE  OfficeNet(S) <= OfficeNet(S)'
<1> DEFINE old == OfficeDelta(S)
           new == OfficeDelta(S)'
<1>1. /\ IsFiniteSet(DOMAIN office')
      /\ \A i \in DOMAIN office : old[i] \in Int
      /\ \A i \in DOMAIN office' : new[i] \in Int
      /\ OfficeNet(S) = SumFunctionOnSet(old, DOMAIN office)
      /\ OfficeNet(S)' = SumFunctionOnSet(new, DOMAIN office')
  BY NetsAre, NetsNext DEF NetSums
<1>2. /\ \A i \in DOMAIN office : old[i] \in Int /\ old[i] <= new[i]
      /\ \A i \in DOMAIN office' \ DOMAIN office : 0 <= new[i]
  BY <1>1
<1> HIDE DEF old, new
<1>3. SumFunctionOnSet(old, DOMAIN office) <= SumFunctionOnSet(new, DOMAIN office')
  BY <1>1, <1>2, SumRises
<1> QED
  BY <1>1, <1>3

\* A row that is added adds what it counts.
LEMMA NetAdds ==
  ASSUME OfficeInv, OfficeInv', NEW n, NEW x, Added(n, x), NEW S
  PROVE  OfficeNet(S)' = OfficeNet(S) + OfficeDelta(S)'[n] /\ OfficeDelta(S)'[n] \in Int
<1> DEFINE old == OfficeDelta(S)
           new == OfficeDelta(S)'
<1>1. /\ IsFiniteSet(DOMAIN office)
      /\ \A i \in DOMAIN office : old[i] \in Int
      /\ \A i \in DOMAIN office' : new[i] \in Int
      /\ OfficeNet(S) = SumFunctionOnSet(old, DOMAIN office)
      /\ OfficeNet(S)' = SumFunctionOnSet(new, DOMAIN office')
  BY NetsAre, NetsNext DEF NetSums
<1>2. n \notin DOMAIN office /\ DOMAIN office' = DOMAIN office \cup {n}
  BY DEF Added
<1>3. \A i \in DOMAIN office : new[i] = old[i]
  BY DeltaKept DEF Added
<1>4. new[n] \in Int
  BY <1>1, <1>2
<1> HIDE DEF old, new
<1>5. SumFunctionOnSet(new, DOMAIN office \cup {n}) = SumFunctionOnSet(old, DOMAIN office) + new[n]
  BY <1>1, <1>2, <1>3, <1>4, SumGrows
<1>6. OfficeNet(S)' = OfficeNet(S) + new[n]
  BY <1>1, <1>2, <1>5
<1> QED
  BY <1>4, <1>6 DEF new

\* What there is up to a date, there is at least over all dates, when no later
\* row that counts takes money out.
LEMMA LaterRows ==
  ASSUME OfficeInv, NEW d \in Dates, ~LaterExpense(d)
  PROVE  OfficeNet(UpTo(d)) <= OfficeNet(Dates)
<1>1. ASSUME NEW i \in DOMAIN office
      PROVE  OfficeDelta(UpTo(d))[i] <= OfficeDelta(Dates)[i]
  <2>1. office[i] \in OfficeRow
    BY OfficeRows
  <2>2. office[i].date \in Dates /\ Dates \subseteq Nat /\ office[i].amount \in Nat
        /\ office[i].kind \in Kinds
    BY <2>1, DatesAssumption DEF OfficeRow, Amounts
  <2> DEFINE date == office[i].date
  <2>0. d \in Nat /\ date \in Nat
    BY <2>2
  <2>3. CASE date <= d
    <3>1. Counted(office[i], UpTo(d)) <=> Counted(office[i], Dates)
      BY <2>2, <2>3 DEF UpTo, Counted
    <3>2. OfficeDelta(UpTo(d))[i] = OfficeDelta(Dates)[i]
      BY <3>1, DeltaIs
    <3> QED
      BY <3>2, NetsAre DEF NetSums
  <2>4. CASE date > d
    <3>1. date \notin UpTo(d)
      <4> HIDE DEF date
      <4> QED
        BY <2>0, <2>4 DEF UpTo
    <3>2. OfficeDelta(UpTo(d))[i] = 0
      BY <3>1, DeltaIs DEF Counted
    <3>3. OfficeDelta(Dates)[i] >= 0
      <4>1. Counted(office[i], Dates) => office[i].kind = "Receipt"
        BY <2>2, <2>4 DEF LaterExpense, Kinds, Counts, Counted
      <4>2. office[i].kind = "Receipt" => Value(office[i]) = office[i].amount
        BY <2>2, ValueIs
      <4> QED
        BY <2>2, <4>1, <4>2, DeltaIs
    <3> QED
      BY <3>2, <3>3, NetsAre DEF NetSums
  <2> QED
    <3> HIDE DEF date
    <3> QED
      BY <2>0, <2>3, <2>4
<1>2. /\ IsFiniteSet(DOMAIN office)
      /\ \A i \in DOMAIN office : OfficeDelta(UpTo(d))[i] \in Int /\ OfficeDelta(Dates)[i] \in Int
      /\ OfficeNet(UpTo(d)) = SumFunctionOnSet(OfficeDelta(UpTo(d)), DOMAIN office)
      /\ OfficeNet(Dates) = SumFunctionOnSet(OfficeDelta(Dates), DOMAIN office)
  BY NetsAre DEF NetSums
<1> QED
  BY <1>1, <1>2, SumLess

-----------------------------------------------------------------------------
(* The writes that take the office below zero.                              *)

\* An expense passed its check, so it is dated before a later one.
LEMMA CreateOverdraws ==
  ASSUME OfficeInv, OfficeInv', NEW w \in Workers, CreateWrite(w), Overdrawn
  PROVE  LaterExpense(req[w].form.date)
<1> SUFFICES ASSUME ~LaterExpense(req[w].form.date) PROVE FALSE
  OBVIOUS
<1> SUFFICES ASSUME NEW f, f = req[w].form, NEW n, n = Len(office) + 1 PROVE FALSE
  OBVIOUS
<1>1. f \in Form /\ Added(n, NewRow(f))
  BY CreateRows
<1>2. f.date \in Dates /\ f.amount \in Nat /\ f.kind \in Kinds
  BY <1>1 DEF Form, Amounts
<1>3. OfficeNet(Dates)' = OfficeNet(Dates) + OfficeDelta(Dates)'[n] /\ OfficeDelta(Dates)'[n] \in Int
  BY <1>1, NetAdds
<1>4. OfficeNet(Dates) \in Int /\ OfficeNet(UpTo(f.date)) \in Int
  BY NetsAre DEF NetSums
<1>5. OfficeDelta(Dates)'[n] < 0
  BY <1>3, <1>4 DEF Overdrawn
<1>6. n \in DOMAIN office' /\ office'[n].kind = f.kind /\ office'[n].amount = f.amount
  BY <1>1 DEF Added, NewRow
<1>7. f.kind = "Payment" /\ OfficeDelta(Dates)'[n] = 0 - f.amount
  <2>1. /\ f.kind = "Receipt" => Value(office'[n]) = f.amount
        /\ f.kind # "Receipt" => Value(office'[n]) = 0 - f.amount
    BY <1>2, <1>6, ValueIs
  <2>2. OfficeDelta(Dates)'[n] = Value(office'[n])
    BY <1>5, <1>6, DeltaIs
  <2> QED
    BY <1>2, <1>5, <2>1, <2>2 DEF Kinds
<1>8. OfficeNet(UpTo(f.date)) >= f.amount
  BY <1>7 DEF CreateWrite, Affordable
<1>9. OfficeNet(UpTo(f.date)) <= OfficeNet(Dates)
  BY <1>2, LaterRows
<1> QED
  BY <1>2, <1>3, <1>4, <1>7, <1>8, <1>9 DEF Overdrawn

\* A settlement takes money out only of a payment, or by a decline of what had
\* cleared.
LEMMA SettleOverdraws ==
  ASSUME OfficeInv, OfficeInv', NEW i, NEW s, Settled(i, s), Overdrawn,
         s \in {"Cleared", "Declined"} \/ s = office[i].status
  PROVE  office[i].kind = "Payment" \/ (s = "Declined" /\ office[i].status = "Cleared")
<1> SUFFICES ASSUME office[i].kind # "Payment", ~(s = "Declined" /\ office[i].status = "Cleared")
             PROVE  FALSE
  OBVIOUS
<1>1. /\ i \in DOMAIN office /\ DOMAIN office' = DOMAIN office
      /\ office'[i] = [office[i] EXCEPT !.status = s]
      /\ \A j \in DOMAIN office \ {i} : office'[j] = office[j]
  BY DEF Settled
<1>2. office[i] \in OfficeRow
  BY <1>1, OfficeRows
<1>3. /\ office'[i].date = office[i].date /\ office'[i].kind = office[i].kind
      /\ office'[i].amount = office[i].amount /\ office'[i].reversed = office[i].reversed
      /\ office'[i].depth = office[i].depth /\ office'[i].status = s
  BY <1>1, <1>2 DEF OfficeRow
<1>4. office[i].amount \in Nat /\ office[i].kind = "Receipt" /\ office[i].status \in Statuses
  BY <1>2 DEF OfficeRow, Amounts, Kinds
<1>5. Value(office[i]) = office[i].amount /\ Value(office'[i]) = office[i].amount
  BY <1>3, <1>4, ValueIs
<1>6. OfficeDelta(Dates)[i] <= OfficeDelta(Dates)'[i]
  <2>1. /\ OfficeDelta(Dates)[i] = IF Counted(office[i], Dates) THEN office[i].amount ELSE 0
        /\ OfficeDelta(Dates)'[i] = IF Counted(office'[i], Dates) THEN office[i].amount ELSE 0
    BY <1>1, <1>5, DeltaIs
  <2>2. Counted(office[i], Dates) => Counted(office'[i], Dates)
    BY <1>3, <1>4 DEF Counted, Statuses
  <2> QED
    BY <1>4, <2>1, <2>2
<1>7. \A j \in DOMAIN office : OfficeDelta(Dates)[j] <= OfficeDelta(Dates)'[j]
  <2>1. \A j \in DOMAIN office \ {i} : OfficeDelta(Dates)'[j] = OfficeDelta(Dates)[j]
    BY <1>1, DeltaKept
  <2>2. \A j \in DOMAIN office : OfficeDelta(Dates)[j] \in Int
    BY NetsAre DEF NetSums
  <2> QED
    BY <1>6, <2>1, <2>2
<1>8. OfficeNet(Dates) <= OfficeNet(Dates)'
  BY <1>1, <1>7, NetRises
<1>9. OfficeNet(Dates) \in Int /\ OfficeNet(Dates)' \in Int
  BY NetsAre, NetsNext DEF NetSums
<1> QED
  BY <1>8, <1>9 DEF Overdrawn

\* A reversal takes out only what had come in: the reversal of a payment gives
\* its amount back, and the compensating row itself does not count.
LEMMA ReverseOverdraws ==
  ASSUME OfficeInv, OfficeInv', NEW n, NEW i, NEW d, Undone(n, i, d), office[i].depth = 0, Overdrawn
  PROVE  office[i].kind = "Receipt"
<1> SUFFICES ASSUME office[i].kind # "Receipt" PROVE FALSE
  OBVIOUS
<1>1. /\ i \in DOMAIN office /\ n \notin DOMAIN office /\ DOMAIN office' = DOMAIN office \cup {n}
      /\ office'[i] = [office[i] EXCEPT !.reversed = TRUE]
      /\ office'[n] = Leg(i, d)
      /\ \A j \in DOMAIN office \ {i} : office'[j] = office[j]
  BY DEF Undone
<1>2. office[i] \in OfficeRow
  BY <1>1, OfficeRows
<1>3. office'[i].reversed
  BY <1>1, <1>2 DEF OfficeRow
<1>4. office[i].amount \in Nat
  BY <1>2 DEF OfficeRow, Amounts
<1>5. Value(office[i]) = 0 - office[i].amount
  BY <1>4, ValueIs
<1>6. OfficeDelta(Dates)'[i] = 0 /\ OfficeDelta(Dates)[i] \in {0, 0 - office[i].amount}
  <2>1. i \in DOMAIN office' /\ ~Counted(office'[i], Dates)
    BY <1>1, <1>3 DEF Counted
  <2> QED
    BY <1>1, <1>5, <2>1, DeltaIs
<1>7. OfficeDelta(Dates)[i] <= OfficeDelta(Dates)'[i]
  BY <1>4, <1>6
<1>8. OfficeDelta(Dates)'[n] = 0
  <2>1. office'[n].depth = 1
    BY <1>1 DEF Leg
  <2>2. n \in DOMAIN office' /\ ~Counted(office'[n], Dates)
    BY <1>1, <2>1 DEF Counted
  <2> QED
    BY <2>2, DeltaIs
<1>9. \A j \in DOMAIN office : OfficeDelta(Dates)[j] <= OfficeDelta(Dates)'[j]
  <2>1. \A j \in DOMAIN office \ {i} : OfficeDelta(Dates)'[j] = OfficeDelta(Dates)[j]
    BY <1>1, DeltaKept
  <2>2. \A j \in DOMAIN office : OfficeDelta(Dates)[j] \in Int
    BY NetsAre DEF NetSums
  <2> QED
    BY <1>7, <2>1, <2>2
<1>10. OfficeNet(Dates) <= OfficeNet(Dates)'
  BY <1>1, <1>8, <1>9, NetRises
<1>11. OfficeNet(Dates) \in Int /\ OfficeNet(Dates)' \in Int
  BY NetsAre, NetsNext DEF NetSums
<1> QED
  BY <1>10, <1>11 DEF Overdrawn

\* The writes change what their worker serves.
LEMMA WriterMoves ==
  ASSUME OfficeInv, NEW w \in Workers,
         CreateWrite(w) \/ StatusWrite(w) \/ ClearWrite(w) \/ ReverseWrite(w) \/ ApproveInsert(w)
  PROVE  req'[w] # req[w]
<1>1. DOMAIN req = Workers
  BY DEF OfficeInv, TypeOK
<1>2. CASE ApproveInsert(w)
  <2>1. req[w] \in ApproveReq /\ req[w].at = "insert"
    BY <1>2, ApprovalUnderWay DEF ApproveInsert, At
  <2>2. req'[w] = [req[w] EXCEPT !.at = "cleanup"]
    BY <1>1, <1>2 DEF ApproveInsert
  <2>3. req'[w].at = "cleanup"
    BY <2>1, <2>2 DEF ApproveReq
  <2> QED
    BY <2>1, <2>3
<1>3. CASE CreateWrite(w) \/ StatusWrite(w) \/ ClearWrite(w) \/ ReverseWrite(w)
  <2>1. req[w].op # "none" /\ Finish(w)
    BY <1>3 DEF CreateWrite, StatusWrite, ClearWrite, ReverseWrite, At
  <2>2. req'[w] = NoReq
    BY <1>1, <2>1 DEF Finish
  <2> QED
    BY <2>1, <2>2 DEF NoReq
<1> QED
  BY <1>2, <1>3

LEMMA OverdraftStep ==
  ASSUME OfficeInv, [Next]_vars, Overdrawn
  PROVE  \E w \in Workers : req'[w] # req[w] /\ MayOverdraw(w)
<1>1. OfficeInv'
  BY StepInv
<1>2. PICK w \in Workers : Step(w)
  BY DEF Next, vars, Overdrawn
<1>3. CreateWrite(w) \/ StatusWrite(w) \/ ClearWrite(w) \/ ReverseWrite(w) \/ ApproveInsert(w)
  BY <1>2, RowWriters DEF Overdrawn
<1>4. req'[w] # req[w]
  BY <1>3, WriterMoves
<1>5. CASE CreateWrite(w)
  <2>1. LaterExpense(req[w].form.date) /\ req[w].op = "create"
    BY <1>1, <1>5, CreateOverdraws DEF CreateWrite, At
  <2> QED
    BY <1>4, <2>1 DEF MayOverdraw
<1>6. CASE StatusWrite(w)
  <2>1. req[w] \in StatusReq /\ req[w].op = "status" /\ Settled(req[w].row, req[w].to)
    BY <1>6, StatusRows
  <2>2. req[w].to \in {"Cleared", "Declined"}
    BY <2>1 DEF StatusReq
  <2>3. \/ office[req[w].row].kind = "Payment"
        \/ req[w].to = "Declined" /\ office[req[w].row].status = "Cleared"
    BY <1>1, <2>1, <2>2, SettleOverdraws
  <2> QED
    BY <1>4, <2>1, <2>3 DEF MayOverdraw
<1>7. CASE ClearWrite(w)
  <2> DEFINE s == IF office[req[w].row].status = "Pending" THEN "Cleared"
                  ELSE office[req[w].row].status
  <2>1. req[w].op = "clear" /\ Settled(req[w].row, s)
    BY <1>7, ClearRows
  <2>2. /\ s \in {"Cleared", "Declined"} \/ s = office[req[w].row].status
        /\ ~(s = "Declined" /\ office[req[w].row].status = "Cleared")
    OBVIOUS
  <2> HIDE DEF s
  <2>3. office[req[w].row].kind = "Payment"
    BY <1>1, <2>1, <2>2, SettleOverdraws
  <2> QED
    BY <1>4, <2>1, <2>3 DEF MayOverdraw
<1>8. CASE ReverseWrite(w)
  <2>1. office[req[w].row].kind = "Receipt" /\ req[w].op = "reverse"
    BY <1>1, <1>8, ReverseRows, ReverseOverdraws
  <2> QED
    BY <1>4, <2>1 DEF MayOverdraw
<1>9. CASE ApproveInsert(w)
  BY <1>4, <1>9 DEF MayOverdraw, ApproveInsert
<1> QED
  BY <1>3, <1>5, <1>6, <1>7, <1>8, <1>9

\* The office's own rows go below zero only by an expense dated before later
\* ones, a payment that clears, the reversal of income, an import, or a decline
\* that a clearance overtook: no two expenses pass the check of
\* create_office_transaction together (BEGIN IMMEDIATE).
THEOREM OverdrawnOnlyBy == Spec => OverdraftCauses
<1>1. OfficeInv /\ [Next]_vars =>
         [Overdrawn => \E w \in Workers : req'[w] # req[w] /\ MayOverdraw(w)]_vars
  BY OverdraftStep
<1> QED
  BY <1>1, OfficeInvariant, PTL DEF Spec, OverdraftCauses

-----------------------------------------------------------------------------
(* Imports are whole.                                                       *)

\* An approval that inserts has rows to insert: with none it discards.
Keeping(r) == r.op = "approve" /\ r.at # "discard" => r.kept # <<>>

WholeInv == OfficeInv /\ ImportsWhole /\ \A w \in Workers : Keeping(req[w])

\* Rows keep what an import gave them; rows that are not imported may be added.
ImportsStand ==
    /\ DOMAIN office \subseteq DOMAIN office' /\ Len(office) <= Len(office')
    /\ \A i \in DOMAIN office :
          /\ office'[i].batch = office[i].batch /\ office'[i].date = office[i].date
          /\ office'[i].kind = office[i].kind /\ office'[i].amount = office[i].amount
    /\ \A i \in DOMAIN office' \ DOMAIN office : office'[i].batch = NoBatch
    /\ history' = history

LEMMA InsertedStays ==
  ASSUME OfficeInv, DOMAIN office \subseteq DOMAIN office', Len(office) <= Len(office'),
         Len(office') \in Nat,
         \A i \in DOMAIN office :
            /\ office'[i].batch = office[i].batch /\ office'[i].date = office[i].date
            /\ office'[i].kind = office[i].kind /\ office'[i].amount = office[i].amount,
         NEW b, NEW kept \in Seq(KeptRow), NEW at \in 0..Len(office), Inserted(b, kept, at)
  PROVE  at \in 0..Len(office') /\ Inserted(b, kept, at)'
<1>1. Len(office) \in Nat /\ DOMAIN office = 1..Len(office)
      /\ DOMAIN kept = 1..Len(kept) /\ Len(kept) \in Nat
  BY OfficeRows
<1>2. at + Len(kept) <= Len(office)
  BY DEF Inserted
<1>3. \A k \in DOMAIN kept : at + k \in DOMAIN office
  BY <1>1, <1>2
<1>4. at \in 0..Len(office') /\ at + Len(kept) <= Len(office')
  BY <1>1, <1>2
<1>5. ASSUME NEW k \in DOMAIN kept
      PROVE  /\ office'[at + k].batch = b /\ office'[at + k].date = kept[k].date
             /\ office'[at + k].kind = kept[k].kind /\ office'[at + k].amount = kept[k].amount
  BY <1>3 DEF Inserted
<1> QED
  BY <1>4, <1>5 DEF Inserted

LEMMA StatementsOf ==
  ASSUME OfficeInv, ImportsWhole, NEW b \in DOMAIN history
  PROVE  /\ b \in Batches
         /\ \E kept \in Reviews[b], at \in 0..Len(office) :
               /\ kept \in Seq(KeptRow) /\ kept # <<>> /\ Inserted(b, kept, at)
               /\ history[b] = StatementNet(kept)
<1>1. b \in Batches
  BY DEF OfficeInv, TypeOK
<1> QED
  BY <1>1, ReviewsAssumption DEF ImportsWhole

LEMMA WholeKept ==
  ASSUME OfficeInv, OfficeInv', ImportsWhole, ImportsStand, BatchesKept
  PROVE  ImportsWhole'
<1>1. ASSUME NEW i \in DOMAIN office', office'[i].batch # NoBatch
      PROVE  /\ staging'[office'[i].batch] # "new"
             /\ office'[i].batch \in WithOpening => office'[i].batch \in DOMAIN history'
  <2>1. i \in DOMAIN office /\ office'[i].batch = office[i].batch
    BY <1>1 DEF ImportsStand
  <2>2. office[i].batch \in Batches
    BY <1>1, <2>1, OfficeRows DEF OfficeRow
  <2>3. /\ staging[office[i].batch] # "new"
        /\ office[i].batch \in WithOpening => office[i].batch \in DOMAIN history
    BY <1>1, <2>1 DEF ImportsWhole
  <2> QED
    BY <2>1, <2>2, <2>3 DEF BatchesKept, ImportsStand
<1>2. ASSUME NEW b \in DOMAIN history'
      PROVE  \E kept \in Reviews[b], at \in 0..Len(office') :
                /\ kept # <<>> /\ Inserted(b, kept, at)'
                /\ history'[b] = StatementNet(kept)
  <2>1. history' = history /\ b \in DOMAIN history
    BY <1>2 DEF ImportsStand
  <2>2. PICK kept \in Reviews[b], at \in 0..Len(office) :
            /\ kept \in Seq(KeptRow) /\ kept # <<>> /\ Inserted(b, kept, at)
            /\ history[b] = StatementNet(kept)
    BY <2>1, StatementsOf
  <2>3. Len(office') \in Nat
    BY DEF OfficeInv, TypeOK
  <2>4. at \in 0..Len(office') /\ Inserted(b, kept, at)'
    BY <2>2, <2>3, InsertedStays DEF ImportsStand
  <2> QED
    BY <2>1, <2>2, <2>4
<1> QED
  BY <1>1, <1>2 DEF ImportsWhole

LEMMA WholeInserted ==
  ASSUME OfficeInv, OfficeInv', ImportsWhole, NEW w \in Workers, ApproveInsert(w), Keeping(req[w])
  PROVE  ImportsWhole'
<1> SUFFICES ASSUME NEW b, b = req[w].batch, NEW kept, kept = req[w].kept PROVE ImportsWhole'
  OBVIOUS
<1>1. /\ b \in Batches /\ kept \in Seq(KeptRow) /\ kept \in Reviews[b] /\ staging[b] # "new"
      /\ kept # <<>>
  BY ApprovalUnderWay DEF ApproveInsert, At, Keeping
<1>2. Taken(b, kept)
  BY InsertRows
<1>3. /\ staging' = staging
      /\ history' = IF b \in WithOpening
                    THEN [c \in DOMAIN history \cup {b} |->
                              IF c = b THEN Closing(kept) ELSE history[c]]
                    ELSE history
  BY DEF ApproveInsert
<1>4. /\ Len(office) \in Nat /\ DOMAIN office = 1..Len(office) /\ Len(kept) \in Nat
      /\ DOMAIN kept = 1..Len(kept) /\ Len(office') = Len(office) + Len(kept)
      /\ DOMAIN office' = 1..(Len(office) + Len(kept))
      /\ \A j \in DOMAIN office : j \in DOMAIN office' /\ office'[j] = office[j]
      /\ \A k \in DOMAIN kept : office'[Len(office) + k] = ImportedRow(kept[k], b)
  BY <1>2, OfficeRows DEF Taken
<1>5. /\ DOMAIN history \subseteq DOMAIN history'
      /\ b \in WithOpening => b \in DOMAIN history' /\ history'[b] = StatementNet(kept)
      /\ \A c \in DOMAIN history' : (c = b /\ b \in WithOpening) \/
            (c \in DOMAIN history /\ history'[c] = history[c])
  BY <1>3 DEF Closing
<1>6. ASSUME NEW i \in DOMAIN office', office'[i].batch # NoBatch
      PROVE  /\ staging'[office'[i].batch] # "new"
             /\ office'[i].batch \in WithOpening => office'[i].batch \in DOMAIN history'
  <2>1. CASE i \in DOMAIN office
    <3>1. office'[i].batch = office[i].batch
      BY <1>4, <2>1
    <3>2. /\ staging[office[i].batch] # "new"
          /\ office[i].batch \in WithOpening => office[i].batch \in DOMAIN history
      BY <1>6, <2>1, <3>1 DEF ImportsWhole
    <3> QED
      BY <1>3, <1>5, <3>1, <3>2
  <2>2. CASE i \notin DOMAIN office
    <3>1. i - Len(office) \in DOMAIN kept /\ i = Len(office) + (i - Len(office))
      BY <1>4, <2>2
    <3>2. office'[i] = ImportedRow(kept[i - Len(office)], b)
      BY <1>4, <3>1
    <3>3. office'[i].batch = b
      BY <3>2 DEF ImportedRow
    <3> QED
      BY <1>1, <1>3, <1>5, <3>3
  <2> QED
    BY <2>1, <2>2
<1>7. ASSUME NEW c \in DOMAIN history'
      PROVE  \E k \in Reviews[c], at \in 0..Len(office') :
                /\ k # <<>> /\ Inserted(c, k, at)'
                /\ history'[c] = StatementNet(k)
  <2>1. CASE c = b /\ b \in WithOpening
    <3>1. Len(office) \in 0..Len(office') /\ Len(office) + Len(kept) <= Len(office')
      BY <1>4
    <3>2. ASSUME NEW k \in DOMAIN kept
          PROVE  LET row == office'[Len(office) + k] IN
                 /\ row.batch = b /\ row.date = kept[k].date
                 /\ row.kind = kept[k].kind /\ row.amount = kept[k].amount
      <4>1. office'[Len(office) + k] = ImportedRow(kept[k], b)
        BY <1>4
      <4>2. LET row == ImportedRow(kept[k], b) IN
            /\ row.batch = b /\ row.date = kept[k].date
            /\ row.kind = kept[k].kind /\ row.amount = kept[k].amount
        BY DEF ImportedRow
      <4> QED
        BY <4>1, <4>2
    <3>3. ASSUME NEW at, at = Len(office) PROVE Inserted(b, kept, at)'
      BY <3>1, <3>2, <3>3 DEF Inserted
    <3>4. \E at \in 0..Len(office') : Inserted(b, kept, at)'
      BY <3>1, <3>3
    <3> QED
      BY <1>1, <1>5, <2>1, <3>4
  <2>2. CASE c \in DOMAIN history /\ history'[c] = history[c]
    <3>1. PICK k \in Reviews[c], at \in 0..Len(office) :
              /\ k \in Seq(KeptRow) /\ k # <<>> /\ Inserted(c, k, at)
              /\ history[c] = StatementNet(k)
      BY <2>2, StatementsOf
    <3>2. at \in 0..Len(office') /\ Inserted(c, k, at)'
      BY <1>4, <3>1, InsertedStays
    <3> QED
      BY <2>2, <3>1, <3>2
  <2> QED
    BY <1>5, <2>1, <2>2
<1> QED
  BY <1>6, <1>7 DEF ImportsWhole

\* The other writes import nothing and leave what was imported.
LEMMA OthersStand ==
  ASSUME OfficeInv, OfficeInv', NEW w \in Workers, Step(w), ~ApproveInsert(w)
  PROVE  ImportsStand /\ BatchesKept
<1>1. CASE office' = office
  <2>1. history' = history
    BY <1>1 DEF Step, tables, Proceed, Create, CreateBegin, CreateWrite, CreateRefused,
     UpdateStatus, StatusBegin, StatusMonth, StatusWrite, ClearImported, ClearBegin, ClearMonth,
     ClearWrite, Reverse, ReverseBegin, ReverseVat, ReverseMonth, ReverseWrite, Import, Upload,
     CancelImport, Approve, ApproveRead, ApproveDiscard, ApproveCleanup, ApproveBusy,
     Elsewhere, LockMonth, UnlockMonth, SubmitReturn, Abort
  <2>2. ImportsStand
    BY <1>1, <2>1, OfficeRows DEF ImportsStand
  <2>3. BatchesKept
    <3>1. staging' = staging \/ \E b \in Batches : \E s \in {"staged", "gone"} :
              staging' = [staging EXCEPT ![b] = s]
      <4>1. CASE ApproveDiscard(w) \/ ApproveCleanup(w)
        <5>1. req[w].batch \in Batches
          BY <4>1, ApprovalUnderWay DEF ApproveDiscard, ApproveCleanup, At
        <5> QED
          BY <4>1, <5>1 DEF ApproveDiscard, ApproveCleanup
      <4>2. CASE Upload(w) \/ CancelImport(w)
        BY <4>2 DEF Upload, CancelImport
      <4>3. CASE ~(ApproveDiscard(w) \/ ApproveCleanup(w) \/ Upload(w) \/ CancelImport(w))
        BY <4>3 DEF Step, tables, Proceed, Create, CreateBegin, CreateWrite, CreateRefused,
         UpdateStatus, StatusBegin, StatusMonth, StatusWrite, ClearImported, ClearBegin,
         ClearMonth, ClearWrite, Reverse, ReverseBegin, ReverseVat, ReverseMonth, ReverseWrite,
         Import, Approve, ApproveRead, ApproveBusy,
         Elsewhere, LockMonth, UnlockMonth, SubmitReturn, Abort
      <4> QED
        BY <4>1, <4>2, <4>3
    <3> QED
      BY <3>1 DEF BatchesKept, OfficeInv, TypeOK
  <2> QED
    BY <2>2, <2>3
<1>2. CASE office' # office
  <2>1. CreateWrite(w) \/ StatusWrite(w) \/ ClearWrite(w) \/ ReverseWrite(w)
    BY <1>2, RowWriters
  <2>2. history' = history /\ staging' = staging
    BY <2>1 DEF CreateWrite, StatusWrite, ClearWrite, ReverseWrite
  <2>3. Len(office) \in Nat /\ DOMAIN office = 1..Len(office)
        /\ Len(office') \in Nat /\ DOMAIN office' = 1..Len(office')
    BY OfficeRows DEF OfficeInv, TypeOK
  <2>4. /\ DOMAIN office \subseteq DOMAIN office'
        /\ \A i \in DOMAIN office :
              /\ office'[i].batch = office[i].batch /\ office'[i].date = office[i].date
              /\ office'[i].kind = office[i].kind /\ office'[i].amount = office[i].amount
        /\ \A i \in DOMAIN office' \ DOMAIN office : office'[i].batch = NoBatch
    <3>1. CASE CreateWrite(w)
      <4>1. PICK f : Added(Len(office) + 1, NewRow(f))
        BY <3>1, CreateRows
      <4>2. NewRow(f).batch = NoBatch
        BY DEF NewRow
      <4> QED
        BY <4>1, <4>2 DEF Added
    <3>2. ASSUME NEW i, NEW s, Settled(i, s) PROVE <2>4!1 /\ <2>4!2 /\ <2>4!3
      <4>1. office[i] \in OfficeRow
        BY <3>2, OfficeRows DEF Settled
      <4> QED
        BY <3>2, <4>1 DEF Settled, OfficeRow
    <3>3. CASE StatusWrite(w)
      BY <3>2, <3>3, StatusRows
    <3>4. CASE ClearWrite(w)
      BY <3>2, <3>4, ClearRows
    <3>5. ASSUME NEW n, NEW i, NEW d, Undone(n, i, d) PROVE <2>4!1 /\ <2>4!2 /\ <2>4!3
      <4>1. office[i] \in OfficeRow
        BY <3>5, OfficeRows DEF Undone
      <4> QED
        BY <3>5, <4>1 DEF Undone, OfficeRow, Leg
    <3>6. CASE ReverseWrite(w)
      BY <3>5, <3>6, ReverseRows
    <3> QED
      BY <2>1, <3>1, <3>3, <3>4, <3>6
  <2>5. Len(office) <= Len(office')
    BY <2>3, <2>4
  <2> QED
    BY <2>2, <2>4, <2>5 DEF ImportsStand, BatchesKept
<1> QED
  BY <1>1, <1>2

LEMMA KeepingOf == ASSUME NEW r, r.op # "approve" PROVE Keeping(r)
  BY DEF Keeping

LEMMA KeepingStep ==
  ASSUME OfficeInv, NEW w \in Workers, Keeping(req[w]), Step(w)
  PROVE  Keeping(req'[w]) /\ \A v \in Workers \ {w} : req'[v] = req[v]
<1>0. DOMAIN req = Workers /\ req[w] \in Request
  BY DEF OfficeInv, TypeOK
<1>1. ASSUME Approve(w) PROVE Keeping(req'[w]) /\ \A v \in Workers \ {w} : req'[v] = req[v]
  <2>1. CASE ApproveRead(w)
    BY <1>0, <2>1 DEF ApproveRead, Keeping
  <2>2. CASE ApproveDiscard(w) \/ ApproveCleanup(w)
    BY <1>0, <2>2 DEF ApproveDiscard, ApproveCleanup, Finish, Keeping, NoReq
  <2>3. CASE ApproveInsert(w)
    <3>1. req[w] \in ApproveReq /\ req[w].at = "insert" /\ req[w].op = "approve"
      BY <2>3, ApprovalUnderWay DEF ApproveInsert, At
    <3>2. req' = [req EXCEPT ![w] = [req[w] EXCEPT !.at = "cleanup"]]
      BY <2>3 DEF ApproveInsert
    <3>3. req'[w] = [req[w] EXCEPT !.at = "cleanup"] /\ req'[w].kept = req[w].kept
      BY <1>0, <3>1, <3>2 DEF ApproveReq
    <3> QED
      BY <1>0, <3>1, <3>2, <3>3 DEF Keeping
  <2>4. CASE ApproveBusy(w)
    <3>1. req[w] \in ApproveReq /\ req[w].at # "discard" /\ req[w].op = "approve"
      BY <2>4, ApprovalUnderWay DEF ApproveBusy
    <3> DEFINE r == IF req[w].tries < Retries
                    THEN [req[w] EXCEPT !.at = "insert", !.tries = req[w].tries + 1] ELSE NoReq
    <3>2. req' = [req EXCEPT ![w] = r]
      BY <2>4 DEF ApproveBusy
    <3>3. r.op = "approve" => r.kept = req[w].kept
      BY <3>1 DEF ApproveReq, NoReq
    <3> HIDE DEF r
    <3> QED
      BY <1>0, <3>1, <3>2, <3>3 DEF Keeping
  <2> QED
    BY <1>1, <2>1, <2>2, <2>3, <2>4 DEF Approve
<1>2. ASSUME ~Approve(w)
      PROVE  /\ req' = req \/ \E r : req' = [req EXCEPT ![w] = r] /\ r.op # "approve"
  <2>1. ASSUME NEW ok, NEW step, Proceed(w, ok, step), req[w].op # "approve",
               req[w] \in StatusReq \cup ClearReq \cup ReverseReq
        PROVE  \E r : req' = [req EXCEPT ![w] = r] /\ r.op # "approve"
    <3> DEFINE r == IF ok THEN [req[w] EXCEPT !.at = step] ELSE NoReq
    <3>1. req' = [req EXCEPT ![w] = r]
      BY <2>1 DEF Proceed
    <3>2. r.op # "approve"
      BY <2>1 DEF StatusReq, ClearReq, ReverseReq, NoReq
    <3> QED
      BY <3>1, <3>2
  <2>2. CASE StatusMonth(w)
    <3>1. req[w] \in StatusReq /\ req[w].op # "approve"
      BY <2>2, RequestRow, RequestKinds DEF StatusMonth, At
    <3> QED
      BY <2>1, <2>2, <3>1 DEF StatusMonth
  <2>3. CASE ClearMonth(w)
    <3>1. req[w] \in ClearReq /\ req[w].op # "approve"
      BY <2>3, RequestRow, RequestKinds DEF ClearMonth, At
    <3> QED
      BY <2>1, <2>3, <3>1 DEF ClearMonth
  <2>4. CASE ReverseVat(w)
    <3>1. req[w] \in ReverseReq /\ req[w].op # "approve"
      BY <2>4, RequestRow, RequestKinds DEF ReverseVat, At
    <3> QED
      BY <2>1, <2>4, <3>1 DEF ReverseVat
  <2>5. CASE ReverseMonth(w)
    <3>1. req[w] \in ReverseReq /\ req[w].op # "approve"
      BY <2>5, RequestRow, RequestKinds DEF ReverseMonth, At
    <3> QED
      BY <2>1, <2>5, <3>1 DEF ReverseMonth
  <2>6. NoReq.op # "approve"
    BY DEF NoReq
  <2>7. CASE CreateBegin(w) \/ StatusBegin(w) \/ ClearBegin(w) \/ ReverseBegin(w)
    <3>1. CASE CreateBegin(w)
      <4>1. PICK f \in Forms :
                req' = [req EXCEPT ![w] = [op |-> "create", at |-> "write", form |-> f]]
        BY <3>1 DEF CreateBegin
      <4>2. [op |-> "create", at |-> "write", form |-> f].op # "approve"
        OBVIOUS
      <4> QED
        BY <4>1, <4>2
    <3>2. CASE StatusBegin(w)
      <4>1. PICK i \in DOMAIN office, to \in {"Cleared", "Declined"} :
                req' = [req EXCEPT ![w] = [op |-> "status", at |-> "month", row |-> i, to |-> to]]
        BY <3>2 DEF StatusBegin
      <4>2. [op |-> "status", at |-> "month", row |-> i, to |-> to].op # "approve"
        OBVIOUS
      <4> QED
        BY <4>1, <4>2
    <3>3. CASE ClearBegin(w)
      <4>1. PICK i \in DOMAIN office :
                req' = [req EXCEPT ![w] = [op |-> "clear", at |-> "month", row |-> i]]
        BY <3>3 DEF ClearBegin
      <4>2. [op |-> "clear", at |-> "month", row |-> i].op # "approve"
        OBVIOUS
      <4> QED
        BY <4>1, <4>2
    <3>4. CASE ReverseBegin(w)
      <4>1. PICK i \in DOMAIN office, today \in Dates, at \in {"month", "vat"} :
                req' = [req EXCEPT ![w] = [op |-> "reverse", at |-> at, row |-> i, date |-> today]]
        BY <3>4 DEF ReverseBegin
      <4>2. [op |-> "reverse", at |-> at, row |-> i, date |-> today].op # "approve"
        OBVIOUS
      <4> QED
        BY <4>1, <4>2
    <3> QED
      BY <2>7, <3>1, <3>2, <3>3, <3>4
  <2>8. CASE CreateWrite(w) \/ CreateRefused(w) \/ StatusWrite(w) \/ ClearWrite(w)
             \/ ReverseWrite(w) \/ Abort(w)
    BY <2>6, <2>8 DEF CreateWrite, CreateRefused, StatusWrite, ClearWrite, ReverseWrite, Abort, Finish
  <2>9. CASE Upload(w) \/ CancelImport(w) \/ Elsewhere(w)
    BY <2>9 DEF Upload, CancelImport, Elsewhere, LockMonth, UnlockMonth, SubmitReturn
  <2> QED
    BY <1>2, <2>2, <2>3, <2>4, <2>5, <2>7, <2>8, <2>9
       DEF Step, Create, UpdateStatus, ClearImported, Reverse, Import
<1>3. CASE ~Approve(w)
  BY <1>0, <1>2, <1>3, KeepingOf
<1> QED
  BY <1>1, <1>3

LEMMA ImportInit == Init => WholeInv
<1> SUFFICES ASSUME Init PROVE WholeInv
  OBVIOUS
<1>1. OfficeInv
  BY InitInv
<1>2. ImportsWhole
  BY DEF Init, ImportsWhole
<1>3. \A w \in Workers : Keeping(req[w])
  BY DEF Init, Keeping, NoReq
<1> QED
  BY <1>1, <1>2, <1>3 DEF WholeInv

LEMMA ImportStep == WholeInv /\ [Next]_vars => WholeInv'
<1> SUFFICES ASSUME WholeInv, [Next]_vars PROVE WholeInv'
  OBVIOUS
<1>1. OfficeInv /\ OfficeInv' /\ ImportsWhole /\ \A w \in Workers : Keeping(req[w])
  BY StepInv DEF WholeInv
<1>2. ASSUME NEW w \in Workers, Step(w) PROVE WholeInv'
  <2>1. ImportsWhole'
    BY <1>1, <1>2, WholeInserted, OthersStand, WholeKept
  <2>2. \A v \in Workers : Keeping(req'[v])
    BY <1>1, <1>2, KeepingStep
  <2>3. \A v \in Workers : Keeping(req[v])'
    BY <2>2 DEF Keeping
  <2> QED
    BY <1>1, <2>1, <2>3 DEF WholeInv
<1>3. CASE UNCHANGED vars
  <2>1. ImportsWhole'
    BY <1>1, <1>3 DEF vars, ImportsWhole, Inserted
  <2>2. \A v \in Workers : Keeping(req[v])'
    BY <1>1, <1>3 DEF vars, Keeping
  <2> QED
    BY <1>1, <2>1, <2>2 DEF WholeInv
<1> QED
  BY <1>2, <1>3 DEF Next

\* However imports, crashes and retries interleave, a batch with rows was
\* uploaded, and its statement history holds the movement of exactly the rows
\* that one of its approvals inserted, which stand together
\* (approve_office_import_batch).
THEOREM ImportsAreWhole == Spec => []ImportsWhole
<1>1. WholeInv => ImportsWhole
  BY DEF WholeInv
<1> QED
  BY <1>1, ImportInit, ImportStep, PTL DEF Spec

-----------------------------------------------------------------------------
(* Requests served one at a time: what a request has checked still holds    *)
(* when it writes.                                                          *)

Checked(r) ==
    /\ r.op = "create" => MonthUnlocked(r.form.date)
    /\ r.op = "status" => StatusChangeAllowed(office[r.row], r.to)
    /\ r.op = "clear" => office[r.row].batch # NoBatch /\ office[r.row].status = "Pending"
    /\ r.op \in {"status", "clear"} /\ r.at = "write" => MonthUnlocked(office[r.row].date)
    /\ r.op = "reverse" => Reversible(office[r.row])
    /\ r.op = "reverse" /\ r.at # "vat" => office[r.row].quarter \notin submitted
    /\ r.op = "reverse" /\ r.at = "write" => MonthUnlocked(r.date)
    /\ r.op = "approve" => staging[r.batch] = "staged"

SerialInv ==
    OfficeInv /\ ReversedOnce /\ ReversedCleared /\ \A w \in Workers : Checked(req[w])

LEMMA CheckedIdle ==
  ASSUME NEW w, req'[w] = NoReq
  PROVE  Checked(req[w])'
  BY DEF Checked, NoReq

LEMMA CheckedStands ==
  ASSUME UNCHANGED tables, NEW w, NEW r, Checked(r), req'[w] = r
  PROVE  Checked(req[w])'
  BY DEF tables, Checked, MonthUnlocked

\* A check that passes is what the next step relies on.
LEMMA CheckedProceeds ==
  ASSUME OfficeInv, NEW w \in Workers, NEW ok, NEW step, Proceed(w, ok, step),
         req[w] \in StatusReq \cup ClearReq \cup ReverseReq,
         ok => Checked([req[w] EXCEPT !.at = step])
  PROVE  Checked(req[w])'
<1> DEFINE r == [req[w] EXCEPT !.at = step]
<1>1. DOMAIN req = Workers
  BY DEF OfficeInv, TypeOK
<1>2. req'[w] = (IF ok THEN r ELSE NoReq) /\ UNCHANGED tables
  BY <1>1 DEF Proceed
<1>3. ok => Checked(r)
  OBVIOUS
<1> HIDE DEF r
<1> QED
  BY <1>2, <1>3, CheckedIdle, CheckedStands

LEMMA CheckedEnds ==
  ASSUME OfficeInv, NEW w \in Workers, Finish(w)
  PROVE  Checked(req[w])'
  BY CheckedIdle DEF Finish, OfficeInv, TypeOK

LEMMA CheckedCreate ==
  ASSUME OfficeInv, NEW w \in Workers, Create(w)
  PROVE  Checked(req[w])'
<1>1. CASE CreateBegin(w)
  <2>1. PICK f \in Forms : CreateBegin(w)!(f)
    BY <1>1 DEF CreateBegin
  <2> DEFINE r == [op |-> "create", at |-> "write", form |-> f]
  <2>2. req'[w] = r /\ UNCHANGED tables
    BY <2>1 DEF OfficeInv, TypeOK
  <2>3. Checked(r)
    BY <2>1 DEF Checked
  <2> HIDE DEF r
  <2> QED
    BY <2>2, <2>3, CheckedStands
<1>2. CASE CreateWrite(w) \/ CreateRefused(w)
  BY <1>2, CheckedEnds DEF CreateWrite, CreateRefused
<1> QED
  BY <1>1, <1>2 DEF Create

LEMMA CheckedStatus ==
  ASSUME OfficeInv, NEW w \in Workers, Checked(req[w]), UpdateStatus(w)
  PROVE  Checked(req[w])'
<1>1. CASE StatusBegin(w)
  <2>1. PICK i \in DOMAIN office, to \in {"Cleared", "Declined"} : StatusBegin(w)!(i, to)
    BY <1>1 DEF StatusBegin
  <2> DEFINE r == [op |-> "status", at |-> "month", row |-> i, to |-> to]
  <2>2. req'[w] = r /\ UNCHANGED tables
    BY <2>1 DEF OfficeInv, TypeOK
  <2>3. Checked(r)
    BY <2>1 DEF Checked
  <2> HIDE DEF r
  <2> QED
    BY <2>2, <2>3, CheckedStands
<1>2. CASE StatusMonth(w)
  <2> DEFINE ok == MonthUnlocked(office[req[w].row].date)
             s == [req[w] EXCEPT !.at = "write"]
  <2>1. req[w] \in StatusReq /\ req[w].op = "status"
    BY <1>2, RequestRow, RequestKinds DEF StatusMonth, At
  <2>2. s.op = "status" /\ s.row = req[w].row /\ s.to = req[w].to /\ s.at = "write"
    BY <2>1 DEF StatusReq
  <2>3. Proceed(w, ok, "write")
    BY <1>2 DEF StatusMonth
  <2>4. ok => Checked(s)
    BY <2>1, <2>2 DEF Checked
  <2> QED
    BY <2>1, <2>3, <2>4, CheckedProceeds
<1>3. CASE StatusWrite(w)
  BY <1>3, CheckedEnds DEF StatusWrite
<1> QED
  BY <1>1, <1>2, <1>3 DEF UpdateStatus

LEMMA CheckedClear ==
  ASSUME OfficeInv, NEW w \in Workers, Checked(req[w]), ClearImported(w)
  PROVE  Checked(req[w])'
<1>1. CASE ClearBegin(w)
  <2>1. PICK i \in DOMAIN office : ClearBegin(w)!(i)
    BY <1>1 DEF ClearBegin
  <2> DEFINE r == [op |-> "clear", at |-> "month", row |-> i]
  <2>2. req'[w] = r /\ UNCHANGED tables
    BY <2>1 DEF OfficeInv, TypeOK
  <2>3. Checked(r)
    BY <2>1 DEF Checked
  <2> HIDE DEF r
  <2> QED
    BY <2>2, <2>3, CheckedStands
<1>2. CASE ClearMonth(w)
  <2> DEFINE ok == MonthUnlocked(office[req[w].row].date)
             s == [req[w] EXCEPT !.at = "write"]
  <2>1. req[w] \in ClearReq /\ req[w].op = "clear"
    BY <1>2, RequestRow, RequestKinds DEF ClearMonth, At
  <2>2. s.op = "clear" /\ s.row = req[w].row /\ s.at = "write"
    BY <2>1 DEF ClearReq
  <2>3. Proceed(w, ok, "write")
    BY <1>2 DEF ClearMonth
  <2>4. ok => Checked(s)
    BY <2>1, <2>2 DEF Checked
  <2> QED
    BY <2>1, <2>3, <2>4, CheckedProceeds
<1>3. CASE ClearWrite(w)
  BY <1>3, CheckedEnds DEF ClearWrite
<1> QED
  BY <1>1, <1>2, <1>3 DEF ClearImported

LEMMA CheckedReverse ==
  ASSUME OfficeInv, NEW w \in Workers, Checked(req[w]), Reverse(w)
  PROVE  Checked(req[w])'
<1>1. CASE ReverseBegin(w)
  <2>1. PICK i \in DOMAIN office, today \in Dates : ReverseBegin(w)!(i, today)
    BY <1>1 DEF ReverseBegin
  <2> DEFINE r == [op |-> "reverse",
                   at |-> IF office[i].quarter = NoQuarter THEN "month" ELSE "vat",
                   row |-> i, date |-> today]
  <2>2. req'[w] = r /\ UNCHANGED tables
    BY <2>1 DEF OfficeInv, TypeOK
  <2>3. NoQuarter \notin submitted
    BY QuartersAssumption DEF OfficeInv, TypeOK
  <2>4. /\ r.op = "reverse" /\ r.at \in {"month", "vat"} /\ r.row = i
        /\ r.at # "vat" => office[i].quarter = NoQuarter
    OBVIOUS
  <2>5. Checked(r)
    <3>1. Reversible(office[i])
      BY <2>1
    <3> HIDE DEF r
    <3> QED
      BY <2>3, <2>4, <3>1 DEF Checked
  <2> HIDE DEF r
  <2> QED
    BY <2>2, <2>5, CheckedStands
<1>2. CASE ReverseVat(w)
  <2> DEFINE ok == office[req[w].row].quarter \notin submitted
             s == [req[w] EXCEPT !.at = "month"]
  <2>1. req[w] \in ReverseReq /\ req[w].op = "reverse"
    BY <1>2, RequestRow, RequestKinds DEF ReverseVat, At
  <2>2. s.op = "reverse" /\ s.row = req[w].row /\ s.at = "month"
    BY <2>1 DEF ReverseReq
  <2>3. Proceed(w, ok, "month")
    BY <1>2 DEF ReverseVat
  <2>4. ok => Checked(s)
    BY <2>1, <2>2 DEF Checked
  <2> QED
    BY <2>1, <2>3, <2>4, CheckedProceeds
<1>3. CASE ReverseMonth(w)
  <2> DEFINE ok == MonthUnlocked(req[w].date)
             s == [req[w] EXCEPT !.at = "write"]
  <2>1. req[w] \in ReverseReq /\ req[w].op = "reverse" /\ req[w].at = "month"
    BY <1>3, RequestRow, RequestKinds DEF ReverseMonth, At
  <2>2. s.op = "reverse" /\ s.row = req[w].row /\ s.at = "write" /\ s.date = req[w].date
    BY <2>1 DEF ReverseReq
  <2>3. Proceed(w, ok, "write")
    BY <1>3 DEF ReverseMonth
  <2>4. ok => Checked(s)
    BY <2>1, <2>2 DEF Checked
  <2> QED
    BY <2>1, <2>3, <2>4, CheckedProceeds
<1>4. CASE ReverseWrite(w)
  BY <1>4, CheckedEnds DEF ReverseWrite
<1> QED
  BY <1>1, <1>2, <1>3, <1>4 DEF Reverse

LEMMA CheckedApprove ==
  ASSUME OfficeInv, NEW w \in Workers, Checked(req[w]), Approve(w)
  PROVE  Checked(req[w])'
<1>0. DOMAIN req = Workers
  BY DEF OfficeInv, TypeOK
<1>1. CASE ApproveRead(w)
  <2>0. PICK b \in Batches : \E kept \in Reviews[b] : ApproveRead(w)!(b)!(kept)
    BY <1>1 DEF ApproveRead
  <2>1. PICK kept \in Reviews[b] : ApproveRead(w)!(b)!(kept)
    BY <2>0
  <2> DEFINE r == [op |-> "approve", at |-> IF kept = <<>> THEN "discard" ELSE "insert",
                   batch |-> b, kept |-> kept, tries |-> 1]
  <2>2. req'[w] = r /\ r.op = "approve" /\ r.batch = b
    BY <1>0, <2>1
  <2> HIDE DEF r
  <2>3. Checked(r)
    BY <2>1, <2>2 DEF Checked, Approvable
  <2> QED
    BY <2>1, <2>2, <2>3, CheckedStands
<1>2. CASE ApproveDiscard(w) \/ ApproveCleanup(w)
  BY <1>2, CheckedEnds DEF ApproveDiscard, ApproveCleanup
<1>3. CASE ApproveInsert(w)
  <2>1. req[w] \in ApproveReq /\ req[w].op = "approve"
    BY <1>3, ApprovalUnderWay DEF ApproveInsert, At
  <2>2. req'[w] = [req[w] EXCEPT !.at = "cleanup"] /\ staging' = staging
    BY <1>0, <1>3 DEF ApproveInsert
  <2>3. req'[w].op = "approve" /\ req'[w].batch = req[w].batch
    BY <2>1, <2>2 DEF ApproveReq
  <2> QED
    BY <2>1, <2>2, <2>3 DEF Checked
<1>4. CASE ApproveBusy(w)
  <2>1. req[w] \in ApproveReq /\ req[w].op = "approve"
    BY <1>4, ApprovalUnderWay DEF ApproveBusy
  <2> DEFINE again == [req[w] EXCEPT !.at = "insert", !.tries = req[w].tries + 1]
             r == IF req[w].tries < Retries THEN again ELSE NoReq
  <2>2. req'[w] = r /\ UNCHANGED tables
    BY <1>0, <1>4 DEF ApproveBusy
  <2>3. again.op = "approve" /\ again.batch = req[w].batch
    BY <2>1 DEF ApproveReq
  <2> HIDE DEF again
  <2>4. Checked(again)
    BY <2>1, <2>3 DEF Checked
  <2> QED
    BY <2>2, <2>4, CheckedStands, CheckedIdle
<1> QED
  BY <1>1, <1>2, <1>3, <1>4 DEF Approve

LEMMA CheckedStep ==
  ASSUME OfficeInv, NEW w \in Workers, Checked(req[w]), Step(w)
  PROVE  Checked(req[w])'
<1>1. CASE Upload(w) \/ CancelImport(w) \/ Elsewhere(w)
  BY <1>1, CheckedIdle
     DEF Upload, CancelImport, Elsewhere, LockMonth, UnlockMonth, SubmitReturn, Idle
<1>2. CASE Abort(w)
  BY <1>2, CheckedEnds DEF Abort
<1> QED
  BY <1>1, <1>2, CheckedCreate, CheckedStatus, CheckedClear, CheckedReverse, CheckedApprove
     DEF Step, Import

-----------------------------------------------------------------------------
(* What a write does then.                                                  *)

\* A row that is reversed for the first time has no compensating row yet.
LEMMA OnceReverse ==
  ASSUME OfficeInv, ReversedOnce, ReversedCleared, NEW n, NEW i, NEW d, Undone(n, i, d),
         office[i].of = 0, Reversible(office[i])
  PROVE  ReversedOnce' /\ ReversedCleared'
<1>1. /\ i \in DOMAIN office /\ n \notin DOMAIN office /\ DOMAIN office' = DOMAIN office \cup {n}
      /\ office'[i] = [office[i] EXCEPT !.reversed = TRUE]
      /\ office'[n] = Leg(i, d)
      /\ \A j \in DOMAIN office \ {i} : office'[j] = office[j]
  BY DEF Undone
<1>2. office[i] \in OfficeRow
  BY <1>1, OfficeRows
<1>3. \A j \in DOMAIN office : office'[j].of = office[j].of /\ office'[j].status = office[j].status
  <2>1. office'[i].of = office[i].of /\ office'[i].status = office[i].status
    BY <1>1, <1>2 DEF OfficeRow
  <2> QED
    BY <1>1, <2>1
<1>4. office'[n].of = i /\ office'[n].status = "Cleared"
  BY <1>1 DEF Leg
<1>5. \A j \in DOMAIN office : office[j].of # i
  <2> SUFFICES ASSUME NEW j \in DOMAIN office, office[j].of = i PROVE FALSE
    OBVIOUS
  <2>1. i # 0
    BY <1>1, OfficeRows
  <2>2. LegUndoes(j)
    BY <2>1 DEF OfficeInv, ReversalsSound
  <2> QED
    BY <2>2 DEF LegUndoes, Reversible
<1>6. ReversedOnce'
  <2> SUFFICES ASSUME NEW j \in DOMAIN office', NEW k \in DOMAIN office',
                      office'[j].of = office'[k].of, office'[j].of # 0
               PROVE  j = k
    BY DEF ReversedOnce
  <2>1. CASE j = n
    BY <1>1, <1>3, <1>4, <1>5, <2>1
  <2>2. CASE k = n
    BY <1>1, <1>3, <1>4, <1>5, <2>2
  <2>3. CASE j # n /\ k # n
    <3>1. j \in DOMAIN office /\ k \in DOMAIN office /\ office[j].of = office[k].of /\ office[j].of # 0
      BY <1>1, <1>3, <2>3
    <3> QED
      BY <3>1 DEF ReversedOnce
  <2> QED
    BY <2>1, <2>2, <2>3
<1>7. ReversedCleared'
  <2> SUFFICES ASSUME NEW j \in DOMAIN office', office'[j].reversed PROVE office'[j].status = "Cleared"
    BY DEF ReversedCleared
  <2>1. CASE j = n
    BY <1>4, <2>1
  <2>2. CASE j = i
    BY <1>1, <1>3, <2>2 DEF Reversible
  <2>3. CASE j \in DOMAIN office \ {i}
    BY <1>1, <2>3 DEF ReversedCleared
  <2> QED
    BY <1>1, <2>1, <2>2, <2>3
<1> QED
  BY <1>6, <1>7

\* Only a row that is not cleared is settled, so none that is reversed.
LEMMA OnceSettle ==
  ASSUME OfficeInv, ReversedOnce, ReversedCleared, NEW i, NEW s, Settled(i, s),
         office[i].status # "Cleared"
  PROVE  ReversedOnce' /\ ReversedCleared'
<1>1. /\ i \in DOMAIN office /\ DOMAIN office' = DOMAIN office
      /\ office'[i] = [office[i] EXCEPT !.status = s]
      /\ \A j \in DOMAIN office \ {i} : office'[j] = office[j]
  BY DEF Settled
<1>2. office[i] \in OfficeRow
  BY <1>1, OfficeRows
<1>3. office'[i].of = office[i].of /\ office'[i].reversed = office[i].reversed
  BY <1>1, <1>2 DEF OfficeRow
<1>4. \A j \in DOMAIN office : office'[j].of = office[j].of
  BY <1>1, <1>3
<1>5. ~office'[i].reversed
  BY <1>1, <1>3 DEF ReversedCleared
<1> QED
  BY <1>1, <1>4, <1>5 DEF ReversedOnce, ReversedCleared

\* Rows that are added reverse nothing.
LEMMA OnceGrow ==
  ASSUME ReversedOnce, ReversedCleared, DOMAIN office \subseteq DOMAIN office',
         \A j \in DOMAIN office : office'[j] = office[j],
         \A j \in DOMAIN office' \ DOMAIN office : office'[j].of = 0 /\ ~office'[j].reversed
  PROVE  ReversedOnce' /\ ReversedCleared'
<1>1. ReversedOnce'
  <2> SUFFICES ASSUME NEW j \in DOMAIN office', NEW k \in DOMAIN office',
                      office'[j].of = office'[k].of, office'[j].of # 0
               PROVE  j = k
    BY DEF ReversedOnce
  <2>1. j \in DOMAIN office /\ k \in DOMAIN office
    OBVIOUS
  <2> QED
    BY <2>1 DEF ReversedOnce
<1>2. ReversedCleared'
  BY DEF ReversedCleared
<1> QED
  BY <1>1, <1>2

\* The rows an approval adds.
LEMMA TakenRows ==
  ASSUME OfficeInv, NEW b, NEW kept, Taken(b, kept)
  PROVE  /\ DOMAIN office \subseteq DOMAIN office'
         /\ \A j \in DOMAIN office : office'[j] = office[j]
         /\ \A j \in DOMAIN office' \ DOMAIN office :
               office'[j].batch = b /\ office'[j].of = 0 /\ ~office'[j].reversed
<1>1. /\ Len(office) \in Nat /\ DOMAIN office = 1..Len(office) /\ Len(kept) \in Nat
      /\ DOMAIN kept = 1..Len(kept)
      /\ DOMAIN office' = 1..(Len(office) + Len(kept))
      /\ \A j \in DOMAIN office : j \in DOMAIN office' /\ office'[j] = office[j]
      /\ \A k \in DOMAIN kept : office'[Len(office) + k] = ImportedRow(kept[k], b)
  BY OfficeRows DEF Taken
<1>2. ASSUME NEW j \in DOMAIN office' \ DOMAIN office
      PROVE  office'[j].batch = b /\ office'[j].of = 0 /\ ~office'[j].reversed
  <2>1. j - Len(office) \in DOMAIN kept /\ j = Len(office) + (j - Len(office))
    BY <1>1
  <2>2. office'[j] = ImportedRow(kept[j - Len(office)], b)
    BY <1>1, <2>1
  <2> QED
    BY <2>2 DEF ImportedRow
<1> QED
  BY <1>1, <1>2

LEMMA ReversedStep ==
  ASSUME OfficeInv, ReversedOnce, ReversedCleared, NEW w \in Workers, Checked(req[w]), Step(w)
  PROVE  ReversedOnce' /\ ReversedCleared'
<1>1. CASE office' = office
  BY <1>1 DEF ReversedOnce, ReversedCleared
<1>2. CASE CreateWrite(w)
  <2>1. PICK f : Added(Len(office) + 1, NewRow(f))
    BY <1>2, CreateRows
  <2>2. NewRow(f).of = 0 /\ ~NewRow(f).reversed
    BY DEF NewRow
  <2> QED
    BY <2>1, <2>2, OnceGrow DEF Added
<1>3. CASE StatusWrite(w)
  <2>1. req[w].op = "status" /\ req[w] \in StatusReq /\ Settled(req[w].row, req[w].to)
    BY <1>3, StatusRows
  <2>2. office[req[w].row].status # "Cleared"
    BY <2>1 DEF Checked, StatusChangeAllowed, StatusReq
  <2> QED
    BY <2>1, <2>2, OnceSettle
<1>4. CASE ClearWrite(w)
  <2>1. PICK s : req[w].op = "clear" /\ Settled(req[w].row, s)
    BY <1>4, ClearRows
  <2>2. office[req[w].row].status # "Cleared"
    BY <2>1 DEF Checked
  <2> QED
    BY <2>1, <2>2, OnceSettle
<1>5. CASE ReverseWrite(w)
  <2>1. /\ req[w].op = "reverse" /\ office[req[w].row].of = 0
        /\ Undone(Len(office) + 1, req[w].row, req[w].date)
    BY <1>5, ReverseRows
  <2>2. Reversible(office[req[w].row])
    BY <2>1 DEF Checked
  <2> QED
    BY <2>1, <2>2, OnceReverse
<1>6. CASE ApproveInsert(w)
  BY <1>6, InsertRows, TakenRows, OnceGrow
<1> QED
  BY <1>1, <1>2, <1>3, <1>4, <1>5, <1>6, RowWriters

\* A step is of one worker.
LEMMA RequestsOfOthers ==
  ASSUME OfficeInv, NEW w \in Workers, Step(w)
  PROVE  \A v \in Workers \ {w} : req'[v] = req[v]
<1>1. req' = req \/ \E r : req' = [req EXCEPT ![w] = r]
  <2>1. CASE Create(w)
    BY <2>1 DEF Create, CreateBegin, CreateWrite, CreateRefused, Finish
  <2>2. CASE UpdateStatus(w)
    BY <2>2 DEF UpdateStatus, StatusBegin, StatusMonth, StatusWrite, Finish, Proceed
  <2>3. CASE ClearImported(w)
    BY <2>3 DEF ClearImported, ClearBegin, ClearMonth, ClearWrite, Finish, Proceed
  <2>4. CASE Reverse(w)
    BY <2>4 DEF Reverse, ReverseBegin, ReverseVat, ReverseMonth, ReverseWrite, Finish, Proceed
  <2>5. CASE Import(w)
    BY <2>5 DEF Import, Upload, CancelImport, Approve, ApproveRead, ApproveDiscard, ApproveInsert,
                ApproveCleanup, ApproveBusy, Finish
  <2>6. CASE Elsewhere(w) \/ Abort(w)
    BY <2>6 DEF Elsewhere, LockMonth, UnlockMonth, SubmitReturn, Abort, Finish
  <2> QED
    BY <2>1, <2>2, <2>3, <2>4, <2>5, <2>6 DEF Step
<1> QED
  BY <1>1 DEF OfficeInv, TypeOK

\* One at a time: the others are idle.
OthersIdle(w) == \A v \in Workers \ {w} : Idle(v)

LEMMA SerialStep ==
  ASSUME SerialInv, NEW w \in Workers, OthersIdle(w), Step(w)
  PROVE  SerialInv'
<1>1. OfficeInv /\ Checked(req[w]) /\ ReversedOnce /\ ReversedCleared
  BY DEF SerialInv
<1>2. OfficeInv'
  BY <1>1, StepInv DEF Next
<1>3. ReversedOnce' /\ ReversedCleared'
  BY <1>1, ReversedStep
<1>4. Checked(req[w])'
  BY <1>1, CheckedStep
<1>5. ASSUME NEW v \in Workers \ {w} PROVE Checked(req[v])'
  <2>1. req[v] = NoReq
    BY DEF OthersIdle, Idle
  <2>2. req'[v] = req[v]
    BY <1>1, RequestsOfOthers
  <2> QED
    BY <2>1, <2>2, CheckedIdle
<1> QED
  BY <1>2, <1>3, <1>4, <1>5 DEF SerialInv

LEMMA SerialInit == Init => SerialInv
<1> SUFFICES ASSUME Init PROVE SerialInv
  OBVIOUS
<1>1. OfficeInv
  BY InitInv
<1>2. ReversedOnce /\ ReversedCleared
  BY DEF Init, ReversedOnce, ReversedCleared
<1>3. \A w \in Workers : Checked(req[w])
  BY DEF Init, Checked, NoReq
<1> QED
  BY <1>1, <1>2, <1>3 DEF SerialInv

LEMMA SerialNext ==
  ASSUME oneByOne => SerialInv, [MCNext]_MCvars
  PROVE  (oneByOne => SerialInv)'
<1>1. oneByOne' = oneByOne
  BY DEF MCNext, MCvars
<1> SUFFICES ASSUME oneByOne PROVE SerialInv'
  BY <1>1
<1>2. CASE UNCHANGED MCvars
  <2>1. OfficeInv'
    BY <1>2, StepInv DEF MCvars, SerialInv
  <2>2. ReversedOnce' /\ ReversedCleared'
    BY <1>2 DEF MCvars, vars, SerialInv, ReversedOnce, ReversedCleared
  <2>3. UNCHANGED tables /\ \A w \in Workers : req'[w] = req[w]
    BY <1>2 DEF MCvars, vars, tables
  <2>4. \A w \in Workers : Checked(req[w])'
    BY <2>3, CheckedStands DEF SerialInv
  <2> QED
    BY <2>1, <2>2, <2>4 DEF SerialInv
<1>3. CASE \E w \in Workers : Step(w) /\ OthersIdle(w)
  BY <1>3, SerialStep
<1> QED
  BY <1>2, <1>3 DEF MCNext, OthersIdle

LEMMA SerialAlways == MCSpec => [](oneByOne => SerialInv)
<1>1. MCInit => (oneByOne => SerialInv)
  BY SerialInit DEF MCInit
<1> QED
  BY <1>1, SerialNext, PTL DEF MCSpec

\* Requests served one at a time reverse a row at most once, and what they
\* have reversed stays cleared: Reversible and StatusChangeAllowed are as good
\* as they are fresh (database.py, reversal_status; app.py).
THEOREM ReversedOnceEach == MCSpec => []SerialReversedOnce
<1>1. (oneByOne => SerialInv) => SerialReversedOnce
  BY DEF SerialInv, SerialReversedOnce
<1> QED
  BY <1>1, SerialAlways, PTL

-----------------------------------------------------------------------------
(* What is closed stays closed.                                             *)

ClosedRests == SubmittedRests /\ LockedMonthsTake /\ GoneBatchRests

LEMMA ClosedQuiet == ASSUME office' = office PROVE ClosedRests
  BY DEF ClosedRests, SubmittedRests, LockedMonthsTake, GoneBatchRests, NewRows

LEMMA ClosedStep ==
  ASSUME OfficeInv, NEW w \in Workers, Checked(req[w]), Step(w)
  PROVE  ClosedRests
<1>0. DOMAIN office = 1..Len(office) /\ \A i \in DOMAIN office : office[i] \in OfficeRow
  BY OfficeRows
<1>1. CASE office' = office
  BY <1>1, ClosedQuiet
<1>2. CASE CreateWrite(w)
  <2>1. PICK f : f = req[w].form
    OBVIOUS
  <2>2. Added(Len(office) + 1, NewRow(f)) /\ MonthUnlocked(f.date)
    BY <1>2, <2>1, CreateRows DEF Checked, CreateReq
  <2>3. NewRow(f).date = f.date /\ NewRow(f).batch = NoBatch
    BY DEF NewRow
  <2> QED
    BY <2>2, <2>3
       DEF Added, ClosedRests, SubmittedRests, LockedMonthsTake, GoneBatchRests, NewRows, MonthUnlocked
<1>3. ASSUME NEW i, NEW s, Settled(i, s), MonthUnlocked(office[i].date) PROVE ClosedRests
  <2>1. office[i] \in OfficeRow
    BY <1>0, <1>3 DEF Settled
  <2>2. office'[i].reversed = office[i].reversed
    BY <1>3, <2>1 DEF Settled, OfficeRow
  <2> QED
    BY <1>3, <2>2
       DEF Settled, ClosedRests, SubmittedRests, LockedMonthsTake, GoneBatchRests, NewRows, MonthUnlocked
<1>4. CASE StatusWrite(w)
  <2>1. req[w].op = "status" /\ req[w].at = "write" /\ Settled(req[w].row, req[w].to)
    BY <1>4, StatusRows DEF StatusWrite, At
  <2> QED
    BY <1>3, <2>1 DEF Checked
<1>5. CASE ClearWrite(w)
  <2>1. PICK s : req[w].op = "clear" /\ req[w].at = "write" /\ Settled(req[w].row, s)
    BY <1>5, ClearRows DEF ClearWrite, At
  <2> QED
    BY <1>3, <2>1 DEF Checked
<1>6. CASE ReverseWrite(w)
  <2>1. PICK i, d : i = req[w].row /\ d = req[w].date
    OBVIOUS
  <2>2. req[w].op = "reverse" /\ req[w].at = "write" /\ Undone(Len(office) + 1, i, d)
    BY <1>6, <2>1, ReverseRows DEF ReverseWrite, At
  <2>3. office[i].quarter \notin submitted /\ MonthUnlocked(d)
    BY <2>1, <2>2 DEF Checked
  <2>4. office[i] \in OfficeRow
    BY <1>0, <2>2 DEF Undone
  <2>5. office'[i].status = office[i].status
    BY <2>2, <2>4 DEF Undone, OfficeRow
  <2>6. office'[Len(office) + 1].date = d /\ office'[Len(office) + 1].batch = NoBatch
    BY <2>2 DEF Undone, Leg
  <2> QED
    BY <2>2, <2>3, <2>5, <2>6
       DEF Undone, ClosedRests, SubmittedRests, LockedMonthsTake, GoneBatchRests, NewRows, MonthUnlocked
<1>7. CASE ApproveInsert(w)
  <2>1. PICK b, kept : b = req[w].batch /\ kept = req[w].kept
    OBVIOUS
  <2>2. b \in Batches /\ staging[b] = "staged" /\ Taken(b, kept)
    BY <1>7, <2>1, InsertRows, ApprovalUnderWay DEF Checked, ApproveInsert, At
  <2>3. /\ DOMAIN office \subseteq DOMAIN office'
        /\ \A j \in DOMAIN office : office'[j] = office[j]
        /\ \A j \in DOMAIN office' \ DOMAIN office : office'[j].batch = b
    BY <2>2, TakenRows
  <2>4. b # NoBatch
    BY <2>2, BatchesAssumption
  <2> QED
    BY <2>2, <2>3, <2>4
       DEF ClosedRests, SubmittedRests, LockedMonthsTake, GoneBatchRests, NewRows
<1> QED
  BY <1>1, <1>2, <1>4, <1>5, <1>6, <1>7, RowWriters

\* Requests served one at a time reverse no row of a submitted VAT quarter, add
\* to no locked month and settle nothing in it (but for imports, which do not
\* look), and insert no batch that was finished or cancelled.
THEOREM ClosedStays == MCSpec => SerialClosedRests
<1>1. (oneByOne => SerialInv) /\ [MCNext]_MCvars => [oneByOne => ClosedRests]_MCvars
  <2> SUFFICES ASSUME oneByOne, SerialInv, MCNext PROVE ClosedRests
    OBVIOUS
  <2>1. PICK w \in Workers : Step(w)
    BY DEF MCNext
  <2> QED
    BY <2>1, ClosedStep DEF SerialInv
<1>2. MCSpec => [][oneByOne => ClosedRests]_MCvars
  BY <1>1, SerialAlways, PTL DEF MCSpec
<1> QED
  BY <1>2 DEF SerialClosedRests, ClosedRests
=============================================================================
