------------------------- MODULE ReconciliationProofs -------------------------
(***************************************************************************)
(* Proofs about Reconciliation, for any workers and months.  Whatever the  *)
(* requests interleave, the versions of a month form one chain: a lock     *)
(* computes the next version from a row it read in an earlier transaction; *)
(* the chain holds because versions never change, so the number is still   *)
(* right when that row is current, and the unique index refuses the write  *)
(* when it is not.  Served one at a time, the two places that say a month  *)
(* is locked agree, and a locked record keeps the live figure it took.     *)
(***************************************************************************)
EXTENDS MCReconciliation, SequenceTheorems, TLAPS

-----------------------------------------------------------------------------
(* Rows.                                                                    *)

LEMMA RowsOf ==
    ASSUME recs \in Seq(RecRow)
    PROVE  /\ Len(recs) \in Nat
           /\ DOMAIN recs = 1..Len(recs)
           /\ \A i \in DOMAIN recs : recs[i] \in RecRow /\ recs[i].month \in Months
                                     /\ recs[i].version \in Nat /\ recs[i].current \in BOOLEAN
<1>1. Len(recs) \in Nat /\ DOMAIN recs = 1..Len(recs)
  OBVIOUS
<1>2. \A i \in DOMAIN recs : recs[i] \in RecRow
  OBVIOUS
<1>3. QED
  BY <1>1, <1>2 DEF RecRow

\* The rows present keep their months and versions: requests that hold a row
\* still name it.
LEMMA HeldRowsKept ==
    ASSUME VersionsInv, NEW w \in Workers,
           DOMAIN recs \subseteq DOMAIN recs',
           \A i \in DOMAIN recs : recs'[i].month = recs[i].month
                                  /\ recs'[i].version = recs[i].version,
           Finish(w)
    PROVE  req' \in [Workers -> Request] /\ HeldRows'
<1>1. /\ req \in [Workers -> Request]
      /\ req'[w] = NoReq
      /\ \A v \in Workers : v # w => req'[v] = req[v]
      /\ req' \in [Workers -> Request]
  BY DEF VersionsInv, TypeOK, Finish, Request
<1>2. HeldRows
  BY DEF VersionsInv
<1>3. HeldRows'
  BY <1>1, <1>2 DEF HeldRows, NoReq
<1>4. QED
  BY <1>1, <1>3

\* A step that changes no row's month, version or current flag, and adds none.
LEMMA ChainKept ==
    ASSUME VersionsInv,
           DOMAIN recs' = DOMAIN recs,
           \A i \in DOMAIN recs : /\ recs'[i].month = recs[i].month
                                  /\ recs'[i].version = recs[i].version
                                  /\ recs'[i].current = recs[i].current
    PROVE  VersionsChain' /\ MonthsCurrent'
<1>1. \A i \in DOMAIN recs : SameMonth(i)' = SameMonth(i)
  BY DEF SameMonth
<1>2. VersionsChain /\ MonthsCurrent
  BY DEF VersionsInv
<1>3. \A i \in DOMAIN recs : SameMonth(i) \subseteq DOMAIN recs
  BY DEF SameMonth
<1>4. VersionsChain'
  BY <1>1, <1>2, <1>3 DEF VersionsChain
<1>5. MonthsCurrent'
  BY <1>1, <1>2, <1>3 DEF MonthsCurrent
<1>6. QED
  BY <1>4, <1>5

\* A new current row of month m whose version follows those of m.
LEMMA ChainGrows ==
    ASSUME VersionsInv, NEW m \in Months, NEW n, n = Len(recs) + 1,
           DOMAIN recs' = 1..n,
           \A i \in DOMAIN recs :
              /\ recs'[i].month = recs[i].month
              /\ recs'[i].version = recs[i].version
              /\ recs'[i].current = (recs[i].current /\ recs[i].month # m),
           recs'[n].month = m,
           recs'[n].current = TRUE,
           recs'[n].version \in Nat,
           \A i \in DOMAIN recs : recs[i].month = m => recs[i].version < recs'[n].version,
           recs'[n].version # 1 =>
              \E i \in DOMAIN recs : recs[i].month = m /\ recs[i].version = recs'[n].version - 1
    PROVE  VersionsChain' /\ MonthsCurrent'
<1>1. /\ Len(recs) \in Nat
      /\ DOMAIN recs = 1..Len(recs)
      /\ \A i \in DOMAIN recs : i \in Nat /\ i < n /\ i \in DOMAIN recs'
                                /\ recs[i].current \in BOOLEAN
      /\ DOMAIN recs' = DOMAIN recs \cup {n}
      /\ n \in Nat /\ n \notin DOMAIN recs
  BY RowsOf DEF VersionsInv, TypeOK
<1>2. \A i \in DOMAIN recs :
         SameMonth(i)' = IF recs[i].month = m THEN SameMonth(i) \cup {n} ELSE SameMonth(i)
  BY <1>1 DEF SameMonth
<1>3. SameMonth(n)' = {i \in DOMAIN recs : recs[i].month = m} \cup {n}
  BY <1>1 DEF SameMonth
<1>4. VersionsChain /\ MonthsCurrent
  BY DEF VersionsInv
<1>5. ASSUME NEW i \in DOMAIN recs'
      PROVE  /\ recs'[i].current <=> \A j \in SameMonth(i)' : j <= i
             /\ \A j \in SameMonth(i)' : j < i => recs'[j].version < recs'[i].version
             /\ recs'[i].version # 1 =>
                   \E j \in SameMonth(i)' : j < i /\ recs'[j].version = recs'[i].version - 1
  <2>1. CASE i = n
    <3>1. SameMonth(i)' = {k \in DOMAIN recs : recs[k].month = m} \cup {n}
      BY <1>3, <2>1
    <3>2. \A j \in SameMonth(i)' : j <= i
      BY <1>1, <2>1, <3>1
    <3>3. \A j \in SameMonth(i)' : j < i => recs'[j].version < recs'[i].version
      BY <1>1, <2>1, <3>1
    <3>4. recs'[i].version # 1 =>
             \E j \in SameMonth(i)' : j < i /\ recs'[j].version = recs'[i].version - 1
      BY <1>1, <2>1, <3>1
    <3>5. QED
      BY <2>1, <3>2, <3>3, <3>4
  <2>2. CASE i \in DOMAIN recs
    <3>1. SameMonth(i) \subseteq SameMonth(i)' /\ SameMonth(i) \subseteq DOMAIN recs
      BY <1>2, <2>2 DEF SameMonth
    <3>2. \A j \in SameMonth(i)' : j < i => j \in SameMonth(i)
      BY <1>1, <1>2, <2>2
    <3>3. recs[i].month = m => n \in SameMonth(i)' /\ ~(n <= i)
      BY <1>1, <1>2, <2>2
    <3>4. recs[i].month # m => SameMonth(i)' = SameMonth(i)
      BY <1>2, <2>2
    <3>5. recs'[i].current <=> \A j \in SameMonth(i)' : j <= i
      BY <1>4, <2>2, <3>3, <3>4 DEF VersionsChain
    <3>6. \A j \in SameMonth(i)' : j < i => recs'[j].version < recs'[i].version
      BY <1>4, <2>2, <3>1, <3>2 DEF VersionsChain
    <3>7. recs'[i].version # 1 =>
             \E j \in SameMonth(i)' : j < i /\ recs'[j].version = recs'[i].version - 1
      BY <1>4, <2>2, <3>1 DEF VersionsChain
    <3>8. QED
      BY <3>5, <3>6, <3>7
  <2>3. QED
    BY <1>1, <2>1, <2>2
<1>6. ASSUME NEW i \in DOMAIN recs'
      PROVE  \E j \in SameMonth(i)' : i <= j /\ recs'[j].current
  <2>1. CASE recs'[i].month = m
    BY <1>1, <2>1 DEF SameMonth
  <2>2. CASE recs'[i].month # m
    <3>1. i \in DOMAIN recs /\ recs[i].month # m
      BY <1>1, <2>2
    <3>2. PICK j \in SameMonth(i) : i <= j /\ recs[j].current
      BY <1>4, <3>1 DEF MonthsCurrent
    <3>3. j \in SameMonth(i)' /\ j \in DOMAIN recs /\ recs[j].month # m
      BY <1>2, <3>1 DEF SameMonth
    <3>4. QED
      BY <3>2, <3>3
  <2>3. QED
    BY <2>1, <2>2
<1>7. QED
  BY <1>5, <1>6 DEF VersionsChain, MonthsCurrent

\* A step of worker w's request that leaves the tables alone and holds no row
\* afterwards, or one it has just checked.
LEMMA RequestOnly ==
    ASSUME VersionsInv, NEW w \in Workers, UNCHANGED tables,
           NEW r \in Request, req' = [req EXCEPT ![w] = r],
           (r.op \in {"lock", "unlock"} /\ r.at \in {"state", "write"}) =>
               /\ r.id \in DOMAIN recs
               /\ recs[r.id].month = r.month
               /\ r.op = "lock" => r.cur.version = recs[r.id].version
    PROVE  VersionsInv'
<1>1. /\ recs' = recs /\ monthLocked' = monthLocked /\ monthEnd' = monthEnd
      /\ req \in [Workers -> Request] /\ HeldRows
  BY DEF VersionsInv, TypeOK, tables
<1>2. TypeOK'
  BY <1>1 DEF VersionsInv, TypeOK
<1>3. /\ req'[w] = r
      /\ \A v \in Workers : v # w => req'[v] = req[v]
  BY <1>1
<1>4. HeldRows'
  BY <1>1, <1>3 DEF HeldRows
<1>5. VersionsChain' /\ MonthsCurrent'
  BY <1>1, ChainKept
<1>6. QED
  BY <1>2, <1>4, <1>5 DEF VersionsInv

LEMMA RefuseInv ==
    ASSUME VersionsInv, NEW w \in Workers, Refuse(w)
    PROVE  VersionsInv'
<1>1. NoReq \in Request /\ NoReq.op \notin {"lock", "unlock"}
  BY DEF NoReq, Request
<1>2. UNCHANGED tables /\ req' = [req EXCEPT ![w] = NoReq]
  BY DEF Refuse, Finish
<1>3. QED
  BY <1>1, <1>2, RequestOnly

-----------------------------------------------------------------------------
(* The operations.                                                          *)

\* A request that goes on to a step at which it holds no row.
LEMMA MoveOn ==
    ASSUME VersionsInv, NEW w \in Workers, UNCHANGED tables,
           NEW r \in Request, r.op \in {"lock", "unlock"} => r.at \notin {"state", "write"},
           req' = [req EXCEPT ![w] = r]
    PROVE  VersionsInv'
  BY RequestOnly

LEMMA RecordInv ==
    ASSUME VersionsInv, NEW w \in Workers, Record(w)
    PROVE  VersionsInv'
<1> DEFINE m == req[w].month
<1>0. /\ req \in [Workers -> Request] /\ req[w] \in Request
      /\ monthEnd \in [Months -> 0..MaxFigure]
      /\ recs \in Seq(RecRow)
  BY DEF VersionsInv, TypeOK
<1>1. CASE RecordBegin(w)
  <2>1. PICK k \in Months :
           /\ UNCHANGED tables
           /\ req' = [req EXCEPT ![w] = [op |-> "record", at |-> "cash", month |-> k,
                                         figure |-> monthEnd[k]]]
    BY <1>1 DEF RecordBegin
  <2>2. monthEnd[k] \in Int
    BY <1>0, BoundsAssumption
  <2> DEFINE r == [op |-> "record", at |-> "cash", month |-> k, figure |-> monthEnd[k]]
  <2>3. r \in Request /\ r.op \notin {"lock", "unlock"}
    BY <2>2 DEF Request, RecordReq
  <2> HIDE DEF r
  <2>4. QED
    BY <2>1, <2>3, MoveOn DEF r
<1>2. ASSUME At(w, "record", "cash") \/ At(w, "record", "current"),
             NEW ok, NEW step \in {"current", "write"}, Proceed(w, ok, step)
      PROVE  VersionsInv'
  <2>1. req[w] \in RecordReq
    BY <1>0, <1>2 DEF At, Request, NoReq, LockReq, LockHeld, UnlockReq, UnlockHeld, BooksReq
  <2> DEFINE s == [req[w] EXCEPT !.at = step]
             r == IF ok THEN s ELSE NoReq
  <2>2. s \in RecordReq /\ s.op = "record"
    BY <2>1, <1>2 DEF RecordReq
  <2>3. r \in Request /\ r.op \notin {"lock", "unlock"}
    BY <2>2 DEF Request, NoReq
  <2>4. UNCHANGED tables /\ req' = [req EXCEPT ![w] = r]
    BY <1>2 DEF Proceed
  <2> HIDE DEF r
  <2>5. QED
    BY <2>3, <2>4, MoveOn
<1>3. CASE RecordCash(w)
  BY <1>2, <1>3 DEF RecordCash
<1>4. CASE RecordCurrent(w)
  BY <1>2, <1>4 DEF RecordCurrent
<1>5. CASE RecordWrite(w)
  <2>1. CASE Refuse(w)
    BY <2>1, RefuseInv
  <2>2. CASE ~Refuse(w)
    <3> DEFINE x == [month |-> m, version |-> 1, current |-> TRUE, locked |-> FALSE,
                     stamped |-> FALSE, figure |-> req[w].figure]
    <3>1. /\ Current(m) = {}
          /\ recs' = Append(recs, x)
          /\ Finish(w)
          /\ UNCHANGED <<monthLocked, monthEnd>>
          /\ req[w].op = "record"
      BY <1>5, <2>2 DEF RecordWrite, At
    <3>2. req[w] \in RecordReq
      BY <1>0, <3>1 DEF Request, NoReq, LockReq, LockHeld, UnlockReq, UnlockHeld, BooksReq
    <3>3. m \in Months /\ x \in RecRow
      BY <3>2 DEF RecordReq, RecRow
    <3>4. /\ x.month = m /\ x.version = 1 /\ x.current = TRUE
      OBVIOUS
    <3> HIDE DEF x
    <3>5. /\ recs' \in Seq(RecRow)
          /\ DOMAIN recs' = 1..(Len(recs) + 1)
          /\ \A i \in DOMAIN recs : recs'[i] = recs[i]
          /\ recs'[Len(recs) + 1] = x
          /\ DOMAIN recs \subseteq DOMAIN recs'
      BY <1>0, <3>1, <3>3, RowsOf
    <3>6. \A i \in DOMAIN recs : recs[i].month # m
      <4>1. SUFFICES ASSUME NEW i \in DOMAIN recs, recs[i].month = m PROVE FALSE
        OBVIOUS
      <4>2. PICK j \in SameMonth(i) : recs[j].current
        BY DEF VersionsInv, MonthsCurrent
      <4>3. j \in Current(m)
        BY <4>1, <4>2 DEF Current, SameMonth
      <4>4. QED
        BY <3>1, <4>3
    <3>7. VersionsChain' /\ MonthsCurrent'
      <4>1. \A i \in DOMAIN recs :
               /\ recs'[i].month = recs[i].month
               /\ recs'[i].version = recs[i].version
               /\ recs'[i].current = (recs[i].current /\ recs[i].month # m)
        BY <1>0, <3>5, <3>6, RowsOf
      <4>2. /\ recs'[Len(recs) + 1].month = m
            /\ recs'[Len(recs) + 1].current = TRUE
            /\ recs'[Len(recs) + 1].version = 1
        BY <3>4, <3>5
      <4>3. \A i \in DOMAIN recs : recs[i].month = m => recs[i].version < 1
        BY <3>6
      <4> DEFINE n == Len(recs) + 1
      <4>4. /\ n = Len(recs) + 1
            /\ DOMAIN recs' = 1..n
            /\ recs'[n].month = m /\ recs'[n].current = TRUE
            /\ recs'[n].version \in Nat
            /\ \A i \in DOMAIN recs : recs[i].month = m => recs[i].version < recs'[n].version
            /\ recs'[n].version # 1 =>
                  \E i \in DOMAIN recs : recs[i].month = m
                                         /\ recs[i].version = recs'[n].version - 1
        BY <3>5, <4>2, <4>3
      <4> HIDE DEF n, m
      <4>5. QED
        BY <3>3, <4>1, <4>4, ChainGrows
    <3>8. req' \in [Workers -> Request] /\ HeldRows'
      BY <3>1, <3>5, HeldRowsKept
    <3>9. QED
      BY <3>1, <3>5, <3>7, <3>8 DEF VersionsInv, TypeOK
  <2>3. QED
    BY <2>1, <2>2
<1>6. QED
  BY <1>1, <1>3, <1>4, <1>5 DEF Record

\* A request that has read the row it will write by.
LEMMA HeldOf ==
    ASSUME VersionsInv, NEW w \in Workers, req[w].op \in {"lock", "unlock"},
           req[w].at \in {"state", "write"}
    PROVE  /\ req[w].month \in Months
           /\ req[w].id \in DOMAIN recs
           /\ recs[req[w].id].month = req[w].month
           /\ req[w].op = "lock" =>
                 /\ req[w] \in LockHeld
                 /\ req[w].cur.version = recs[req[w].id].version
<1>1. req[w] \in Request /\ HeldRows
  BY DEF VersionsInv, TypeOK
<1>2. req[w].op = "lock" => req[w] \in LockHeld
  BY <1>1 DEF Request, NoReq, RecordReq, LockReq, UnlockReq, UnlockHeld, BooksReq
<1>3. req[w].op = "unlock" => req[w] \in UnlockHeld
  BY <1>1 DEF Request, NoReq, RecordReq, LockReq, LockHeld, UnlockReq, BooksReq
<1>4. req[w].month \in Months
  BY <1>2, <1>3 DEF LockHeld, UnlockHeld
<1>5. QED
  BY <1>1, <1>2, <1>4 DEF HeldRows

\* The rows of a month other than its current one are of earlier versions.
LEMMA CurrentIsLatest ==
    ASSUME VersionsInv, NEW k \in DOMAIN recs, Current(recs[k].month) \subseteq {k}
    PROVE  \A i \in DOMAIN recs : recs[i].month = recs[k].month =>
              /\ recs[i].version <= recs[k].version
              /\ recs[i].current => i = k
<1> SUFFICES ASSUME NEW i \in DOMAIN recs, recs[i].month = recs[k].month
             PROVE  /\ recs[i].version <= recs[k].version
                    /\ recs[i].current => i = k
  OBVIOUS
<1>1. \A l \in DOMAIN recs : l \in Nat /\ recs[l].version \in Nat
  BY RowsOf DEF VersionsInv, TypeOK
<1>2. PICK j \in SameMonth(i) : i <= j /\ recs[j].current
  BY DEF VersionsInv, MonthsCurrent
<1>3. j \in DOMAIN recs /\ j \in Current(recs[k].month)
  BY <1>2 DEF SameMonth, Current
<1>4. j = k
  BY <1>3
<1>5. recs[i].version <= recs[k].version
  <2>1. CASE i = k
    BY <1>1, <2>1
  <2>2. CASE i # k
    <3>1. i < k /\ i \in SameMonth(k)
      BY <1>1, <1>2, <1>4, <2>2 DEF SameMonth
    <3>2. recs[i].version < recs[k].version
      BY <3>1 DEF VersionsInv, VersionsChain
    <3>3. QED
      BY <1>1, <3>2
  <2>3. QED
    BY <2>1, <2>2
<1>6. recs[i].current => i = k
  BY DEF Current
<1>7. QED
  BY <1>5, <1>6

\* Setting the locks and the figure of row k, which exists, and nothing else.
LEMMA RowTouched ==
    ASSUME VersionsInv, NEW w \in Workers, NEW k \in DOMAIN recs, NEW x \in RecRow,
           x.month = recs[k].month, x.version = recs[k].version, x.current = recs[k].current,
           recs' = [recs EXCEPT ![k] = x],
           monthLocked' \subseteq Months, UNCHANGED monthEnd, Finish(w)
    PROVE  VersionsInv'
<1>1. /\ recs \in Seq(RecRow) /\ Len(recs) \in Nat /\ DOMAIN recs = 1..Len(recs)
  BY RowsOf DEF VersionsInv, TypeOK
<1>2. recs' \in Seq(RecRow) /\ DOMAIN recs' = DOMAIN recs
  BY <1>1, ExceptSeq
<1>3. \A i \in DOMAIN recs : /\ recs'[i].month = recs[i].month
                             /\ recs'[i].version = recs[i].version
                             /\ recs'[i].current = recs[i].current
  BY <1>1
<1>4. VersionsChain' /\ MonthsCurrent'
  BY <1>2, <1>3, ChainKept
<1>5. req' \in [Workers -> Request] /\ HeldRows'
  BY <1>2, <1>3, HeldRowsKept
<1>6. QED
  BY <1>2, <1>4, <1>5 DEF VersionsInv, TypeOK

LEMMA ArchiveAndAddInv ==
    ASSUME VersionsInv, NEW w \in Workers, At(w, "lock", "write"), ArchiveAndAdd(req[w]),
           monthLocked' \subseteq Months, UNCHANGED monthEnd, Finish(w)
    PROVE  VersionsInv'
<1> DEFINE r == req[w]
           m == req[w].month
           k == req[w].id
           old == [recs[k] EXCEPT !.current = FALSE, !.locked = TRUE]
           x == [month |-> r.month, version |-> r.cur.version + 1, current |-> TRUE,
                 locked |-> TRUE, stamped |-> TRUE, figure |-> r.figure]
           mid == [recs EXCEPT ![k] = old]
           n == Len(recs) + 1
<1>1. /\ recs \in Seq(RecRow) /\ Len(recs) \in Nat /\ DOMAIN recs = 1..Len(recs)
      /\ \A i \in DOMAIN recs : recs[i] \in RecRow /\ recs[i].version \in Nat
                                /\ recs[i].current \in BOOLEAN
  BY RowsOf DEF VersionsInv, TypeOK
<1>2. /\ m \in Months /\ k \in DOMAIN recs /\ recs[k].month = m
      /\ r \in LockHeld /\ r.cur.version = recs[k].version
  BY HeldOf DEF At
<1>3. Current(m) \subseteq {k} /\ recs' = Append(mid, x)
  <2>1. mid = [recs EXCEPT ![k].current = FALSE, ![k].locked = TRUE]
    BY <1>1, <1>2 DEF RecRow
  <2>2. QED
    BY <2>1 DEF ArchiveAndAdd
<1>4. old \in RecRow /\ old.month = m /\ old.version = recs[k].version /\ old.current = FALSE
  BY <1>1, <1>2 DEF RecRow
<1>5. x \in RecRow /\ x.month = m /\ x.version = recs[k].version + 1 /\ x.current = TRUE
  BY <1>1, <1>2, SMTT(30) DEF RecRow, LockHeld
<1> HIDE DEF x, old
<1>6. mid \in Seq(RecRow) /\ Len(mid) = Len(recs)
      /\ \A i \in 1..Len(recs) : mid[i] = IF i = k THEN old ELSE recs[i]
  BY <1>1, <1>2, <1>4, ExceptSeq
<1> HIDE DEF mid
<1>7. /\ recs' \in Seq(RecRow)
      /\ DOMAIN recs' = 1..n
      /\ recs'[n] = x
      /\ \A i \in DOMAIN recs : recs'[i] = IF i = k THEN old ELSE recs[i]
  BY <1>1, <1>3, <1>5, <1>6
<1>8. /\ \A i \in DOMAIN recs : recs[i].month = m =>
            recs[i].version <= recs[k].version /\ (recs[i].current => i = k)
  BY <1>2, <1>3, CurrentIsLatest
<1>9. /\ \A i \in DOMAIN recs :
            /\ recs'[i].month = recs[i].month
            /\ recs'[i].version = recs[i].version
            /\ recs'[i].current = (recs[i].current /\ recs[i].month # m)
      /\ DOMAIN recs \subseteq DOMAIN recs'
  <2>1. DOMAIN recs \subseteq DOMAIN recs'
    BY <1>1, <1>7
  <2>2. SUFFICES ASSUME NEW i \in DOMAIN recs
                 PROVE  /\ recs'[i].month = recs[i].month
                        /\ recs'[i].version = recs[i].version
                        /\ recs'[i].current = (recs[i].current /\ recs[i].month # m)
    BY <2>1
  <2>3. CASE i = k
    BY <1>2, <1>4, <1>7, <2>3
  <2>4. CASE i # k
    <3>1. recs'[i] = recs[i]
      BY <1>7, <2>4
    <3>2. recs[i].current => recs[i].month # m
      BY <1>8, <2>4
    <3>3. recs[i].current \in BOOLEAN
      BY <1>1
    <3>4. QED
      BY <3>1, <3>2, <3>3
  <2>5. QED
    BY <2>3, <2>4
<1>10. /\ n = Len(recs) + 1
       /\ DOMAIN recs' = 1..n
       /\ recs'[n].month = m
       /\ recs'[n].current = TRUE
       /\ recs'[n].version \in Nat
       /\ \A i \in DOMAIN recs : recs[i].month = m => recs[i].version < recs'[n].version
       /\ recs'[n].version # 1 =>
             \E i \in DOMAIN recs : recs[i].month = m
                                    /\ recs[i].version = recs'[n].version - 1
  <2>1. recs[k].version \in Nat /\ k \in DOMAIN recs /\ recs[k].month = m
    BY <1>1, <1>2
  <2>2. recs'[n].month = m /\ recs'[n].current = TRUE /\ recs'[n].version = recs[k].version + 1
    BY <1>5, <1>7
  <2>3. \A i \in DOMAIN recs : recs[i].month = m => recs[i].version < recs'[n].version
    BY <1>1, <1>8, <2>1, <2>2
  <2>4. recs[k].version = recs'[n].version - 1
    BY <2>1, <2>2
  <2>5. DOMAIN recs' = 1..n
    BY <1>7
  <2>6. recs'[n].version \in Nat
    BY <2>1, <2>2
  <2>7. \E i \in DOMAIN recs : recs[i].month = m /\ recs[i].version = recs'[n].version - 1
    BY <2>1, <2>4
  <2>8. n = Len(recs) + 1
    OBVIOUS
  <2> HIDE DEF n, m
  <2>9. QED
    BY <2>2, <2>3, <2>5, <2>6, <2>7, <2>8
<1>11. req' \in [Workers -> Request] /\ HeldRows'
  BY <1>9, HeldRowsKept
<1>12. m \in Months
  BY <1>2
<1> HIDE DEF n, m
<1>13. VersionsChain' /\ MonthsCurrent'
  BY <1>9, <1>10, <1>12, ChainGrows
<1>14. QED
  BY <1>7, <1>11, <1>13 DEF VersionsInv, TypeOK

LEMMA LockInv ==
    ASSUME VersionsInv, NEW w \in Workers, Lock(w)
    PROVE  VersionsInv'
<1>0. /\ req \in [Workers -> Request] /\ req[w] \in Request
      /\ monthEnd \in [Months -> 0..MaxFigure] /\ monthLocked \subseteq Months
      /\ recs \in Seq(RecRow)
      /\ \A i \in DOMAIN recs : recs[i] \in RecRow
  BY DEF VersionsInv, TypeOK
<1>1. CASE LockBegin(w)
  <2>1. PICK k \in Months :
           /\ UNCHANGED tables
           /\ req' = [req EXCEPT ![w] = [op |-> "lock", at |-> "cash", month |-> k,
                                         figure |-> monthEnd[k]]]
    BY <1>1 DEF LockBegin
  <2>2. monthEnd[k] \in Int
    BY <1>0, BoundsAssumption
  <2> DEFINE r == [op |-> "lock", at |-> "cash", month |-> k, figure |-> monthEnd[k]]
  <2>3. r \in Request /\ r.at \notin {"state", "write"}
    BY <2>2 DEF Request, LockReq
  <2> HIDE DEF r
  <2>4. QED
    BY <2>1, <2>3, MoveOn DEF r
<1>2. ASSUME At(w, "lock", "cash") \/ At(w, "lock", "bank"),
             NEW ok, NEW step \in {"bank", "current"}, Proceed(w, ok, step)
      PROVE  VersionsInv'
  <2>1. req[w] \in LockReq
    BY <1>0, <1>2 DEF At, Request, NoReq, RecordReq, LockHeld, UnlockReq, UnlockHeld, BooksReq
  <2> DEFINE s == [req[w] EXCEPT !.at = step]
             r == IF ok THEN s ELSE NoReq
  <2>2. s \in LockReq /\ s.at \notin {"state", "write"}
    BY <2>1, <1>2 DEF LockReq
  <2>3. r \in Request /\ (r.op \in {"lock", "unlock"} => r.at \notin {"state", "write"})
    BY <2>2 DEF Request, NoReq
  <2>4. UNCHANGED tables /\ req' = [req EXCEPT ![w] = r]
    BY <1>2 DEF Proceed
  <2> HIDE DEF r
  <2>5. QED
    BY <2>3, <2>4, MoveOn
<1>3. CASE LockCash(w)
  BY <1>2, <1>3 DEF LockCash
<1>4. CASE LockBank(w)
  BY <1>2, <1>4 DEF LockBank
<1>5. CASE LockCurrent(w)
  <2>1. CASE Finish(w)
    BY <1>5, <2>1, RefuseInv DEF LockCurrent, Refuse
  <2>2. CASE ~Finish(w)
    <3>1. PICK i \in Current(req[w].month) :
             req' = [req EXCEPT ![w] = [op |-> "lock", at |-> "state", month |-> req[w].month,
                                        figure |-> req[w].figure, id |-> i, cur |-> recs[i]]]
      BY <1>5, <2>2 DEF LockCurrent
    <3>2. req[w] \in LockReq
      BY <1>0, <1>5 DEF LockCurrent, At, Request, NoReq, RecordReq, LockHeld, UnlockReq,
                        UnlockHeld, BooksReq
    <3> DEFINE r == [op |-> "lock", at |-> "state", month |-> req[w].month,
                     figure |-> req[w].figure, id |-> i, cur |-> recs[i]]
    <3>3. i \in DOMAIN recs /\ recs[i].month = req[w].month /\ i \in Nat
      BY <1>0, RowsOf DEF Current
    <3>4. r \in LockHeld
      BY <1>0, <3>2, <3>3 DEF LockReq, LockHeld
    <3>5. /\ r \in Request
          /\ r.id \in DOMAIN recs /\ recs[r.id].month = r.month
          /\ r.cur.version = recs[r.id].version
      BY <3>3, <3>4 DEF Request
    <3>6. UNCHANGED tables /\ req' = [req EXCEPT ![w] = r]
      BY <1>5, <3>1 DEF LockCurrent
    <3> HIDE DEF r
    <3>7. QED
      BY <3>5, <3>6, RequestOnly
  <2>3. QED
    BY <2>1, <2>2
<1>6. CASE LockState(w)
  <2>1. At(w, "lock", "state")
    BY <1>6 DEF LockState
  <2>2. PICK ok \in BOOLEAN : UNCHANGED tables /\
           req' = [req EXCEPT ![w] = IF ok THEN [req[w] EXCEPT !.at = "write"] ELSE NoReq]
    BY <1>6 DEF LockState, Proceed
  <2>3. /\ req[w] \in LockHeld
        /\ req[w].id \in DOMAIN recs /\ recs[req[w].id].month = req[w].month
        /\ req[w].cur.version = recs[req[w].id].version
    BY <2>1, HeldOf DEF At
  <2> DEFINE s == [req[w] EXCEPT !.at = "write"]
  <2>4. /\ s \in LockHeld /\ s.id = req[w].id /\ s.month = req[w].month /\ s.cur = req[w].cur
    BY <2>3 DEF LockHeld
  <2> HIDE DEF s
  <2>5. CASE ok
    <3>1. s \in Request
      BY <2>4 DEF Request
    <3>2. req' = [req EXCEPT ![w] = s]
      BY <2>2, <2>5 DEF s
    <3>3. QED
      BY <2>2, <2>3, <2>4, <3>1, <3>2, RequestOnly
  <2>6. CASE ~ok
    BY <2>2, <2>6, RefuseInv DEF Refuse, Finish
  <2>7. QED
    BY <2>5, <2>6
<1>7. CASE LockWrite(w)
  <2>1. /\ At(w, "lock", "write") /\ Finish(w) /\ UNCHANGED monthEnd
        /\ monthLocked' = monthLocked \cup {req[w].month}
        /\ ArchiveAndAdd(req[w]) \/ LockInPlace(req[w])
    BY <1>7 DEF LockWrite
  <2>2. /\ req[w] \in LockHeld /\ req[w].id \in DOMAIN recs
        /\ req[w].month \in Months
    BY <2>1, HeldOf DEF At
  <2>3. monthLocked' \subseteq Months
    BY <1>0, <2>1, <2>2
  <2>4. CASE ArchiveAndAdd(req[w])
    BY <2>1, <2>3, <2>4, ArchiveAndAddInv
  <2>5. CASE LockInPlace(req[w])
    <3> DEFINE k == req[w].id
               fig == IF Relock(req[w].cur) THEN recs[k].figure ELSE req[w].figure
               x == [recs[k] EXCEPT !.locked = TRUE, !.stamped = TRUE, !.figure = fig]
    <3>1. recs[k] \in RecRow
      BY <1>0, <2>2
    <3>2. fig \in Int
      BY <3>1, <2>2 DEF RecRow, LockHeld
    <3>3. /\ x \in RecRow /\ x.month = recs[k].month
          /\ x.version = recs[k].version /\ x.current = recs[k].current
      <4> HIDE DEF fig
      <4>1. QED
        BY <3>1, <3>2 DEF RecRow
    <3>4. recs' = [recs EXCEPT ![k] = x]
      BY <1>0, <2>2, <2>5, <3>1 DEF LockInPlace, RecRow
    <3> HIDE DEF x
    <3>5. QED
      BY <2>1, <2>2, <2>3, <3>3, <3>4, RowTouched
  <2>6. QED
    BY <2>1, <2>4, <2>5
<1>8. CASE LockRefused(w)
  BY <1>8, RefuseInv DEF LockRefused
<1>9. QED
  BY <1>1, <1>3, <1>4, <1>5, <1>6, <1>7, <1>8 DEF Lock

LEMMA UnlockInv ==
    ASSUME VersionsInv, NEW w \in Workers, Unlock(w)
    PROVE  VersionsInv'
<1>0. /\ req \in [Workers -> Request] /\ req[w] \in Request
      /\ monthLocked \subseteq Months
      /\ recs \in Seq(RecRow)
      /\ \A i \in DOMAIN recs : recs[i] \in RecRow
  BY DEF VersionsInv, TypeOK
<1>1. CASE UnlockBegin(w)
  <2>1. PICK m \in monthLocked :
           /\ UNCHANGED tables
           /\ req' = [req EXCEPT ![w] = [op |-> "unlock", at |-> "current", month |-> m]]
    BY <1>1 DEF UnlockBegin
  <2> DEFINE r == [op |-> "unlock", at |-> "current", month |-> m]
  <2>2. r \in Request /\ r.at \notin {"state", "write"}
    BY <1>0 DEF Request, UnlockReq
  <2> HIDE DEF r
  <2>3. QED
    BY <2>1, <2>2, MoveOn DEF r
<1>2. CASE UnlockCurrent(w)
  <2>1. CASE Finish(w)
    BY <1>2, <2>1, RefuseInv DEF UnlockCurrent, Refuse
  <2>2. CASE ~Finish(w)
    <3>1. PICK i \in Current(req[w].month) :
             req' = [req EXCEPT ![w] = [op |-> "unlock", at |-> "write",
                                        month |-> req[w].month, id |-> i]]
      BY <1>2, <2>2 DEF UnlockCurrent
    <3>2. i \in DOMAIN recs /\ recs[i].month = req[w].month /\ i \in Nat
      BY <1>0, RowsOf DEF Current
    <3>3. req[w].month \in Months
      BY <1>0, <3>2, RowsOf
    <3> DEFINE r == [op |-> "unlock", at |-> "write", month |-> req[w].month, id |-> i]
    <3>4. /\ r \in Request /\ r.op = "unlock"
          /\ r.id \in DOMAIN recs /\ recs[r.id].month = r.month
      BY <3>2, <3>3 DEF Request, UnlockHeld
    <3>5. UNCHANGED tables /\ req' = [req EXCEPT ![w] = r]
      BY <1>2, <3>1 DEF UnlockCurrent
    <3> HIDE DEF r
    <3>6. QED
      BY <3>4, <3>5, RequestOnly
  <2>3. QED
    BY <2>1, <2>2
<1>3. CASE UnlockWrite(w)
  <2> DEFINE k == req[w].id
             x == [recs[k] EXCEPT !.locked = FALSE]
  <2>1. /\ At(w, "unlock", "write") /\ Finish(w) /\ UNCHANGED monthEnd
        /\ monthLocked' = monthLocked \ {req[w].month}
        /\ recs' = [recs EXCEPT ![req[w].id].locked = FALSE]
    BY <1>3 DEF UnlockWrite
  <2>2. k \in DOMAIN recs
    BY <2>1, HeldOf DEF At
  <2>3. recs[k] \in RecRow
    BY <1>0, <2>2
  <2>4. /\ x \in RecRow /\ x.month = recs[k].month
        /\ x.version = recs[k].version /\ x.current = recs[k].current
    BY <2>3 DEF RecRow
  <2>5. recs' = [recs EXCEPT ![k] = x]
    BY <2>1
  <2>6. monthLocked' \subseteq Months
    BY <1>0, <2>1
  <2> HIDE DEF x
  <2>7. QED
    BY <2>1, <2>2, <2>4, <2>5, <2>6, RowTouched
<1>4. QED
  BY <1>1, <1>2, <1>3 DEF Unlock

LEMMA BooksStepInv ==
    ASSUME VersionsInv, NEW w \in Workers, Books(w)
    PROVE  VersionsInv'
<1>1. CASE BooksBegin(w)
  <2>1. PICK k \in Months :
           /\ UNCHANGED tables
           /\ req' = [req EXCEPT ![w] = [op |-> "books", at |-> "write", month |-> k]]
    BY <1>1 DEF BooksBegin
  <2> DEFINE r == [op |-> "books", at |-> "write", month |-> k]
  <2>2. r \in Request /\ r.op \notin {"lock", "unlock"}
    BY DEF Request, BooksReq
  <2> HIDE DEF r
  <2>3. QED
    BY <2>1, <2>2, MoveOn DEF r
<1>2. CASE BooksWrite(w)
  <2>1. /\ recs' = recs /\ monthLocked' = monthLocked /\ Finish(w)
    BY <1>2 DEF BooksWrite
  <2>2. monthEnd' \in [Months -> 0..MaxFigure]
    BY <1>2 DEF BooksWrite
  <2>3. VersionsChain' /\ MonthsCurrent'
    BY <2>1, ChainKept
  <2>4. req' \in [Workers -> Request] /\ HeldRows'
    BY <2>1, HeldRowsKept
  <2>5. QED
    BY <2>1, <2>2, <2>3, <2>4 DEF VersionsInv, TypeOK
<1>3. QED
  BY <1>1, <1>2 DEF Books

\* The migration finds the chain in order and changes only locks: the highest
\* version of a month is the current one already.
LEMMA MigrateInv ==
    ASSUME VersionsInv, Migrate
    PROVE  VersionsInv'
<1>1. /\ recs \in Seq(RecRow) /\ Len(recs) \in Nat /\ DOMAIN recs = 1..Len(recs)
      /\ \A i \in DOMAIN recs : /\ recs[i] \in RecRow /\ i \in Nat
                                /\ recs[i].version \in Nat /\ recs[i].current \in BOOLEAN
  BY RowsOf DEF VersionsInv, TypeOK
<1>2. ASSUME NEW i \in DOMAIN recs
      PROVE  Highest(i) <=> recs[i].current
  <2>1. \A j \in SameMonth(i) : j \in DOMAIN recs /\ recs[j].month = recs[i].month
                                /\ i \in SameMonth(j)
    BY DEF SameMonth
  <2>2. recs[i].current <=> \A j \in SameMonth(i) : j <= i
    BY DEF VersionsInv, VersionsChain
  <2>3. \A j \in SameMonth(i) : /\ j < i => recs[j].version < recs[i].version
                                /\ i < j => recs[i].version < recs[j].version
    BY <2>1 DEF VersionsInv, VersionsChain
  <2>4. Highest(i) <=> \A j \in SameMonth(i) : recs[j].version <= recs[i].version
    BY DEF Highest, SameMonth
  <2>5. QED
    BY <1>1, <2>1, <2>2, <2>3, <2>4
<1> DEFINE Row(i) == [recs[i] EXCEPT !.current = Highest(i),
                        !.locked = @ \/ ~Highest(i) \/ recs[i].month \in monthLocked]
<1>3. recs' = [i \in DOMAIN recs |-> Row(i)]
  BY DEF Migrate
<1>4. ASSUME NEW i \in DOMAIN recs
      PROVE  /\ Row(i) \in RecRow
             /\ Row(i).month = recs[i].month
             /\ Row(i).version = recs[i].version
             /\ Row(i).current = recs[i].current
  <2>1. recs[i] \in RecRow /\ recs[i].current \in BOOLEAN
    BY <1>1
  <2> DEFINE l == recs[i].locked \/ ~Highest(i) \/ recs[i].month \in monthLocked
  <2>2. Highest(i) = recs[i].current
    BY <1>2, <2>1 DEF Highest
  <2>3. Row(i) = [recs[i] EXCEPT !.current = recs[i].current, !.locked = l]
    BY <2>1, <2>2 DEF RecRow
  <2>4. l \in BOOLEAN
    OBVIOUS
  <2> HIDE DEF l, Row
  <2>5. QED
    BY <2>1, <2>3, <2>4 DEF RecRow
<1> HIDE DEF Row
<1>5. recs' \in Seq(RecRow) /\ DOMAIN recs' = DOMAIN recs
  BY <1>1, <1>3, <1>4
<1>6. \A i \in DOMAIN recs : /\ recs'[i].month = recs[i].month
                             /\ recs'[i].version = recs[i].version
                             /\ recs'[i].current = recs[i].current
  BY <1>3, <1>4
<1>7. VersionsChain' /\ MonthsCurrent'
  BY <1>5, <1>6, ChainKept
<1>8. monthLocked' = monthLocked /\ monthEnd' = monthEnd /\ req' = req
  BY DEF Migrate
<1>9. HeldRows'
  BY <1>5, <1>6, <1>8 DEF VersionsInv, HeldRows
<1>10. QED
  BY <1>5, <1>7, <1>8, <1>9 DEF VersionsInv, TypeOK

LEMMA InitInv == Init => VersionsInv
<1> SUFFICES ASSUME Init PROVE VersionsInv
  OBVIOUS
<1>1. recs \in Seq(RecRow) /\ DOMAIN recs = {}
  BY DEF Init
<1>2. TypeOK
  BY <1>1, BoundsAssumption DEF Init, TypeOK, Request
<1>3. VersionsChain /\ MonthsCurrent
  BY <1>1 DEF VersionsChain, MonthsCurrent
<1>4. HeldRows
  BY DEF Init, HeldRows, NoReq
<1>5. QED
  BY <1>2, <1>3, <1>4 DEF VersionsInv

LEMMA StepInv == VersionsInv /\ [Next]_vars => VersionsInv'
<1> SUFFICES ASSUME VersionsInv, [Next]_vars PROVE VersionsInv'
  OBVIOUS
<1>1. ASSUME NEW w \in Workers, Record(w) \/ Lock(w) \/ Unlock(w) \/ Books(w) \/ Abort(w)
      PROVE  VersionsInv'
  BY <1>1, RecordInv, LockInv, UnlockInv, BooksStepInv, RefuseInv DEF Abort
<1>2. CASE UNCHANGED vars
  <2>1. recs' = recs /\ monthLocked' = monthLocked /\ monthEnd' = monthEnd /\ req' = req
    BY <1>2 DEF vars
  <2>2. VersionsChain' /\ MonthsCurrent'
    BY <2>1, ChainKept
  <2>3. QED
    BY <2>1, <2>2 DEF VersionsInv, TypeOK, HeldRows
<1>3. QED
  BY <1>1, <1>2, MigrateInv DEF Next, Step

-----------------------------------------------------------------------------
(* The theorems.                                                            *)

\* The versions of every month form one chain, with the invariant that makes
\* the claim inductive: whatever workers lock, unlock and restart.
THEOREM VersionsInvariant == Spec => []VersionsInv
<1>1. Init => VersionsInv
  BY InitInv
<1>2. VersionsInv /\ [Next]_vars => VersionsInv'
  BY StepInv
<1>3. QED
  BY <1>1, <1>2, PTL DEF Spec

\* The history of a month never forks: its versions rise by one from 1 in the
\* order written, and exactly the last is current, for any number of workers.
THEOREM OneHistory == Spec => []VersionsChain
<1>1. VersionsInv => VersionsChain
  BY DEF VersionsInv
<1>2. QED
  BY <1>1, VersionsInvariant, PTL

\* The tables and the requests under way keep to their types.
THEOREM TypeCorrect == Spec => []TypeOK
<1>1. VersionsInv => TypeOK
  BY DEF VersionsInv
<1>2. QED
  BY <1>1, VersionsInvariant, PTL

-----------------------------------------------------------------------------
(* Requests served one at a time.                                           *)

\* Only a first version has never been locked, and a locked month has a
\* reconciliation.
FirstUnstamped == \A i \in DOMAIN recs : ~recs[i].stamped => recs[i].version = 1

LockedRecorded == \A m \in monthLocked : Current(m) # {}

RecordsInv == LockAgreement /\ VersionsDiffer /\ FirstUnstamped /\ LockedRecorded

\* What a request has read is still so: the month's live figure, its current
\* row, and that the row was not locked.
Fresh(r) ==
    /\ r.op = "lock" => r.figure = monthEnd[r.month]
    /\ r.op = "lock" /\ r.at \in {"state", "write"} => r.id \in Current(r.month) /\ r.cur = recs[r.id]
    /\ r.op = "lock" /\ r.at = "write" => ~(r.month \in monthLocked /\ r.cur.locked)
    /\ r.op = "unlock" /\ r.at = "write" => r.id \in Current(r.month)

\* A step of a request that keeps all of this, and what it may change.
Kept(w) == RecordsInv' /\ Fresh(req[w])' /\ SnapshotsStand /\ LockedAtLive

LEMMA FreshNone ==
  ASSUME VersionsInv, NEW w \in Workers, Finish(w)
  PROVE  Fresh(req[w])'
<1>1. req'[w] = NoReq
  BY DEF VersionsInv, TypeOK, Finish
<1> QED
  BY <1>1 DEF Fresh, NoReq

LEMMA QuietRecords ==
  ASSUME RecordsInv, UNCHANGED <<recs, monthLocked>>
  PROVE  RecordsInv' /\ SnapshotsStand /\ LockedAtLive
<1>1. LockAgreement' /\ VersionsDiffer' /\ FirstUnstamped'
  BY DEF RecordsInv, LockAgreement, VersionsDiffer, FirstUnstamped
<1>2. LockedRecorded'
  BY DEF RecordsInv, LockedRecorded, Current
<1>3. SnapshotsStand /\ LockedAtLive
  BY DEF SnapshotsStand, LockedAtLive
<1> QED
  BY <1>1, <1>2, <1>3 DEF RecordsInv

\* A request that moves on, its readings in order.
LEMMA QuietKept ==
  ASSUME VersionsInv, RecordsInv, NEW w \in Workers, UNCHANGED tables,
         NEW r, req' = [req EXCEPT ![w] = r], Fresh(r)
  PROVE  Kept(w)
<1>1. UNCHANGED <<recs, monthLocked, monthEnd>>
  BY DEF tables
<1>2. req'[w] = r
  BY DEF VersionsInv, TypeOK
<1>3. Fresh(req[w])'
  <2>1. \A m : Current(m)' = Current(m)
    BY <1>1 DEF Current
  <2> QED
    BY <1>1, <1>2, <2>1 DEF Fresh
<1> QED
  BY <1>1, <1>3, QuietRecords DEF Kept

LEMMA RefusedKept ==
  ASSUME VersionsInv, RecordsInv, NEW w \in Workers, Refuse(w)
  PROVE  Kept(w)
<1>1. Fresh(NoReq)
  BY DEF Fresh, NoReq
<1> QED
  BY <1>1, QuietKept DEF Refuse, Finish

\* A check passes the request on to a step at which more is known of it.
LEMMA ProceedKept ==
  ASSUME VersionsInv, RecordsInv, NEW w \in Workers, Fresh(req[w]), NEW ok, NEW step,
         Proceed(w, ok, step), NEW r, r = [req[w] EXCEPT !.at = step], ok => Fresh(r)
  PROVE  Kept(w)
<1>1. CASE ok
  BY <1>1, QuietKept DEF Proceed
<1>2. CASE ~ok
  BY <1>2, RefusedKept DEF Proceed, Refuse, Finish
<1> QED
  BY <1>1, <1>2

LEMMA RequestOf ==
  ASSUME VersionsInv, NEW w \in Workers
  PROVE  /\ req[w].op = "record" => req[w] \in RecordReq
         /\ req[w].op = "lock" /\ req[w].at \in {"cash", "bank", "current"} => req[w] \in LockReq
         /\ req[w].op = "lock" /\ req[w].at \in {"state", "write"} => req[w] \in LockHeld
<1>1. req[w] \in Request
  BY DEF VersionsInv, TypeOK
<1> QED
  BY <1>1 DEF Request, NoReq, RecordReq, LockReq, LockHeld, UnlockReq, UnlockHeld, BooksReq

\* Rows of a month: versions are numbers from 1, each borne by one row.
LEMMA VersionsOf ==
  ASSUME VersionsInv
  PROVE  /\ \A i \in DOMAIN recs : recs[i].version \in Nat /\ recs[i].version >= 1
         /\ \A i, j \in DOMAIN recs :
               recs[i].month = recs[j].month /\ recs[i].version = recs[j].version => i = j
         /\ \A i, j \in DOMAIN recs :
               recs[i].month = recs[j].month /\ recs[i].current =>
                   recs[j].version <= recs[i].version
         /\ \A i, j \in DOMAIN recs :
               recs[i].month = recs[j].month /\ recs[i].current /\ recs[j].current => i = j
<1>1. \A i \in DOMAIN recs : i \in Nat /\ recs[i].version \in Nat
  BY RowsOf DEF VersionsInv, TypeOK
<1>2. ASSUME NEW i \in DOMAIN recs, NEW j \in DOMAIN recs, recs[i].month = recs[j].month
      PROVE  /\ i < j => recs[i].version < recs[j].version
             /\ recs[i].current => j <= i
  BY <1>2 DEF VersionsInv, VersionsChain, SameMonth
<1>3. ASSUME NEW i \in DOMAIN recs PROVE recs[i].version >= 1
  <2>1. recs[i].version # 1 => \E j \in DOMAIN recs : recs[j].version = recs[i].version - 1
    BY DEF VersionsInv, VersionsChain, SameMonth
  <2> QED
    BY <1>1, <2>1
<1>4. \A i, j \in DOMAIN recs :
         recs[i].month = recs[j].month /\ recs[i].version = recs[j].version => i = j
  BY <1>1, <1>2
<1>5. \A i, j \in DOMAIN recs :
         recs[i].month = recs[j].month /\ recs[i].current => recs[j].version <= recs[i].version
  BY <1>1, <1>2
<1>6. \A i, j \in DOMAIN recs :
         recs[i].month = recs[j].month /\ recs[i].current /\ recs[j].current => i = j
  BY <1>1, <1>2
<1> QED
  BY <1>1, <1>3, <1>4, <1>5, <1>6

-----------------------------------------------------------------------------
(* The requests, one at a time.                                             *)

LEMMA RecordKept ==
  ASSUME VersionsInv, RecordsInv, NEW w \in Workers, Fresh(req[w]), Record(w)
  PROVE  Kept(w)
<1>1. CASE RecordBegin(w)
  <2>1. PICK k \in Months :
           req' = [req EXCEPT ![w] = [op |-> "record", at |-> "cash", month |-> k,
                                      figure |-> monthEnd[k]]]
    BY <1>1 DEF RecordBegin
  <2> DEFINE r == [op |-> "record", at |-> "cash", month |-> k, figure |-> monthEnd[k]]
  <2>2. Fresh(r)
    BY DEF Fresh
  <2> HIDE DEF r
  <2> QED
    BY <1>1, <2>1, <2>2, QuietKept DEF RecordBegin, r
<1>2. ASSUME NEW ok, NEW step, Proceed(w, ok, step), req[w].op = "record" PROVE Kept(w)
  <2> DEFINE r == [req[w] EXCEPT !.at = step]
  <2>1. r.op = "record"
    BY <1>2, RequestOf DEF RecordReq
  <2>2. Fresh(r)
    BY <2>1 DEF Fresh
  <2> HIDE DEF r
  <2> QED
    BY <1>2, <2>2, ProceedKept DEF r
<1>3. CASE RecordCash(w) \/ RecordCurrent(w)
  BY <1>2, <1>3 DEF RecordCash, RecordCurrent, At
<1>4. CASE RecordWrite(w) /\ ~Refuse(w)
  <2> SUFFICES ASSUME NEW m, m = req[w].month, NEW n, n = Len(recs) + 1 PROVE Kept(w)
    OBVIOUS
  <2> DEFINE x == [month |-> m, version |-> 1, current |-> TRUE, locked |-> FALSE,
                   stamped |-> FALSE, figure |-> req[w].figure]
  <2>1. /\ Current(m) = {} /\ Finish(w) /\ UNCHANGED <<monthLocked, monthEnd>>
        /\ recs' = Append(recs, x)
    BY <1>4 DEF RecordWrite
  <2>2. /\ x.month = m /\ x.version = 1 /\ x.current = TRUE /\ x.locked = FALSE
    OBVIOUS
  <2> HIDE DEF x
  <2>3. /\ DOMAIN recs = 1..Len(recs) /\ Len(recs) \in Nat
        /\ DOMAIN recs' = DOMAIN recs \cup {n} /\ n \notin DOMAIN recs
        /\ recs'[n] = x /\ \A i \in DOMAIN recs : recs'[i] = recs[i]
    BY <2>1, RowsOf DEF VersionsInv, TypeOK
  <2>4. \A i \in DOMAIN recs : recs[i].month # m
    <3> SUFFICES ASSUME NEW i \in DOMAIN recs, recs[i].month = m PROVE FALSE
      OBVIOUS
    <3>1. PICK j \in SameMonth(i) : recs[j].current
      BY DEF VersionsInv, MonthsCurrent
    <3>2. j \in Current(m)
      BY <3>1 DEF Current, SameMonth
    <3> QED
      BY <2>1, <3>2
  <2>5. m \notin monthLocked
    BY <2>1 DEF RecordsInv, LockedRecorded
  <2>6. LockAgreement'
    BY <2>1, <2>2, <2>3, <2>5 DEF RecordsInv, LockAgreement
  <2>7. VersionsDiffer'
    <3> SUFFICES ASSUME NEW i \in DOMAIN recs', NEW j \in DOMAIN recs',
                        recs'[i].month = recs'[j].month, recs'[i].version = recs'[j].version + 1
                 PROVE  recs'[i].figure # recs'[j].figure
      BY DEF VersionsDiffer
    <3>1. i # n \/ j # n
      BY <2>2, <2>3
    <3>2. i \in DOMAIN recs /\ j \in DOMAIN recs
      BY <2>2, <2>3, <2>4, <3>1
    <3> QED
      BY <2>3, <3>2 DEF RecordsInv, VersionsDiffer
  <2>8. FirstUnstamped'
    BY <2>2, <2>3 DEF RecordsInv, FirstUnstamped
  <2>9. LockedRecorded'
    BY <2>1, <2>3 DEF RecordsInv, LockedRecorded, Current
  <2>10. SnapshotsStand /\ LockedAtLive
    BY <2>1, <2>3 DEF SnapshotsStand, LockedAtLive
  <2> QED
    BY <2>1, <2>6, <2>7, <2>8, <2>9, <2>10, FreshNone DEF Kept, RecordsInv
<1>5. CASE Refuse(w)
  BY <1>5, RefusedKept
<1> QED
  BY <1>1, <1>3, <1>4, <1>5 DEF Record

\* The row that a lock names, unlocked in an open month, and its figure.
LEMMA LockReads ==
  ASSUME VersionsInv, RecordsInv, NEW w \in Workers, Fresh(req[w]), At(w, "lock", "write"),
         NEW k, k = req[w].id, NEW m, m = req[w].month
  PROVE  /\ k \in DOMAIN recs /\ recs[k].month = m /\ recs[k].current
         /\ req[w].cur = recs[k] /\ req[w].figure = monthEnd[m]
         /\ ~recs[k].locked /\ m \notin monthLocked /\ m \in Months
         /\ recs[k] \in RecRow
         /\ \A i \in DOMAIN recs : recs[i].month = m /\ recs[i].current => i = k
<1>1. k \in Current(m) /\ req[w].cur = recs[k] /\ req[w].figure = monthEnd[m]
  BY DEF Fresh, At
<1>2. k \in DOMAIN recs /\ recs[k].month = m /\ recs[k].current
  BY <1>1 DEF Current
<1>3. ~(m \in monthLocked /\ recs[k].locked)
  BY <1>1 DEF Fresh, At
<1>4. ~recs[k].locked /\ m \notin monthLocked
  BY <1>2, <1>3 DEF RecordsInv, LockAgreement
<1>5. recs[k] \in RecRow /\ m \in Months
  BY <1>2, RowsOf DEF VersionsInv, TypeOK
<1>6. \A i \in DOMAIN recs : recs[i].month = m /\ recs[i].current => i = k
  BY <1>2, VersionsOf
<1> QED
  BY <1>1, <1>2, <1>4, <1>5, <1>6

LEMMA InPlaceKept ==
  ASSUME VersionsInv, RecordsInv, NEW w \in Workers, Fresh(req[w]), LockWrite(w),
         ~NewVersionDue(req[w])
  PROVE  Kept(w)
<1> SUFFICES ASSUME NEW k, k = req[w].id, NEW m, m = req[w].month, NEW f, f = monthEnd[m]
             PROVE  Kept(w)
  OBVIOUS
<1>1. At(w, "lock", "write") /\ Finish(w) /\ monthLocked' = monthLocked \cup {m}
      /\ UNCHANGED monthEnd /\ LockInPlace(req[w])
  BY DEF LockWrite
<1>2. /\ k \in DOMAIN recs /\ recs[k].month = m /\ recs[k].current
      /\ req[w].cur = recs[k] /\ req[w].figure = f
      /\ ~recs[k].locked /\ m \notin monthLocked
      /\ recs[k] \in RecRow
      /\ \A i \in DOMAIN recs : recs[i].month = m /\ recs[i].current => i = k
  BY <1>1, LockReads
<1> DEFINE g == IF Relock(recs[k]) THEN recs[k].figure ELSE f
           x == [recs[k] EXCEPT !.locked = TRUE, !.stamped = TRUE, !.figure = g]
<1>3. recs' = [recs EXCEPT ![k] = x]
  BY <1>1, <1>2 DEF LockInPlace, RecRow
<1>4. g = f
  BY <1>2 DEF NewVersionDue
<1> HIDE DEF g
<1>5. /\ x.month = m /\ x.version = recs[k].version /\ x.current = TRUE
      /\ x.locked = TRUE /\ x.stamped = TRUE /\ x.figure = g
  BY <1>2 DEF RecRow
<1> HIDE DEF x
<1>6. /\ DOMAIN recs' = DOMAIN recs /\ recs'[k] = x
      /\ \A i \in DOMAIN recs : i # k => recs'[i] = recs[i]
  BY <1>2, <1>3
<1>7. LockAgreement'
  <2> SUFFICES ASSUME NEW i \in DOMAIN recs
               PROVE  recs'[i].locked <=> (~recs'[i].current \/ recs'[i].month \in monthLocked')
    BY <1>6 DEF LockAgreement
  <2>1. CASE i = k
    BY <1>1, <1>5, <1>6, <2>1
  <2>2. CASE i # k
    <3>1. recs'[i] = recs[i]
      BY <1>6, <2>2
    <3>2. recs[i].current => recs[i].month # m
      BY <1>2, <2>2
    <3> QED
      BY <1>1, <3>1, <3>2 DEF RecordsInv, LockAgreement
  <2> QED
    BY <2>1, <2>2
<1>8. VersionsDiffer'
  <2> SUFFICES ASSUME NEW i \in DOMAIN recs, NEW j \in DOMAIN recs,
                      recs'[i].month = recs'[j].month, recs'[i].version = recs'[j].version + 1
               PROVE  recs'[i].figure # recs'[j].figure
    BY <1>6 DEF VersionsDiffer
  <2>1. \A l \in DOMAIN recs : recs'[l].month = recs[l].month /\ recs'[l].version = recs[l].version
    BY <1>2, <1>5, <1>6
  <2>2. recs[i].figure # recs[j].figure /\ recs[i].month = recs[j].month
        /\ recs[i].version = recs[j].version + 1
    BY <2>1 DEF RecordsInv, VersionsDiffer
  <2>3. CASE i # k /\ j # k
    BY <1>6, <2>2, <2>3
  <2>4. CASE j = k
    BY <1>2, <2>2, <2>4, VersionsOf
  <2>5. CASE i = k
    <3>1. recs[k].version # 1
      BY <2>2, <2>5, VersionsOf
    <3>2. recs[k].stamped
      BY <1>2, <3>1 DEF RecordsInv, FirstUnstamped
    <3>3. Relock(recs[k])
      BY <1>2, <3>2 DEF Relock
    <3>4. recs'[k].figure = recs[k].figure
      BY <1>5, <1>6, <3>3 DEF g
    <3> QED
      BY <1>6, <2>2, <2>5, <3>4, VersionsOf
  <2> QED
    BY <2>3, <2>4, <2>5
<1>9. FirstUnstamped'
  BY <1>5, <1>6 DEF RecordsInv, FirstUnstamped
<1>10. LockedRecorded'
  <2>1. \A i \in DOMAIN recs : recs'[i].month = recs[i].month /\ (recs[i].current => recs'[i].current)
    BY <1>2, <1>5, <1>6
  <2>2. \A l : Current(l) \subseteq Current(l)'
    BY <1>6, <2>1 DEF Current
  <2>3. k \in Current(m)
    BY <1>2 DEF Current
  <2> QED
    BY <1>1, <2>2, <2>3 DEF RecordsInv, LockedRecorded
<1>11. SnapshotsStand
  BY <1>2, <1>6 DEF SnapshotsStand
<1>12. LockedAtLive
  BY <1>1, <1>2, <1>4, <1>5, <1>6 DEF LockedAtLive
<1> QED
  BY <1>1, <1>7, <1>8, <1>9, <1>10, <1>11, <1>12, FreshNone DEF Kept, RecordsInv

LEMMA ArchiveKept ==
  ASSUME VersionsInv, RecordsInv, NEW w \in Workers, Fresh(req[w]), LockWrite(w),
         NewVersionDue(req[w])
  PROVE  Kept(w)
<1> SUFFICES ASSUME NEW k, k = req[w].id, NEW m, m = req[w].month, NEW f, f = monthEnd[m],
                    NEW n, n = Len(recs) + 1, NEW v, v = recs[k].version
             PROVE  Kept(w)
  OBVIOUS
<1>1. At(w, "lock", "write") /\ Finish(w) /\ monthLocked' = monthLocked \cup {m}
      /\ UNCHANGED monthEnd /\ ArchiveAndAdd(req[w])
  BY DEF LockWrite
<1>2. /\ k \in DOMAIN recs /\ recs[k].month = m /\ recs[k].current
      /\ req[w].cur = recs[k] /\ req[w].figure = f
      /\ ~recs[k].locked /\ m \notin monthLocked /\ m \in Months
      /\ recs[k] \in RecRow
      /\ \A i \in DOMAIN recs : recs[i].month = m /\ recs[i].current => i = k
  BY <1>1, LockReads
<1>3. recs[k].figure # f
  BY <1>2 DEF NewVersionDue
<1> DEFINE x == [month |-> m, version |-> v + 1, current |-> TRUE,
                 locked |-> TRUE, stamped |-> TRUE, figure |-> f]
           e == [recs[k] EXCEPT !.current = FALSE, !.locked = TRUE]
           t == [recs EXCEPT ![k] = e]
<1>4. recs' = Append(t, x)
  BY <1>1, <1>2 DEF ArchiveAndAdd, RecRow
<1>5. /\ e \in RecRow /\ e.month = m /\ e.version = v /\ e.current = FALSE
      /\ e.locked = TRUE /\ e.stamped = recs[k].stamped /\ e.figure = recs[k].figure
  BY <1>2 DEF RecRow
<1>6. /\ x.month = m /\ x.version = v + 1 /\ x.current = TRUE
      /\ x.locked = TRUE /\ x.stamped = TRUE /\ x.figure = f
  OBVIOUS
<1> HIDE DEF x, e
<1>7. recs \in Seq(RecRow) /\ Len(recs) \in Nat /\ DOMAIN recs = 1..Len(recs) /\ v \in Nat
  BY <1>2, RowsOf DEF VersionsInv, TypeOK
<1>8. /\ t \in Seq(RecRow) /\ Len(t) = Len(recs)
      /\ \A j \in 1..Len(recs) : t[j] = IF j = k THEN e ELSE recs[j]
  BY <1>2, <1>5, <1>7, ExceptSeq
<1> HIDE DEF t
<1>9. /\ DOMAIN recs' = 1..n /\ recs'[n] = x /\ \A i \in DOMAIN recs : recs'[i] = t[i]
  BY <1>4, <1>7, <1>8
<1>10. /\ DOMAIN recs' = DOMAIN recs \cup {n} /\ n \notin DOMAIN recs
       /\ recs'[k] = e /\ \A i \in DOMAIN recs : i # k => recs'[i] = recs[i]
  BY <1>2, <1>7, <1>8, <1>9
<1>11. LockAgreement'
  <2> SUFFICES ASSUME NEW i \in DOMAIN recs'
               PROVE  recs'[i].locked <=> (~recs'[i].current \/ recs'[i].month \in monthLocked')
    BY DEF LockAgreement
  <2>1. CASE i = n
    BY <1>1, <1>6, <1>9, <2>1
  <2>2. CASE i = k
    BY <1>5, <1>10, <2>2
  <2>3. CASE i \in DOMAIN recs /\ i # k
    <3>1. recs'[i] = recs[i]
      BY <1>10, <2>3
    <3>2. recs[i].current => recs[i].month # m
      BY <1>2, <2>3
    <3> QED
      BY <1>1, <2>3, <3>1, <3>2 DEF RecordsInv, LockAgreement
  <2> QED
    BY <1>10, <2>1, <2>2, <2>3
<1>12. VersionsDiffer'
  <2> SUFFICES ASSUME NEW i \in DOMAIN recs', NEW j \in DOMAIN recs',
                      recs'[i].month = recs'[j].month, recs'[i].version = recs'[j].version + 1
               PROVE  recs'[i].figure # recs'[j].figure
    BY DEF VersionsDiffer
  <2>1. \A l \in DOMAIN recs : /\ recs'[l].month = recs[l].month
                               /\ recs'[l].version = recs[l].version
                               /\ recs'[l].figure = recs[l].figure
                               /\ recs[l].version \in Nat
    BY <1>2, <1>5, <1>10, RowsOf DEF VersionsInv, TypeOK
  <2>2. CASE i \in DOMAIN recs /\ j \in DOMAIN recs
    BY <2>1, <2>2 DEF RecordsInv, VersionsDiffer
  <2>3. CASE i = n /\ j \in DOMAIN recs
    <3>1. recs[j].month = m /\ recs[j].version = v
      BY <1>6, <1>7, <1>9, <2>1, <2>3
    <3>2. j = k
      BY <1>2, <2>3, <3>1, VersionsOf
    <3> QED
      BY <1>3, <1>6, <1>9, <2>1, <2>3, <3>2
  <2>4. CASE j = n /\ i \in DOMAIN recs
    <3>1. recs[i].month = m /\ recs[i].version = v + 2
      BY <1>6, <1>7, <1>9, <2>1, <2>4
    <3>2. recs[i].version <= v
      BY <1>2, <2>4, <3>1, VersionsOf
    <3> QED
      BY <1>7, <3>1, <3>2
  <2>5. CASE i = n /\ j = n
    BY <1>6, <1>7, <1>9, <2>5
  <2> QED
    BY <1>10, <2>2, <2>3, <2>4, <2>5
<1>13. FirstUnstamped'
  <2> SUFFICES ASSUME NEW i \in DOMAIN recs', ~recs'[i].stamped PROVE recs'[i].version = 1
    BY DEF FirstUnstamped
  <2>1. i # n
    BY <1>6, <1>9
  <2>2. i \in DOMAIN recs /\ recs'[i].stamped = recs[i].stamped
        /\ recs'[i].version = recs[i].version
    BY <1>2, <1>5, <1>10, <2>1
  <2> QED
    BY <2>2 DEF RecordsInv, FirstUnstamped
<1>14. LockedRecorded'
  <2> SUFFICES ASSUME NEW l \in monthLocked' PROVE Current(l)' # {}
    BY DEF LockedRecorded
  <2>1. CASE l = m
    <3>1. n \in Current(m)'
      BY <1>6, <1>9, <1>10 DEF Current
    <3> QED
      BY <2>1, <3>1
  <2>2. CASE l # m
    <3>1. PICK i \in Current(l) : TRUE
      BY <1>1, <2>2 DEF RecordsInv, LockedRecorded
    <3>2. i \in DOMAIN recs /\ recs[i].month = l /\ recs[i].current /\ i # k
      BY <1>2, <2>2, <3>1 DEF Current
    <3>3. i \in Current(l)'
      BY <1>10, <3>2 DEF Current
    <3> QED
      BY <3>3
  <2> QED
    BY <2>1, <2>2
<1>15. SnapshotsStand
  BY <1>2, <1>5, <1>10 DEF SnapshotsStand
<1>16. LockedAtLive
  <2> SUFFICES ASSUME NEW i \in DOMAIN recs', recs'[i].month = m, recs'[i].current
               PROVE  recs'[i].figure = f
    BY <1>1 DEF LockedAtLive
  <2>1. i = n
    BY <1>2, <1>5, <1>10
  <2> QED
    BY <1>6, <1>9, <2>1
<1> QED
  BY <1>1, <1>11, <1>12, <1>13, <1>14, <1>15, <1>16, FreshNone DEF Kept, RecordsInv

LEMMA LockKept ==
  ASSUME VersionsInv, RecordsInv, NEW w \in Workers, Fresh(req[w]), Lock(w)
  PROVE  Kept(w)
<1>1. CASE LockBegin(w)
  <2>1. PICK k \in Months :
           req' = [req EXCEPT ![w] = [op |-> "lock", at |-> "cash", month |-> k,
                                      figure |-> monthEnd[k]]]
    BY <1>1 DEF LockBegin
  <2> DEFINE r == [op |-> "lock", at |-> "cash", month |-> k, figure |-> monthEnd[k]]
  <2>2. Fresh(r)
    BY DEF Fresh
  <2> HIDE DEF r
  <2> QED
    BY <1>1, <2>1, <2>2, QuietKept DEF LockBegin, r
<1>2. ASSUME NEW ok, NEW step \in {"bank", "current"}, Proceed(w, ok, step), req[w].op = "lock",
             req[w].at \in {"cash", "bank"}
      PROVE  Kept(w)
  <2> DEFINE r == [req[w] EXCEPT !.at = step]
  <2>1. r.op = "lock" /\ r.at = step /\ r.month = req[w].month /\ r.figure = req[w].figure
    BY <1>2, RequestOf DEF LockReq
  <2> HIDE DEF r
  <2>2. Fresh(r)
    BY <1>2, <2>1 DEF Fresh
  <2> QED
    BY <1>2, <2>2, ProceedKept DEF r
<1>3. CASE LockCash(w) \/ LockBank(w)
  BY <1>2, <1>3 DEF LockCash, LockBank, At
<1>4. CASE LockCurrent(w) /\ ~Finish(w)
  <2>1. PICK i \in Current(req[w].month) :
           req' = [req EXCEPT ![w] = [op |-> "lock", at |-> "state", month |-> req[w].month,
                                      figure |-> req[w].figure, id |-> i, cur |-> recs[i]]]
    BY <1>4 DEF LockCurrent
  <2> DEFINE r == [op |-> "lock", at |-> "state", month |-> req[w].month,
                   figure |-> req[w].figure, id |-> i, cur |-> recs[i]]
  <2>2. req[w].figure = monthEnd[req[w].month]
    BY <1>4 DEF LockCurrent, At, Fresh
  <2>3. Fresh(r)
    BY <2>2 DEF Fresh
  <2> HIDE DEF r
  <2> QED
    BY <1>4, <2>1, <2>3, QuietKept DEF LockCurrent, r
<1>5. CASE LockCurrent(w) /\ Finish(w)
  BY <1>5, RefusedKept DEF LockCurrent, Refuse
<1>6. CASE LockState(w)
  <2> DEFINE r == [req[w] EXCEPT !.at = "write"]
             ok == ~(req[w].month \in monthLocked /\ req[w].cur.locked)
  <2>1. req[w].op = "lock" /\ req[w].at = "state" /\ Proceed(w, ok, "write")
    BY <1>6 DEF LockState, At
  <2>2. /\ r.op = "lock" /\ r.at = "write" /\ r.month = req[w].month /\ r.figure = req[w].figure
        /\ r.id = req[w].id /\ r.cur = req[w].cur
    BY <2>1, RequestOf DEF LockHeld
  <2>3. r = [req[w] EXCEPT !.at = "write"]
    OBVIOUS
  <2> HIDE DEF r
  <2>4. ok => Fresh(r)
    BY <2>1, <2>2 DEF Fresh
  <2> HIDE DEF ok
  <2> QED
    BY <2>1, <2>3, <2>4, ProceedKept
<1>7. CASE LockWrite(w)
  BY <1>7, InPlaceKept, ArchiveKept
<1>8. CASE LockRefused(w)
  BY <1>8, RefusedKept DEF LockRefused
<1> QED
  BY <1>1, <1>3, <1>4, <1>5, <1>6, <1>7, <1>8 DEF Lock

LEMMA UnlockKept ==
  ASSUME VersionsInv, RecordsInv, NEW w \in Workers, Fresh(req[w]), Unlock(w)
  PROVE  Kept(w)
<1>1. CASE UnlockBegin(w)
  <2>1. PICK m \in monthLocked :
           req' = [req EXCEPT ![w] = [op |-> "unlock", at |-> "current", month |-> m]]
    BY <1>1 DEF UnlockBegin
  <2> DEFINE r == [op |-> "unlock", at |-> "current", month |-> m]
  <2>2. Fresh(r)
    BY DEF Fresh
  <2> HIDE DEF r
  <2> QED
    BY <1>1, <2>1, <2>2, QuietKept DEF UnlockBegin, r
<1>2. CASE UnlockCurrent(w) /\ ~Finish(w)
  <2>1. PICK i \in Current(req[w].month) :
           req' = [req EXCEPT ![w] = [op |-> "unlock", at |-> "write",
                                      month |-> req[w].month, id |-> i]]
    BY <1>2 DEF UnlockCurrent
  <2> DEFINE r == [op |-> "unlock", at |-> "write", month |-> req[w].month, id |-> i]
  <2>2. Fresh(r)
    BY DEF Fresh
  <2> HIDE DEF r
  <2> QED
    BY <1>2, <2>1, <2>2, QuietKept DEF UnlockCurrent, r
<1>3. CASE UnlockCurrent(w) /\ Finish(w)
  BY <1>3, RefusedKept DEF UnlockCurrent, Refuse
<1>4. CASE UnlockWrite(w)
  <2> SUFFICES ASSUME NEW k, k = req[w].id, NEW m, m = req[w].month PROVE Kept(w)
    OBVIOUS
  <2>1. /\ Finish(w) /\ UNCHANGED monthEnd /\ monthLocked' = monthLocked \ {m}
        /\ recs' = [recs EXCEPT ![k].locked = FALSE]
    BY <1>4 DEF UnlockWrite
  <2>2. k \in Current(m)
    BY <1>4 DEF UnlockWrite, At, Fresh
  <2>3. k \in DOMAIN recs /\ recs[k].month = m /\ recs[k].current
    BY <2>2 DEF Current
  <2>4. \A i \in DOMAIN recs : recs[i].month = m /\ recs[i].current => i = k
    BY <2>3, VersionsOf
  <2> DEFINE x == [recs[k] EXCEPT !.locked = FALSE]
  <2>5. recs' = [recs EXCEPT ![k] = x] /\ recs[k] \in RecRow
    BY <2>1, <2>3, RowsOf DEF VersionsInv, TypeOK
  <2>6. /\ x.month = m /\ x.version = recs[k].version /\ x.current = recs[k].current
        /\ x.locked = FALSE /\ x.stamped = recs[k].stamped /\ x.figure = recs[k].figure
    BY <2>3, <2>5 DEF RecRow
  <2> HIDE DEF x
  <2>7. /\ DOMAIN recs' = DOMAIN recs /\ recs'[k] = x
        /\ \A i \in DOMAIN recs : i # k => recs'[i] = recs[i]
    BY <2>3, <2>5
  <2>8. \A i \in DOMAIN recs : /\ recs'[i].month = recs[i].month
                               /\ recs'[i].version = recs[i].version
                               /\ recs'[i].current = recs[i].current
                               /\ recs'[i].stamped = recs[i].stamped
                               /\ recs'[i].figure = recs[i].figure
    BY <2>3, <2>6, <2>7
  <2>9. LockAgreement'
    <3> SUFFICES ASSUME NEW i \in DOMAIN recs
                 PROVE  recs'[i].locked <=> (~recs'[i].current \/ recs'[i].month \in monthLocked')
      BY <2>7 DEF LockAgreement
    <3>1. CASE i = k
      <4>1. ~recs'[i].locked /\ recs'[i].current /\ recs'[i].month = m
        BY <2>3, <2>6, <2>7, <3>1
      <4> QED
        BY <2>1, <4>1
    <3>2. CASE i # k
      <4>1. recs'[i] = recs[i]
        BY <2>7, <3>2
      <4>2. recs[i].current => recs[i].month # m
        BY <2>4, <3>2
      <4>3. recs[i].locked <=> (~recs[i].current \/ recs[i].month \in monthLocked)
        BY DEF RecordsInv, LockAgreement
      <4>4. recs[i].month # m => (recs[i].month \in monthLocked' <=> recs[i].month \in monthLocked)
        BY <2>1
      <4> QED
        BY <4>1, <4>2, <4>3, <4>4
    <3> QED
      BY <3>1, <3>2
  <2>10. VersionsDiffer' /\ FirstUnstamped' /\ SnapshotsStand
    BY <2>7, <2>8 DEF RecordsInv, VersionsDiffer, FirstUnstamped, SnapshotsStand
  <2>11. LockedRecorded'
    BY <2>1, <2>7, <2>8 DEF RecordsInv, LockedRecorded, Current
  <2>12. LockedAtLive
    BY <2>1 DEF LockedAtLive
  <2> QED
    BY <2>1, <2>9, <2>10, <2>11, <2>12, FreshNone DEF Kept, RecordsInv
<1> QED
  BY <1>1, <1>2, <1>3, <1>4 DEF Unlock

LEMMA BooksKept ==
  ASSUME VersionsInv, RecordsInv, NEW w \in Workers, Books(w)
  PROVE  Kept(w)
<1>1. CASE BooksBegin(w)
  <2>1. PICK k \in Months : req' = [req EXCEPT ![w] = [op |-> "books", at |-> "write", month |-> k]]
    BY <1>1 DEF BooksBegin
  <2> DEFINE r == [op |-> "books", at |-> "write", month |-> k]
  <2>2. Fresh(r)
    BY DEF Fresh
  <2> HIDE DEF r
  <2> QED
    BY <1>1, <2>1, <2>2, QuietKept DEF BooksBegin, r
<1>2. CASE BooksWrite(w)
  BY <1>2, QuietRecords, FreshNone DEF BooksWrite, Kept
<1> QED
  BY <1>1, <1>2 DEF Books

\* A restart finds the tables as they should be and changes nothing.
LEMMA MigrateRests ==
  ASSUME VersionsInv, RecordsInv, Migrate
  PROVE  UNCHANGED vars
<1>1. /\ recs \in Seq(RecRow) /\ Len(recs) \in Nat /\ DOMAIN recs = 1..Len(recs)
      /\ \A i \in DOMAIN recs : /\ recs[i] \in RecRow /\ recs[i].current \in BOOLEAN
                                /\ recs[i].locked \in BOOLEAN
  BY RowsOf DEF VersionsInv, TypeOK, RecRow
<1>2. ASSUME NEW i \in DOMAIN recs PROVE Highest(i) <=> recs[i].current
  <2>1. ASSUME recs[i].current PROVE Highest(i)
    BY <2>1, VersionsOf DEF Highest
  <2>2. ASSUME Highest(i) PROVE recs[i].current
    <3>1. PICK j \in SameMonth(i) : recs[j].current
      BY DEF VersionsInv, MonthsCurrent
    <3>2. j \in DOMAIN recs /\ recs[j].month = recs[i].month
      BY DEF SameMonth
    <3>3. recs[j].version <= recs[i].version /\ recs[i].version <= recs[j].version
      BY <2>2, <3>1, <3>2, VersionsOf DEF Highest
    <3>4. recs[j].version = recs[i].version
      BY <3>2, <3>3, VersionsOf
    <3> QED
      BY <3>1, <3>2, <3>4, VersionsOf
  <2> QED
    BY <2>1, <2>2
<1> DEFINE Row(i) == [recs[i] EXCEPT !.current = Highest(i),
                        !.locked = @ \/ ~Highest(i) \/ recs[i].month \in monthLocked]
<1>3. recs' = [i \in DOMAIN recs |-> Row(i)]
  BY DEF Migrate
<1>4. ASSUME NEW i \in DOMAIN recs PROVE Row(i) = recs[i]
  <2> DEFINE h == Highest(i)
             l == recs[i].locked \/ ~Highest(i) \/ recs[i].month \in monthLocked
  <2>1. h = recs[i].current
    BY <1>1, <1>2 DEF Highest
  <2>2. l = recs[i].locked
    <3>1. recs[i].locked <=> (~recs[i].current \/ recs[i].month \in monthLocked)
      BY DEF RecordsInv, LockAgreement
    <3>2. l <=> recs[i].locked
      BY <1>2, <3>1
    <3> QED
      BY <1>1, <3>2
  <2>3. recs[i] \in RecRow
    BY <1>1
  <2>4. Row(i) = [recs[i] EXCEPT !.current = h, !.locked = l]
    BY <2>3 DEF RecRow
  <2> HIDE DEF h, l, Row
  <2> QED
    BY <2>1, <2>2, <2>3, <2>4 DEF RecRow
<1> HIDE DEF Row
<1>5. recs' \in Seq(RecRow) /\ DOMAIN recs' = DOMAIN recs /\ \A i \in DOMAIN recs : recs'[i] = recs[i]
  BY <1>1, <1>3, <1>4
<1>6. recs' = recs
  BY <1>1, <1>5, SeqEqual
<1> QED
  BY <1>6 DEF Migrate, vars

SerialInv == RecordsInv /\ \A w \in Workers : Fresh(req[w])

LEMMA StepKept ==
  ASSUME VersionsInv, RecordsInv, NEW w \in Workers, Fresh(req[w]), Step(w)
  PROVE  Kept(w)
  BY RecordKept, LockKept, UnlockKept, BooksKept, RefusedKept DEF Step, Abort

LEMMA OthersKeep ==
  ASSUME VersionsInv, NEW w \in Workers, Step(w), NEW v \in Workers \ {w}
  PROVE  req'[v] = req[v]
<1>1. \E r : req' = [req EXCEPT ![w] = r]
  BY DEF Step, Record, RecordBegin, RecordCash, RecordCurrent, RecordWrite,
         Lock, LockBegin, LockCash, LockBank, LockCurrent, LockState, LockWrite, LockRefused,
         Unlock, UnlockBegin, UnlockCurrent, UnlockWrite, Books, BooksBegin, BooksWrite, Abort,
         Proceed, Refuse, Finish
<1> QED
  BY <1>1 DEF VersionsInv, TypeOK

LEMMA SerialRestsOn ==
  ASSUME SerialInv, UNCHANGED vars
  PROVE  SerialInv' /\ SnapshotsStand /\ LockedAtLive
<1>1. recs' = recs /\ monthLocked' = monthLocked /\ monthEnd' = monthEnd /\ req' = req
  BY DEF vars
<1>2. RecordsInv' /\ SnapshotsStand /\ LockedAtLive
  BY <1>1, QuietRecords DEF SerialInv
<1>3. \A m : Current(m)' = Current(m)
  BY <1>1 DEF Current
<1>4. \A w \in Workers : Fresh(req[w])'
  BY <1>1, <1>3 DEF SerialInv, Fresh
<1> QED
  BY <1>2, <1>4 DEF SerialInv

LEMMA SerialInit == Init => SerialInv
<1> SUFFICES ASSUME Init PROVE SerialInv
  OBVIOUS
<1>1. DOMAIN recs = {} /\ monthLocked = {} /\ \A w \in Workers : req[w] = NoReq
  BY DEF Init
<1>2. RecordsInv
  BY <1>1 DEF RecordsInv, LockAgreement, VersionsDiffer, FirstUnstamped, LockedRecorded
<1> QED
  BY <1>1, <1>2 DEF SerialInv, Fresh, NoReq

LEMMA SerialStep ==
  ASSUME VersionsInv, SerialInv, [MCNext]_MCvars, oneByOne
  PROVE  SerialInv' /\ SnapshotsStand /\ LockedAtLive
<1>1. CASE UNCHANGED vars
  BY <1>1, SerialRestsOn
<1>2. CASE Migrate
  BY <1>2, MigrateRests, SerialRestsOn DEF SerialInv
<1>3. ASSUME NEW w \in Workers, Step(w), \A v \in Workers \ {w} : Idle(v)
      PROVE  SerialInv' /\ SnapshotsStand /\ LockedAtLive
  <2>1. Kept(w)
    BY <1>3, StepKept DEF SerialInv
  <2>2. ASSUME NEW v \in Workers \ {w} PROVE Fresh(req[v])'
    <3>1. req'[v] = NoReq
      BY <1>3, OthersKeep DEF Idle
    <3> QED
      BY <3>1 DEF Fresh, NoReq
  <2> QED
    BY <2>1, <2>2 DEF SerialInv, Kept
<1> QED
  BY <1>1, <1>2, <1>3 DEF MCNext, MCvars

LEMMA MCVersions == MCSpec => []VersionsInv
<1>1. MCInit => VersionsInv
  BY InitInv DEF MCInit
<1>2. VersionsInv /\ [MCNext]_MCvars => VersionsInv'
  <2>1. [MCNext]_MCvars => [Next]_vars
    BY DEF MCNext, MCvars, Next
  <2> QED
    BY <2>1, StepInv
<1> QED
  BY <1>1, <1>2, PTL DEF MCSpec

LEMMA SerialAlways == MCSpec => [](oneByOne => SerialInv)
<1>1. MCInit => (oneByOne => SerialInv)
  BY SerialInit DEF MCInit
<1>2. VersionsInv /\ (oneByOne => SerialInv) /\ [MCNext]_MCvars => (oneByOne => SerialInv)'
  <2>1. [MCNext]_MCvars => oneByOne' = oneByOne
    BY DEF MCNext, MCvars
  <2> QED
    BY <2>1, SerialStep
<1> QED
  BY <1>1, <1>2, MCVersions, PTL DEF MCSpec

\* Served one request at a time, with restarts at any point: a reconciliation
\* is open for corrections exactly while its month is unlocked and it is the
\* current one, and consecutive versions of a month never show one figure
\* (lock_reconciliation_month, unlock_reconciliation_month).
THEOREM RecordsAgree == MCSpec => []SerialRecordsAgree
<1>1. (oneByOne => SerialInv) => SerialRecordsAgree
  BY DEF SerialRecordsAgree, SerialInv, RecordsInv
<1> QED
  BY <1>1, SerialAlways, PTL

LocksRest == SnapshotsStand /\ LockedAtLive

\* Served one at a time, a month is locked at its live figure, and no later
\* request changes the figure of a locked reconciliation.
THEOREM LocksStand == MCSpec => SerialLocksStand
<1>1. VersionsInv /\ (oneByOne => SerialInv) /\ [MCNext]_MCvars => [oneByOne => LocksRest]_MCvars
  BY SerialStep DEF LocksRest
<1>2. MCSpec => [][oneByOne => LocksRest]_MCvars
  BY <1>1, MCVersions, SerialAlways, PTL DEF MCSpec
<1> QED
  BY <1>2 DEF SerialLocksStand, LocksRest
=============================================================================
