-------------------------- MODULE ReferencesProofs --------------------------
(***************************************************************************)
(* Proofs about References, for any number of workers, browsers, years and *)
(* numbers, and for requests that insert any number of rows.               *)
(*                                                                         *)
(* An id is given out once because the counter never goes back while a     *)
(* request holds an id (IdsSound): until a reservation writes a counter    *)
(* that it read before another moved it. A client code is one form's or    *)
(* one client's because, one request at a time, the code that was read     *)
(* last is the counter's (CodesSound).                                     *)
(***************************************************************************)
EXTENDS MCReferences, WellFoundedInduction, TLAPS

IdTables ==
    /\ year \in 1..MaxYear
    /\ counter \in Counters
    /\ rows \in [Tables -> SUBSET Ids]

CodeTables ==
    /\ codeSeq \in 1..(MaxCode + 1)
    /\ DOMAIN clients \subseteq 1..MaxCode /\ \A c \in DOMAIN clients : clients[c] \in Browsers
    /\ cookie \in [Browsers -> 0..MaxCode]

Request == {NoReq} \cup IdReq \cup ClientReq

\* A request in the middle of its reservations, or about to insert; a code that
\* was read.
Whole(r) ==
    /\ r.op = "ids" =>
          IF r.at = "insert" THEN Len(r.ids) = Len(r.kind) ELSE Len(r.ids) < Len(r.kind)
    /\ r.op = "client" =>
          /\ r.at # "seq" => r.code # NoCode
          /\ r.at \in {"create", "answer"} => r.code <= MaxCode

Requests == req \in [Workers -> Request] /\ \A w \in Workers : Whole(req[w])

TypeInv == IdTables /\ CodeTables /\ Requests

-----------------------------------------------------------------------------
(* Requests.                                                                *)

LEMMA NoRequest == NoReq \in Request /\ Whole(NoReq) /\ NoReq.op = "none"
  BY DEF NoReq, Request, Whole

\* What a request holds follows from its operation.
LEMMA RequestKinds ==
  ASSUME NEW r \in Request
  PROVE  /\ r.op = "ids" => r \in IdReq
         /\ r.op = "client" => r \in ClientReq
         /\ r.op \in {"none", "ids", "client"}
         /\ r = NoReq <=> r.op = "none"
  BY DEF Request, NoReq, IdReq, ClientReq

\* The request of one worker changes, the others stay.
LEMMA Becomes ==
  ASSUME Requests, NEW w \in Workers, NEW r \in Request, Whole(r), Become(w, r)
  PROVE  /\ Requests'
         /\ req'[w] = r
         /\ \A v \in Workers \ {w} : req'[v] = req[v]
<1>1. req' \in [Workers -> Request] /\ req'[w] = r /\ \A v \in Workers \ {w} : req'[v] = req[v]
  BY DEF Requests, Become
<1>2. \A v \in Workers : Whole(req'[v])
  BY <1>1 DEF Requests
<1> QED
  BY <1>1, <1>2 DEF Requests, Whole

LEMMA Finishes ==
  ASSUME Requests, NEW w \in Workers, Finish(w)
  PROVE  /\ Requests'
         /\ req'[w] = NoReq
         /\ \A v \in Workers \ {w} : req'[v] = req[v]
  BY Becomes, NoRequest DEF Finish

\* The request under way, by what it is.
LEMMA IdRequest ==
  ASSUME Requests, NEW w \in Workers, NEW label, At(w, "ids", label)
  PROVE  req[w] \in IdReq /\ Whole(req[w]) /\ req[w].op = "ids" /\ req[w].at = label
  BY RequestKinds DEF Requests, At

LEMMA ClientRequest ==
  ASSUME Requests, NEW w \in Workers, NEW label, At(w, "client", label)
  PROVE  req[w] \in ClientReq /\ Whole(req[w]) /\ req[w].op = "client" /\ req[w].at = label
  BY RequestKinds DEF Requests, At

-----------------------------------------------------------------------------
(* The highest of a set of numbers.                                         *)

LEMMA LeastNumber ==
  ASSUME NEW N, N \subseteq Nat, N # {}
  PROVE  \E n \in N : \A m \in N : n <= m
<1> DEFINE R == OpToRel(<, Nat)
<1>1. IsWellFoundedOn(R, Nat)
  BY NatLessThanWellFounded
<1>2. \A m, n \in Nat : <<m, n>> \in R <=> m < n
  BY DEF OpToRel
<1> HIDE DEF R
<1>3. PICK n \in N : \A m \in N : ~(<<m, n>> \in R)
  BY <1>1, WFMin
<1>4. \A m \in N : ~(m < n)
  BY <1>2, <1>3
<1> QED
  BY <1>4

LEMMA Highest ==
  ASSUME NEW n \in Nat, NEW S, S \subseteq 0..n, S # {}
  PROVE  Max(S) \in S /\ \A x \in S : x <= Max(S)
<1> DEFINE N == {m \in Nat : \A x \in S : x <= m}
<1>1. PICK k \in N : \A m \in N : k <= m
  <2>1. n \in N
    OBVIOUS
  <2> QED
    BY <2>1, LeastNumber
<1>2. k \in S
  <2> SUFFICES ASSUME k \notin S PROVE FALSE
    OBVIOUS
  <2>1. \A x \in S : x \in Nat /\ x < k
    BY <1>1
  <2>2. k \in Nat /\ k - 1 \in Nat
    <3>1. PICK x \in S : x \in Nat /\ x < k
      BY <2>1
    <3>2. k \in Nat
      OBVIOUS
    <3> QED
      BY <3>1, <3>2
  <2>3. \A x \in S : x <= k - 1
    BY <2>1, <2>2
  <2>4. k - 1 \in N
    BY <2>2, <2>3
  <2> QED
    BY <1>1, <2>2, <2>4
<1>3. \E x \in S : \A y \in S : x >= y
  BY <1>1, <1>2
<1>4. /\ Max(S) \in S
      /\ \A y \in S : Max(S) >= y
  BY <1>3 DEF Max
<1> QED
  BY <1>4

\* What reserve_next_client_code comes to.
LEMMA NextCodeRead ==
  ASSUME CodeTables, ReferencesAssumption, NEW code \in 0..(MaxCode + 1)
  PROVE  LET n == Max({code} \cup {c + 1 : c \in DOMAIN clients}) IN
         /\ n \in 0..(MaxCode + 1)
         /\ code <= n
         /\ (\A c \in DOMAIN clients : c < code) => n = code
<1> DEFINE S == {code} \cup {c + 1 : c \in DOMAIN clients}
<1>1. MaxCode + 1 \in Nat /\ S \subseteq 0..(MaxCode + 1) /\ code \in S
  BY DEF CodeTables, ReferencesAssumption
<1>2. Max(S) \in S /\ \A x \in S : x <= Max(S)
  BY <1>1, Highest
<1>3. ASSUME \A c \in DOMAIN clients : c < code PROVE Max(S) = code
  <2>1. \A x \in S : x <= code
    BY <1>3 DEF CodeTables
  <2> HIDE DEF S
  <2>2. Max(S) <= code /\ code <= Max(S)
    BY <1>1, <1>2, <2>1
  <2>3. \A x \in 0..(MaxCode + 1) : x \in Int
    OBVIOUS
  <2>4. Max(S) \in Int /\ code \in Int
    BY <1>1, <1>2, <2>3
  <2> QED
    BY <2>2, <2>4
<1> QED
  BY <1>1, <1>2, <1>3

-----------------------------------------------------------------------------
(* Ids.                                                                     *)

\* The last number of a year.
LEMMA BaseIs ==
  ASSUME ReferencesAssumption, NEW c \in Counters, NEW y \in 1..MaxYear
  PROVE  /\ Base(c, y) \in 0..MaxSeq
         /\ c.year = y => Base(c, y) = c.seq
         /\ c.year # y => Base(c, y) = 0
BY DEF Base, Counters, ReferencesAssumption

\* A request that reserves first, with the ids it has by now.
LEMMA Reserving ==
  ASSUME ReferencesAssumption, NEW r \in IdReq, Whole(r)
  PROVE  /\ r.op = "ids" /\ r.kind \in Seq(Tables) /\ r.kind # <<>> /\ Len(r.kind) \in Nat
         /\ DOMAIN r.kind = 1..Len(r.kind)
         /\ r.ids \in Seq(Ids) /\ Len(r.ids) \in Nat /\ DOMAIN r.ids = 1..Len(r.ids)
         /\ r.now \in 1..MaxYear /\ r.saw \in Counters
         /\ r.at # "insert" => Len(r.ids) < Len(r.kind)
         /\ r.at = "insert" => Len(r.ids) = Len(r.kind)
BY DEF IdReq, Whole, ReferencesAssumption

\* The rows of one request.
LEMMA InsertedRows ==
  ASSUME IdTables, NEW kind \in Seq(Tables), NEW new, \A i \in DOMAIN kind : new[i] \in Ids
  PROVE  /\ Inserted(kind, new) \in [Tables -> SUBSET Ids]
         /\ \A t \in Tables :
               /\ rows[t] \subseteq Inserted(kind, new)[t]
               /\ \A id \in Inserted(kind, new)[t] :
                     id \in rows[t] \/ \E i \in DOMAIN kind : id = new[i] /\ kind[i] = t
<1>1. \A t \in Tables : Inserted(kind, new)[t] =
            rows[t] \cup {new[i] : i \in {i \in DOMAIN kind : kind[i] = t}}
  BY DEF Inserted
<1>2. Inserted(kind, new) = [t \in Tables |-> Inserted(kind, new)[t]]
  BY DEF Inserted
<1>3. \A t \in Tables : Inserted(kind, new)[t] \in SUBSET Ids
  BY <1>1 DEF IdTables
<1> QED
  BY <1>1, <1>2, <1>3

\* The ids that an insert under the write lock takes.
LEMMA LockedIds ==
  ASSUME ReferencesAssumption, IdTables, NEW kind \in LockedKinds,
         Base(counter, year) + Len(kind) <= MaxSeq
  PROVE  LET new == [i \in DOMAIN kind |-> <<year, Base(counter, year) + i>>] IN
         /\ kind \in Seq(Tables)
         /\ \A i \in DOMAIN kind : new[i] \in Ids
         /\ [year |-> year, seq |-> Base(counter, year) + Len(kind)] \in Counters
<1>1. /\ kind \in Seq(Tables) /\ Len(kind) \in Nat /\ DOMAIN kind = 1..Len(kind)
  BY DEF ReferencesAssumption
<1>2. Base(counter, year) \in 0..MaxSeq /\ year \in 1..MaxYear /\ MaxSeq \in Nat /\ MaxYear \in Nat
  BY BaseIs DEF IdTables, ReferencesAssumption
<1> DEFINE b == Base(counter, year)
<1> HIDE DEF b
<1>3. \A i \in 1..Len(kind) : b + i \in 1..MaxSeq
  BY <1>1, <1>2 DEF b
<1>4. b + Len(kind) \in 0..MaxSeq
  BY <1>1, <1>2 DEF b
<1> QED
  BY <1>1, <1>2, <1>3, <1>4 DEF b, Ids, Counters

-----------------------------------------------------------------------------
(* Every step keeps the types.                                              *)

LEMMA InsertLockedTyped ==
  ASSUME ReferencesAssumption, TypeInv, NEW w \in Workers, InsertLocked(w)
  PROVE  TypeInv'
<1>1. PICK kind \in LockedKinds :
          LET last == Base(counter, year) + Len(kind)
              new == [i \in DOMAIN kind |-> <<year, Base(counter, year) + i>>]
          IN  /\ last <= MaxSeq
              /\ rows' = Inserted(kind, new)
              /\ counter' = [year |-> year, seq |-> last]
              /\ UNCHANGED <<year, codes, req>>
  BY DEF InsertLocked
<1>2. rows' \in [Tables -> SUBSET Ids] /\ counter' \in Counters
  BY <1>1, LockedIds, InsertedRows DEF TypeInv
<1> QED
  BY <1>1, <1>2 DEF TypeInv, IdTables, CodeTables, Requests, codes

LEMMA ReserveTyped ==
  ASSUME ReferencesAssumption, TypeInv, NEW w \in Workers, Reserve(w)
  PROVE  TypeInv'
<1>1. PICK kind \in OpenKinds :
          /\ Become(w, [op |-> "ids", at |-> "year", kind |-> kind, ids |-> <<>>, now |-> year,
                        saw |-> counter])
          /\ UNCHANGED <<ids, codes>>
  BY DEF Reserve
<1> DEFINE r == [op |-> "ids", at |-> "year", kind |-> kind, ids |-> <<>>, now |-> year,
                 saw |-> counter]
<1>2. r \in Request /\ Whole(r)
  <2>1. kind \in Seq(Tables) /\ kind # <<>> /\ <<>> \in Seq(Ids) /\ Len(<<>>) < Len(kind)
    BY DEF ReferencesAssumption
  <2>2. r \in IdReq
    BY <2>1 DEF IdReq, TypeInv, IdTables
  <2> QED
    BY <2>1, <2>2 DEF Request, Whole
<1> QED
  BY <1>1, <1>2, Becomes DEF TypeInv, IdTables, CodeTables, ids, codes

\* A request goes on with its ids and its kind as they are.
LEMMA RequestGoesOn ==
  ASSUME ReferencesAssumption, TypeInv, NEW w \in Workers, NEW r \in Request, Whole(r),
         Become(w, r), UNCHANGED <<ids, codes>>
  PROVE  TypeInv'
BY Becomes DEF TypeInv, IdTables, CodeTables, ids, codes

LEMMA ReadsTyped ==
  ASSUME ReferencesAssumption, TypeInv, NEW w \in Workers, ReadYear(w) \/ ReadSeq(w)
  PROVE  TypeInv'
<1>1. CASE ReadYear(w)
  <2> DEFINE r == [req[w] EXCEPT !.at = "seq", !.now = year, !.saw.year = counter.year]
  <2>1. req[w] \in IdReq /\ Whole(req[w]) /\ req[w].at = "year" /\ Become(w, r)
    BY <1>1, IdRequest DEF TypeInv, ReadYear
  <2>2. r \in Request /\ Whole(r)
    BY <2>1 DEF IdReq, Counters, TypeInv, IdTables, Whole, Request
  <2> QED
    BY <1>1, <2>1, <2>2, RequestGoesOn DEF ReadYear
<1>2. CASE ReadSeq(w)
  <2> DEFINE r == [req[w] EXCEPT !.at = "write", !.saw.seq = counter.seq]
  <2>1. req[w] \in IdReq /\ Whole(req[w]) /\ req[w].at = "seq" /\ Become(w, r)
    BY <1>2, IdRequest DEF TypeInv, ReadSeq
  <2>2. r \in Request /\ Whole(r)
    BY <2>1 DEF IdReq, Counters, TypeInv, IdTables, Whole, Request
  <2> QED
    BY <1>2, <2>1, <2>2, RequestGoesOn DEF ReadSeq
<1> QED
  BY <1>1, <1>2

LEMMA WriteCounterTyped ==
  ASSUME ReferencesAssumption, TypeInv, NEW w \in Workers, WriteCounter(w)
  PROVE  TypeInv'
<1> DEFINE r == req[w]
           seq == Base(r.saw, r.now) + 1
           new == Append(r.ids, <<r.now, seq>>)
           s == [r EXCEPT !.ids = new, !.at = IF Len(new) = Len(r.kind) THEN "insert" ELSE "year"]
<1>1. r \in IdReq /\ Whole(r) /\ r.at = "write"
  BY IdRequest DEF WriteCounter, TypeInv
<1>2. /\ seq <= MaxSeq
      /\ counter' = [year |-> r.now, seq |-> seq]
      /\ Become(w, s)
      /\ UNCHANGED <<year, rows, codes>>
  BY DEF WriteCounter
<1>3. seq \in 1..MaxSeq /\ <<r.now, seq>> \in Ids
  BY <1>1, <1>2, BaseIs, Reserving DEF Ids, ReferencesAssumption
<1>4. new \in Seq(Ids) /\ Len(new) = Len(r.ids) + 1
  BY <1>1, <1>3, Reserving
<1> HIDE DEF seq, new
<1>5. s \in Request /\ Whole(s)
  <2>1. s \in IdReq
    BY <1>1, <1>4 DEF IdReq
  <2>2. Whole(s)
    BY <1>1, <1>4, <2>1, Reserving DEF Whole, IdReq
  <2> QED
    BY <2>1, <2>2 DEF Request
<1>6. counter' \in Counters
  BY <1>1, <1>2, <1>3, Reserving DEF Counters
<1> QED
  BY <1>2, <1>5, <1>6, Becomes DEF TypeInv, IdTables, CodeTables, codes

LEMMA InsertReservedTyped ==
  ASSUME ReferencesAssumption, TypeInv, NEW w \in Workers, InsertReserved(w)
  PROVE  TypeInv'
<1>1. req[w] \in IdReq /\ Whole(req[w]) /\ req[w].at = "insert"
  BY IdRequest DEF InsertReserved, TypeInv
<1>2. \A i \in DOMAIN req[w].kind : req[w].ids[i] \in Ids
  BY <1>1, Reserving
<1>3. Inserted(req[w].kind, req[w].ids) \in [Tables -> SUBSET Ids]
  BY <1>1, <1>2, Reserving, InsertedRows DEF TypeInv
<1> QED
  BY <1>3, Finishes DEF InsertReserved, TypeInv, IdTables, CodeTables, codes

\* A request that fails, is refused or is tried again.
LEMMA BusyTyped ==
  ASSUME ReferencesAssumption, TypeInv, NEW w \in Workers, Busy(w) \/ Abort(w)
  PROVE  TypeInv'
<1>1. CASE Abort(w)
  BY <1>1, Finishes DEF Abort, TypeInv, IdTables, CodeTables, ids, codes
<1>2. CASE At(w, "ids", "write") /\ Become(w, [req[w] EXCEPT !.at = "year"]) /\ UNCHANGED <<ids, codes>>
  <2> DEFINE r == [req[w] EXCEPT !.at = "year"]
  <2>1. req[w] \in IdReq /\ Whole(req[w]) /\ req[w].at = "write"
    BY <1>2, IdRequest DEF TypeInv
  <2>2. r \in Request /\ Whole(r)
    BY <2>1 DEF IdReq, Whole, Request
  <2> QED
    BY <1>2, <2>2, RequestGoesOn
<1>3. CASE At(w, "client", "code") /\ Become(w, [req[w] EXCEPT !.at = "seq"]) /\ UNCHANGED <<ids, codes>>
  <2> DEFINE r == [req[w] EXCEPT !.at = "seq"]
  <2>1. req[w] \in ClientReq /\ Whole(req[w]) /\ req[w].at = "code"
    BY <1>3, ClientRequest DEF TypeInv
  <2>2. r \in Request /\ Whole(r)
    BY <2>1 DEF ClientReq, Whole, Request
  <2> QED
    BY <1>3, <2>2, RequestGoesOn
<1> QED
  BY <1>1, <1>2, <1>3 DEF Busy

LEMMA OpenFormTyped ==
  ASSUME ReferencesAssumption, TypeInv, NEW w \in Workers, NEW b \in Browsers, NEW named \in BOOLEAN,
         OpenForm(w, b) \/ SubmitForm(w, b, named)
  PROVE  TypeInv'
<1>1. CASE OpenForm(w, b)
  <2> DEFINE r == [op |-> "client", at |-> "seq", browser |-> b, then |-> "page", code |-> NoCode]
  <2>1. r \in Request /\ Whole(r)
    BY DEF ClientReq, Whole, Request, NoCode, ReferencesAssumption
  <2> QED
    BY <1>1, <2>1, RequestGoesOn DEF OpenForm
<1>2. CASE SubmitForm(w, b, named)
  <2> DEFINE r == [op |-> "client", at |-> IF cookie[b] = NoCode THEN "seq" ELSE "create",
                   browser |-> b, then |-> IF named THEN "create" ELSE "page", code |-> cookie[b]]
  <2>1. cookie[b] \in 0..MaxCode
    BY DEF TypeInv, CodeTables
  <2>2. r \in Request /\ Whole(r)
    BY <2>1 DEF ClientReq, Whole, Request, NoCode, ReferencesAssumption
  <2> QED
    BY <1>2, <2>2, RequestGoesOn DEF SubmitForm
<1> QED
  BY <1>1, <1>2

LEMMA ReadCodesTyped ==
  ASSUME ReferencesAssumption, TypeInv, NEW w \in Workers, ReadCodeSeq(w) \/ ReadCodes(w)
  PROVE  TypeInv'
<1>1. CASE ReadCodeSeq(w)
  <2> DEFINE r == [req[w] EXCEPT !.at = "clients", !.code = codeSeq]
  <2>1. req[w] \in ClientReq /\ Whole(req[w])
    BY <1>1, ClientRequest DEF TypeInv, ReadCodeSeq
  <2>2. codeSeq \in 0..(MaxCode + 1) /\ codeSeq # NoCode
    BY DEF TypeInv, CodeTables, NoCode, ReferencesAssumption
  <2>3. r \in Request /\ Whole(r)
    BY <2>1, <2>2 DEF ClientReq, Whole, Request
  <2> QED
    BY <1>1, <2>3, RequestGoesOn DEF ReadCodeSeq
<1>2. CASE ReadCodes(w)
  <2> DEFINE n == Max({req[w].code} \cup {c + 1 : c \in DOMAIN clients})
             r == [req[w] EXCEPT !.at = "code", !.code = n]
  <2>1. req[w] \in ClientReq /\ Whole(req[w]) /\ req[w].at = "clients"
    BY <1>2, ClientRequest DEF TypeInv, ReadCodes
  <2>2. req[w].code \in 0..(MaxCode + 1) /\ req[w].code # NoCode
    BY <2>1 DEF ClientReq, Whole
  <2>3. n \in 0..(MaxCode + 1) /\ n # NoCode
    BY <2>2, NextCodeRead DEF TypeInv, NoCode
  <2>4. Become(w, r)
    BY <1>2 DEF ReadCodes
  <2> HIDE DEF n
  <2>5. r \in Request /\ Whole(r)
    BY <2>1, <2>3 DEF ClientReq, Whole, Request
  <2> QED
    BY <1>2, <2>4, <2>5, RequestGoesOn DEF ReadCodes
<1> QED
  BY <1>1, <1>2

\* The answers that set the browser's cookie.
LEMMA AnswerTyped ==
  ASSUME ReferencesAssumption, TypeInv, NEW w \in Workers, req[w] \in ClientReq,
         NEW code \in 0..MaxCode, SetCookie(w, code), Finish(w),
         UNCHANGED <<ids, codeSeq, clients>>
  PROVE  TypeInv'
<1>1. cookie' \in [Browsers -> 0..MaxCode]
  BY DEF SetCookie, TypeInv, CodeTables, ClientReq
<1> QED
  BY <1>1, Finishes DEF TypeInv, IdTables, CodeTables, ids

LEMMA WriteCodeSeqTyped ==
  ASSUME ReferencesAssumption, TypeInv, NEW w \in Workers, WriteCodeSeq(w)
  PROVE  TypeInv'
<1>1. req[w] \in ClientReq /\ Whole(req[w]) /\ req[w].at = "code"
  BY ClientRequest DEF TypeInv, WriteCodeSeq
<1>2. /\ req[w].code \in 1..MaxCode
      /\ codeSeq' = req[w].code + 1
      /\ UNCHANGED <<ids, clients>>
  BY <1>1 DEF WriteCodeSeq, NextCode, ClientReq, Whole, NoCode, ReferencesAssumption
<1>3. codeSeq' \in 1..(MaxCode + 1)
  BY <1>2 DEF ReferencesAssumption
<1>4. CASE req[w].then = "page"
  <2>1. SetCookie(w, req[w].code) /\ Finish(w)
    BY <1>4 DEF WriteCodeSeq
  <2>2. cookie' \in [Browsers -> 0..MaxCode]
    BY <1>1, <1>2, <2>1 DEF SetCookie, TypeInv, CodeTables, ClientReq
  <2> QED
    BY <1>2, <1>3, <2>1, <2>2, Finishes DEF TypeInv, IdTables, CodeTables, ids
<1>5. CASE req[w].then # "page"
  <2> DEFINE r == [req[w] EXCEPT !.at = "create"]
  <2>1. Become(w, r) /\ UNCHANGED cookie
    BY <1>5 DEF WriteCodeSeq
  <2>2. r \in Request /\ Whole(r)
    BY <1>1, <1>2 DEF ClientReq, Whole, Request
  <2> QED
    BY <1>2, <1>3, <2>1, <2>2, Becomes DEF TypeInv, IdTables, CodeTables, ids
<1> QED
  BY <1>4, <1>5

LEMMA CreateClientTyped ==
  ASSUME ReferencesAssumption, TypeInv, NEW w \in Workers, CreateClient(w)
  PROVE  TypeInv'
<1>1. req[w] \in ClientReq /\ Whole(req[w]) /\ req[w].at = "create"
  BY ClientRequest DEF TypeInv, CreateClient
<1>2. req[w].code \in 1..MaxCode
  BY <1>1 DEF ClientReq, Whole, NoCode, ReferencesAssumption
<1>3. CASE req[w].code \in DOMAIN clients
  BY <1>1, <1>2, <1>3, AnswerTyped DEF CreateClient
<1>4. CASE req[w].code \notin DOMAIN clients
  <2> DEFINE r == [req[w] EXCEPT !.at = "answer"]
  <2>1. /\ clients' = [c \in DOMAIN clients \cup {req[w].code} |->
                          IF c = req[w].code THEN req[w].browser ELSE clients[c]]
        /\ Become(w, r) /\ UNCHANGED cookie /\ UNCHANGED <<ids, codeSeq>>
    BY <1>4 DEF CreateClient
  <2>2. /\ DOMAIN clients' \subseteq 1..MaxCode
        /\ \A c \in DOMAIN clients' : clients'[c] \in Browsers
    BY <1>1, <1>2, <2>1 DEF TypeInv, CodeTables, ClientReq
  <2>3. r \in Request /\ Whole(r)
    BY <1>1 DEF ClientReq, Whole, Request
  <2> QED
    BY <2>1, <2>2, <2>3, Becomes DEF TypeInv, IdTables, CodeTables, ids
<1> QED
  BY <1>3, <1>4

LEMMA CreatedTyped ==
  ASSUME ReferencesAssumption, TypeInv, NEW w \in Workers, CreateFails(w) \/ AnswerCreated(w)
  PROVE  TypeInv'
<1>1. req[w] \in ClientReq /\ Whole(req[w]) /\ req[w].at \in {"create", "answer"}
  BY ClientRequest DEF TypeInv, CreateFails, AnswerCreated
<1>2. req[w].code \in 0..MaxCode /\ NoCode \in 0..MaxCode
  BY <1>1 DEF ClientReq, Whole, NoCode, ReferencesAssumption
<1> QED
  BY <1>1, <1>2, AnswerTyped DEF CreateFails, AnswerCreated

LEMMA ResetTyped ==
  ASSUME ReferencesAssumption, TypeInv, NEW w \in Workers, NEW deleteClients \in BOOLEAN,
         Reset(w, deleteClients)
  PROVE  TypeInv'
<1>1. rows' \in [Tables -> SUBSET Ids] /\ counter' \in Counters
  BY DEF Reset, Counters, ReferencesAssumption
<1>2. CodeTables'
  <2>1. CASE deleteClients
    BY <2>1 DEF Reset, FirstCode, TypeInv, CodeTables, ReferencesAssumption
  <2>2. CASE ~deleteClients
    BY <2>2 DEF Reset, TypeInv, CodeTables
  <2> QED
    BY <2>1, <2>2
<1> QED
  BY <1>1, <1>2 DEF Reset, TypeInv, IdTables, Requests

LEMMA NewYearTyped ==
  ASSUME ReferencesAssumption, TypeInv, NewYear
  PROVE  TypeInv'
<1>1. year' \in 1..MaxYear
  BY DEF NewYear, TypeInv, IdTables, ReferencesAssumption
<1> QED
  BY <1>1 DEF NewYear, TypeInv, IdTables, CodeTables, Requests, codes

LEMMA StepTyped ==
  ASSUME ReferencesAssumption, TypeInv, Next
  PROVE  TypeInv'
<1>1. CASE NewYear
  BY <1>1, NewYearTyped
<1>2. ASSUME NEW w \in Workers, IdStep(w) PROVE TypeInv'
  BY <1>2, InsertLockedTyped, ReserveTyped, ReadsTyped, WriteCounterTyped, InsertReservedTyped DEF IdStep
<1>3. ASSUME NEW w \in Workers, CodeStep(w) PROVE TypeInv'
  BY <1>3, OpenFormTyped, ReadCodesTyped, WriteCodeSeqTyped, CreateClientTyped, CreatedTyped DEF CodeStep
<1>4. ASSUME NEW w \in Workers, Busy(w) \/ Abort(w) PROVE TypeInv'
  BY <1>4, BusyTyped
<1>5. ASSUME NEW w \in Workers, NEW deleteClients \in BOOLEAN, Reset(w, deleteClients) PROVE TypeInv'
  BY <1>5, ResetTyped
<1> QED
  BY <1>1, <1>2, <1>3, <1>4, <1>5 DEF Next, Step

LEMMA InitTyped ==
  ASSUME ReferencesAssumption, Init
  PROVE  TypeInv
<1>1. IdTables
  BY DEF Init, IdTables, Counters, ReferencesAssumption
<1>2. CodeTables
  BY DEF Init, CodeTables, FirstCode, NoCode, ReferencesAssumption
<1>3. Requests
  BY NoRequest DEF Init, Requests
<1> QED
  BY <1>1, <1>2, <1>3 DEF TypeInv

\* The type invariant, however the requests interleave.
THEOREM TypeCorrect == Spec => []TypeOK
<1>1. Init => TypeInv
  BY InitTyped, ReferencesAssumption
<1>2. TypeInv /\ [Next]_vars => TypeInv'
  <2>1. ASSUME TypeInv, UNCHANGED vars PROVE TypeInv'
    BY <2>1 DEF vars, ids, codes, TypeInv, IdTables, CodeTables, Requests
  <2> QED
    BY <2>1, StepTyped, ReferencesAssumption
<1>3. TypeInv => TypeOK
  <2> SUFFICES ASSUME TypeInv PROVE TypeOK
    OBVIOUS
  <2>1. \A w \in Workers : req[w].op = "ids" => Len(req[w].ids) <= Len(req[w].kind)
    BY RequestKinds, Reserving, ReferencesAssumption DEF TypeInv, Requests
  <2> QED
    BY <2>1 DEF TypeInv, IdTables, CodeTables, Requests, Request, TypeOK
<1> QED
  BY <1>1, <1>2, <1>3, PTL DEF Spec

-----------------------------------------------------------------------------
(* Ids are unique until a reservation is overtaken.                         *)

\* A counter has given out the id: it is at it or past it.
Given(c, id) == id[1] < c.year \/ (id[1] = c.year /\ id[2] <= c.seq)

\* The ids that a request holds are its own, given out, and in no row yet; the
\* year it works with has begun.
Unused(w) ==
    req[w].op = "ids" =>
        /\ req[w].now <= year
        /\ req[w].at \in {"seq", "write"} => req[w].saw.year <= req[w].now
        /\ \A i \in DOMAIN req[w].ids :
              /\ Given(counter, req[w].ids[i])
              /\ \A t \in Tables : req[w].ids[i] \notin rows[t]
              /\ \A j \in DOMAIN req[w].ids : req[w].ids[i] = req[w].ids[j] => i = j

Apart(v, w) ==
    req[v].op = "ids" /\ req[w].op = "ids" =>
        \A i \in DOMAIN req[v].ids, j \in DOMAIN req[w].ids : req[v].ids[i] # req[w].ids[j]

IdsSound ==
    /\ counter.year <= year
    /\ IdsUnique
    /\ \A w \in Workers : Unused(w)
    /\ \A v, w \in Workers : v # w => Apart(v, w)

\* The counter only goes forward.
LEMMA GivenStays ==
  ASSUME IdTables, IdTables',
         counter.year < counter'.year \/ (counter.year = counter'.year /\ counter.seq <= counter'.seq)
  PROVE  \A id \in Ids : Given(counter, id) => Given(counter', id)
BY DEF Given, IdTables, Ids, Counters

\* The next id of a year that the counter has not passed is a new one.
LEMMA NextIdNew ==
  ASSUME ReferencesAssumption, IdTables, NEW y \in 1..MaxYear, counter.year <= y, NEW n \in Nat \ {0}
  PROVE  ~Given(counter, <<y, Base(counter, y) + n>>)
<1>1. CASE counter.year = y
  BY <1>1, BaseIs DEF Given, IdTables, Counters
<1>2. CASE counter.year # y
  BY <1>2, BaseIs DEF Given, IdTables, Counters
<1> QED
  BY <1>1, <1>2

LEMMA HeldIds ==
  ASSUME ReferencesAssumption, TypeInv, NEW w \in Workers, req[w].op = "ids"
  PROVE  /\ req[w] \in IdReq
         /\ \A i \in DOMAIN req[w].ids : req[w].ids[i] \in Ids
<1>1. req[w] \in IdReq
  BY RequestKinds DEF TypeInv, Requests
<1> QED
  BY <1>1 DEF IdReq

\* Rows are inserted under ids that no row has yet.
LEMMA InsertUnique ==
  ASSUME IdTables, IdTables', IdsUnique, NEW kind \in Seq(Tables), NEW new,
         \A i \in DOMAIN kind :
            /\ new[i] \in Ids /\ Given(counter', new[i])
            /\ \A t \in Tables : new[i] \notin rows[t]
            /\ \A j \in DOMAIN kind : new[i] = new[j] => i = j,
         \A id \in Ids : Given(counter, id) => Given(counter', id),
         rows' = Inserted(kind, new)
  PROVE  IdsUnique'
<1>1. \A t \in Tables : \A id \in rows'[t] :
         id \in rows[t] \/ \E i \in DOMAIN kind : id = new[i] /\ kind[i] = t
  BY InsertedRows
<1>2. ASSUME NEW t \in Tables, NEW u \in Tables, t # u, NEW id, id \in rows'[t], id \in rows'[u]
      PROVE  FALSE
  <2>1. CASE id \in rows[t]
    <3>1. id \notin rows[u]
      BY <2>1, <1>2 DEF IdsUnique
    <3> QED
      BY <1>1, <1>2, <2>1, <3>1
  <2>2. CASE id \notin rows[t]
    <3>1. PICK i \in DOMAIN kind : id = new[i] /\ kind[i] = t
      BY <1>1, <1>2, <2>2
    <3>2. PICK j \in DOMAIN kind : id = new[j] /\ kind[j] = u
      BY <1>1, <1>2, <3>1
    <3> QED
      BY <1>2, <3>1, <3>2
  <2> QED
    BY <2>1, <2>2
<1>3. ASSUME NEW t \in Tables, NEW id \in rows'[t] PROVE Given(counter', id)
  <2>1. CASE id \in rows[t]
    <3>1. Given(counter, id) /\ id \in Ids
      BY <2>1 DEF IdsUnique, IdTables, Given
    <3> QED
      BY <3>1
  <2> QED
    BY <1>1, <1>3, <2>1
<1> QED
  BY <1>2, <1>3 DEF IdsUnique, Given

\* What the requests of the other workers hold stays theirs.
LEMMA OthersStayUnused ==
  ASSUME ReferencesAssumption, TypeInv, TypeInv', IdsSound, NEW w \in Workers,
         year' = year, \A v \in Workers \ {w} : req'[v] = req[v],
         \A id \in Ids : Given(counter, id) => Given(counter', id),
         \A v \in Workers \ {w} : req[v].op = "ids" =>
            \A i \in DOMAIN req[v].ids, t \in Tables : req[v].ids[i] \notin rows'[t]
  PROVE  /\ \A v \in Workers \ {w} : Unused(v)'
         /\ \A u, v \in Workers \ {w} : u # v => Apart(u, v)'
<1>1. ASSUME NEW v \in Workers \ {w} PROVE Unused(v)'
  <2> SUFFICES ASSUME req[v].op = "ids" PROVE Unused(v)'
    BY DEF Unused
  <2>1. \A i \in DOMAIN req[v].ids : req[v].ids[i] \in Ids /\ Given(counter, req[v].ids[i])
    BY HeldIds DEF IdsSound, Unused
  <2>2. \A i \in DOMAIN req[v].ids : Given(counter', req[v].ids[i])
    BY <2>1
  <2> QED
    BY <2>2 DEF IdsSound, Unused
<1>2. \A u, v \in Workers \ {w} : u # v => Apart(u, v)'
  BY DEF IdsSound, Apart
<1> QED
  BY <1>1, <1>2

\* A step of a worker that leaves the ids alone, and holds none that it did
\* not hold.
LEMMA KeepsIds ==
  ASSUME ReferencesAssumption, TypeInv, TypeInv', IdsSound, NEW w \in Workers, UNCHANGED ids,
         \A v \in Workers \ {w} : req'[v] = req[v],
         req'[w].op = "ids" =>
            /\ req'[w].now <= year
            /\ req'[w].at \in {"seq", "write"} => req'[w].saw.year <= req'[w].now
            /\ req'[w].ids # <<>> => req[w].op = "ids" /\ req'[w].ids = req[w].ids
  PROVE  IdsSound'
<1>1. /\ counter' = counter /\ year' = year /\ rows' = rows
      /\ \A id : Given(counter', id) <=> Given(counter, id)
  BY DEF ids, Given
<1>2. /\ \A v \in Workers \ {w} : Unused(v)'
      /\ \A u, v \in Workers \ {w} : u # v => Apart(u, v)'
  <2>1. \A v \in Workers \ {w} : req[v].op = "ids" =>
            \A i \in DOMAIN req[v].ids, t \in Tables : req[v].ids[i] \notin rows'[t]
    BY <1>1 DEF IdsSound, Unused
  <2> QED
    BY <1>1, <2>1, OthersStayUnused
<1>3. Unused(w)'
  BY <1>1 DEF IdsSound, Unused
<1>4. \A v \in Workers \ {w} : Apart(v, w)' /\ Apart(w, v)'
  BY DEF IdsSound, Apart
<1>5. IdsUnique' /\ counter'.year <= year'
  BY <1>1 DEF IdsSound, IdsUnique
<1> QED
  BY <1>2, <1>3, <1>4, <1>5 DEF IdsSound

LEMMA NewYearUnique ==
  ASSUME ReferencesAssumption, TypeInv, IdsSound, NewYear
  PROVE  IdsSound'
<1>1. /\ year' = year + 1 /\ year \in Int /\ counter' = counter /\ rows' = rows /\ req' = req
      /\ counter.year \in Int
  BY DEF NewYear, TypeInv, IdTables, Counters
<1>2. \A id : Given(counter', id) <=> Given(counter, id)
  BY <1>1 DEF Given
<1>3. ASSUME NEW w \in Workers PROVE Unused(w)'
  <2> SUFFICES ASSUME req[w].op = "ids" PROVE Unused(w)'
    BY <1>1 DEF Unused
  <2>1. req[w].now \in Int
    BY HeldIds DEF IdReq
  <2> QED
    BY <1>1, <1>2, <2>1 DEF IdsSound, Unused
<1>4. counter'.year <= year' /\ IdsUnique'
  BY <1>1 DEF IdsSound, IdsUnique
<1>5. \A v, w \in Workers : v # w => Apart(v, w)'
  BY <1>1 DEF IdsSound, Apart
<1> QED
  BY <1>3, <1>4, <1>5 DEF IdsSound

LEMMA InsertLockedUnique ==
  ASSUME ReferencesAssumption, TypeInv, TypeInv', IdsSound, NEW w \in Workers, InsertLocked(w)
  PROVE  IdsSound'
<1> DEFINE b == Base(counter, year)
           New(kind) == [i \in DOMAIN kind |-> <<year, b + i>>]
<1>1. PICK kind \in LockedKinds :
          /\ b + Len(kind) <= MaxSeq
          /\ rows' = Inserted(kind, New(kind))
          /\ counter' = [year |-> year, seq |-> b + Len(kind)]
          /\ UNCHANGED <<year, codes, req>> /\ Idle(w)
  BY DEF InsertLocked
<1>2. /\ kind \in Seq(Tables) /\ Len(kind) \in Nat /\ DOMAIN kind = 1..Len(kind)
      /\ \A i \in DOMAIN kind : New(kind)[i] \in Ids
  BY <1>1, LockedIds DEF TypeInv, ReferencesAssumption
<1>3. /\ b \in Nat /\ b + Len(kind) \in Nat
      /\ year \in 1..MaxYear /\ counter.year <= year /\ counter.year \in Int /\ counter.seq \in Int
      /\ counter.year = year => b = counter.seq
  <2>1. year \in 1..MaxYear /\ counter \in Counters /\ counter.year <= year
    BY DEF TypeInv, IdTables, IdsSound
  <2>2. b \in 0..MaxSeq /\ (counter.year = year => b = counter.seq)
    BY <2>1, BaseIs
  <2>3. counter.year \in Int /\ counter.seq \in Int
    BY <2>1 DEF Counters
  <2> HIDE DEF b
  <2> QED
    BY <1>2, <2>1, <2>2, <2>3
<1>4. \A id \in Ids : Given(counter, id) => Given(counter', id)
  <2>1. counter.year < counter'.year
        \/ (counter.year = counter'.year /\ counter.seq <= counter'.seq)
    BY <1>1, <1>2, <1>3
  <2> QED
    BY <2>1, GivenStays DEF TypeInv
<1>5. \A i \in DOMAIN kind : New(kind)[i] = <<year, b + i>>
  OBVIOUS
<1>6. \A i \in DOMAIN kind :
         /\ ~Given(counter, New(kind)[i])
         /\ Given(counter', New(kind)[i])
         /\ \A j \in DOMAIN kind : New(kind)[i] = New(kind)[j] => i = j
  <2>1. \A i \in DOMAIN kind : i \in Nat \ {0} /\ i <= Len(kind)
    BY <1>2
  <2>2. \A i \in DOMAIN kind : ~Given(counter, <<year, b + i>>)
    BY <1>3, <2>1, NextIdNew DEF TypeInv
  <2>3. \A i \in DOMAIN kind : Given(counter', <<year, b + i>>)
    <3>1. counter'.year = year /\ counter'.seq = b + Len(kind)
      BY <1>1
    <3> HIDE DEF b
    <3>2. \A i \in DOMAIN kind : b + i <= b + Len(kind)
      BY <1>2, <1>3, <2>1
    <3> QED
      BY <1>1, <3>1, <3>2 DEF Given, b
  <2> HIDE DEF b
  <2>4. \A i, j \in DOMAIN kind : <<year, b + i>> = <<year, b + j>> => i = j
    BY <1>3, <2>1
  <2> QED
    BY <1>1, <1>5, <2>2, <2>3, <2>4 DEF b
<1> DEFINE new == New(kind)
<1>7. /\ \A i \in DOMAIN kind :
            /\ new[i] \in Ids /\ ~Given(counter, new[i]) /\ Given(counter', new[i])
            /\ \A j \in DOMAIN kind : new[i] = new[j] => i = j
      /\ rows' = Inserted(kind, new)
  BY <1>1, <1>2, <1>6
<1> HIDE DEF new, New, b
<1>8. \A i \in DOMAIN kind : \A t \in Tables : new[i] \notin rows[t]
  BY <1>7 DEF IdsSound, IdsUnique, Given
<1>9. IdsUnique'
  <2>1. \A i \in DOMAIN kind :
           /\ new[i] \in Ids /\ Given(counter', new[i])
           /\ \A t \in Tables : new[i] \notin rows[t]
           /\ \A j \in DOMAIN kind : new[i] = new[j] => i = j
    BY <1>7, <1>8
  <2> QED
    BY <1>2, <1>4, <1>7, <2>1, InsertUnique DEF TypeInv, IdsSound
<1>10. \A v \in Workers \ {w} : req[v].op = "ids" =>
            \A i \in DOMAIN req[v].ids, t \in Tables : req[v].ids[i] \notin rows'[t]
  <2>1. \A t \in Tables : \A id \in rows'[t] : id \in rows[t] \/ ~Given(counter, id)
    BY <1>2, <1>7, InsertedRows DEF TypeInv
  <2> QED
    BY <2>1 DEF IdsSound, Unused
<1>11. /\ \A v \in Workers \ {w} : Unused(v)'
       /\ \A u, v \in Workers \ {w} : u # v => Apart(u, v)'
  BY <1>1, <1>4, <1>10, OthersStayUnused
<1>12. req'[w].op = "none"
  BY <1>1 DEF Idle, NoReq
<1> QED
  BY <1>1, <1>9, <1>11, <1>12, <1>3 DEF IdsSound, Unused, Apart

LEMMA WriteCounterUnique ==
  ASSUME ReferencesAssumption, TypeInv, TypeInv', IdsSound, NEW w \in Workers, WriteCounter(w),
         ~Overtaken(w)
  PROVE  IdsSound'
<1> DEFINE r == req[w]
           b == Base(r.saw, r.now)
           id == <<r.now, b + 1>>
           new == Append(r.ids, id)
<1>1. r \in IdReq /\ Whole(r) /\ r.at = "write" /\ r.op = "ids" /\ At(w, "ids", "write")
  BY IdRequest DEF WriteCounter, TypeInv
<1>2. /\ b + 1 <= MaxSeq
      /\ counter' = [year |-> r.now, seq |-> b + 1]
      /\ Become(w, [r EXCEPT !.ids = new, !.at = IF Len(new) = Len(r.kind) THEN "insert" ELSE "year"])
      /\ UNCHANGED <<year, rows, codes>>
  BY DEF WriteCounter
<1>3. r.saw = counter
  BY <1>1 DEF Overtaken
<1>4. /\ r.now \in 1..MaxYear /\ r.now <= year
      /\ counter.year <= r.now /\ counter.year \in Int /\ counter.seq \in Int
      /\ r.ids \in Seq(Ids) /\ Len(r.ids) \in Nat /\ DOMAIN r.ids = 1..Len(r.ids)
      /\ b \in Nat
      /\ counter.year = r.now => b = counter.seq
  <2>1. r.now <= year /\ counter.year <= r.now
    BY <1>1, <1>3 DEF IdsSound, Unused
  <2>2. /\ r.now \in 1..MaxYear /\ counter \in Counters
        /\ r.ids \in Seq(Ids) /\ Len(r.ids) \in Nat /\ DOMAIN r.ids = 1..Len(r.ids)
    BY <1>1, <1>3, Reserving
  <2>3. b \in 0..MaxSeq /\ (counter.year = r.now => b = counter.seq)
    BY <1>3, <2>2, BaseIs
  <2>4. counter.year \in Int /\ counter.seq \in Int
    BY <2>2 DEF Counters
  <2> HIDE DEF b, r
  <2> QED
    BY <2>1, <2>2, <2>3, <2>4
<1>5. \A x \in Ids : Given(counter, x) => Given(counter', x)
  <2>1. counter.year < counter'.year
        \/ (counter.year = counter'.year /\ counter.seq <= counter'.seq)
    <3>1. counter'.year = r.now /\ counter'.seq = b + 1
      BY <1>2
    <3> HIDE DEF r, b
    <3> QED
      BY <1>4, <3>1
  <2> QED
    BY <2>1, GivenStays DEF TypeInv
<1>6. id \in Ids /\ ~Given(counter, id) /\ Given(counter', id)
  <2>1. ~Given(counter, id)
    <3>1. r.now \in 1..MaxYear /\ counter.year <= r.now /\ 1 \in Nat \ {0} /\ IdTables
      BY <1>4 DEF TypeInv
    <3>2. ~Given(counter, <<r.now, Base(counter, r.now) + 1>>)
      BY <3>1, NextIdNew
    <3> QED
      BY <1>3, <3>2
  <2>2. id[1] = r.now /\ id[2] = b + 1
    OBVIOUS
  <2>3. id \in Ids
    <3>1. r.now \in 1..MaxYear /\ b + 1 \in 1..MaxSeq
      <4>1. b \in Nat /\ MaxSeq \in Nat /\ b + 1 <= MaxSeq
        BY <1>2, <1>4 DEF ReferencesAssumption
      <4> HIDE DEF b
      <4> QED
        BY <1>4, <4>1
    <3> HIDE DEF r, b
    <3> QED
      BY <3>1 DEF Ids
  <2>4. Given(counter', id)
    <3>1. counter'.year = r.now /\ counter'.seq = b + 1
      BY <1>2
    <3> QED
      BY <1>4, <2>2, <3>1 DEF Given
  <2> QED
    BY <2>1, <2>3, <2>4
<1>7. /\ req'[w].op = "ids" /\ req'[w].now = r.now /\ req'[w].ids = new
      /\ req'[w].at \in {"insert", "year"}
      /\ \A v \in Workers \ {w} : req'[v] = req[v]
  BY <1>1, <1>2 DEF Become, TypeInv, Requests, IdReq
<1>8. /\ DOMAIN new = 1..(Len(r.ids) + 1)
      /\ new[Len(r.ids) + 1] = id
      /\ \A i \in DOMAIN r.ids : new[i] = r.ids[i]
  BY <1>4, <1>6
<1> HIDE DEF b, id, new
<1>9. /\ \A i \in DOMAIN r.ids : Given(counter, r.ids[i]) /\ r.ids[i] \in Ids
      /\ \A i \in DOMAIN r.ids : \A t \in Tables : r.ids[i] \notin rows[t]
      /\ \A i, j \in DOMAIN r.ids : r.ids[i] = r.ids[j] => i = j
  BY <1>1, HeldIds DEF IdsSound, Unused
<1>10. \A t \in Tables : id \notin rows[t]
  BY <1>6 DEF IdsSound, IdsUnique, Given
<1>11. Unused(w)'
  <2>1. \A i \in DOMAIN new : i \in DOMAIN r.ids \/ i = Len(r.ids) + 1
    BY <1>4, <1>8
  <2>2. ASSUME NEW i \in DOMAIN new
        PROVE  /\ Given(counter', new[i])
               /\ \A t \in Tables : new[i] \notin rows[t]
               /\ \A j \in DOMAIN new : new[i] = new[j] => i = j
    <3>1. CASE i \in DOMAIN r.ids
      BY <1>5, <1>6, <1>8, <1>9, <2>1, <3>1
    <3>2. CASE i = Len(r.ids) + 1
      BY <1>6, <1>8, <1>9, <1>10, <2>1, <3>2
    <3> QED
      BY <2>1, <3>1, <3>2
  <2> QED
    BY <1>2, <1>4, <1>7, <2>2 DEF Unused
<1>12. \A v \in Workers \ {w} : Apart(v, w)' /\ Apart(w, v)'
  <2> SUFFICES ASSUME NEW v \in Workers \ {w}, req[v].op = "ids",
                      NEW i \in DOMAIN req[v].ids, NEW j \in DOMAIN new
               PROVE  req[v].ids[i] # new[j]
    BY <1>7 DEF Apart
  <2>1. Given(counter, req[v].ids[i])
    BY DEF IdsSound, Unused
  <2>2. CASE j \in DOMAIN r.ids
    BY <1>1, <1>8, <2>2 DEF IdsSound, Apart
  <2>3. CASE j = Len(r.ids) + 1
    BY <1>6, <1>8, <2>1, <2>3
  <2> QED
    BY <1>4, <1>8, <2>2, <2>3
<1>13. /\ \A v \in Workers \ {w} : Unused(v)'
       /\ \A u, v \in Workers \ {w} : u # v => Apart(u, v)'
  <2>1. \A v \in Workers \ {w} : req[v].op = "ids" =>
            \A i \in DOMAIN req[v].ids, t \in Tables : req[v].ids[i] \notin rows'[t]
    BY <1>2 DEF IdsSound, Unused
  <2> QED
    BY <1>2, <1>5, <1>7, <2>1, OthersStayUnused
<1>14. IdsUnique'
  <2>1. \A t \in Tables : rows[t] \in SUBSET Ids
    BY DEF TypeInv, IdTables
  <2>2. \A t \in Tables : \A x \in rows[t] : Given(counter', x)
    BY <1>5, <2>1 DEF IdsSound, IdsUnique, Given
  <2> QED
    BY <1>2, <2>2 DEF IdsSound, IdsUnique, Given
<1>15. counter'.year <= year'
  BY <1>2, <1>4
<1> QED
  BY <1>11, <1>12, <1>13, <1>14, <1>15 DEF IdsSound

LEMMA InsertReservedUnique ==
  ASSUME ReferencesAssumption, TypeInv, TypeInv', IdsSound, NEW w \in Workers, InsertReserved(w)
  PROVE  IdsSound'
<1> DEFINE r == req[w]
<1>1. r \in IdReq /\ Whole(r) /\ r.at = "insert" /\ r.op = "ids"
  BY IdRequest DEF InsertReserved, TypeInv
<1>2. /\ rows' = IF Insertable(r.kind, r.ids) THEN Inserted(r.kind, r.ids) ELSE rows
      /\ Finish(w) /\ UNCHANGED <<year, counter, codes>>
  BY DEF InsertReserved
<1>3. /\ r.kind \in Seq(Tables) /\ DOMAIN r.kind = DOMAIN r.ids
  BY <1>1, Reserving
<1>4. req'[w].op = "none" /\ \A v \in Workers \ {w} : req'[v] = req[v]
  BY <1>2, Finishes, NoRequest DEF TypeInv
<1>5. \A i \in DOMAIN r.kind :
         /\ r.ids[i] \in Ids /\ Given(counter', r.ids[i])
         /\ \A t \in Tables : r.ids[i] \notin rows[t]
         /\ \A j \in DOMAIN r.kind : r.ids[i] = r.ids[j] => i = j
  BY <1>1, <1>2, <1>3, HeldIds DEF IdsSound, Unused
<1>6. \A id : Given(counter, id) <=> Given(counter', id)
  BY <1>2
<1>7. IdsUnique'
  <2>1. CASE rows' = rows
    BY <1>2, <2>1 DEF IdsSound, IdsUnique
  <2>2. CASE rows' = Inserted(r.kind, r.ids)
    BY <1>3, <1>5, <1>6, <2>2, InsertUnique DEF TypeInv, IdsSound
  <2> QED
    BY <1>2, <2>1, <2>2
<1>8. \A v \in Workers \ {w} : req[v].op = "ids" =>
            \A i \in DOMAIN req[v].ids, t \in Tables : req[v].ids[i] \notin rows'[t]
  <2>1. \A t \in Tables : \A id \in rows'[t] :
           id \in rows[t] \/ \E j \in DOMAIN r.kind : id = r.ids[j]
    BY <1>2, <1>3, <1>5, InsertedRows DEF TypeInv
  <2> SUFFICES ASSUME NEW v \in Workers \ {w}, req[v].op = "ids",
                      NEW i \in DOMAIN req[v].ids, NEW t \in Tables, req[v].ids[i] \in rows'[t]
               PROVE  FALSE
    OBVIOUS
  <2>2. req[v].ids[i] \notin rows[t]
    BY DEF IdsSound, Unused
  <2>3. PICK j \in DOMAIN r.ids : req[v].ids[i] = r.ids[j]
    BY <1>3, <2>1, <2>2
  <2> QED
    BY <1>1, <2>3 DEF IdsSound, Apart
<1>9. /\ \A v \in Workers \ {w} : Unused(v)'
      /\ \A u, v \in Workers \ {w} : u # v => Apart(u, v)'
  BY <1>2, <1>4, <1>6, <1>8, OthersStayUnused
<1> QED
  BY <1>2, <1>4, <1>7, <1>9 DEF IdsSound, Unused, Apart

\* The steps that reserve, read, fail or are refused.
LEMMA IdleIdsUnique ==
  ASSUME ReferencesAssumption, TypeInv, TypeInv', IdsSound, NEW w \in Workers,
         Reserve(w) \/ ReadYear(w) \/ ReadSeq(w) \/ Busy(w) \/ Abort(w)
  PROVE  IdsSound'
<1>1. CASE Reserve(w)
  <2>1. PICK kind \in OpenKinds :
          /\ Become(w, [op |-> "ids", at |-> "year", kind |-> kind, ids |-> <<>>, now |-> year,
                        saw |-> counter])
          /\ UNCHANGED <<ids, codes>>
    BY <1>1 DEF Reserve
  <2>2. /\ req'[w] = [op |-> "ids", at |-> "year", kind |-> kind, ids |-> <<>>, now |-> year,
                      saw |-> counter]
        /\ \A v \in Workers \ {w} : req'[v] = req[v]
    BY <2>1 DEF Become, TypeInv, Requests
  <2>3. year <= year
    BY DEF TypeInv, IdTables
  <2> QED
    BY <2>1, <2>2, <2>3, KeepsIds
<1>2. CASE ReadYear(w)
  <2>1. req[w] \in IdReq /\ req[w].op = "ids"
    BY <1>2, IdRequest DEF TypeInv, ReadYear
  <2>2. /\ req'[w].op = "ids" /\ req'[w].now = year /\ req'[w].saw.year = counter.year
        /\ req'[w].ids = req[w].ids
        /\ \A v \in Workers \ {w} : req'[v] = req[v]
        /\ UNCHANGED ids
    BY <1>2, <2>1 DEF ReadYear, Become, TypeInv, Requests, IdReq, Counters
  <2>3. year <= year /\ counter.year <= year
    BY DEF TypeInv, IdTables, IdsSound
  <2> QED
    BY <2>1, <2>2, <2>3, KeepsIds
<1>3. CASE ReadSeq(w)
  <2>1. req[w] \in IdReq /\ req[w].op = "ids" /\ req[w].at = "seq"
    BY <1>3, IdRequest DEF TypeInv, ReadSeq
  <2>2. /\ req'[w].op = "ids" /\ req'[w].now = req[w].now /\ req'[w].saw.year = req[w].saw.year
        /\ req'[w].ids = req[w].ids
        /\ \A v \in Workers \ {w} : req'[v] = req[v]
        /\ UNCHANGED ids
    BY <1>3, <2>1 DEF ReadSeq, Become, TypeInv, Requests, IdReq, Counters
  <2>3. req[w].now <= year /\ req[w].saw.year <= req[w].now
    BY <2>1 DEF IdsSound, Unused
  <2> QED
    BY <2>1, <2>2, <2>3, KeepsIds
<1>4. CASE Busy(w)
  <2>1. CASE At(w, "ids", "write") /\ Become(w, [req[w] EXCEPT !.at = "year"]) /\ UNCHANGED <<ids, codes>>
    <3>1. req[w] \in IdReq /\ req[w].op = "ids"
      BY <2>1, IdRequest DEF TypeInv
    <3>2. /\ req'[w].op = "ids" /\ req'[w].at = "year" /\ req'[w].now = req[w].now
          /\ req'[w].ids = req[w].ids
          /\ \A v \in Workers \ {w} : req'[v] = req[v]
          /\ UNCHANGED ids
      BY <2>1, <3>1 DEF Become, TypeInv, Requests, IdReq
    <3>3. req[w].now <= year
      BY <3>1 DEF IdsSound, Unused
    <3> QED
      BY <3>1, <3>2, <3>3, KeepsIds
  <2>2. CASE At(w, "client", "code") /\ Become(w, [req[w] EXCEPT !.at = "seq"]) /\ UNCHANGED <<ids, codes>>
    <3>1. req[w] \in ClientReq
      BY <2>2, ClientRequest DEF TypeInv
    <3>2. /\ req'[w].op = "client"
          /\ \A v \in Workers \ {w} : req'[v] = req[v]
          /\ UNCHANGED ids
      BY <2>2, <3>1 DEF Become, TypeInv, Requests, ClientReq
    <3> QED
      BY <3>2, KeepsIds
  <2> QED
    BY <1>4, <2>1, <2>2 DEF Busy
<1>5. CASE Abort(w)
  <2>1. /\ req'[w].op = "none"
        /\ \A v \in Workers \ {w} : req'[v] = req[v]
        /\ UNCHANGED ids
    BY <1>5, Finishes, NoRequest DEF Abort, TypeInv
  <2> QED
    BY <2>1, KeepsIds
<1> QED
  BY <1>1, <1>2, <1>3, <1>4, <1>5

LEMMA IdStepUnique ==
  ASSUME ReferencesAssumption, TypeInv, TypeInv', IdsSound, NEW w \in Workers, IdStep(w), ~Overtaken(w)
  PROVE  IdsSound'
BY InsertLockedUnique, IdleIdsUnique, WriteCounterUnique, InsertReservedUnique DEF IdStep

\* A request about client codes.
LEMMA CodeStepChanges ==
  ASSUME ReferencesAssumption, TypeInv, NEW w \in Workers, CodeStep(w)
  PROVE  /\ UNCHANGED ids
         /\ req'[w].op # "ids"
         /\ \A v \in Workers \ {w} : req'[v] = req[v]
<1>1. ASSUME NEW r \in ClientReq, Become(w, r)
      PROVE  req'[w].op # "ids" /\ \A v \in Workers \ {w} : req'[v] = req[v]
  BY <1>1 DEF Become, TypeInv, Requests, ClientReq
<1>2. ASSUME Finish(w)
      PROVE  req'[w].op # "ids" /\ \A v \in Workers \ {w} : req'[v] = req[v]
  BY <1>2, Finishes, NoRequest DEF TypeInv
<1>3. UNCHANGED ids
  BY DEF CodeStep, OpenForm, SubmitForm, ReadCodeSeq, ReadCodes, WriteCodeSeq, CreateClient,
         CreateFails, AnswerCreated
<1>4. \/ Finish(w)
      \/ \E r : r.op = "client" /\ Become(w, r)
  <2>1. ASSUME NEW b \in Browsers, NEW named \in BOOLEAN, OpenForm(w, b) \/ SubmitForm(w, b, named)
        PROVE  \E r : r.op = "client" /\ Become(w, r)
    BY <2>1 DEF OpenForm, SubmitForm
  <2>2. ASSUME ReadCodeSeq(w) \/ ReadCodes(w) \/ WriteCodeSeq(w) \/ CreateClient(w), ~Finish(w)
        PROVE  \E r : r.op = "client" /\ Become(w, r)
    <3>1. req[w] \in ClientReq
      BY <2>2, ClientRequest DEF TypeInv, ReadCodeSeq, ReadCodes, WriteCodeSeq, CreateClient
    <3>2. CASE ReadCodeSeq(w)
      <4> DEFINE r == [req[w] EXCEPT !.at = "clients", !.code = codeSeq]
      <4>1. r.op = "client" /\ Become(w, r)
        BY <3>1, <3>2 DEF ReadCodeSeq, ClientReq
      <4> QED
        BY <4>1
    <3>3. CASE ReadCodes(w)
      <4> DEFINE n == Max({req[w].code} \cup {c + 1 : c \in DOMAIN clients})
                 r == [req[w] EXCEPT !.at = "code", !.code = n]
      <4>1. Become(w, r)
        BY <3>3 DEF ReadCodes
      <4> HIDE DEF n
      <4>2. r.op = "client"
        BY <3>1 DEF ClientReq
      <4> QED
        BY <4>1, <4>2
    <3>4. CASE WriteCodeSeq(w)
      <4> DEFINE r == [req[w] EXCEPT !.at = "create"]
      <4>1. r.op = "client" /\ Become(w, r)
        BY <2>2, <3>1, <3>4 DEF WriteCodeSeq, ClientReq
      <4> QED
        BY <4>1
    <3>5. CASE CreateClient(w)
      <4> DEFINE r == [req[w] EXCEPT !.at = "answer"]
      <4>1. r.op = "client" /\ Become(w, r)
        BY <2>2, <3>1, <3>5 DEF CreateClient, ClientReq
      <4> QED
        BY <4>1
    <3> QED
      BY <2>2, <3>2, <3>3, <3>4, <3>5
  <2> QED
    BY <2>1, <2>2 DEF CodeStep, CreateFails, AnswerCreated
<1>5. ASSUME NEW r, r.op = "client", Become(w, r)
      PROVE  req'[w].op # "ids" /\ \A v \in Workers \ {w} : req'[v] = req[v]
  BY <1>5 DEF Become, TypeInv, Requests
<1> QED
  BY <1>2, <1>3, <1>4, <1>5

LEMMA CodeStepIds ==
  ASSUME ReferencesAssumption, TypeInv, TypeInv', IdsSound, NEW w \in Workers, CodeStep(w)
  PROVE  IdsSound'
BY CodeStepChanges, KeepsIds

\* A reset finds no request that holds an id.
LEMMA ResetIds ==
  ASSUME ReferencesAssumption, TypeInv, TypeInv', IdsSound, NEW w \in Workers,
         NEW deleteClients \in BOOLEAN, Reset(w, deleteClients), \A v \in Workers \ {w} : Idle(v)
  PROVE  IdsSound'
<1>1. /\ rows' = [t \in Tables |-> {}] /\ counter' = [year |-> 0, seq |-> 0]
      /\ year' = year /\ req' = req
      /\ \A v \in Workers : req'[v].op = "none"
  BY NoRequest DEF Reset, Idle
<1>2. 0 <= year /\ counter'.year = 0
  BY <1>1 DEF TypeInv, IdTables
<1>3. \A t \in Tables : rows'[t] = {}
  BY <1>1
<1> QED
  BY <1>1, <1>2, <1>3 DEF IdsSound, IdsUnique, Unused, Apart

-----------------------------------------------------------------------------
(* Codes are apart as long as requests about them are served one at a time. *)

\* The code that a request has read is the counter's; one that it has taken is
\* no other session's, nor another session's client's.
Held(w) ==
    req[w].op = "client" =>
        /\ req[w].at \in {"clients", "code"} => req[w].code = codeSeq
        /\ req[w].at \in {"create", "answer"} =>
              /\ req[w].code < codeSeq
              /\ \A b \in Browsers : cookie[b] = req[w].code => b = req[w].browser
              /\ req[w].code \in DOMAIN clients => clients[req[w].code] = req[w].browser

CodesSound ==
    /\ \A c \in DOMAIN clients : c < codeSeq
    /\ \A b \in Browsers : cookie[b] < codeSeq
    /\ CodesApart
    /\ \A w \in Workers : Held(w)

\* A step that leaves the codes alone, of a request that is not about them.
LEMMA KeepsCodes ==
  ASSUME CodesSound, UNCHANGED codes,
         \A w \in Workers : req'[w] = req[w] \/ req'[w].op # "client" \/ Held(w)'
  PROVE  CodesSound'
BY DEF codes, CodesSound, CodesApart, Held

\* The other workers are idle.
Alone(w) == \A v \in Workers \ {w} : Idle(v)

LEMMA AloneHeld ==
  ASSUME NEW w \in Workers, Alone(w), \A v \in Workers \ {w} : req'[v] = req[v]
  PROVE  \A v \in Workers \ {w} : Held(v)'
BY NoRequest DEF Alone, Idle, Held

\* A request about codes that goes on, and changes no code.
LEMMA ClientGoesOn ==
  ASSUME TypeInv, CodesSound, NEW w \in Workers, Alone(w), NEW r, Become(w, r), UNCHANGED codes,
         /\ r.at \in {"clients", "code"} => r.code = codeSeq
         /\ r.at \in {"create", "answer"} =>
              /\ r.code < codeSeq
              /\ \A b \in Browsers : cookie[b] = r.code => b = r.browser
              /\ r.code \in DOMAIN clients => clients[r.code] = r.browser
  PROVE  CodesSound'
<1>1. req'[w] = r /\ \A v \in Workers \ {w} : req'[v] = req[v]
  BY DEF Become, TypeInv, Requests
<1>2. Held(w)'
  BY <1>1 DEF Held, codes
<1>3. \A v \in Workers \ {w} : Held(v)'
  BY <1>1, AloneHeld
<1> QED
  BY <1>2, <1>3, KeepsCodes

\* A request ends and sets its browser's cookie to a code that is its own.
LEMMA SetsCookie ==
  ASSUME TypeInv, CodesSound, NEW w \in Workers, Alone(w), req[w] \in ClientReq,
         NEW code, SetCookie(w, code), Finish(w), codeSeq \in Int, codeSeq' \in Int,
         codeSeq <= codeSeq', code < codeSeq', UNCHANGED clients,
         \/ code = NoCode
         \/ /\ \A b \in Browsers : cookie[b] = code => b = req[w].browser
            /\ code \in DOMAIN clients => clients[code] = req[w].browser
  PROVE  CodesSound'
<1> DEFINE b == req[w].browser
<1>1. /\ b \in Browsers /\ cookie'[b] = code
      /\ \A d \in Browsers \ {b} : cookie'[d] = cookie[d]
  BY DEF SetCookie, TypeInv, CodeTables, ClientReq
<1>2. PICK d \in Browsers : d = b
  BY <1>1
<1> HIDE DEF b
<1>3. \A v \in Workers : Held(v)'
  <2>1. req'[w].op # "client" /\ \A v \in Workers \ {w} : req'[v] = req[v]
    BY Finishes, NoRequest DEF TypeInv
  <2> QED
    BY <2>1, AloneHeld DEF Held
<1>4. \A c \in DOMAIN clients : c < codeSeq'
  <2>1. \A c \in DOMAIN clients : c \in Int /\ c < codeSeq
    BY DEF CodesSound, TypeInv, CodeTables
  <2> QED
    BY <2>1
<1>5. \A e \in Browsers : cookie'[e] < codeSeq'
  <2>1. \A e \in Browsers : cookie[e] \in Int /\ cookie[e] < codeSeq
    BY DEF CodesSound, TypeInv, CodeTables
  <2> QED
    BY <1>1, <2>1
<1>6. ASSUME NEW e \in Browsers, cookie'[e] # NoCode
      PROVE  /\ \A g \in Browsers : cookie'[g] = cookie'[e] => g = e
             /\ cookie'[e] \in DOMAIN clients => clients[cookie'[e]] = e
  <2>1. CASE e = d
    BY <1>1, <1>2, <1>6, <2>1 DEF b
  <2>2. CASE e # d
    <3>1. cookie'[e] = cookie[e] /\ cookie[e] # NoCode
      BY <1>1, <1>2, <1>6, <2>2
    <3>2. /\ \A g \in Browsers : cookie[g] = cookie[e] => g = e
          /\ cookie[e] \in DOMAIN clients => clients[cookie[e]] = e
      BY <3>1 DEF CodesSound, CodesApart
    <3>3. cookie'[d] # cookie[e]
      BY <1>1, <1>2, <1>6, <2>2, <3>1 DEF b
    <3> QED
      BY <1>1, <1>2, <3>1, <3>2, <3>3
  <2> QED
    BY <2>1, <2>2
<1> QED
  BY <1>3, <1>4, <1>5, <1>6 DEF CodesSound, CodesApart

LEMMA FormsApart ==
  ASSUME ReferencesAssumption, TypeInv, CodesSound, NEW w \in Workers, Alone(w),
         NEW b \in Browsers, NEW named \in BOOLEAN, OpenForm(w, b) \/ SubmitForm(w, b, named)
  PROVE  CodesSound'
<1>1. CASE OpenForm(w, b)
  <2> DEFINE r == [op |-> "client", at |-> "seq", browser |-> b, then |-> "page", code |-> NoCode]
  <2>1. Become(w, r) /\ UNCHANGED codes
    BY <1>1 DEF OpenForm
  <2> QED
    BY <2>1, ClientGoesOn
<1>2. CASE SubmitForm(w, b, named)
  <2> DEFINE r == [op |-> "client", at |-> IF cookie[b] = NoCode THEN "seq" ELSE "create",
                   browser |-> b, then |-> IF named THEN "create" ELSE "page", code |-> cookie[b]]
  <2>1. Become(w, r) /\ UNCHANGED codes
    BY <1>2 DEF SubmitForm
  <2>2. cookie[b] # NoCode =>
            /\ cookie[b] < codeSeq
            /\ \A d \in Browsers : cookie[d] = cookie[b] => d = b
            /\ cookie[b] \in DOMAIN clients => clients[cookie[b]] = b
    BY DEF CodesSound, CodesApart
  <2> QED
    BY <2>1, <2>2, ClientGoesOn
<1> QED
  BY <1>1, <1>2

LEMMA ReadsApart ==
  ASSUME ReferencesAssumption, TypeInv, CodesSound, NEW w \in Workers, Alone(w),
         ReadCodeSeq(w) \/ ReadCodes(w)
  PROVE  CodesSound'
<1>1. req[w] \in ClientReq
  BY ClientRequest DEF TypeInv, ReadCodeSeq, ReadCodes
<1>2. CASE ReadCodeSeq(w)
  <2> DEFINE r == [req[w] EXCEPT !.at = "clients", !.code = codeSeq]
  <2>1. Become(w, r) /\ UNCHANGED codes /\ r.at = "clients" /\ r.code = codeSeq
    BY <1>1, <1>2 DEF ReadCodeSeq, ClientReq
  <2> QED
    BY <2>1, ClientGoesOn
<1>3. CASE ReadCodes(w)
  <2> DEFINE n == Max({req[w].code} \cup {c + 1 : c \in DOMAIN clients})
             r == [req[w] EXCEPT !.at = "code", !.code = n]
  <2>1. req[w].code = codeSeq /\ req[w].code \in 0..(MaxCode + 1)
    BY <1>1, <1>3, ClientRequest DEF ReadCodes, TypeInv, CodesSound, Held, ClientReq
  <2>2. n = codeSeq
    BY <2>1, NextCodeRead DEF CodesSound, TypeInv
  <2>3. Become(w, r) /\ UNCHANGED codes
    BY <1>3 DEF ReadCodes
  <2> HIDE DEF n
  <2>4. r.at = "code" /\ r.code = codeSeq
    BY <1>1, <2>2 DEF ClientReq
  <2> QED
    BY <2>3, <2>4, ClientGoesOn
<1> QED
  BY <1>2, <1>3

LEMMA WriteCodeSeqApart ==
  ASSUME ReferencesAssumption, TypeInv, CodesSound, NEW w \in Workers, Alone(w), WriteCodeSeq(w)
  PROVE  CodesSound'
<1>1. req[w] \in ClientReq /\ Whole(req[w]) /\ req[w].op = "client" /\ req[w].at = "code"
  BY ClientRequest DEF TypeInv, WriteCodeSeq
<1>2. /\ req[w].code = codeSeq /\ codeSeq' = codeSeq + 1 /\ UNCHANGED clients
      /\ codeSeq \in Int
  BY <1>1 DEF WriteCodeSeq, NextCode, CodesSound, Held, TypeInv, CodeTables
<1>3. /\ \A b \in Browsers : cookie[b] \in Int /\ cookie[b] < codeSeq
      /\ \A c \in DOMAIN clients : c \in Int /\ c < codeSeq
  BY DEF CodesSound, TypeInv, CodeTables
<1>4. (\A b \in Browsers : cookie[b] # codeSeq) /\ codeSeq \notin DOMAIN clients
  BY <1>2, <1>3
<1>5. CASE req[w].then = "page"
  <2>1. SetCookie(w, codeSeq) /\ Finish(w)
    BY <1>2, <1>5 DEF WriteCodeSeq
  <2> QED
    BY <1>1, <1>2, <1>4, <2>1, SetsCookie
<1>6. CASE req[w].then # "page"
  <2> DEFINE r == [req[w] EXCEPT !.at = "create"]
  <2>1. Become(w, r) /\ UNCHANGED cookie
    BY <1>6 DEF WriteCodeSeq
  <2>2. r.code = codeSeq /\ r.at = "create"
    BY <1>1, <1>2 DEF ClientReq
  <2>3. req'[w] = r /\ \A v \in Workers \ {w} : req'[v] = req[v]
    BY <2>1 DEF Become, TypeInv, Requests
  <2>4. Held(w)'
    BY <1>2, <1>4, <2>1, <2>2, <2>3 DEF Held
  <2>5. \A v \in Workers : Held(v)'
    BY <2>3, <2>4, AloneHeld
  <2>6. /\ \A b \in Browsers : cookie'[b] < codeSeq'
        /\ \A c \in DOMAIN clients' : c < codeSeq'
    BY <1>2, <1>3, <2>1
  <2> QED
    BY <1>2, <2>1, <2>5, <2>6 DEF CodesSound, CodesApart
<1> QED
  BY <1>5, <1>6

LEMMA CreateApart ==
  ASSUME ReferencesAssumption, TypeInv, CodesSound, NEW w \in Workers, Alone(w),
         CreateClient(w) \/ CreateFails(w) \/ AnswerCreated(w)
  PROVE  CodesSound'
<1> DEFINE code == req[w].code
           b == req[w].browser
<1>1. /\ req[w] \in ClientReq /\ Whole(req[w]) /\ req[w].op = "client"
      /\ req[w].at \in {"create", "answer"}
  BY ClientRequest DEF TypeInv, CreateClient, CreateFails, AnswerCreated
<1>2. /\ code < codeSeq
      /\ \A d \in Browsers : cookie[d] = code => d = b
      /\ code \in DOMAIN clients => clients[code] = b
  BY <1>1 DEF CodesSound, Held
<1>3. codeSeq \in Int /\ 0 < codeSeq /\ b \in Browsers
  BY <1>1 DEF TypeInv, CodeTables, ClientReq
<1>4. CASE SetCookie(w, code) /\ Finish(w) /\ UNCHANGED <<codeSeq, clients>>
  BY <1>1, <1>2, <1>3, <1>4, SetsCookie
<1>5. CASE SetCookie(w, NoCode) /\ Finish(w) /\ UNCHANGED <<codeSeq, clients>>
  BY <1>1, <1>3, <1>5, SetsCookie DEF NoCode
<1>6. CASE CreateClient(w) /\ code \notin DOMAIN clients
  <2> DEFINE r == [req[w] EXCEPT !.at = "answer"]
  <2>1. /\ clients' = [c \in DOMAIN clients \cup {code} |-> IF c = code THEN b ELSE clients[c]]
        /\ Become(w, r) /\ UNCHANGED <<cookie, codeSeq>>
    BY <1>6 DEF CreateClient
  <2>2. req'[w] = r /\ \A v \in Workers \ {w} : req'[v] = req[v]
    BY <2>1 DEF Become, TypeInv, Requests
  <2>3. r.code = code /\ r.browser = b /\ r.at = "answer"
    BY <1>1 DEF ClientReq
  <2>4. /\ DOMAIN clients' = DOMAIN clients \cup {code}
        /\ clients'[code] = b
        /\ \A c \in DOMAIN clients : clients'[c] = clients[c]
    BY <1>6, <2>1
  <2> HIDE DEF code, b, r
  <2>5. Held(w)'
    BY <1>2, <2>1, <2>2, <2>3, <2>4 DEF Held
  <2>6. \A v \in Workers : Held(v)'
    BY <2>2, <2>5, AloneHeld
  <2>7. CodesApart'
    BY <1>2, <2>1, <2>4 DEF CodesSound, CodesApart
  <2> QED
    BY <1>2, <2>1, <2>4, <2>6, <2>7 DEF CodesSound
<1> QED
  BY <1>4, <1>5, <1>6 DEF CreateClient, CreateFails, AnswerCreated

LEMMA CodeStepApart ==
  ASSUME ReferencesAssumption, TypeInv, CodesSound, NEW w \in Workers, Alone(w), CodeStep(w)
  PROVE  CodesSound'
BY FormsApart, ReadsApart, WriteCodeSeqApart, CreateApart DEF CodeStep

\* A reset that keeps the clients, or a request that is refused or tried again.
LEMMA OtherStepsApart ==
  ASSUME ReferencesAssumption, TypeInv, CodesSound, NEW w \in Workers,
         Busy(w) \/ Abort(w) \/ Reset(w, FALSE)
  PROVE  CodesSound'
<1>1. CASE Reset(w, FALSE)
  <2>1. UNCHANGED codes /\ req' = req
    BY <1>1 DEF Reset, codes
  <2> QED
    BY <2>1, KeepsCodes
<1>2. CASE Abort(w)
  <2>1. UNCHANGED codes /\ req'[w].op # "client" /\ \A v \in Workers \ {w} : req'[v] = req[v]
    BY <1>2, Finishes, NoRequest DEF Abort, TypeInv
  <2> QED
    BY <2>1, KeepsCodes
<1>3. CASE Busy(w)
  <2>1. UNCHANGED codes /\ \A v \in Workers \ {w} : req'[v] = req[v]
    BY <1>3 DEF Busy, Become, TypeInv, Requests
  <2>2. req'[w].at \in {"year", "seq"}
    BY <1>3, IdRequest, ClientRequest DEF Busy, Become, TypeInv, Requests, IdReq, ClientReq
  <2>3. Held(w)'
    BY <2>2 DEF Held
  <2> QED
    BY <2>1, <2>3, KeepsCodes
<1> QED
  BY <1>1, <1>2, <1>3

-----------------------------------------------------------------------------
(* The behaviours of the runs, of any size.                                 *)

\* Client codes are asked for by one request at a time.
Topics ==
    /\ topic = "codes" => oneByOne
    /\ topic # "codes" => \A w \in Workers : req[w].op # "client"

Sound ==
    /\ TypeInv
    /\ Topics
    /\ ~overtaken => IdsSound
    /\ ~wiped => CodesSound

LEMMA SoundAtFirst == MCInit => Sound
<1> SUFFICES ASSUME MCInit PROVE Sound
  OBVIOUS
<1>1. TypeInv /\ Init
  BY InitTyped, ReferencesAssumption DEF MCInit
<1>2. Topics
  BY NoRequest DEF MCInit, Init, Topics
<1>3. \A w \in Workers : req[w].op = "none"
  BY NoRequest DEF MCInit, Init
<1>4. IdsSound
  <2>1. counter.year = 0 /\ year = 1 /\ \A t \in Tables : rows[t] = {}
    BY <1>1 DEF Init
  <2> QED
    BY <1>3, <2>1 DEF IdsSound, IdsUnique, Unused, Apart
<1>5. CodesSound
  <2>1. DOMAIN clients = {} /\ codeSeq = 1 /\ \A b \in Browsers : cookie[b] = NoCode
    BY <1>1 DEF Init, FirstCode
  <2> QED
    BY <1>3, <2>1 DEF CodesSound, CodesApart, Held, NoCode
<1> QED
  BY <1>1, <1>2, <1>4, <1>5 DEF Sound

\* Each step of the runs is a step of References.
LEMMA RunStep ==
  ASSUME MCNext
  PROVE  /\ Next /\ ~overtaken /\ topic' = topic /\ oneByOne' = oneByOne
         /\ \/ topic = "ids" /\ NewYear /\ UNCHANGED <<overtaken, wiped>>
            \/ \E w \in Workers : MCStep(w) /\ (oneByOne => Alone(w))
<1>1. \A w \in Workers : MCStep(w) => Step(w)
  BY DEF MCStep, Step
<1> QED
  BY <1>1 DEF MCNext, Next, Alone

LEMMA TopicsStay ==
  ASSUME Sound, TypeInv', MCNext
  PROVE  Topics'
<1>1. topic' = topic /\ oneByOne' = oneByOne
  BY RunStep
<1>2. ASSUME topic # "codes", NEW w \in Workers PROVE req'[w].op # "client"
  <2>1. \A v \in Workers : req[v].op # "client"
    BY <1>2 DEF Sound, Topics
  <2>2. CASE NewYear
    BY <2>1, <2>2 DEF NewYear
  <2>3. ASSUME NEW v \in Workers, MCStep(v) PROVE req'[w].op # "client"
    <3>1. CASE IdStep(v)
      <4>1. CASE InsertLocked(v)
        BY <2>1, <4>1 DEF InsertLocked
      <4>2. CASE InsertReserved(v)
        BY <2>1, <4>2, Finishes, NoRequest DEF InsertReserved, Sound, TypeInv
      <4>3. CASE Reserve(v)
        BY <2>1, <4>3 DEF Reserve, Become, Sound, TypeInv, Requests
      <4>4. CASE ReadYear(v) \/ ReadSeq(v) \/ WriteCounter(v)
        <5>1. req[v] \in IdReq
          BY <4>4, IdRequest DEF Sound, TypeInv, ReadYear, ReadSeq, WriteCounter
        <5>2. \E r : r.op = "ids" /\ Become(v, r)
          <6>1. CASE ReadYear(v)
            <7> DEFINE r == [req[v] EXCEPT !.at = "seq", !.now = year, !.saw.year = counter.year]
            <7>1. r.op = "ids" /\ Become(v, r)
              BY <5>1, <6>1 DEF ReadYear, IdReq
            <7> QED
              BY <7>1
          <6>2. CASE ReadSeq(v)
            <7> DEFINE r == [req[v] EXCEPT !.at = "write", !.saw.seq = counter.seq]
            <7>1. r.op = "ids" /\ Become(v, r)
              BY <5>1, <6>2 DEF ReadSeq, IdReq
            <7> QED
              BY <7>1
          <6>3. CASE WriteCounter(v)
            <7> DEFINE new == Append(req[v].ids, <<req[v].now, Base(req[v].saw, req[v].now) + 1>>)
                       at == IF Len(new) = Len(req[v].kind) THEN "insert" ELSE "year"
                       r == [req[v] EXCEPT !.ids = new, !.at = at]
            <7>1. Become(v, r)
              BY <6>3 DEF WriteCounter
            <7> HIDE DEF new, at
            <7>2. r.op = "ids"
              BY <5>1 DEF IdReq
            <7> QED
              BY <7>1, <7>2
          <6> QED
            BY <4>4, <6>1, <6>2, <6>3
        <5> QED
          BY <2>1, <5>2 DEF Become, Sound, TypeInv, Requests
      <4> QED
        BY <3>1, <4>1, <4>2, <4>3, <4>4 DEF IdStep
    <3>2. CASE Abort(v)
      BY <2>1, <3>2, Finishes, NoRequest DEF Abort, Sound, TypeInv
    <3>3. CASE Busy(v)
      <4>1. At(v, "ids", "write") /\ Become(v, [req[v] EXCEPT !.at = "year"])
        BY <2>1, <3>3 DEF Busy, At
      <4>2. req[v] \in IdReq
        BY <4>1, IdRequest DEF Sound, TypeInv
      <4>3. req'[v].op = "ids" /\ \A u \in Workers \ {v} : req'[u] = req[u]
        BY <4>1, <4>2 DEF Become, IdReq, Sound, TypeInv, Requests
      <4> QED
        BY <2>1, <4>3
    <3>4. CASE Reset(v, FALSE)
      BY <2>1, <3>4 DEF Reset
    <3> QED
      BY <1>2, <2>3, <3>1, <3>2, <3>3, <3>4 DEF MCStep
  <2> QED
    BY <2>2, <2>3, RunStep
<1> QED
  BY <1>1, <1>2 DEF Sound, Topics

LEMMA SoundStays == Sound /\ [MCNext]_MCvars => Sound'
<1>1. ASSUME Sound, UNCHANGED MCvars PROVE Sound'
  BY <1>1 DEF MCvars, vars, ids, codes, Sound, TypeInv, IdTables, CodeTables, Requests, Topics,
     IdsSound, IdsUnique, Unused, Apart, CodesSound, CodesApart, Held
<1>2. ASSUME Sound, MCNext PROVE Sound'
  <2>1. TypeInv' /\ TypeInv /\ IdsSound /\ ReferencesAssumption
    BY <1>2, RunStep, StepTyped, ReferencesAssumption DEF Sound
  <2>2. Topics'
    BY <1>2, <2>1, TopicsStay
  <2>3. CASE NewYear /\ UNCHANGED <<overtaken, wiped>>
    <3>1. IdsSound'
      BY <2>1, <2>3, NewYearUnique
    <3>2. ~wiped => CodesSound'
      BY <1>2, <2>3, KeepsCodes DEF NewYear, Sound
    <3> QED
      BY <2>1, <2>2, <2>3, <3>1, <3>2 DEF Sound
  <2>4. ASSUME NEW w \in Workers, MCStep(w), oneByOne => Alone(w) PROVE Sound'
    <3>1. CASE IdStep(w) /\ topic = "ids" /\ overtaken' = Overtaken(w) /\ UNCHANGED wiped
      <4>1. ~overtaken' => IdsSound'
        BY <2>1, <3>1, IdStepUnique
      <4>2. UNCHANGED codes
        BY <3>1 DEF IdStep, InsertLocked, Reserve, ReadYear, ReadSeq, WriteCounter, InsertReserved
      <4>3. \A v \in Workers : req'[v].op # "client"
        BY <3>1, <2>2, RunStep, <1>2 DEF Topics
      <4>4. ~wiped => CodesSound'
        BY <1>2, <4>2, <4>3, KeepsCodes DEF Sound
      <4> QED
        BY <2>1, <2>2, <3>1, <4>1, <4>4 DEF Sound
    <3>2. CASE topic = "codes" /\ CodeStep(w) /\ UNCHANGED <<overtaken, wiped>>
      <4>1. Alone(w)
        BY <1>2, <2>4, <3>2 DEF Sound, Topics
      <4>2. ~wiped => CodesSound'
        BY <1>2, <2>1, <3>2, <4>1, CodeStepApart DEF Sound
      <4> QED
        BY <2>1, <2>2, <3>2, <4>2, CodeStepIds DEF Sound
    <3>3. CASE (Busy(w) \/ Abort(w)) /\ UNCHANGED <<overtaken, wiped>>
      BY <1>2, <2>1, <2>2, <3>3, IdleIdsUnique, OtherStepsApart DEF Sound
    <3>4. CASE oneByOne /\ Reset(w, FALSE) /\ UNCHANGED <<overtaken, wiped>>
      BY <1>2, <2>1, <2>2, <2>4, <3>4, ResetIds, OtherStepsApart DEF Sound, Alone
    <3>5. CASE topic = "codes" /\ Reset(w, TRUE) /\ wiped' = TRUE /\ UNCHANGED overtaken
      <4>1. Alone(w)
        BY <1>2, <2>4, <3>5 DEF Sound, Topics
      <4> QED
        BY <2>1, <2>2, <3>5, <4>1, ResetIds DEF Sound, Alone
    <3> QED
      BY <2>4, <3>1, <3>2, <3>3, <3>4, <3>5 DEF MCStep
  <2> QED
    BY <1>2, <2>3, <2>4, RunStep
<1> QED
  BY <1>1, <1>2

\* Every number names one thing: an id one row, until a reservation is
\* overtaken; and one at a time, until the clients are deleted under open
\* forms, a code one form or client (reserve_next_transaction_id, new_client).
THEOREM NumbersStayUnique == MCSpec => []NumbersUnique
<1>1. Sound => NumbersUnique
  BY DEF Sound, IdsSound, CodesSound, NumbersUnique
<1> QED
  BY <1>1, SoundAtFirst, SoundStays, PTL DEF MCSpec
=============================================================================
