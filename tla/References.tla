------------------------------ MODULE References ------------------------------
(* The numbers a ledger gives out (database.py): transaction ids, counted by *)
(* year, and client codes. A posting, an office row and an import take their *)
(* ids inside their write transaction; fee transfers and reversals reserve   *)
(* theirs first, by reads that lock nothing and a write that follows. The    *)
(* code of a new client is reserved when the form is shown and kept in the   *)
(* browser's session cookie until the form is sent.                          *)
(*                                                                           *)
(* What else the requests check is left out: any of them may be refused.     *)
EXTENDS Integers, Sequences, FiniteSets, FiniteSetsExt

CONSTANTS
    Workers,     \* processes or threads that serve requests
    Browsers,    \* browser sessions at the new-client form
    LockedKinds, \* the tables that a request with a write lock inserts into
    OpenKinds,   \* the tables that a request that reserves first inserts into
    MaxYear,     \* bound on the years
    MaxSeq,      \* bound on the ids of a year
    MaxCode      \* bound on the client codes

Tables == {"ledger", "cashbook", "office", "fees"}

ASSUME ReferencesAssumption ==
    /\ LockedKinds \cup OpenKinds \subseteq Seq(Tables)
    /\ <<>> \notin OpenKinds
    /\ MaxYear \in Nat \ {0} /\ MaxSeq \in Nat /\ MaxCode \in Nat

VARIABLES
    year,     \* the calendar year
    counter,  \* txn_id_year and txn_id_seq of system_config
    rows,     \* the ids of each table's rows
    codeSeq,  \* client_code_seq of system_config
    clients,  \* the client codes, and in which session each was made
    cookie,   \* reserved_client_code in each browser's cookie
    req       \* the request each worker is serving

ids == <<year, counter, rows>>
codes == <<codeSeq, clients, cookie>>
vars == <<ids, codes, req>>

NoCode == 0
Ids == (1..MaxYear) \X (1..MaxSeq)
Counters == [year : 0..MaxYear, seq : 0..MaxSeq]

NoReq == [op |-> "none"]
IdReq == [op : {"ids"}, at : {"year", "seq", "write", "insert"}, kind : OpenKinds,
          ids : Seq(Ids), now : 1..MaxYear, saw : Counters]
ClientReq == [op : {"client"}, at : {"seq", "clients", "code", "create", "answer"},
              browser : Browsers, then : {"page", "create"}, code : 0..(MaxCode + 1)]

TypeOK ==
    /\ year \in 1..MaxYear
    /\ counter \in Counters
    /\ rows \in [Tables -> SUBSET Ids]
    /\ codeSeq \in 1..(MaxCode + 1)
    /\ DOMAIN clients \subseteq 1..MaxCode /\ \A c \in DOMAIN clients : clients[c] \in Browsers
    /\ cookie \in [Browsers -> 0..MaxCode]
    /\ req \in [Workers -> {NoReq} \cup IdReq \cup ClientReq]
    /\ \A w \in Workers : req[w].op = "ids" => Len(req[w].ids) <= Len(req[w].kind)

Idle(w) == req[w] = NoReq
At(w, op, label) == req[w].op = op /\ req[w].at = label
Become(w, r) == req' = [req EXCEPT ![w] = r]
Finish(w) == Become(w, NoReq)

-----------------------------------------------------------------------------
(* Transaction ids: TXN-year-seq, from 1 in every year.                     *)

\* Mutant: the sequence starts again while the year lasts.
Base_Swapped(c, y) == IF c.year = y THEN 0 ELSE c.seq

\* _reserve_next_txn_id_cursor: the last number of year y.
Base(c, y) == IF c.year = y THEN c.seq ELSE 0

\* The UNIQUE columns: no table may have an id twice.
Insertable(kind, new) == \A i \in DOMAIN kind : new[i] \notin rows[kind[i]]

Inserted(kind, new) ==
    [t \in Tables |-> rows[t] \cup {new[i] : i \in {i \in DOMAIN kind : kind[i] = t}}]

\* create_ledger_and_cashbook_transaction, create_office_transaction and
\* approve_office_import_batch: BEGIN IMMEDIATE, ids and rows, one commit. An
\* IntegrityError takes the counter back with the rows.
InsertLocked(w) ==
    \E kind \in LockedKinds :
        LET last == Base(counter, year) + Len(kind)
            new == [i \in DOMAIN kind |-> <<year, Base(counter, year) + i>>]
        IN  /\ Idle(w)
            /\ last <= MaxSeq
            /\ Insertable(kind, new)
            /\ rows' = Inserted(kind, new)
            /\ counter' = [year |-> year, seq |-> last]
            /\ UNCHANGED <<year, codes, req>>

\* A fee transfer or a reversal: one reserve_next_transaction_id for each row,
\* each on a connection of its own.
Reserve(w) ==
    \E kind \in OpenKinds :
        /\ Idle(w)
        /\ Become(w, [op |-> "ids", at |-> "year", kind |-> kind, ids |-> <<>>, now |-> year,
                      saw |-> counter])
        /\ UNCHANGED <<ids, codes>>

ReadYear(w) ==
    /\ At(w, "ids", "year")
    /\ Become(w, [req[w] EXCEPT !.at = "seq", !.now = year, !.saw.year = counter.year])
    /\ UNCHANGED <<ids, codes>>

ReadSeq(w) ==
    /\ At(w, "ids", "seq")
    /\ Become(w, [req[w] EXCEPT !.at = "write", !.saw.seq = counter.seq])
    /\ UNCHANGED <<ids, codes>>

WriteCounter(w) ==
    LET r == req[w]
        seq == Base(r.saw, r.now) + 1
        new == Append(r.ids, <<r.now, seq>>)
    IN
    /\ At(w, "ids", "write")
    /\ seq <= MaxSeq
    /\ counter' = [year |-> r.now, seq |-> seq]
    /\ Become(w, [r EXCEPT !.ids = new, !.at = IF Len(new) = Len(r.kind) THEN "insert" ELSE "year"])
    /\ UNCHANGED <<year, rows, codes>>

\* The database is locked: the reservation is tried again from its reads.
Busy(w) ==
    \/ /\ At(w, "ids", "write")
       /\ Become(w, [req[w] EXCEPT !.at = "year"])
       /\ UNCHANGED <<ids, codes>>
    \/ /\ At(w, "client", "code")
       /\ Become(w, [req[w] EXCEPT !.at = "seq"])
       /\ UNCHANGED <<ids, codes>>

\* The rows of the request, in one transaction. An IntegrityError ends it; its
\* ids stay reserved.
InsertReserved(w) ==
    LET r == req[w] IN
    /\ At(w, "ids", "insert")
    /\ rows' = IF Insertable(r.kind, r.ids) THEN Inserted(r.kind, r.ids) ELSE rows
    /\ Finish(w)
    /\ UNCHANGED <<year, counter, codes>>

-----------------------------------------------------------------------------
(* Client codes: CLC-0001-0001 and on.                                      *)

\* new_client by GET.
OpenForm(w, b) ==
    /\ Idle(w)
    /\ Become(w, [op |-> "client", at |-> "seq", browser |-> b, then |-> "page", code |-> NoCode])
    /\ UNCHANGED <<ids, codes>>

\* new_client by POST, with the code of the cookie that was sent. Without a
\* name the form is shown again, under a code reserved now if there is none.
SubmitForm(w, b, named) ==
    /\ Idle(w)
    /\ named \/ cookie[b] = NoCode
    /\ Become(w, [op |-> "client", at |-> IF cookie[b] = NoCode THEN "seq" ELSE "create",
                  browser |-> b, then |-> IF named THEN "create" ELSE "page", code |-> cookie[b]])
    /\ UNCHANGED <<ids, codes>>

\* reserve_next_client_code: the counter, or one more than the highest code if
\* that is more.
ReadCodeSeq(w) ==
    /\ At(w, "client", "seq")
    /\ Become(w, [req[w] EXCEPT !.at = "clients", !.code = codeSeq])
    /\ UNCHANGED <<ids, codes>>

ReadCodes(w) ==
    /\ At(w, "client", "clients")
    /\ Become(w, [req[w] EXCEPT !.at = "code", !.code = Max({@} \cup {c + 1 : c \in DOMAIN clients})])
    /\ UNCHANGED <<ids, codes>>

\* The answer to a request of browser b sets its cookie.
SetCookie(w, code) == cookie' = [cookie EXCEPT ![req[w].browser] = code]

\* Mutant: the counter is left as it was read.
NextCode_Same(code) == code

NextCode(code) == code + 1

WriteCodeSeq(w) ==
    LET r == req[w] IN
    /\ At(w, "client", "code")
    /\ r.code <= MaxCode
    /\ codeSeq' = NextCode(r.code)
    /\ IF r.then = "page"
       THEN SetCookie(w, r.code) /\ Finish(w)
       ELSE Become(w, [r EXCEPT !.at = "create"]) /\ UNCHANGED cookie
    /\ UNCHANGED <<ids, clients>>

\* create_client. A code that exists is a ValueError, and the session keeps it.
CreateClient(w) ==
    LET r == req[w] IN
    /\ At(w, "client", "create")
    /\ IF r.code \in DOMAIN clients
       THEN SetCookie(w, r.code) /\ Finish(w) /\ UNCHANGED clients
       ELSE /\ clients' = [c \in DOMAIN clients \cup {r.code} |->
                              IF c = r.code THEN r.browser ELSE clients[c]]
            /\ Become(w, [r EXCEPT !.at = "answer"])
            /\ UNCHANGED cookie
    /\ UNCHANGED <<ids, codeSeq>>

\* The database is busy to the last retry, or what follows the commit fails:
\* the session keeps the code.
CreateFails(w) ==
    /\ At(w, "client", "create") \/ At(w, "client", "answer")
    /\ SetCookie(w, req[w].code)
    /\ Finish(w)
    /\ UNCHANGED <<ids, codeSeq, clients>>

AnswerCreated(w) ==
    /\ At(w, "client", "answer")
    /\ SetCookie(w, NoCode)
    /\ Finish(w)
    /\ UNCHANGED <<ids, codeSeq, clients>>

-----------------------------------------------------------------------------
\* Mutant: codes start at the number that the other counter starts at.
FirstCode_Zero == 0

FirstCode == 1

\* full_system_reset.
Reset(w, deleteClients) ==
    /\ Idle(w)
    /\ rows' = [t \in Tables |-> {}]
    /\ counter' = [year |-> 0, seq |-> 0]
    /\ IF deleteClients
       THEN clients' = [c \in {} |-> CHOOSE b \in Browsers : TRUE] /\ codeSeq' = FirstCode
       ELSE UNCHANGED <<clients, codeSeq>>
    /\ UNCHANGED <<year, cookie, req>>

NewYear ==
    /\ year < MaxYear
    /\ year' = year + 1
    /\ UNCHANGED <<counter, rows, codes, req>>

\* The worker is stopped, the request refused, or the answer lost.
Abort(w) ==
    /\ ~Idle(w)
    /\ Finish(w)
    /\ UNCHANGED <<ids, codes>>

Init ==
    /\ year = 1
    /\ counter = [year |-> 0, seq |-> 0]
    /\ rows = [t \in Tables |-> {}]
    /\ codeSeq = FirstCode
    /\ clients = [c \in {} |-> CHOOSE b \in Browsers : TRUE]
    /\ cookie = [b \in Browsers |-> NoCode]
    /\ req = [w \in Workers |-> NoReq]

IdStep(w) == InsertLocked(w) \/ Reserve(w) \/ ReadYear(w) \/ ReadSeq(w) \/ WriteCounter(w)
                \/ InsertReserved(w)

CodeStep(w) ==
    \/ \E b \in Browsers : OpenForm(w, b) \/ SubmitForm(w, b, TRUE) \/ SubmitForm(w, b, FALSE)
    \/ ReadCodeSeq(w) \/ ReadCodes(w) \/ WriteCodeSeq(w)
    \/ CreateClient(w) \/ CreateFails(w) \/ AnswerCreated(w)

Step(w) == IdStep(w) \/ CodeStep(w) \/ Busy(w) \/ Abort(w)
              \/ \E deleteClients \in BOOLEAN : Reset(w, deleteClients)

Next == NewYear \/ \E w \in Workers : Step(w)

Spec == Init /\ [][Next]_vars

-----------------------------------------------------------------------------
\* The counter was moved since the request w read it.
Overtaken(w) == At(w, "ids", "write") /\ req[w].saw # counter

-----------------------------------------------------------------------------
(* What holds until a reservation is overtaken, and of codes as long as      *)
(* requests are served one at a time (MCReferences).                         *)

\* No two rows of any tables have the same id, and none has an id that the
\* counter is still to give out: a locked insert never fails for good.
IdsUnique ==
    /\ \A t, u \in Tables : t # u => rows[t] \cap rows[u] = {}
    /\ \A t \in Tables : \A id \in rows[t] :
          id[1] < counter.year \/ (id[1] = counter.year /\ id[2] <= counter.seq)

\* Two sessions never hold the same code, nor one the code of a client that
\* another made.
CodesApart ==
    \A b \in Browsers : cookie[b] # NoCode =>
        /\ \A d \in Browsers : cookie[d] = cookie[b] => d = b
        /\ cookie[b] \in DOMAIN clients => clients[cookie[b]] = b
=============================================================================
