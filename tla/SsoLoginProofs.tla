---------------------------- MODULE SsoLoginProofs ----------------------------
(***************************************************************************)
(* Proofs about SsoLogin, for any number of processes, people, accounts,   *)
(* tokens and seconds: a running process accepts a token at most once, an  *)
(* account stays its person's, and logins served one at a time make one    *)
(* account for each.                                                       *)
(***************************************************************************)
EXTENDS MCSsoLogin, WellFoundedInduction, TLAPS

(* A running process accepts a token at most once in its time.             *)

\* What a process has accepted it still remembers, or the token has expired:
\* the purge drops nothing else. A token being looked at was issued.
Remembered ==
    /\ now \in Nat
    /\ \A t \in Tokens : tokens[t].exp \in Int
    /\ DOMAIN tokens = Tokens
    /\ seen \in [Workers -> SUBSET Tokens]
    /\ used \in [Workers -> [Tokens -> {0, 1}]]
    /\ DOMAIN at = Workers
    /\ DOMAIN req = Workers
    /\ \A w \in Workers : At(w, "record") =>
          req[w].token \in Tokens /\ tokens[req[w].token] # NoToken
    /\ \A w \in Workers, t \in Tokens : used[w][t] = 1 =>
          /\ tokens[t] # NoToken
          /\ t \in seen[w] \/ tokens[t].exp < now

LEMMA SsoInit == Init => Remembered
  BY DEF Init, Remembered, At, NoToken, NoRequest

\* A step that leaves the memory alone and looks at no other token.
LEMMA SsoOther ==
  ASSUME Remembered,
         UNCHANGED <<now, tokens, seen, used>>,
         DOMAIN at' = Workers, DOMAIN req' = Workers,
         \A w \in Workers : at'[w] = "record" => at[w] = "record" /\ req'[w] = req[w]
  PROVE  Remembered'
  BY DEF Remembered, At

\* Answering a request, whatever the answer.
LEMMA SsoRespond ==
  ASSUME Remembered, NEW w \in Workers, NEW b, NEW session,
         UNCHANGED <<now, tokens, seen, used>>, Respond(w, b, session)
  PROVE  Remembered'
<1>1. /\ at' = [at EXCEPT ![w] = "idle"]
      /\ req' = [req EXCEPT ![w] = NoRequest]
  BY DEF Respond
<1> QED
  BY <1>1, SsoOther DEF Remembered

\* Going on to a step that is not "record", whatever becomes of the request.
LEMMA SsoGoto ==
  ASSUME Remembered, NEW w \in Workers, NEW label, label # "record",
         UNCHANGED <<now, tokens, seen, used>>, Goto(w, label),
         DOMAIN req' = Workers, \A v \in Workers \ {w} : req'[v] = req[v]
  PROVE  Remembered'
<1>1. at' = [at EXCEPT ![w] = label]
  BY DEF Goto
<1> QED
  BY <1>1, SsoOther DEF Remembered

LEMMA SsoEstablish ==
  ASSUME Remembered, NEW w \in Workers, NEW u,
         UNCHANGED <<now, tokens, seen, used>>, Establish(w, u)
  PROVE  Remembered'
<1> DEFINE r == [req[w] EXCEPT !.session = [user |-> u, id |-> Token(w).id,
                     admin |-> users'[u].admin, last |-> -1, signed |-> 0]]
<1>1. req' = [req EXCEPT ![w] = r] /\ Goto(w, "finish")
  BY DEF Establish
<1> HIDE DEF r
<1>2. DOMAIN req' = Workers /\ \A v \in Workers \ {w} : req'[v] = req[v]
  BY <1>1 DEF Remembered
<1> QED
  BY <1>1, <1>2, SsoGoto

\* The Portal issues a token that was not issued, so no process accepted it.
LEMMA SsoIssueToken ==
  ASSUME SsoAssumption, Remembered, NEW t \in Tokens, IssueToken(t)
  PROVE  Remembered'
<1>1. PICK id \in Ids, email \in Emails, admin \in BOOLEAN :
         tokens' = [tokens EXCEPT ![t] = [id |-> id, email |-> email,
                                          admin |-> admin, exp |-> now + TTL]]
  BY DEF IssueToken
<1> DEFINE token == [id |-> id, email |-> email, admin |-> admin, exp |-> now + TTL]
<1>2. token.exp \in Int /\ token # NoToken
  BY DEF SsoAssumption, Remembered, NoToken
<1> HIDE DEF token
<1>3. tokens' = [tokens EXCEPT ![t] = token]
  BY <1>1 DEF token
<1>4. tokens[t] = NoToken /\ UNCHANGED <<now, seen, used, at, req>>
  BY DEF IssueToken
<1>5. \A s \in Tokens : tokens'[s] = IF s = t THEN token ELSE tokens[s]
  BY <1>3 DEF Remembered
<1>6. /\ \A s \in Tokens : tokens'[s].exp \in Int
      /\ DOMAIN tokens' = Tokens
  BY <1>2, <1>3, <1>5 DEF Remembered
<1>7. \A w \in Workers, s \in Tokens : used[w][s] = 1 => tokens'[s] = tokens[s]
  BY <1>4, <1>5 DEF Remembered
<1>8. \A s \in Tokens : tokens[s] # NoToken => tokens'[s] = tokens[s]
  BY <1>4, <1>5
<1> QED
  BY <1>4, <1>6, <1>7, <1>8 DEF Remembered, At

LEMMA SsoStartLogin ==
  ASSUME Remembered, NEW w \in Workers, NEW b \in Browsers, NEW t \in Tokens,
         StartLogin(w, b, t)
  PROVE  Remembered'
<1>1. tokens[t] # NoToken /\ UNCHANGED <<now, tokens, seen, used>>
  BY DEF StartLogin
<1>2. CASE tokens[t].exp < now
  BY <1>1, <1>2, SsoRespond DEF StartLogin
<1>3. CASE ~(tokens[t].exp < now)
  <2> DEFINE r == [browser |-> b, token |-> t, session |-> NoSession]
  <2>1. at' = [at EXCEPT ![w] = "record"] /\ req' = [req EXCEPT ![w] = r]
    BY <1>3 DEF StartLogin, Goto
  <2>2. r.token = t
    OBVIOUS
  <2> HIDE DEF r
  <2>3. \A v \in Workers : At(v, "record")' =>
           req'[v].token \in Tokens /\ tokens[req'[v].token] # NoToken
    BY <1>1, <2>1, <2>2 DEF Remembered, At
  <2> QED
    BY <1>1, <2>1, <2>3 DEF Remembered
<1> QED
  BY <1>2, <1>3

\* The step that matters: a token accepted before is still among those left,
\* unless it has expired, and then it is not counted.
LEMMA SsoRecordJti ==
  ASSUME Remembered, NEW w \in Workers, RecordJti(w)
  PROVE  Remembered'
<1> DEFINE t == req[w].token
           left == {s \in seen[w] : tokens[s].exp >= now}
<1>1. At(w, "record") /\ t \in Tokens /\ tokens[t] # NoToken
  BY DEF RecordJti, Remembered
<1>2. UNCHANGED <<now, tokens>>
  BY DEF RecordJti
<1>3. left \subseteq Tokens
  BY DEF Remembered
<1>4. \A s \in Tokens : used[w][s] = 1 => s \in left \/ tokens[s].exp < now
  BY DEF Remembered
<1>5. CASE t \in left
  <2>1. /\ seen' = [seen EXCEPT ![w] = left]
        /\ Respond(w, req[w].browser, NoSession)
        /\ UNCHANGED used
    BY <1>5 DEF RecordJti
  <2>2. /\ at' = [at EXCEPT ![w] = "idle"]
        /\ req' = [req EXCEPT ![w] = NoRequest]
    BY <2>1 DEF Respond
  <2>3. \A v \in Workers : At(v, "record")' =>
           req'[v].token \in Tokens /\ tokens[req'[v].token] # NoToken
    BY <2>2 DEF Remembered, At
  <2>4. seen' \in [Workers -> SUBSET Tokens]
    BY <1>3, <2>1 DEF Remembered
  <2>5. \A v \in Workers, s \in Tokens : used[v][s] = 1 =>
           tokens[s] # NoToken /\ (s \in seen'[v] \/ tokens[s].exp < now)
    BY <1>4, <2>1 DEF Remembered
  <2> HIDE DEF t, left
  <2> QED
    BY <1>2, <2>1, <2>2, <2>3, <2>4, <2>5 DEF Remembered
<1>6. CASE t \notin left
  <2>1. /\ seen' = [seen EXCEPT ![w] = left \cup {t}]
        /\ used' = IF now <= tokens[t].exp THEN [used EXCEPT ![w][t] = @ + 1] ELSE used
        /\ at' = [at EXCEPT ![w] = "resolve"]
        /\ UNCHANGED req
    BY <1>6 DEF RecordJti, Goto
  <2>2. \A v \in Workers : At(v, "record")' =>
           req'[v].token \in Tokens /\ tokens[req'[v].token] # NoToken
    BY <2>1 DEF Remembered, At
  <2>3. seen' \in [Workers -> SUBSET Tokens]
    BY <1>1, <1>3, <2>1 DEF Remembered
  <2>4. now <= tokens[t].exp => used[w][t] = 0
    BY <1>1, <1>4, <1>6 DEF Remembered
  <2>5. \A v \in Workers, s \in Tokens :
           used'[v][s] = IF v = w /\ s = t /\ now <= tokens[t].exp THEN 1 ELSE used[v][s]
    BY <1>1, <2>1, <2>4 DEF Remembered
  <2>6. used' \in [Workers -> [Tokens -> {0, 1}]]
    <3>1. CASE now <= tokens[t].exp
      <4>1. used' = [used EXCEPT ![w][t] = @ + 1]
        BY <2>1, <3>1
      <4>2. used[w][t] = 0 /\ t \in Tokens
        BY <1>1, <2>4, <3>1
      <4> HIDE DEF t, left
      <4>3. used' = [used EXCEPT ![w] = [used[w] EXCEPT ![t] = used[w][t] + 1]]
        BY <4>1
      <4> QED
        BY <4>2, <4>3 DEF Remembered
    <3>2. CASE ~(now <= tokens[t].exp)
      BY <2>1, <3>2 DEF Remembered
    <3> QED
      BY <3>1, <3>2
  <2>7. \A v \in Workers, s \in Tokens : used'[v][s] = 1 =>
           tokens[s] # NoToken /\ (s \in seen'[v] \/ tokens[s].exp < now)
    <3> SUFFICES ASSUME NEW v \in Workers, NEW s \in Tokens, used'[v][s] = 1
                 PROVE  tokens[s] # NoToken /\ (s \in seen'[v] \/ tokens[s].exp < now)
      OBVIOUS
    <3>1. CASE v = w /\ s = t
      BY <1>1, <2>1, <3>1 DEF Remembered
    <3>2. CASE ~(v = w /\ s = t)
      <4>1. used[v][s] = 1
        BY <2>5, <3>2
      <4> QED
        BY <1>4, <2>1, <4>1 DEF Remembered
    <3> QED
      BY <3>1, <3>2
  <2> HIDE DEF t, left
  <2> QED
    BY <1>2, <2>1, <2>2, <2>3, <2>6, <2>7 DEF Remembered
<1> QED
  BY <1>5, <1>6

LEMMA SsoRestart ==
  ASSUME Remembered, NEW w \in Workers, Restart(w)
  PROVE  Remembered'
<1>1. /\ seen' = [seen EXCEPT ![w] = {}]
      /\ used' = [used EXCEPT ![w] = [t \in Tokens |-> 0]]
      /\ at' = [at EXCEPT ![w] = "idle"]
      /\ req' = [req EXCEPT ![w] = NoRequest]
      /\ UNCHANGED <<now, tokens>>
  BY DEF Restart
<1>2. \A v \in Workers : At(v, "record")' =>
         req'[v].token \in Tokens /\ tokens[req'[v].token] # NoToken
  BY <1>1 DEF Remembered, At
<1> QED
  BY <1>1, <1>2 DEF Remembered

LEMMA SsoTick == Remembered /\ Tick => Remembered'
  BY DEF Remembered, Tick, At

\* The steps of a login behind the jti.
LEMMA SsoLoginStep ==
  ASSUME Remembered, NEW w \in Workers, LoginStep(w)
  PROVE  Remembered'
<1>1. CASE \E b \in Browsers, t \in Tokens : StartLogin(w, b, t)
  BY <1>1, SsoStartLogin
<1>2. CASE RecordJti(w)
  BY <1>2, SsoRecordJti
<1>3. CASE ResolveUser(w)
  <2>1. UNCHANGED <<now, tokens, seen, used>>
    BY <1>3 DEF ResolveUser
  <2>2. \/ \E u : Found(w, "sync", u) \/ Found(w, "link", u)
        \/ Goto(w, "name") /\ UNCHANGED req
        \/ Respond(w, req[w].browser, NoSession)
    BY <1>3, Zenon DEF ResolveUser
  <2>3. CASE \E u : Found(w, "sync", u) \/ Found(w, "link", u)
    <3>1. \E r : req' = [req EXCEPT ![w] = r]
      BY <2>3, Zenon DEF Found
    <3>2. Goto(w, "sync") \/ Goto(w, "link")
      BY <2>3 DEF Found
    <3> QED
      BY <2>1, <3>1, <3>2, SsoGoto DEF Remembered
  <2>4. CASE Goto(w, "name") /\ UNCHANGED req
    BY <2>1, <2>4, SsoGoto DEF Remembered
  <2>5. CASE Respond(w, req[w].browser, NoSession)
    BY <2>1, <2>5, SsoRespond
  <2> QED
    BY <2>2, <2>3, <2>4, <2>5
<1>4. CASE LinkUser(w)
  BY <1>4, SsoGoto DEF LinkUser, Remembered
<1>5. CASE SyncUser(w)
  BY <1>5, SsoEstablish DEF SyncUser
<1>6. CASE ChooseName(w)
  <2>1. UNCHANGED <<now, tokens, seen, used>> /\ Goto(w, "insert")
    BY <1>6 DEF ChooseName
  <2>2. \E r : req' = [req EXCEPT ![w] = r]
    BY <1>6, Zenon DEF ChooseName
  <2> QED
    BY <2>1, <2>2, SsoGoto DEF Remembered
<1>7. CASE InsertUser(w)
  <2>1. UNCHANGED <<now, tokens, seen, used>>
    BY <1>7 DEF InsertUser
  <2>2. (\E u : Establish(w, u)) \/ Respond(w, req[w].browser, NoSession)
    BY <1>7, Zenon DEF InsertUser
  <2> QED
    BY <2>1, <2>2, SsoEstablish, SsoRespond
<1>8. CASE FinishLogin(w)
  BY <1>8, SsoRespond DEF FinishLogin
<1>9. CASE LoginFails(w)
  BY <1>9, SsoRespond DEF LoginFails
<1> QED
  BY <1>1, <1>2, <1>3, <1>4, <1>5, <1>6, <1>7, <1>8, <1>9 DEF LoginStep

\* Requests do not touch the memory of tokens.
LEMMA SsoRequestStep ==
  ASSUME Remembered, NEW w \in Workers, RequestStep(w)
  PROVE  Remembered'
<1>1. CASE \E b \in Browsers : StartRequest(w, b)
  <2>1. PICK b \in Browsers : StartRequest(w, b)
    BY <1>1
  <2>2. UNCHANGED <<now, tokens, seen, used>>
    BY <2>1 DEF StartRequest
  <2>3. \/ Respond(w, b, NoSession)
        \/ Goto(w, "handle") /\ \E r : req' = [req EXCEPT ![w] = r]
    BY <2>1, Zenon DEF StartRequest
  <2>4. CASE Respond(w, b, NoSession)
    BY <2>2, <2>4, SsoRespond
  <2>5. CASE Goto(w, "handle") /\ \E r : req' = [req EXCEPT ![w] = r]
    BY <2>2, <2>5, SsoGoto DEF Remembered
  <2> QED
    BY <2>3, <2>4, <2>5
<1>2. CASE \E b \in Browsers : Logout(w, b)
  BY <1>2, SsoRespond DEF Logout
<1>3. CASE EndRequest(w)
  BY <1>3, SsoRespond DEF EndRequest
<1>4. CASE ServePage(w) \/ \E u \in Rows : ChangeRole(w, u) \/ Deactivate(w, u)
  <2>1. UNCHANGED <<now, tokens, seen, used, req>> /\ Goto(w, "respond")
    BY <1>4 DEF ServePage, ChangeRole, Deactivate
  <2> QED
    BY <2>1, SsoGoto DEF Remembered
<1> QED
  BY <1>1, <1>2, <1>3, <1>4 DEF RequestStep

LEMMA SsoNext == SsoAssumption /\ Remembered /\ [Next]_vars => Remembered'
<1> SUFFICES ASSUME SsoAssumption, Remembered, [Next]_vars PROVE Remembered'
  OBVIOUS
<1>1. CASE \E t \in Tokens : IssueToken(t)
  BY <1>1, SsoIssueToken
<1>2. CASE \E w \in Workers : LoginStep(w) \/ RequestStep(w) \/ Restart(w)
  BY <1>2, SsoLoginStep, SsoRequestStep, SsoRestart
<1>3. CASE Tick
  BY <1>3, SsoTick
<1>4. CASE UNCHANGED vars
  BY <1>4, SsoOther DEF vars, Remembered
<1> QED
  BY <1>1, <1>2, <1>3, <1>4 DEF Next

\* A process that keeps running accepts no token twice before the token
\* expires (sso_auth.py, _check_and_record_jti).
THEOREM SingleUse == Spec => []TokenSingleUse
<1>1. Remembered => TokenSingleUse
  BY DEF Remembered, TokenSingleUse
<1> QED
  BY <1>1, SsoAssumption, SsoInit, SsoNext, PTL DEF Spec

-----------------------------------------------------------------------------
(* The types, and that an account linked to a person of the Portal stays   *)
(* that person's.                                                          *)

\* Sessions of the accounts in rows.
SessionsOf(rows) ==
    {NoSession} \cup [user : rows, id : Ids, admin : BOOLEAN, last : Int, signed : Nat]

UserNames == {Plain(email) : email \in Emails}
                \cup {Suffixed(email, id) : email \in Emails, id \in Ids}

UserRow == [name : UserNames, id : Ids \cup {NoId}, email : Emails,
            admin : BOOLEAN, active : BOOLEAN]

TokenRow == [id : Ids, email : Emails, admin : BOOLEAN, exp : Int]

IssuedToken(t) == t \in Tokens /\ tokens[t] \in TokenRow

\* What the steps of a login rely on. A login that is about to link an account
\* found it without an id, or under the customer id of the token's person.
Requesting(w) ==
    /\ "session" \in DOMAIN req[w]
    /\ req[w].session \in SessionsOf(Rows)
    /\ at[w] \in {"record", "resolve", "link", "sync", "name", "insert"} =>
          IssuedToken(req[w].token)
    /\ at[w] \in {"link", "sync"} => req[w].user \in Rows
    /\ at[w] = "link" => req[w].read = NoId \/
          (/\ Token(w).id.kind = "user"
           /\ req[w].read = [kind |-> "customer", of |-> Token(w).id.of])
    /\ at[w] = "insert" => req[w].name \in UserNames

NamesDiffer == \A u, v \in Rows : users[u].name = users[v].name => u = v

Accounts ==
    /\ now \in 0..MaxTime
    /\ tokens \in [Tokens -> TokenRow \cup {NoToken}]
    /\ \A t \in Tokens : tokens[t] # NoToken => tokens[t].exp <= now + TTL
    /\ seen \in [Workers -> SUBSET Tokens]
    /\ used \in [Workers -> [Tokens -> Nat]]
    /\ users \in Seq(UserRow)
    /\ NamesDiffer
    /\ cookie \in [Browsers -> SessionsOf(Rows)]
    /\ DOMAIN at = Workers
    /\ DOMAIN req = Workers
    /\ \A w \in Workers : Requesting(w)

-----------------------------------------------------------------------------
\* NoToken has no field but its expiry.
LEMMA NoTokenApart == NoToken \notin TokenRow
<1> SUFFICES ASSUME NoToken \in TokenRow PROVE FALSE
  OBVIOUS
<1>1. DOMAIN NoToken = {"id", "email", "admin", "exp"}
  BY DEF TokenRow
<1>2. DOMAIN NoToken = {"exp"}
  BY DEF NoToken
<1> QED
  BY <1>1, <1>2

LEMMA IssuedIsToken ==
  ASSUME Accounts, NEW t \in Tokens
  PROVE  IssuedToken(t) <=> tokens[t] # NoToken
  BY NoTokenApart DEF Accounts, IssuedToken

LEMMA RowsAre == Accounts => Rows = 1..Len(users) /\ \A u \in Rows : users[u] \in UserRow
  BY DEF Accounts, Rows

\* An account made later belongs to no session made before, and takes nothing
\* from one.
LEMMA SessionsGrow ==
  ASSUME NEW rows, NEW more, rows \subseteq more
  PROVE  SessionsOf(rows) \subseteq SessionsOf(more)
  BY DEF SessionsOf

\* The session that a response carries is one of the same account.
LEMMA Redated ==
  ASSUME Accounts, NEW session \in SessionsOf(Rows), session # NoSession
  PROVE  [session EXCEPT !.signed = now] \in SessionsOf(Rows)
<1>1. session \in [user : Rows, id : Ids, admin : BOOLEAN, last : Int, signed : Nat]
  BY DEF SessionsOf
<1>2. now \in Nat
  BY SsoAssumption DEF Accounts, SsoAssumption
<1> QED
  BY <1>1, <1>2 DEF SessionsOf

\* A step of w: the others' requests stand, as tokens are kept and accounts are
\* only added.
LEMMA OthersRequest ==
  ASSUME Accounts, NEW v \in Workers,
         at'[v] = at[v], req'[v] = req[v],
         \A t \in Tokens : IssuedToken(t) => tokens'[t] = tokens[t],
         Rows \subseteq Rows'
  PROVE  Requesting(v)'
<1>1. Requesting(v)
  BY DEF Accounts
<1>2. req'[v].session \in SessionsOf(Rows)'
  BY <1>1, SessionsGrow DEF Requesting, SessionsOf
<1>3. ASSUME at[v] \in {"record", "resolve", "link", "sync", "name", "insert"}
      PROVE  IssuedToken(req[v].token)' /\ Token(v)' = Token(v)
  <2>1. IssuedToken(req[v].token)
    BY <1>1, <1>3 DEF Requesting
  <2>2. tokens'[req[v].token] = tokens[req[v].token]
    BY <2>1 DEF IssuedToken
  <2> QED
    BY <2>1, <2>2 DEF IssuedToken, Token
<1>4. "session" \in DOMAIN req'[v]
  BY <1>1 DEF Requesting
<1>5. at'[v] \in {"link", "sync"} => req'[v].user \in Rows'
  BY <1>1 DEF Requesting
<1>6. at'[v] = "link" => req'[v].read = NoId \/
          (/\ Token(v).id.kind = "user"
           /\ req'[v].read = [kind |-> "customer", of |-> Token(v).id.of])
  BY <1>1 DEF Requesting
<1>7. at'[v] = "insert" => req'[v].name \in UserNames
  BY <1>1 DEF Requesting
<1> HIDE DEF NoId
<1> QED
  BY <1>2, <1>3, <1>4, <1>5, <1>6, <1>7 DEF Requesting

\* What a step of w leaves to show.
LEMMA StepOf ==
  ASSUME Accounts, NEW w \in Workers,
         UNCHANGED <<now, tokens>>,
         seen' \in [Workers -> SUBSET Tokens],
         used' \in [Workers -> [Tokens -> Nat]],
         users' \in Seq(UserRow), NamesDiffer', Rows \subseteq Rows',
         cookie' \in [Browsers -> SessionsOf(Rows')],
         DOMAIN at' = Workers, DOMAIN req' = Workers,
         \A v \in Workers \ {w} : at'[v] = at[v] /\ req'[v] = req[v],
         Requesting(w)'
  PROVE  Accounts'
<1>1. \A v \in Workers \ {w} : Requesting(v)'
  BY OthersRequest
<1>2. cookie' \in [Browsers -> SessionsOf(Rows)']
  BY DEF SessionsOf
<1> QED
  BY <1>1, <1>2 DEF Accounts

\* A step that leaves tokens, memory and accounts alone.
LEMMA QuietStep ==
  ASSUME Accounts, NEW w \in Workers,
         UNCHANGED <<now, tokens, seen, used, users>>,
         cookie' \in [Browsers -> SessionsOf(Rows)],
         DOMAIN at' = Workers, DOMAIN req' = Workers,
         \A v \in Workers \ {w} : at'[v] = at[v] /\ req'[v] = req[v],
         Requesting(w)'
  PROVE  Accounts'
<1>1. Rows' = Rows /\ NamesDiffer'
  BY DEF Accounts, NamesDiffer, Rows
<1> QED
  BY <1>1, StepOf DEF Accounts

-----------------------------------------------------------------------------
\* The account found first is one of those found.
LEMMA LeastRow ==
  ASSUME NEW rows, rows \subseteq Nat, rows # {}
  PROVE  First(rows) \in rows
<1> DEFINE R == OpToRel(<, Nat)
<1>1. IsWellFoundedOn(R, Nat)
  BY NatLessThanWellFounded
<1>2. \A u, v \in Nat : <<v, u>> \in R <=> v < u
  BY DEF OpToRel
<1> HIDE DEF R
<1>3. PICK u \in rows : \A v \in rows : ~(<<v, u>> \in R)
  BY <1>1, WFMin
<1>4. \A v \in rows : ~(v < u)
  BY <1>2, <1>3
<1>5. \A v \in rows : u <= v
  BY <1>4
<1> QED
  BY <1>5 DEF First

LEMMA AccountsInit == Init => Accounts
<1> SUFFICES ASSUME Init PROVE Accounts
  OBVIOUS
<1>1. users \in Seq(UserRow) /\ NamesDiffer
  <2>1. CASE users = <<>>
    BY <2>1 DEF NamesDiffer, Rows
  <2>2. ASSUME NEW email \in Emails, NEW active \in BOOLEAN,
               users = <<[name |-> Plain(email), id |-> NoId, email |-> email,
                          admin |-> TRUE, active |-> active]>>
        PROVE  users \in Seq(UserRow) /\ NamesDiffer
    <3>1. [name |-> Plain(email), id |-> NoId, email |-> email,
           admin |-> TRUE, active |-> active] \in UserRow
      BY DEF UserRow, UserNames
    <3> QED
      BY <2>2, <3>1 DEF NamesDiffer, Rows
  <2> QED
    BY <2>1, <2>2 DEF Init
<1>2. \A w \in Workers : Requesting(w)
  BY DEF Init, Requesting, NoRequest, SessionsOf
<1>3. now \in 0..MaxTime /\ cookie \in [Browsers -> SessionsOf(Rows)]
  BY SsoAssumption DEF Init, SsoAssumption, SessionsOf
<1>4. /\ tokens \in [Tokens -> TokenRow \cup {NoToken}]
      /\ \A t \in Tokens : tokens[t] = NoToken
      /\ seen \in [Workers -> SUBSET Tokens]
      /\ used \in [Workers -> [Tokens -> Nat]]
      /\ DOMAIN at = Workers /\ DOMAIN req = Workers
  BY DEF Init
<1> QED
  BY <1>1, <1>2, <1>3, <1>4 DEF Accounts

\* The end of a request, whatever it did to the memory of tokens.
LEMMA Responding ==
  ASSUME Accounts, NEW w \in Workers, NEW b, NEW session \in SessionsOf(Rows),
         UNCHANGED <<now, tokens, users>>,
         seen' \in [Workers -> SUBSET Tokens],
         used' \in [Workers -> [Tokens -> Nat]],
         Respond(w, b, session)
  PROVE  Accounts'
<1> DEFINE sent == IF session = NoSession THEN NoSession ELSE [session EXCEPT !.signed = now]
<1>1. sent \in SessionsOf(Rows)
  BY Redated DEF SessionsOf
<1>2. /\ cookie' = [cookie EXCEPT ![b] = sent]
      /\ at' = [at EXCEPT ![w] = "idle"]
      /\ req' = [req EXCEPT ![w] = NoRequest]
  BY DEF Respond
<1> HIDE DEF sent
<1>3. Rows' = Rows /\ NamesDiffer' /\ users' \in Seq(UserRow)
  BY DEF Accounts, NamesDiffer, Rows
<1>4. cookie' \in [Browsers -> SessionsOf(Rows)]
  BY <1>1, <1>2 DEF Accounts
<1>5. /\ DOMAIN at' = Workers /\ DOMAIN req' = Workers
      /\ \A v \in Workers \ {w} : at'[v] = at[v] /\ req'[v] = req[v]
      /\ at'[w] = "idle" /\ req'[w] = NoRequest
  BY <1>2 DEF Accounts
<1>6. Requesting(w)'
  BY <1>5 DEF Requesting, NoRequest, SessionsOf
<1> QED
  BY <1>3, <1>4, <1>5, <1>6, StepOf

\* A step of the same request that writes nothing.
LEMMA Going ==
  ASSUME Accounts, NEW w \in Workers, NEW label, NEW r,
         UNCHANGED <<now, tokens, seen, used, users, cookie>>,
         Goto(w, label), req' = [req EXCEPT ![w] = r],
         Requesting(w)'
  PROVE  Accounts'
<1>1. /\ DOMAIN at' = Workers /\ DOMAIN req' = Workers
      /\ \A v \in Workers \ {w} : at'[v] = at[v] /\ req'[v] = req[v]
  BY DEF Accounts, Goto
<1> QED
  BY <1>1, QuietStep DEF Accounts

LEMMA AccountsStartLogin ==
  ASSUME Accounts, NEW w \in Workers, NEW b \in Browsers, NEW t \in Tokens,
         StartLogin(w, b, t)
  PROVE  Accounts'
<1>1. UNCHANGED <<now, tokens, seen, used, users>> /\ IssuedToken(t)
  BY IssuedIsToken DEF StartLogin
<1>2. CASE tokens[t].exp < now
  <2>1. Respond(w, b, NoSession) /\ NoSession \in SessionsOf(Rows)
    BY <1>2 DEF StartLogin, SessionsOf
  <2> QED
    BY <1>1, <2>1, Responding DEF Accounts
<1>3. CASE ~(tokens[t].exp < now)
  <2> DEFINE r == [browser |-> b, token |-> t, session |-> NoSession]
  <2>1. Goto(w, "record") /\ req' = [req EXCEPT ![w] = r] /\ cookie' = cookie
    BY <1>3 DEF StartLogin
  <2>2. at'[w] = "record" /\ req'[w] = r
    BY <2>1 DEF Accounts, Goto
  <2>3. "session" \in DOMAIN r /\ r.session = NoSession /\ r.token = t
    OBVIOUS
  <2> HIDE DEF r
  <2>4. Requesting(w)'
    BY <1>1, <2>2, <2>3 DEF Requesting, SessionsOf, IssuedToken
  <2> QED
    BY <1>1, <2>1, <2>4, Going
<1> QED
  BY <1>2, <1>3

LEMMA AccountsRecordJti ==
  ASSUME Accounts, NEW w \in Workers, RecordJti(w)
  PROVE  Accounts'
<1> DEFINE t == req[w].token
           left == {s \in seen[w] : tokens[s].exp >= now}
<1>1. At(w, "record") /\ UNCHANGED <<now, tokens, users>>
  BY DEF RecordJti
<1>2. Requesting(w) /\ IssuedToken(t)
  BY <1>1 DEF Accounts, Requesting, At
<1>3. left \subseteq Tokens /\ t \in Tokens
  BY <1>2 DEF Accounts, IssuedToken
<1>4. Rows' = Rows /\ NamesDiffer' /\ users' \in Seq(UserRow)
  BY <1>1 DEF Accounts, NamesDiffer, Rows
<1>5. CASE t \in left
  <2>1. /\ seen' = [seen EXCEPT ![w] = left]
        /\ Respond(w, req[w].browser, NoSession)
        /\ UNCHANGED used
    BY <1>5 DEF RecordJti
  <2>2. seen' \in [Workers -> SUBSET Tokens] /\ used' \in [Workers -> [Tokens -> Nat]]
    BY <1>3, <2>1 DEF Accounts
  <2>3. NoSession \in SessionsOf(Rows)
    BY DEF SessionsOf
  <2> HIDE DEF left, t
  <2> QED
    BY <1>1, <2>1, <2>2, <2>3, Responding
<1>6. CASE t \notin left
  <2>1. /\ seen' = [seen EXCEPT ![w] = left \cup {t}]
        /\ used' = IF now <= tokens[t].exp THEN [used EXCEPT ![w][t] = @ + 1] ELSE used
        /\ Goto(w, "resolve")
        /\ UNCHANGED <<cookie, req>>
    BY <1>6 DEF RecordJti
  <2>2. seen' \in [Workers -> SUBSET Tokens]
    BY <1>3, <2>1 DEF Accounts
  <2>3. used' \in [Workers -> [Tokens -> Nat]]
    BY <1>3, <2>1 DEF Accounts
  <2> HIDE DEF left
  <2>4. /\ DOMAIN at' = Workers /\ DOMAIN req' = Workers
        /\ \A v \in Workers \ {w} : at'[v] = at[v] /\ req'[v] = req[v]
        /\ at'[w] = "resolve" /\ req'[w] = req[w]
    BY <2>1 DEF Accounts, Goto
  <2>5. Requesting(w)'
    BY <1>1, <1>2, <1>4, <2>4 DEF Requesting, SessionsOf, IssuedToken
  <2>6. cookie' \in [Browsers -> SessionsOf(Rows')]
    BY <1>4, <2>1 DEF Accounts
  <2> HIDE DEF t
  <2> QED
    BY <1>1, <1>4, <2>2, <2>3, <2>4, <2>5, <2>6, StepOf
<1> QED
  BY <1>5, <1>6

\* An account found, by a step that writes nothing.
LEMMA Finding ==
  ASSUME Accounts, NEW w \in Workers, NEW label \in {"link", "sync"}, NEW u \in Rows,
         UNCHANGED <<now, tokens, seen, used, users, cookie>>,
         IssuedToken(req[w].token), Found(w, label, u),
         label = "link" => users[u].id = NoId \/ MayRelink(users[u], Token(w))
  PROVE  Accounts'
<1> DEFINE r == [browser |-> req[w].browser, token |-> req[w].token,
                 session |-> NoSession, user |-> u, read |-> users[u].id]
<1>1. Goto(w, label) /\ req' = [req EXCEPT ![w] = r]
  BY DEF Found
<1>2. at'[w] = label /\ req'[w] = r
  BY <1>1 DEF Accounts, Goto
<1>3. /\ "session" \in DOMAIN r /\ r.session = NoSession
      /\ r.token = req[w].token /\ r.user = u /\ r.read = users[u].id
  OBVIOUS
<1> HIDE DEF r
<1>4. Token(w)' = Token(w) /\ IssuedToken(req[w].token)'
  BY <1>2, <1>3 DEF Token, IssuedToken
<1>5. req'[w].session \in SessionsOf(Rows)' /\ req'[w].user \in Rows'
  BY <1>2, <1>3 DEF SessionsOf, Rows
<1>6. at'[w] = "link" => req'[w].read = NoId \/
          (/\ Token(w)'.id.kind = "user"
           /\ req'[w].read = [kind |-> "customer", of |-> Token(w)'.id.of])
  BY <1>2, <1>3, <1>4 DEF MayRelink
<1>7. "session" \in DOMAIN req'[w] /\ at'[w] # "insert"
  BY <1>2, <1>3
<1>8. Requesting(w)'
  BY <1>4, <1>5, <1>6, <1>7 DEF Requesting
<1> QED
  BY <1>1, <1>8, Going

LEMMA AccountsResolveUser ==
  ASSUME Accounts, NEW w \in Workers, ResolveUser(w)
  PROVE  Accounts'
<1> DEFINE token == Token(w)
           byId == {u \in Rows : users[u].id = token.id}
           byEmail == {u \in Rows : users[u].email = token.email}
           row == users[First(byEmail)]
<1>1. At(w, "resolve") /\ UNCHANGED <<now, tokens, seen, used, users>>
  BY DEF ResolveUser
<1>2. Requesting(w) /\ IssuedToken(req[w].token)
  BY <1>1 DEF Accounts, Requesting, At
<1>3. Rows \subseteq Nat
  BY RowsAre DEF Accounts
<1>4. /\ byId # {} => First(byId) \in byId
      /\ byEmail # {} => First(byEmail) \in byEmail
  BY <1>3, LeastRow
<1>5. CASE byId # {}
  <2>1. Found(w, "sync", First(byId)) /\ UNCHANGED cookie
    BY <1>5 DEF ResolveUser
  <2> QED
    BY <1>1, <1>2, <1>4, <1>5, <2>1, Finding
<1>6. CASE byId = {} /\ byEmail # {} /\ (row.id = NoId \/ MayRelink(row, token))
  <2>1. Found(w, "link", First(byEmail)) /\ UNCHANGED cookie
    BY <1>6 DEF ResolveUser
  <2> QED
    BY <1>1, <1>2, <1>4, <1>6, <2>1, Finding
<1>7. CASE byId = {} /\ byEmail = {}
  <2>1. Goto(w, "name") /\ UNCHANGED <<cookie, req>>
    BY <1>7 DEF ResolveUser
  <2>2. /\ DOMAIN at' = Workers /\ DOMAIN req' = Workers
        /\ \A v \in Workers \ {w} : at'[v] = at[v] /\ req'[v] = req[v]
        /\ at'[w] = "name" /\ req'[w] = req[w]
    BY <2>1 DEF Accounts, Goto
  <2>3. Requesting(w)'
    BY <1>1, <1>2, <2>2 DEF Requesting, SessionsOf, IssuedToken, Rows
  <2> QED
    BY <1>1, <2>1, <2>2, <2>3, QuietStep DEF Accounts
<1>8. CASE byId = {} /\ byEmail # {} /\ ~(row.id = NoId \/ MayRelink(row, token))
  <2>1. Respond(w, req[w].browser, NoSession)
    BY <1>8 DEF ResolveUser
  <2>2. NoSession \in SessionsOf(Rows)
    BY DEF SessionsOf
  <2> QED
    BY <1>1, <2>1, <2>2, Responding DEF Accounts
<1> QED
  BY <1>5, <1>6, <1>7, <1>8

-----------------------------------------------------------------------------
\* A row that is rewritten in place, keeping its name.
LEMMA RowRewritten ==
  ASSUME Accounts, NEW u \in Rows, NEW row \in UserRow, row.name = users[u].name,
         users' = [users EXCEPT ![u] = row]
  PROVE  /\ users' \in Seq(UserRow) /\ NamesDiffer' /\ Rows' = Rows
         /\ users'[u] = row
         /\ \A v \in Rows \ {u} : users'[v] = users[v]
<1>1. users \in Seq(UserRow) /\ Rows = 1..Len(users) /\ NamesDiffer
  BY RowsAre DEF Accounts
<1>2. users' \in Seq(UserRow) /\ DOMAIN users' = DOMAIN users
  BY <1>1
<1>3. Rows' = Rows
  BY <1>2 DEF Rows
<1>4. users'[u] = row /\ \A v \in Rows \ {u} : users'[v] = users[v]
  BY DEF Rows
<1>5. \A v \in Rows : users'[v].name = users[v].name
  BY <1>4
<1>6. NamesDiffer'
  BY <1>1, <1>3, <1>5 DEF NamesDiffer
<1> QED
  BY <1>2, <1>3, <1>4, <1>6

\* The session of an account that is there when it is set.
LEMMA Establishing ==
  ASSUME Accounts, NEW w \in Workers, NEW u \in Rows', users' \in Seq(UserRow),
         IssuedToken(req[w].token), "session" \in DOMAIN req[w],
         Establish(w, u)
  PROVE  /\ Requesting(w)'
         /\ DOMAIN at' = Workers /\ DOMAIN req' = Workers
         /\ \A v \in Workers \ {w} : at'[v] = at[v] /\ req'[v] = req[v]
<1> DEFINE session == [user |-> u, id |-> Token(w).id, admin |-> users'[u].admin,
                       last |-> -1, signed |-> 0]
<1>1. Token(w).id \in Ids /\ users'[u] \in UserRow
  BY DEF IssuedToken, Token, TokenRow, Rows
<1>2. session \in SessionsOf(Rows')
  BY <1>1 DEF SessionsOf, UserRow
<1>3. Goto(w, "finish") /\ req' = [req EXCEPT ![w].session = session]
  BY DEF Establish
<1> HIDE DEF session
<1>4. at'[w] = "finish" /\ req'[w].session = session /\ "session" \in DOMAIN req'[w]
  BY <1>3 DEF Accounts, Goto
<1>5. req'[w].session \in SessionsOf(Rows)'
  BY <1>2, <1>4 DEF SessionsOf
<1>6. Requesting(w)'
  BY <1>4, <1>5 DEF Requesting
<1> QED
  BY <1>3, <1>6 DEF Accounts, Goto

LEMMA AccountsLinkUser ==
  ASSUME Accounts, NEW w \in Workers, LinkUser(w)
  PROVE  Accounts'
<1> DEFINE u == req[w].user
<1>1. At(w, "link") /\ UNCHANGED <<now, tokens, seen, used, cookie, req>>
  BY DEF LinkUser
<1>2. Requesting(w) /\ IssuedToken(req[w].token) /\ u \in Rows
  BY <1>1 DEF Accounts, Requesting, At
<1>3. Linked(users[u], Token(w)) \in UserRow /\ Linked(users[u], Token(w)).name = users[u].name
  BY <1>2, RowsAre DEF Linked, UserRow, IssuedToken, Token, TokenRow
<1>4. users' = [users EXCEPT ![u] = Linked(users[u], Token(w))]
  BY DEF LinkUser
<1>5. users' \in Seq(UserRow) /\ NamesDiffer' /\ Rows' = Rows
  BY <1>2, <1>3, <1>4, RowRewritten
<1>6. /\ DOMAIN at' = Workers /\ DOMAIN req' = Workers
      /\ \A v \in Workers \ {w} : at'[v] = at[v] /\ req'[v] = req[v]
      /\ at'[w] = "sync" /\ req'[w] = req[w]
  BY DEF LinkUser, Accounts, Goto
<1>7. Requesting(w)'
  BY <1>1, <1>2, <1>5, <1>6 DEF Requesting, SessionsOf, IssuedToken
<1> QED
  BY <1>1, <1>5, <1>6, <1>7, StepOf DEF Accounts

LEMMA AccountsSyncUser ==
  ASSUME Accounts, NEW w \in Workers, SyncUser(w)
  PROVE  Accounts'
<1> DEFINE u == req[w].user
<1>1. At(w, "sync") /\ UNCHANGED <<now, tokens, seen, used, cookie>>
  BY DEF SyncUser
<1>2. Requesting(w) /\ IssuedToken(req[w].token) /\ u \in Rows
  BY <1>1 DEF Accounts, Requesting, At
<1>3. Synced(users[u], Token(w)) \in UserRow /\ Synced(users[u], Token(w)).name = users[u].name
  BY <1>2, RowsAre DEF Synced, UserRow, IssuedToken, Token, TokenRow
<1>4. users' = [users EXCEPT ![u] = Synced(users[u], Token(w))] /\ Establish(w, u)
  BY DEF SyncUser
<1>5. users' \in Seq(UserRow) /\ NamesDiffer' /\ Rows' = Rows
  BY <1>2, <1>3, <1>4, RowRewritten
<1>6. /\ Requesting(w)'
      /\ DOMAIN at' = Workers /\ DOMAIN req' = Workers
      /\ \A v \in Workers \ {w} : at'[v] = at[v] /\ req'[v] = req[v]
  BY <1>2, <1>4, <1>5, Establishing DEF Requesting
<1> QED
  BY <1>1, <1>5, <1>6, StepOf DEF Accounts

LEMMA AccountsChooseName ==
  ASSUME Accounts, NEW w \in Workers, ChooseName(w)
  PROVE  Accounts'
<1> DEFINE token == Token(w)
           taken == \E u \in Rows : users[u].name = Plain(token.email)
           name == IF taken THEN Suffixed(token.email, token.id) ELSE Plain(token.email)
           r == [browser |-> req[w].browser, token |-> req[w].token,
                 session |-> NoSession, name |-> name]
<1>1. At(w, "name") /\ UNCHANGED <<now, tokens, seen, used, users, cookie>>
  BY DEF ChooseName
<1>2. IssuedToken(req[w].token)
  BY <1>1 DEF Accounts, Requesting, At
<1>3. name \in UserNames
  BY <1>2 DEF UserNames, IssuedToken, Token, TokenRow
<1>4. req' = [req EXCEPT ![w] = r] /\ Goto(w, "insert")
  BY DEF ChooseName
<1> HIDE DEF name
<1>5. /\ "session" \in DOMAIN r /\ r.session = NoSession
      /\ r.token = req[w].token /\ r.name = name
  OBVIOUS
<1> HIDE DEF r
<1>6. at'[w] = "insert" /\ req'[w] = r
  BY <1>4 DEF Accounts, Goto
<1>7. Requesting(w)'
  BY <1>1, <1>2, <1>3, <1>5, <1>6 DEF Requesting, SessionsOf, IssuedToken
<1> QED
  BY <1>1, <1>4, <1>7, Going

LEMMA AccountsInsertUser ==
  ASSUME Accounts, NEW w \in Workers, InsertUser(w)
  PROVE  Accounts'
<1> DEFINE token == Token(w)
           row == [name |-> req[w].name, id |-> token.id, email |-> token.email,
                   admin |-> token.admin, active |-> TRUE]
           taken == \E u \in Rows : users[u].name = req[w].name
<1>1. At(w, "insert") /\ UNCHANGED <<now, tokens, seen, used>>
  BY DEF InsertUser
<1>2. Requesting(w) /\ IssuedToken(req[w].token) /\ req[w].name \in UserNames
  BY <1>1 DEF Accounts, Requesting, At
<1>3. CASE taken
  <2>1. Respond(w, req[w].browser, NoSession) /\ UNCHANGED users
    BY <1>3 DEF InsertUser
  <2>2. NoSession \in SessionsOf(Rows)
    BY DEF SessionsOf
  <2> QED
    BY <1>1, <2>1, <2>2, Responding DEF Accounts
<1>4. CASE ~taken
  <2>1. users' = Append(users, row) /\ Establish(w, Len(users) + 1) /\ UNCHANGED cookie
    BY <1>4 DEF InsertUser
  <2>2. row \in UserRow
    BY <1>2 DEF UserRow, IssuedToken, Token, TokenRow
  <2>3. row.name = req[w].name
    OBVIOUS
  <2> HIDE DEF row
  <2>4. users \in Seq(UserRow) /\ Rows = 1..Len(users) /\ NamesDiffer
    BY RowsAre DEF Accounts
  <2>5. /\ users' \in Seq(UserRow) /\ Rows' = 1..(Len(users) + 1)
        /\ users'[Len(users) + 1] = row
        /\ \A v \in Rows : users'[v] = users[v]
    BY <2>1, <2>2, <2>4 DEF Rows
  <2>6. Rows \subseteq Rows' /\ Len(users) + 1 \in Rows'
    BY <2>4, <2>5
  <2>7. NamesDiffer'
    <3>1. \A v \in Rows : users'[v].name # users'[Len(users) + 1].name
      BY <1>4, <2>3, <2>5
    <3>2. \A v \in Rows' : v \in Rows \/ v = Len(users) + 1
      BY <2>4, <2>5
    <3> QED
      BY <2>4, <2>5, <3>1, <3>2 DEF NamesDiffer
  <2>8. /\ Requesting(w)'
        /\ DOMAIN at' = Workers /\ DOMAIN req' = Workers
        /\ \A v \in Workers \ {w} : at'[v] = at[v] /\ req'[v] = req[v]
    BY <1>2, <2>1, <2>5, <2>6, Establishing DEF Requesting
  <2>9. cookie' \in [Browsers -> SessionsOf(Rows')]
    BY <2>1, <2>6, SessionsGrow DEF Accounts
  <2> QED
    BY <1>1, <2>5, <2>6, <2>7, <2>8, <2>9, StepOf DEF Accounts
<1> QED
  BY <1>3, <1>4

\* A request that ends with the session it has.
LEMMA AccountsEnds ==
  ASSUME Accounts, NEW w \in Workers, FinishLogin(w) \/ LoginFails(w) \/ EndRequest(w)
  PROVE  Accounts'
<1>1. UNCHANGED <<now, tokens, seen, used, users>> /\ Respond(w, req[w].browser, req[w].session)
  BY DEF FinishLogin, LoginFails, EndRequest
<1>2. req[w].session \in SessionsOf(Rows)
  BY DEF Accounts, Requesting
<1> QED
  BY <1>1, <1>2, Responding DEF Accounts

-----------------------------------------------------------------------------
LEMMA AccountsStartRequest ==
  ASSUME Accounts, NEW w \in Workers, NEW b \in Browsers, StartRequest(w, b)
  PROVE  Accounts'
<1> DEFINE session == [cookie[b] EXCEPT !.last = now]
           r == [browser |-> b, session |-> session]
           lapsed == \/ now - cookie[b].signed > Timeout
                     \/ ~Bound(cookie[b])
                     \/ cookie[b].last >= 0 /\ now - cookie[b].last > Timeout
<1>1. UNCHANGED <<now, tokens, seen, used, users>> /\ cookie[b] # NoSession
  BY DEF StartRequest
<1>2. CASE lapsed
  <2>1. Respond(w, b, NoSession)
    BY <1>2 DEF StartRequest
  <2>2. NoSession \in SessionsOf(Rows)
    BY DEF SessionsOf
  <2> QED
    BY <1>1, <2>1, <2>2, Responding DEF Accounts
<1>3. CASE ~lapsed
  <2>1. Goto(w, "handle") /\ req' = [req EXCEPT ![w] = r] /\ UNCHANGED cookie
    BY <1>3 DEF StartRequest
  <2>2. session \in SessionsOf(Rows)
    <3>1. cookie[b] \in [user : Rows, id : Ids, admin : BOOLEAN, last : Int, signed : Nat]
      BY <1>1 DEF Accounts, SessionsOf
    <3>2. now \in Int
      BY SsoAssumption DEF Accounts, SsoAssumption
    <3> QED
      BY <3>1, <3>2 DEF SessionsOf
  <2>3. r.session = session /\ "session" \in DOMAIN r
    OBVIOUS
  <2>4. at'[w] = "handle" /\ req'[w] = r
    BY <2>1 DEF Accounts, Goto
  <2> HIDE DEF r, session
  <2>5. Requesting(w)'
    BY <1>1, <2>2, <2>3, <2>4 DEF Requesting, SessionsOf, Rows
  <2> QED
    BY <1>1, <2>1, <2>5, Going
<1> QED
  BY <1>2, <1>3

\* A page that may rewrite a row in place, keeping its name.
LEMMA Serving ==
  ASSUME Accounts, NEW w \in Workers,
         UNCHANGED <<now, tokens, seen, used, cookie, req>>, Goto(w, "respond"),
         users' \in Seq(UserRow), NamesDiffer', Rows' = Rows
  PROVE  Accounts'
<1>1. /\ DOMAIN at' = Workers /\ DOMAIN req' = Workers
      /\ \A v \in Workers \ {w} : at'[v] = at[v] /\ req'[v] = req[v]
      /\ at'[w] = "respond" /\ req'[w] = req[w]
  BY DEF Accounts, Goto
<1>2. Requesting(w)
  BY DEF Accounts
<1>3. Requesting(w)'
  BY <1>1, <1>2 DEF Requesting, SessionsOf
<1> QED
  BY <1>1, <1>3, StepOf DEF Accounts

LEMMA AccountsPages ==
  ASSUME Accounts, NEW w \in Workers,
         ServePage(w) \/ \E u \in Rows : ChangeRole(w, u) \/ Deactivate(w, u)
  PROVE  Accounts'
<1>1. CASE ServePage(w)
  <2>1. UNCHANGED <<now, tokens, seen, used, users, cookie, req>> /\ Goto(w, "respond")
    BY <1>1 DEF ServePage
  <2>2. users' \in Seq(UserRow) /\ NamesDiffer' /\ Rows' = Rows
    BY <2>1 DEF Accounts, NamesDiffer, Rows
  <2> QED
    BY <2>1, <2>2, Serving
<1>2. ASSUME NEW u \in Rows, ChangeRole(w, u) \/ Deactivate(w, u)
      PROVE  Accounts'
  <2>1. UNCHANGED <<now, tokens, seen, used, cookie, req>> /\ Goto(w, "respond")
    BY <1>2 DEF ChangeRole, Deactivate
  <2>2. PICK row \in {[users[u] EXCEPT !.admin = TRUE], [users[u] EXCEPT !.active = FALSE]} :
          users' = [users EXCEPT ![u] = row]
    BY <1>2 DEF ChangeRole, Deactivate
  <2>3. row \in UserRow /\ row.name = users[u].name
    BY RowsAre DEF UserRow
  <2>4. users' \in Seq(UserRow) /\ NamesDiffer' /\ Rows' = Rows
    BY <2>2, <2>3, RowRewritten
  <2> QED
    BY <2>1, <2>4, Serving
<1> QED
  BY <1>1, <1>2

LEMMA AccountsLogout ==
  ASSUME Accounts, NEW w \in Workers, NEW b \in Browsers, Logout(w, b)
  PROVE  Accounts'
<1>1. UNCHANGED <<now, tokens, seen, used, users>> /\ Respond(w, b, NoSession)
  BY DEF Logout
<1>2. NoSession \in SessionsOf(Rows)
  BY DEF SessionsOf
<1> QED
  BY <1>1, <1>2, Responding DEF Accounts

-----------------------------------------------------------------------------
\* A step of no process: every request stands.
LEMMA OutsideStep ==
  ASSUME Accounts,
         now' \in 0..MaxTime, tokens' \in [Tokens -> TokenRow \cup {NoToken}],
         \A t \in Tokens : tokens'[t] # NoToken => tokens'[t].exp <= now' + TTL,
         \A t \in Tokens : IssuedToken(t) => tokens'[t] = tokens[t],
         UNCHANGED <<seen, used, users, cookie, at, req>>
  PROVE  Accounts'
<1>1. Rows' = Rows /\ NamesDiffer'
  BY DEF Accounts, NamesDiffer, Rows
<1>2. \A v \in Workers : Requesting(v)'
  BY <1>1, OthersRequest
<1>3. cookie' \in [Browsers -> SessionsOf(Rows)']
  BY <1>1 DEF Accounts, SessionsOf
<1> QED
  BY <1>1, <1>2, <1>3 DEF Accounts

LEMMA AccountsIssueToken ==
  ASSUME Accounts, NEW t \in Tokens, IssueToken(t)
  PROVE  Accounts'
<1>1. /\ tokens[t] = NoToken
      /\ UNCHANGED <<now, seen, used, users, cookie, at, req>>
  BY DEF IssueToken
<1>2. PICK id \in Ids, email \in Emails, admin \in BOOLEAN :
        tokens' = [tokens EXCEPT ![t] = [id |-> id, email |-> email,
                                         admin |-> admin, exp |-> now + TTL]]
  BY DEF IssueToken
<1> DEFINE row == [id |-> id, email |-> email, admin |-> admin, exp |-> now + TTL]
<1>3. now \in Int /\ TTL \in Int
  BY SsoAssumption DEF Accounts, SsoAssumption
<1>4. row \in TokenRow /\ row.exp = now + TTL
  BY <1>3 DEF TokenRow
<1>5. tokens' = [tokens EXCEPT ![t] = row]
  BY <1>2
<1> HIDE DEF row
<1>6. tokens' \in [Tokens -> TokenRow \cup {NoToken}]
  BY <1>4, <1>5 DEF Accounts
<1>7. \A s \in Tokens : IF s = t THEN tokens'[s] = row ELSE tokens'[s] = tokens[s]
  BY <1>5 DEF Accounts
<1>8. \A s \in Tokens : tokens'[s] # NoToken => tokens'[s].exp <= now' + TTL
  <2> SUFFICES ASSUME NEW s \in Tokens, tokens'[s] # NoToken
               PROVE  tokens'[s].exp <= now' + TTL
    OBVIOUS
  <2>1. CASE s = t
    BY <1>1, <1>3, <1>4, <1>7, <2>1
  <2>2. CASE s # t
    BY <1>1, <1>7, <2>2 DEF Accounts
  <2> QED
    BY <2>1, <2>2
<1>9. \A s \in Tokens : IssuedToken(s) => tokens'[s] = tokens[s]
  BY <1>1, <1>7, NoTokenApart DEF IssuedToken
<1> QED
  BY <1>1, <1>6, <1>8, <1>9, OutsideStep DEF Accounts

LEMMA AccountsTick == Accounts /\ Tick => Accounts'
<1> SUFFICES ASSUME Accounts, Tick PROVE Accounts'
  OBVIOUS
<1>1. now' = now + 1 /\ now < MaxTime /\ UNCHANGED <<tokens, seen, used, users, cookie, at, req>>
  BY DEF Tick
<1>2. now \in Int /\ TTL \in Int /\ MaxTime \in Int /\ now' \in 0..MaxTime
  BY <1>1, SsoAssumption DEF Accounts, SsoAssumption
<1>3. \A t \in Tokens : tokens'[t] # NoToken => tokens'[t].exp <= now' + TTL
  <2> SUFFICES ASSUME NEW t \in Tokens, tokens'[t] # NoToken
               PROVE  tokens'[t].exp <= now' + TTL
    OBVIOUS
  <2>1. tokens[t] \in TokenRow /\ tokens[t].exp <= now + TTL
    BY <1>1 DEF Accounts
  <2>2. tokens[t].exp \in Int
    BY <2>1 DEF TokenRow
  <2> QED
    BY <1>1, <1>2, <2>1, <2>2
<1> QED
  BY <1>1, <1>2, <1>3, OutsideStep DEF Accounts

LEMMA AccountsRestart ==
  ASSUME Accounts, NEW w \in Workers, Restart(w)
  PROVE  Accounts'
<1>1. /\ UNCHANGED <<now, tokens, users, cookie>>
      /\ seen' = [seen EXCEPT ![w] = {}]
      /\ used' = [used EXCEPT ![w] = [t \in Tokens |-> 0]]
      /\ at' = [at EXCEPT ![w] = "idle"]
      /\ req' = [req EXCEPT ![w] = NoRequest]
  BY DEF Restart
<1>2. /\ seen' \in [Workers -> SUBSET Tokens] /\ used' \in [Workers -> [Tokens -> Nat]]
      /\ DOMAIN at' = Workers /\ DOMAIN req' = Workers
      /\ \A v \in Workers \ {w} : at'[v] = at[v] /\ req'[v] = req[v]
      /\ at'[w] = "idle" /\ req'[w] = NoRequest
  BY <1>1 DEF Accounts
<1>3. Rows' = Rows /\ NamesDiffer' /\ users' \in Seq(UserRow)
  BY <1>1 DEF Accounts, NamesDiffer, Rows
<1>4. Requesting(w)'
  BY <1>2 DEF Requesting, NoRequest, SessionsOf
<1> QED
  BY <1>1, <1>2, <1>3, <1>4, StepOf DEF Accounts

LEMMA AccountsNext == Accounts /\ [Next]_vars => Accounts'
<1> SUFFICES ASSUME Accounts, [Next]_vars PROVE Accounts'
  OBVIOUS
<1>1. CASE UNCHANGED vars
  BY <1>1, OutsideStep DEF vars, Accounts
<1>2. ASSUME NEW t \in Tokens, IssueToken(t) PROVE Accounts'
  BY <1>2, AccountsIssueToken
<1>3. ASSUME NEW w \in Workers, LoginStep(w) PROVE Accounts'
  <2>1. CASE \E b \in Browsers, t \in Tokens : StartLogin(w, b, t)
    BY <2>1, AccountsStartLogin
  <2>2. CASE RecordJti(w)
    BY <2>2, AccountsRecordJti
  <2>3. CASE ResolveUser(w)
    BY <2>3, AccountsResolveUser
  <2>4. CASE LinkUser(w)
    BY <2>4, AccountsLinkUser
  <2>5. CASE SyncUser(w)
    BY <2>5, AccountsSyncUser
  <2>6. CASE ChooseName(w)
    BY <2>6, AccountsChooseName
  <2>7. CASE InsertUser(w)
    BY <2>7, AccountsInsertUser
  <2>8. CASE FinishLogin(w) \/ LoginFails(w)
    BY <2>8, AccountsEnds
  <2> QED
    BY <1>3, <2>1, <2>2, <2>3, <2>4, <2>5, <2>6, <2>7, <2>8 DEF LoginStep
<1>4. ASSUME NEW w \in Workers, RequestStep(w) PROVE Accounts'
  <2>1. CASE \E b \in Browsers : StartRequest(w, b)
    BY <2>1, AccountsStartRequest
  <2>2. CASE \E b \in Browsers : Logout(w, b)
    BY <2>2, AccountsLogout
  <2>3. CASE ServePage(w) \/ \E u \in Rows : ChangeRole(w, u) \/ Deactivate(w, u)
    BY <2>3, AccountsPages
  <2>4. CASE EndRequest(w)
    BY <2>4, AccountsEnds
  <2> QED
    BY <1>4, <2>1, <2>2, <2>3, <2>4 DEF RequestStep
<1>5. ASSUME NEW w \in Workers, Restart(w) PROVE Accounts'
  BY <1>5, AccountsRestart
<1>6. CASE Tick
  BY <1>6, AccountsTick
<1> QED
  BY <1>1, <1>2, <1>3, <1>4, <1>5, <1>6 DEF Next

-----------------------------------------------------------------------------
LEMMA AccountsTyped == Accounts => TypeOK
<1> SUFFICES ASSUME Accounts PROVE TypeOK
  OBVIOUS
<1>1. \A t \in Tokens : tokens[t] # NoToken => tokens[t].id \in Ids
  BY IssuedIsToken DEF IssuedToken, TokenRow
<1>2. ASSUME NEW session \in SessionsOf(Rows) PROVE session.user \in {0} \cup Rows
  BY DEF SessionsOf, NoSession
<1>3. \A b \in Browsers : cookie[b].user \in {0} \cup Rows
  BY <1>2 DEF Accounts
<1>4. \A w \in Workers : req[w].session.user \in {0} \cup Rows
  BY <1>2 DEF Accounts, Requesting
<1> QED
  BY <1>1, <1>3, <1>4 DEF Accounts, TypeOK, NamesDiffer

LEMMA AccountsAlways == Spec => []Accounts
  BY AccountsInit, AccountsNext, PTL DEF Spec

\* However many processes serve logins and requests, every cookie and every
\* request in hand is of an account that exists, and no two accounts have one
\* name (portal_bridge.py, provision_portal_user; app.py, require_login).
THEOREM TypeCorrect == Spec => []TypeOK
  BY AccountsAlways, AccountsTyped, PTL

\* An account's id, where it changes, changes by LinkUser.
LEMMA OnlyLinking ==
  ASSUME Accounts, [Next]_vars, NEW u \in Rows, users'[u].id # users[u].id
  PROVE  \E w \in Workers : LinkUser(w) /\ req[w].user = u
<1>1. users \in Seq(UserRow) /\ Rows = 1..Len(users)
  BY RowsAre DEF Accounts
<1>2. ~UNCHANGED users
  OBVIOUS
<1>3. PICK w \in Workers : LinkUser(w) \/ SyncUser(w) \/ InsertUser(w)
                             \/ \E v \in Rows : ChangeRole(w, v) \/ Deactivate(w, v)
  BY <1>2 DEF Next, vars, IssueToken, LoginStep, RequestStep, Restart, Tick, StartLogin,
     RecordJti, ResolveUser, ChooseName, FinishLogin, LoginFails, StartRequest, Logout,
     ServePage, EndRequest
<1>4. ~SyncUser(w)
  <2> SUFFICES ASSUME SyncUser(w) PROVE FALSE
    OBVIOUS
  <2> DEFINE v == req[w].user
             row == Synced(users[v], Token(w))
  <2>1. users' = [users EXCEPT ![v] = row] /\ v \in Rows
    BY DEF SyncUser, Accounts, Requesting, At
  <2>2. row.id = users[v].id
    BY <2>1, RowsAre DEF Synced, UserRow
  <2> QED
    BY <1>1, <2>1, <2>2 DEF Rows
<1>5. ~InsertUser(w)
  <2> SUFFICES ASSUME InsertUser(w) PROVE FALSE
    OBVIOUS
  <2>1. PICK row : users' = Append(users, row)
    BY <1>2 DEF InsertUser
  <2> QED
    BY <1>1, <2>1
<1>6. ASSUME NEW v \in Rows PROVE ~(ChangeRole(w, v) \/ Deactivate(w, v))
  <2> SUFFICES ASSUME ChangeRole(w, v) \/ Deactivate(w, v) PROVE FALSE
    OBVIOUS
  <2>1. PICK row \in {[users[v] EXCEPT !.admin = TRUE], [users[v] EXCEPT !.active = FALSE]} :
          users' = [users EXCEPT ![v] = row]
    BY DEF ChangeRole, Deactivate
  <2>2. users[v] \in UserRow
    BY RowsAre
  <2>3. row.id = users[v].id
    BY <2>2 DEF UserRow
  <2> QED
    BY <1>1, <2>1, <2>3 DEF Rows
<1>7. LinkUser(w)
  BY <1>3, <1>4, <1>5, <1>6
<1>8. users' = [users EXCEPT ![req[w].user] = Linked(users[req[w].user], Token(w))]
  BY <1>7 DEF LinkUser
<1> QED
  BY <1>7, <1>8 DEF Rows

\* Only a login that links changes an account's id, and it does so to one it
\* found without an id or under the person's customer id: with that id still
\* there, the person is the same (portal_bridge.py, resolve_portal_user and
\* _may_relink_stale_portal_user_id).
THEOREM KeepPerson == Spec => AccountsKeepPerson
<1> DEFINE Kept == \A u \in Rows :
                     users[u].id # NoId /\ users'[u].id # users[u].id =>
                         \/ /\ users[u].id.kind = "customer"
                            /\ users'[u].id = [kind |-> "user", of |-> users[u].id.of]
                         \/ \E w \in Workers : Overtaken(w, u)
<1>1. Accounts /\ [Next]_vars => [Kept]_vars
  <2> SUFFICES ASSUME Accounts, [Next]_vars, NEW u \in Rows,
                      users[u].id # NoId, users'[u].id # users[u].id,
                      ~\E w \in Workers : Overtaken(w, u)
               PROVE  /\ users[u].id.kind = "customer"
                      /\ users'[u].id = [kind |-> "user", of |-> users[u].id.of]
    OBVIOUS
  <2>1. PICK w \in Workers : LinkUser(w) /\ req[w].user = u
    BY OnlyLinking
  <2>2. At(w, "link") /\ req[w].read = users[u].id
    BY <2>1 DEF LinkUser, Overtaken
  <2>3. /\ Token(w).id.kind = "user"
        /\ users[u].id = [kind |-> "customer", of |-> Token(w).id.of]
    BY <2>2 DEF Accounts, Requesting, At
  <2>4. Token(w).id \in Ids
    BY <2>2 DEF Accounts, Requesting, At, IssuedToken, Token, TokenRow
  <2>5. users'[u].id = Token(w).id
    BY <2>1, RowsAre DEF LinkUser, Linked, Rows, UserRow
  <2> QED
    BY <2>3, <2>4, <2>5 DEF Ids
<1> HIDE DEF Kept
<1>2. Spec => [][Kept]_vars
  BY <1>1, AccountsAlways, PTL DEF Spec
<1> QED
  BY <1>2 DEF AccountsKeepPerson, Kept

-----------------------------------------------------------------------------
(* Logins one at a time.                                                   *)

\* No two accounts have one portal id, or one address.
OneAccount ==
    \A u, v \in Rows : users[u].id = users[v].id \/ users[u].email = users[v].email => u = v

\* What a login has found of its token's person holds until it writes: nobody
\* has that id, and only the account about to be linked has that address.
Unmade(w) ==
    /\ at[w] \in {"link", "name", "insert"} =>
          \A v \in Rows : users[v].id # Token(w).id
    /\ at[w] \in {"name", "insert"} =>
          \A v \in Rows : users[v].email # Token(w).email
    /\ at[w] = "link" =>
          \A v \in Rows : users[v].email = Token(w).email <=> v = req[w].user

OneInv == Accounts /\ OneAccount /\ \A w \in Workers : Unmade(w)

LEMMA OneInit == Init => OneInv
<1> SUFFICES ASSUME Init PROVE OneInv
  OBVIOUS
<1>1. Accounts
  BY AccountsInit
<1>2. OneAccount
  BY DEF Init, OneAccount, Rows
<1>3. \A w \in Workers : Unmade(w)
  BY DEF Init, Unmade
<1> QED
  BY <1>1, <1>2, <1>3 DEF OneInv

\* The accounts keep their ids and addresses.
AccountsStand ==
    Rows' = Rows /\ \A u \in Rows : users'[u].id = users[u].id /\ users'[u].email = users[u].email

LEMMA OneStands == OneAccount /\ AccountsStand => OneAccount'
  BY DEF OneAccount, AccountsStand

\* A step of w, alone.
LEMMA OneAlone ==
  ASSUME OneInv, Accounts', NEW w \in Workers, OthersIdle(w), OneAccount', Unmade(w)',
         \A v \in Workers \ {w} : at'[v] = at[v]
  PROVE  OneInv'
<1>1. \A v \in Workers \ {w} : at'[v] = "idle"
  BY DEF OthersIdle, At
<1>2. \A v \in Workers \ {w} : Unmade(v)'
  BY <1>1 DEF Unmade
<1> QED
  BY <1>2 DEF OneInv

LEMMA OneQuiet ==
  ASSUME OneInv, Accounts', NEW w \in Workers, OthersIdle(w), AccountsStand,
         \A v \in Workers \ {w} : at'[v] = at[v], at'[w] \notin {"link", "name", "insert"}
  PROVE  OneInv'
<1>1. Unmade(w)'
  BY DEF Unmade
<1>2. OneAccount'
  BY OneStands DEF OneInv
<1> QED
  BY <1>1, <1>2, OneAlone

\* The steps that write no account and leave none to be made.
LEMMA OneElse ==
  ASSUME OneInv, Accounts', NEW w \in Workers, OthersIdle(w),
         \/ \E b \in Browsers, t \in Tokens : StartLogin(w, b, t)
         \/ RecordJti(w) \/ FinishLogin(w) \/ LoginFails(w)
         \/ \E b \in Browsers : StartRequest(w, b) \/ Logout(w, b)
         \/ ServePage(w) \/ EndRequest(w)
  PROVE  OneInv'
<1>1. users' = users /\ DOMAIN at = Workers
  BY DEF OneInv, Accounts, StartLogin, RecordJti, FinishLogin, LoginFails, StartRequest, Logout,
     ServePage, EndRequest
<1>2. \E l \in {"idle", "record", "resolve", "handle", "respond"} : at' = [at EXCEPT ![w] = l]
  BY DEF StartLogin, RecordJti, FinishLogin, LoginFails, StartRequest, Logout,
     ServePage, EndRequest, Respond, Goto
<1>3. AccountsStand
  BY <1>1 DEF AccountsStand, Rows
<1>4. at'[w] \notin {"link", "name", "insert"} /\ \A v \in Workers \ {w} : at'[v] = at[v]
  BY <1>1, <1>2
<1> QED
  BY <1>3, <1>4, OneQuiet

\* The steps that rewrite an account and keep its id and address.
LEMMA OneRoles ==
  ASSUME OneInv, Accounts', NEW w \in Workers, OthersIdle(w),
         SyncUser(w) \/ \E u \in Rows : ChangeRole(w, u) \/ Deactivate(w, u)
  PROVE  OneInv'
<1>1. Accounts /\ DOMAIN at = Workers /\ \A u \in Rows : users[u] \in UserRow
  BY RowsAre DEF OneInv, Accounts
<1>2. PICK u \in Rows, l \in {"finish", "respond"} :
        /\ at' = [at EXCEPT ![w] = l]
        /\ \E a, b \in BOOLEAN : users' = [users EXCEPT ![u] = [@ EXCEPT !.admin = a, !.active = b]]
  <2>1. CASE SyncUser(w)
    <3>1. req[w].user \in Rows /\ IssuedToken(req[w].token)
      BY <1>1, <2>1 DEF SyncUser, At, Accounts, Requesting
    <3>2. Token(w).admin \in BOOLEAN
      BY <3>1 DEF IssuedToken, Token, TokenRow
    <3>3. at' = [at EXCEPT ![w] = "finish"]
      BY <2>1 DEF SyncUser, Establish, Goto
    <3>4. users' = [users EXCEPT ![req[w].user] =
                      [users[req[w].user] EXCEPT !.admin = Token(w).admin, !.active = TRUE]]
      BY <2>1 DEF SyncUser, Synced
    <3> QED
      BY <3>1, <3>2, <3>3, <3>4
  <2>2. ASSUME NEW u \in Rows, ChangeRole(w, u) \/ Deactivate(w, u)
        PROVE  /\ at' = [at EXCEPT ![w] = "respond"]
               /\ \E a, b \in BOOLEAN :
                     users' = [users EXCEPT ![u] = [@ EXCEPT !.admin = a, !.active = b]]
    <3> DEFINE row == users[u]
    <3>1. row \in UserRow /\ row.admin \in BOOLEAN /\ row.active \in BOOLEAN
      BY <1>1 DEF UserRow
    <3>2. at' = [at EXCEPT ![w] = "respond"]
      BY <2>2 DEF ChangeRole, Deactivate, Goto
    <3>3. [row EXCEPT !.admin = TRUE] = [row EXCEPT !.admin = TRUE, !.active = row.active]
      BY <3>1 DEF UserRow
    <3>4. [row EXCEPT !.active = FALSE] = [row EXCEPT !.admin = row.admin, !.active = FALSE]
      BY <3>1 DEF UserRow
    <3>5. users' = [users EXCEPT ![u] = [row EXCEPT !.admin = TRUE]]
            \/ users' = [users EXCEPT ![u] = [row EXCEPT !.active = FALSE]]
      BY <2>2 DEF ChangeRole, Deactivate
    <3> QED
      BY <3>1, <3>2, <3>3, <3>4, <3>5
  <2> QED
    BY <2>1, <2>2
<1>3. PICK a, b \in BOOLEAN : users' = [users EXCEPT ![u] = [users[u] EXCEPT !.admin = a, !.active = b]]
  BY <1>2
<1> DEFINE row == [users[u] EXCEPT !.admin = a, !.active = b]
<1>4. row \in UserRow /\ row.id = users[u].id /\ row.email = users[u].email /\ row.name = users[u].name
  BY <1>1 DEF UserRow
<1>5. users' = [users EXCEPT ![u] = row]
  BY <1>3
<1> HIDE DEF row
<1>6. Rows' = Rows /\ users'[u] = row /\ \A v \in Rows \ {u} : users'[v] = users[v]
  BY <1>1, <1>4, <1>5, RowRewritten
<1>7. AccountsStand
  BY <1>4, <1>6 DEF AccountsStand
<1>8. at'[w] \notin {"link", "name", "insert"} /\ \A v \in Workers \ {w} : at'[v] = at[v]
  BY <1>1, <1>2
<1> QED
  BY <1>7, <1>8, OneQuiet

LEMMA OneResolve ==
  ASSUME OneInv, Accounts', NEW w \in Workers, OthersIdle(w), ResolveUser(w)
  PROVE  OneInv'
<1> DEFINE token == Token(w)
           byId == {u \in Rows : users[u].id = token.id}
           byEmail == {u \in Rows : users[u].email = token.email}
           row == users[First(byEmail)]
<1>1. users' = users /\ tokens' = tokens /\ DOMAIN at = Workers /\ DOMAIN req = Workers /\ Accounts
  BY DEF OneInv, Accounts, ResolveUser
<1>2. byEmail # {} => First(byEmail) \in byEmail
  <2>1. Rows \subseteq Nat
    BY <1>1, RowsAre DEF Accounts
  <2> QED
    BY <2>1, LeastRow
<1>3. AccountsStand /\ OneAccount'
  BY <1>1, OneStands DEF AccountsStand, Rows, OneInv
<1>4. CASE byId # {}
  <2>1. Goto(w, "sync")
    BY <1>4 DEF ResolveUser, Found
  <2> QED
    BY <1>1, <1>3, <2>1, OneQuiet DEF Goto
<1>5. CASE byId = {} /\ byEmail # {} /\ (row.id = NoId \/ MayRelink(row, token))
  <2>1. Found(w, "link", First(byEmail))
    BY <1>5 DEF ResolveUser
  <2>2. /\ at'[w] = "link" /\ req'[w].token = req[w].token /\ req'[w].user = First(byEmail)
        /\ \A v \in Workers \ {w} : at'[v] = at[v]
    BY <1>1, <2>1 DEF Found, Goto
  <2>3. Token(w)' = token
    BY <1>1, <2>2 DEF Token
  <2>4. \A v \in byEmail : v = First(byEmail)
    BY <1>2, <1>5 DEF OneInv, OneAccount
  <2>5. Unmade(w)'
    BY <1>1, <1>2, <1>5, <2>2, <2>3, <2>4 DEF Unmade, Rows
  <2> QED
    BY <1>3, <2>2, <2>5, OneAlone
<1>6. CASE byId = {} /\ byEmail = {}
  <2>1. Goto(w, "name") /\ req' = req
    BY <1>6 DEF ResolveUser
  <2>2. at'[w] = "name" /\ Token(w)' = token /\ \A v \in Workers \ {w} : at'[v] = at[v]
    BY <1>1, <2>1 DEF Goto, Token
  <2>3. Unmade(w)'
    BY <1>1, <1>6, <2>2 DEF Unmade, Rows
  <2> QED
    BY <1>3, <2>2, <2>3, OneAlone
<1>7. CASE byId = {} /\ byEmail # {} /\ ~(row.id = NoId \/ MayRelink(row, token))
  <2>1. Respond(w, req[w].browser, NoSession)
    BY <1>7 DEF ResolveUser
  <2> QED
    BY <1>1, <1>3, <2>1, OneQuiet DEF Respond
<1> QED
  BY <1>4, <1>5, <1>6, <1>7

LEMMA OneName ==
  ASSUME OneInv, Accounts', NEW w \in Workers, OthersIdle(w), ChooseName(w)
  PROVE  OneInv'
<1>1. /\ users' = users /\ tokens' = tokens /\ DOMAIN at = Workers /\ DOMAIN req = Workers
      /\ at[w] = "name" /\ Unmade(w)
  BY DEF OneInv, Accounts, ChooseName, At
<1>2. AccountsStand /\ OneAccount'
  BY <1>1, OneStands DEF AccountsStand, Rows, OneInv
<1>3. at'[w] = "insert" /\ (\A v \in Workers \ {w} : at'[v] = at[v]) /\ req'[w].token = req[w].token
  BY <1>1 DEF ChooseName, Goto
<1>4. Token(w)' = Token(w)
  BY <1>1, <1>3 DEF Token
<1>5. Unmade(w)'
  BY <1>1, <1>3, <1>4 DEF Unmade, Rows
<1> QED
  BY <1>2, <1>3, <1>5, OneAlone

LEMMA OneLink ==
  ASSUME OneInv, Accounts', NEW w \in Workers, OthersIdle(w), LinkUser(w)
  PROVE  OneInv'
<1> DEFINE u == req[w].user
           row == Linked(users[u], Token(w))
<1>1. /\ at[w] = "link" /\ Unmade(w) /\ OneAccount /\ Accounts /\ DOMAIN at = Workers
      /\ Requesting(w) /\ u \in Rows
  BY DEF OneInv, Accounts, LinkUser, At, Requesting
<1>2. Token(w).id \in Ids /\ Token(w).email \in Emails /\ users[u] \in UserRow
  BY <1>1, RowsAre DEF Requesting, IssuedToken, Token, TokenRow
<1>3. row \in UserRow /\ row.id = Token(w).id /\ row.email = Token(w).email
      /\ row.name = users[u].name
  BY <1>2 DEF Linked, UserRow
<1>4. users' = [users EXCEPT ![u] = row]
  BY DEF LinkUser
<1> HIDE DEF row
<1>5. Rows' = Rows /\ users'[u] = row /\ \A v \in Rows \ {u} : users'[v] = users[v]
  BY <1>1, <1>3, <1>4, RowRewritten
<1>6. \A v \in Rows : users[v].id # Token(w).id /\ (users[v].email = Token(w).email <=> v = u)
  BY <1>1 DEF Unmade
<1>7. OneAccount'
  BY <1>1, <1>3, <1>5, <1>6 DEF OneAccount
<1>8. at'[w] = "sync" /\ \A v \in Workers \ {w} : at'[v] = at[v]
  BY <1>1 DEF LinkUser, Goto
<1>9. Unmade(w)'
  BY <1>8 DEF Unmade
<1> QED
  BY <1>7, <1>8, <1>9, OneAlone

LEMMA OneInsert ==
  ASSUME OneInv, Accounts', NEW w \in Workers, OthersIdle(w), InsertUser(w)
  PROVE  OneInv'
<1> DEFINE token == Token(w)
           row == [name |-> req[w].name, id |-> token.id, email |-> token.email,
                   admin |-> token.admin, active |-> TRUE]
           n == Len(users) + 1
<1>1. /\ at[w] = "insert" /\ Unmade(w) /\ OneAccount /\ Accounts /\ DOMAIN at = Workers
      /\ users \in Seq(UserRow) /\ Rows = 1..Len(users)
  BY RowsAre DEF OneInv, Accounts, InsertUser, At
<1>2. CASE \E u \in Rows : users[u].name = req[w].name
  <2>1. Respond(w, req[w].browser, NoSession) /\ users' = users
    BY <1>2 DEF InsertUser
  <2>2. AccountsStand
    BY <2>1 DEF AccountsStand, Rows
  <2> QED
    BY <1>1, <2>1, <2>2, OneQuiet DEF Respond
<1>3. CASE ~\E u \in Rows : users[u].name = req[w].name
  <2>1. users' = Append(users, row) /\ Goto(w, "finish")
    BY <1>3 DEF InsertUser, Establish
  <2>2. row.id = token.id /\ row.email = token.email
    OBVIOUS
  <2> HIDE DEF row
  <2>3. /\ Rows' = Rows \cup {n} /\ n \notin Rows /\ users'[n] = row
        /\ \A v \in Rows : users'[v] = users[v]
    BY <1>1, <2>1 DEF Rows
  <2>4. \A v \in Rows : users[v].id # token.id /\ users[v].email # token.email
    BY <1>1 DEF Unmade
  <2> HIDE DEF n, token
  <2>5. OneAccount'
    BY <1>1, <2>2, <2>3, <2>4 DEF OneAccount
  <2>6. at'[w] = "finish" /\ \A v \in Workers \ {w} : at'[v] = at[v]
    BY <1>1, <2>1 DEF Goto
  <2>7. Unmade(w)'
    BY <2>6 DEF Unmade
  <2> QED
    BY <2>5, <2>6, <2>7, OneAlone
<1> QED
  BY <1>2, <1>3

\* The clock, the Portal and restarts write no account.
LEMMA OneOutside ==
  ASSUME OneInv, Accounts',
         Tick \/ (\E t \in Tokens : IssueToken(t)) \/ \E w \in Workers : Restart(w)
  PROVE  OneInv'
<1>1. Accounts /\ AccountsStand /\ users' = users /\ DOMAIN at = Workers
  BY DEF OneInv, Accounts, AccountsStand, Tick, IssueToken, Restart, Rows
<1>2. OneAccount'
  BY <1>1, OneStands DEF OneInv
<1>3. ASSUME NEW v \in Workers, at'[v] \in {"link", "name", "insert"}
      PROVE  at'[v] = at[v] /\ req'[v] = req[v] /\ Token(v)' = Token(v)
  <2>1. at'[v] = at[v] /\ req'[v] = req[v]
    <3>1. CASE at' = at /\ req' = req
      BY <3>1
    <3>2. ASSUME NEW w \in Workers, Restart(w) PROVE at'[v] = at[v] /\ req'[v] = req[v]
      BY <1>1, <1>3, <3>2 DEF Restart, Accounts
    <3> QED
      BY <3>1, <3>2 DEF Tick, IssueToken
  <2>2. IssuedToken(req[v].token)
    BY <1>1, <1>3, <2>1 DEF Accounts, Requesting
  <2>3. tokens'[req[v].token] = tokens[req[v].token]
    <3>1. ASSUME NEW t \in Tokens, IssueToken(t) PROVE tokens'[req[v].token] = tokens[req[v].token]
      BY <1>1, <2>2, <3>1, IssuedIsToken DEF IssueToken, IssuedToken, Accounts
    <3> QED
      BY <3>1 DEF Tick, Restart
  <2> QED
    BY <2>1, <2>3 DEF Token
<1>4. \A v \in Workers : Unmade(v)'
  BY <1>1, <1>3 DEF Unmade, OneInv, AccountsStand
<1> QED
  BY <1>2, <1>4 DEF OneInv

LEMMA OneStep ==
  ASSUME OneInv, [MCNext]_MCvars, oneByOne
  PROVE  OneInv'
<1>1. Accounts'
  BY AccountsNext DEF OneInv, MCNext, MCvars, Next, Issue
<1>2. CASE UNCHANGED MCvars
  <2>1. \A w \in Workers : Unmade(w)' <=> Unmade(w)
    BY <1>2 DEF MCvars, vars, Unmade, Rows, Token
  <2>2. OneAccount'
    BY <1>2 DEF MCvars, vars, OneAccount, Rows, OneInv
  <2> QED
    BY <1>1, <2>1, <2>2 DEF OneInv
<1>3. ASSUME NEW w \in Workers, OthersIdle(w), LoginStep(w) \/ RequestStep(w) PROVE OneInv'
  BY <1>1, <1>3, OneElse, OneRoles, OneResolve, OneName, OneLink, OneInsert
     DEF LoginStep, RequestStep
<1> QED
  BY <1>1, <1>2, <1>3, OneOutside DEF MCNext, Issue

\* Logins one at a time leave one account to a portal id and one to an address:
\* resolve_portal_user finds the account of the token's person by id or by
\* address before ensure_portal_user_in_ledger may insert one
\* (portal_bridge.py).
THEOREM OneAccountEach == MCSpec => []SerialOneAccount
<1> DEFINE Inv == oneByOne => OneInv
<1>1. MCInit => Inv
  BY OneInit DEF MCInit
<1>2. Inv /\ [MCNext]_MCvars => Inv'
  <2>1. [MCNext]_MCvars => oneByOne' = oneByOne
    BY DEF MCNext, MCvars
  <2> QED
    BY <2>1, OneStep
<1>3. Inv => SerialOneAccount
  BY DEF OneInv, OneAccount, SerialOneAccount
<1> QED
  BY <1>1, <1>2, <1>3, PTL DEF MCSpec
=============================================================================
