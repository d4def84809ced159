------------------------------- MODULE SsoLogin -------------------------------
(* Sign-in from the Portal (firm_middleware.py, sso_auth.py,                 *)
(* portal_bridge.py), the requests of a signed-in browser and the ledger     *)
(* accounts they act for, in one firm's database. The workers are processes  *)
(* with a memory of their own, each with one request at a time; a session is *)
(* the cookie in the browser.                                                *)
(*                                                                           *)
(* Signatures, audience and required claims are taken as checked: a token    *)
(* is one the Portal issued. Whether the firm is active and its database     *)
(* opens is TenantRegistry's matter: here a login may fail there.            *)
EXTENDS Integers, Sequences, FiniteSets

CONSTANTS
    Workers,      \* server processes
    Browsers,     \* cookie jars
    Tokens,       \* the launch tokens, each with a jti of its own
    People,       \* the Portal's customers
    Emails,       \* e-mail addresses, in one case
    NameOf,       \* the user name the Portal or the address suggests
    TTL,          \* seconds a token is valid (SSO_TOKEN_TTL)
    Timeout,      \* seconds of inactivity (SESSION_TIMEOUT_SECONDS)
    MaxTime,      \* bound on the clock
    MaxUsers      \* bound on the accounts

ASSUME SsoAssumption ==
    /\ NameOf \in [Emails -> STRING]
    /\ TTL \in Nat /\ Timeout \in Nat /\ MaxTime \in Nat /\ MaxUsers \in Nat

\* The Portal names one person by customers.id in early tokens and by
\* firm_users.id later. An account made in the ledger has neither.
Ids == [kind : {"customer", "user"}, of : People]
NoId == [kind |-> "none"]

\* An account's name, and the name with the start of the id appended.
Plain(email) == [name |-> NameOf[email], suffix |-> NoId]
Suffixed(email, id) == [name |-> NameOf[email], suffix |-> id]

NoToken == [exp |-> -1]
NoSession == [user |-> 0]
NoRequest == [session |-> NoSession]

VARIABLES
    now,       \* int(time.time())
    tokens,    \* what the Portal has issued
    seen,      \* _jti_seen of each process
    used,      \* tokens each process has accepted, since its start, in their time
    users,     \* the table users, by user_id
    cookie,    \* each browser's session
    at,        \* how far each process is with its request
    req        \* the request: its browser, token, chosen name, and session

vars == <<now, tokens, seen, used, users, cookie, at, req>>

Rows == DOMAIN users

TypeOK ==
    /\ now \in 0..MaxTime
    /\ \A t \in Tokens : tokens[t] # NoToken => tokens[t].id \in Ids /\ tokens[t].exp <= now + TTL
    /\ seen \in [Workers -> SUBSET Tokens]
    /\ used \in [Workers -> [Tokens -> Nat]]
    /\ \A u, v \in Rows : users[u].name = users[v].name => u = v
    /\ \A b \in Browsers : cookie[b].user \in {0} \cup Rows
    /\ \A w \in Workers : req[w].session.user \in {0} \cup Rows

At(w, label) == at[w] = label
Goto(w, label) == at' = [at EXCEPT ![w] = label]

\* The response carries the session the request ended with, dated now.
Respond(w, b, session) ==
    /\ cookie' = [cookie EXCEPT ![b] =
                     IF session = NoSession THEN NoSession
                     ELSE [session EXCEPT !.signed = now]]
    /\ at' = [at EXCEPT ![w] = "idle"]
    /\ req' = [req EXCEPT ![w] = NoRequest]

-----------------------------------------------------------------------------
(* handle_sso_login.                                                        *)

\* generate_sso_token, in the Portal.
IssueToken(t) ==
    /\ tokens[t] = NoToken
    /\ \E id \in Ids, email \in Emails, admin \in BOOLEAN :
          tokens' = [tokens EXCEPT ![t] = [id |-> id, email |-> email,
                                           admin |-> admin, exp |-> now + TTL]]
    /\ UNCHANGED <<now, seen, used, users, cookie, at, req>>

\* The session is cleared first; validate_sso_token reads the clock.
StartLogin(w, b, t) ==
    /\ At(w, "idle")
    /\ tokens[t] # NoToken
    /\ IF tokens[t].exp < now
       THEN Respond(w, b, NoSession)
       ELSE /\ Goto(w, "record")
            /\ req' = [req EXCEPT ![w] = [browser |-> b, token |-> t,
                                          session |-> NoSession]]
            /\ UNCHANGED cookie
    /\ UNCHANGED <<now, tokens, seen, used, users>>

Token(w) == tokens[req[w].token]

\* Mutant: a jti is dropped in the last second of its token.
RecordJti_DropsEarly(w) ==
    /\ At(w, "record")
    /\ LET t == req[w].token
           left == {s \in seen[w] : tokens[s].exp > now}
       IN  IF t \in left
           THEN /\ seen' = [seen EXCEPT ![w] = left]
                /\ Respond(w, req[w].browser, NoSession)
                /\ UNCHANGED used
           ELSE /\ seen' = [seen EXCEPT ![w] = left \cup {t}]
                /\ used' = IF now <= tokens[t].exp
                           THEN [used EXCEPT ![w][t] = @ + 1] ELSE used
                /\ Goto(w, "resolve")
                /\ UNCHANGED <<cookie, req>>
    /\ UNCHANGED <<now, tokens, users>>

\* _check_and_record_jti reads the clock again, drops what has expired and
\* refuses a jti that is left.
RecordJti(w) ==
    /\ At(w, "record")
    /\ LET t == req[w].token
           left == {s \in seen[w] : tokens[s].exp >= now}
       IN  IF t \in left
           THEN /\ seen' = [seen EXCEPT ![w] = left]
                /\ Respond(w, req[w].browser, NoSession)
                /\ UNCHANGED used
           ELSE /\ seen' = [seen EXCEPT ![w] = left \cup {t}]
                /\ used' = IF now <= tokens[t].exp
                           THEN [used EXCEPT ![w][t] = @ + 1] ELSE used
                /\ Goto(w, "resolve")
                /\ UNCHANGED <<cookie, req>>
    /\ UNCHANGED <<now, tokens, users>>

\* _sync_portal_user_roles: the Portal's role, and active again.
Synced(row, token) == [row EXCEPT !.admin = token.admin, !.active = TRUE]

Linked(row, token) == [row EXCEPT !.id = token.id, !.email = token.email]

\* Mutant: the id of a token takes the place of any customer id.
MayRelink_AnyPerson(row, token) == token.id.kind = "user" /\ row.id.kind = "customer"

\* _may_relink_stale_portal_user_id: the stored id is the customer id that
\* later tokens carry beside the user id.
MayRelink(row, token) ==
    /\ token.id.kind = "user"
    /\ row.id = [kind |-> "customer", of |-> token.id.of]

\* build_session_from_token, copied into the session at once; what comes after
\* may still fail.
Establish(w, u) ==
    /\ Goto(w, "finish")
    /\ req' = [req EXCEPT ![w].session = [user |-> u, id |-> Token(w).id,
                                          admin |-> users'[u].admin,
                                          last |-> -1, signed |-> 0]]

\* The account that was found; the id it had when it was read decides whether
\* the token's takes its place.
Found(w, label, u) ==
    /\ Goto(w, label)
    /\ req' = [req EXCEPT ![w] = [browser |-> @.browser, token |-> @.token,
                                  session |-> NoSession, user |-> u, read |-> users[u].id]]

First(rows) == CHOOSE u \in rows : \A v \in rows : u <= v

\* Mutant: the address of an account is not looked up.
ResolveUser_ByIdOnly(w) ==
    /\ At(w, "resolve")
    /\ LET byId == {u \in Rows : users[u].id = Token(w).id}
       IN  IF byId # {} THEN Found(w, "sync", First(byId)) ELSE Goto(w, "name") /\ UNCHANGED req
    /\ UNCHANGED <<now, tokens, seen, used, users, cookie>>

\* resolve_portal_user: by the portal id, then by the address.
ResolveUser(w) ==
    /\ At(w, "resolve")
    /\ LET token == Token(w)
           byId == {u \in Rows : users[u].id = token.id}
           byEmail == {u \in Rows : users[u].email = token.email}
           row == users[First(byEmail)]
       IN  CASE byId # {} -> Found(w, "sync", First(byId)) /\ UNCHANGED cookie
             [] byId = {} /\ byEmail # {} /\ (row.id = NoId \/ MayRelink(row, token)) ->
                   Found(w, "link", First(byEmail)) /\ UNCHANGED cookie
             [] byId = {} /\ byEmail = {} -> Goto(w, "name") /\ UNCHANGED <<cookie, req>>
             [] OTHER -> Respond(w, req[w].browser, NoSession)
    /\ UNCHANGED <<now, tokens, seen, used, users>>

\* UPDATE users SET portal_user_id, email WHERE user_id: whatever the row has
\* by now.
LinkUser(w) ==
    /\ At(w, "link")
    /\ users' = [users EXCEPT ![req[w].user] = Linked(@, Token(w))]
    /\ Goto(w, "sync")
    /\ UNCHANGED <<now, tokens, seen, used, cookie, req>>

SyncUser(w) ==
    /\ At(w, "sync")
    /\ users' = [users EXCEPT ![req[w].user] = Synced(@, Token(w))]
    /\ Establish(w, req[w].user)
    /\ UNCHANGED <<now, tokens, seen, used, cookie>>

\* provision_portal_user: a name that is taken gets the suffix.
ChooseName(w) ==
    /\ At(w, "name")
    /\ LET token == Token(w)
           taken == \E u \in Rows : users[u].name = Plain(token.email)
       IN  req' = [req EXCEPT ![w] = [browser |-> @.browser, token |-> @.token,
                                      session |-> NoSession,
                                      name |-> IF taken THEN Suffixed(token.email, token.id)
                                               ELSE Plain(token.email)]]
    /\ Goto(w, "insert")
    /\ UNCHANGED <<now, tokens, seen, used, users, cookie>>

\* INSERT INTO users; the user name is unique, the portal id and the address
\* are not.
InsertUser(w) ==
    /\ At(w, "insert")
    /\ LET token == Token(w)
       IN  IF \E u \in Rows : users[u].name = req[w].name
           THEN Respond(w, req[w].browser, NoSession) /\ UNCHANGED users
           ELSE /\ Len(users) < MaxUsers
                /\ users' = Append(users, [name |-> req[w].name, id |-> token.id,
                                           email |-> token.email, admin |-> token.admin,
                                           active |-> TRUE])
                /\ Establish(w, Len(users) + 1)
                /\ UNCHANGED cookie
    /\ UNCHANGED <<now, tokens, seen, used>>

FinishLogin(w) ==
    /\ At(w, "finish")
    /\ Respond(w, req[w].browser, req[w].session)
    /\ UNCHANGED <<now, tokens, seen, used, users>>

\* The firm is not active, a database does not open or is locked, or a step
\* after the account was resolved fails: an error page, with the session as it
\* is by then.
LoginFails(w) ==
    /\ at[w] \in {"resolve", "link", "sync", "name", "insert", "finish"}
    /\ Respond(w, req[w].browser, req[w].session)
    /\ UNCHANGED <<now, tokens, seen, used, users>>

-----------------------------------------------------------------------------
(* A request with a session.                                                *)

\* validate_sso_session_binding, on the account as it is now.
Bound(session) ==
    /\ session.user \in Rows
    /\ users[session.user].active
    /\ users[session.user].id \in {NoId, session.id}

\* require_login: a cookie signed too long ago reads as none; one without an
\* activity of its own counts from now.
StartRequest(w, b) ==
    /\ At(w, "idle")
    /\ cookie[b] # NoSession
    /\ LET session == cookie[b]
       IN  IF \/ now - session.signed > Timeout
              \/ ~Bound(session)
              \/ session.last >= 0 /\ now - session.last > Timeout
           THEN Respond(w, b, NoSession)
           ELSE /\ Goto(w, "handle")
                /\ req' = [req EXCEPT ![w] = [browser |-> b,
                                              session |-> [session EXCEPT !.last = now]]]
                /\ UNCHANGED cookie
    /\ UNCHANGED <<now, tokens, seen, used, users>>

\* Any page that leaves the accounts alone.
ServePage(w) ==
    /\ At(w, "handle")
    /\ Goto(w, "respond")
    /\ UNCHANGED <<now, tokens, seen, used, users, cookie, req>>

\* require_admin trusts the role in the cookie.
ChangeRole(w, u) ==
    /\ At(w, "handle")
    /\ req[w].session.admin
    /\ users' = [users EXCEPT ![u].admin = TRUE]
    /\ Goto(w, "respond")
    /\ UNCHANGED <<now, tokens, seen, used, cookie, req>>

\* Mutant: the account is deleted.
Deactivate_Deletes(w, u) ==
    /\ At(w, "handle")
    /\ req[w].session.admin
    /\ u # req[w].session.user
    /\ users' = [v \in 1..(Len(users) - 1) |-> users[IF v < u THEN v ELSE v + 1]]
    /\ Goto(w, "respond")
    /\ UNCHANGED <<now, tokens, seen, used, cookie, req>>

Deactivate(w, u) ==
    /\ At(w, "handle")
    /\ req[w].session.admin
    /\ u # req[w].session.user
    /\ users' = [users EXCEPT ![u].active = FALSE]
    /\ Goto(w, "respond")
    /\ UNCHANGED <<now, tokens, seen, used, cookie, req>>

EndRequest(w) ==
    /\ At(w, "respond")
    /\ Respond(w, req[w].browser, req[w].session)
    /\ UNCHANGED <<now, tokens, seen, used, users>>

\* logout and sso_logout are exempt from require_login.
Logout(w, b) ==
    /\ At(w, "idle")
    /\ cookie[b] # NoSession
    /\ Respond(w, b, NoSession)
    /\ UNCHANGED <<now, tokens, seen, used, users>>

-----------------------------------------------------------------------------
Tick ==
    /\ now < MaxTime
    /\ now' = now + 1
    /\ UNCHANGED <<tokens, seen, used, users, cookie, at, req>>

\* The process ends, its memory and its request with it.
Restart(w) ==
    /\ ~At(w, "idle") \/ seen[w] # {}
    /\ seen' = [seen EXCEPT ![w] = {}]
    /\ used' = [used EXCEPT ![w] = [t \in Tokens |-> 0]]
    /\ at' = [at EXCEPT ![w] = "idle"]
    /\ req' = [req EXCEPT ![w] = NoRequest]
    /\ UNCHANGED <<now, tokens, users, cookie>>

\* A new ledger, or one with an account made before the Portal.
Init ==
    /\ now = 0
    /\ tokens = [t \in Tokens |-> NoToken]
    /\ seen = [w \in Workers |-> {}]
    /\ used = [w \in Workers |-> [t \in Tokens |-> 0]]
    /\ \/ users = <<>>
       \/ \E email \in Emails, active \in BOOLEAN :
             users = <<[name |-> Plain(email), id |-> NoId, email |-> email,
                        admin |-> TRUE, active |-> active]>>
    /\ cookie = [b \in Browsers |-> NoSession]
    /\ at = [w \in Workers |-> "idle"]
    /\ req = [w \in Workers |-> NoRequest]

LoginStep(w) ==
    \/ \E b \in Browsers, t \in Tokens : StartLogin(w, b, t)
    \/ RecordJti(w) \/ ResolveUser(w) \/ LinkUser(w) \/ SyncUser(w)
    \/ ChooseName(w) \/ InsertUser(w)
    \/ FinishLogin(w) \/ LoginFails(w)

RequestStep(w) ==
    \/ \E b \in Browsers : StartRequest(w, b) \/ Logout(w, b)
    \/ ServePage(w) \/ EndRequest(w)
    \/ \E u \in Rows : ChangeRole(w, u) \/ Deactivate(w, u)

Next ==
    \/ \E t \in Tokens : IssueToken(t)
    \/ \E w \in Workers : LoginStep(w) \/ RequestStep(w) \/ Restart(w)
    \/ Tick

Spec == Init /\ [][Next]_vars

-----------------------------------------------------------------------------
\* A process that keeps running accepts a token at most once before the token
\* expires, however its uses, the purge and the clock interleave (sso_auth.py,
\* _check_and_record_jti). Another process, or this one after a restart, does
\* not know of it.
TokenSingleUse == \A w \in Workers, t \in Tokens : used[w][t] <= 1

\* The account that w links has been linked since w read it.
Overtaken(w, u) == At(w, "link") /\ req[w].user = u /\ req[w].read # users[u].id

\* An account linked to a person of the Portal stays that person's, whatever
\* addresses later tokens carry: only its customer id gives way to the same
\* person's user id, unless two logins link the account at the same time
\* (portal_bridge.py, resolve_portal_user).
AccountsKeepPerson ==
    [][\A u \in Rows :
          users[u].id # NoId /\ users'[u].id # users[u].id =>
              \/ /\ users[u].id.kind = "customer"
                 /\ users'[u].id = [kind |-> "user", of |-> users[u].id.of]
              \/ \E w \in Workers : Overtaken(w, u)]_vars
=============================================================================
