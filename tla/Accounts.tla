---- MODULE Accounts ----
\* Accounts, logins and sessions: the users table (core/user_db.py), the failed-login
\* counter (core/rate_limit.py), the login and account routes and the linking of
\* identities of an outside source to accounts (core/external_user_linking.py).
\* A handler has no yield between its database calls, so each is one step; a session
\* is a cookie that keeps what it was given at login.
EXTENDS Naturals, Sequences, FiniteSets, FiniteSetsExt

CONSTANTS
  Client, LoginName, Mistyped, \* browsers; names; those whose password is mistyped
  Email, NoEmail, NoName, NoSubject,
  Identity,       \* [name, email, subject]: people as an outside source names them
  AuthSettings,   \* [name, groups]: AUTH_METHOD and whether groups give the roles
  CwaLists,       \* what the table of the outside database may hold, in row order
  AttemptLimit,   \* MAX_LOGIN_ATTEMPTS
  AccountLimit,   \* bound: accounts ever made
  WriteLimit      \* bound: writes to the tables

ASSUME AccountsAssumption ==
  /\ {AttemptLimit, AccountLimit, WriteLimit} \subseteq Nat \ {0} /\ NoName \notin LoginName
  /\ Mistyped \subseteq LoginName /\ NoEmail \notin Email
  \* OpenID Connect's sub is in every token.
  /\ \A p \in Identity : p.name \in LoginName /\ p.subject # NoSubject
  /\ \A rows \in CwaLists :
       rows \in Seq([name : LoginName, email : Email \cup {NoEmail}, admin : BOOLEAN])

VARIABLES
  accounts,   \* the users table in the order of the ids; a deleted row keeps its place
  method,     \* AUTH_METHOD, and whether roles come from the source's groups
  session,    \* session[c]: the session cookie of a browser
  attempts,   \* attempts[n]: failed logins and the lock of a name
  writes,     \* writes so far
  forced,     \* history: sessions and accounts a forced logout was meant for
  overstayed  \* history: a route under login_required served one as that account's afterwards

accountVars == <<accounts, method, session, attempts, writes, forced, overstayed>>

\* A username is a name, or a name made distinct by a suffix or by the "__cwa" alias.
Plain(n) == [base |-> n, alias |-> FALSE, suffix |-> 0]
NobodysName == Plain(NoName)
Deleted == [name |-> NobodysName, source |-> "builtin", role |-> "user", password |-> FALSE,
            email |-> NoEmail, subject |-> NoSubject, saml |-> NoSubject, revokes |-> {}]
Users(a) == {i \in DOMAIN a : a[i].name # NobodysName}
Named(a, n) == {i \in Users(a) : a[i].name = n}
LocalAdmins(a) == {i \in Users(a) : a[i].role = "admin" /\ a[i].password}
HasAdmin == LocalAdmins(accounts) # {}
RoleOf(admin) == IF admin THEN "admin" ELSE "user"
\* determine_auth_mode
ModeOf(m, a) == IF m \in {"builtin", "oidc"} /\ LocalAdmins(a) = {} THEN "none" ELSE m
Mode == ModeOf(method.name, accounts)

NoSession == [in |-> FALSE, name |-> NobodysName, id |-> 0, admin |-> FALSE, dated |-> FALSE]
NoAttempts == [count |-> 0, lock |-> "no"]

AccountInit ==
  /\ accounts = <<>> /\ method = [name |-> "none", groups |-> FALSE]
  /\ session = [c \in Client |-> NoSession] /\ attempts = [n \in LoginName |-> NoAttempts]
  /\ writes = 0 /\ forced = {} /\ overstayed = FALSE

Writes == writes < WriteLimit /\ writes' = writes + 1

\* The linking of an outside identity x: by subject, then by a username of the same
\* source, then by an email only one account has; then what takes the wanted name.
FirstFound(sets) ==
  LET hits == {k \in DOMAIN sets : sets[k] # {}}
  IN IF hits = {} THEN 0 ELSE Min(sets[Min(hits)])
BySubject(a, x) == {i \in Users(a) : x.subject # NoSubject /\ a[i].subject = x.subject}
BySourceName(a, x) == {i \in Named(a, Plain(x.name)) : a[i].source = x.source}
ByUniqueEmail(a, x) ==
  LET same == {i \in Users(a) : a[i].email = x.email}
  IN IF x.email # NoEmail /\ Cardinality(same) = 1 THEN same ELSE {}
\* Fault: an alias made anew each time.
ByCollisionAnew(a, x) == IF x.strategy = "takeover" THEN Named(a, Plain(x.name)) ELSE {}
ByCollision(a, x) ==
  IF Named(a, Plain(x.name)) = {} THEN {}
  ELSE CASE x.strategy = "takeover" -> Named(a, Plain(x.name))
         [] x.strategy = "alias" -> {i \in Users(a) : /\ a[i].name.base = x.name /\ a[i].name.alias
                                                      /\ a[i].source = x.source}
         [] x.strategy = "suffix" -> {}
MatchOf(a, x) == FirstFound(<<BySubject(a, x), BySourceName(a, x), ByUniqueEmail(a, x)>>)
FoundFor(a, x) ==
  IF MatchOf(a, x) # 0 THEN MatchOf(a, x)
  ELSE IF x.create THEN FirstFound(<<ByCollision(a, x)>>) ELSE 0
FreeName(a, x) ==
  IF Named(a, Plain(x.name)) = {} THEN Plain(x.name)
  ELSE LET name(k) == [base |-> x.name, alias |-> x.strategy = "alias", suffix |-> k]
       IN name(Min({k \in 0..Len(a) : Named(a, name(k)) = {}}))
Linked(a, i, x) ==
  [a EXCEPT ![i].source = x.source, ![i].role = IF x.sync THEN x.role ELSE @,
            ![i].email = IF x.source = "proxy" THEN @ ELSE x.email,
            ![i].subject = IF x.subject # NoSubject THEN x.subject ELSE @]
NewAccount(name, source, role, password, email, subject) ==
  [name |-> name, source |-> source, role |-> role, password |-> password, email |-> email,
   subject |-> subject, saml |-> NoSubject, revokes |-> {}]
\* upsert_external_user: the table it leaves and the account it answers, 0 for none.
Upsert(a, x) ==
  IF FoundFor(a, x) # 0 THEN [table |-> Linked(a, FoundFor(a, x), x), id |-> FoundFor(a, x)]
  ELSE IF ~x.create THEN [table |-> a, id |-> 0]
  ELSE [table |-> Append(a, NewAccount(FreeName(a, x), x.source, x.role, FALSE, x.email, x.subject)),
        id |-> Len(a) + 1]
CwaIdentity(p, admin) ==
  [source |-> "cwa", name |-> p.name, email |-> p.email, subject |-> NoSubject, role |-> RoleOf(admin),
   sync |-> TRUE, create |-> TRUE, strategy |-> IF p.email = NoEmail THEN "takeover" ELSE "alias"]
OidcIdentity(p, group, create) ==
  [source |-> "oidc", name |-> p.name, email |-> p.email, subject |-> p.subject,
   role |-> RoleOf(group), sync |-> method.groups, create |-> create, strategy |-> "suffix"]
ProxyIdentity(n, admin) ==
  [source |-> "proxy", name |-> n, email |-> NoEmail, subject |-> NoSubject, role |-> RoleOf(admin),
   sync |-> TRUE, create |-> TRUE, strategy |-> "takeover"]

\* Fault: a login ends the effect of a forced logout for everybody.
LogInForAll(a, c, name, id) ==
  /\ session' = [session EXCEPT ![c] = [in |-> TRUE, name |-> name, id |-> id,
                                        admin |-> a[id].role = "admin", dated |-> TRUE]]
  /\ accounts' = [a EXCEPT ![id].revokes = {}]
  /\ forced' = {p \in forced : p[1] # c}
  /\ UNCHANGED <<method, overstayed>>
\* A session is written at login; clients of older sessions are no longer outdated.
LogIn(a, c, name, id) ==
  /\ session' = [session EXCEPT ![c] = [in |-> TRUE, name |-> name, id |-> id,
                                        admin |-> a[id].role = "admin", dated |-> TRUE]]
  /\ accounts' = [i \in DOMAIN a |-> [a[i] EXCEPT !.revokes = @ \ {c}]]
  /\ forced' = {p \in forced : p[1] # c}
  /\ UNCHANGED <<method, overstayed>>
Outdated(c) == session[c].dated /\ session[c].id \in Users(accounts) /\ c \in accounts[session[c].id].revokes

\* Fault: the lock goes, the count stays.
SweptLocks == [n \in LoginName |-> IF attempts[n].lock = "expired" THEN [attempts[n] EXCEPT !.lock = "no"]
                                   ELSE attempts[n]]
\* is_account_locked deletes every lock that has expired before it looks.
Swept == [n \in LoginName |-> IF attempts[n].lock = "expired" THEN NoAttempts ELSE attempts[n]]
Unlocked(n) == Swept[n].lock = "no"
LockExpires(n) ==
  /\ attempts[n].lock = "yes" /\ attempts' = [attempts EXCEPT ![n].lock = "expired"]
  /\ UNCHANGED <<accounts, method, session, writes, forced, overstayed>>
LoginRefused(n) ==
  /\ Mode # "proxy" /\ ~Unlocked(n) /\ attempts' = Swept
  /\ UNCHANGED <<accounts, method, session, writes, forced, overstayed>>
\* record_failed_login
LoginFails(n) ==
  /\ Mode \in {"builtin", "oidc", "cwa"} /\ Unlocked(n)
  /\ attempts' = [Swept EXCEPT ![n] = [count |-> @.count + 1,
                                       lock |-> IF @.count + 1 >= AttemptLimit THEN "yes" ELSE "no"]]
  /\ UNCHANGED <<accounts, method, session, writes, forced, overstayed>>
OpenLogin(c, n) ==
  /\ Mode = "none" /\ Unlocked(n) /\ attempts' = [Swept EXCEPT ![n] = NoAttempts]
  /\ session' = [session EXCEPT ![c].in = TRUE, ![c].name = Plain(n)]
  /\ UNCHANGED <<accounts, method, writes, forced, overstayed>>
LocalLogin(c, n) ==
  /\ Mode \in {"builtin", "oidc"} /\ Unlocked(n) /\ attempts' = [Swept EXCEPT ![n] = NoAttempts]
  /\ \E i \in Named(accounts, Plain(n)) :
       accounts[i].password /\ LogIn(accounts, c, Plain(n), i)
  /\ UNCHANGED writes
CwaLogin(c, p, admin) ==
  LET to == Upsert(accounts, CwaIdentity(p, admin))
  IN /\ Mode = "cwa" /\ Unlocked(p.name) /\ Writes
     /\ attempts' = [Swept EXCEPT ![p.name] = NoAttempts]
     /\ Len(to.table) <= AccountLimit /\ LogIn(to.table, c, Plain(p.name), to.id)
     /\ session'[c].admin = admin
\* The callback asks for the provider's settings only, whatever the method is.
OidcCallback(c, p, group, create) ==
  LET to == Upsert(accounts, OidcIdentity(p, group, create))
  IN /\ to.id # 0 /\ Writes /\ Len(to.table) <= AccountLimit
     /\ LogIn(to.table, c, to.table[to.id].name, to.id) /\ UNCHANGED attempts
\* A new subject whose username is taken fails, as the column is unique.
SamlCallback(c, p, create) ==
  LET known == {i \in Users(accounts) : accounts[i].saml = p.subject}
      new == [NewAccount(Plain(p.name), "saml", "user", FALSE, p.email, NoSubject)
                EXCEPT !.saml = p.subject]
  IN /\ method.name = "saml" /\ p.subject # NoSubject /\ Writes /\ UNCHANGED attempts
     /\ IF known # {} THEN \E i \in known : LogIn(accounts, c, accounts[i].name, i)
        ELSE /\ create /\ Named(accounts, Plain(p.name)) = {} /\ Len(accounts) < AccountLimit
             /\ LogIn(Append(accounts, new), c, Plain(p.name), Len(accounts) + 1)

\* login_required, the only place that looks at session_invalidated_at: it guards the
\* routes of downloads, the library, metadata, covers, the VPN and the settings.  Those of
\* accounts, requests and activity and the sockets ask for a session only, as EditSelf
\* and AsAdmin do; the others of them change nothing here.
Served(c) == Mode = "none" \/ (session[c].in /\ ~Outdated(c))
Overstays(c) == Mode # "none" /\ <<c, session[c].id>> \in forced
\* A request to one of its routes.
Request(c) ==
  /\ Mode # "proxy" /\ UNCHANGED <<accounts, method, attempts, writes>>
  /\ IF Served(c)
     THEN overstayed' = (overstayed \/ Overstays(c)) /\ UNCHANGED <<session, forced>>
     ELSE /\ session' = [session EXCEPT ![c] = NoSession] /\ UNCHANGED overstayed
          /\ session[c].in /\ forced' = {p \in forced : p[1] # c}
\* Behind a proxy each request carries its username; the session follows it, and the
\* account is linked when the session has none or another name's; then login_required
\* looks, where it guards the route.
ProxyRequest(c, n, grouped, guarded) ==
  LET s == session[c]
      admin == IF method.groups THEN grouped
               ELSE \A i \in Named(accounts, Plain(n)) : accounts[i].role = "admin"
      kept == IF s.in /\ s.name # Plain(n) THEN 0 ELSE s.id
      insync == kept \in Users(accounts) /\ accounts[kept].name = Plain(n)
      to == IF insync THEN [table |-> accounts, id |-> kept]
            ELSE Upsert(accounts, ProxyIdentity(n, admin))
      outdated == guarded /\ s.dated /\ c \in to.table[to.id].revokes
  IN /\ Mode = "proxy" /\ Len(to.table) <= AccountLimit
     /\ IF insync THEN UNCHANGED writes ELSE Writes
     /\ accounts' = to.table
     /\ session' = [session EXCEPT ![c] =
          IF outdated THEN NoSession
          ELSE [in |-> TRUE, name |-> Plain(n), id |-> to.id, admin |-> admin, dated |-> s.dated]]
     /\ forced' = IF outdated THEN {p \in forced : p[1] # c} ELSE forced
     /\ overstayed' = (overstayed \/ (guarded /\ ~outdated /\ <<c, to.id>> \in forced))
     /\ UNCHANGED <<method, attempts>>
Logout(c) ==
  /\ session[c].in /\ session' = [session EXCEPT ![c] = NoSession]
  /\ forced' = {p \in forced : p[1] # c}
  /\ UNCHANGED <<accounts, method, attempts, writes, overstayed>>

\* _require_admin looks at the session alone.
AsAdmin(c) == Mode = "none" \/ (session[c].in /\ session[c].admin)
AdminWrites(c) == AsAdmin(c) /\ Writes /\ UNCHANGED <<method, session, attempts, overstayed>>
CreateAccount(c, n, role, email) ==
  /\ AdminWrites(c) /\ Mode \notin {"proxy", "cwa"} /\ Named(accounts, Plain(n)) = {}
  /\ Len(accounts) < AccountLimit /\ UNCHANGED forced
  /\ accounts' = Append(accounts, NewAccount(Plain(n), "builtin",
       IF Users(accounts) = {} THEN "admin" ELSE role, TRUE, email, NoSubject))
\* The password is written before the other fields are looked at, and stays when
\* one of them is refused.
Edited(i, local, password, role, email) ==
  LET a == accounts[i]
      mayRole == a.source = "builtin" \/ (a.source = "oidc" /\ ~method.groups)
      allowed == (role # a.role => mayRole) /\ (email # a.email => a.source \in {"builtin", "proxy"})
      written == [a EXCEPT !.password = @ \/ password]
  IN /\ (password => a.source = "builtin") /\ (local => role = a.role)
     /\ accounts' = [accounts EXCEPT ![i] =
          IF allowed THEN [written EXCEPT !.role = role, !.email = email] ELSE written]
     /\ accounts' # accounts /\ UNCHANGED forced
EditAccount(c, i, password, role, email) ==
  AdminWrites(c) /\ i \in Users(accounts) /\ Edited(i, FALSE, password, role, email)
\* _require_authenticated_user asks for a session with an account.
EditSelf(c, password, email) ==
  /\ Mode = "none" \/ session[c].in
  /\ session[c].id \in Users(accounts) /\ Writes
  /\ Edited(session[c].id, TRUE, password, accounts[session[c].id].role, email)
  /\ UNCHANGED <<method, session, attempts, overstayed>>
ForceLogout(c, i) ==
  LET dated == {d \in Client : session[d].in /\ session[d].dated}
  IN /\ AdminWrites(c) /\ i \in Users(accounts)
     /\ accounts' = [accounts EXCEPT ![i].revokes = @ \cup dated]
     /\ forced' = forced \cup {<<d, i>> : d \in {x \in dated : session[x].id = i}}
DeleteAccount(c, i) ==
  /\ AdminWrites(c) /\ session[c].id # i /\ i \in Users(accounts) /\ ~(accounts[i].source = "cwa" /\ Mode = "cwa")
  /\ accounts' = [accounts EXCEPT ![i] = Deleted] /\ forced' = {p \in forced : p[2] # i}
\* sync_cwa_users_from_rows: each row is linked, then the cwa accounts no row met go.
Synced(a, rows) ==
  LET after[k \in 0..Len(rows)] ==
        IF k = 0 THEN [table |-> a, met |-> {}]
        ELSE LET to == Upsert(after[k - 1].table, CwaIdentity(rows[k], rows[k].admin))
             IN [table |-> to.table, met |-> after[k - 1].met \cup {to.id}]
      done == after[Len(rows)]
  IN [i \in DOMAIN done.table |->
        IF i \in Users(done.table) \ done.met /\ done.table[i].source = "cwa" THEN Deleted
        ELSE done.table[i]]
SyncCwa(c, rows) ==
  /\ AdminWrites(c) /\ Mode = "cwa" /\ accounts' = Synced(accounts, rows)
  /\ Len(accounts') <= AccountLimit /\ forced' = {p \in forced : p[2] \in Users(accounts')}
SaveMethod(c, m) ==
  /\ Served(c) /\ AsAdmin(c) /\ (m.name = "oidc" => HasAdmin) /\ Writes
  /\ method' = m /\ method' # method /\ overstayed' = (overstayed \/ Overstays(c))
  /\ UNCHANGED <<accounts, session, attempts, forced>>

ClientStep(c) ==
  \/ Request(c) \/ Logout(c)
  \/ \E n \in LoginName : OpenLogin(c, n) \/ LocalLogin(c, n)
  \/ \E n \in LoginName, g, guarded \in BOOLEAN : ProxyRequest(c, n, g, guarded)
  \/ \E p \in Identity, g \in BOOLEAN : CwaLogin(c, p, g) \/ SamlCallback(c, p, g)
  \/ \E p \in Identity, g, create \in BOOLEAN : OidcCallback(c, p, g, create)
  \/ \E password \in BOOLEAN, e \in Email \cup {NoEmail} : EditSelf(c, password, e)
AdminStep(c) ==
  \/ \E n \in LoginName, r \in {"admin", "user"}, e \in Email \cup {NoEmail} : CreateAccount(c, n, r, e)
  \/ \E i \in Users(accounts) : ForceLogout(c, i) \/ DeleteAccount(c, i)
  \/ \E i \in Users(accounts), password \in BOOLEAN, r \in {"admin", "user"}, e \in Email \cup {NoEmail} :
       EditAccount(c, i, password, r, e)
  \/ \E rows \in CwaLists : SyncCwa(c, rows)
  \/ \E m \in AuthSettings : SaveMethod(c, m)
NameStep(n) == LockExpires(n) \/ LoginRefused(n) \/ LoginFails(n)
AccountNext ==
  \/ \E c \in Client : ClientStep(c) \/ AdminStep(c)
  \/ \E n \in Mistyped : NameStep(n)
AccountSpec == AccountInit /\ [][AccountNext]_accountVars

----
\* Types and what goes with them: names are unique, and a name is locked exactly
\* while it has collected as many failures as the limit, never more (rate_limit.py).
AccountTypeOK ==
  /\ Len(accounts) <= AccountLimit
  /\ \A n \in LoginName : /\ attempts[n].count <= AttemptLimit
                          /\ attempts[n].lock # "no" <=> attempts[n].count = AttemptLimit
  /\ \A i \in Users(accounts) :
       /\ accounts[i].source \in {"builtin", "oidc", "cwa", "proxy", "saml"} /\ accounts[i].revokes \subseteq Client
       /\ Cardinality(Named(accounts, accounts[i].name)) = 1
  /\ \A c \in Client : session[c].id \in 0..Len(accounts)

\* external_user_linking.py: whatever accounts there are, an identity that comes a
\* second time finds the account of the first and changes nothing.
LinkingSettles ==
  \A p \in Identity :
    \A x \in {CwaIdentity(p, TRUE), OidcIdentity(p, FALSE, TRUE), ProxyIdentity(p.name, TRUE)} :
      LET once == Upsert(accounts, x) IN Upsert(once.table, x) = once

\* auth_middleware.py: whatever logins, links, edits and proxies come between, no route
\* under login_required serves a session that an administrator's forced logout of its
\* account came after, nor are settings saved in it.  The other routes do serve it.
ForcedLogoutHolds == ~overstayed

====
