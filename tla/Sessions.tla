------------------------------- MODULE Sessions -------------------------------
(***************************************************************************)
(* Accounts, sessions and tenants on the server: AuthService (login,       *)
(* refresh) and AdminService (tenants and their administrators).           *)
(*                                                                         *)
(* Every query of these services is its own transaction (queryOwner), so a *)
(* handler is a chain of statements and other handlers run between any two *)
(* of them.  One action is one statement with the code that follows it up  *)
(* to the next await.  The counters of failed logins per address live in   *)
(* the memory of the process and die with it; the rest is in the database. *)
(*                                                                         *)
(* The clock is the environment: locks, blocks, sessions and access tokens *)
(* may run out at any moment.  No code deactivates an account, and a       *)
(* platform_admin belongs to no tenant: neither is in the module.          *)
(***************************************************************************)
EXTENDS Naturals, Sequences, FiniteSets

CONSTANTS Request,      \* slots for the requests being handled at a time
          Tenant,
          User,         \* every (tenant, email) that may have an account
          TenantOf,     \* the tenant of each of them
          Ip,
          MaxFailed,    \* MAX_FAILED_LOGINS
          MaxRequests,  \* bound of the instance: requests ever started
          None

ASSUME SessionsAssumption ==
  /\ TenantOf \in [User -> Tenant]
  /\ MaxFailed \in Nat \ {0}
  /\ MaxRequests \in Nat
  /\ None \notin User \cup Tenant \cup Ip
  /\ Tenant \cap User = {}    \* no id names both a tenant and an account
  /\ IsFiniteSet(Request)     \* a process handles finitely many at a time

VARIABLES
  tenantStatus,  \* table tenant: "absent" before it is created
  role,          \* table app_user: "none" while there is no account
  fails,         \* app_user.failed_login_count
  locked,        \* app_user.locked_until is in the future
  session,       \* table auth_session, in order of insertion
  audit,         \* table audit_log, per subject (tenant, account, family)
  ipFails,       \* memory: failed logins of each address
  ipBlocked,     \* memory: blockedUntil is in the future
  access,        \* accounts that hold an access token that has not expired
  req,           \* the requests being handled
  started,       \* requests started so far
  window,        \* history: wrong passwords since the last success or unlock
  killed,        \* history: families whose token was presented twice
  excused        \* history: sessions that a request created on stale reads

vars == <<tenantStatus, role, fails, locked, session, audit, ipFails, ipBlocked,
          access, req, started, window, killed, excused>>

accountVars == <<role, fails, locked, window>>
sessionVars == <<session, access, killed, excused>>
ipVars == <<ipFails, ipBlocked>>

Reads == {"session", "suspension", "reuse"}

\* One row of auth_session.  The family is the row its login created.
Row(u, f) == [user |-> u, family |-> f, revoked |-> FALSE, expired |-> FALSE]

\* A request: the step it is at, its subject, what it read, and (history) what
\* has happened since those reads that it will not look at again.
Idle == [pc |-> "idle", user |-> None, tenant |-> None, ip |-> None,
         row |-> 0, wanted |-> None, outdated |-> {}]

Rows == 1 .. Len(session)
Live(i) == ~session[i].revoked
LiveOf(u) == {i \in Rows : session[i].user = u /\ Live(i)}

Init ==
  /\ tenantStatus \in [Tenant -> {"absent", "active"}]
  /\ role \in [User -> {"none", "worker"}]
  /\ \A u \in User : role[u] = "worker" => tenantStatus[TenantOf[u]] = "active"
  /\ fails = [u \in User |-> 0]
  /\ locked = [u \in User |-> FALSE]
  /\ session = << >>
  /\ audit = [x \in Tenant \cup User |-> << >>]
  /\ ipFails = [i \in Ip |-> 0]
  /\ ipBlocked = [i \in Ip |-> FALSE]
  /\ access = {}
  /\ req = [r \in Request |-> Idle]
  /\ started = 0
  /\ window = [u \in User |-> 0]
  /\ killed = {}
  /\ excused = {}

----------------------------------------------------------------------------
(* A request moves to its next step, or ends with an answer.               *)

At(r, pc) == req[r].pc = pc
Goto(r, pc) == req' = [req EXCEPT ![r].pc = pc]
Answer(r) == req' = [req EXCEPT ![r] = Idle]

Start(r, record) ==
  /\ At(r, "idle")
  /\ started < MaxRequests
  /\ started' = started + 1
  /\ req' = [req EXCEPT ![r] = record]

\* The requests that have read of user u and may yet create a session.
Pending(q, u) ==
  q.user = u /\ q.pc \in {"verify", "revoke", "account", "rotate", "create"}

\* What happened outdates the reads of the requests it concerns.
Outdate(q, what, users) ==
  IF \E u \in users : Pending(q, u) THEN [q EXCEPT !.outdated = @ \cup {what}] ELSE q

----------------------------------------------------------------------------
(* POST /auth/login.  A refusal that leaves no trace (tenant not active,   *)
(* account locked, address blocked) is not a step.                         *)

CountIpFail(i) ==
  /\ ipFails' = [ipFails EXCEPT ![i] = @ + 1]
  /\ ipBlocked' = [ipBlocked EXCEPT ![i] = @ \/ ipFails[i] + 1 >= MaxFailed]

\* No account of that name, or more than one: 401, counted for the address.
LoginUnknown(r, i) ==
  /\ At(r, "idle")
  /\ started < MaxRequests
  /\ started' = started + 1
  /\ CountIpFail(i)
  /\ UNCHANGED <<tenantStatus, accountVars, sessionVars, audit, req>>

LoginRefused(u, i) ==
  \/ tenantStatus[TenantOf[u]] # "active"
  \/ locked[u]
  \/ ipBlocked[i]

\* The account is read once; the password is compared after an await.
LoginRead(r, u, i) ==
  /\ role[u] # "none"
  /\ ~LoginRefused(u, i)
  /\ Start(r, [Idle EXCEPT !.pc = "verify", !.user = u, !.ip = i])
  /\ UNCHANGED <<tenantStatus, accountVars, sessionVars, audit, ipVars>>

\* Mutant: the account is locked one failure late.
MutLoginFails(r) ==
  LET u == req[r].user IN
  /\ At(r, "verify")
  /\ fails' = [fails EXCEPT ![u] = @ + 1]
  /\ locked' = [locked EXCEPT ![u] = @ \/ fails[u] + 1 > MaxFailed]
  /\ window' = [window EXCEPT ![u] = @ + 1]
  /\ CountIpFail(req[r].ip)
  /\ Answer(r)
  /\ UNCHANGED <<tenantStatus, role, sessionVars, audit, started>>

\* One UPDATE counts and locks.
LoginFails(r) ==
  LET u == req[r].user IN
  /\ At(r, "verify")
  /\ fails' = [fails EXCEPT ![u] = @ + 1]
  /\ locked' = [locked EXCEPT ![u] = @ \/ fails[u] + 1 >= MaxFailed]
  /\ window' = [window EXCEPT ![u] = @ + 1]
  /\ CountIpFail(req[r].ip)
  /\ Answer(r)
  /\ UNCHANGED <<tenantStatus, role, sessionVars, audit, started>>

LoginMatches(r) ==
  LET u == req[r].user IN
  /\ At(r, "verify")
  /\ fails' = [fails EXCEPT ![u] = 0]
  /\ locked' = [locked EXCEPT ![u] = FALSE]
  /\ window' = [window EXCEPT ![u] = 0]
  /\ ipFails' = [ipFails EXCEPT ![req[r].ip] = 0]
  /\ ipBlocked' = [ipBlocked EXCEPT ![req[r].ip] = FALSE]
  /\ Goto(r, "revoke")
  /\ UNCHANGED <<tenantStatus, role, sessionVars, audit, started>>

Revoke(S) ==
  session' = [i \in Rows |-> IF i \in S THEN [session[i] EXCEPT !.revoked = TRUE]
                             ELSE session[i]]

\* Mutant: a login leaves the earlier sessions open.
MutLoginRevoke(r) ==
  /\ At(r, "revoke")
  /\ excused' = excused \ {<<"session", req[r].user>>}
  /\ req' = [req EXCEPT ![r].pc = "create", ![r].outdated = @ \ {"session"}]
  /\ UNCHANGED <<tenantStatus, accountVars, session, access, killed, audit, ipVars, started>>

\* "Una sesión activa por usuario": every open session of the account goes.
LoginRevoke(r) ==
  LET u == req[r].user IN
  /\ At(r, "revoke")
  /\ Revoke(LiveOf(u))
  /\ excused' = excused \ {<<"session", u>>}
  /\ req' = [req EXCEPT ![r].pc = "create", ![r].outdated = @ \ {"session"}]
  /\ UNCHANGED <<tenantStatus, accountVars, access, killed, audit, ipVars, started>>

----------------------------------------------------------------------------
(* The end of a login and of a refresh: createSession and the signature of *)
(* the access token.  A login opens a family, a refresh stays in its own.  *)

\* Mutant: the family is the row that is rotated.
MutFamilyOf(q) == q.row

FamilyOf(q) == IF q.row = 0 THEN Len(session) + 1 ELSE session[q.row].family

\* What the new session escapes, for the history.
Escapes(q) ==
  {<<what, q.user>> : what \in q.outdated \cap {"session", "suspension"}}
    \cup {<<what, FamilyOf(q)>> : what \in q.outdated \cap {"reuse"}}

CreateSession(r) ==
  LET q == req[r] IN
  /\ At(r, "create")
  /\ session' = Append(session, Row(q.user, FamilyOf(q)))
  /\ access' = access \cup {q.user}
  /\ excused' = excused \cup Escapes(q)
  /\ req' = [s \in Request |-> IF s = r THEN Idle ELSE Outdate(req[s], "session", {q.user})]
  /\ UNCHANGED <<tenantStatus, accountVars, killed, audit, ipVars, started>>

----------------------------------------------------------------------------
(* POST /auth/refresh with the cookie of row i, which may be any cookie    *)
(* that was ever set.                                                      *)

\* Mutant: a revoked row is as good as an open one.
MutAfterRead(i) == IF session[i].expired THEN "expire" ELSE "account"

AfterRead(i) ==
  CASE session[i].revoked -> "kill"
    [] session[i].expired /\ ~session[i].revoked -> "expire"
    [] OTHER -> "account"

RefreshRead(r, i) ==
  /\ Start(r, [Idle EXCEPT !.pc = AfterRead(i), !.user = session[i].user, !.row = i])
  /\ UNCHANGED <<tenantStatus, accountVars, sessionVars, audit, ipVars>>

\* Mutant: only the row presented is revoked, not its family.
MutRefreshKill(r) ==
  LET f == session[req[r].row].family IN
  /\ At(r, "kill")
  /\ Revoke({req[r].row})
  /\ killed' = killed \cup {f}
  /\ excused' = excused \ {<<"reuse", f>>}
  /\ Goto(r, "audit")
  /\ UNCHANGED <<tenantStatus, accountVars, access, audit, ipVars, started>>

\* revokeFamily: a rotated token came back.
RefreshKill(r) ==
  LET f == session[req[r].row].family IN
  /\ At(r, "kill")
  /\ Revoke({i \in Rows : session[i].family = f})
  /\ killed' = killed \cup {f}
  /\ excused' = excused \ {<<"reuse", f>>}
  /\ req' = [s \in Request |->
               IF s = r THEN [req[s] EXCEPT !.pc = "audit"]
               ELSE IF req[s].row # 0 /\ session[req[s].row].family = f
                      THEN Outdate(req[s], "reuse", User) ELSE req[s]]
  /\ UNCHANGED <<tenantStatus, accountVars, access, audit, ipVars, started>>

RefreshAudit(r) ==
  LET u == req[r].user IN
  /\ At(r, "audit")
  /\ audit' = [audit EXCEPT ![u] = Append(@, "token_reuse")]
  /\ Answer(r)
  /\ UNCHANGED <<tenantStatus, accountVars, sessionVars, ipVars, started>>

RefreshExpire(r) ==
  /\ At(r, "expire")
  /\ Revoke({req[r].row})
  /\ Answer(r)
  /\ UNCHANGED <<tenantStatus, accountVars, access, killed, excused, audit, ipVars, started>>

\* The account is read again: that it exists, not the state of its tenant.
RefreshAccount(r) ==
  /\ At(r, "account")
  /\ Goto(r, "rotate")
  /\ UNCHANGED <<tenantStatus, accountVars, sessionVars, audit, ipVars, started>>

\* The row is revoked whether it is still open or not.
RefreshRotate(r) ==
  /\ At(r, "rotate")
  /\ Revoke({req[r].row})
  /\ Goto(r, "create")
  /\ UNCHANGED <<tenantStatus, accountVars, access, killed, excused, audit, ipVars, started>>

----------------------------------------------------------------------------
(* /admin: requests of a platform_admin                                    *)

Log(x, action) == audit' = [audit EXCEPT ![x] = Append(@, action)]

\* One statement; a slug that exists is a 409 and writes nothing.
CreateTenant(r, t) ==
  /\ At(r, "idle")
  /\ started < MaxRequests
  /\ started' = started + 1
  /\ tenantStatus[t] = "absent"
  /\ tenantStatus' = [tenantStatus EXCEPT ![t] = "active"]
  /\ Log(t, "tenant_created")
  /\ UNCHANGED <<accountVars, sessionVars, ipVars, req>>

\* The state is read first: nothing to do when it is the wanted one.
StatusRead(r, t, wanted) ==
  /\ tenantStatus[t] \notin {"absent", wanted}
  /\ Start(r, [Idle EXCEPT !.pc = "status", !.tenant = t, !.wanted = wanted])
  /\ UNCHANGED <<tenantStatus, accountVars, sessionVars, audit, ipVars>>

StatusAction(wanted) ==
  IF wanted = "suspended" THEN "tenant_suspended" ELSE "tenant_reactivated"

\* Mutant: the sessions of the tenant stay open.
MutKeepSessions(r) ==
  LET t == req[r].tenant
      w == req[r].wanted IN
  /\ At(r, "status")
  /\ tenantStatus' = [tenantStatus EXCEPT ![t] = w]
  /\ IF tenantStatus[t] # w THEN Log(t, StatusAction(w)) ELSE audit' = audit
  /\ Answer(r)
  /\ UNCHANGED <<accountVars, sessionVars, ipVars, started>>

\* Mutant: the UPDATE has no condition on the state that was read before.
MutStatusWrite(r) ==
  LET t == req[r].tenant
      w == req[r].wanted IN
  /\ At(r, "status")
  /\ tenantStatus' = [tenantStatus EXCEPT ![t] = w]
  /\ Log(t, StatusAction(w))
  /\ Revoke({i \in Rows : w = "suspended" /\ TenantOf[session[i].user] = t})
  /\ Answer(r)
  /\ UNCHANGED <<accountVars, access, killed, excused, ipVars, started>>

\* One statement: the UPDATE ... WHERE status <> wanted, the sessions of the
\* tenant when it is suspended (even by someone else meanwhile), and the audit
\* row of the UPDATE.
StatusWrite(r) ==
  LET t == req[r].tenant
      w == req[r].wanted
      staff == {u \in User : TenantOf[u] = t} IN
  /\ At(r, "status")
  /\ tenantStatus' = [tenantStatus EXCEPT ![t] = w]
  /\ IF tenantStatus[t] # w THEN Log(t, StatusAction(w)) ELSE audit' = audit
  /\ Revoke({i \in Rows : w = "suspended" /\ session[i].user \in staff})
  /\ excused' = IF w = "suspended" THEN excused \ ({"suspension"} \X staff) ELSE excused
  /\ req' = [s \in Request |->
               IF s = r THEN Idle
               ELSE IF w = "suspended" THEN Outdate(req[s], "suspension", staff)
               ELSE req[s]]
  /\ UNCHANGED <<accountVars, access, killed, ipVars, started>>

\* asignarAdmin: the account is looked up, then created or promoted.
AssignRead(r, u) ==
  /\ tenantStatus[TenantOf[u]] # "absent"
  /\ role[u] # "tenant_admin"
  /\ Start(r, [Idle EXCEPT !.pc = IF role[u] = "none" THEN "insert" ELSE "promote",
                           !.user = u])
  /\ UNCHANGED <<tenantStatus, accountVars, sessionVars, audit, ipVars>>

AssignInsert(r) ==
  LET u == req[r].user IN
  /\ At(r, "insert")
  /\ role[u] = "none"
  /\ role' = [role EXCEPT ![u] = "tenant_admin"]
  /\ Log(u, "tenant_admin_assigned")
  /\ Answer(r)
  /\ UNCHANGED <<tenantStatus, fails, locked, window, sessionVars, ipVars, started>>

\* 23505: another request created the account; its row is read and resolved.
AssignRaced(r) ==
  LET u == req[r].user IN
  /\ At(r, "insert")
  /\ role[u] # "none"
  /\ IF role[u] = "tenant_admin" THEN Answer(r) ELSE Goto(r, "promote")
  /\ UNCHANGED <<tenantStatus, accountVars, sessionVars, audit, ipVars, started>>

\* UPDATE ... WHERE role <> 'tenant_admin' and the audit row of the UPDATE.
AssignPromote(r) ==
  LET u == req[r].user IN
  /\ At(r, "promote")
  /\ role' = [role EXCEPT ![u] = "tenant_admin"]
  /\ IF role[u] # "tenant_admin" THEN Log(u, "role_changed") ELSE audit' = audit
  /\ Answer(r)
  /\ UNCHANGED <<tenantStatus, fails, locked, window, sessionVars, ipVars, started>>

----------------------------------------------------------------------------
(* The clock and the process                                               *)

Unlock(u) ==
  /\ locked[u]
  /\ locked' = [locked EXCEPT ![u] = FALSE]
  /\ window' = [window EXCEPT ![u] = 0]
  /\ UNCHANGED <<tenantStatus, role, fails, sessionVars, audit, ipVars, req, started>>

Unblock(i) ==
  /\ ipBlocked[i]
  /\ ipBlocked' = [ipBlocked EXCEPT ![i] = FALSE]
  /\ UNCHANGED <<tenantStatus, accountVars, sessionVars, audit, ipFails, req, started>>

SessionExpires(i) ==
  /\ ~session[i].expired
  /\ session' = [session EXCEPT ![i].expired = TRUE]
  /\ UNCHANGED <<tenantStatus, accountVars, access, killed, excused, audit, ipVars, req, started>>

AccessExpires(u) ==
  /\ u \in access
  /\ access' = access \ {u}
  /\ UNCHANGED <<tenantStatus, accountVars, session, killed, excused, audit, ipVars, req, started>>

\* The process dies: the requests and the counters of the addresses are gone.
Crash ==
  /\ req # [r \in Request |-> Idle]
  /\ req' = [r \in Request |-> Idle]
  /\ ipFails' = [i \in Ip |-> 0]
  /\ ipBlocked' = [i \in Ip |-> FALSE]
  /\ UNCHANGED <<tenantStatus, accountVars, sessionVars, audit, started>>

Login(r) ==
  \/ LoginFails(r) \/ LoginMatches(r) \/ LoginRevoke(r) \/ CreateSession(r)

Refresh(r) ==
  \/ RefreshKill(r) \/ RefreshAudit(r) \/ RefreshExpire(r)
  \/ RefreshAccount(r) \/ RefreshRotate(r)

Admin(r) ==
  \/ StatusWrite(r) \/ AssignInsert(r) \/ AssignRaced(r) \/ AssignPromote(r)

Arrive(r) ==
  \/ \E i \in Ip : LoginUnknown(r, i) \/ \E u \in User : LoginRead(r, u, i)
  \/ \E i \in Rows : RefreshRead(r, i)
  \/ \E t \in Tenant : \/ CreateTenant(r, t)
                       \/ \E w \in {"active", "suspended"} : StatusRead(r, t, w)
  \/ \E u \in User : AssignRead(r, u)

Time ==
  \/ \E u \in User : Unlock(u) \/ AccessExpires(u)
  \/ \E i \in Ip : Unblock(i)
  \/ \E i \in Rows : SessionExpires(i)

Next ==
  \/ \E r \in Request : Arrive(r) \/ Login(r) \/ Refresh(r) \/ Admin(r)
  \/ Time
  \/ Crash

Spec == Init /\ [][Next]_vars

----------------------------------------------------------------------------
Steps == {"idle", "verify", "revoke", "create", "kill", "audit", "expire",
          "account", "rotate", "status", "insert", "promote"}

Actions == {"tenant_created", "tenant_suspended", "tenant_reactivated",
            "tenant_admin_assigned", "role_changed", "token_reuse"}

\* Type invariant.
TypeOK ==
  /\ tenantStatus \in [Tenant -> {"absent", "active", "suspended"}]
  /\ role \in [User -> {"none", "worker", "tenant_admin"}]
  /\ fails \in [User -> Nat] /\ locked \in [User -> BOOLEAN]
  /\ session \in Seq([user : User, family : Nat, revoked : BOOLEAN, expired : BOOLEAN])
  /\ \A i \in Rows : session[i].family \in 1 .. i
  /\ audit \in [Tenant \cup User -> Seq(Actions)]
  /\ ipFails \in [Ip -> Nat] /\ ipBlocked \in [Ip -> BOOLEAN]
  /\ access \subseteq User
  /\ req \in [Request -> [pc : Steps, user : User \cup {None}, tenant : Tenant \cup {None},
                          ip : Ip \cup {None}, row : {0} \cup Rows,
                          wanted : {"active", "suspended", None}, outdated : SUBSET Reads]]
  /\ started \in Nat /\ window \in [User -> Nat]
  /\ killed \subseteq Rows

\* A user has one open session (spec 001: a new login revokes the earlier
\* ones, a refresh rotates its own), unless a request created one knowing
\* nothing of another that was created since it revoked or read.
OneSessionUnlessRaced ==
  \A u \in User : \/ \A i, j \in LiveOf(u) : i = j
                  \/ <<"session", u>> \in excused

\* Suspending a tenant leaves none of its users a session, except those of a
\* request that had passed its checks before the suspension.
SuspendedHasNoSession ==
  \A u \in User :
    tenantStatus[TenantOf[u]] = "suspended"
      => LiveOf(u) = {} \/ <<"suspension", u>> \in excused

\* Once a rotated token came back, no session of its family is open, except
\* the one of a refresh that had read the family before.
ReusedFamilyIsDead ==
  \A f \in killed :
    \/ \A i \in Rows : session[i].family = f => ~Live(i)
    \/ <<"reuse", f>> \in excused

\* The audit tells the story, whatever requests raced: the suspensions and
\* reactivations of a tenant alternate and the last one is its state, and an
\* account became tenant_admin with exactly one row that says so.
AuditTellsTheState ==
  /\ \A t \in Tenant :
       LET trail == audit[t]
           last == trail[Len(trail)] IN
       /\ \A k \in 2 .. Len(trail) : trail[k] \notin {trail[k - 1], "tenant_created"}
       /\ trail # << >> => (last = "tenant_suspended" <=> tenantStatus[t] = "suspended")
       /\ trail = << >> => tenantStatus[t] # "suspended"
  /\ \A u \in User :
       LET grants == {k \in DOMAIN audit[u] : audit[u][k] # "token_reuse"} IN
       Cardinality(grants) = IF role[u] = "tenant_admin" THEN 1 ELSE 0

\* Between a success or the end of a lock and the next, an account takes no
\* more wrong passwords than the limit and the ones already being compared.
GuessesAreBounded ==
  \A u \in User : window[u] < MaxFailed + Cardinality(Request)

\* Nobody gets an access token in a suspended tenant, unless the request had
\* passed its checks before the suspension.
NoAccessWhileSuspended ==
  [][\A u \in User :
       u \in access' \ access /\ tenantStatus[TenantOf[u]] = "suspended"
         => <<"suspension", u>> \in excused']_vars
=============================================================================
