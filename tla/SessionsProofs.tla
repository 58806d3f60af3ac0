---------------------------- MODULE SessionsProofs ----------------------------
(* Proofs about accounts, sessions and tenants: what holds whatever requests
   interleave, for any accounts, tenants, addresses and requests at a time. *)
EXTENDS Sessions, SequenceTheorems, FiniteSetTheorems, TLAPS

SessionRow == [user : User, family : Nat, revoked : BOOLEAN, expired : BOOLEAN]

RequestRecord(n) ==
  [pc : Steps, user : User \cup {None}, tenant : Tenant \cup {None},
   ip : Ip \cup {None}, row : {0} \cup 1 .. n,
   wanted : {"active", "suspended", None}, outdated : SUBSET Reads]

(* What each step of a request needs of its fields. *)
WellFormedRequest(q) ==
  /\ q.pc \notin {"idle", "status"} => q.user \in User
  /\ q.pc = "verify" => q.ip \in Ip
  /\ q.pc \in {"kill", "expire", "account", "rotate"} => q.row # 0
  /\ q.pc = "status" => q.tenant \in Tenant /\ q.wanted \in {"active", "suspended"}

WellFormed == \A r \in Request : WellFormedRequest(req[r])

TypeInv == TypeOK /\ WellFormed

(* Statements about the rows of auth_session. *)
LEMMA RevokeFacts ==
  ASSUME session \in Seq(SessionRow), NEW S, Revoke(S)
  PROVE  /\ session' \in Seq(SessionRow)
         /\ Len(session') = Len(session)
         /\ \A i \in Rows : /\ session'[i].user = session[i].user
                            /\ session'[i].family = session[i].family
                            /\ session[i].revoked => session'[i].revoked
                            /\ i \in S => session'[i].revoked
<1>1. session \in [1 .. Len(session) -> SessionRow] /\ Len(session) \in Nat
  BY LenProperties
<1>2. session' \in [1 .. Len(session) -> SessionRow]
  BY <1>1 DEF Revoke, Rows, SessionRow
<1>3. session' \in Seq(SessionRow)
  BY <1>1, <1>2, SeqDef
<1>4. Len(session') = Len(session)
  BY <1>1, <1>2, <1>3, LenProperties
<1> QED BY <1>1, <1>3, <1>4 DEF Revoke, Rows, SessionRow

(* A session that expires keeps its place, its user and its family. *)
LEMMA ExpireFacts ==
  ASSUME session \in Seq(SessionRow), NEW i \in Rows,
         session' = [session EXCEPT ![i].expired = TRUE]
  PROVE  /\ session' \in Seq(SessionRow)
         /\ Len(session') = Len(session)
         /\ \A j \in Rows : /\ session'[j].user = session[j].user
                            /\ session'[j].family = session[j].family
                            /\ session'[j].revoked = session[j].revoked
<1>1. session \in [1 .. Len(session) -> SessionRow] /\ Len(session) \in Nat
  BY LenProperties
<1>2. session' \in [1 .. Len(session) -> SessionRow]
  BY <1>1 DEF Rows, SessionRow
<1>3. session' \in Seq(SessionRow)
  BY <1>1, <1>2, SeqDef
<1>4. Len(session') = Len(session)
  BY <1>1, <1>2, <1>3, LenProperties
<1> QED BY <1>1, <1>3, <1>4 DEF Rows, SessionRow

(* A new session comes after the others and leaves them as they are. *)
LEMMA AppendFacts ==
  ASSUME session \in Seq(SessionRow), NEW x \in SessionRow, session' = Append(session, x)
  PROVE  /\ session' \in Seq(SessionRow)
         /\ Len(session) \in Nat /\ Len(session') = Len(session) + 1
         /\ \A i \in Rows : session'[i] = session[i]
         /\ session'[Len(session) + 1] = x
BY AppendProperties, LenProperties DEF Rows

(* The families and the requests of a state whose rows are those of another,
   or more. *)
LEMMA RowsGrow ==
  ASSUME NEW m \in Nat, NEW n \in Nat, m <= n
  PROVE  RequestRecord(m) \subseteq RequestRecord(n) /\ 1 .. m \subseteq 1 .. n
BY DEF RequestRecord

(* Before any request nothing is stored and nobody is in a request. *)
LEMMA TypeInvInit == Init => TypeInv
<1> SUFFICES ASSUME Init PROVE TypeInv
  OBVIOUS
<1> USE DEF Init
<1>1. session \in Seq(SessionRow) /\ Rows = {}
  BY EmptySeq DEF Rows
<1>2. Idle \in RequestRecord(Len(session)) /\ WellFormedRequest(Idle)
  BY DEF Idle, RequestRecord, Steps, WellFormedRequest
<1>3. audit \in [Tenant \cup User -> Seq(Actions)]
  BY EmptySeq
<1>4. tenantStatus \in [Tenant -> {"absent", "active", "suspended"}]
      /\ role \in [User -> {"none", "worker", "tenant_admin"}]
  OBVIOUS
<1> QED BY <1>1, <1>2, <1>3, <1>4 DEF TypeInv, TypeOK, WellFormed, SessionRow, RequestRecord, Rows
-----------------------------------------------------------------------------
(* The parts of the type invariant that a step of a request may disturb, one
   at a time. *)
SessionTypes ==
  /\ session \in Seq(SessionRow)
  /\ \A i \in Rows : session[i].family \in 1 .. i
  /\ access \subseteq User /\ killed \subseteq Rows

RequestTypes == req \in [Request -> RequestRecord(Len(session))] /\ WellFormed

OtherTypes ==
  /\ tenantStatus \in [Tenant -> {"absent", "active", "suspended"}]
  /\ role \in [User -> {"none", "worker", "tenant_admin"}]
  /\ fails \in [User -> Nat] /\ locked \in [User -> BOOLEAN]
  /\ audit \in [Tenant \cup User -> Seq(Actions)]
  /\ ipFails \in [Ip -> Nat] /\ ipBlocked \in [Ip -> BOOLEAN]
  /\ started \in Nat /\ window \in [User -> Nat]

(* The type invariant in its three parts, which steps disturb apart. *)
LEMMA TypeParts == TypeInv <=> SessionTypes /\ RequestTypes /\ OtherTypes
BY DEF TypeInv, TypeOK, SessionTypes, RequestTypes, OtherTypes, SessionRow, RequestRecord, Rows

(* What a refresh may do once it has read its row. *)
LEMMA AfterReadType ==
  ASSUME NEW i
  PROVE  AfterRead(i) \in {"kill", "expire", "account"}
BY DEF AfterRead

(* The steps that touch a session, a token or what was noted of them. *)
LEMMA WhoTouchesSessions ==
  ASSUME [Next]_vars
  PROVE  \/ UNCHANGED sessionVars
         \/ \E r \in Request : \/ LoginRevoke(r) \/ RefreshExpire(r) \/ RefreshRotate(r)
                               \/ StatusWrite(r) \/ RefreshKill(r) \/ CreateSession(r)
         \/ \E i \in Rows : SessionExpires(i)
         \/ \E u \in User : AccessExpires(u)
<1>1. ASSUME NEW r \in Request, Arrive(r) PROVE UNCHANGED sessionVars
  BY <1>1 DEF Arrive, LoginUnknown, LoginRead, RefreshRead, CreateTenant, StatusRead, AssignRead
<1>2. ASSUME NEW r \in Request, LoginFails(r) \/ LoginMatches(r) \/ RefreshAudit(r)
                                \/ RefreshAccount(r) \/ AssignInsert(r)
                                \/ AssignRaced(r) \/ AssignPromote(r)
      PROVE  UNCHANGED sessionVars
  BY <1>2 DEF LoginFails, LoginMatches, RefreshAudit, RefreshAccount, AssignInsert,
              AssignRaced, AssignPromote
<1>3. CASE Crash \/ (\E u \in User : Unlock(u)) \/ \E i \in Ip : Unblock(i)
  BY <1>3 DEF Crash, Unlock, Unblock
<1>4. CASE UNCHANGED vars
  BY <1>4 DEF vars, sessionVars
<1> QED BY <1>1, <1>2, <1>3, <1>4 DEF Next, Login, Refresh, Admin, Time

(* Any step leaves auth_session a sequence of rows, never shorter. *)
LEMMA SessionTypesStep ==
  ASSUME TypeInv, [Next]_vars
  PROVE  SessionTypes' /\ Len(session) \in Nat /\ Len(session') \in Nat
                       /\ Len(session') >= Len(session)
<1>0. SessionTypes /\ RequestTypes /\ OtherTypes
  BY TypeParts
<1>1. Len(session) \in Nat
  BY <1>0, LenProperties DEF SessionTypes
<1>2. CASE UNCHANGED sessionVars
  BY <1>0, <1>1, <1>2 DEF sessionVars, SessionTypes, Rows
<1>3. ASSUME NEW S, Revoke(S), access' = access, killed' \subseteq Rows
      PROVE  SessionTypes' /\ Len(session') = Len(session)
  <2>1. /\ session' \in Seq(SessionRow)
        /\ Len(session') = Len(session)
        /\ \A i \in Rows : session'[i].family = session[i].family
    BY <1>0, <1>3, RevokeFacts DEF SessionTypes
  <2>2. Rows' = Rows
    BY <2>1 DEF Rows
  <2> QED BY <1>0, <1>3, <2>1, <2>2 DEF SessionTypes
<1>4. ASSUME NEW r \in Request, LoginRevoke(r) \/ RefreshExpire(r) \/ RefreshRotate(r) \/ StatusWrite(r)
      PROVE  SessionTypes' /\ Len(session') = Len(session)
  BY <1>0, <1>3, <1>4 DEF LoginRevoke, RefreshExpire, RefreshRotate, StatusWrite, SessionTypes
<1>5. ASSUME NEW r \in Request, RefreshKill(r)
      PROVE  SessionTypes' /\ Len(session') = Len(session)
  <2>1. req[r].row \in Rows
    BY <1>0, <1>5 DEF RefreshKill, At, RequestTypes, RequestRecord, WellFormed,
                      WellFormedRequest, Rows
  <2>2. session[req[r].row].family \in Rows
    BY <1>0, <1>1, <2>1 DEF SessionTypes, Rows
  <2> QED BY <1>0, <1>3, <1>5, <2>2 DEF RefreshKill, SessionTypes
<1>6. ASSUME NEW r \in Request, CreateSession(r)
      PROVE  SessionTypes' /\ Len(session') = Len(session) + 1
  <2>1. req[r].user \in User /\ req[r].row \in {0} \cup Rows
    BY <1>0, <1>6 DEF CreateSession, At, RequestTypes, RequestRecord, WellFormed,
                      WellFormedRequest, Rows
  <2>2. FamilyOf(req[r]) \in 1 .. Len(session) + 1
    BY <1>0, <1>1, <2>1 DEF FamilyOf, SessionTypes, Rows
  <2>3. Row(req[r].user, FamilyOf(req[r])) \in SessionRow
    BY <1>1, <2>1, <2>2 DEF Row, SessionRow
  <2>4. /\ session' \in Seq(SessionRow)
        /\ Len(session') = Len(session) + 1
        /\ \A i \in Rows : session'[i] = session[i]
        /\ session'[Len(session) + 1].family = FamilyOf(req[r])
    <3>1. session' = Append(session, Row(req[r].user, FamilyOf(req[r])))
      BY <1>6 DEF CreateSession
    <3>2. session'[Len(session) + 1] = Row(req[r].user, FamilyOf(req[r]))
      BY <1>0, <2>3, <3>1, AppendFacts DEF SessionTypes
    <3>3. session'[Len(session) + 1].family = FamilyOf(req[r])
      BY <3>2 DEF Row
    <3> QED BY <1>0, <2>3, <3>1, <3>3, AppendFacts DEF SessionTypes
  <2>5. Rows' = Rows \cup {Len(session) + 1}
    BY <1>1, <2>4 DEF Rows
  <2> QED BY <1>0, <1>6, <2>1, <2>2, <2>4, <2>5 DEF CreateSession, SessionTypes
<1>7. ASSUME NEW i \in Rows, SessionExpires(i)
      PROVE  SessionTypes' /\ Len(session') = Len(session)
  <2>1. /\ session' \in Seq(SessionRow)
        /\ Len(session') = Len(session)
        /\ \A j \in Rows : session'[j].family = session[j].family
    BY <1>0, <1>7, ExpireFacts DEF SessionTypes, SessionExpires
  <2>2. Rows' = Rows
    BY <2>1 DEF Rows
  <2> QED BY <1>0, <1>7, <2>1, <2>2 DEF SessionTypes, SessionExpires
<1>8. ASSUME NEW u \in User, AccessExpires(u)
      PROVE  SessionTypes' /\ Len(session') = Len(session)
  BY <1>0, <1>8 DEF AccessExpires, SessionTypes, Rows
<1>9. \/ UNCHANGED sessionVars
      \/ \E r \in Request : \/ LoginRevoke(r) \/ RefreshExpire(r) \/ RefreshRotate(r)
                            \/ StatusWrite(r) \/ RefreshKill(r) \/ CreateSession(r)
      \/ \E i \in Rows : SessionExpires(i)
      \/ \E u \in User : AccessExpires(u)
  BY WhoTouchesSessions
<1> QED
  <2>1. CASE UNCHANGED sessionVars
    BY <1>1, <1>2, <2>1 DEF sessionVars
  <2>2. CASE ~UNCHANGED sessionVars
    BY <1>1, <1>4, <1>5, <1>6, <1>7, <1>8, <1>9, <2>2
  <2> QED BY <2>1, <2>2
-----------------------------------------------------------------------------
(* Requests that change nothing but step, their row among those there are. *)
LEMMA RequestStep ==
  ASSUME TypeInv, NEW r \in Request, NEW n \in Nat, n >= Len(session),
         NEW q \in RequestRecord(n), WellFormedRequest(q), Len(session') = n,
         \A s \in Request \ {r} : \/ req'[s] = req[s]
                                  \/ \E what \in Reads :
                                       req'[s] = [req[s] EXCEPT !.outdated = @ \cup {what}],
         req'[r] = q, req' = [s \in Request |-> req'[s]]
  PROVE  RequestTypes'
<1>0. SessionTypes /\ RequestTypes
  BY TypeParts
<1>1. Len(session) \in Nat
  BY <1>0, LenProperties DEF SessionTypes
<1>2. ASSUME NEW s \in Request
      PROVE  req'[s] \in RequestRecord(n) /\ WellFormedRequest(req'[s])
  <2>1. CASE s = r
    BY <2>1
  <2>2. CASE req'[s] = req[s]
    BY <1>0, <1>1, <2>2, RowsGrow DEF RequestTypes, WellFormed
  <2>3. ASSUME NEW what \in Reads, req'[s] = [req[s] EXCEPT !.outdated = @ \cup {what}]
        PROVE  req'[s] \in RequestRecord(n) /\ WellFormedRequest(req'[s])
    <3>1. req[s] \in RequestRecord(n) /\ WellFormedRequest(req[s])
      BY <1>0, <1>1, RowsGrow DEF RequestTypes, WellFormed
    <3> QED BY <2>3, <3>1 DEF RequestRecord, WellFormedRequest
  <2> QED BY <2>1, <2>2, <2>3
<1>3. WellFormed'
  BY <1>2 DEF WellFormed
<1> QED BY <1>2, <1>3 DEF RequestTypes

(* Outdate leaves a request alone or adds one read. *)
LEMMA OutdateFacts ==
  ASSUME NEW q, NEW what \in Reads, NEW users
  PROVE  Outdate(q, what, users) \in {q, [q EXCEPT !.outdated = @ \cup {what}]}
BY DEF Outdate

(* One request that moves to a well-formed record disturbs no other. *)
LEMMA RequestMoves ==
  ASSUME TypeInv, [Next]_vars, NEW r \in Request, NEW q \in RequestRecord(Len(session)),
         WellFormedRequest(q), req' = [req EXCEPT ![r] = q]
  PROVE  RequestTypes'
<1>0. SessionTypes /\ RequestTypes
  BY TypeParts
<1>1. Len(session) \in Nat /\ Len(session') \in Nat /\ Len(session') >= Len(session)
  BY SessionTypesStep
<1>2. q \in RequestRecord(Len(session'))
  BY <1>1, RowsGrow
<1>3. req' = [s \in Request |-> req'[s]] /\ req'[r] = q
      /\ \A s \in Request \ {r} : req'[s] = req[s]
  BY <1>0 DEF RequestTypes
<1> QED BY <1>1, <1>2, <1>3, RequestStep

(* Any step leaves every request well formed: it points at rows that exist. *)
LEMMA RequestTypesStep ==
  ASSUME TypeInv, [Next]_vars
  PROVE  RequestTypes'
<1>0. SessionTypes /\ RequestTypes
  BY TypeParts
<1>1. Len(session) \in Nat /\ Len(session') \in Nat /\ Len(session') >= Len(session)
  BY SessionTypesStep
<1>2. Idle \in RequestRecord(Len(session)) /\ WellFormedRequest(Idle)
  BY DEF Idle, RequestRecord, Steps, WellFormedRequest
<1>3. CASE req' = req
  BY <1>0, <1>1, <1>3, RowsGrow DEF RequestTypes, WellFormed
<1>4. ASSUME NEW r \in Request, req' # req,
             Arrive(r) \/ Login(r) \/ Refresh(r) \/ Admin(r)
      PROVE  RequestTypes'
  <2>0. req[r] \in RequestRecord(Len(session)) /\ WellFormedRequest(req[r])
    BY <1>0 DEF RequestTypes, WellFormed
  <2> USE DEF Start, Goto, Answer, At
  <2>1. CASE Answer(r)
    BY <1>2, <2>1, RequestMoves
  <2>2. ASSUME NEW u \in User, NEW i \in Ip, LoginRead(r, u, i) PROVE RequestTypes'
    <3> DEFINE q == [Idle EXCEPT !.pc = "verify", !.user = u, !.ip = i]
    <3>1. q \in RequestRecord(Len(session)) /\ WellFormedRequest(q)
      BY DEF Idle, RequestRecord, Steps, WellFormedRequest
    <3> QED BY <2>2, <3>1, RequestMoves DEF LoginRead
  <2>3. ASSUME NEW i \in Rows, RefreshRead(r, i) PROVE RequestTypes'
    <3> DEFINE q == [Idle EXCEPT !.pc = AfterRead(i), !.user = session[i].user, !.row = i]
    <3>1. session[i].user \in User /\ i \in 1 .. Len(session) /\ i # 0
      <4>1. i \in 1 .. Len(session) /\ i # 0
        BY DEF Rows
      <4>2. session[i] \in SessionRow
        BY <1>0, <4>1, ElementOfSeq DEF SessionTypes
      <4> QED BY <4>1, <4>2 DEF SessionRow
    <3>2. q \in RequestRecord(Len(session)) /\ WellFormedRequest(q)
      BY <3>1, AfterReadType DEF Idle, RequestRecord, Steps, WellFormedRequest
    <3> QED BY <2>3, <3>2, RequestMoves DEF RefreshRead
  <2>4. ASSUME NEW t \in Tenant, NEW w \in {"active", "suspended"}, StatusRead(r, t, w)
        PROVE  RequestTypes'
    <3> DEFINE q == [Idle EXCEPT !.pc = "status", !.tenant = t, !.wanted = w]
    <3>1. q \in RequestRecord(Len(session)) /\ WellFormedRequest(q)
      BY DEF Idle, RequestRecord, Steps, WellFormedRequest
    <3> QED BY <2>4, <3>1, RequestMoves DEF StatusRead
  <2>5. ASSUME NEW u \in User, AssignRead(r, u) PROVE RequestTypes'
    <3> DEFINE q == [Idle EXCEPT !.pc = IF role[u] = "none" THEN "insert" ELSE "promote",
                                 !.user = u]
    <3>1. q \in RequestRecord(Len(session)) /\ WellFormedRequest(q)
      BY DEF Idle, RequestRecord, Steps, WellFormedRequest
    <3> QED BY <2>5, <3>1, RequestMoves DEF AssignRead
  <2>6. Arrive(r) => RequestTypes'
    BY <1>4, <2>2, <2>3, <2>4, <2>5 DEF Arrive, LoginUnknown, CreateTenant
  <2>7. ASSUME NEW pc \in {"revoke", "rotate", "create", "promote"}, Goto(r, pc),
               req[r].user \in User, pc = "rotate" => req[r].row # 0
        PROVE  RequestTypes'
    <3> DEFINE q == [req[r] EXCEPT !.pc = pc]
    <3>1. q \in RequestRecord(Len(session)) /\ WellFormedRequest(q)
      BY <2>0, <2>7 DEF RequestRecord, Steps, WellFormedRequest
    <3>2. req' = [req EXCEPT ![r] = q]
      BY <2>7
    <3> QED BY <3>1, <3>2, RequestMoves
  <2>8. CASE LoginMatches(r) \/ RefreshAccount(r) \/ RefreshRotate(r) \/ AssignRaced(r)
    BY <2>0, <2>1, <2>7, <2>8 DEF LoginMatches, RefreshAccount, RefreshRotate, AssignRaced,
                                  WellFormedRequest
  <2>9. CASE LoginRevoke(r)
    <3> DEFINE q == [req[r] EXCEPT !.pc = "create", !.outdated = @ \ {"session"}]
    <3>1. q \in RequestRecord(Len(session)) /\ WellFormedRequest(q)
      BY <2>0, <2>9 DEF RequestRecord, Steps, WellFormedRequest, LoginRevoke
    <3>2. req' = [req EXCEPT ![r] = q]
      BY <1>0, <2>9 DEF LoginRevoke, RequestTypes
    <3> QED BY <3>1, <3>2, RequestMoves
  <2>10. CASE CreateSession(r)
    <3>1. \A s \in Request : req'[s] = IF s = r THEN Idle
                                       ELSE Outdate(req[s], "session", {req[r].user})
      BY <2>10 DEF CreateSession
    <3>2. req' = [s \in Request |-> req'[s]]
      BY <2>10 DEF CreateSession
    <3>3. Idle \in RequestRecord(Len(session'))
      BY <1>1, <1>2, RowsGrow
    <3>4. "session" \in Reads
      BY DEF Reads
    <3>5. \A s \in Request \ {r} : \/ req'[s] = req[s]
                                  \/ \E what \in Reads :
                                       req'[s] = [req[s] EXCEPT !.outdated = @ \cup {what}]
      BY <3>1, <3>4, OutdateFacts
    <3> QED BY <1>1, <1>2, <3>1, <3>2, <3>3, <3>5, RequestStep
  <2>11. CASE RefreshKill(r)
    <3> DEFINE q == [req[r] EXCEPT !.pc = "audit"]
    <3>1. q \in RequestRecord(Len(session)) /\ WellFormedRequest(q)
      BY <2>0, <2>11 DEF RequestRecord, Steps, WellFormedRequest, RefreshKill
    <3>2. q \in RequestRecord(Len(session'))
      BY <1>1, <3>1, RowsGrow
    <3>3. /\ req' = [s \in Request |-> req'[s]] /\ req'[r] = q
          /\ \A s \in Request \ {r} : req'[s] \in {req[s], Outdate(req[s], "reuse", User)}
      BY <2>11 DEF RefreshKill
    <3>4. "reuse" \in Reads
      BY DEF Reads
    <3>5. \A s \in Request \ {r} : \/ req'[s] = req[s]
                                  \/ \E what \in Reads :
                                       req'[s] = [req[s] EXCEPT !.outdated = @ \cup {what}]
      BY <3>3, <3>4, OutdateFacts
    <3> QED BY <1>1, <3>1, <3>2, <3>3, <3>5, RequestStep
  <2>12. CASE StatusWrite(r)
    <3>1. /\ req' = [s \in Request |-> req'[s]] /\ req'[r] = Idle
          /\ \A s \in Request \ {r} :
               \/ req'[s] = req[s]
               \/ req'[s] = Outdate(req[s], "suspension",
                                    {u \in User : TenantOf[u] = req[r].tenant})
      BY <2>12 DEF StatusWrite
    <3>2. Idle \in RequestRecord(Len(session'))
      BY <1>1, <1>2, RowsGrow
    <3>3. "suspension" \in Reads
      BY DEF Reads
    <3>4. \A s \in Request \ {r} : \/ req'[s] = req[s]
                                  \/ \E what \in Reads :
                                       req'[s] = [req[s] EXCEPT !.outdated = @ \cup {what}]
      BY <3>1, <3>3, OutdateFacts
    <3> QED BY <1>1, <1>2, <3>1, <3>2, <3>4, RequestStep
  <2>13. CASE LoginFails(r) \/ RefreshAudit(r) \/ RefreshExpire(r) \/ AssignInsert(r)
              \/ AssignPromote(r)
    BY <2>1, <2>13 DEF LoginFails, RefreshAudit, RefreshExpire, AssignInsert, AssignPromote
  <2> QED BY <1>4, <2>6, <2>8, <2>9, <2>10, <2>11, <2>12, <2>13 DEF Login, Refresh, Admin
<1>5. CASE Crash
  <2>1. Idle \in RequestRecord(Len(session'))
    BY <1>1, <1>2, RowsGrow
  <2> QED BY <1>2, <1>5, <2>1 DEF Crash, RequestTypes, WellFormed
<1>6. CASE Time \/ UNCHANGED vars
  <2>1. req' = req
    BY <1>6 DEF Time, Unlock, Unblock, SessionExpires, AccessExpires, vars
  <2> QED BY <1>3, <2>1
<1> QED BY <1>3, <1>4, <1>5, <1>6 DEF Next
-----------------------------------------------------------------------------

(* An audit row more keeps the trails well typed. *)
LEMMA LogType ==
  ASSUME OtherTypes, NEW x \in Tenant \cup User, NEW action \in Actions,
         audit' = [audit EXCEPT ![x] = Append(audit[x], action)]
  PROVE  audit' \in [Tenant \cup User -> Seq(Actions)]
<1>1. audit[x] \in Seq(Actions)
  BY DEF OtherTypes
<1>2. Append(audit[x], action) \in Seq(Actions)
  BY <1>1, AppendProperties
<1> QED BY <1>2 DEF OtherTypes

(* Accounts, tenants, counters, trails and marks keep their types. *)
LEMMA OtherTypesStep ==
  ASSUME TypeInv, [Next]_vars
  PROVE  OtherTypes'
<1>0. SessionTypes /\ RequestTypes /\ OtherTypes
  BY TypeParts
<1>1. CASE UNCHANGED <<tenantStatus, accountVars, audit, ipVars, started>>
  BY <1>0, <1>1 DEF OtherTypes, accountVars, ipVars
<1>2. ASSUME NEW r \in Request, Arrive(r) PROVE OtherTypes'
  <2>1. CASE UNCHANGED <<tenantStatus, accountVars, audit, ipVars>> /\ started' = started + 1
    BY <1>0, <2>1 DEF OtherTypes, accountVars, ipVars
  <2>2. ASSUME NEW i \in Ip, LoginUnknown(r, i) PROVE OtherTypes'
    BY <1>0, <2>2 DEF LoginUnknown, CountIpFail, OtherTypes, accountVars
  <2>3. ASSUME NEW t \in Tenant, CreateTenant(r, t) PROVE OtherTypes'
    <3>1. audit' \in [Tenant \cup User -> Seq(Actions)]
      BY <1>0, <2>3, LogType DEF CreateTenant, Log, Actions
    <3>2. /\ tenantStatus' \in [Tenant -> {"absent", "active", "suspended"}]
          /\ started' \in Nat
      BY <1>0, <2>3 DEF CreateTenant, OtherTypes
    <3>3. UNCHANGED <<accountVars, ipVars>>
      BY <2>3 DEF CreateTenant
    <3> QED BY <1>0, <3>1, <3>2, <3>3 DEF OtherTypes, accountVars, ipVars
  <2> QED BY <1>2, <2>1, <2>2, <2>3
          DEF Arrive, LoginRead, RefreshRead, StatusRead, AssignRead, Start, sessionVars
<1>3. ASSUME NEW r \in Request, Login(r) \/ Refresh(r) \/ Admin(r) PROVE OtherTypes'
  <2>0. WellFormedRequest(req[r]) /\ req[r].row \in {0} \cup 1 .. Len(session)
    BY <1>0 DEF RequestTypes, WellFormed, RequestRecord
  <2> USE DEF At, WellFormedRequest
  <2>1. CASE LoginFails(r)
    BY <1>0, <2>0, <2>1 DEF LoginFails, CountIpFail, OtherTypes
  <2>2. CASE LoginMatches(r)
    BY <1>0, <2>0, <2>2 DEF LoginMatches, OtherTypes
  <2>3. CASE RefreshAudit(r)
    <3>1. req[r].user \in User
      BY <2>0, <2>3 DEF RefreshAudit
    <3>2. audit' \in [Tenant \cup User -> Seq(Actions)]
      BY <1>0, <2>3, <3>1, LogType DEF RefreshAudit, Actions
    <3> QED BY <1>0, <2>3, <3>2 DEF RefreshAudit, OtherTypes, accountVars, ipVars
  <2>4. CASE StatusWrite(r)
    <3>1. req[r].tenant \in Tenant /\ req[r].wanted \in {"active", "suspended"}
      BY <2>0, <2>4 DEF StatusWrite
    <3>2. StatusAction(req[r].wanted) \in Actions
      BY DEF StatusAction, Actions
    <3>3. audit' \in [Tenant \cup User -> Seq(Actions)]
      BY <1>0, <2>4, <3>1, <3>2, LogType DEF StatusWrite, OtherTypes, Log
    <3> QED BY <1>0, <2>4, <3>1, <3>3 DEF StatusWrite, OtherTypes, accountVars, ipVars
  <2>5. CASE AssignInsert(r)
    <3>1. req[r].user \in User
      BY <2>0, <2>5 DEF AssignInsert
    <3>2. audit' \in [Tenant \cup User -> Seq(Actions)]
      BY <1>0, <2>5, <3>1, LogType DEF AssignInsert, Log, Actions
    <3> QED BY <1>0, <2>5, <3>2 DEF AssignInsert, OtherTypes, ipVars
  <2>6. CASE AssignPromote(r)
    <3>1. req[r].user \in User
      BY <2>0, <2>6 DEF AssignPromote
    <3>2. audit' \in [Tenant \cup User -> Seq(Actions)]
      BY <1>0, <2>6, <3>1, LogType DEF AssignPromote, OtherTypes, Log, Actions
    <3> QED BY <1>0, <2>6, <3>2 DEF AssignPromote, OtherTypes, ipVars
  <2> QED BY <1>1, <1>3, <2>1, <2>2, <2>3, <2>4, <2>5, <2>6
          DEF Login, Refresh, Admin, LoginRevoke, CreateSession, RefreshKill, RefreshExpire,
              RefreshAccount, RefreshRotate, AssignRaced
<1>4. CASE Crash
  BY <1>0, <1>4 DEF Crash, OtherTypes, accountVars
<1>5. CASE Time
  <2>1. ASSUME NEW u \in User, Unlock(u) PROVE OtherTypes'
    BY <1>0, <2>1 DEF Unlock, OtherTypes, ipVars
  <2>2. ASSUME NEW i \in Ip, Unblock(i) PROVE OtherTypes'
    BY <1>0, <2>2 DEF Unblock, OtherTypes, accountVars
  <2>3. ASSUME NEW u \in User, AccessExpires(u) PROVE OtherTypes'
    BY <1>1, <2>3 DEF AccessExpires
  <2>4. ASSUME NEW i \in Rows, SessionExpires(i) PROVE OtherTypes'
    BY <1>1, <2>4 DEF SessionExpires
  <2> QED BY <1>5, <2>1, <2>2, <2>3, <2>4 DEF Time
<1>6. CASE UNCHANGED vars
  BY <1>1, <1>6 DEF vars, accountVars, ipVars
<1> QED BY <1>2, <1>3, <1>4, <1>5, <1>6 DEF Next

(* The type invariant is inductive. *)
LEMMA TypeInvStep == TypeInv /\ [Next]_vars => TypeInv'
<1> SUFFICES ASSUME TypeInv, [Next]_vars PROVE TypeInv'
  OBVIOUS
<1>1. SessionTypes' /\ RequestTypes' /\ OtherTypes'
  BY SessionTypesStep, RequestTypesStep, OtherTypesStep
<1>2. SessionTypes' /\ RequestTypes' /\ OtherTypes' => TypeInv'
  BY DEF TypeInv, TypeOK, SessionTypes, RequestTypes, OtherTypes, SessionRow, RequestRecord,
         Rows
<1> QED BY <1>1, <1>2

(* Every row, counter, trail and request is well formed in every state. *)
THEOREM TypeInvHolds == Spec => []TypeInv
BY TypeInvInit, TypeInvStep, PTL DEF Spec

(* The rows, the memory of the process and the requests keep their types, and a
   request has what the step it is at needs. *)
THEOREM SessionsTypeCorrect == Spec => []TypeOK
BY TypeInvHolds, PTL DEF TypeInv
-----------------------------------------------------------------------------
(* The inductive part of the three safety properties.  A request that has
   passed its checks holds to what it read: that the tenant is active, that the
   account has no open session but its own, that its family was not killed.
   Where that is no longer so, the request carries the mark (outdated), or a
   session was already created in its spite (excused). *)
Stale(q, what, x) == what \in q.outdated \/ <<what, x>> \in excused

KnowsSuspension(r) ==
  \A u \in User :
    Pending(req[r], u) /\ tenantStatus[TenantOf[u]] = "suspended"
      => Stale(req[r], "suspension", u)

KnowsSessions(r) ==
  LET q == req[r] IN
  /\ q.pc = "create" => LiveOf(q.user) = {} \/ Stale(q, "session", q.user)
  /\ q.pc \in {"account", "rotate"} =>
       LiveOf(q.user) \subseteq {q.row} \/ Stale(q, "session", q.user)

KnowsReuse(r) ==
  LET q == req[r] IN
  \A u \in User :
    Pending(q, u) /\ q.row # 0 /\ session[q.row].family \in killed
      => Stale(q, "reuse", session[q.row].family)

SuspensionInv == SuspendedHasNoSession /\ \A r \in Request : KnowsSuspension(r)
OneSessionInv == OneSessionUnlessRaced /\ \A r \in Request : KnowsSessions(r)
ReuseInv == ReusedFamilyIsDead /\ \A r \in Request : KnowsReuse(r)

SafetyInv == TypeInv /\ SuspensionInv /\ OneSessionInv /\ ReuseInv

(* No row is added, opened again, or given to another. *)
RowsOnlyClose ==
  /\ Len(session') = Len(session)
  /\ \A i \in Rows : /\ session'[i].user = session[i].user
                     /\ session'[i].family = session[i].family
                     /\ session[i].revoked => session'[i].revoked

(* A request that goes on as it was, or will create no session. *)
Calm(r) ==
  LET q == req[r]
      n == req'[r] IN
  \/ n.pc \notin {"verify", "revoke", "account", "rotate", "create"}
  \/ /\ q.pc \in {"verify", "revoke", "account", "rotate", "create"}
     /\ n.user = q.user /\ n.row = q.row /\ q.outdated \subseteq n.outdated
     /\ n.pc = "create" => q.pc = "create"
     /\ n.pc \in {"account", "rotate"} => q.pc \in {"account", "rotate"}

Kept(what) == \A x : <<what, x>> \in excused => <<what, x>> \in excused'

(* Where rows only close, no user gains an open session. *)
LEMMA LiveShrinks ==
  ASSUME RowsOnlyClose
  PROVE  Rows' = Rows /\ \A u : LiveOf(u)' \subseteq LiveOf(u)
<1>1. Rows' = Rows
  BY DEF RowsOnlyClose, Rows
<1> QED BY <1>1 DEF RowsOnlyClose, LiveOf, Live

(* A step that closes rows and suspends nobody keeps what requests know of suspensions. *)
LEMMA SuspensionCalm ==
  ASSUME TypeInv, SuspensionInv, RowsOnlyClose, Kept("suspension"),
         \A t \in Tenant : tenantStatus'[t] = "suspended" => tenantStatus[t] = "suspended"
  PROVE  /\ SuspendedHasNoSession'
         /\ \A r \in Request : Calm(r) => KnowsSuspension(r)'
<1>1. \A u \in User : TenantOf[u] \in Tenant
  BY SessionsAssumption
<1>2. SuspendedHasNoSession'
  BY <1>1, LiveShrinks DEF SuspensionInv, SuspendedHasNoSession, Kept
<1>3. ASSUME NEW r \in Request, Calm(r) PROVE KnowsSuspension(r)'
  BY <1>1, <1>3 DEF SuspensionInv, KnowsSuspension, Stale, Pending, Calm, Kept
<1> QED BY <1>2, <1>3

Closed(x) == \A i \in Rows : session[i].user = x => session[i].revoked

(* A step that closes rows keeps what requests know of the other sessions of their user. *)
LEMMA OneSessionCalm ==
  ASSUME TypeInv, OneSessionInv, RowsOnlyClose,
         \A x : <<"session", x>> \in excused => <<"session", x>> \in excused' \/ Closed(x)'
  PROVE  /\ OneSessionUnlessRaced'
         /\ \A r \in Request : Calm(r) => KnowsSessions(r)'
<1>1. ASSUME NEW u \in User
      PROVE  (\A i, j \in LiveOf(u)' : i = j) \/ <<"session", u>> \in excused'
  <2>1. CASE Closed(u)'
    BY <2>1 DEF Closed, LiveOf, Live
  <2>2. CASE ~Closed(u)'
    BY <2>2, LiveShrinks DEF OneSessionInv, OneSessionUnlessRaced
  <2> QED BY <2>1, <2>2
<1>2. ASSUME NEW r \in Request, Calm(r) PROVE KnowsSessions(r)'
  <2>1. KnowsSessions(r)
    BY DEF OneSessionInv
  <2>2. CASE req'[r].pc \notin {"account", "rotate", "create"}
    BY <2>2 DEF KnowsSessions
  <2>3. CASE req'[r].pc \in {"account", "rotate", "create"}
    <3>1. /\ req'[r].user = req[r].user /\ req'[r].row = req[r].row
          /\ req[r].outdated \subseteq req'[r].outdated
          /\ req'[r].pc = "create" => req[r].pc = "create"
          /\ req'[r].pc \in {"account", "rotate"} => req[r].pc \in {"account", "rotate"}
      BY <1>2, <2>3 DEF Calm
    <3>2. \A i \in Rows' : session'[i].user = req'[r].user /\ ~session'[i].revoked
                             => i \in Rows /\ session[i].user = req[r].user
                                  /\ ~session[i].revoked
      BY <3>1, LiveShrinks DEF RowsOnlyClose
    <3>3. Stale(req[r], "session", req[r].user)
            => Stale(req[r], "session", req[r].user)' \/ LiveOf(req[r].user)' = {}
      BY <3>1 DEF Stale, Closed, LiveOf, Live
    <3>4. LiveOf(req[r].user) = {} => LiveOf(req[r].user)' = {}
      BY <3>2 DEF LiveOf, Live
    <3>5. LiveOf(req[r].user) \subseteq {req[r].row}
            => LiveOf(req[r].user)' \subseteq {req'[r].row}
      BY <3>1, <3>2 DEF LiveOf, Live
    <3> QED BY <2>1, <3>1, <3>3, <3>4, <3>5 DEF KnowsSessions
  <2> QED BY <2>2, <2>3
<1> QED BY <1>1, <1>2 DEF OneSessionUnlessRaced

(* The row of a request is a row of auth_session. *)
LEMMA RowOfRequest ==
  ASSUME TypeInv, NEW r \in Request, req[r].row # 0
  PROVE  req[r].row \in Rows
<1>1. req[r] \in RequestRecord(Len(session))
  BY TypeParts DEF RequestTypes
<1> QED BY <1>1 DEF RequestRecord, Rows

(* A step that closes rows and kills no family keeps what requests know of theirs. *)
LEMMA ReuseCalm ==
  ASSUME TypeInv, ReuseInv, RowsOnlyClose, Kept("reuse"), killed' = killed
  PROVE  /\ ReusedFamilyIsDead'
         /\ \A r \in Request : Calm(r) => KnowsReuse(r)'
<1>1. ReusedFamilyIsDead'
  BY LiveShrinks DEF ReuseInv, ReusedFamilyIsDead, Kept, RowsOnlyClose, Live
<1>2. ASSUME NEW r \in Request, Calm(r) PROVE KnowsReuse(r)'
  <2>1. CASE req'[r].pc \notin {"verify", "revoke", "account", "rotate", "create"}
    BY <2>1 DEF KnowsReuse, Pending
  <2>2. CASE req'[r].row = 0
    BY <2>2 DEF KnowsReuse
  <2>3. CASE /\ req'[r].pc \in {"verify", "revoke", "account", "rotate", "create"}
             /\ req'[r].row # 0
    <3>1. req[r].row \in Rows /\ req'[r].row = req[r].row
      BY <1>2, <2>3, RowOfRequest DEF Calm
    <3>2. session'[req'[r].row].family = session[req[r].row].family
      BY <3>1 DEF RowsOnlyClose
    <3> QED BY <1>2, <2>3, <3>1, <3>2 DEF ReuseInv, KnowsReuse, Pending, Stale, Calm, Kept
  <2> QED BY <2>1, <2>2, <2>3
<1> QED BY <1>1, <1>2
-----------------------------------------------------------------------------
(* Every step but CreateSession only closes rows. *)
LEMMA ClosingStep ==
  ASSUME TypeInv, [Next]_vars
  PROVE  RowsOnlyClose \/ \E r \in Request : CreateSession(r)
<1>0. session \in Seq(SessionRow)
  BY TypeParts DEF SessionTypes
<1>1. ASSUME NEW S, Revoke(S) PROVE RowsOnlyClose
  BY <1>0, <1>1, RevokeFacts DEF RowsOnlyClose
<1>2. ASSUME NEW r \in Request, LoginRevoke(r) \/ RefreshExpire(r) \/ RefreshRotate(r)
                                \/ StatusWrite(r) \/ RefreshKill(r)
      PROVE  RowsOnlyClose
  BY <1>1, <1>2 DEF LoginRevoke, RefreshExpire, RefreshRotate, StatusWrite, RefreshKill
<1>3. ASSUME NEW i \in Rows, SessionExpires(i) PROVE RowsOnlyClose
  BY <1>0, <1>3, ExpireFacts DEF SessionExpires, RowsOnlyClose
<1>4. CASE session' = session
  BY <1>4 DEF RowsOnlyClose
<1>5. ASSUME NEW u \in User, AccessExpires(u) PROVE session' = session
  BY <1>5 DEF AccessExpires
<1> QED BY <1>2, <1>3, <1>4, <1>5, WhoTouchesSessions DEF sessionVars

(* The steps that the safety properties have to look at: those that pass a
   check, create a session or close the sessions of others. *)
Telling(r) ==
  \/ \E u \in User, i \in Ip : LoginRead(r, u, i)
  \/ \E i \in Rows : RefreshRead(r, i)
  \/ LoginRevoke(r) \/ CreateSession(r) \/ RefreshKill(r) \/ RefreshRotate(r)
  \/ StatusWrite(r)

(* Of the others, all requests are calm, and what they read is still so. *)
LEMMA QuietStep ==
  ASSUME TypeInv, [Next]_vars, ~(\E r \in Request : Telling(r))
  PROVE  /\ RowsOnlyClose /\ killed' = killed /\ excused' = excused
         /\ \A t \in Tenant : tenantStatus'[t] = "suspended" => tenantStatus[t] = "suspended"
         /\ \A r \in Request : Calm(r)
<1>0. RequestTypes /\ OtherTypes
  BY TypeParts
<1>1. RowsOnlyClose
  BY ClosingStep DEF Telling
<1>2. killed' = killed /\ excused' = excused
  <2>1. ASSUME NEW r \in Request, RefreshExpire(r) PROVE killed' = killed /\ excused' = excused
    BY <2>1 DEF RefreshExpire
  <2>2. ASSUME NEW i \in Rows, SessionExpires(i) PROVE killed' = killed /\ excused' = excused
    BY <2>2 DEF SessionExpires
  <2>3. ASSUME NEW u \in User, AccessExpires(u) PROVE killed' = killed /\ excused' = excused
    BY <2>3 DEF AccessExpires
  <2> QED BY <2>1, <2>2, <2>3, WhoTouchesSessions DEF Telling, sessionVars
<1>3. ASSUME NEW r \in Request,
             \/ Goto(r, "revoke") /\ At(r, "verify")
             \/ Goto(r, "rotate") /\ At(r, "account")
             \/ Goto(r, "promote")
             \/ Answer(r)
             \/ req' = req
      PROVE  \A s \in Request : Calm(s)
  BY <1>0, <1>3 DEF RequestTypes, RequestRecord, Goto, At, Answer, Idle, Calm
<1>4. ASSUME NEW r \in Request, NEW q, req' = [req EXCEPT ![r] = q],
             q.pc \in {"status", "insert", "promote"}
      PROVE  \A s \in Request : Calm(s)
  BY <1>0, <1>4 DEF RequestTypes, Calm
<1>5. ASSUME NEW r \in Request, Arrive(r)
      PROVE  /\ \A t \in Tenant : tenantStatus'[t] = "suspended" => tenantStatus[t] = "suspended"
             /\ \A s \in Request : Calm(s)
  <2>1. ASSUME NEW t \in Tenant, NEW w \in {"active", "suspended"}, StatusRead(r, t, w)
        PROVE  tenantStatus' = tenantStatus /\ \A s \in Request : Calm(s)
    <3> DEFINE q == [Idle EXCEPT !.pc = "status", !.tenant = t, !.wanted = w]
    <3>1. q.pc = "status" /\ req' = [req EXCEPT ![r] = q]
      BY <2>1 DEF StatusRead, Start, Idle
    <3> QED BY <1>4, <2>1, <3>1 DEF StatusRead
  <2>2. ASSUME NEW t \in Tenant, CreateTenant(r, t)
        PROVE  /\ tenantStatus' = [tenantStatus EXCEPT ![t] = "active"]
               /\ \A s \in Request : Calm(s)
    BY <1>3, <2>2 DEF CreateTenant
  <2>3. ASSUME NEW u \in User, AssignRead(r, u)
        PROVE  tenantStatus' = tenantStatus /\ \A s \in Request : Calm(s)
    <3> DEFINE q == [Idle EXCEPT !.pc = IF role[u] = "none" THEN "insert" ELSE "promote",
                                 !.user = u]
    <3>1. q.pc \in {"status", "insert", "promote"} /\ req' = [req EXCEPT ![r] = q]
      BY <2>3 DEF AssignRead, Start, Idle
    <3> HIDE DEF q
    <3> QED BY <1>4, <2>3, <3>1 DEF AssignRead
  <2>4. ASSUME NEW i \in Ip, LoginUnknown(r, i)
        PROVE  tenantStatus' = tenantStatus /\ \A s \in Request : Calm(s)
    BY <1>3, <2>4 DEF LoginUnknown
  <2> QED BY <1>0, <1>5, <2>1, <2>2, <2>3, <2>4 DEF Arrive, Telling, OtherTypes
<1>6. ASSUME NEW r \in Request, Login(r) \/ Refresh(r) \/ Admin(r)
      PROVE  tenantStatus' = tenantStatus /\ \A s \in Request : Calm(s)
  <2>1. CASE LoginFails(r) \/ LoginMatches(r)
    BY <1>3, <2>1 DEF LoginFails, LoginMatches
  <2>2. CASE RefreshAudit(r) \/ RefreshExpire(r) \/ RefreshAccount(r)
    BY <1>3, <2>2 DEF RefreshAudit, RefreshExpire, RefreshAccount
  <2>3. CASE AssignInsert(r) \/ AssignRaced(r) \/ AssignPromote(r)
    BY <1>3, <2>3 DEF AssignInsert, AssignRaced, AssignPromote
  <2> QED BY <1>6, <2>1, <2>2, <2>3 DEF Login, Refresh, Admin, Telling
<1>7. CASE Crash
  BY <1>1, <1>2, <1>7 DEF Crash, Calm, Idle
<1>8. CASE Time \/ UNCHANGED vars
  <2>1. tenantStatus' = tenantStatus /\ req' = req
    BY <1>8 DEF Time, Unlock, AccessExpires, Unblock, SessionExpires, vars
  <2>2. \A s \in Request : Calm(s)
    BY <2>1 DEF Calm
  <2> QED BY <1>1, <1>2, <2>1, <2>2
<1> QED BY <1>1, <1>2, <1>5, <1>6, <1>7, <1>8 DEF Next, Crash

(* A step that leaves the sessions alone is calm in all three senses. *)
LEMMA SameSessions ==
  ASSUME UNCHANGED sessionVars
  PROVE  RowsOnlyClose /\ killed' = killed /\ Kept("suspension") /\ Kept("session")
                       /\ Kept("reuse")
BY DEF sessionVars, RowsOnlyClose, Kept

(* A login that reads its account knows nothing yet of its sessions. *)
LEMMA LoginReadStep ==
  ASSUME SafetyInv, NEW r \in Request, NEW u \in User, NEW i \in Ip, LoginRead(r, u, i)
  PROVE  SuspensionInv' /\ OneSessionInv' /\ ReuseInv'
<1>0. UNCHANGED <<tenantStatus, sessionVars>> /\ tenantStatus[TenantOf[u]] = "active"
  BY DEF LoginRead, LoginRefused
<1>1. \A s \in Request \ {r} : Calm(s)
  BY TypeParts DEF SafetyInv, RequestTypes, LoginRead, Start, Calm
<1>2. req'[r].pc = "verify" /\ req'[r].user = u /\ req'[r].row = 0
  BY TypeParts DEF SafetyInv, RequestTypes, LoginRead, Start, Idle
<1>3. KnowsSuspension(r)'
  BY <1>0, <1>2 DEF KnowsSuspension, Pending
<1>4. KnowsSessions(r)' /\ KnowsReuse(r)'
  BY <1>2 DEF KnowsSessions, KnowsReuse
<1>5. SuspensionInv'
  BY <1>0, <1>1, <1>3, SameSessions, SuspensionCalm DEF SafetyInv, SuspensionInv
<1>6. OneSessionInv'
  BY <1>0, <1>1, <1>4, SameSessions, OneSessionCalm DEF SafetyInv, OneSessionInv, Kept
<1>7. ReuseInv'
  BY <1>0, <1>1, <1>4, SameSessions, ReuseCalm DEF SafetyInv, ReuseInv
<1> QED BY <1>5, <1>6, <1>7

(* A row that is open vouches for all three, but for what is excused. *)
LEMMA RefreshReadStep ==
  ASSUME SafetyInv, NEW r \in Request, NEW i \in Rows, RefreshRead(r, i)
  PROVE  SuspensionInv' /\ OneSessionInv' /\ ReuseInv'
<1>0. UNCHANGED <<tenantStatus, sessionVars>> /\ Rows' = Rows
  BY DEF RefreshRead, sessionVars, Rows
<1>1. \A s \in Request \ {r} : Calm(s)
  BY TypeParts DEF SafetyInv, RequestTypes, RefreshRead, Start, Calm
<1>2. /\ req'[r].pc = AfterRead(i) /\ req'[r].user = session[i].user
      /\ req'[r].row = i
  BY TypeParts DEF SafetyInv, RequestTypes, RefreshRead, Start, Idle
<1>3. req'[r].pc \in {"kill", "expire", "account"}
  BY <1>2, AfterReadType
<1>4. req'[r].pc = "account" => i \in LiveOf(session[i].user)
  BY <1>2 DEF AfterRead, LiveOf, Live
<1>5. KnowsSuspension(r)'
  <2>1. ASSUME NEW u \in User, req'[r].pc = "account", req'[r].user = u,
               tenantStatus[TenantOf[u]] = "suspended"
        PROVE  <<"suspension", u>> \in excused
    BY <1>2, <1>4, <2>1 DEF SafetyInv, SuspensionInv, SuspendedHasNoSession
  <2>2. excused' = excused /\ tenantStatus' = tenantStatus
    BY <1>0 DEF sessionVars
  <2> QED BY <1>3, <2>1, <2>2 DEF KnowsSuspension, Pending, Stale
<1>6. KnowsSessions(r)'
  <2>1. CASE req'[r].pc # "account"
    BY <1>3, <2>1 DEF KnowsSessions
  <2>2. CASE req'[r].pc = "account"
    <3>1. session[i].user \in User
      <4>1. i \in 1 .. Len(session) /\ session \in Seq(SessionRow)
        BY TypeParts DEF SafetyInv, SessionTypes, Rows
      <4>2. session[i] \in SessionRow
        BY <4>1, ElementOfSeq
      <4> QED BY <4>2 DEF SessionRow
    <3>2. LiveOf(session[i].user) \subseteq {i} \/ <<"session", session[i].user>> \in excused
      BY <1>4, <2>2, <3>1 DEF SafetyInv, OneSessionInv, OneSessionUnlessRaced
    <3>3. session' = session /\ excused' = excused
      BY <1>0 DEF sessionVars
    <3> QED BY <1>0, <1>2, <2>2, <3>2, <3>3 DEF KnowsSessions, Stale, LiveOf, Live
  <2> QED BY <2>1, <2>2
<1>7. KnowsReuse(r)'
  <2>1. session' = session /\ excused' = excused /\ killed' = killed
    BY <1>0 DEF sessionVars
  <2>2. ASSUME req'[r].pc = "account", session[i].family \in killed
        PROVE  <<"reuse", session[i].family>> \in excused
    BY <1>4, <2>2 DEF SafetyInv, ReuseInv, ReusedFamilyIsDead, LiveOf
  <2> QED BY <1>2, <1>3, <2>1, <2>2 DEF KnowsReuse, Pending, Stale
<1>8. SuspensionInv'
  BY <1>0, <1>1, <1>5, SameSessions, SuspensionCalm DEF SafetyInv, SuspensionInv
<1>9. OneSessionInv'
  BY <1>0, <1>1, <1>6, SameSessions, OneSessionCalm DEF SafetyInv, OneSessionInv, Kept
<1>10. ReuseInv'
  BY <1>0, <1>1, <1>7, SameSessions, ReuseCalm DEF SafetyInv, ReuseInv
<1> QED BY <1>8, <1>9, <1>10

(* A refresh that revokes the row it rotates: the user is left without another one. *)
LEMMA RefreshRotateStep ==
  ASSUME SafetyInv, NEW r \in Request, RefreshRotate(r)
  PROVE  SuspensionInv' /\ OneSessionInv' /\ ReuseInv'
<1>0. /\ tenantStatus' = tenantStatus /\ killed' = killed /\ excused' = excused
      /\ Kept("suspension") /\ Kept("session") /\ Kept("reuse")
  BY DEF RefreshRotate, Kept
<1>1. /\ RowsOnlyClose
      /\ req[r].row \in Rows => session'[req[r].row].revoked
  BY TypeParts, RevokeFacts DEF SafetyInv, SessionTypes, RefreshRotate, RowsOnlyClose
<1>2. \A s \in Request \ {r} : Calm(s)
  BY TypeParts DEF SafetyInv, RequestTypes, RefreshRotate, Goto, Calm
<1>3. /\ req[r].pc = "rotate" /\ req'[r].pc = "create"
      /\ req'[r].user = req[r].user /\ req'[r].row = req[r].row
      /\ req'[r].outdated = req[r].outdated
  BY TypeParts DEF SafetyInv, RequestTypes, RequestRecord, RefreshRotate, Goto, At
<1>4. KnowsSuspension(r)'
  BY <1>0, <1>3 DEF SafetyInv, SuspensionInv, KnowsSuspension, Pending, Stale
<1>5. KnowsSessions(r)'
  <2>1. LiveOf(req[r].user) \subseteq {req[r].row} \/ Stale(req[r], "session", req[r].user)
    BY <1>3 DEF SafetyInv, OneSessionInv, KnowsSessions
  <2>2. CASE Stale(req[r], "session", req[r].user)
    BY <1>0, <1>3, <2>2 DEF KnowsSessions, Stale
  <2>3. CASE LiveOf(req[r].user) \subseteq {req[r].row}
    <3>1. \A i \in Rows' : session'[i].user = req'[r].user /\ ~session'[i].revoked
                             => i \in LiveOf(req[r].user)
      BY <1>1, <1>3, LiveShrinks DEF RowsOnlyClose, LiveOf, Live
    <3>2. LiveOf(req[r].user)' = {}
      BY <1>1, <2>3, <3>1, LiveShrinks DEF LiveOf, Live
    <3> QED BY <1>3, <3>2 DEF KnowsSessions
  <2> QED BY <2>1, <2>2, <2>3
<1>6. KnowsReuse(r)'
  <2>1. req[r].row # 0 => session'[req[r].row].family = session[req[r].row].family
    BY <1>1, RowOfRequest DEF SafetyInv, RowsOnlyClose
  <2> QED BY <1>0, <1>3, <2>1 DEF SafetyInv, ReuseInv, KnowsReuse, Pending, Stale
<1>7. SuspensionInv'
  BY <1>0, <1>1, <1>2, <1>4, SuspensionCalm DEF SafetyInv, SuspensionInv
<1>8. OneSessionInv'
  BY <1>0, <1>1, <1>2, <1>5, OneSessionCalm DEF SafetyInv, OneSessionInv, Kept
<1>9. ReuseInv'
  BY <1>0, <1>1, <1>2, <1>6, ReuseCalm DEF SafetyInv, ReuseInv
<1> QED BY <1>7, <1>8, <1>9

(* A login that revokes the open sessions of its user. *)
LEMMA LoginRevokeStep ==
  ASSUME SafetyInv, NEW r \in Request, LoginRevoke(r)
  PROVE  SuspensionInv' /\ OneSessionInv' /\ ReuseInv'
<1>0. /\ tenantStatus' = tenantStatus /\ killed' = killed
      /\ excused' = excused \ {<<"session", req[r].user>>}
      /\ Kept("suspension") /\ Kept("reuse")
  BY DEF LoginRevoke, Kept
<1>1. /\ RowsOnlyClose
      /\ \A i \in LiveOf(req[r].user) : session'[i].revoked
  <2>1. session \in Seq(SessionRow) /\ Revoke(LiveOf(req[r].user))
    BY TypeParts DEF SafetyInv, SessionTypes, LoginRevoke
  <2>2. LiveOf(req[r].user) \subseteq Rows
    BY DEF LiveOf
  <2> QED BY <2>1, <2>2, RevokeFacts DEF RowsOnlyClose
<1>2. \A s \in Request \ {r} : Calm(s)
  BY TypeParts DEF SafetyInv, RequestTypes, LoginRevoke, Calm
<1>3. /\ req[r].pc = "revoke" /\ req'[r].pc = "create"
      /\ req'[r].user = req[r].user /\ req'[r].row = req[r].row
      /\ req'[r].outdated = req[r].outdated \ {"session"}
  BY TypeParts DEF SafetyInv, RequestTypes, RequestRecord, LoginRevoke, At
<1>4. \A i \in Rows' : session'[i].user = req[r].user => session'[i].revoked
  BY <1>1, LiveShrinks DEF RowsOnlyClose, LiveOf, Live
<1>5. KnowsSuspension(r)'
  BY <1>0, <1>3 DEF SafetyInv, SuspensionInv, KnowsSuspension, Pending, Stale
<1>6. KnowsSessions(r)'
  BY <1>3, <1>4 DEF KnowsSessions, LiveOf, Live
<1>7. KnowsReuse(r)'
  <2>1. req[r].row # 0 => session'[req[r].row].family = session[req[r].row].family
    BY <1>1, RowOfRequest DEF SafetyInv, RowsOnlyClose
  <2> QED BY <1>0, <1>3, <2>1 DEF SafetyInv, ReuseInv, KnowsReuse, Pending, Stale
<1>8. SuspensionInv'
  BY <1>0, <1>1, <1>2, <1>5, SuspensionCalm DEF SafetyInv, SuspensionInv
<1>9. \A x : <<"session", x>> \in excused => <<"session", x>> \in excused' \/ Closed(x)'
  BY <1>0, <1>4 DEF Closed
<1>10. OneSessionInv'
  BY <1>1, <1>2, <1>6, <1>9, OneSessionCalm DEF SafetyInv, OneSessionInv
<1>11. ReuseInv'
  BY <1>0, <1>1, <1>2, <1>7, ReuseCalm DEF SafetyInv, ReuseInv
<1> QED BY <1>8, <1>10, <1>11

(* The family dies whole, and whoever read it before is marked. *)
LEMMA RefreshKillStep ==
  ASSUME SafetyInv, NEW r \in Request, RefreshKill(r)
  PROVE  SuspensionInv' /\ OneSessionInv' /\ ReuseInv'
<1> DEFINE f == session[req[r].row].family
<1>0. /\ tenantStatus' = tenantStatus /\ killed' = killed \cup {f}
      /\ excused' = excused \ {<<"reuse", f>>}
      /\ Kept("suspension") /\ Kept("session")
  BY DEF RefreshKill, Kept
<1>1. /\ RowsOnlyClose
      /\ \A i \in Rows : session[i].family = f => session'[i].revoked
  <2>1. session \in Seq(SessionRow) /\ Revoke({i \in Rows : session[i].family = f})
    BY TypeParts DEF SafetyInv, SessionTypes, RefreshKill
  <2> QED BY <2>1, RevokeFacts DEF RowsOnlyClose
<1>2. ASSUME NEW s \in Request, s # r
      PROVE  /\ req'[s].pc = req[s].pc /\ req'[s].user = req[s].user
             /\ req'[s].row = req[s].row /\ req[s].outdated \subseteq req'[s].outdated
             /\ req[s].row # 0 /\ session[req[s].row].family = f
                  /\ (\E u \in User : Pending(req[s], u)) => "reuse" \in req'[s].outdated
  BY <1>2, TypeParts DEF SafetyInv, RequestTypes, RequestRecord, RefreshKill, Outdate
<1>3. req'[r].pc = "audit"
  BY TypeParts DEF SafetyInv, RequestTypes, RequestRecord, RefreshKill
<1>4. \A s \in Request : Calm(s)
  BY <1>2, <1>3 DEF Calm
<1>5. SuspensionInv'
  BY <1>0, <1>1, <1>4, SuspensionCalm DEF SafetyInv, SuspensionInv
<1>6. OneSessionInv'
  BY <1>0, <1>1, <1>4, OneSessionCalm DEF SafetyInv, OneSessionInv, Kept
<1>7. ReusedFamilyIsDead'
  BY <1>0, <1>1, LiveShrinks DEF SafetyInv, ReuseInv, ReusedFamilyIsDead, RowsOnlyClose, Live
<1>8. ASSUME NEW s \in Request PROVE KnowsReuse(s)'
  <2>1. CASE s = r
    BY <1>3, <2>1 DEF KnowsReuse, Pending
  <2>2. CASE s # r
    <3>1. req[s].row # 0 => session'[req[s].row].family = session[req[s].row].family
      BY <1>1, RowOfRequest DEF SafetyInv, RowsOnlyClose
    <3> QED BY <1>0, <1>2, <2>2, <3>1 DEF SafetyInv, ReuseInv, KnowsReuse, Pending, Stale
  <2> QED BY <2>1, <2>2
<1> QED BY <1>5, <1>6, <1>7, <1>8 DEF ReuseInv

(* The sessions of the staff go, and whoever had passed the check is marked. *)
LEMMA StatusWriteStep ==
  ASSUME SafetyInv, NEW r \in Request, StatusWrite(r)
  PROVE  SuspensionInv' /\ OneSessionInv' /\ ReuseInv'
<1> DEFINE t == req[r].tenant
           w == req[r].wanted
           staff == {u \in User : TenantOf[u] = t}
<1>0. /\ tenantStatus' = [tenantStatus EXCEPT ![t] = w] /\ killed' = killed
      /\ excused' = IF w = "suspended" THEN excused \ ({"suspension"} \X staff) ELSE excused
      /\ Kept("session") /\ Kept("reuse")
  BY DEF StatusWrite, Kept
<1>1. /\ RowsOnlyClose
      /\ w = "suspended" => \A i \in Rows : session[i].user \in staff => session'[i].revoked
  <2>1. session \in Seq(SessionRow)
          /\ Revoke({i \in Rows : w = "suspended" /\ session[i].user \in staff})
    BY TypeParts DEF SafetyInv, SessionTypes, StatusWrite
  <2> QED BY <2>1, RevokeFacts DEF RowsOnlyClose
<1>2. ASSUME NEW s \in Request, s # r
      PROVE  /\ req'[s].pc = req[s].pc /\ req'[s].user = req[s].user
             /\ req'[s].row = req[s].row /\ req[s].outdated \subseteq req'[s].outdated
             /\ w = "suspended" /\ (\E u \in staff : Pending(req[s], u))
                  => "suspension" \in req'[s].outdated
  BY <1>2, TypeParts DEF SafetyInv, RequestTypes, RequestRecord, StatusWrite, Outdate
<1>3. req'[r].pc = "idle"
  BY TypeParts DEF SafetyInv, RequestTypes, RequestRecord, StatusWrite, Idle
<1>4. \A s \in Request : Calm(s)
  BY <1>2, <1>3 DEF Calm
<1>5. OneSessionInv'
  BY <1>0, <1>1, <1>4, OneSessionCalm DEF SafetyInv, OneSessionInv, Kept
<1>6. ReuseInv'
  BY <1>0, <1>1, <1>4, ReuseCalm DEF SafetyInv, ReuseInv
<1>7. CASE w # "suspended"
  <2>1. \A x \in Tenant : tenantStatus'[x] = "suspended" => tenantStatus[x] = "suspended"
    BY <1>0, <1>7, TypeParts DEF SafetyInv, OtherTypes
  <2>2. Kept("suspension")
    BY <1>0, <1>7 DEF Kept
  <2> QED BY <1>1, <1>4, <1>5, <1>6, <2>1, <2>2, SuspensionCalm DEF SafetyInv, SuspensionInv
<1>8. CASE w = "suspended"
  <2>1. ASSUME NEW u \in User \ staff
        PROVE  /\ tenantStatus'[TenantOf[u]] = tenantStatus[TenantOf[u]]
               /\ <<"suspension", u>> \in excused => <<"suspension", u>> \in excused'
    BY <1>0, TypeParts, SessionsAssumption DEF SafetyInv, OtherTypes
  <2>2. SuspendedHasNoSession'
    <3>1. ASSUME NEW u \in staff PROVE LiveOf(u)' = {}
      BY <1>1, <1>8, LiveShrinks DEF LiveOf, Live, RowsOnlyClose
    <3> QED BY <1>1, <2>1, <3>1, LiveShrinks DEF SafetyInv, SuspensionInv, SuspendedHasNoSession
  <2>3. ASSUME NEW s \in Request PROVE KnowsSuspension(s)'
    <3>1. CASE s = r
      BY <1>3, <3>1 DEF KnowsSuspension, Pending
    <3>2. CASE s # r
      BY <1>2, <1>8, <2>1, <3>2 DEF SafetyInv, SuspensionInv, KnowsSuspension, Pending, Stale
    <3> QED BY <3>1, <3>2
  <2> QED BY <1>5, <1>6, <2>2, <2>3 DEF SuspensionInv
<1> QED BY <1>7, <1>8

(* What the new session escapes of, its request had been marked with. *)
LEMMA CreateSessionStep ==
  ASSUME SafetyInv, NEW r \in Request, CreateSession(r)
  PROVE  SuspensionInv' /\ OneSessionInv' /\ ReuseInv'
<1> DEFINE q == req[r]
           u == q.user
           f == FamilyOf(q)
           n == Len(session) + 1
<1>0. /\ tenantStatus' = tenantStatus /\ killed' = killed
      /\ excused' = excused \cup Escapes(q)
  BY DEF CreateSession
<1>1. /\ u \in User /\ q.pc = "create" /\ Pending(q, u) /\ q.row \in {0} \cup Rows
      /\ Len(session) \in Nat /\ killed \subseteq Rows
  BY TypeParts, LenProperties
     DEF SafetyInv, SessionTypes, RequestTypes, RequestRecord, WellFormed, WellFormedRequest,
         CreateSession, At, Pending, Rows
<1>2. /\ Rows' = Rows \cup {n}
      /\ \A i \in Rows : session'[i] = session[i]
      /\ session'[n].user = u /\ session'[n].family = f
  <2>1. f \in Nat
    BY <1>1, TypeParts DEF SafetyInv, SessionTypes, FamilyOf, Rows
  <2>2. Row(u, f) \in SessionRow
    BY <1>1, <2>1 DEF Row, SessionRow
  <2>3. session \in Seq(SessionRow) /\ session' = Append(session, Row(u, f))
    BY TypeParts DEF SafetyInv, SessionTypes, CreateSession
  <2>4. /\ Len(session') = Len(session) + 1
        /\ \A i \in Rows : session'[i] = session[i]
        /\ session'[n] = Row(u, f)
    BY <2>2, <2>3, AppendFacts
  <2> QED BY <1>1, <2>4 DEF Rows, Row
<1>3. ASSUME NEW s \in Request, s # r
      PROVE  /\ req'[s].pc = req[s].pc /\ req'[s].user = req[s].user
             /\ req'[s].row = req[s].row /\ req[s].outdated \subseteq req'[s].outdated
             /\ Pending(req[s], u) => "session" \in req'[s].outdated
  BY <1>3, TypeParts DEF SafetyInv, RequestTypes, RequestRecord, CreateSession, Outdate
<1>4. req'[r].pc = "idle"
  BY DEF CreateSession, Idle
<1>5. \A what, x : <<what, x>> \in excused => <<what, x>> \in excused'
  BY <1>0
<1>6. /\ Stale(q, "suspension", u) => <<"suspension", u>> \in excused'
      /\ Stale(q, "session", u) => <<"session", u>> \in excused'
      /\ Stale(q, "reuse", f) => <<"reuse", f>> \in excused'
  BY <1>0 DEF Stale, Escapes
<1>7. \A v, i : v # u /\ i \in Rows' /\ session'[i].user = v /\ ~session'[i].revoked
                => i \in Rows /\ session[i].user = v /\ ~session[i].revoked
  BY <1>2
<1>8. SuspensionInv'
  <2>1. SuspendedHasNoSession'
    <3>1. ASSUME NEW v \in User, tenantStatus'[TenantOf[v]] = "suspended"
          PROVE  LiveOf(v)' = {} \/ <<"suspension", v>> \in excused'
      <4>1. CASE v = u
        BY <1>0, <1>1, <1>6, <3>1, <4>1 DEF SafetyInv, SuspensionInv, KnowsSuspension
      <4>2. CASE v # u
        <5>1. LiveOf(v) = {} \/ <<"suspension", v>> \in excused
          BY <1>0, <3>1 DEF SafetyInv, SuspensionInv, SuspendedHasNoSession
        <5> QED BY <1>5, <1>7, <4>2, <5>1 DEF LiveOf, Live
      <4> QED BY <4>1, <4>2
    <3> QED BY <3>1 DEF SuspendedHasNoSession
  <2>2. ASSUME NEW s \in Request PROVE KnowsSuspension(s)'
    <3>1. CASE s = r
      BY <1>4, <3>1 DEF KnowsSuspension, Pending
    <3>2. CASE s # r
      BY <1>0, <1>3, <1>5, <3>2 DEF SafetyInv, SuspensionInv, KnowsSuspension, Pending, Stale
    <3> QED BY <3>1, <3>2
  <2> QED BY <2>1, <2>2 DEF SuspensionInv
<1>9. OneSessionInv'
  <2>1. ASSUME NEW v \in User
        PROVE  (\A i, j \in LiveOf(v)' : i = j) \/ <<"session", v>> \in excused'
    <3>1. CASE v = u
      <4>1. LiveOf(u) = {} \/ Stale(q, "session", u)
        BY <1>1 DEF SafetyInv, OneSessionInv, KnowsSessions
      <4>2. ASSUME LiveOf(u) = {}, NEW i \in LiveOf(v)' PROVE i = n
        BY <1>2, <3>1, <4>2 DEF LiveOf, Live
      <4> QED BY <1>6, <3>1, <4>1, <4>2
    <3>2. CASE v # u
      <4>1. \A i \in LiveOf(v)' : i \in LiveOf(v)
        BY <1>7, <3>2 DEF LiveOf, Live
      <4> QED BY <1>5, <4>1 DEF SafetyInv, OneSessionInv, OneSessionUnlessRaced
    <3> QED BY <3>1, <3>2
  <2>2. ASSUME NEW s \in Request PROVE KnowsSessions(s)'
    <3>1. CASE s = r \/ req'[s].pc \notin {"create", "account", "rotate"}
      BY <1>4, <3>1 DEF KnowsSessions
    <3>2. CASE s # r /\ req'[s].pc \in {"create", "account", "rotate"}
      <4>1. CASE req[s].user = u
        BY <1>3, <3>2, <4>1 DEF KnowsSessions, Stale, Pending
      <4>2. CASE req[s].user # u
        <5>1. \A i \in Rows' : session'[i].user = req'[s].user /\ ~session'[i].revoked
                                 => i \in LiveOf(req[s].user)
          BY <1>3, <1>7, <3>2, <4>2 DEF LiveOf, Live
        <5>2. LiveOf(req[s].user)' \subseteq LiveOf(req[s].user)
          BY <5>1 DEF LiveOf, Live
        <5>3. Stale(req[s], "session", req[s].user)
                => Stale(req[s], "session", req[s].user)'
          BY <1>3, <1>5, <3>2 DEF Stale
        <5> QED BY <1>3, <3>2, <5>2, <5>3 DEF SafetyInv, OneSessionInv, KnowsSessions
      <4> QED BY <4>1, <4>2
    <3> QED BY <3>1, <3>2
  <2> QED BY <2>1, <2>2 DEF OneSessionInv, OneSessionUnlessRaced
<1>10. ReuseInv'
  <2>1. ASSUME NEW g \in killed
        PROVE  \/ \A i \in Rows' : session'[i].family = g => session'[i].revoked
               \/ <<"reuse", g>> \in excused'
    <3>1. CASE g = f
      <4>1. q.row # 0 /\ session[q.row].family = f
        BY <1>1, <2>1, <3>1 DEF FamilyOf, Rows
      <4>2. Stale(q, "reuse", f)
        BY <1>1, <3>1, <4>1 DEF SafetyInv, ReuseInv, KnowsReuse
      <4> QED BY <1>6, <3>1, <4>2
    <3>2. CASE g # f
      BY <1>2, <1>5, <3>2 DEF SafetyInv, ReuseInv, ReusedFamilyIsDead, Live
    <3> QED BY <3>1, <3>2
  <2>2. ASSUME NEW s \in Request PROVE KnowsReuse(s)'
    <3>1. CASE s = r
      BY <1>4, <3>1 DEF KnowsReuse, Pending
    <3>2. CASE s # r
      <4>1. req[s].row # 0 => session'[req[s].row] = session[req[s].row]
        BY <1>2, RowOfRequest DEF SafetyInv
      <4> QED BY <1>0, <1>3, <1>5, <3>2, <4>1
              DEF SafetyInv, ReuseInv, KnowsReuse, Pending, Stale
    <3> QED BY <3>1, <3>2
  <2> QED BY <1>0, <2>1, <2>2 DEF ReuseInv, ReusedFamilyIsDead, Live
<1> QED BY <1>8, <1>9, <1>10
-----------------------------------------------------------------------------

(* Before any request there is no session to be wrong. *)
LEMMA SafetyInvInit == Init => SafetyInv
<1> SUFFICES ASSUME Init PROVE SafetyInv
  OBVIOUS
<1>1. Rows = {} /\ \A r \in Request : req[r].pc = "idle"
  BY EmptySeq DEF Init, Rows, Idle
<1>2. SuspensionInv
  BY <1>1 DEF SuspensionInv, SuspendedHasNoSession, LiveOf, KnowsSuspension, Pending
<1>3. OneSessionInv
  BY <1>1 DEF OneSessionInv, OneSessionUnlessRaced, LiveOf, KnowsSessions
<1>4. ReuseInv
  BY <1>1 DEF Init, ReuseInv, ReusedFamilyIsDead, KnowsReuse, Pending
<1> QED BY <1>2, <1>3, <1>4, TypeInvInit DEF SafetyInv

(* What requests know, and what holds of the rows, is inductive. *)
LEMMA SafetyInvStep == SafetyInv /\ [Next]_vars => SafetyInv'
<1> SUFFICES ASSUME SafetyInv, [Next]_vars PROVE SafetyInv'
  OBVIOUS
<1>1. TypeInv'
  BY TypeInvStep DEF SafetyInv
<1>2. CASE \E r \in Request : Telling(r)
  BY <1>1, <1>2, LoginReadStep, RefreshReadStep, LoginRevokeStep, CreateSessionStep,
     RefreshKillStep, RefreshRotateStep, StatusWriteStep DEF Telling, SafetyInv
<1>3. CASE ~(\E r \in Request : Telling(r))
  <2>1. /\ RowsOnlyClose /\ killed' = killed /\ excused' = excused
        /\ \A t \in Tenant : tenantStatus'[t] = "suspended" => tenantStatus[t] = "suspended"
        /\ \A r \in Request : Calm(r)
    BY <1>3, QuietStep DEF SafetyInv
  <2>2. Kept("suspension") /\ Kept("session") /\ Kept("reuse")
    BY <2>1 DEF Kept
  <2>3. SuspensionInv'
    BY <2>1, <2>2, SuspensionCalm DEF SafetyInv, SuspensionInv
  <2>4. OneSessionInv'
    BY <2>1, <2>2, OneSessionCalm DEF SafetyInv, OneSessionInv, Kept
  <2>5. ReuseInv'
    BY <2>1, <2>2, ReuseCalm DEF SafetyInv, ReuseInv
  <2> QED BY <1>1, <2>3, <2>4, <2>5 DEF SafetyInv
<1> QED BY <1>2, <1>3

(* What each request may rely on between its statements holds in every state. *)
THEOREM SafetyInvHolds == Spec => []SafetyInv
BY SafetyInvInit, SafetyInvStep, PTL DEF Spec

(* Suspending a tenant leaves its users no session, but those of requests that
   had passed their checks before. *)
THEOREM SuspensionClosesSessions == Spec => []SuspendedHasNoSession
BY SafetyInvHolds, PTL DEF SafetyInv, SuspensionInv

(* A user has one open session, unless a request created one in spite of
   another it could not know of. *)
THEOREM OneSessionPerUser == Spec => []OneSessionUnlessRaced
BY SafetyInvHolds, PTL DEF SafetyInv, OneSessionInv

(* Once a rotated token comes back no session of its family stays open, but that
   of a refresh that had read the family before. *)
THEOREM ReuseKillsTheFamily == Spec => []ReusedFamilyIsDead
BY SafetyInvHolds, PTL DEF SafetyInv, ReuseInv

(* Nobody in a suspended tenant gets an access token, but from a request that
   had passed its checks before the suspension. *)
THEOREM SuspensionStopsAccess == Spec => NoAccessWhileSuspended
<1> DEFINE A == \A u \in User :
                 u \in access' \ access /\ tenantStatus[TenantOf[u]] = "suspended"
                   => <<"suspension", u>> \in excused'
<1>1. SafetyInv /\ [Next]_vars => A
  <2> SUFFICES ASSUME SafetyInv, [Next]_vars, NEW u \in User, u \in access', u \notin access,
                      tenantStatus[TenantOf[u]] = "suspended"
               PROVE  <<"suspension", u>> \in excused'
    OBVIOUS
  <2>1. PICK r \in Request : CreateSession(r)
    BY WhoTouchesSessions DEF sessionVars, LoginRevoke, RefreshExpire, RefreshRotate,
                              StatusWrite, RefreshKill, SessionExpires, AccessExpires
  <2>2. req[r].user = u /\ Pending(req[r], u)
    BY <2>1 DEF CreateSession, At, Pending
  <2>3. Stale(req[r], "suspension", u)
    BY <2>2 DEF SafetyInv, SuspensionInv, KnowsSuspension
  <2> QED BY <2>1, <2>2, <2>3 DEF CreateSession, Escapes, Stale
<1> QED BY <1>1, SafetyInvHolds, PTL DEF Spec, NoAccessWhileSuspended

-----------------------------------------------------------------------------
(* The audit of a tenant and of an account. *)

(* The suspensions and reactivations of a tenant alternate up to its state; a
   tenant that was never created has no trail. *)
TrailOf(trail, status) ==
  /\ \A k \in 2 .. Len(trail) : trail[k] \notin {trail[k - 1], "tenant_created"}
  /\ trail # << >> => (trail[Len(trail)] = "tenant_suspended" <=> status = "suspended")
  /\ trail = << >> => status # "suspended"
  /\ status = "absent" => trail = << >>

Grants(trail) == {k \in DOMAIN trail : trail[k] # "token_reuse"}

AuditInv ==
  /\ \A t \in Tenant : TrailOf(audit[t], tenantStatus[t])
  /\ \A u \in User : Cardinality(Grants(audit[u])) = IF role[u] = "tenant_admin" THEN 1 ELSE 0

(* The statements that write the trail of a tenant or a user, or what it tells of. *)
LEMMA WhoWritesAudit ==
  ASSUME [Next]_vars
  PROVE  \/ UNCHANGED <<audit, tenantStatus, role>>
         \/ \E r \in Request, t \in Tenant : CreateTenant(r, t)
         \/ \E r \in Request : RefreshAudit(r) \/ StatusWrite(r) \/ AssignInsert(r) \/ AssignPromote(r)
<1>1. ASSUME NEW r \in Request, Arrive(r)
      PROVE  UNCHANGED <<audit, tenantStatus, role>> \/ \E t \in Tenant : CreateTenant(r, t)
  BY <1>1 DEF Arrive, LoginUnknown, LoginRead, RefreshRead, StatusRead, AssignRead, accountVars
<1>2. ASSUME NEW r \in Request, \/ LoginFails(r) \/ LoginMatches(r) \/ LoginRevoke(r)
                                \/ CreateSession(r) \/ RefreshKill(r) \/ RefreshExpire(r)
                                \/ RefreshAccount(r) \/ RefreshRotate(r) \/ AssignRaced(r)
      PROVE  UNCHANGED <<audit, tenantStatus, role>>
  BY <1>2 DEF LoginFails, LoginMatches, LoginRevoke, CreateSession, RefreshKill, RefreshExpire,
              RefreshAccount, RefreshRotate, AssignRaced, accountVars
<1>3. CASE Time
  BY <1>3 DEF Time, Unlock, AccessExpires, Unblock, SessionExpires, accountVars
<1>4. CASE Crash \/ UNCHANGED vars
  BY <1>4 DEF Crash, accountVars, vars
<1> QED BY <1>1, <1>2, <1>3, <1>4 DEF Next, Login, Refresh, Admin

(* One more entry of a trail of actions. *)
LEMMA TrailGrows ==
  ASSUME NEW trail \in Seq(Actions), NEW status, TrailOf(trail, status),
         NEW action \in Actions, NEW now, now # "absent",
         action = "tenant_suspended" <=> now = "suspended",
         \/ status = "absent"
         \/ action # "tenant_created" /\ (status = "suspended" <=> now # "suspended")
            /\ action \in {"tenant_suspended", "tenant_reactivated"}
  PROVE  TrailOf(Append(trail, action), now)
<1> DEFINE longer == Append(trail, action)
<1>1. /\ Len(trail) \in Nat /\ Len(longer) = Len(trail) + 1 /\ longer # << >>
      /\ \A k \in 1 .. Len(trail) : longer[k] = trail[k]
      /\ longer[Len(trail) + 1] = action
  BY AppendProperties, LenProperties
<1>2. trail # << >> => Len(trail) \in Nat \ {0}
  BY EmptySeq
<1>3. ASSUME NEW k \in 2 .. Len(longer)
      PROVE  longer[k] \notin {longer[k - 1], "tenant_created"}
  <2> HIDE DEF longer
  <2>1. CASE k \in 2 .. Len(trail)
    BY <1>1, <2>1 DEF TrailOf
  <2>2. CASE k = Len(trail) + 1
    <3>1. Len(trail) \in 1 .. Len(trail) /\ k - 1 = Len(trail)
      BY <1>1, <2>2
    <3>2. longer[k - 1] = trail[Len(trail)] /\ longer[k] = action
      BY <1>1, <2>2, <3>1
    <3>3. trail # << >> /\ status # "absent"
      BY <3>1, EmptySeq DEF TrailOf
    <3> QED BY <3>2, <3>3 DEF TrailOf
  <2> QED BY <1>1, <2>1, <2>2
<1> HIDE DEF longer
<1> QED BY <1>1, <1>3 DEF TrailOf

(* How the count of grants in a trail goes on with one more row. *)
LEMMA GrantsGrow ==
  ASSUME NEW trail \in Seq(Actions), NEW action \in Actions
  PROVE  /\ Grants(Append(trail, "token_reuse")) = Grants(trail)
         /\ Cardinality(Grants(trail)) = 0 /\ action # "token_reuse" =>
              Cardinality(Grants(Append(trail, action))) = 1
<1>1. ASSUME NEW a \in Actions
      PROVE  /\ Len(trail) \in Nat
             /\ DOMAIN trail = 1 .. Len(trail)
             /\ DOMAIN Append(trail, a) = 1 .. Len(trail) \cup {Len(trail) + 1}
             /\ \A k \in 1 .. Len(trail) : Append(trail, a)[k] = trail[k]
             /\ Append(trail, a)[Len(trail) + 1] = a
  <2>1. /\ Append(trail, a) \in Seq(Actions) /\ Len(Append(trail, a)) = Len(trail) + 1
        /\ \A k \in 1 .. Len(trail) : Append(trail, a)[k] = trail[k]
        /\ Append(trail, a)[Len(trail) + 1] = a
    BY AppendProperties
  <2> QED BY <2>1, LenProperties
<1>2. "token_reuse" \in Actions
  BY DEF Actions
<1>3. Grants(Append(trail, "token_reuse")) = Grants(trail)
  BY <1>1, <1>2 DEF Grants
<1>4. ASSUME Cardinality(Grants(trail)) = 0, action # "token_reuse"
      PROVE  Cardinality(Grants(Append(trail, action))) = 1
  <2>1. IsFiniteSet(Grants(trail))
    <3>1. Len(trail) \in Nat /\ DOMAIN trail = 1 .. Len(trail)
      BY LenProperties
    <3>2. IsFiniteSet(1 .. Len(trail))
      BY <3>1, FS_Interval
    <3>3. Grants(trail) \subseteq 1 .. Len(trail)
      BY <3>1 DEF Grants
    <3> QED BY <3>2, <3>3, FS_Subset
  <2>2. Grants(trail) = {}
    BY <1>4, <2>1, FS_EmptySet
  <2>3. Grants(Append(trail, action)) = {Len(trail) + 1}
    BY <1>1, <1>4, <2>2 DEF Grants
  <2> QED BY <2>3, FS_Singleton
<1> QED BY <1>3, <1>4

(* Before any statement the trails are empty and nobody was promoted. *)
LEMMA AuditInit == Init => AuditInv
<1> SUFFICES ASSUME Init PROVE AuditInv
  OBVIOUS
<1>1. \A x \in Tenant \cup User : audit[x] = << >>
  BY DEF Init
<1>2. ASSUME NEW t \in Tenant PROVE TrailOf(audit[t], tenantStatus[t])
  <2>1. audit[t] = << >> /\ Len(audit[t]) = 0 /\ tenantStatus[t] # "suspended"
    BY <1>1 DEF Init
  <2> QED BY <2>1 DEF TrailOf
<1>3. ASSUME NEW u \in User
      PROVE  Cardinality(Grants(audit[u])) = IF role[u] = "tenant_admin" THEN 1 ELSE 0
  <2>1. audit[u] = << >> /\ role[u] # "tenant_admin"
    BY <1>1 DEF Init
  <2>2. DOMAIN << >> = {}
    BY EmptySeq, LenProperties
  <2>3. Grants(audit[u]) = {}
    BY <2>1, <2>2 DEF Grants
  <2> QED BY <2>1, <2>3, FS_EmptySet
<1> QED BY <1>2, <1>3 DEF AuditInv

(* Each statement that changes a status or a role writes its own audit row. *)
LEMMA AuditStep == TypeInv /\ AuditInv /\ [Next]_vars => AuditInv'
<1> SUFFICES ASSUME TypeInv, AuditInv, [Next]_vars PROVE AuditInv'
  OBVIOUS
<1>0. SessionTypes /\ RequestTypes /\ OtherTypes
  BY TypeParts
<1>1. /\ audit \in [Tenant \cup User -> Seq(Actions)] /\ Tenant \cap User = {}
      /\ tenantStatus \in [Tenant -> {"absent", "active", "suspended"}]
      /\ role \in [User -> {"none", "worker", "tenant_admin"}]
      /\ \A r \in Request : WellFormedRequest(req[r])
  BY <1>0, SessionsAssumption DEF OtherTypes, RequestTypes, WellFormed
<1>2. CASE UNCHANGED <<audit, tenantStatus, role>>
  BY <1>2 DEF AuditInv
(* A step that adds an entry to the trail of a tenant. *)
<1>3. ASSUME NEW t \in Tenant, NEW action \in Actions, NEW now, UNCHANGED role,
             audit' = [audit EXCEPT ![t] = Append(audit[t], action)],
             tenantStatus' = [tenantStatus EXCEPT ![t] = now],
             TrailOf(Append(audit[t], action), now)
      PROVE  AuditInv'
  <2>1. ASSUME NEW s \in Tenant PROVE TrailOf(audit'[s], tenantStatus'[s])
    BY <1>1, <1>3 DEF AuditInv
  <2>2. \A u \in User : audit'[u] = audit[u]
    BY <1>1, <1>3
  <2> QED BY <1>3, <2>1, <2>2 DEF AuditInv
(* A step that adds an entry to the trail of an account. *)
<1>4. ASSUME NEW u \in User, NEW action \in Actions, UNCHANGED tenantStatus,
             audit' = [audit EXCEPT ![u] = Append(audit[u], action)],
             \A v \in User \ {u} : role'[v] = role[v],
             Cardinality(Grants(Append(audit[u], action))) =
               IF role'[u] = "tenant_admin" THEN 1 ELSE 0
      PROVE  AuditInv'
  <2>1. \A s \in Tenant : audit'[s] = audit[s]
    BY <1>1, <1>4
  <2>2. /\ audit'[u] = Append(audit[u], action)
        /\ \A v \in User \ {u} : audit'[v] = audit[v]
    BY <1>1, <1>4
  <2>3. ASSUME NEW v \in User
        PROVE  Cardinality(Grants(audit'[v])) = IF role'[v] = "tenant_admin" THEN 1 ELSE 0
    BY <1>4, <2>2 DEF AuditInv
  <2> QED BY <1>4, <2>1, <2>3 DEF AuditInv
<1>5. ASSUME NEW r \in Request, NEW t \in Tenant, CreateTenant(r, t) PROVE AuditInv'
  <2>1. /\ audit' = [audit EXCEPT ![t] = Append(audit[t], "tenant_created")]
        /\ tenantStatus' = [tenantStatus EXCEPT ![t] = "active"]
        /\ tenantStatus[t] = "absent" /\ UNCHANGED role
    BY <1>1, <1>5 DEF CreateTenant, Log, accountVars
  <2>2. "tenant_created" \in Actions /\ audit[t] \in Seq(Actions)
    BY <1>1 DEF Actions
  <2>3. TrailOf(Append(audit[t], "tenant_created"), "active")
    BY <2>1, <2>2, TrailGrows DEF AuditInv
  <2> QED BY <1>3, <2>1, <2>2, <2>3
<1>6. ASSUME NEW r \in Request, StatusWrite(r) PROVE AuditInv'
  <2>1. PICK t \in Tenant, w \in {"active", "suspended"} : t = req[r].tenant /\ w = req[r].wanted
    BY <1>1, <1>6 DEF StatusWrite, At, WellFormedRequest
  <2>2. /\ IF tenantStatus[t] # w
           THEN audit' = [audit EXCEPT ![t] = Append(audit[t], StatusAction(w))]
           ELSE audit' = audit
        /\ tenantStatus' = [tenantStatus EXCEPT ![t] = w] /\ UNCHANGED role
    BY <1>1, <1>6, <2>1 DEF StatusWrite, Log, accountVars
  <2>3. CASE tenantStatus[t] = w
    BY <1>1, <1>2, <2>2, <2>3
  <2>4. CASE tenantStatus[t] # w
    <3>1. /\ StatusAction(w) \in Actions /\ audit[t] \in Seq(Actions)
          /\ StatusAction(w) \in {"tenant_suspended", "tenant_reactivated"}
          /\ StatusAction(w) = "tenant_suspended" <=> w = "suspended"
      BY <1>1 DEF Actions, StatusAction
    <3>2. TrailOf(audit[t], tenantStatus[t])
      BY DEF AuditInv
    <3>3. tenantStatus[t] = "absent" \/ (tenantStatus[t] = "suspended" <=> w # "suspended")
      BY <1>1, <2>4
    <3>4. TrailOf(Append(audit[t], StatusAction(w)), w)
      BY <3>1, <3>2, <3>3, TrailGrows
    <3> QED BY <1>3, <2>2, <2>4, <3>1, <3>4
  <2> QED BY <2>3, <2>4
<1>7. ASSUME NEW r \in Request, RefreshAudit(r) PROVE AuditInv'
  <2>1. PICK u \in User : u = req[r].user
    BY <1>1, <1>7 DEF RefreshAudit, At, WellFormedRequest
  <2>2. /\ audit' = [audit EXCEPT ![u] = Append(audit[u], "token_reuse")]
        /\ UNCHANGED <<tenantStatus, role>> /\ audit[u] \in Seq(Actions)
    BY <1>1, <1>7, <2>1 DEF RefreshAudit, accountVars
  <2>3. "token_reuse" \in Actions
    BY DEF Actions
  <2>4. Grants(Append(audit[u], "token_reuse")) = Grants(audit[u])
    BY <2>2, <2>3, GrantsGrow
  <2> QED BY <1>4, <2>2, <2>3, <2>4 DEF AuditInv
(* The first grant of an account. *)
<1>8. ASSUME NEW u \in User, NEW action \in Actions, action # "token_reuse",
             role[u] # "tenant_admin", role' = [role EXCEPT ![u] = "tenant_admin"],
             audit' = [audit EXCEPT ![u] = Append(audit[u], action)], UNCHANGED tenantStatus
      PROVE  AuditInv'
  <2>1. Cardinality(Grants(audit[u])) = 0 /\ audit[u] \in Seq(Actions)
    BY <1>1, <1>8 DEF AuditInv
  <2>2. Cardinality(Grants(Append(audit[u], action))) = 1
    BY <1>8, <2>1, GrantsGrow
  <2>3. role'[u] = "tenant_admin" /\ \A v \in User \ {u} : role'[v] = role[v]
    BY <1>1, <1>8
  <2> QED BY <1>4, <1>8, <2>2, <2>3
<1>9. ASSUME NEW r \in Request, AssignInsert(r) PROVE AuditInv'
  <2>1. PICK u \in User : u = req[r].user
    BY <1>1, <1>9 DEF AssignInsert, At, WellFormedRequest
  <2>2. "tenant_admin_assigned" \in Actions
    BY DEF Actions
  <2> QED BY <1>8, <1>9, <2>1, <2>2 DEF AssignInsert, Log
<1>10. ASSUME NEW r \in Request, AssignPromote(r) PROVE AuditInv'
  <2>1. PICK u \in User : u = req[r].user
    BY <1>1, <1>10 DEF AssignPromote, At, WellFormedRequest
  <2>2. "role_changed" \in Actions
    BY DEF Actions
  <2>3. CASE role[u] = "tenant_admin"
    BY <1>1, <1>2, <1>10, <2>1, <2>3 DEF AssignPromote
  <2>4. CASE role[u] # "tenant_admin"
    BY <1>8, <1>10, <2>1, <2>2, <2>4 DEF AssignPromote, Log
  <2> QED BY <2>3, <2>4
<1> QED BY <1>2, <1>5, <1>6, <1>7, <1>9, <1>10, WhoWritesAudit

(* The audit tells what happened whatever requests raced: a tenant's suspensions
   and reactivations alternate up to its state, and an account that became
   tenant_admin has one row that says so (StatusWrite, asignarAdmin). *)
THEOREM AuditIsTrue == Spec => []AuditTellsTheState
<1>1. Spec => []AuditInv
  BY TypeInvHolds, AuditInit, AuditStep, PTL DEF Spec
<1>2. AuditInv => AuditTellsTheState
  BY DEF AuditInv, AuditTellsTheState, TrailOf, Grants
<1> QED BY <1>1, <1>2, PTL

-----------------------------------------------------------------------------
(* The wrong passwords that an account takes. *)

(* The requests that are comparing a password of the account. *)
Guessing(u) == {r \in Request : req[r].pc = "verify" /\ req[r].user = u}

(* While the account is open its window has room: each wrong password of the
   window is counted in the row, which the limit locks.  What comes later than
   the lock was already being compared. *)
GuessInv ==
  \A u \in User :
    /\ window[u] <= fails[u]
    /\ ~locked[u] => window[u] < MaxFailed
    /\ window[u] + Cardinality(Guessing(u)) < MaxFailed + Cardinality(Request)

(* The step counts nothing and starts no comparison. *)
NoNewGuess == UNCHANGED <<fails, locked, window>> /\ \A u \in User : Guessing(u)' \subseteq Guessing(u)

(* The statements that may add a guess at the password of an account, or forget some. *)
LEMMA WhoGuesses ==
  ASSUME TypeInv, [Next]_vars
  PROVE  \/ NoNewGuess
         \/ \E r \in Request : \/ \E u \in User, i \in Ip : LoginRead(r, u, i)
                               \/ LoginFails(r) \/ LoginMatches(r)
         \/ \E u \in User : Unlock(u)
<1>0. /\ req \in [Request -> RequestRecord(Len(session))]
  BY TypeParts DEF RequestTypes
<1>1. ASSUME UNCHANGED accountVars,
             \A s \in Request : \/ req'[s].pc # "verify"
                                \/ req'[s].pc = req[s].pc /\ req'[s].user = req[s].user
      PROVE  NoNewGuess
  BY <1>1 DEF NoNewGuess, Guessing, accountVars
<1>2. ASSUME UNCHANGED accountVars, NEW r \in Request, NEW q, req' = [req EXCEPT ![r] = q],
             q.pc # "verify"
      PROVE  NoNewGuess
  BY <1>0, <1>1, <1>2
<1>3. ASSUME NEW q \in RequestRecord(Len(session)), NEW what, NEW users
      PROVE  Outdate(q, what, users).pc = q.pc /\ Outdate(q, what, users).user = q.user
  BY DEF Outdate, RequestRecord
<1>4. ASSUME NEW r \in Request, Arrive(r)
      PROVE  NoNewGuess \/ \E u \in User, i \in Ip : LoginRead(r, u, i)
  <2>1. ASSUME NEW i \in Ip, LoginUnknown(r, i) PROVE NoNewGuess
    BY <1>1, <2>1 DEF LoginUnknown
  <2>2. ASSUME NEW t \in Tenant, CreateTenant(r, t) PROVE NoNewGuess
    BY <1>1, <2>2 DEF CreateTenant
  <2>3. ASSUME NEW i \in Rows, RefreshRead(r, i) PROVE NoNewGuess
    <3>1. [Idle EXCEPT !.pc = AfterRead(i), !.user = session[i].user, !.row = i].pc # "verify"
      BY AfterReadType DEF Idle
    <3> QED BY <1>2, <2>3, <3>1 DEF RefreshRead, Start
  <2>4. ASSUME NEW t \in Tenant, NEW w \in {"active", "suspended"}, StatusRead(r, t, w)
        PROVE  NoNewGuess
    <3>1. [Idle EXCEPT !.pc = "status", !.tenant = t, !.wanted = w].pc # "verify"
      BY DEF Idle
    <3> QED BY <1>2, <2>4, <3>1 DEF StatusRead, Start
  <2>5. ASSUME NEW u \in User, AssignRead(r, u) PROVE NoNewGuess
    <3>1. [Idle EXCEPT !.pc = IF role[u] = "none" THEN "insert" ELSE "promote",
                       !.user = u].pc # "verify"
      BY DEF Idle
    <3> QED BY <1>2, <2>5, <3>1 DEF AssignRead, Start
  <2> QED BY <1>4, <2>1, <2>2, <2>3, <2>4, <2>5 DEF Arrive
<1>5. ASSUME NEW r \in Request, \/ RefreshAudit(r) \/ RefreshExpire(r) \/ AssignInsert(r)
                                \/ AssignPromote(r) \/ AssignRaced(r) \/ RefreshAccount(r)
                                \/ RefreshRotate(r)
      PROVE  NoNewGuess
  <2>1. UNCHANGED <<fails, locked, window>>
    BY <1>5 DEF RefreshAudit, RefreshExpire, AssignInsert, AssignPromote, AssignRaced,
                RefreshAccount, RefreshRotate, accountVars
  <2>2. \/ req' = [req EXCEPT ![r] = Idle]
        \/ \E pc \in {"rotate", "create", "promote"} : req' = [req EXCEPT ![r].pc = pc]
    BY <1>5 DEF RefreshAudit, RefreshExpire, AssignInsert, AssignPromote, AssignRaced,
                RefreshAccount, RefreshRotate, Answer, Goto
  <2>3. req'[r].pc # "verify" /\ \A s \in Request \ {r} : req'[s] = req[s]
    BY <1>0, <2>2 DEF Idle, RequestRecord
  <2> QED BY <2>1, <2>3 DEF NoNewGuess, Guessing
<1>6. ASSUME NEW r \in Request, LoginRevoke(r)
      PROVE  NoNewGuess
  <2>1. req'[r].pc = "create" /\ \A s \in Request \ {r} : req'[s] = req[s]
    BY <1>0, <1>6 DEF LoginRevoke, RequestRecord
  <2> QED BY <1>1, <1>6, <2>1 DEF LoginRevoke
<1>7. ASSUME NEW r \in Request, CreateSession(r)
      PROVE  NoNewGuess
  <2>1. \A s \in Request : req'[s] = IF s = r THEN Idle
                                     ELSE Outdate(req[s], "session", {req[r].user})
    BY <1>7 DEF CreateSession
  <2>2. ASSUME NEW s \in Request
        PROVE  \/ req'[s].pc # "verify"
               \/ req'[s].pc = req[s].pc /\ req'[s].user = req[s].user
    BY <1>0, <1>3, <2>1 DEF Idle
  <2> QED BY <1>1, <1>7, <2>2 DEF CreateSession
<1>8. ASSUME NEW r \in Request, RefreshKill(r)
      PROVE  NoNewGuess
  <2>1. \A s \in Request :
          \/ req'[s] = [req[s] EXCEPT !.pc = "audit"]
          \/ req'[s] = Outdate(req[s], "reuse", User)
          \/ req'[s] = req[s]
    BY <1>8 DEF RefreshKill
  <2>2. ASSUME NEW s \in Request
        PROVE  \/ req'[s].pc # "verify"
               \/ req'[s].pc = req[s].pc /\ req'[s].user = req[s].user
    <3>1. req[s] \in RequestRecord(Len(session))
      BY <1>0
    <3>2. [req[s] EXCEPT !.pc = "audit"].pc = "audit"
      BY <3>1 DEF RequestRecord
    <3>3. /\ Outdate(req[s], "reuse", User).pc = req[s].pc
          /\ Outdate(req[s], "reuse", User).user = req[s].user
      BY <1>3, <3>1
    <3>4. CASE req'[s] = [req[s] EXCEPT !.pc = "audit"]
      BY <3>2, <3>4
    <3> QED BY <2>1, <3>3, <3>4
  <2> QED BY <1>1, <1>8, <2>2 DEF RefreshKill
<1>9. ASSUME NEW r \in Request, StatusWrite(r)
      PROVE  NoNewGuess
  <2> DEFINE staff == {u \in User : TenantOf[u] = req[r].tenant}
  <2>1. \A s \in Request :
          req'[s] \in {Idle, Outdate(req[s], "suspension", staff), req[s]}
    BY <1>9 DEF StatusWrite
  <2> HIDE DEF staff
  <2>2. ASSUME NEW s \in Request
        PROVE  \/ req'[s].pc # "verify"
               \/ req'[s].pc = req[s].pc /\ req'[s].user = req[s].user
    BY <1>0, <1>3, <2>1 DEF Idle
  <2> QED BY <1>1, <1>9, <2>2 DEF StatusWrite
<1>10. CASE Crash
  <2>1. \A s \in Request : req'[s].pc = "idle"
    BY <1>10 DEF Crash, Idle
  <2> QED BY <1>1, <1>10, <2>1 DEF Crash
<1>11. ASSUME UNCHANGED <<accountVars, req>> PROVE NoNewGuess
  BY <1>1, <1>11
<1>12. CASE Time
  <2>1. ASSUME NEW u \in User, AccessExpires(u) PROVE NoNewGuess
    BY <1>11, <2>1 DEF AccessExpires
  <2>2. ASSUME NEW i \in Ip, Unblock(i) PROVE NoNewGuess
    BY <1>11, <2>2 DEF Unblock
  <2>3. ASSUME NEW i \in Rows, SessionExpires(i) PROVE NoNewGuess
    BY <1>11, <2>3 DEF SessionExpires
  <2> QED BY <1>12, <2>1, <2>2, <2>3 DEF Time
<1>13. CASE UNCHANGED vars
  BY <1>11, <1>13 DEF vars, accountVars
<1> QED BY <1>4, <1>5, <1>6, <1>7, <1>8, <1>9, <1>10, <1>12, <1>13 DEF Next, Login, Refresh, Admin

(* Before any login nobody has guessed. *)
LEMMA GuessInit == Init => GuessInv
<1> SUFFICES ASSUME Init, NEW u \in User
             PROVE  /\ window[u] <= fails[u]
                    /\ ~locked[u] => window[u] < MaxFailed
                    /\ window[u] + Cardinality(Guessing(u)) < MaxFailed + Cardinality(Request)
  BY DEF GuessInv
<1>1. Guessing(u) = {} /\ window[u] = 0 /\ fails[u] = 0
  BY DEF Init, Guessing, Idle
<1>2. Cardinality(Guessing(u)) = 0
  BY <1>1, FS_EmptySet
<1> QED BY <1>1, <1>2, SessionsAssumption, FS_CardinalityType

(* A failure counted was a guess under way, so the two together are bounded. *)
LEMMA GuessStep == TypeInv /\ GuessInv /\ [Next]_vars => GuessInv'
<1> SUFFICES ASSUME TypeInv, GuessInv, [Next]_vars PROVE GuessInv'
  OBVIOUS
<1>0. /\ req \in [Request -> RequestRecord(Len(session))]
      /\ fails \in [User -> Nat] /\ locked \in [User -> BOOLEAN] /\ window \in [User -> Nat]
      /\ \A r \in Request : WellFormedRequest(req[r])
      /\ MaxFailed \in Nat \ {0}
  BY TypeParts, SessionsAssumption DEF RequestTypes, OtherTypes, WellFormed
<1> DEFINE C == Cardinality(Request)
           G(u) == Cardinality(Guessing(u))
           H(u) == Cardinality(Guessing(u)')
<1>1. ASSUME NEW u \in User
      PROVE  /\ IsFiniteSet(Guessing(u)) /\ IsFiniteSet(Guessing(u)')
             /\ C \in Nat /\ G(u) \in Nat /\ H(u) \in Nat /\ G(u) <= C /\ H(u) <= C
             /\ Guessing(u)' \subseteq Guessing(u) => H(u) <= G(u)
  <2>1. IsFiniteSet(Request) /\ Guessing(u) \subseteq Request /\ Guessing(u)' \subseteq Request
    BY SessionsAssumption DEF Guessing
  <2>2. IsFiniteSet(Guessing(u)) /\ IsFiniteSet(Guessing(u)') /\ G(u) <= C /\ H(u) <= C
    BY <2>1, FS_Subset
  <2>3. Guessing(u)' \subseteq Guessing(u) => H(u) <= G(u)
    BY <2>2, FS_Subset
  <2> QED BY <2>1, <2>2, <2>3, FS_CardinalityType
<1>2. ASSUME NEW u \in User
      PROVE  /\ window[u] <= fails[u] /\ (~locked[u] => window[u] < MaxFailed)
             /\ window[u] + G(u) < MaxFailed + C
             /\ window[u] \in Nat /\ fails[u] \in Nat
  BY <1>0 DEF GuessInv
<1> DEFINE Good(u) == /\ window'[u] <= fails'[u] /\ (~locked'[u] => window'[u] < MaxFailed)
                      /\ window'[u] + H(u) < MaxFailed + C
<1>3. SUFFICES \A u \in User : Good(u)
  BY DEF GuessInv
<1> HIDE DEF C, G, H
(* An account that the step leaves alone. *)
<1>4. ASSUME NEW u \in User, window'[u] = window[u], fails'[u] = fails[u],
             locked'[u] = locked[u], Guessing(u)' \subseteq Guessing(u)
      PROVE  Good(u)
  <2>1. ~locked'[u] => window'[u] < MaxFailed
    BY <1>2, <1>4, Zenon
  <2>2. window'[u] <= fails'[u]
    BY <1>2, <1>4
  <2>3. window'[u] + H(u) < MaxFailed + C
    <3>1. H(u) <= G(u) /\ H(u) \in Nat /\ G(u) \in Nat /\ C \in Nat
      BY <1>1, <1>4
    <3>2. window[u] + G(u) < MaxFailed + C /\ window[u] \in Nat /\ window'[u] = window[u]
      BY <1>2, <1>4
    <3> QED BY <1>0, <3>1, <3>2
  <2> QED BY <2>1, <2>2, <2>3
(* A new window. *)
<1>5. ASSUME NEW u \in User, window'[u] = 0, fails'[u] \in Nat
      PROVE  Good(u)
  BY <1>0, <1>1, <1>5
<1>6. CASE NoNewGuess
  BY <1>4, <1>6 DEF NoNewGuess
<1>7. ASSUME NEW r \in Request, NEW v \in User, NEW i \in Ip, LoginRead(r, v, i), NEW u \in User
      PROVE  Good(u)
  <2>1. UNCHANGED <<fails, locked, window>> /\ ~locked[v]
    BY <1>7 DEF LoginRead, LoginRefused, accountVars
  <2>2. CASE u = v
    BY <1>0, <1>1, <1>2, <2>1, <2>2
  <2>3. CASE u # v
    <3>1. req' = [req EXCEPT ![r] = [Idle EXCEPT !.pc = "verify", !.user = v, !.ip = i]]
      BY <1>7 DEF LoginRead, Start
    <3>2. req'[r].user = v /\ \A s \in Request \ {r} : req'[s] = req[s]
      BY <1>0, <3>1 DEF Idle
    <3>3. Guessing(u)' \subseteq Guessing(u)
      BY <2>3, <3>2 DEF Guessing
    <3> QED BY <1>4, <2>1, <3>3
  <2> QED BY <2>2, <2>3
<1>8. ASSUME NEW r \in Request, LoginFails(r), NEW u \in User
      PROVE  Good(u)
  <2>1. PICK v \in User : v = req[r].user
    BY <1>0, <1>8 DEF LoginFails, At, WellFormedRequest
  <2>2. /\ fails' = [fails EXCEPT ![v] = fails[v] + 1]
        /\ locked' = [locked EXCEPT ![v] = locked[v] \/ fails[v] + 1 >= MaxFailed]
        /\ window' = [window EXCEPT ![v] = window[v] + 1]
        /\ req' = [req EXCEPT ![r] = Idle] /\ req[r].pc = "verify"
    BY <1>8, <2>1 DEF LoginFails, Answer, At
  <2>3. req'[r].pc = "idle" /\ \A s \in Request \ {r} : req'[s] = req[s]
    BY <1>0, <2>2 DEF Idle
  <2>4. CASE u # v
    <3>1. Guessing(u)' \subseteq Guessing(u)
      BY <2>3 DEF Guessing
    <3> QED BY <1>0, <1>4, <2>2, <2>4, <3>1
  <2>5. CASE u = v
    <3>1. r \in Guessing(v) /\ Guessing(v)' = Guessing(v) \ {r}
      BY <2>1, <2>2, <2>3 DEF Guessing
    <3>2. H(v) = G(v) - 1
      BY <1>1, <3>1, FS_RemoveElement DEF G, H
    <3>3. /\ fails'[v] = fails[v] + 1 /\ window'[v] = window[v] + 1
          /\ locked'[v] = (locked[v] \/ fails[v] + 1 >= MaxFailed)
      BY <1>0, <2>2
    <3>4. ~locked'[v] => ~(fails[v] + 1 >= MaxFailed)
      BY <3>3, Zenon
    <3> QED BY <1>0, <1>1, <1>2, <2>5, <3>2, <3>3, <3>4
  <2> QED BY <2>4, <2>5
<1>9. ASSUME NEW r \in Request, LoginMatches(r), NEW u \in User
      PROVE  Good(u)
  <2>1. PICK v \in User : v = req[r].user
    BY <1>0, <1>9 DEF LoginMatches, At, WellFormedRequest
  <2>2. /\ fails' = [fails EXCEPT ![v] = 0]
        /\ locked' = [locked EXCEPT ![v] = FALSE]
        /\ window' = [window EXCEPT ![v] = 0]
        /\ req' = [req EXCEPT ![r].pc = "revoke"]
    BY <1>9, <2>1 DEF LoginMatches, Goto
  <2>3. req'[r].pc = "revoke" /\ \A s \in Request \ {r} : req'[s] = req[s]
    BY <1>0, <2>2 DEF RequestRecord
  <2>4. Guessing(u)' \subseteq Guessing(u)
    BY <2>3 DEF Guessing
  <2>5. CASE u = v
    BY <1>0, <1>5, <2>2, <2>5
  <2>6. CASE u # v
    BY <1>0, <1>4, <2>2, <2>4, <2>6
  <2> QED BY <2>5, <2>6
<1>10. ASSUME NEW v \in User, Unlock(v), NEW u \in User
       PROVE  Good(u)
  <2>1. Guessing(u)' = Guessing(u)
    BY <1>10 DEF Unlock, Guessing
  <2>2. CASE u = v
    BY <1>0, <1>5, <1>10, <2>2 DEF Unlock
  <2>3. CASE u # v
    BY <1>0, <1>4, <1>10, <2>1, <2>3 DEF Unlock
  <2> QED BY <2>2, <2>3
<1> HIDE DEF Good
<1> QED BY <1>6, <1>7, <1>8, <1>9, <1>10, WhoGuesses

(* However many logins of one account race, it takes fewer wrong passwords than
   the limit and the requests that the process handles at a time, between two
   moments at which its window starts again (login reads the lock before the
   await of the comparison and counts after it). *)
THEOREM GuessesBounded == Spec => []GuessesAreBounded
<1>1. Spec => []GuessInv
  BY TypeInvHolds, GuessInit, GuessStep, PTL DEF Spec
<1>2. GuessInv /\ TypeInv => GuessesAreBounded
  <2> SUFFICES ASSUME GuessInv, TypeInv, NEW u \in User
               PROVE  window[u] < MaxFailed + Cardinality(Request)
    BY DEF GuessesAreBounded
  <2>1. window[u] + Cardinality(Guessing(u)) < MaxFailed + Cardinality(Request)
    BY DEF GuessInv
  <2>2. IsFiniteSet(Request) /\ Guessing(u) \subseteq Request
    BY SessionsAssumption DEF Guessing
  <2>3. Cardinality(Guessing(u)) \in Nat /\ Cardinality(Request) \in Nat
    BY <2>2, FS_Subset, FS_CardinalityType
  <2>4. window[u] \in Nat /\ MaxFailed \in Nat
    BY TypeParts, SessionsAssumption DEF OtherTypes
  <2> QED BY <2>1, <2>3, <2>4
<1> QED BY <1>1, <1>2, TypeInvHolds, PTL
=============================================================================
