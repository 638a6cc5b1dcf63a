--------------------------- MODULE AccountsProofs ---------------------------
(* The invariants of Accounts for any number of requests, users, keys and     *)
(* organizations.  The inductive invariant has two halves that share only the *)
(* requests: what an exchange holds and the rows of users and organizations,  *)
(* and what a key route holds and the rows of keys.  Each half is left alone  *)
(* by the actions of the other (ExchangeFrame and KeyFrame).                  *)
EXTENDS Accounts, TLAPS

ExchangeSteps == {"find", "org", "user", "login"}

RouteSteps == {"create", "revoke", "list", "suspend", "audit"}

\* Request r goes to a step with q, and the others stay where they are.
Moves(r, to, q) ==
    /\ pc' = [pc EXCEPT ![r] = to]
    /\ req' = [req EXCEPT ![r] = q]

Others(r) == \A s \in Requests \ {r} : pc'[s] = pc[s] /\ req'[s] = req[s]

-----------------------------------------------------------------------------
\* The seeded rows agree, and nobody holds anything yet.
LEMMA InitInv == Init => AccountsInv
<1> SUFFICES ASSUME Init PROVE AccountsInv
  OBVIOUS
<1> USE AccountsAssumption DEF AccountsAssumption
<1>1. TypeOK
  <2>1. orgs \subseteq OrgIds
    BY DEF Init, SeedOrgs, UserRow
  <2>2. keys \in [KeyIds -> KeyRow]
    BY DEF Init, KeyRow
  <2>3. NoRequest \in Request
    BY DEF NoRequest, Request
  <2>4. pc \in [Requests -> Steps] /\ req \in [Requests -> Request]
    BY <2>3 DEF Init, Steps
  <2> QED
    BY <2>1, <2>2, <2>4 DEF Init, TypeOK
<1>2. ExchangeInv
  <2>1. \A r \in Requests : pc[r] = "idle" /\ req[r].org = Nil
    BY DEF Init, NoRequest
  <2>2. (\A r \in Requests : ExchangeHolds(r)) /\ PendingFresh
    BY <2>1 DEF ExchangeHolds, PendingFresh, Provisioning
  <2>3. Tenancy
    BY DEF Init, Tenancy, SeedOrgs
  <2> QED
    BY <2>2, <2>3 DEF ExchangeInv, TokensNameUsers, Init
<1>3. KeyInv
  <2>1. \A r \in Requests : pc[r] = "idle"
    BY DEF Init
  <2>2. \A r \in Requests : KeyRouteHolds(r)
    BY <2>1 DEF KeyRouteHolds
  <2>3. UnissuedKeys /\ AuditNotAhead /\ SuspensionScope /\ SuspendedUnlessRaced
    BY DEF Init, UnissuedKeys, AuditNotAhead, SuspensionScope, SuspendedUnlessRaced, Usable, Reason
  <2> QED
    BY <2>2, <2>3 DEF KeyInv
<1> QED
  BY <1>1, <1>2, <1>3 DEF AccountsInv

-----------------------------------------------------------------------------
\* What a move does, read request by request.
LEMMA MoveReads ==
    ASSUME TypeOK, NEW r \in Requests, NEW to \in Steps, NEW q \in Request, Moves(r, to, q)
    PROVE  /\ pc'[r] = to
           /\ req'[r] = q
           /\ Others(r)
           /\ pc' \in [Requests -> Steps]
           /\ req' \in [Requests -> Request]
BY DEF TypeOK, Moves, Others

\* A request that leaves holds nothing any more.
LEMMA LeaveReads ==
    ASSUME TypeOK, NEW r \in Requests, Leave(r)
    PROVE  Moves(r, "idle", NoRequest) /\ NoRequest \in Request
BY DEF Leave, Moves, NoRequest, Request

\* A step of a key route or of an idle request leaves the exchange half alone.
LEMMA ExchangeFrame ==
    ASSUME AccountsInv,
           UNCHANGED <<orgs, users, tokens>>,
           \A s \in Requests :
              \/ pc'[s] = pc[s] /\ req'[s] = req[s]
              \/ pc'[s] \notin ExchangeSteps /\ req'[s].org = Nil
    PROVE  ExchangeInv'
<1>1. ExchangeInv
  BY DEF AccountsInv
<1>2. ASSUME NEW s \in Requests PROVE ExchangeHolds(s)'
  BY <1>1 DEF ExchangeInv, ExchangeHolds, ExchangeSteps
<1>3. \A s \in Requests :
         /\ req'[s].org # Nil => req'[s] = req[s] /\ pc'[s] = pc[s]
         /\ Provisioning(s)' => Provisioning(s)
  BY DEF Provisioning
<1>4. PendingFresh'
  BY <1>1, <1>3 DEF ExchangeInv, PendingFresh, Provisioning
<1>5. Tenancy' /\ TokensNameUsers'
  BY <1>1 DEF ExchangeInv, Tenancy, TokensNameUsers
<1> QED
  BY <1>2, <1>4, <1>5 DEF ExchangeInv

\* A step of an exchange leaves the key half alone.
LEMMA KeyFrame ==
    ASSUME AccountsInv,
           UNCHANGED <<keys, audit, suspended, raced>>,
           \A s \in Requests :
              \/ pc'[s] = pc[s] /\ req'[s] = req[s]
              \/ pc'[s] \notin RouteSteps
    PROVE  KeyInv'
<1>1. KeyInv
  BY DEF AccountsInv
<1>2. ASSUME NEW e PROVE Happened(e) => Happened(e)'
  BY DEF Happened
<1>3. ASSUME NEW s \in Requests PROVE KeyRouteHolds(s)'
  BY <1>1, <1>2 DEF KeyInv, KeyRouteHolds, RouteSteps
<1>4. AuditNotAhead'
  BY <1>1, <1>2 DEF KeyInv, AuditNotAhead
<1>5. UnissuedKeys' /\ SuspensionScope' /\ SuspendedUnlessRaced'
  BY <1>1 DEF KeyInv, UnissuedKeys, SuspensionScope, SuspendedUnlessRaced, Usable
<1> QED
  BY <1>3, <1>4, <1>5 DEF KeyInv

\* The same for a move of one request.
LEMMA ExchangeKept ==
    ASSUME AccountsInv, NEW r \in Requests, NEW to \in Steps, NEW q \in Request,
           Moves(r, to, q), to \notin ExchangeSteps, q.org = Nil,
           UNCHANGED <<orgs, users, tokens>>
    PROVE  ExchangeInv'
BY MoveReads, ExchangeFrame DEF AccountsInv, Others

LEMMA KeyKept ==
    ASSUME AccountsInv, NEW r \in Requests, NEW to \in Steps, NEW q \in Request,
           Moves(r, to, q), to \notin RouteSteps,
           UNCHANGED <<keys, audit, suspended, raced>>
    PROVE  KeyInv'
BY MoveReads, KeyFrame DEF AccountsInv, Others

\* A move of one request that leaves the tables alone keeps the types.
LEMMA TypeKept ==
    ASSUME TypeOK, NEW r \in Requests, NEW to \in Steps, NEW q \in Request,
           Moves(r, to, q), UNCHANGED <<rows, audit, history>>
    PROVE  TypeOK'
<1>1. pc' \in [Requests -> Steps] /\ req' \in [Requests -> Request]
  BY MoveReads
<1> QED
  BY <1>1 DEF TypeOK, rows, history

\* What a request may leave behind is in the tables: to leave is always safe.
LEMMA LeaveKeeps ==
    ASSUME AccountsInv, NEW r \in Requests, Leave(r), UNCHANGED <<rows, audit, history>>
    PROVE  AccountsInv'
<1> "idle" \in Steps /\ "idle" \notin ExchangeSteps /\ "idle" \notin RouteSteps
  BY DEF Steps, ExchangeSteps, RouteSteps
<1>1. TypeOK
  BY DEF AccountsInv
<1>2. Moves(r, "idle", NoRequest) /\ NoRequest \in Request /\ NoRequest.org = Nil
  BY <1>1, LeaveReads DEF NoRequest
<1>3. TypeOK'
  BY <1>1, <1>2, TypeKept
<1>4. ExchangeInv'
  BY <1>2, ExchangeKept DEF rows, history
<1>5. KeyInv'
  BY <1>2, KeyKept DEF rows, history
<1> QED
  BY <1>3, <1>4, <1>5 DEF AccountsInv

-----------------------------------------------------------------------------
(* The exchange.                                                            *)

\* Rows that are not committed stay fresh while no request gets any.
LEMMA PendingKept ==
    ASSUME PendingFresh, UNCHANGED <<orgs, users>>,
           \A s \in Requests : req'[s].org # Nil => req'[s].org = req[s].org,
           \A s \in Requests : Provisioning(s)' => Provisioning(s) /\ req'[s] = req[s]
    PROVE  PendingFresh'
<1>1. \A s \in Requests : req'[s].org # Nil => req'[s].org \notin orgs
  BY DEF PendingFresh
<1>2. \A s, t \in Requests : req'[s].org # Nil /\ req'[s].org = req'[t].org => s = t
  BY DEF PendingFresh
<1>3. \A s \in Requests : Provisioning(s)' =>
         /\ users[req'[s].user] = Nil
         /\ \A u \in UserIds : users[u] # Nil => users[u].email # req'[s].email
  BY DEF PendingFresh
<1>4. \A s, t \in Requests :
         /\ Provisioning(s)'
         /\ Provisioning(t)'
         /\ req'[s].user = req'[t].user \/ req'[s].email = req'[t].email
         => s = t
  BY DEF PendingFresh
<1> QED
  BY <1>1, <1>2, <1>3, <1>4 DEF PendingFresh

\* A login that begins holds an address and no organization.
LEMMA SignInKeeps ==
    ASSUME AccountsInv, NEW r \in Requests, NEW e \in Visitors, SignIn(r, e)
    PROVE  AccountsInv'
<1> DEFINE q == [req[r] EXCEPT !.email = e]
<1> "find" \in Steps /\ "find" \notin RouteSteps
  BY DEF Steps, RouteSteps
<1>1. TypeOK /\ ExchangeInv
  BY DEF AccountsInv
<1>2. e \in Emails /\ pc[r] = "idle" /\ Moves(r, "find", q)
  BY AccountsAssumption DEF AccountsAssumption, SignIn, Goto, Moves
<1>3. q \in Request /\ q.email = e /\ q.org = req[r].org
  <2>1. req[r] \in Request
    BY <1>1 DEF TypeOK
  <2> QED
    BY <1>2, <2>1 DEF Request
<1> HIDE DEF q
<1>4. TypeOK'
  BY <1>1, <1>2, <1>3, TypeKept DEF SignIn
<1>5. KeyInv'
  BY <1>2, <1>3, KeyKept DEF SignIn, rows, history
<1>6. pc'[r] = "find" /\ req'[r] = q /\ Others(r)
  BY <1>1, <1>2, <1>3, MoveReads
<1>7. q.org = Nil
  BY <1>1, <1>2, <1>3 DEF ExchangeInv, ExchangeHolds
<1>8. ASSUME NEW s \in Requests PROVE ExchangeHolds(s)'
  BY <1>1, <1>2, <1>3, <1>6, <1>7 DEF ExchangeInv, ExchangeHolds, Others, SignIn, rows
<1>9. /\ \A s \in Requests : req'[s].org # Nil => req'[s].org = req[s].org
      /\ \A s \in Requests : Provisioning(s)' => Provisioning(s) /\ req'[s] = req[s]
  BY <1>6, <1>7 DEF Provisioning, Others
<1>10. PendingFresh'
  BY <1>1, <1>9, PendingKept DEF ExchangeInv, SignIn, rows
<1>11. Tenancy' /\ TokensNameUsers'
  BY <1>1 DEF ExchangeInv, Tenancy, TokensNameUsers, SignIn, rows, history
<1>12. ExchangeInv'
  BY <1>8, <1>10, <1>11 DEF ExchangeInv
<1> QED
  BY <1>4, <1>5, <1>12 DEF AccountsInv

\* A login finds the user of its address, or goes on to make one.
LEMMA FindUserKeeps ==
    ASSUME AccountsInv, NEW r \in Requests, FindUser(r)
    PROVE  AccountsInv'
<1>1. TypeOK /\ ExchangeInv /\ pc[r] = "find" /\ req[r].org = Nil /\ req[r].email \in Emails
  BY DEF AccountsInv, ExchangeInv, ExchangeHolds, FindUser, Goto
<1>2. UNCHANGED <<orgs, users, tokens, keys, audit, suspended, raced>>
  BY DEF FindUser, rows, history
<1>3. PICK to \in {"login", "org"}, q \in Request :
         /\ Moves(r, to, q)
         /\ q.org = Nil /\ q.email = req[r].email
         /\ to = "login" =>
               q.user \in UserIds /\ users[q.user] # Nil /\ users[q.user].email = q.email
  <2>1. CASE \E u \in Holders(req[r].email) :
                Goto(r, "find", "login") /\ req' = [req EXCEPT ![r].user = u]
    <3>1. PICK u \in Holders(req[r].email) :
                Goto(r, "find", "login") /\ req' = [req EXCEPT ![r].user = u]
      BY <2>1
    <3>2. u \in UserIds /\ users[u] # Nil /\ users[u].email = req[r].email
      BY DEF Holders
    <3>3. req[r] \in Request
      BY <1>1 DEF TypeOK
    <3> DEFINE q == [req[r] EXCEPT !.user = u]
    <3>4. q \in Request /\ q.org = Nil /\ q.email = req[r].email /\ q.user = u
      BY <1>1, <3>2, <3>3 DEF Request
    <3>5. Moves(r, "login", q)
      BY <3>1 DEF Goto, Moves
    <3> QED
      BY <3>2, <3>4, <3>5
  <2>2. CASE Goto(r, "find", "org") /\ UNCHANGED req
    <3>1. req[r] \in Request /\ Moves(r, "org", req[r])
      BY <1>1, <2>2 DEF Goto, Moves, TypeOK
    <3> QED
      BY <1>1, <3>1
  <2> QED
    BY <2>1, <2>2 DEF FindUser
<1> to \in Steps /\ to \notin RouteSteps
  BY DEF Steps, RouteSteps
<1>4. TypeOK'
  BY <1>1, <1>3, TypeKept DEF FindUser
<1>5. KeyInv'
  BY <1>2, <1>3, KeyKept
<1>6. pc'[r] = to /\ req'[r] = q /\ Others(r)
  BY <1>1, <1>3, MoveReads
<1>7. ASSUME NEW s \in Requests PROVE ExchangeHolds(s)'
  BY <1>1, <1>2, <1>3, <1>6 DEF ExchangeInv, ExchangeHolds, Others
<1>8. /\ \A s \in Requests : req'[s].org # Nil => req'[s].org = req[s].org
      /\ \A s \in Requests : Provisioning(s)' => Provisioning(s) /\ req'[s] = req[s]
  BY <1>3, <1>6 DEF Provisioning, Others
<1>9. PendingFresh'
  BY <1>1, <1>2, <1>8, PendingKept DEF ExchangeInv
<1>10. Tenancy' /\ TokensNameUsers'
  BY <1>1, <1>2 DEF ExchangeInv, Tenancy, TokensNameUsers
<1>11. ExchangeInv'
  BY <1>7, <1>9, <1>10 DEF ExchangeInv
<1> QED
  BY <1>4, <1>5, <1>11 DEF AccountsInv

\* The organization a login adds is nobody else's, committed or not.
LEMMA AddOrgKeeps ==
    ASSUME AccountsInv, NEW r \in Requests, AddOrg(r)
    PROVE  AccountsInv'
<1> "user" \in Steps /\ "user" \notin RouteSteps
  BY DEF Steps, RouteSteps
<1>1. TypeOK /\ ExchangeInv /\ pc[r] = "org" /\ req[r].email \in Emails
  BY DEF AccountsInv, ExchangeInv, ExchangeHolds, AddOrg, Goto
<1>2. UNCHANGED <<orgs, users, tokens, keys, audit, suspended, raced>>
  BY DEF AddOrg, rows, history
<1>3. PICK o \in OrgIds \ (orgs \cup PendingOrgs) : req' = [req EXCEPT ![r].org = o]
  BY DEF AddOrg
<1> DEFINE q == [req[r] EXCEPT !.org = o]
<1>4. /\ Moves(r, "user", q) /\ q \in Request
      /\ q.org = o /\ q.email = req[r].email /\ o # Nil
  <2>1. req[r] \in Request /\ o # Nil
    BY <1>1, AccountsAssumption DEF AccountsAssumption, TypeOK
  <2>2. q \in Request /\ q.org = o /\ q.email = req[r].email
    BY <2>1 DEF Request
  <2> QED
    BY <1>3, <2>1, <2>2 DEF AddOrg, Goto, Moves
<1> HIDE DEF q
<1>5. TypeOK'
  BY <1>1, <1>4, TypeKept DEF AddOrg
<1>6. KeyInv'
  BY <1>2, <1>4, KeyKept
<1>7. pc'[r] = "user" /\ req'[r] = q /\ Others(r)
  BY <1>1, <1>4, MoveReads
<1>8. ASSUME NEW s \in Requests PROVE ExchangeHolds(s)'
  BY <1>1, <1>2, <1>4, <1>7 DEF ExchangeInv, ExchangeHolds, Others
<1>9. PendingFresh'
  <2>1. o \notin orgs /\ \A s \in Requests : req[s].org # o
    BY <1>4 DEF PendingOrgs
  <2>2. \A s \in Requests : Provisioning(s)' => s # r /\ Provisioning(s) /\ req'[s] = req[s]
    BY <1>7 DEF Provisioning, Others
  <2>3. \A s \in Requests : req'[s].org # Nil => req'[s].org \notin orgs
    BY <1>1, <1>4, <1>7, <2>1 DEF ExchangeInv, PendingFresh, Others
  <2>4. \A s, t \in Requests : req'[s].org # Nil /\ req'[s].org = req'[t].org => s = t
    BY <1>1, <1>4, <1>7, <2>1 DEF ExchangeInv, PendingFresh, Others
  <2>5. \A s \in Requests : Provisioning(s)' =>
           /\ users[req'[s].user] = Nil
           /\ \A u \in UserIds : users[u] # Nil => users[u].email # req'[s].email
    BY <1>1, <2>2 DEF ExchangeInv, PendingFresh
  <2>6. \A s, t \in Requests :
           /\ Provisioning(s)'
           /\ Provisioning(t)'
           /\ req'[s].user = req'[t].user \/ req'[s].email = req'[t].email
           => s = t
    BY <1>1, <2>2 DEF ExchangeInv, PendingFresh
  <2> QED
    BY <1>2, <2>3, <2>4, <2>5, <2>6 DEF PendingFresh
<1>10. Tenancy' /\ TokensNameUsers'
  BY <1>1, <1>2 DEF ExchangeInv, Tenancy, TokensNameUsers
<1>11. ExchangeInv'
  BY <1>8, <1>9, <1>10 DEF ExchangeInv
<1> QED
  BY <1>5, <1>6, <1>11 DEF AccountsInv

\* The unique index: no other login, committed or not, has the address.
LEMMA AddUserKeeps ==
    ASSUME AccountsInv, NEW r \in Requests, AddUser(r)
    PROVE  AccountsInv'
<1> "login" \in Steps /\ "login" \notin RouteSteps
  BY DEF Steps, RouteSteps
<1>1. TypeOK /\ ExchangeInv /\ pc[r] = "user" /\ req[r].email \in Emails /\ req[r].org # Nil
  BY DEF AccountsInv, ExchangeInv, ExchangeHolds, AddUser
<1>2. UNCHANGED <<orgs, users, tokens, keys, audit, suspended, raced>>
  BY DEF AddUser, rows, history
<1>3. CASE Holders(req[r].email) # {}
  BY <1>3, LeaveKeeps DEF AddUser
<1>4. CASE Holders(req[r].email) = {}
  <2>1. PICK u \in {v \in UserIds : users[v] = Nil} \ PendingUsers :
              Goto(r, "user", "login") /\ req' = [req EXCEPT ![r].user = u]
    BY <1>4 DEF AddUser
  <2> DEFINE q == [req[r] EXCEPT !.user = u]
  <2>2. /\ Moves(r, "login", q) /\ q \in Request
        /\ q.org = req[r].org /\ q.email = req[r].email /\ q.user = u
    <3>1. req[r] \in Request
      BY <1>1 DEF TypeOK
    <3>2. q \in Request /\ q.org = req[r].org /\ q.email = req[r].email /\ q.user = u
      BY <3>1 DEF Request
    <3> QED
      BY <2>1, <3>2 DEF Goto, Moves
  <2> HIDE DEF q
  <2>3. TypeOK'
    BY <1>1, <2>2, TypeKept DEF AddUser
  <2>4. KeyInv'
    BY <1>2, <2>2, KeyKept
  <2>5. pc'[r] = "login" /\ req'[r] = q /\ Others(r)
    BY <1>1, <2>2, MoveReads
  <2>6. ASSUME NEW s \in Requests PROVE ExchangeHolds(s)'
    BY <1>1, <1>2, <2>2, <2>5 DEF ExchangeInv, ExchangeHolds, Others
  <2>7. PendingFresh'
    <3>1. users[u] = Nil /\ \A s \in Requests : Provisioning(s) => req[s].user # u
      BY DEF PendingUsers
    <3>2. \A s \in Requests : Provisioning(s) => req[s].email # req[r].email
      BY DEF AddUser
    <3>3. \A v \in UserIds : users[v] # Nil => users[v].email # req[r].email
      BY <1>4 DEF Holders
    <3>4. \A s \in Requests \ {r} : Provisioning(s)' => Provisioning(s) /\ req'[s] = req[s]
      BY <2>5 DEF Provisioning, Others
    <3>5. \A s \in Requests : req'[s].org = req[s].org
      BY <2>2, <2>5 DEF Others
    <3>6. \A s \in Requests : Provisioning(s)' =>
             /\ users[req'[s].user] = Nil
             /\ \A v \in UserIds : users[v] # Nil => users[v].email # req'[s].email
      BY <1>1, <2>2, <2>5, <3>1, <3>3, <3>4 DEF ExchangeInv, PendingFresh
    <3>7. \A s, t \in Requests :
             /\ Provisioning(s)'
             /\ Provisioning(t)'
             /\ req'[s].user = req'[t].user \/ req'[s].email = req'[t].email
             => s = t
      BY <1>1, <2>2, <2>5, <3>1, <3>2, <3>4 DEF ExchangeInv, PendingFresh
    <3>8. \A s \in Requests : req'[s].org # Nil => req'[s].org \notin orgs
      BY <1>1, <3>5 DEF ExchangeInv, PendingFresh
    <3>9. \A s, t \in Requests : req'[s].org # Nil /\ req'[s].org = req'[t].org => s = t
      BY <1>1, <3>5 DEF ExchangeInv, PendingFresh
    <3> QED
      BY <1>2, <3>6, <3>7, <3>8, <3>9 DEF PendingFresh
  <2>8. Tenancy' /\ TokensNameUsers'
    BY <1>1, <1>2 DEF ExchangeInv, Tenancy, TokensNameUsers
  <2>9. ExchangeInv'
    BY <2>6, <2>7, <2>8 DEF ExchangeInv
  <2> QED
    BY <2>3, <2>4, <2>9 DEF AccountsInv
<1> QED
  BY <1>3, <1>4

\* A committed login adds the user of its address and the one of its organization.
LEMMA CommitLoginKeeps ==
    ASSUME AccountsInv, NEW r \in Requests, CommitLogin(r)
    PROVE  AccountsInv'
<1> DEFINE u == req[r].user
           e == req[r].email
           o == req[r].org
           row == [org |-> o, email |-> e, role |-> "owner"]
<1> "idle" \in Steps /\ "idle" \notin RouteSteps /\ "idle" \notin ExchangeSteps
  BY DEF Steps, RouteSteps, ExchangeSteps
<1>1. TypeOK /\ ExchangeInv /\ pc[r] = "login" /\ u \in UserIds /\ e \in Emails
  BY DEF AccountsInv, ExchangeInv, ExchangeHolds, CommitLogin
<1>2. UNCHANGED <<keys, audit, suspended, raced>>
  BY DEF CommitLogin
<1>3. Moves(r, "idle", NoRequest) /\ NoRequest \in Request /\ NoRequest.org = Nil
  BY <1>1, LeaveReads DEF CommitLogin, NoRequest
<1>4. KeyInv'
  BY <1>2, <1>3, KeyKept
<1>5. pc'[r] = "idle" /\ req'[r] = NoRequest /\ Others(r)
      /\ pc' \in [Requests -> Steps] /\ req' \in [Requests -> Request]
  BY <1>1, <1>3, MoveReads
<1>6. tokens' = tokens \cup {[email |-> e, user |-> u]}
  BY DEF CommitLogin, Token
<1>7. TokensNameUsers /\ Tenancy /\ PendingFresh
  BY <1>1 DEF ExchangeInv
<1>8. CASE o = Nil
  <2>1. UNCHANGED <<orgs, users>>
    BY <1>8 DEF CommitLogin
  <2>2. TypeOK'
    BY <1>1, <1>2, <1>5, <1>6, <2>1 DEF TypeOK
  <2>3. ASSUME NEW s \in Requests PROVE ExchangeHolds(s)'
    BY <1>1, <1>3, <1>5, <2>1 DEF ExchangeInv, ExchangeHolds, Others
  <2>4. PendingFresh'
    <3>1. \A s \in Requests : req'[s].org # Nil => req'[s].org = req[s].org
      BY <1>3, <1>5 DEF Others
    <3>2. \A s \in Requests : Provisioning(s)' => Provisioning(s) /\ req'[s] = req[s]
      BY <1>3, <1>5 DEF Provisioning, Others
    <3> QED
      BY <1>7, <2>1, <3>1, <3>2, PendingKept
  <2>5. users[u] # Nil /\ users[u].email = e
    BY <1>1, <1>8 DEF ExchangeInv, ExchangeHolds
  <2>6. TokensNameUsers'
    BY <1>6, <1>7, <2>1, <2>5 DEF TokensNameUsers
  <2>7. Tenancy'
    BY <1>7, <2>1 DEF Tenancy
  <2> QED
    BY <1>4, <2>2, <2>3, <2>4, <2>6, <2>7 DEF AccountsInv, ExchangeInv
<1>9. CASE o # Nil
  <2>1. orgs' = orgs \cup {o} /\ users' = [users EXCEPT ![u] = row]
    BY <1>9 DEF CommitLogin
  <2>2. o \in OrgIds /\ Provisioning(r)
    BY <1>1, <1>9 DEF TypeOK, Request, Provisioning
  <2>3. row \in UserRow /\ row # Nil
    BY <1>1, <2>2, AccountsAssumption DEF AccountsAssumption, UserRow, Role
  <2> HIDE DEF u, e, o
  <2>4. row.org = o /\ row.email = e /\ row.role = "owner"
    OBVIOUS
  <2> HIDE DEF row
  <2>5. users[u] = Nil /\ users'[u] = row /\ \A v \in UserIds \ {u} : users'[v] = users[v]
    BY <1>1, <1>7, <2>1, <2>2 DEF TypeOK, PendingFresh, u
  <2>6. o \notin orgs /\ \A v \in UserIds : users[v] # Nil => users[v].email # e
    BY <1>7, <1>9, <2>2 DEF PendingFresh, o, e
  <2>7. TypeOK'
    BY <1>1, <1>2, <1>5, <1>6, <2>1, <2>2, <2>3 DEF TypeOK
  <2>8. \A s \in Requests : req'[s].org # Nil =>
           s # r /\ pc'[s] = pc[s] /\ req'[s] = req[s] /\ req[s].org # o
    BY <1>3, <1>5, <1>7, <1>9 DEF Others, PendingFresh, o
  <2>9. \A s \in Requests : Provisioning(s)' =>
           /\ s # r /\ Provisioning(s) /\ req'[s] = req[s]
           /\ req[s].user # u /\ req[s].email # e
    BY <1>7, <2>2, <2>8 DEF Provisioning, PendingFresh, u, e
  <2>10. ASSUME NEW s \in Requests PROVE ExchangeHolds(s)'
    <3>1. CASE s = r
      BY <1>3, <1>5, <3>1 DEF ExchangeHolds
    <3>2. CASE s # r
      <4>1. pc'[s] = pc[s] /\ req'[s] = req[s] /\ ExchangeHolds(s)
        BY <1>1, <1>5, <3>2 DEF Others, ExchangeInv
      <4> QED
        BY <2>5, <4>1 DEF ExchangeHolds
    <3> QED
      BY <3>1, <3>2
  <2>11. PendingFresh'
    <3>1. \A s \in Requests : req'[s].org # Nil => req'[s].org \notin orgs'
      BY <1>7, <2>1, <2>8 DEF PendingFresh
    <3>2. \A s, t \in Requests : req'[s].org # Nil /\ req'[s].org = req'[t].org => s = t
      BY <1>7, <2>8 DEF PendingFresh
    <3>3. \A s \in Requests : Provisioning(s)' =>
             /\ users'[req'[s].user] = Nil
             /\ \A v \in UserIds : users'[v] # Nil => users'[v].email # req'[s].email
      <4> SUFFICES ASSUME NEW s \in Requests, Provisioning(s)'
                   PROVE  /\ users'[req'[s].user] = Nil
                          /\ \A v \in UserIds : users'[v] # Nil => users'[v].email # req'[s].email
        OBVIOUS
      <4>1. /\ req'[s] = req[s] /\ req[s].user # u /\ req[s].email # e
            /\ users[req[s].user] = Nil
            /\ \A v \in UserIds : users[v] # Nil => users[v].email # req[s].email
        BY <1>7, <2>9 DEF PendingFresh
      <4>2. req[s].user \in UserIds
        BY <1>1, <2>9 DEF ExchangeInv, ExchangeHolds, Provisioning
      <4> QED
        BY <2>4, <2>5, <4>1, <4>2
    <3>4. \A s, t \in Requests :
             /\ Provisioning(s)'
             /\ Provisioning(t)'
             /\ req'[s].user = req'[t].user \/ req'[s].email = req'[t].email
             => s = t
      BY <1>7, <2>9 DEF PendingFresh
    <3> QED
      BY <3>1, <3>2, <3>3, <3>4 DEF PendingFresh
  <2>12. Tenancy'
    <3>1. \A v, w \in UserIds :
             users'[v] # Nil /\ users'[w] # Nil /\ users'[v].email = users'[w].email => v = w
      BY <1>7, <2>4, <2>5, <2>6 DEF Tenancy
    <3>2. \A v \in UserIds : users'[v] # Nil => users'[v].org \in orgs'
      BY <1>7, <2>1, <2>4, <2>5 DEF Tenancy
    <3>3. ASSUME NEW p \in orgs' \ SeedOrgs
          PROVE  \E v \in UserIds :
                    /\ users'[v] # Nil /\ users'[v].org = p /\ users'[v].role = "owner"
                    /\ \A w \in UserIds : users'[w] # Nil /\ users'[w].org = p => w = v
      <4>1. \A v \in UserIds : users[v] # Nil => users[v].org # o
        BY <1>7, <2>6 DEF Tenancy
      <4>2. CASE p = o
        BY <1>1, <2>3, <2>4, <2>5, <4>1, <4>2 DEF u
      <4>3. CASE p # o
        <5>1. p \in orgs \ SeedOrgs
          BY <2>1, <4>3
        <5>2. PICK v \in UserIds :
                /\ users[v] # Nil /\ users[v].org = p /\ users[v].role = "owner"
                /\ \A w \in UserIds : users[w] # Nil /\ users[w].org = p => w = v
          BY <1>7, <5>1 DEF Tenancy
        <5> QED
          BY <2>4, <2>5, <4>3, <5>2
      <4> QED
        BY <4>2, <4>3
    <3> QED
      BY <3>1, <3>2, <3>3 DEF Tenancy
  <2>13. TokensNameUsers'
    <3> SUFFICES ASSUME NEW t \in tokens'
                 PROVE  users'[t.user] # Nil /\ users'[t.user].email = t.email
      BY DEF TokensNameUsers
    <3>1. CASE t = [email |-> e, user |-> u]
      BY <2>3, <2>4, <2>5, <3>1
    <3>2. CASE t \in tokens
      <4>1. users[t.user] # Nil /\ users[t.user].email = t.email /\ t.user \in UserIds
        BY <1>1, <1>7, <3>2 DEF TokensNameUsers, TypeOK
      <4> QED
        BY <2>5, <4>1
    <3> QED
      BY <1>6, <3>1, <3>2
  <2> QED
    BY <1>4, <2>7, <2>10, <2>11, <2>12, <2>13 DEF AccountsInv, ExchangeInv
<1> QED
  BY <1>8, <1>9

-----------------------------------------------------------------------------
(* The key routes.                                                          *)

\* Keys that were issued stay issued and to the same user, and a revocation is
\* never undone.
KeysGrow ==
    /\ \A k \in KeyIds : keys[k].owner # Nil => keys'[k].owner = keys[k].owner
    /\ \A k \in KeyIds : keys[k].ended \in Reason => keys'[k].ended \in Reason
    /\ suspended \subseteq suspended'

\* So what an entry tells of stays true.
LEMMA HappenedStays ==
    ASSUME KeysGrow, NEW e, Happened(e)
    PROVE  Happened(e)'
<1>1. e.action = "api_key.create" => \E k \in KeyIds : SeedKeys[k] = Nil /\ keys'[k].owner # Nil
  BY DEF Happened, KeysGrow
<1>2. e.action = "api_key.revoke" => e.target \in KeyIds /\ keys'[e.target].ended \in Reason
  BY DEF Happened, KeysGrow
<1>3. e.action = "user.suspend" => e.target \in suspended'
  BY DEF Happened, KeysGrow
<1> QED
  BY <1>1, <1>2, <1>3 DEF Happened

\* And what a request holds that did not move.
LEMMA RouteStays ==
    ASSUME AccountsInv, KeysGrow, NEW s \in Requests,
           pc'[s] = pc[s], req'[s] = req[s],
           pc[s] = "create" => req[s].actor \notin suspended' \ raced'
    PROVE  KeyRouteHolds(s)'
<1>1. KeyRouteHolds(s) /\ req[s].seen \subseteq KeyIds
  BY DEF AccountsInv, KeyInv, TypeOK, Request
<1>2. pc[s] = "suspend" => \A k \in req[s].seen : keys'[k].owner = req[s].entry.target
  <2> SUFFICES ASSUME pc[s] = "suspend", NEW k \in req[s].seen
               PROVE  keys'[k].owner = req[s].entry.target
    OBVIOUS
  <2>1. keys[k].owner = req[s].entry.target /\ req[s].entry.target \in UserIds
    BY <1>1 DEF KeyRouteHolds
  <2>2. keys[k].owner # Nil
    BY <2>1, AccountsAssumption DEF AccountsAssumption
  <2> QED
    BY <1>1, <2>1, <2>2 DEF KeysGrow
<1>3. pc[s] = "audit" => req[s].entry \in Entry /\ Happened(req[s].entry)'
  <2> SUFFICES ASSUME pc[s] = "audit"
               PROVE  req[s].entry \in Entry /\ Happened(req[s].entry)'
    OBVIOUS
  <2>1. PICK e : e = req[s].entry
    OBVIOUS
  <2>2. e \in Entry /\ Happened(e)
    BY <1>1, <2>1 DEF KeyRouteHolds
  <2>3. Happened(e)'
    BY <2>2, HappenedStays
  <2>4. req'[s].entry = e
    BY <2>1
  <2> QED
    BY <2>1, <2>2, <2>3, <2>4 DEF Happened
<1>4. pc[s] = "create" => /\ req[s].actor \in UserIds
                          /\ req[s].entry = [action |-> "api_key.create", target |-> Nil]
  BY <1>1 DEF KeyRouteHolds
<1> QED
  BY <1>1, <1>2, <1>3, <1>4 DEF KeyRouteHolds

\* A request in a key route holds no organization.
LEMMA NoOrg ==
    ASSUME AccountsInv, NEW r \in Requests, pc[r] \notin {"user", "login"}
    PROVE  req[r] \in Request /\ req[r].org = Nil
BY DEF AccountsInv, ExchangeInv, ExchangeHolds, TypeOK

\* One request moves on within its route and the tables stand still.
LEMMA RouteMoves ==
    ASSUME AccountsInv, NEW r \in Requests, NEW to \in Steps, NEW q \in Request,
           Moves(r, to, q), to \notin ExchangeSteps, q.org = Nil,
           UNCHANGED <<rows, audit, history>>,
           KeyRouteHolds(r)'
    PROVE  AccountsInv'
<1>1. TypeOK /\ KeyInv
  BY DEF AccountsInv
<1>2. TypeOK'
  BY <1>1, TypeKept
<1>3. ExchangeInv'
  BY ExchangeKept DEF rows, history
<1>4. KeysGrow
  BY DEF KeysGrow, rows, history
<1>5. Others(r)
  BY <1>1, MoveReads
<1>6. ASSUME NEW s \in Requests PROVE KeyRouteHolds(s)'
  <2>1. CASE s = r
    BY <2>1
  <2>2. CASE s # r
    <3>1. pc[s] = "create" => req[s].actor \notin suspended' \ raced'
      BY <1>1 DEF KeyInv, KeyRouteHolds, history
    <3> QED
      BY <1>4, <1>5, <2>2, <3>1, RouteStays DEF Others
  <2> QED
    BY <2>1, <2>2
<1>7. AuditNotAhead'
  BY <1>1, <1>4, HappenedStays DEF KeyInv, AuditNotAhead
<1>8. UnissuedKeys' /\ SuspensionScope' /\ SuspendedUnlessRaced'
  BY <1>1 DEF KeyInv, UnissuedKeys, SuspensionScope, SuspendedUnlessRaced, Usable, rows, history
<1> QED
  BY <1>2, <1>3, <1>6, <1>7, <1>8 DEF AccountsInv, KeyInv

\* A key passes only if its owner is not suspended, or was while a key of
\* theirs was being created.
LEMMA AskKeeps ==
    ASSUME AccountsInv, NEW r \in Requests, NEW k \in KeyIds,
           NEW step \in {"create", "revoke", "list"}, NEW permission, NEW e \in Entry,
           Ask(r, k, step, permission, e),
           step = "create" => e = [action |-> "api_key.create", target |-> Nil],
           step = "revoke" => e.action = "api_key.revoke" /\ e.target \in KeyIds,
           step = "list" => e.action = "user.suspend" /\ e.target \in UserIds
    PROVE  AccountsInv'
<1> DEFINE q == [req[r] EXCEPT !.actor = keys[k].owner, !.entry = e]
<1>1. TypeOK /\ KeyInv /\ pc[r] = "idle" /\ Usable(k)
  BY DEF AccountsInv, Ask, Goto, Authorised, Authenticated
<1>2. keys[k].owner \in UserIds /\ keys[k].owner \notin suspended \ raced
  BY <1>1 DEF TypeOK, KeyRow, KeyInv, SuspendedUnlessRaced, Usable
<1>3. q \in Request /\ q.org = Nil /\ q.actor = keys[k].owner /\ q.entry = e
  BY <1>1, <1>2, NoOrg DEF Request
<1>4. Moves(r, step, q)
  BY DEF Ask, Goto, Moves
<1> HIDE DEF q
<1>5. step \in Steps /\ step \notin ExchangeSteps
  BY DEF Steps, ExchangeSteps
<1>6. pc'[r] = step /\ req'[r] = q
  BY <1>1, <1>3, <1>4, <1>5, MoveReads
<1>7. UNCHANGED <<rows, audit, history>>
  BY DEF Ask
<1>8. KeyRouteHolds(r)'
  BY <1>2, <1>3, <1>6, <1>7 DEF KeyRouteHolds, rows, history
<1> QED
  BY <1>3, <1>4, <1>5, <1>7, <1>8, RouteMoves

\* What a suspension saw are keys of the user.
LEMMA ListKeysKeeps ==
    ASSUME AccountsInv, NEW r \in Requests, ListKeys(r)
    PROVE  AccountsInv'
<1> DEFINE u == req[r].entry.target
           K == {k \in KeysOf(u) : keys[k].ended \notin Reason}
           q == [req[r] EXCEPT !.seen = K]
<1>1. UNCHANGED <<rows, audit, history>> /\ pc[r] = "list"
  BY DEF ListKeys, Goto
<1>2. CASE Leave(r)
  BY <1>1, <1>2, LeaveKeeps
<1>3. CASE Goto(r, "list", "suspend") /\ req' = [req EXCEPT ![r].seen = K]
  <2>1. TypeOK /\ KeyRouteHolds(r)
    BY DEF AccountsInv, KeyInv
  <2>2. K \subseteq KeyIds /\ \A k \in K : keys[k].owner = u
    BY DEF KeysOf
  <2>3. q \in Request /\ q.org = Nil /\ q.entry = req[r].entry /\ q.seen = K
    BY <1>1, <2>2, NoOrg DEF Request
  <2>4. Moves(r, "suspend", q)
    BY <1>3 DEF Goto, Moves
  <2>5. "suspend" \in Steps /\ "suspend" \notin ExchangeSteps
    BY DEF Steps, ExchangeSteps
  <2> HIDE DEF q
  <2>6. pc'[r] = "suspend" /\ req'[r] = q
    BY <2>1, <2>3, <2>4, <2>5, MoveReads
  <2>7. KeyRouteHolds(r)'
    BY <1>1, <2>1, <2>2, <2>3, <2>6 DEF KeyRouteHolds, rows
  <2> QED
    BY <1>1, <2>3, <2>4, <2>5, <2>7, RouteMoves
<1> QED
  BY <1>2, <1>3 DEF ListKeys

\* A new key is usable by a user that was not suspended, or raced a suspension.
LEMMA CreateKeyKeeps ==
    ASSUME AccountsInv, NEW r \in Requests, CreateKey(r)
    PROVE  AccountsInv'
<1> DEFINE u == req[r].actor
<1> "audit" \in Steps /\ "audit" \notin ExchangeSteps
  BY DEF Steps, ExchangeSteps
<1>1. TypeOK /\ KeyInv /\ pc[r] = "create"
  BY DEF AccountsInv, CreateKey, Goto
<1>2. UNCHANGED <<orgs, users, tokens, audit, suspended, raced>>
  BY DEF CreateKey, history
<1>3. PICK k \in KeyIds : keys[k].owner = Nil /\ keys' = NewKey(k, u)
  BY DEF CreateKey
<1>4. /\ u \in UserIds /\ u # Nil /\ u \notin suspended \ raced
      /\ req[r].entry = [action |-> "api_key.create", target |-> Nil]
      /\ req[r].entry \in Entry
  BY <1>1, AccountsAssumption DEF AccountsAssumption, KeyInv, KeyRouteHolds, Entry
<1>5. req[r] \in Request /\ req[r].org = Nil /\ Moves(r, "audit", req[r])
  BY <1>1, NoOrg DEF CreateKey, Goto, Moves, TypeOK
<1>6. pc'[r] = "audit" /\ req'[r] = req[r] /\ Others(r)
      /\ pc' \in [Requests -> Steps] /\ req' \in [Requests -> Request]
  BY <1>1, <1>5, MoveReads
<1>7. SeedKeys[k] = Nil /\ keys[k].ended = Nil
  BY <1>1, <1>3 DEF KeyInv, UnissuedKeys
<1>8. /\ keys'[k].owner = u /\ keys'[k].ended = Nil
      /\ \A j \in KeyIds \ {k} : keys'[j] = keys[j]
      /\ keys' \in [KeyIds -> KeyRow]
  BY <1>1, <1>3, <1>4, <1>7 DEF TypeOK, KeyRow, NewKey
<1> HIDE DEF u
<1>9. KeysGrow
  BY <1>2, <1>3, <1>7, <1>8, AccountsAssumption DEF KeysGrow, AccountsAssumption
<1>10. TypeOK'
  BY <1>1, <1>2, <1>6, <1>8 DEF TypeOK
<1>11. ExchangeInv'
  BY <1>2, <1>5, ExchangeKept
<1>12. ASSUME NEW s \in Requests PROVE KeyRouteHolds(s)'
  <2>1. CASE s = r
    <3>1. \E j \in KeyIds : SeedKeys[j] = Nil /\ keys'[j].owner # Nil
      BY <1>4, <1>7, <1>8
    <3> QED
      BY <1>4, <1>6, <2>1, <3>1 DEF KeyRouteHolds, Happened
  <2>2. CASE s # r
    <3>1. pc[s] = "create" => req[s].actor \notin suspended' \ raced'
      BY <1>1, <1>2 DEF KeyInv, KeyRouteHolds
    <3> QED
      BY <1>6, <1>9, <2>2, <3>1, RouteStays DEF Others
  <2> QED
    BY <2>1, <2>2
<1>13. AuditNotAhead'
  BY <1>1, <1>2, <1>9, HappenedStays DEF KeyInv, AuditNotAhead
<1>14. UnissuedKeys'
  BY <1>1, <1>4, <1>8 DEF KeyInv, UnissuedKeys
<1>15. SuspensionScope'
  BY <1>1, <1>2, <1>8, AccountsAssumption
     DEF AccountsAssumption, KeyInv, SuspensionScope, Reason
<1>16. SuspendedUnlessRaced'
  BY <1>1, <1>2, <1>4, <1>8 DEF KeyInv, SuspendedUnlessRaced, Usable, u
<1> QED
  BY <1>10, <1>11, <1>12, <1>13, <1>14, <1>15, <1>16 DEF AccountsInv, KeyInv

\* What RevokeAll returns.
LEMMA RevokeAllReads ==
    ASSUME keys \in [KeyIds -> KeyRow], NEW K \in SUBSET KeyIds,
           NEW reason \in Reason \cup {"expired", Nil},
           keys' = RevokeAll(K, reason)
    PROVE  /\ keys' \in [KeyIds -> KeyRow]
           /\ \A k \in K : keys'[k].owner = keys[k].owner /\ keys'[k].ended = reason
           /\ \A k \in KeyIds \ K : keys'[k] = keys[k]
<1>1. \A k \in KeyIds :
         LET row == [keys[k] EXCEPT !.ended = reason]
         IN  row \in KeyRow /\ row.owner = keys[k].owner /\ row.ended = reason
  BY DEF KeyRow
<1>2. \A k \in KeyIds : keys[k] \in KeyRow
  OBVIOUS
<1>3. keys' = [k \in KeyIds |-> IF k \in K THEN [keys[k] EXCEPT !.ended = reason] ELSE keys[k]]
  BY DEF RevokeAll
<1>4. \A k \in K : keys'[k] \in KeyRow /\ keys'[k].owner = keys[k].owner /\ keys'[k].ended = reason
  BY <1>1, <1>3, Zenon
<1>5. \A k \in KeyIds \ K : keys'[k] = keys[k]
  BY <1>3
<1>6. keys' \in [KeyIds -> KeyRow]
  BY <1>2, <1>3, <1>4, <1>5, Zenon
<1> QED
  BY <1>4, <1>5, <1>6

\* Keys that end, in the tables alone: by a user, by the gateway or by time.
LEMMA KeysEnd ==
    ASSUME AccountsInv, NEW K \in SUBSET KeyIds, NEW reason,
           \/ reason \in Reason \ {"user_suspended"}
           \/ reason = "expired" /\ \A k \in K : keys[k].ended = Nil,
           \A k \in K : keys[k].owner # Nil,
           keys' = RevokeAll(K, reason),
           UNCHANGED <<orgs, users, audit, history>>
    PROVE  /\ keys' \in [KeyIds -> KeyRow]
           /\ KeysGrow
           /\ AuditNotAhead'
           /\ UnissuedKeys' /\ SuspensionScope' /\ SuspendedUnlessRaced'
<1>1. TypeOK /\ KeyInv
  BY DEF AccountsInv
<1>2. /\ keys' \in [KeyIds -> KeyRow]
      /\ \A k \in K : keys'[k].owner = keys[k].owner /\ keys'[k].ended = reason
      /\ \A k \in KeyIds \ K : keys'[k] = keys[k]
  <2>1. reason \in Reason \cup {"expired", Nil}
    OBVIOUS
  <2> QED
    BY <1>1, <2>1, RevokeAllReads DEF TypeOK
<1>3. reason # Nil /\ reason # "user_suspended" /\ Nil \notin Reason
  BY AccountsAssumption DEF AccountsAssumption, Reason
<1>4. KeysGrow
  BY <1>2, <1>3 DEF KeysGrow, history
<1>5. AuditNotAhead'
  BY <1>1, <1>4, HappenedStays DEF KeyInv, AuditNotAhead
<1>6. UnissuedKeys'
  BY <1>1, <1>2 DEF KeyInv, UnissuedKeys
<1>7. SuspensionScope'
  BY <1>1, <1>2, <1>3 DEF KeyInv, SuspensionScope, history
<1>8. SuspendedUnlessRaced'
  BY <1>1, <1>2, <1>3 DEF KeyInv, SuspendedUnlessRaced, Usable, history
<1> QED
  BY <1>2, <1>4, <1>5, <1>6, <1>7, <1>8

\* The revocation is in the table before the request goes on to its entry.
LEMMA RevokeKeyKeeps ==
    ASSUME AccountsInv, NEW r \in Requests, RevokeKey(r)
    PROVE  AccountsInv'
<1> DEFINE k == req[r].entry.target
<1>1. CASE Leave(r) /\ UNCHANGED <<rows, audit, history>>
  BY <1>1, LeaveKeeps
<1>2. CASE /\ Goto(r, "revoke", "audit")
           /\ keys[k].owner # Nil
           /\ keys' = RevokeAll({k}, "user_requested")
           /\ UNCHANGED <<orgs, users, audit, req, history>>
  <2> "audit" \in Steps /\ "audit" \notin ExchangeSteps
    BY DEF Steps, ExchangeSteps
  <2>1. TypeOK /\ KeyInv /\ pc[r] = "revoke"
    BY <1>2 DEF AccountsInv, Goto
  <2>2. /\ req[r].entry \in Entry /\ req[r].entry.action = "api_key.revoke"
        /\ k \in KeyIds
    BY <2>1 DEF KeyInv, KeyRouteHolds
  <2>3. "user_requested" \in Reason \ {"user_suspended"}
    BY DEF Reason
  <2> HIDE DEF k
  <2>4. /\ keys' \in [KeyIds -> KeyRow]
        /\ KeysGrow
        /\ AuditNotAhead'
        /\ UnissuedKeys' /\ SuspensionScope' /\ SuspendedUnlessRaced'
    BY <1>2, <2>2, <2>3, KeysEnd
  <2>5. keys'[k].ended \in Reason
    BY <1>2, <2>1, <2>2, <2>3 DEF TypeOK, KeyRow, RevokeAll
  <2>6. req[r] \in Request /\ req[r].org = Nil /\ Moves(r, "audit", req[r])
    BY <1>2, <2>1, NoOrg DEF Goto, Moves, TypeOK
  <2>7. pc'[r] = "audit" /\ req'[r] = req[r] /\ Others(r)
        /\ pc' \in [Requests -> Steps] /\ req' \in [Requests -> Request]
    BY <2>1, <2>6, MoveReads
  <2>8. TypeOK'
    BY <1>2, <2>1, <2>4, <2>7 DEF TypeOK, history
  <2>9. ExchangeInv'
    BY <1>2, <2>6, ExchangeKept DEF history
  <2>10. ASSUME NEW s \in Requests PROVE KeyRouteHolds(s)'
    <3>1. CASE s = r
      BY <2>2, <2>5, <2>7, <3>1 DEF KeyRouteHolds, Happened, k
    <3>2. CASE s # r
      <4>1. pc[s] = "create" => req[s].actor \notin suspended' \ raced'
        BY <1>2, <2>1 DEF KeyInv, KeyRouteHolds, history
      <4> QED
        BY <2>4, <2>7, <3>2, <4>1, RouteStays DEF Others
    <3> QED
      BY <3>1, <3>2
  <2> QED
    BY <2>4, <2>8, <2>9, <2>10 DEF AccountsInv, KeyInv
<1> QED
  BY <1>1, <1>2 DEF RevokeKey

\* The tables alone change: the requests hold what they held.
LEMMA KeysEndKeeps ==
    ASSUME AccountsInv, NEW k \in KeyIds, RpcRevoke(k) \/ Expire(k)
    PROVE  AccountsInv'
<1>1. UNCHANGED <<orgs, users, audit, pc, req, history>> /\ keys[k].owner # Nil
  BY DEF RpcRevoke, Expire
<1>2. TypeOK /\ KeyInv
  BY DEF AccountsInv
<1>3. /\ keys' \in [KeyIds -> KeyRow]
      /\ KeysGrow
      /\ AuditNotAhead'
      /\ UnissuedKeys' /\ SuspensionScope' /\ SuspendedUnlessRaced'
  <2>1. CASE RpcRevoke(k)
    <3>1. "rpc_revoke" \in Reason \ {"user_suspended"}
      BY DEF Reason
    <3> QED
      BY <1>1, <2>1, <3>1, KeysEnd DEF RpcRevoke
  <2>2. CASE Expire(k)
    <3>1. keys' = RevokeAll({k}, "expired")
      BY <1>2, <2>2 DEF Expire, RevokeAll, TypeOK
    <3>2. keys[k].ended = Nil
      BY <2>2 DEF Expire
    <3> QED
      BY <1>1, <3>1, <3>2, KeysEnd
  <2> QED
    BY <2>1, <2>2
<1>4. TypeOK'
  BY <1>1, <1>2, <1>3 DEF TypeOK, history
<1>5. ExchangeInv'
  BY <1>1, ExchangeFrame DEF history
<1>6. ASSUME NEW s \in Requests PROVE KeyRouteHolds(s)'
  <2>1. pc[s] = "create" => req[s].actor \notin suspended' \ raced'
    BY <1>1, <1>2 DEF KeyInv, KeyRouteHolds, history
  <2> QED
    BY <1>1, <1>3, <2>1, RouteStays
<1> QED
  BY <1>3, <1>4, <1>5, <1>6 DEF AccountsInv, KeyInv

\* What a suspension missed is marked as raced when it commits.
LEMMA RevokeSeenKeeps ==
    ASSUME AccountsInv, NEW r \in Requests, RevokeSeen(r)
    PROVE  AccountsInv'
<1> DEFINE u == req[r].entry.target
           K == req[r].seen
<1> "audit" \in Steps /\ "audit" \notin ExchangeSteps
  BY DEF Steps, ExchangeSteps
<1>1. TypeOK /\ KeyInv /\ pc[r] = "suspend"
  BY DEF AccountsInv, RevokeSeen, Goto
<1>2. UNCHANGED <<orgs, users, tokens, audit>> /\ keys' = RevokeAll(K, "user_suspended")
  BY DEF RevokeSeen
<1>3. /\ suspended' = suspended \cup {u}
      /\ raced' = raced \cup {v \in {u} : Missed(r, v)}
  BY DEF RevokeSeen, Suspend
<1>4. /\ req[r].entry \in Entry /\ req[r].entry.action = "user.suspend"
      /\ u \in UserIds /\ u # Nil
      /\ K \subseteq KeyIds /\ \A k \in K : keys[k].owner = u
  BY <1>1, AccountsAssumption DEF AccountsAssumption, KeyInv, KeyRouteHolds, TypeOK, Request
<1>5. req[r] \in Request /\ req[r].org = Nil /\ Moves(r, "audit", req[r])
  BY <1>1, NoOrg DEF RevokeSeen, Goto, Moves, TypeOK
<1>6. pc'[r] = "audit" /\ req'[r] = req[r] /\ Others(r)
      /\ pc' \in [Requests -> Steps] /\ req' \in [Requests -> Request]
  BY <1>1, <1>5, MoveReads
<1>7. "user_suspended" \in Reason /\ Nil \notin Reason
  BY AccountsAssumption DEF AccountsAssumption, Reason
<1>8. \A s \in Requests \ {r} : pc[s] = "create" /\ req[s].actor = u => Missed(r, u)
  BY DEF Missed
<1>9. \A k \in KeyIds \ K : Usable(k) /\ keys[k].owner = u => Missed(r, u)
  BY DEF Missed, KeysOf
<1> HIDE DEF u, K
<1>10. /\ keys' \in [KeyIds -> KeyRow]
       /\ \A k \in K : keys'[k].owner = keys[k].owner /\ keys'[k].ended = "user_suspended"
       /\ \A k \in KeyIds \ K : keys'[k] = keys[k]
  BY <1>1, <1>2, <1>4, <1>7, RevokeAllReads DEF TypeOK
<1>11. KeysGrow
  BY <1>3, <1>7, <1>10 DEF KeysGrow
<1>12. TypeOK'
  BY <1>1, <1>2, <1>3, <1>4, <1>6, <1>10 DEF TypeOK
<1>13. ExchangeInv'
  BY <1>2, <1>5, ExchangeKept
<1>14. ASSUME NEW s \in Requests PROVE KeyRouteHolds(s)'
  <2>1. CASE s = r
    BY <1>3, <1>4, <1>6, <2>1 DEF KeyRouteHolds, Happened, u
  <2>2. CASE s # r
    <3>1. pc[s] = "create" => req[s].actor \notin suspended \ raced
      BY <1>1 DEF KeyInv, KeyRouteHolds
    <3>2. pc[s] = "create" => req[s].actor \notin suspended' \ raced'
      BY <1>3, <1>8, <2>2, <3>1
    <3> QED
      BY <1>6, <1>11, <2>2, <3>2, RouteStays DEF Others
  <2> QED
    BY <2>1, <2>2
<1>15. AuditNotAhead'
  BY <1>1, <1>2, <1>11, HappenedStays DEF KeyInv, AuditNotAhead
<1>16. UnissuedKeys'
  BY <1>1, <1>4, <1>10 DEF KeyInv, UnissuedKeys
<1>17. SuspensionScope'
  BY <1>1, <1>3, <1>4, <1>10 DEF KeyInv, SuspensionScope
<1>18. SuspendedUnlessRaced'
  <2> SUFFICES ASSUME NEW k \in KeyIds, Usable(k)'
               PROVE  keys'[k].owner \notin suspended' \ raced'
    BY DEF SuspendedUnlessRaced
  <2>1. k \notin K
    BY <1>7, <1>10, AccountsAssumption DEF Usable
  <2>2. Usable(k) /\ keys'[k].owner = keys[k].owner
    BY <1>10, <2>1 DEF Usable
  <2>3. keys[k].owner \notin suspended \ raced
    BY <1>1, <2>2 DEF KeyInv, SuspendedUnlessRaced
  <2> QED
    BY <1>3, <1>9, <2>1, <2>2, <2>3
<1> QED
  BY <1>12, <1>13, <1>14, <1>15, <1>16, <1>17, <1>18 DEF AccountsInv, KeyInv

\* An entry tells of what was committed before.
LEMMA WriteAuditKeeps ==
    ASSUME AccountsInv, NEW r \in Requests, WriteAudit(r)
    PROVE  AccountsInv'
<1> "idle" \in Steps /\ "idle" \notin ExchangeSteps /\ "idle" \notin RouteSteps
  BY DEF Steps, ExchangeSteps, RouteSteps
<1>1. TypeOK /\ KeyInv /\ pc[r] = "audit" /\ UNCHANGED <<rows, history>>
  BY DEF AccountsInv, WriteAudit
<1>2. CASE UNCHANGED audit
  BY <1>1, <1>2, LeaveKeeps DEF WriteAudit
<1>3. CASE audit' = audit \cup {req[r].entry}
  <2>1. PICK e : e = req[r].entry
    OBVIOUS
  <2>2. e \in Entry /\ Happened(e)
    BY <1>1, <2>1 DEF KeyInv, KeyRouteHolds
  <2>3. Moves(r, "idle", NoRequest) /\ NoRequest \in Request /\ NoRequest.org = Nil
    BY <1>1, LeaveReads DEF WriteAudit, NoRequest
  <2>4. pc'[r] = "idle" /\ Others(r)
        /\ pc' \in [Requests -> Steps] /\ req' \in [Requests -> Request]
    BY <1>1, <2>3, MoveReads
  <2>5. TypeOK'
    BY <1>1, <1>3, <2>1, <2>2, <2>4 DEF TypeOK, rows, history
  <2>6. ExchangeInv'
    BY <1>1, <2>3, ExchangeKept DEF rows, history
  <2>7. KeysGrow
    BY <1>1 DEF KeysGrow, rows, history
  <2>8. ASSUME NEW s \in Requests PROVE KeyRouteHolds(s)'
    <3>1. CASE s = r
      BY <2>4, <3>1 DEF KeyRouteHolds
    <3>2. CASE s # r
      <4>1. pc[s] = "create" => req[s].actor \notin suspended' \ raced'
        BY <1>1 DEF KeyInv, KeyRouteHolds, history
      <4> QED
        BY <2>4, <2>7, <3>2, <4>1, RouteStays DEF Others
    <3> QED
      BY <3>1, <3>2
  <2>9. AuditNotAhead'
    <3>1. \A d \in audit : Happened(d)'
      BY <1>1, <2>7, HappenedStays DEF KeyInv, AuditNotAhead
    <3>2. Happened(e)'
      BY <2>2, <2>7, HappenedStays
    <3> QED
      BY <1>3, <2>1, <3>1, <3>2 DEF AuditNotAhead
  <2>10. UnissuedKeys' /\ SuspensionScope' /\ SuspendedUnlessRaced'
    BY <1>1 DEF KeyInv, UnissuedKeys, SuspensionScope, SuspendedUnlessRaced, Usable, rows, history
  <2> QED
    BY <2>5, <2>6, <2>8, <2>9, <2>10 DEF AccountsInv, KeyInv
<1> QED
  BY <1>2, <1>3 DEF WriteAudit

-----------------------------------------------------------------------------
\* Every step of the specification keeps the inductive invariant.
LEMMA NextKeeps == AccountsInv /\ [Next]_vars => AccountsInv'
<1> SUFFICES ASSUME AccountsInv, [Next]_vars PROVE AccountsInv'
  OBVIOUS
<1>1. ASSUME NEW r \in Requests, Arrive(r) PROVE AccountsInv'
  <2>1. CASE \E e \in Visitors : SignIn(r, e)
    BY <2>1, SignInKeeps
  <2>2. ASSUME NEW k \in KeyIds, AskCreate(r, k) PROVE AccountsInv'
    <3>1. [action |-> "api_key.create", target |-> Nil] \in Entry
      BY DEF Entry
    <3> QED
      BY <2>2, <3>1, AskKeeps DEF AskCreate
  <2>3. ASSUME NEW k \in KeyIds, NEW j \in KeyIds, AskRevoke(r, k, j) PROVE AccountsInv'
    <3> DEFINE e == [action |-> "api_key.revoke", target |-> j]
    <3>1. e \in Entry /\ e.action = "api_key.revoke" /\ e.target \in KeyIds
      BY DEF Entry
    <3>2. Ask(r, k, "revoke", "keys:write", e)
      BY <2>3 DEF AskRevoke
    <3> HIDE DEF e
    <3> QED
      BY <3>1, <3>2, AskKeeps
  <2>4. ASSUME NEW k \in KeyIds, NEW u \in UserIds, AskSuspend(r, k, u) PROVE AccountsInv'
    <3> DEFINE e == [action |-> "user.suspend", target |-> u]
    <3>1. e \in Entry /\ e.action = "user.suspend" /\ e.target \in UserIds
      BY DEF Entry
    <3>2. Ask(r, k, "list", "admin:write", e)
      BY <2>4 DEF AskSuspend
    <3> HIDE DEF e
    <3> QED
      BY <3>1, <3>2, AskKeeps
  <2> QED
    BY <1>1, <2>1, <2>2, <2>3, <2>4 DEF Arrive
<1>2. ASSUME NEW r \in Requests, Handle(r) PROVE AccountsInv'
  BY <1>2, FindUserKeeps, AddOrgKeeps, AddUserKeeps, CommitLoginKeeps, CreateKeyKeeps,
     RevokeKeyKeeps, ListKeysKeeps, RevokeSeenKeeps, WriteAuditKeeps DEF Handle
<1>3. ASSUME NEW r \in Requests, Abort(r) PROVE AccountsInv'
  BY <1>3, LeaveKeeps DEF Abort
<1>4. ASSUME NEW k \in KeyIds, RpcRevoke(k) \/ Expire(k) PROVE AccountsInv'
  BY <1>4, KeysEndKeeps
<1>5. CASE UNCHANGED vars
  <2>1. UNCHANGED <<orgs, users, keys, audit, pc, req, tokens, suspended, raced>>
    BY <1>5 DEF vars
  <2>2. ExchangeInv' /\ KeyInv'
    BY <2>1, ExchangeFrame, KeyFrame
  <2>3. TypeOK'
    BY <2>1 DEF AccountsInv, TypeOK
  <2> QED
    BY <2>2, <2>3 DEF AccountsInv
<1>6. \A k \in Expiring : k \in KeyIds
  BY AccountsAssumption DEF AccountsAssumption
<1> QED
  BY <1>1, <1>2, <1>3, <1>4, <1>5, <1>6 DEF Next

\* The rows of users, organizations and keys, the audit log and what every request
\* holds of them agree after any number of steps, however requests interleave
\* and wherever they are cut off.
THEOREM Agreement == Spec => []AccountsInv
<1>1. Init => AccountsInv
  BY InitInv
<1>2. AccountsInv /\ [Next]_vars => AccountsInv'
  BY NextKeeps
<1> QED
  BY <1>1, <1>2, PTL DEF Spec

\* Two tokens for one address name one user: each names a row with that address,
\* and an address has one row.
LEMMA AgreementGivesLogins == AccountsInv => LoginsAgree
<1> SUFFICES ASSUME AccountsInv PROVE LoginsAgree
  OBVIOUS
<1>1. Tenancy /\ TokensNameUsers /\ TypeOK
  BY DEF AccountsInv, ExchangeInv
<1>2. ASSUME NEW s \in tokens, NEW t \in tokens, s.email = t.email PROVE s.user = t.user
  <2>1. s.user \in UserIds /\ t.user \in UserIds
    BY <1>1 DEF TypeOK
  <2> QED
    BY <1>1, <1>2, <2>1 DEF Tenancy, TokensNameUsers
<1> QED
  BY <1>1, <1>2 DEF LoginsAgree, TokensAgree, TokensNameUsers

\* However logins race, break off or repeat, an address has one user, and every
\* token issued for it names that user (OAuthService.exchange).
THEOREM LoginsAlwaysAgree == Spec => []LoginsAgree
<1>1. AccountsInv => LoginsAgree
  BY AgreementGivesLogins
<1> QED
  BY <1>1, Agreement, PTL

\* The audit log never tells of what did not happen: audit_log writes its entry
\* when the handler has committed, in a session of its own.
THEOREM AuditNeverAhead == Spec => []AuditNotAhead
<1>1. AccountsInv => AuditNotAhead
  BY DEF AccountsInv, KeyInv
<1> QED
  BY <1>1, Agreement, PTL

\* A suspension revokes keys of suspended users only, and all of them but those
\* created while it ran (suspend_user).
THEOREM SuspensionAlwaysHolds == Spec => []SuspensionHolds
<1>1. AccountsInv => SuspensionHolds
  BY DEF AccountsInv, KeyInv, SuspensionHolds
<1> QED
  BY <1>1, Agreement, PTL
=============================================================================
