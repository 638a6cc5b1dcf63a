------------------------------ MODULE Accounts ------------------------------
(* Organizations, users and API keys of the backend: the OAuth exchange that  *)
(* provisions a first-time user, the routes that create and revoke keys and   *)
(* suspend users, the RPC the gateway uses, and the audit log.  A request is  *)
(* a sequence of database steps; a unit of work is visible to others when it  *)
(* commits (READ COMMITTED), and its rows are its own until then.             *)
EXTENDS Naturals, FiniteSets

CONSTANTS
    Requests,     \* requests a process handles at the same time
    Emails,       \* addresses the identity providers answer with
    Visitors,     \* those somebody signs in with during a run
    UserIds, OrgIds, KeyIds,   \* primary keys (uuid4), as many as a run may use
    SeedUsers,    \* rows of users before the run, a function from UserIds
    Targets,      \* the keys and users that requests of a run revoke and suspend
    Expiring,     \* the keys with an expires_at
    SeedKeys,     \* owners of the keys before the run, a function from KeyIds
    Nil           \* no value (NULL, None)

Role == {"owner", "admin", "member", "billing"}

UserRow == [org: OrgIds, email: Emails, role: Role]

Reason == {"user_requested", "user_suspended", "rpc_revoke"}

\* A row of api_keys; a key that was not issued has no owner.  A revocation
\* hides that a key is also past its expires_at.
KeyRow == [owner: UserIds \cup {Nil}, ended: Reason \cup {"expired", Nil}]

AccountsAssumption ==
    /\ Nil \notin UserIds \cup OrgIds \cup KeyIds \cup Emails \cup UserRow \cup Reason \cup {"expired"}
    /\ Visitors \subseteq Emails
    /\ Targets \subseteq KeyIds \cup UserIds
    /\ Expiring \subseteq KeyIds
    /\ SeedUsers \in [UserIds -> UserRow \cup {Nil}]
    /\ \A u, v \in UserIds :
          SeedUsers[u] # Nil /\ SeedUsers[v] # Nil /\ SeedUsers[u].email = SeedUsers[v].email
             => u = v
    /\ SeedKeys \in [KeyIds -> UserIds \cup {Nil}]
    /\ \A k \in KeyIds : SeedKeys[k] # Nil => SeedUsers[SeedKeys[k]] # Nil

ASSUME AccountsAssumption

VARIABLES
    orgs,       \* ids of the rows of organizations
    users,      \* rows of users
    keys,       \* rows of api_keys
    audit,      \* entries of audit_logs
    pc, req,    \* where each request is, and what it holds
    tokens,     \* history: whom the JWTs issued so far name, and for which address
    suspended,  \* history: users a suspension committed for
    raced       \* history: suspended users with a key the suspension could not see

rows == <<orgs, users, keys>>

history == <<tokens, suspended, raced>>

vars == <<orgs, users, keys, audit, pc, req, tokens, suspended, raced>>

SeedOrgs == {SeedUsers[u].org : u \in {v \in UserIds : SeedUsers[v] # Nil}}

Steps == {"idle", "find", "org", "user", "login",
          "create", "revoke", "list", "suspend", "audit"}

\* What a route did, and to which row.  Nil: create_key names no target_id_arg,
\* its entry gets a uuid of its own.
Entry == [action: {"api_key.create", "api_key.revoke", "user.suspend"},
          target: KeyIds \cup UserIds \cup {Nil}]

\* email, org, user: of an exchange.  actor, entry, seen: of a key route.
Request == [email: Emails \cup {Nil}, org: OrgIds \cup {Nil}, user: UserIds \cup {Nil},
            actor: UserIds \cup {Nil}, entry: Entry \cup {Nil},
            seen: SUBSET KeyIds]

NoRequest == [email |-> Nil, org |-> Nil, user |-> Nil,
              actor |-> Nil, entry |-> Nil, seen |-> {}]

TypeOK ==
    /\ orgs \subseteq OrgIds
    /\ users \in [UserIds -> UserRow \cup {Nil}]
    /\ keys \in [KeyIds -> KeyRow]
    /\ audit \subseteq Entry
    /\ pc \in [Requests -> Steps]
    /\ req \in [Requests -> Request]
    /\ tokens \subseteq [email: Emails, user: UserIds]
    /\ suspended \subseteq UserIds
    /\ raced \subseteq UserIds

Init ==
    /\ orgs = SeedOrgs
    /\ users = SeedUsers
    /\ keys = [k \in KeyIds |-> [owner |-> SeedKeys[k], ended |-> Nil]]
    /\ audit = {}
    /\ pc = [r \in Requests |-> "idle"]
    /\ req = [r \in Requests |-> NoRequest]
    /\ tokens = {}
    /\ suspended = {}
    /\ raced = {}

Goto(r, from, to) ==
    /\ pc[r] = from
    /\ pc' = [pc EXCEPT ![r] = to]

\* The handler returns or raises; __aexit__ rolls back what was not committed.
Leave(r) ==
    /\ pc' = [pc EXCEPT ![r] = "idle"]
    /\ req' = [req EXCEPT ![r] = NoRequest]

-----------------------------------------------------------------------------
(* POST /oauth/exchange.                                                    *)

\* Rows that a unit of work inserted and did not commit.
PendingOrgs == {req[r].org : r \in Requests} \ {Nil}

\* Slip: the address is taken with the organization, by a session of its own.
ProvisioningSoon(r) == req[r].org # Nil

Provisioning(r) == pc[r] = "login" /\ req[r].org # Nil

PendingUsers == {req[r].user : r \in {s \in Requests : Provisioning(s)}}

\* _resolve_email: Google or GitHub answers with an address, the same one from
\* either.  (A token it does not accept or that has no address ends in 401.)
SignIn(r, e) ==
    /\ Goto(r, "idle", "find")
    /\ req' = [req EXCEPT ![r].email = e]
    /\ UNCHANGED <<rows, audit, history>>

\* find_by_email: the committed users with an address.
Holders(e) == {u \in UserIds : users[u] # Nil /\ users[u].email = e}

\* The unit of work begins and asks for the user.
FindUser(r) ==
    /\ \/ \E u \in Holders(req[r].email) :
             /\ Goto(r, "find", "login")
             /\ req' = [req EXCEPT ![r].user = u]
       \/ /\ Holders(req[r].email) = {}
          /\ Goto(r, "find", "org")
          /\ UNCHANGED req
    /\ UNCHANGED <<rows, audit, history>>

\* organizations.add: a new id, a random slug; flushed, not committed.
AddOrg(r) ==
    /\ Goto(r, "org", "user")
    /\ \E o \in OrgIds \ (orgs \cup PendingOrgs) : req' = [req EXCEPT ![r].org = o]
    /\ UNCHANGED <<rows, audit, history>>

\* Slip: users.email is not unique.
AddUserTwice(r) ==
    /\ Goto(r, "user", "login")
    /\ \E u \in {v \in UserIds : users[v] = Nil} \ PendingUsers :
          req' = [req EXCEPT ![r].user = u]
    /\ UNCHANGED <<rows, audit, history>>

\* users.add.  The unique index makes the insert wait for a transaction that
\* inserted the same address, and fail (IntegrityError, a 500) if that committed.
AddUser(r) ==
    /\ pc[r] = "user"
    /\ \A s \in Requests : Provisioning(s) => req[s].email # req[r].email
    /\ \/ /\ Holders(req[r].email) # {}
          /\ Leave(r)
       \/ /\ Holders(req[r].email) = {}
          /\ Goto(r, "user", "login")
          /\ \E u \in {v \in UserIds : users[v] = Nil} \ PendingUsers :
                req' = [req EXCEPT ![r].user = u]
    /\ UNCHANGED <<rows, audit, history>>

\* encode_jwt, for the user the exchange found or provisioned.
Token(r) == [email |-> req[r].email, user |-> req[r].user]

\* The new rows, if any, are committed, and the answer carries the token.
CommitLogin(r) ==
    /\ pc[r] = "login"
    /\ IF req[r].org = Nil
       THEN UNCHANGED <<orgs, users>>
       ELSE /\ orgs' = orgs \cup {req[r].org}
            /\ users' = [users EXCEPT ![req[r].user] =
                   [org |-> req[r].org, email |-> req[r].email, role |-> "owner"]]
    /\ tokens' = tokens \cup {Token(r)}
    /\ Leave(r)
    /\ UNCHANGED <<keys, audit, suspended, raced>>

-----------------------------------------------------------------------------
(* Keys.                                                                    *)

\* assert_usable, of a key there is.
Usable(k) == keys[k].owner # Nil /\ keys[k].ended = Nil

\* _ROLE_PERMISSIONS.
Permissions(role) ==
    CASE role = "owner"   -> {"keys:write", "keys:read", "billing:write", "billing:read",
                              "admin:write"}
      [] role = "admin"   -> {"keys:write", "keys:read", "billing:read", "admin:write"}
      [] role = "billing" -> {"billing:write", "billing:read"}
      [] role = "member"  -> {"keys:read"}

\* get_current_auth: the caller's key is known and usable, its owner exists.
Authenticated(k) == Usable(k) /\ users[keys[k].owner] # Nil

\* require_permission: the owner's role grants what the route asks for.
\* (Else 401 or 403, and nothing changes.)
Authorised(k, permission) ==
    Authenticated(k) /\ permission \in Permissions(users[keys[k].owner].role)

\* Slip: the audit decorator writes its entry before it calls the handler.
AskAudited(r, k, step, permission, e) ==
    /\ Goto(r, "idle", step)
    /\ Authorised(k, permission)
    /\ req' = [req EXCEPT ![r].actor = keys[k].owner, ![r].entry = e]
    /\ audit' = audit \cup {e}
    /\ UNCHANGED <<rows, history>>

\* A request with key k passes and its handler starts; e is its entry to be.
Ask(r, k, step, permission, e) ==
    /\ Goto(r, "idle", step)
    /\ Authorised(k, permission)
    /\ req' = [req EXCEPT ![r].actor = keys[k].owner, ![r].entry = e]
    /\ UNCHANGED <<rows, audit, history>>

\* POST /keys, DELETE /keys/{key_id} and POST /users/{user_id}/suspend.
AskCreate(r, k) ==
    Ask(r, k, "create", "keys:write", [action |-> "api_key.create", target |-> Nil])

AskRevoke(r, k, j) ==
    Ask(r, k, "revoke", "keys:write", [action |-> "api_key.revoke", target |-> j])

AskSuspend(r, k, u) ==
    Ask(r, k, "list", "admin:write", [action |-> "user.suspend", target |-> u])

\* What APIKeyRepository adds and updates.  The update asks for no revoked_at: a
\* second revocation overwrites the first.
NewKey(k, u) == [keys EXCEPT ![k].owner = u]

RevokeAll(K, reason) ==
    [k \in KeyIds |-> IF k \in K THEN [keys[k] EXCEPT !.ended = reason] ELSE keys[k]]

\* AuthService.create_key: insert and commit.
CreateKey(r) ==
    /\ Goto(r, "create", "audit")
    /\ \E k \in {j \in KeyIds : keys[j].owner = Nil} :
          keys' = NewKey(k, req[r].actor)
    /\ UNCHANGED <<orgs, users, audit, req, history>>

\* AuthService.revoke_key: get, update, commit; 404 for a key there is not.
RevokeKey(r) ==
    \/ /\ Goto(r, "revoke", "audit")
       /\ keys[req[r].entry.target].owner # Nil
       /\ keys' = RevokeAll({req[r].entry.target}, "user_requested")
       /\ UNCHANGED <<orgs, users, audit, req, history>>
    \/ /\ pc[r] = "revoke"
       /\ keys[req[r].entry.target].owner = Nil
       /\ Leave(r)
       /\ UNCHANGED <<rows, audit, history>>

KeysOf(u) == {k \in KeyIds : keys[k].owner = u}

\* suspend_user reads the user and the keys of the organization; 404 for a user
\* who is not there or of another organization.
ListKeys(r) ==
    LET u == req[r].entry.target
        mine == users[u] # Nil /\ users[u].org = users[req[r].actor].org
    IN \/ /\ Goto(r, "list", "suspend")
          /\ mine
          /\ req' = [req EXCEPT ![r].seen = {k \in KeysOf(u) : keys[k].ended \notin Reason}]
          /\ UNCHANGED <<rows, audit, history>>
       \/ /\ pc[r] = "list"
          /\ ~mine
          /\ Leave(r)
          /\ UNCHANGED <<rows, audit, history>>

\* Keys of u that a suspension with this list misses, now or in a moment.
Missed(r, u) ==
    \/ \E k \in KeysOf(u) \ req[r].seen : Usable(k)
    \/ \E s \in Requests : pc[s] = "create" /\ req[s].actor = u

\* The history of a suspension that commits.
Suspend(r) ==
    /\ suspended' = suspended \cup {req[r].entry.target}
    /\ raced' = raced \cup {u \in {req[r].entry.target} : Missed(r, u)}

\* Slip: the loop ends after its first revocation.
RevokeFirst(r) ==
    /\ Goto(r, "suspend", "audit")
    /\ \/ \E j \in req[r].seen : keys' = RevokeAll({j}, "user_suspended")
       \/ req[r].seen = {} /\ UNCHANGED keys
    /\ Suspend(r)
    /\ UNCHANGED <<orgs, users, audit, req, tokens>>

\* It revokes the keys it saw and commits.
RevokeSeen(r) ==
    /\ Goto(r, "suspend", "audit")
    /\ keys' = RevokeAll(req[r].seen, "user_suspended")
    /\ Suspend(r)
    /\ UNCHANGED <<orgs, users, audit, req, tokens>>

\* Slip: the entry is taken from the request when the request is over.
WriteAuditLate(r) ==
    /\ pc[r] = "audit"
    /\ Leave(r)
    /\ \/ audit' = audit \cup {req'[r].entry}
       \/ UNCHANGED audit
    /\ UNCHANGED <<rows, history>>

\* audit_log, after the handler: an entry in a session of its own, or a failure
\* that is logged and swallowed.
WriteAudit(r) ==
    /\ pc[r] = "audit"
    /\ Leave(r)
    /\ \/ audit' = audit \cup {req[r].entry}
       \/ UNCHANGED audit
    /\ UNCHANGED <<rows, history>>

\* AuthServicer.RevokeKey: an update and a commit, no audit, no 404.
RpcRevoke(k) ==
    /\ keys[k].owner # Nil
    /\ keys' = RevokeAll({k}, "rpc_revoke")
    /\ UNCHANGED <<orgs, users, audit, pc, req, history>>

\* expires_at passes.
Expire(k) ==
    /\ keys[k].owner # Nil
    /\ keys[k].ended = Nil
    /\ keys' = [keys EXCEPT ![k].ended = "expired"]
    /\ UNCHANGED <<orgs, users, audit, pc, req, history>>

\* The process dies or the connection drops: what was not committed is gone, an
\* audit entry that was still to come among it.
Abort(r) ==
    /\ pc[r] # "idle"
    /\ Leave(r)
    /\ UNCHANGED <<rows, audit, history>>

-----------------------------------------------------------------------------
\* What a handler does next.
Handle(r) ==
    \/ FindUser(r)
    \/ AddOrg(r)
    \/ AddUser(r)
    \/ CommitLogin(r)
    \/ CreateKey(r)
    \/ RevokeKey(r)
    \/ ListKeys(r)
    \/ RevokeSeen(r)
    \/ WriteAudit(r)

\* The bound on keys: a create starts only while an id is left for it.
IdLeft == Cardinality({s \in Requests : pc[s] = "create"})
             < Cardinality({k \in KeyIds : keys[k].owner = Nil})

Arrive(r) ==
    \/ \E e \in Visitors : SignIn(r, e)
    \/ \E k \in KeyIds :
          \/ IdLeft /\ AskCreate(r, k)
          \/ \E j \in KeyIds \cap Targets : AskRevoke(r, k, j)
          \/ \E u \in UserIds \cap Targets : AskSuspend(r, k, u)

Next ==
    \/ \E r \in Requests : Arrive(r) \/ Handle(r) \/ Abort(r)
    \/ \E k \in KeyIds \cap Targets : RpcRevoke(k)
    \/ \E k \in Expiring : Expire(k)

Spec == Init /\ [][Next]_vars

\* The event loop runs every handler on and the database answers; an insert that
\* waits for other transactions is woken whenever one of them ends.
FairSpec == Spec /\ \A r \in Requests : WF_vars(Handle(r)) /\ SF_vars(AddUser(r))

-----------------------------------------------------------------------------
\* However first logins race and wherever they break off, an address has one
\* user, a user has an organization, and an organization somebody signed up
\* with belongs to that one user, its owner.
Tenancy ==
    /\ \A u, v \in UserIds :
          users[u] # Nil /\ users[v] # Nil /\ users[u].email = users[v].email => u = v
    /\ \A u \in UserIds : users[u] # Nil => users[u].org \in orgs
    /\ \A o \in orgs \ SeedOrgs :
          \E u \in UserIds :
             /\ users[u] # Nil /\ users[u].org = o /\ users[u].role = "owner"
             /\ \A v \in UserIds : users[v] # Nil /\ users[v].org = o => v = u

\* The JWTs for an address name a user that exists, and always the same one.
TokensAgree ==
    /\ \A t \in tokens : users[t.user] # Nil /\ users[t.user].email = t.email
    /\ \A s, t \in tokens : s.email = t.email => s.user = t.user

\* Both, whatever order the steps of concurrent logins take.
LoginsAgree == Tenancy /\ TokensAgree

\* What an entry of the audit log tells of.
Happened(e) ==
    /\ e.action = "api_key.create" => \E k \in KeyIds : SeedKeys[k] = Nil /\ keys[k].owner # Nil
    /\ e.action = "api_key.revoke" => e.target \in KeyIds /\ keys[e.target].ended \in Reason
    /\ e.action = "user.suspend" => e.target \in suspended

\* The audit log never runs ahead of the tables: what it tells of was committed,
\* and has not been undone since.
AuditNotAhead == \A e \in audit : Happened(e)

\* A key revoked by a suspension is a key of a suspended user.
SuspensionScope ==
    \A k \in KeyIds : keys[k].ended = "user_suspended" => keys[k].owner \in suspended

\* A suspended user has no usable key, ever again, unless a key of theirs was
\* being created while the suspension ran.
SuspendedUnlessRaced ==
    \A k \in KeyIds : Usable(k) => keys[k].owner \notin suspended \ raced

\* Both: a suspension ends what it should and nothing else.
SuspensionHolds == SuspensionScope /\ SuspendedUnlessRaced

\* What a request that is part of an exchange holds.
ExchangeHolds(r) ==
    /\ pc[r] \in {"find", "org", "user", "login"} => req[r].email \in Emails
    /\ req[r].org # Nil => pc[r] \in {"user", "login"}
    /\ pc[r] = "user" => req[r].org # Nil
    /\ pc[r] = "login" => req[r].user \in UserIds
    /\ pc[r] = "login" /\ req[r].org = Nil =>
          users[req[r].user] # Nil /\ users[req[r].user].email = req[r].email

\* The rows that are not committed yet are nobody else's.
PendingFresh ==
    /\ \A r \in Requests : req[r].org # Nil => req[r].org \notin orgs
    /\ \A r, s \in Requests : req[r].org # Nil /\ req[r].org = req[s].org => r = s
    /\ \A r \in Requests : Provisioning(r) =>
          /\ users[req[r].user] = Nil
          /\ \A u \in UserIds : users[u] # Nil => users[u].email # req[r].email
    /\ \A r, s \in Requests :
          /\ Provisioning(r)
          /\ Provisioning(s)
          /\ req[r].user = req[s].user \/ req[r].email = req[s].email
          => r = s

TokensNameUsers ==
    \A t \in tokens : users[t.user] # Nil /\ users[t.user].email = t.email

ExchangeInv ==
    /\ \A r \in Requests : ExchangeHolds(r)
    /\ PendingFresh
    /\ Tenancy
    /\ TokensNameUsers

\* What a request that is part of a key route holds.
KeyRouteHolds(r) ==
    /\ pc[r] = "create" =>
          /\ req[r].actor \in UserIds
          /\ req[r].actor \notin suspended \ raced
          /\ req[r].entry = [action |-> "api_key.create", target |-> Nil]
    /\ pc[r] = "revoke" =>
          req[r].entry \in Entry /\ req[r].entry.action = "api_key.revoke" /\ req[r].entry.target \in KeyIds
    /\ pc[r] \in {"list", "suspend"} =>
          req[r].entry \in Entry /\ req[r].entry.action = "user.suspend" /\ req[r].entry.target \in UserIds
    /\ pc[r] = "suspend" => \A k \in req[r].seen : keys[k].owner = req[r].entry.target
    /\ pc[r] = "audit" => req[r].entry \in Entry /\ Happened(req[r].entry)

UnissuedKeys ==
    \A k \in KeyIds : keys[k].owner = Nil => keys[k].ended = Nil /\ SeedKeys[k] = Nil

KeyInv ==
    /\ \A r \in Requests : KeyRouteHolds(r)
    /\ UnissuedKeys
    /\ AuditNotAhead
    /\ SuspensionScope
    /\ SuspendedUnlessRaced

\* The inductive invariant, of two halves that share only the requests: the exchange
\* with the rows of users and organizations, and the key routes with the keys.
AccountsInv == TypeOK /\ ExchangeInv /\ KeyInv

\* No request waits for ever, for a row lock of another among them.
EveryRequestEnds == \A r \in Requests : pc[r] # "idle" ~> pc[r] = "idle"

=============================================================================
