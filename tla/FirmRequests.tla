----------------------------- MODULE FirmRequests -----------------------------
(***************************************************************************)
(* Requests of one firm's users through the API's pipeline, and the rows   *)
(* of Postgres that decide about them: the firm's status (modules/firms,   *)
(* http/middleware/tenant.ts) and the users' roles (modules/roles,         *)
(* http/middleware/role-resolver.ts, permission.ts).                       *)
(*                                                                         *)
(* Three caches in Redis stand before those rows, all of one shape: GET;   *)
(* on a miss SELECT and SET with an expiry.  A writer executes its UPDATE  *)
(* and then DELs the keys.  cache[k] holds the value, as the set of the    *)
(* facts it states, and the time it has left; Truth[k] is what a SELECT    *)
(* would return.                                                           *)
(*                                                                         *)
(* A handler q \in Req executes one statement of SQL or Redis per step;    *)
(* req[q].at names the next one.  A behaviour is serial (one request at a  *)
(* time, none fails), crashing (one at a time, and any may die half way)   *)
(* or racing (they interleave and die); mode says which, and what users    *)
(* ask for in it.                                                          *)
(***************************************************************************)
EXTENDS Naturals, FiniteSets

CONSTANTS
    User, Req, None,
    Mode,         \* the kinds of behaviour of this instance
    TenantTTL,    \* TENANT_CACHE_TTL
    FirmTTL,      \* expiry of firm:<id>
    PermsTTL,     \* expiry of perms:<user>
    Name,         \* names PATCH gives the firm
    Assignment    \* bound of the model: role assignments that live at a time

Role == {"firm_admin", "advisor"}
Permission == {"firm.read", "firm.update", "user.manage_roles"}
Grants(r) == IF r = "firm_admin" THEN Permission ELSE {"firm.read"}

Key == {"tenant", "firm"} \cup User
TTL(k) == CASE k = "tenant" -> TenantTTL [] k = "firm" -> FirmTTL [] OTHER -> PermsTTL

ASSUME TTLAssumption ==
    TenantTTL \in Nat \ {0} /\ FirmTTL \in Nat \ {0} /\ PermsTTL \in Nat \ {0}
ASSUME ModeAssumption ==
    Mode \subseteq [how : {"serial", "crashing", "racing"},
                    ops : SUBSET {"read", "update", "suspend", "activate", "assign"}]
ASSUME UserAssumption == /\ {"tenant", "firm", None} \cap User = {}
                         /\ None \notin {"tenant", "firm"}
                         /\ Name \cap {"provisioning", "active", "suspended"} = {}

VARIABLES
    firm,      \* the row of firms: status, and a name PATCH changes
    rows,      \* active rows of user_role_assignments, each a role and the
               \* assignment that inserted it
    cache,     \* the Redis keys tenant:<slug>, firm:<id> and perms:<user>
    since,     \* history: time since Truth[k] last changed, up to TTL(k);
               \* not kept when racing
    mode,      \* a member of Mode, from the start
    req

vars == <<firm, rows, cache, since, mode, req>>

Status == {"provisioning", "active", "suspended"}
Firm == [status : Status, name : Name]
Row == Role \X Assignment
Fact == Status \cup Name \cup Permission
Empty == [val |-> {}, left |-> 0]
Idle == [at |-> "idle", user |-> None, op |-> None, key |-> None,
         val |-> {}, seen |-> {}]
Op == {"read", "update", "suspend", "activate", "assign"}

PermissionsOf(u) == UNION {Grants(r[1]) : r \in rows[u]}
Truth == [k \in Key |-> CASE k = "tenant" -> {firm.status}
                          [] k = "firm" -> {firm.status, firm.name}
                          [] OTHER -> PermissionsOf(k)]

Serial == mode.how = "serial"
Racing == mode.how = "racing"

Live(k) == cache[k].left > 0

Label == {"idle", "get", "select", "set", "update", "suspend", "activate",
          "suspend.update", "activate.update", "firm.del", "assign",
          "assign.commit", "assign.del"}
Caching == {"get", "select", "set"}

Handler == [at : Label, user : User \cup {None}, op : Op \cup {None},
            key : Key \cup {None}, val : SUBSET Fact, seen : SUBSET Row]

\* A handler of GET /firms/current is at "get" to "set" of the key "firm"; one
\* of PUT /users/:id/roles keeps the user it is about in key.
TypeOK ==
    /\ firm \in Firm
    /\ rows \in [User -> SUBSET Row]
    /\ cache \in [Key -> [val : SUBSET Fact, left : Nat]]
    /\ since \in [Key -> Nat]
    /\ \A k \in Key : cache[k].left <= TTL(k) /\ since[k] <= TTL(k)
    /\ mode \in Mode
    /\ req \in [Req -> Handler]
    /\ \A q \in Req :
        /\ req[q].at # "idle" => req[q].user \in User /\ req[q].op \in Op
        /\ req[q].at \in Caching => req[q].key \in {"tenant", "firm", req[q].user}
        /\ req[q].at \in {"assign.commit", "assign.del"} => req[q].key \in User
        /\ req[q].at \notin Caching \cup {"assign.commit", "assign.del"} =>
               req[q].key = None

Init ==
    /\ firm \in [status : {"provisioning", "active"}, name : Name]
    /\ rows \in [User -> {{r} : r \in Row}]
    /\ \E u \in User : PermissionsOf(u) = Permission
    /\ cache = [k \in Key |-> Empty]
    /\ since = [k \in Key |-> TTL(k)]
    /\ mode \in Mode
    /\ req = [q \in Req |-> Idle]

At(q, label) == req[q].at = label
Goto(q, label) == req' = [req EXCEPT ![q].at = label]
Finish(q) == req' = [req EXCEPT ![q] = Idle]
Lookup(q, k) == req' = [req EXCEPT ![q].at = "get", ![q].key = k, ![q].val = {}]

-----------------------------------------------------------------------------
(* The pipeline: tenant, then roles and permission, then the handler.      *)

\* A user's request reaches tenantMiddleware.
Arrive(q, u, op) ==
    /\ At(q, "idle")
    /\ ~Racing => \A p \in Req : At(p, "idle")
    /\ op \in mode.ops
    /\ req' = [req EXCEPT ![q] =
                 [Idle EXCEPT !.at = "get", !.user = u, !.op = op, !.key = "tenant"]]
    /\ UNCHANGED <<firm, rows, cache, since, mode>>

\* tenantMiddleware: only an active firm is served.
TenantGate(q, tenant) ==
    \/ "active" \in tenant /\ Lookup(q, req[q].user)
    \/ "active" \notin tenant /\ Finish(q)

\* roleResolverMiddleware, then requirePermission of the route.
Needs(op) == CASE op = "read" -> "firm.read"
               [] op = "assign" -> "user.manage_roles"
               [] OTHER -> "firm.update"
PermissionGate(q, perms) ==
    LET op == req[q].op
    IN \/ Needs(op) \in perms /\ op = "read" /\ Lookup(q, "firm")
       \/ Needs(op) \in perms /\ op # "read"
          /\ req' = [req EXCEPT ![q].at = op, ![q].key = None, ![q].val = {}]
       \/ Needs(op) \notin perms /\ Finish(q)

\* What the handler does with the value of the key it looked up.
Use(q, v) ==
    \/ req[q].key = "tenant" /\ TenantGate(q, v)
    \/ req[q].key \in User /\ PermissionGate(q, v)
    \/ req[q].key = "firm" /\ Finish(q)

\* redis.get (tenant.ts:31, role-resolver.ts:21, firms/service.ts:54).
Hit_Slides(q) ==
    /\ At(q, "get") /\ Live(req[q].key)
    /\ cache' = [cache EXCEPT ![req[q].key].left = TTL(req[q].key)]
    /\ Use(q, cache[req[q].key].val)
    /\ UNCHANGED <<firm, rows, since, mode>>
Hit(q) ==
    /\ At(q, "get") /\ Live(req[q].key)
    /\ Use(q, cache[req[q].key].val)
    /\ UNCHANGED <<firm, rows, cache, since, mode>>

Miss(q) ==
    /\ At(q, "get") /\ ~Live(req[q].key)
    /\ Goto(q, "select")
    /\ UNCHANGED <<firm, rows, cache, since, mode>>

\* The SELECT (tenant.ts:39, role-resolver.ts:32, firms/service.ts:59).
Select(q) ==
    /\ At(q, "select")
    /\ req' = [req EXCEPT ![q].at = "set", ![q].val = Truth[req[q].key]]
    /\ UNCHANGED <<firm, rows, cache, since, mode>>

\* redis.set ... EX (tenant.ts:54, role-resolver.ts:47, firms/service.ts:65).
Fill(q) ==
    /\ At(q, "set")
    /\ cache' = [cache EXCEPT ![req[q].key] =
                   [val |-> req[q].val, left |-> TTL(req[q].key)]]
    /\ Use(q, req[q].val)
    /\ UNCHANGED <<firm, rows, since, mode>>

-----------------------------------------------------------------------------
(* The handlers of modules/firms and modules/roles.                        *)

\* A write to the rows behind the keys ks.
Changed(ks) ==
    since' = [k \in Key |-> IF ~Racing /\ k \in ks /\ Truth'[k] # Truth[k]
                            THEN 0 ELSE since[k]]

\* updateFirm (it reads the row before, for the slug, which never changes).
UpdateFirm(q) ==
    /\ At(q, "update")
    /\ \E n \in Name : firm' = [firm EXCEPT !.name = n]
    /\ UNCHANGED <<rows, cache, mode>>
    /\ Changed({"firm"})
    /\ Goto(q, "firm.del")

\* suspendFirm and activateFirm read the row and test its status ...
SuspendFind(q) ==
    /\ At(q, "suspend")
    /\ \/ firm.status = "active" /\ Goto(q, "suspend.update")
       \/ firm.status # "active" /\ Finish(q)
    /\ UNCHANGED <<firm, rows, cache, since, mode>>

ActivateFind(q) ==
    /\ At(q, "activate")
    /\ \/ firm.status # "active" /\ Goto(q, "activate.update")
       \/ firm.status = "active" /\ Finish(q)
    /\ UNCHANGED <<firm, rows, cache, since, mode>>

\* ... and update it by id.
UpdateStatus(q) ==
    /\ req[q].at \in {"suspend.update", "activate.update"}
    /\ firm' = [firm EXCEPT !.status =
                  IF At(q, "suspend.update") THEN "suspended" ELSE "active"]
    /\ UNCHANGED <<rows, cache, mode>>
    /\ Changed({"tenant", "firm"})
    /\ Goto(q, "firm.del")

InvalidateCache_FirmOnly(q) ==
    /\ At(q, "firm.del")
    /\ cache' = [cache EXCEPT !["firm"] = Empty]
    /\ Finish(q)
    /\ UNCHANGED <<firm, rows, since, mode>>
InvalidateCache(q) ==
    /\ At(q, "firm.del")
    /\ cache' = [cache EXCEPT !["firm"] = Empty, !["tenant"] = Empty]
    /\ Finish(q)
    /\ UNCHANGED <<firm, rows, since, mode>>

\* assignRolesToUser reads roles and previous assignments for the audit;
\* then assignRoles, in one transaction at READ COMMITTED: the UPDATE revokes the
\* rows it sees; what another transaction inserts after that stays.
AssignRevoke(q, u) ==
    /\ At(q, "assign")
    /\ req' = [req EXCEPT ![q].at = "assign.commit", ![q].key = u, ![q].seen = rows[u]]
    /\ UNCHANGED <<firm, rows, cache, since, mode>>

\* The identity of the inserted rows: no live row has it, no other handler saw it.
Unused(q, n) ==
    /\ \A u \in User : rows[u] \cap (Role \X {n}) = {}
    /\ \A p \in Req \ {q} :
        At(p, "assign.commit") => req[p].seen \cap (Role \X {n}) = {}

AssignCommit_Keeps(q, R, n) ==
    /\ At(q, "assign.commit")
    /\ Unused(q, n)
    /\ rows' = [rows EXCEPT ![req[q].key] = @ \cup (R \X {n})]
    /\ UNCHANGED <<firm, cache, mode>>
    /\ Changed({req[q].key})
    /\ req' = [req EXCEPT ![q].at = "assign.del", ![q].seen = {}]
AssignCommit(q, R, n) ==
    /\ At(q, "assign.commit")
    /\ Unused(q, n)
    /\ rows' = [rows EXCEPT ![req[q].key] = (@ \ req[q].seen) \cup (R \X {n})]
    /\ UNCHANGED <<firm, cache, mode>>
    /\ Changed({req[q].key})
    /\ req' = [req EXCEPT ![q].at = "assign.del", ![q].seen = {}]

AssignInvalidate(q) ==
    /\ At(q, "assign.del")
    /\ cache' = [cache EXCEPT ![req[q].key] = Empty]
    /\ Finish(q)
    /\ UNCHANGED <<firm, rows, since, mode>>

-----------------------------------------------------------------------------
\* The process dies, or Postgres or Redis answers with an error.
Fail(q) ==
    /\ ~Serial
    /\ ~At(q, "idle")
    /\ Finish(q)
    /\ UNCHANGED <<firm, rows, cache, since, mode>>

Tick ==
    /\ cache' = [k \in Key |-> IF cache[k].left > 1
                               THEN [cache[k] EXCEPT !.left = @ - 1] ELSE Empty]
    /\ since' = [k \in Key |-> IF since[k] < TTL(k) THEN since[k] + 1 ELSE since[k]]
    /\ UNCHANGED <<firm, rows, mode, req>>

Resume(q) ==
    \/ Hit(q) \/ Miss(q) \/ Select(q) \/ Fill(q)
    \/ UpdateFirm(q) \/ SuspendFind(q) \/ ActivateFind(q) \/ UpdateStatus(q)
    \/ InvalidateCache(q)
    \/ \E u \in User : AssignRevoke(q, u)
    \/ \E R \in SUBSET Role \ {{}}, n \in Assignment : AssignCommit(q, R, n)
    \/ AssignInvalidate(q)

Next ==
    \/ \E q \in Req :
        \/ \E u \in User, op \in Op : Arrive(q, u, op)
        \/ Resume(q)
        \/ Fail(q)
    \/ Tick

Spec == Init /\ [][Next]_vars

\* Node runs every handler to its end unless the process dies; time passes.
FairSpec == Spec /\ WF_vars(Tick) /\ \A q \in Req : WF_vars(Resume(q))

\* ... and an administrator of the firm tries again and again to activate it.
TrySpec ==
    /\ FairSpec
    /\ SF_vars(\E q \in Req, u \in User :
            PermissionsOf(u) = Permission /\ Arrive(q, u, "activate"))

-----------------------------------------------------------------------------
(* Properties *)

\* Every live key says what the rows say.
CachesAgree == \A k \in Key : Live(k) => cache[k].val = Truth[k]

\* One request at a time and none failing, no request ever reads a stale key:
\* every write DELs each key that depends on it, before the next request.
InvalidationWorks ==
    Serial /\ (\A q \in Req : At(q, "idle")) => CachesAgree

\* However requests interleave and die, the caches catch up once the rows stop
\* changing: a stale key is not kept alive by the requests that read it.
CachesConverge == <>[][UNCHANGED <<firm, rows>>]_vars => <>[]CachesAgree

\* A suspended firm is refused, at the latest when the cache entry expires
\* that a writer who died before the DEL left behind.
SuspensionTakesHold ==
    [][\A q \in Req :
        ~Racing /\ req[q].key = "tenant" /\ req'[q].key \in User
            => firm.status = "active" \/ since["tenant"] < TenantTTL]_vars

\* A user who lost a permission gets no request through that needs it, at the
\* latest PermsTTL after the roles changed, whoever died before the DEL.
Authorised(q) == /\ req[q].at \in Caching /\ req[q].key \in User
                 /\ req'[q].at # "idle" /\ req'[q].key # req[q].key
LostPermissionLosesPower ==
    [][\A q \in Req :
        ~Racing /\ Authorised(q)
            => \/ Needs(req[q].op) \in PermissionsOf(req[q].user)
               \/ since[req[q].user] < PermsTTL]_vars

\* PUT /users/:id/roles replaces the roles: those a user has were assigned by
\* one request.
RolesReplaced ==
    ~Racing =>
        \A u \in User : \A r1, r2 \in rows[u] : r1[2] = r2[2]

\* An administrator who keeps trying activates a suspended firm
\* (epic-01.md:38): violated, tenantMiddleware refuses the request.
CanBeActivated == firm.status = "suspended" ~> firm.status = "active"

\* What the safety properties rest on, when requests do not race: one handler
\* at a time, what it fills a key with is the truth, and a stale key is one
\* whose writer died, no older than that write -- or, if none dies, one whose
\* writer is about to DEL it.
OneAtATime == \A p, q \in Req : ~At(p, "idle") /\ ~At(q, "idle") => p = q
FillsTruth == \A q \in Req : At(q, "set") => req[q].val = Truth[req[q].key]
Stale(k) == Live(k) /\ cache[k].val # Truth[k]
StaleExpires == \A k \in Key : Stale(k) => cache[k].left + since[k] <= TTL(k)
Deletes(q, k) == \/ At(q, "firm.del") /\ k \in {"tenant", "firm"}
                 \/ At(q, "assign.del") /\ req[q].key = k
StaleIsDeleted == \A k \in Key : Stale(k) => \E q \in Req : Deletes(q, k)

IInv == /\ TypeOK
        /\ ~Racing => OneAtATime /\ FillsTruth /\ StaleExpires
        /\ Serial => StaleIsDeleted
=============================================================================
