-------------------------- MODULE FirmRequestsProofs --------------------------
(***************************************************************************)
(* What suspension and role changes promise, for any number of users and   *)
(* any expiries: as long as requests do not race, a stale key is younger   *)
(* than the write that made it stale, and if no handler dies half way no   *)
(* request ever sees one.                                                  *)
(***************************************************************************)
EXTENDS FirmRequests, TLAPS

USE TTLAssumption, ModeAssumption, UserAssumption
    DEF TTLAssumption, ModeAssumption, UserAssumption

\* The rows decide what a SELECT returns.
LEMMA TruthFrame == ASSUME UNCHANGED <<firm, rows>> PROVE Truth' = Truth
  BY DEF Truth, PermissionsOf

LEMMA TruthType ==
  ASSUME TypeOK, NEW k \in Key PROVE Truth[k] \in SUBSET Fact
  <1>1. \A r \in Role : Grants(r) \subseteq Permission
    BY DEF Grants, Permission
  <1>2. \A u \in User : PermissionsOf(u) \subseteq Permission
    BY <1>1 DEF PermissionsOf, TypeOK, Row
  <1> QED BY <1>2 DEF Truth, TypeOK, Firm, Fact, Key

\* What a lookup leads to: the next lookup, the handler, or a refusal.
UsedBy(q) ==
    /\ req' \in [Req -> Handler]
    /\ \A p \in Req \ {q} : req'[p] = req[p]
    /\ req'[q].at \in {"get", "idle", "update", "suspend", "activate", "assign"}
    /\ req'[q].at # "idle" => req'[q].user \in User /\ req'[q].op \in Op
    /\ req'[q].at = "get" => req'[q].key \in {"firm", req'[q].user}
    /\ req'[q].at # "get" => req'[q].key = None

LEMMA UseLeads ==
  ASSUME TypeOK, NEW q \in Req, At(q, "get") \/ At(q, "set"),
         NEW v \in SUBSET Fact, Use(q, v)
  PROVE  UsedBy(q)
  <1> USE DEF UsedBy
  <1>1. /\ req \in [Req -> Handler] /\ req[q] \in Handler
        /\ req[q].user \in User /\ req[q].op \in Op
    BY DEF TypeOK, At
  <1>2. CASE Finish(q)
    BY <1>1, <1>2 DEF Finish, Idle, Handler, Label
  <1>3. ASSUME NEW k \in {"firm", req[q].user}, Lookup(q, k) PROVE UsedBy(q)
    <2>1. k \in Key
      BY <1>1 DEF Key
    <2> QED BY <1>1, <1>3, <2>1 DEF Lookup, Handler, Label
  <1>4. CASE /\ req[q].op # "read"
             /\ req' = [req EXCEPT ![q].at = req[q].op, ![q].key = None, ![q].val = {}]
    BY <1>1, <1>4 DEF Op, Handler, Label
  <1> QED BY <1>2, <1>3, <1>4 DEF Use, TenantGate, PermissionGate

LEMMA InitInv == Init => IInv
  <1> SUFFICES ASSUME Init PROVE IInv
    OBVIOUS
  <1>1. Idle \in Handler /\ Empty \in [val : SUBSET Fact, left : Nat]
    BY DEF Idle, Handler, Label, Empty
  <1>2. \A k \in Key : TTL(k) \in Nat
    BY DEF TTL
  <1>3. firm \in Firm /\ rows \in [User -> SUBSET Row]
    BY DEF Init, Firm, Status
  <1>4. TypeOK
    BY <1>1, <1>2, <1>3 DEF Init, TypeOK, Empty, Idle, Caching
  <1>5. OneAtATime /\ FillsTruth /\ \A k \in Key : ~Stale(k)
    BY DEF Init, OneAtATime, FillsTruth, Stale, Live, At, Idle, Empty
  <1> QED BY <1>4, <1>5 DEF IInv, StaleExpires, StaleIsDeleted

\* A step of a handler that writes no row: it fills a key with the truth,
\* drops keys, or leaves them.
LEMMA StepFrame ==
  ASSUME IInv, TypeOK', NEW q \in Req, UNCHANGED <<firm, rows, since, mode>>,
         \A p \in Req \ {q} : req'[p] = req[p],
         At(q, "idle") => Racing \/ \A p \in Req : At(p, "idle"),
         ~Racing /\ req'[q].at = "set" => req'[q].val = Truth[req'[q].key],
         ~Racing => \A k \in Key : \/ cache'[k] = cache[k]
                                  \/ cache'[k].left = 0
                                  \/ cache'[k].val = Truth[k],
         \A k \in Key : Serial /\ Deletes(q, k) =>
             cache'[k].left = 0 \/ Deletes(q, k)'
  PROVE  IInv'
  <1>1. Truth' = Truth
    BY TruthFrame
  <1>2. Racing' = Racing /\ Serial' = Serial
    BY DEF Racing, Serial
  <1>3. Serial => ~Racing
    BY DEF Racing, Serial
  <1>4. ASSUME ~Racing PROVE OneAtATime'
    BY <1>4 DEF IInv, OneAtATime, At
  <1>5. ASSUME ~Racing PROVE FillsTruth'
    BY <1>1, <1>5 DEF IInv, FillsTruth, At
  <1>6. ASSUME ~Racing, NEW k \in Key, Stale(k)'
        PROVE  Stale(k) /\ cache'[k] = cache[k]
    BY <1>1, <1>6 DEF Stale, Live
  <1>7. ASSUME ~Racing PROVE StaleExpires'
    BY <1>6, <1>7 DEF IInv, StaleExpires, TTL
  <1>8. ASSUME Serial PROVE StaleIsDeleted'
    <2> SUFFICES ASSUME NEW k \in Key, Stale(k)' PROVE \E p \in Req : Deletes(p, k)'
      BY DEF StaleIsDeleted
    <2>1. PICK p \in Req : Deletes(p, k)
      BY <1>3, <1>6, <1>8 DEF IInv, StaleIsDeleted
    <2>2. CASE p = q
      BY <1>8, <2>1, <2>2 DEF Stale, Live
    <2>3. CASE p # q
      BY <2>1, <2>3 DEF Deletes, At
    <2> QED BY <2>2, <2>3
  <1> QED BY <1>2, <1>4, <1>5, <1>7, <1>8 DEF IInv

\* The handlers' steps that write no row.
LEMMA CacheSteps ==
  ASSUME IInv, NEW q \in Req, Hit(q) \/ Miss(q) \/ Select(q) \/ Fill(q)
  PROVE  IInv'
  <1> USE DEF Caching
  <1>1. /\ TypeOK /\ req[q] \in Handler /\ req[q].user \in User /\ req[q].op \in Op
        /\ req[q].key \in {"tenant", "firm", req[q].user} /\ req[q].key \in Key
    BY DEF IInv, TypeOK, Hit, Miss, Select, Fill, At, Key
  <1>2. /\ ~At(q, "idle") /\ UNCHANGED <<firm, rows, since, mode>>
        /\ \A k \in Key : ~Deletes(q, k)
    BY DEF Hit, Miss, Select, Fill, At, Deletes
  <1>3. CASE Hit(q)
    <2>1. UsedBy(q)
      BY <1>1, <1>3, UseLeads DEF Hit, TypeOK
    <2>2. TypeOK'
      BY <1>1, <1>3, <2>1 DEF Hit, UsedBy, TypeOK
    <2> QED BY <1>2, <1>3, <2>1, <2>2, StepFrame DEF Hit, UsedBy
  <1>4. CASE Miss(q)
    <2>1. TypeOK' /\ req'[q].at = "select" /\ \A p \in Req \ {q} : req'[p] = req[p]
      BY <1>1, <1>4 DEF Miss, Goto, TypeOK, Handler, Label
    <2> QED BY <1>2, <1>4, <2>1, StepFrame DEF Miss
  <1>5. CASE Select(q)
    <2>1. Truth[req[q].key] \in SUBSET Fact
      BY <1>1, TruthType
    <2>2. TypeOK' /\ \A p \in Req \ {q} : req'[p] = req[p]
      BY <1>1, <1>5, <2>1 DEF Select, TypeOK, Handler, Label
    <2>3. req'[q].val = Truth[req'[q].key]
      BY <1>1, <1>5 DEF Select, TypeOK, Handler
    <2> QED BY <1>2, <1>5, <2>2, <2>3, StepFrame DEF Select
  <1>6. CASE Fill(q)
    <2>1. req[q].val \in SUBSET Fact
      BY <1>1 DEF Handler
    <2>2. UsedBy(q)
      BY <1>1, <1>6, <2>1, UseLeads DEF Fill, TypeOK
    <2>3. TTL(req[q].key) \in Nat
      BY DEF TTL
    <2>4. cache' \in [Key -> [val : SUBSET Fact, left : Nat]]
      BY <1>1, <1>6, <2>1, <2>3 DEF Fill, TypeOK
    <2>5. \A k \in Key : cache'[k].left <= TTL(k)
      BY <1>1, <1>6, <2>3 DEF Fill, TypeOK
    <2>6. TypeOK'
      BY <1>1, <1>2, <2>2, <2>4, <2>5 DEF UsedBy, TypeOK, TTL
    <2>7. ~Racing => \A k \in Key : cache'[k] = cache[k] \/ cache'[k].val = Truth[k]
      BY <1>1, <1>6 DEF IInv, FillsTruth, Fill, TypeOK
    <2> QED BY <1>2, <2>2, <2>6, <2>7, StepFrame DEF UsedBy
  <1> QED BY <1>3, <1>4, <1>5, <1>6

LEMMA HandlerSteps ==
  ASSUME IInv, NEW q \in Req,
         \/ \E u \in User, op \in Op : Arrive(q, u, op)
         \/ SuspendFind(q) \/ ActivateFind(q) \/ Fail(q)
         \/ \E u \in User : AssignRevoke(q, u)
  PROVE  IInv'
  <1>1. /\ UNCHANGED <<firm, rows, cache, since, mode>>
        /\ \A k \in Key : Serial => ~Deletes(q, k)
    BY DEF Arrive, SuspendFind, ActivateFind, Fail, AssignRevoke, At, Deletes
  <1>2. Idle \in Handler
    BY DEF Idle, Handler, Label
  <1>3. TypeOK /\ req \in [Req -> Handler]
    BY DEF IInv, TypeOK
  <1>4. ASSUME Finish(q) PROVE req' \in [Req -> Handler] /\ req'[q] = Idle
                              /\ \A p \in Req \ {q} : req'[p] = req[p]
    BY <1>2, <1>3, <1>4 DEF Finish
  <1>5. CASE SuspendFind(q) \/ ActivateFind(q) \/ Fail(q)
    <2>1. CASE Finish(q)
      <3>1. TypeOK'
        BY <1>1, <1>3, <1>4, <2>1 DEF TypeOK, Idle, Caching
      <3> QED BY <1>1, <1>4, <1>5, <2>1, <3>1, StepFrame
              DEF Idle, SuspendFind, ActivateFind, Fail, At
    <2>2. ASSUME NEW l \in {"suspend.update", "activate.update"}, Goto(q, l),
                 At(q, "suspend") \/ At(q, "activate")
          PROVE  IInv'
      <3>1. req[q].user \in User /\ req[q].op \in Op /\ req[q].key = None
        BY <1>3, <2>2 DEF TypeOK, Caching, At
      <3>2. /\ req' \in [Req -> Handler]
            /\ req'[q] = [req[q] EXCEPT !.at = l]
            /\ \A p \in Req \ {q} : req'[p] = req[p]
        BY <1>3, <2>2 DEF Goto, Handler, Label
      <3>3. req'[q].at = l /\ req'[q].user = req[q].user /\ req'[q].op = req[q].op
            /\ req'[q].key = None
        BY <1>3, <3>1, <3>2 DEF Handler
      <3>4. TypeOK'
        BY <1>1, <1>3, <3>1, <3>2, <3>3 DEF TypeOK, Caching
      <3> QED BY <1>1, <2>2, <3>2, <3>3, <3>4, StepFrame DEF At
    <2> QED BY <1>5, <2>1, <2>2 DEF SuspendFind, ActivateFind, Fail
  <1>6. ASSUME NEW u \in User, NEW op \in Op, Arrive(q, u, op) PROVE IInv'
    <2> DEFINE new == [Idle EXCEPT !.at = "get", !.user = u, !.op = op, !.key = "tenant"]
    <2>1. new \in Handler
      BY <1>2 DEF Handler, Label, Key
    <2>2. new.at = "get" /\ new.user = u /\ new.op = op /\ new.key = "tenant"
      BY DEF Idle
    <2>3. req' = [req EXCEPT ![q] = new]
      BY <1>6 DEF Arrive
    <2> HIDE DEF new
    <2>4. /\ req' \in [Req -> Handler] /\ req'[q] = new
          /\ \A p \in Req \ {q} : req'[p] = req[p]
      BY <1>3, <2>1, <2>3
    <2>5. TypeOK'
      BY <1>1, <1>3, <2>2, <2>4 DEF TypeOK, Caching
    <2> QED BY <1>1, <1>6, <2>2, <2>4, <2>5, StepFrame DEF Arrive
  <1>7. ASSUME NEW u \in User, AssignRevoke(q, u) PROVE IInv'
    <2>1. req[q].user \in User /\ req[q].op \in Op /\ rows[u] \in SUBSET Row
      BY <1>3, <1>7 DEF AssignRevoke, TypeOK, At
    <2>2. /\ req' \in [Req -> Handler]
          /\ \A p \in Req \ {q} : req'[p] = req[p]
          /\ req'[q].at = "assign.commit" /\ req'[q].key = u
          /\ req'[q].user = req[q].user /\ req'[q].op = req[q].op
      <3>1. req[q] \in Handler
        BY <1>3
      <3> DEFINE new == [req[q] EXCEPT !.at = "assign.commit", !.key = u, !.seen = rows[u]]
      <3>2. req' = [req EXCEPT ![q] = new]
        BY <1>7 DEF AssignRevoke
      <3>3. new \in Handler
        BY <2>1, <3>1 DEF Handler, Label, Key
      <3>4. /\ new.at = "assign.commit" /\ new.key = u
            /\ new.user = req[q].user /\ new.op = req[q].op
        BY <3>1 DEF Handler
      <3> HIDE DEF new
      <3> QED BY <1>3, <3>2, <3>3, <3>4
    <2>3. TypeOK'
      BY <1>1, <1>3, <2>1, <2>2 DEF TypeOK, Caching
    <2> QED BY <1>1, <1>7, <2>2, <2>3, StepFrame DEF AssignRevoke, At
  <1> QED BY <1>5, <1>6, <1>7

LEMMA DeleteSteps ==
  ASSUME IInv, NEW q \in Req, InvalidateCache(q) \/ AssignInvalidate(q)
  PROVE  IInv'
  <1>1. /\ TypeOK /\ UNCHANGED <<firm, rows, since, mode>> /\ ~At(q, "idle")
        /\ At(q, "assign.del") => req[q].key \in User
        /\ "firm" \in Key /\ "tenant" \in Key
    BY DEF IInv, TypeOK, InvalidateCache, AssignInvalidate, At, Key
  <1>2. Idle \in Handler /\ Empty \in [val : SUBSET Fact, left : Nat]
    BY DEF Idle, Handler, Label, Empty
  <1>3. /\ req' \in [Req -> Handler] /\ req'[q] = Idle
        /\ \A p \in Req \ {q} : req'[p] = req[p]
    BY <1>1, <1>2 DEF InvalidateCache, AssignInvalidate, Finish, TypeOK
  <1>4. /\ cache' \in [Key -> [val : SUBSET Fact, left : Nat]]
        /\ \A k \in Key : cache'[k] = cache[k] \/ cache'[k] = Empty
        /\ \A k \in Key : Deletes(q, k) => cache'[k] = Empty
    <2>1. CASE InvalidateCache(q)
      BY <1>1, <1>2, <2>1 DEF InvalidateCache, TypeOK, Deletes, At
    <2>2. CASE AssignInvalidate(q)
      BY <1>1, <1>2, <2>2 DEF AssignInvalidate, TypeOK, Deletes, At, Key
    <2> QED BY <2>1, <2>2
  <1>5. \A k \in Key : cache'[k].left <= TTL(k)
    BY <1>1, <1>4 DEF TypeOK, Empty, TTL
  <1>6. TypeOK'
    BY <1>1, <1>3, <1>4, <1>5 DEF TypeOK, Idle, Caching, TTL
  <1> QED BY <1>1, <1>3, <1>4, <1>6, StepFrame DEF Empty, Idle

\* A step that writes the rows behind the keys ks, and goes on to DEL them.
LEMMA WriteFrame ==
  ASSUME IInv, TypeOK', NEW q \in Req, NEW ks \in SUBSET Key,
         UNCHANGED <<cache, mode>>, Changed(ks),
         \A p \in Req \ {q} : req'[p] = req[p],
         ~At(q, "idle"), req'[q].at # "set",
         \A k \in Key \ ks : Truth'[k] = Truth[k],
         \A k \in Key : ~Deletes(q, k),
         \A k \in ks : Deletes(q, k)'
  PROVE  IInv'
  <1>1. Racing' = Racing /\ Serial' = Serial
    BY DEF Racing, Serial
  <1>2. Serial => ~Racing
    BY DEF Racing, Serial
  <1>3. ASSUME ~Racing PROVE OneAtATime'
    BY <1>3 DEF IInv, OneAtATime, At
  <1>4. ASSUME ~Racing PROVE FillsTruth'
    BY <1>4 DEF IInv, OneAtATime, FillsTruth, At
  <1>5. ASSUME ~Racing, NEW k \in Key, Stale(k)'
        PROVE  /\ (Stale(k) /\ since'[k] = since[k]) \/ (since'[k] = 0 /\ k \in ks)
               /\ cache'[k].left + since'[k] <= TTL(k)
    <2>1. CASE Truth'[k] = Truth[k]
      <3>1. Stale(k) /\ since'[k] = since[k]
        BY <1>5, <2>1 DEF Stale, Live, Changed
      <3>2. cache[k].left + since[k] <= TTL(k) /\ cache' = cache
        BY <1>5, <3>1 DEF IInv, StaleExpires
      <3> QED BY <3>1, <3>2
    <2>2. CASE Truth'[k] # Truth[k]
      <3>1. since'[k] = 0 /\ k \in ks
        BY <1>5, <2>2 DEF Changed
      <3>2. cache'[k].left \in Nat /\ cache'[k].left <= TTL(k)
        BY DEF TypeOK, TTL
      <3> QED BY <3>1, <3>2
    <2> QED BY <2>1, <2>2
  <1>6. ASSUME ~Racing PROVE StaleExpires'
    BY <1>5, <1>6 DEF StaleExpires, TTL
  <1>7. ASSUME Serial PROVE StaleIsDeleted'
    <2> SUFFICES ASSUME NEW k \in Key, Stale(k)' PROVE \E p \in Req : Deletes(p, k)'
      BY DEF StaleIsDeleted
    <2>1. CASE k \in ks
      BY <2>1
    <2>2. CASE k \notin ks
      <3>1. PICK p \in Req : Deletes(p, k)
        BY <1>2, <1>5, <1>7, <2>2 DEF IInv, StaleIsDeleted
      <3> QED BY <3>1 DEF Deletes, At
    <2> QED BY <2>1, <2>2
  <1> QED BY <1>1, <1>3, <1>4, <1>6, <1>7 DEF IInv

LEMMA SinceType ==
  ASSUME TypeOK, NEW ks \in SUBSET Key, Changed(ks)
  PROVE  since' \in [Key -> Nat] /\ \A k \in Key : since'[k] <= TTL(k)
  <1>1. \A k \in Key : 0 <= TTL(k)
    BY DEF TTL
  <1> QED BY <1>1 DEF Changed, TypeOK

LEMMA WriteSteps ==
  ASSUME IInv, NEW q \in Req,
         \/ UpdateFirm(q) \/ UpdateStatus(q)
         \/ \E R \in SUBSET Role \ {{}}, n \in Assignment : AssignCommit(q, R, n)
  PROVE  IInv'
  <1>1. TypeOK /\ req \in [Req -> Handler]
    BY DEF IInv, TypeOK
  <1>2. CASE UpdateFirm(q) \/ UpdateStatus(q)
    <2>1. PICK ks \in {{"firm"}, {"tenant", "firm"}} :
            /\ UNCHANGED <<rows, cache, mode>> /\ Changed(ks) /\ Goto(q, "firm.del")
            /\ UpdateFirm(q) => "firm" \in ks
            /\ UpdateStatus(q) => ks = {"tenant", "firm"}
      BY <1>2 DEF UpdateFirm, UpdateStatus
    <2>2. ks \in SUBSET Key
      BY DEF Key
    <2>3. req[q].user \in User /\ req[q].op \in Op /\ req[q].key = None
      BY <1>1, <1>2 DEF TypeOK, UpdateFirm, UpdateStatus, Caching, At
    <2>4. /\ req' \in [Req -> Handler]
          /\ \A p \in Req \ {q} : req'[p] = req[p]
          /\ req'[q].at = "firm.del" /\ req'[q].key = None
          /\ req'[q].user = req[q].user /\ req'[q].op = req[q].op
      BY <1>1, <2>1, <2>3 DEF Goto, Handler, Label
    <2>5. firm' \in Firm /\ (ks = {"firm"} => firm'.status = firm.status)
      <3>1. CASE UpdateFirm(q)
        BY <1>1, <3>1 DEF UpdateFirm, TypeOK, Firm
      <3>2. CASE UpdateStatus(q)
        <4>1. ks # {"firm"}
          BY <2>1, <3>2
        <4> QED BY <1>1, <3>2, <4>1 DEF UpdateStatus, TypeOK, Firm, Status
      <3> QED BY <1>2, <3>1, <3>2
    <2>6. TypeOK'
      BY <1>1, <2>1, <2>2, <2>3, <2>4, <2>5, SinceType DEF TypeOK, TTL, Caching
    <2>7. \A k \in Key \ ks : Truth'[k] = Truth[k]
      BY <2>1, <2>5 DEF Truth, PermissionsOf
    <2>8. ~At(q, "idle") /\ \A k \in Key : ~Deletes(q, k)
      BY <1>2 DEF UpdateFirm, UpdateStatus, At, Deletes
    <2>9. \A k \in ks : Deletes(q, k)'
      BY <2>4 DEF Deletes, At
    <2> QED BY <2>1, <2>2, <2>4, <2>6, <2>7, <2>8, <2>9, WriteFrame
  <1>3. ASSUME NEW R \in SUBSET Role \ {{}}, NEW n \in Assignment, AssignCommit(q, R, n)
        PROVE  IInv'
    <2> DEFINE u == req[q].key
    <2>1. u \in User /\ u \in Key /\ req[q].user \in User /\ req[q].op \in Op
      BY <1>1, <1>3 DEF TypeOK, AssignCommit, At, Key
    <2>2. /\ req' \in [Req -> Handler]
          /\ \A p \in Req \ {q} : req'[p] = req[p]
          /\ req'[q].at = "assign.del" /\ req'[q].key = u
          /\ req'[q].user = req[q].user /\ req'[q].op = req[q].op
      <3>1. req[q] \in Handler
        BY <1>1
      <3> DEFINE new == [req[q] EXCEPT !.at = "assign.del", !.seen = {}]
      <3>2. req' = [req EXCEPT ![q] = new]
        BY <1>3 DEF AssignCommit
      <3>3. new \in Handler
        BY <3>1 DEF Handler, Label
      <3>4. /\ new.at = "assign.del" /\ new.key = u
            /\ new.user = req[q].user /\ new.op = req[q].op
        BY <3>1 DEF Handler
      <3> HIDE DEF new
      <3> QED BY <1>1, <3>2, <3>3, <3>4
    <2>3. rows' \in [User -> SUBSET Row] /\ \A v \in User \ {u} : rows'[v] = rows[v]
      BY <1>1, <1>3, <2>1 DEF AssignCommit, TypeOK, Row
    <2>4. UNCHANGED <<firm, cache, mode>> /\ Changed({u})
      BY <1>3 DEF AssignCommit
    <2>5. TypeOK'
      BY <1>1, <2>1, <2>2, <2>3, <2>4, SinceType DEF TypeOK, TTL, Caching
    <2>6. \A k \in Key \ {u} : Truth'[k] = Truth[k]
      BY <2>3, <2>4 DEF Truth, PermissionsOf, Key
    <2>7. ~At(q, "idle") /\ \A k \in Key : ~Deletes(q, k)
      BY <1>3 DEF AssignCommit, At, Deletes
    <2>8. Deletes(q, u)'
      BY <2>2 DEF Deletes, At
    <2> QED BY <2>1, <2>2, <2>4, <2>5, <2>6, <2>7, <2>8, WriteFrame
  <1> QED BY <1>2, <1>3

LEMMA TickStep == ASSUME IInv, Tick PROVE IInv'
  <1>1. UNCHANGED <<firm, rows, mode, req>> /\ TypeOK
    BY DEF Tick, IInv
  <1>2. Truth' = Truth /\ Racing' = Racing /\ Serial' = Serial /\ (Serial => ~Racing)
    BY <1>1, TruthFrame DEF Racing, Serial
  <1>3. Empty \in [val : SUBSET Fact, left : Nat]
    BY DEF Empty
  <1>4. ASSUME NEW k \in Key
        PROVE  /\ cache'[k] \in [val : SUBSET Fact, left : Nat]
               /\ cache'[k].left > 0 => /\ cache'[k].val = cache[k].val
                                        /\ cache[k].left = cache'[k].left + 1
               /\ since'[k] \in Nat /\ since'[k] <= TTL(k)
               /\ \/ since'[k] = since[k] + 1
                  \/ since'[k] = TTL(k) /\ since[k] = TTL(k)
               /\ cache'[k].left <= TTL(k) /\ cache[k].left \in Nat
    <2>1. TTL(k) \in Nat
      BY DEF TTL
    <2>2. /\ cache[k] \in [val : SUBSET Fact, left : Nat] /\ since[k] \in Nat
          /\ cache[k].left <= TTL(k) /\ since[k] <= TTL(k)
      BY <1>1 DEF TypeOK
    <2>3. since'[k] = IF since[k] < TTL(k) THEN since[k] + 1 ELSE since[k]
      BY DEF Tick
    <2>4. cache'[k] = IF cache[k].left > 1 THEN [cache[k] EXCEPT !.left = @ - 1] ELSE Empty
      BY DEF Tick
    <2>5. CASE cache[k].left > 1
      <3>1. /\ cache'[k] \in [val : SUBSET Fact, left : Nat]
            /\ cache'[k].val = cache[k].val /\ cache'[k].left = cache[k].left - 1
        BY <2>2, <2>4, <2>5
      <3> QED BY <2>1, <2>2, <2>3, <2>5, <3>1
    <2>6. CASE ~(cache[k].left > 1)
      <3>1. cache'[k] \in [val : SUBSET Fact, left : Nat] /\ cache'[k].left = 0
        BY <1>3, <2>4, <2>6 DEF Empty
      <3> QED BY <2>1, <2>2, <2>3, <3>1
    <2> QED BY <2>5, <2>6
  <1>5. TypeOK'
    BY <1>1, <1>4 DEF TypeOK, Tick, TTL
  <1>6. \A k \in Key : Stale(k)' => Stale(k)
    BY <1>2, <1>4 DEF Stale, Live
  <1>7. ASSUME ~Racing PROVE StaleExpires'
    <2> SUFFICES ASSUME NEW k \in Key, Stale(k)' PROVE (cache[k].left + since[k] <= TTL(k))'
      BY DEF StaleExpires
    <2>1. cache[k].left + since[k] <= TTL(k) /\ cache'[k].left > 0
      BY <1>6, <1>7 DEF IInv, StaleExpires, Stale, Live
    <2>2. TTL(k)' = TTL(k) /\ TTL(k) \in Nat /\ since[k] \in Nat
      BY <1>1 DEF TTL, TypeOK
    <2> QED BY <1>4, <2>1, <2>2
  <1>8. Serial => StaleIsDeleted'
    BY <1>1, <1>6 DEF IInv, StaleIsDeleted, Deletes, At
  <1>9. ~Racing => OneAtATime' /\ FillsTruth'
    BY <1>1, <1>2 DEF IInv, OneAtATime, FillsTruth, At
  <1> QED BY <1>2, <1>5, <1>7, <1>8, <1>9 DEF IInv

LEMMA NextInv == IInv /\ [Next]_vars => IInv'
  <1> SUFFICES ASSUME IInv, [Next]_vars PROVE IInv'
    OBVIOUS
  <1>1. ASSUME UNCHANGED vars PROVE IInv'
    <2>1. Truth' = Truth
      BY <1>1, TruthFrame DEF vars
    <2> QED BY <1>1, <2>1 DEF vars, IInv, TypeOK, Racing, Serial, OneAtATime, FillsTruth,
              StaleExpires, StaleIsDeleted, Stale, Live, Deletes, At, TTL
  <1> QED BY <1>1, CacheSteps, HandlerSteps, DeleteSteps, WriteSteps, TickStep
          DEF Next, Resume

-----------------------------------------------------------------------------
\* When no handler dies and none races, every write deletes the keys that
\* depend on it before the next request is served.
THEOREM WritersInvalidate == Spec => []InvalidationWorks
  <1>1. IInv => InvalidationWorks
    BY DEF IInv, InvalidationWorks, CachesAgree, StaleIsDeleted, Stale, Deletes, At
  <1> QED BY <1>1, InitInv, NextInv, PTL DEF Spec

\* A handler leaves a lookup for something else than a refusal by using the
\* value it found.
LEMMA LookupsEnd ==
  ASSUME IInv, Next, NEW q \in Req,
         req[q].at \in Caching, req'[q].at # "idle", req'[q].key # req[q].key
  PROVE  Hit(q) \/ Fill(q)
  <1>1. req \in [Req -> Handler]
    BY DEF IInv, TypeOK
  <1>2. req'[q] # req[q]
    OBVIOUS
  <1>3. ~Tick
    BY <1>2 DEF Tick
  <1>4. ASSUME NEW p \in Req, p # q,
               \/ \E u \in User, op \in Op : Arrive(p, u, op)
               \/ Resume(p) \/ Fail(p)
        PROVE  req'[q] = req[q]
    <2>1. ASSUME NEW v, Use(p, v) PROVE req'[q] = req[q]
      BY <1>1, <1>4, <2>1
         DEF Use, TenantGate, PermissionGate, Lookup, Finish
    <2> QED BY <1>1, <1>4, <2>1
            DEF Resume, Arrive, Fail, Hit, Miss, Select, Fill, UpdateFirm, SuspendFind,
                ActivateFind, UpdateStatus, InvalidateCache, AssignRevoke, AssignCommit,
                AssignInvalidate, Goto, Finish
  <1>5. \/ \E u \in User, op \in Op : Arrive(q, u, op)
        \/ Resume(q) \/ Fail(q)
    BY <1>2, <1>3, <1>4 DEF Next
  <1>6. ~Miss(q) /\ ~Select(q)
    BY <1>1 DEF Miss, Select, Goto, Handler
  <1>7. ~Fail(q)
    BY <1>1 DEF Fail, Finish, Idle
  <1> QED BY <1>5, <1>6, <1>7
          DEF Resume, Arrive, UpdateFirm, SuspendFind, ActivateFind, UpdateStatus,
              InvalidateCache, AssignRevoke, AssignCommit, AssignInvalidate, At, Caching

\* The value it uses is what the rows say, or they changed less than the
\* key's expiry ago.
LEMMA UsedValue ==
  ASSUME IInv, NEW q \in Req, ~Racing, Hit(q) \/ Fill(q)
  PROVE  \E v : Use(q, v) /\ \/ v = Truth[req[q].key]
                             \/ since[req[q].key] < TTL(req[q].key)
  <1>1. req[q].key \in Key /\ req[q].at \in Caching
    BY DEF IInv, TypeOK, Hit, Fill, At, Caching, Key
  <1>2. CASE Hit(q)
    <2>1. CASE Stale(req[q].key)
      <3> DEFINE k == req[q].key
      <3>1. cache[k].left + since[k] <= TTL(k) /\ cache[k].left > 0
        BY <1>1, <2>1 DEF IInv, StaleExpires, Stale, Live
      <3>2. cache[k].left \in Nat /\ since[k] \in Nat /\ TTL(k) \in Nat
        BY <1>1 DEF IInv, TypeOK, TTL
      <3> HIDE DEF k
      <3>3. since[k] < TTL(k)
        BY <3>1, <3>2
      <3> QED BY <1>2, <3>3 DEF Hit, k
    <2>2. CASE ~Stale(req[q].key)
      BY <1>2, <2>2 DEF Hit, Stale
    <2> QED BY <2>1, <2>2
  <1>3. CASE Fill(q)
    BY <1>3 DEF Fill, IInv, FillsTruth
  <1> QED BY <1>2, <1>3

\* Only an active firm's requests pass the tenant middleware, up to the
\* expiry of the cache entry a writer that died left behind.
THEOREM SuspensionHolds == Spec => SuspensionTakesHold
  <1>1. ASSUME IInv, IInv', [Next]_vars
        PROVE  [\A q \in Req :
                  ~Racing /\ req[q].key = "tenant" /\ req'[q].key \in User
                      => firm.status = "active" \/ since["tenant"] < TenantTTL]_vars
    <2> SUFFICES ASSUME Next, NEW q \in Req, ~Racing, req[q].key = "tenant",
                        req'[q].key \in User
                 PROVE  firm.status = "active" \/ since["tenant"] < TenantTTL
      BY <1>1
    <2>1. req[q].at \in Caching /\ req'[q].at # "idle"
      BY <1>1 DEF IInv, TypeOK, Caching
    <2>2. PICK v : /\ Use(q, v)
                   /\ v = Truth["tenant"] \/ since["tenant"] < TTL("tenant")
      BY <1>1, <2>1, LookupsEnd, UsedValue
    <2>3. "active" \in v
      <3>1. TenantGate(q, v)
        BY <2>2 DEF Use
      <3> QED BY <3>1, <1>1, <2>1 DEF TenantGate, Finish, Idle, IInv, TypeOK
    <2>4. Truth["tenant"] = {firm.status} /\ TTL("tenant") = TenantTTL
      BY DEF Truth, Key, TTL
    <2> QED BY <2>2, <2>3, <2>4
  <1> QED BY <1>1, InitInv, NextInv, PTL DEF Spec, SuspensionTakesHold

\* A permission the rows no longer give lets no request through, up to the
\* expiry of the cache entry a writer that died left behind.
THEOREM RoleChangesHold == Spec => LostPermissionLosesPower
  <1>1. ASSUME IInv, IInv', [Next]_vars
        PROVE  [\A q \in Req : ~Racing /\ Authorised(q)
                  => \/ Needs(req[q].op) \in PermissionsOf(req[q].user)
                     \/ since[req[q].user] < PermsTTL]_vars
    <2> SUFFICES ASSUME Next, NEW q \in Req, ~Racing, Authorised(q)
                 PROVE  \/ Needs(req[q].op) \in PermissionsOf(req[q].user)
                        \/ since[req[q].user] < PermsTTL
      BY <1>1
    <2>1. req[q].at \in Caching /\ req'[q].at # "idle" /\ req[q].key \in User
          /\ req'[q].key # req[q].key
      BY DEF Authorised
    <2>2. req[q].key = req[q].user /\ req[q].user \in Key
      BY <1>1, <2>1 DEF IInv, TypeOK, Key
    <2>3. PICK v : /\ Use(q, v)
                   /\ v = Truth[req[q].user] \/ since[req[q].user] < TTL(req[q].user)
      BY <1>1, <2>1, <2>2, LookupsEnd, UsedValue
    <2>4. Needs(req[q].op) \in v
      <3>1. PermissionGate(q, v)
        BY <2>1, <2>3 DEF Use
      <3> QED BY <3>1, <1>1, <2>1 DEF PermissionGate, Finish, Idle, IInv, TypeOK
    <2>5. Truth[req[q].user] = PermissionsOf(req[q].user) /\ TTL(req[q].user) = PermsTTL
      BY <2>1, <2>2 DEF Truth, TTL
    <2> QED BY <2>3, <2>4, <2>5
  <1> QED BY <1>1, InitInv, NextInv, PTL DEF Spec, LostPermissionLosesPower
=============================================================================
