--------------------------- MODULE TenantRouting ---------------------------
(***************************************************************************)
(* The way of a request to the schema of its tenant: JwtAuthGuard and      *)
(* JwtStrategy.validate, which put the tenant into the request's           *)
(* AsyncLocalStorage, and TenantPrismaService, which takes it out again    *)
(* and asks PrismaClientManager for a client, at every single query.       *)
(*                                                                         *)
(* The manager is the module ClientManager: query n of request r is its    *)
(* call <<r, n>>.  Users are moved and removed by hand: no code here does. *)
(***************************************************************************)
EXTENDS Naturals

CONSTANTS
  Request, User,
  Schema,       \* of all tenants; buildSchemaName makes safe names only (SchemaName)
  MaxQueries,   \* the queries of one request (a bound)
  None

Query == Request \X (1..MaxQueries)
Codes == {200, 401, 500}

ASSUME RoutingAssumption == /\ MaxQueries \in Nat
                            /\ None \notin User \cup Schema \cup Query \cup Codes

VARIABLES
  clients, promise, schema, awaiting, closing, destroyed, call,   \* of the manager
  member,    \* member[u]: User.tenant.schemaName, None if the row is gone
  claim,     \* claim[u]: the schemaName in the token u holds
  user,      \* user[r]: whose token r carries; None: a @Public() route
  row,       \* row[r]: the schema in the User row validate has read
  store,     \* store[r]: the schemaName in the CLS store of r
  pc, reply,
  turn,      \* turn[r]: the number of queries r has made
  ran        \* ran[q]: the schema query q ran in, None if it did not

Manager == INSTANCE ClientManager WITH Call <- Query, Safe <- Schema, pc <- call

manager == <<clients, promise, schema, awaiting, closing, destroyed, call>>
request == <<user, row, store, pc, reply, turn, ran>>
vars == <<manager, member, claim, request>>

TypeOK ==
  /\ Manager!TypeOK
  /\ member \in [User -> Schema \cup {None}]
  /\ claim \in [User -> Schema]
  /\ user \in [Request -> User \cup {None}]
  /\ row \in [Request -> Schema \cup {None}]
  /\ store \in [Request -> Schema \cup {None}]
  /\ pc \in [Request -> {"idle", "guard", "validated", "handler", "query", "done"}]
  /\ reply \in [Request -> Codes \cup {None}]
  /\ turn \in [Request -> 0..MaxQueries]
  /\ ran \in [Query -> Schema \cup {None}]

Init == /\ Manager!Init
        /\ member \in [User -> Schema]
        /\ claim = member
        /\ user = [r \in Request |-> None]
        /\ row = [r \in Request |-> None]
        /\ store = [r \in Request |-> None]
        /\ pc = [r \in Request |-> "idle"]
        /\ reply = [r \in Request |-> None]
        /\ turn = [r \in Request |-> 0]
        /\ ran = [q \in Query |-> None]
-----------------------------------------------------------------------------
(* Users *)

(* by hand, in the shared schema *)
Move(u) == /\ member[u] # None
           /\ \E s \in Schema \cup {None} : member' = [member EXCEPT ![u] = s]
           /\ UNCHANGED <<manager, claim, request>>

(* AuthService.signIn: a token for the tenant of now, kept while it lasts *)
SignIn(u) == /\ member[u] # None
             /\ claim' = [claim EXCEPT ![u] = member[u]]
             /\ UNCHANGED <<manager, member, request>>
-----------------------------------------------------------------------------
(* One request *)

Goto(r, label) == pc' = [pc EXCEPT ![r] = label] /\ UNCHANGED reply
Answer(r, code) == pc' = [pc EXCEPT ![r] = "done"] /\ reply' = [reply EXCEPT ![r] = code]

(* JwtAuthGuard lets @Public() routes pass; the others need a valid token. *)
(* No public handler queries a tenant today; here one may try.             *)
Arrive(r) == /\ pc[r] = "idle"
             /\ \/ Goto(r, "handler") /\ UNCHANGED user
                \/ Answer(r, 401) /\ UNCHANGED user
                \/ \E u \in User : user' = [user EXCEPT ![r] = u] /\ Goto(r, "guard")
             /\ UNCHANGED <<manager, member, claim, row, store, turn, ran>>

(* mutant: the claim of the token is used instead of the row *)
MutRowOf(u) == claim[u]

(* usersService.findById, with its tenant *)
RowOf(u) == member[u]

FindUser(r) ==
  /\ pc[r] = "guard"
  /\ \/ Answer(r, 500) /\ UNCHANGED row
     \/ RowOf(user[r]) = None /\ Answer(r, 401) /\ UNCHANGED row
     \/ RowOf(user[r]) # None /\ row' = [row EXCEPT ![r] = RowOf(user[r])] /\ Goto(r, "validated")
  /\ UNCHANGED <<manager, member, claim, user, store, turn, ran>>

(* mutant: one store for all, as with a field of a singleton *)
MutSet(r, s) == store' = [q \in Request |-> s]

(* cls.set *)
Set(r, s) == store' = [store EXCEPT ![r] = s]

SetTenant(r) == /\ pc[r] = "validated"
                /\ Set(r, row[r])
                /\ Goto(r, "handler")
                /\ UNCHANGED <<manager, member, claim, user, row, turn, ran>>

(* the handler uses this.prisma: getSchemaName throws, or getClient is called *)
Use(r) ==
  /\ pc[r] = "handler" /\ turn[r] < MaxQueries
  /\ \/ store[r] = None /\ Answer(r, 500) /\ UNCHANGED <<manager, turn>>
     \/ /\ store[r] # None
        /\ turn' = [turn EXCEPT ![r] = @ + 1]
        /\ Manager!GetClient(<<r, turn'[r]>>, store[r])
        /\ Goto(r, "query")
  /\ UNCHANGED <<member, claim, user, row, store, ran>>

(* The client is there and runs the query, in its own schema; the query    *)
(* may fail.  A client that was disconnected runs it only if it has        *)
(* connected again.                                                        *)
RunQuery(r) ==
  LET q == <<r, turn[r]>> IN
  /\ pc[r] = "query"
  /\ Manager!Resume(q)
  /\ \/ call'[q] = "error" /\ Answer(r, 500) /\ UNCHANGED ran
     \/ /\ call'[q] = "client"
        /\ \/ Answer(r, 500) /\ UNCHANGED ran
           \/ /\ promise'[awaiting[q]] # "closed"
              /\ Goto(r, "handler")
              /\ ran' = [ran EXCEPT ![q] = schema[awaiting[q]]]
  /\ UNCHANGED <<member, claim, user, row, store, turn>>

Return(r) == /\ pc[r] = "handler" /\ Answer(r, 200)
             /\ UNCHANGED <<manager, member, claim, user, row, store, turn, ran>>

Serve(r) == FindUser(r) \/ SetTenant(r) \/ Use(r) \/ RunQuery(r) \/ Return(r)

(* a turn of the event loop that belongs to the manager *)
ManagerTurn(q) == /\ Manager!ConnectSettles(q) \/ Manager!Evict(q) \/ Manager!Disconnect(q)
                  /\ UNCHANGED <<member, claim, request>>

Destroy == Manager!Destroy /\ UNCHANGED <<member, claim, request>>

Rest == (\A r \in Request : pc[r] = "done") /\ UNCHANGED vars

Next == \/ \E u \in User : Move(u) \/ SignIn(u)
        \/ \E r \in Request : Arrive(r) \/ Serve(r)
        \/ \E q \in Query : ManagerTurn(q)
        \/ Destroy \/ Rest

Spec == Init /\ [][Next]_vars

(* The event loop runs what is ready; a connect is answered or times out. *)
FairSpec == /\ Spec
            /\ \A r \in Request : WF_vars(Serve(r))
            /\ \A q \in Query : WF_vars(ManagerTurn(q))
-----------------------------------------------------------------------------
(* Properties *)

(* Tenant isolation, as tenant-prisma.service.ts:9-15 and the comment at   *)
(* jwt.strategy.ts:29-37 have it.  Hidden: tokens, CLS stores, clients.    *)
Access == INSTANCE TenantAccess WITH
            granted <- row,
            touched <- [r \in Request |-> {ran[q] : q \in {r} \X (1..MaxQueries)} \ {None}]
AccessSpec == Access!Spec

(* A tenant that Postgres does not serve takes no other tenant down: a     *)
(* query without a client was refused by a connect to its own schema, and  *)
(* by one that failed, not by a shutdown or by another request's eviction. *)
FailureIsOwn ==
  \A q \in Query : call[q] = "error" =>
    /\ promise[awaiting[q]] = "rejected"
    /\ schema[awaiting[q]] = row[q[1]]

(* tenant-context.service.ts:9-15: code that is reached with no tenant in  *)
(* the context fails loudly, it neither runs a query nor opens a pool.     *)
NoTenantNoPool ==
  \A q \in Query : user[q[1]] = None => call[q] = "idle" /\ promise[q] = "none" /\ ran[q] = None

(* What is behind these: the store of a request has the schema of its row  *)
(* or nothing, and its calls, and the Promises they wait for, are of that  *)
(* schema.                                                                 *)
StoresAndCalls ==
  /\ \A r \in Request :
       /\ pc[r] = "idle" => user[r] = None
       /\ pc[r] = "guard" => user[r] # None
       /\ row[r] # None => user[r] # None /\ pc[r] \notin {"idle", "guard"}
       /\ pc[r] = "validated" => row[r] # None
       /\ pc[r] = "query" => turn[r] # 0
       /\ store[r] \in {None, row[r]}
  /\ \A s \in Schema : clients[s] # None => schema[clients[s]] = s
  /\ \A q \in Query :
       /\ call[q] = "idle" => schema[q] = None
       /\ call[q] = "idle" <=> awaiting[q] = None
       /\ call[q] # "idle" => q[2] <= turn[q[1]]
       /\ awaiting[q] # None => /\ row[q[1]] # None
                               /\ schema[q] = row[q[1]] /\ schema[awaiting[q]] = row[q[1]]
       /\ promise[q] # "none" => awaiting[q] # None
       /\ ran[q] \in {None, row[q[1]]}

(* the inductive invariant *)
IInv == TypeOK /\ StoresAndCalls /\ FailureIsOwn /\ NoTenantNoPool

(* Every request that has come in is answered, shutdown or not. *)
EveryRequestAnswered == \A r \in Request : pc[r] = "guard" ~> pc[r] = "done"
=============================================================================
