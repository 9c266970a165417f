---------------------------- MODULE Provisioning ----------------------------
(***************************************************************************)
(* Registration, login and the provisioning of tenants: AuthService,       *)
(* UsersService.create, TenantsService.create, TenantProvisioningService,  *)
(* provisionTenantSchema and the operator's migrate-tenants script.        *)
(*                                                                         *)
(* Each member of Req is one HTTP request.  Its handler is interleaved     *)
(* with the others at every await, works on what it read before, and may   *)
(* end at any await.  A register runs one transaction and then, outside of *)
(* it, the provisioning; a login provisions again what is not READY.       *)
(***************************************************************************)
EXTENDS Integers

CONSTANTS
  Req,           \* requests; the tenant registered by request r has id r
  Email,
  MaxRelease,    \* bound: releases of the program with new tenant migrations
  MaxFailures,   \* bound: the failures of a behaviour
  None

Codes == {200, 201, 401, 409, 500, 503}    \* HTTP statuses

ASSUME ProvisioningAssumption == /\ None \notin Req \cup Email \cup Codes
                                 /\ MaxRelease \in Nat \ {0}
                                 /\ MaxFailures \in Nat

VARIABLES
  tenant,     \* tenant[t]: provisioningStatus of the committed Tenant row, if any
  owner,      \* owner[e]: the tenantId of the committed User row with email e
  claim,      \* claim[e]: the open transaction that has inserted a User with email e
  schema,     \* schema[t]: Missing, or the last release whose migrations it has
  broken,     \* the tenants whose schema has the record of an unfinished migration
  release,    \* the release the server runs
  script,     \* the tenants the operator's script has yet to migrate
  failures,
  input, pc,
  seen,       \* seen[r]: the Tenant row as the handler of r has read it
  reply

rows == <<tenant, owner, claim>>
schemas == <<schema, broken>>
vars == <<rows, schemas, release, script, failures, input, pc, seen, reply>>

Status == {"absent", "PENDING", "READY", "FAILED"}
Missing == -1      \* no such Postgres schema; 0 is an empty one
Unseen == [id |-> None, status |-> "absent"]

TypeOK ==
  /\ tenant \in [Req -> Status]
  /\ owner \in [Email -> Req \cup {None}]
  /\ claim \in [Email -> Req \cup {None}]
  /\ schema \in [Req -> Missing..MaxRelease]
  /\ broken \subseteq Req
  /\ release \in 1..MaxRelease
  /\ script \subseteq Req
  /\ failures \in 0..MaxFailures
  /\ input \in [Req -> [op: {"none", "register", "login"}, email: Email \cup {None}]]
  /\ pc \in [Req -> {"idle", "start", "insert", "commit", "compare", "provision",
                     "create", "migrate", "confirm", "mark", "done"}]
  /\ seen \in [Req -> [id: Req \cup {None}, status: Status]]
  /\ reply \in [Req -> Codes \cup {None}]

Init == /\ tenant = [t \in Req |-> "absent"]
        /\ owner = [e \in Email |-> None]
        /\ claim = [e \in Email |-> None]
        /\ schema = [t \in Req |-> Missing]
        /\ broken = {}
        /\ release = 1
        /\ script = {}
        /\ failures = 0
        /\ input = [r \in Req |-> [op |-> "none", email |-> None]]
        /\ pc = [r \in Req |-> "idle"]
        /\ seen = [r \in Req |-> Unseen]
        /\ reply = [r \in Req |-> None]
-----------------------------------------------------------------------------
At(r, op, label) == pc[r] = label /\ input[r].op = op
Mail(r) == input[r].email

Send(r) == /\ pc[r] = "idle"
           /\ \E op \in {"register", "login"}, e \in Email :
                input' = [input EXCEPT ![r] = [op |-> op, email |-> e]]
           /\ pc' = [pc EXCEPT ![r] = "start"]
           /\ UNCHANGED <<rows, schemas, release, script, failures, seen, reply>>

Goto(r, label) == pc' = [pc EXCEPT ![r] = label] /\ UNCHANGED <<input, reply>>

Answer(r, code) == /\ pc' = [pc EXCEPT ![r] = "done"]
                   /\ reply' = [reply EXCEPT ![r] = code]
                   /\ UNCHANGED input

Released(r) == [e \in Email |-> IF claim[e] = r THEN None ELSE claim[e]]

Mishap == failures < MaxFailures /\ failures' = failures + 1
Smooth == UNCHANGED <<release, script, failures>>
-----------------------------------------------------------------------------
(* AuthService.register: the transaction *)

(* mutant: tenantsService.create is not given tx *)
MutBeginTransaction(r) ==
  /\ Goto(r, "insert")
  /\ tenant' = [tenant EXCEPT ![r] = "PENDING"]
  /\ UNCHANGED <<owner, claim, schemas, seen>>

(* the Tenant row is inserted, and invisible to the others *)
BeginTransaction(r) == Goto(r, "insert") /\ UNCHANGED <<rows, schemas, seen>>

(* tenant.create, then the findFirst of UsersService.create *)
BeginRegister(r) ==
  /\ At(r, "register", "start") /\ Smooth
  /\ \/ /\ owner[Mail(r)] # None
        /\ Answer(r, 409)
        /\ UNCHANGED <<rows, schemas, seen>>
     \/ owner[Mail(r)] = None /\ BeginTransaction(r)

(* mutant: User.email has no unique index *)
MutTaken(e) == FALSE

(* the unique index on User.email holds a committed entry *)
Taken(e) == owner[e] # None

(* user.create, a bcrypt hash after the findFirst: the index is what       *)
(* decides.  An entry not yet committed makes the INSERT wait; a committed *)
(* one fails it with the shared client's P2002.  The exception filter      *)
(* catches the tenant client's error class: the reply is 409 in a build    *)
(* where the two generated clients share that class, and else 500.         *)
InsertUser(r) ==
  /\ At(r, "register", "insert") /\ Smooth
  /\ \/ /\ Taken(Mail(r))
        /\ \E code \in {409, 500} : Answer(r, code)
        /\ UNCHANGED <<rows, schemas, seen>>
     \/ /\ ~Taken(Mail(r)) /\ claim[Mail(r)] = None
        /\ claim' = [claim EXCEPT ![Mail(r)] = r]
        /\ Goto(r, "commit")
        /\ UNCHANGED <<tenant, owner, schemas, seen>>

CommitRegister(r) ==
  /\ At(r, "register", "commit") /\ Smooth
  /\ tenant' = [tenant EXCEPT ![r] = "PENDING"]
  /\ owner' = [owner EXCEPT ![Mail(r)] = r]
  /\ claim' = Released(r)
  /\ seen' = [seen EXCEPT ![r] = [id |-> r, status |-> "PENDING"]]
  /\ Goto(r, "provision")
  /\ UNCHANGED schemas
-----------------------------------------------------------------------------
(* AuthService.signIn up to ensureProvisioned *)

FindUser(r) ==
  /\ At(r, "login", "start") /\ Smooth
  /\ LET t == owner[Mail(r)] IN
     \/ t = None /\ Answer(r, 401) /\ UNCHANGED seen
     \/ /\ t # None
        /\ seen' = [seen EXCEPT ![r] = [id |-> t, status |-> tenant[t]]]
        /\ Goto(r, "compare")
  /\ UNCHANGED <<rows, schemas>>

(* bcrypt.compare: the password is right or wrong *)
ComparePassword(r) ==
  /\ pc[r] = "compare" /\ Smooth
  /\ Answer(r, 401) \/ Goto(r, "provision")
  /\ UNCHANGED <<rows, schemas, seen>>
-----------------------------------------------------------------------------
(* TenantProvisioningService.ensureProvisioned, on the row as it was read *)

Tenant(r) == seen[r].id

(* mutant: the status is not looked at *)
MutFinish(r, status) == Answer(r, IF input[r].op = "register" THEN 201 ELSE 200)

(* register ignores the result; signIn hands out a token only for READY *)
Finish(r, status) ==
  Answer(r, IF input[r].op = "register" THEN 201
            ELSE IF status = "READY" THEN 200 ELSE 503)

(* mutant: a FAILED tenant is not driven again *)
MutNeedsProvisioning(r) == seen[r].status = "PENDING"

NeedsProvisioning(r) == seen[r].status # "READY"

EnsureProvisioned(r) ==
  /\ pc[r] = "provision" /\ Smooth
  /\ \/ ~NeedsProvisioning(r) /\ Finish(r, seen[r].status)
     \/ NeedsProvisioning(r) /\ Goto(r, "create")
  /\ UNCHANGED <<rows, schemas, seen>>

(* CREATE SCHEMA IF NOT EXISTS *)
CreateSchema(r) ==
  /\ pc[r] = "create" /\ Smooth
  /\ schema' = [schema EXCEPT ![Tenant(r)] = IF @ = Missing THEN 0 ELSE @]
  /\ Goto(r, "migrate")
  /\ UNCHANGED <<rows, broken, seen>>

(* mutant: the subprocess is not awaited *)
MutMigrate(r) ==
  /\ pc[r] = "migrate" /\ Smooth
  /\ Goto(r, "confirm")
  /\ UNCHANGED <<rows, schemas, seen>>

(* prisma migrate deploy for tenant t: all pending migrations of this      *)
(* release, unless the record of an unfinished one is in the way           *)
Applied(t) == /\ t \notin broken
              /\ schema' = [schema EXCEPT ![t] = release]
              /\ UNCHANGED broken

(* It breaks off, some migrations applied.  Interrupted within one, it     *)
(* leaves the record of that one, begun and not finished; every later run  *)
(* refuses such a schema, and nothing in the repository clears the record. *)
BrokenOff(t) ==
  /\ t \notin broken
  /\ \E n \in schema[t]..release :
       /\ schema' = [schema EXCEPT ![t] = n]
       /\ \/ UNCHANGED broken
          \/ 0 <= n /\ n < release /\ broken' = broken \cup {t}

(* mutant: a Promise around the subprocess that only its success settles *)
MutMigrateHangs(r) ==
  /\ pc[r] = "migrate" /\ Smooth
  /\ Applied(Tenant(r)) /\ Goto(r, "confirm")
  /\ UNCHANGED <<rows, seen>>

(* the subprocess has ended: all is applied, or it has refused the schema *)
Migrate(r) ==
  /\ pc[r] = "migrate" /\ Smooth
  /\ \/ Applied(Tenant(r)) /\ Goto(r, "confirm")
     \/ Tenant(r) \in broken /\ Goto(r, "mark") /\ UNCHANGED schemas
  /\ UNCHANGED <<rows, seen>>

Confirm(r) ==
  /\ pc[r] = "confirm" /\ Smooth
  /\ tenant' = [tenant EXCEPT ![Tenant(r)] = "READY"]
  /\ Finish(r, "READY")
  /\ UNCHANGED <<owner, claim, schemas, seen>>

(* the catch block, its best-effort write done ... *)
MarkFailed(r) ==
  /\ pc[r] = "mark" /\ Smooth
  /\ tenant' = [tenant EXCEPT ![Tenant(r)] = "FAILED"]
  /\ Finish(r, "FAILED")
  /\ UNCHANGED <<owner, claim, schemas, seen>>

(* ... or not *)
MarkLost(r) ==
  /\ pc[r] = "mark" /\ Mishap
  /\ Finish(r, "FAILED")
  /\ UNCHANGED <<rows, schemas, release, script, seen>>

(* One of the three awaits of the try block throws.  The migration may     *)
(* have broken off anywhere, or the READY have been written.               *)
AttemptFails(r) ==
  /\ pc[r] \in {"create", "migrate", "confirm"} /\ Mishap
  /\ \/ UNCHANGED <<tenant, schemas>>
     \/ pc[r] = "migrate" /\ BrokenOff(Tenant(r)) /\ UNCHANGED tenant
     \/ /\ pc[r] = "confirm"
        /\ tenant' = [tenant EXCEPT ![Tenant(r)] = "READY"]
        /\ UNCHANGED schemas
  /\ Goto(r, "mark")
  /\ UNCHANGED <<owner, claim, release, script, seen>>

(* The request is lost: a database error before the provisioning, or the   *)
(* process ends.  An open transaction is rolled back; the subprocess of    *)
(* the migration ends with its parent, or outlives it.                     *)
Abort(r) ==
  /\ pc[r] \notin {"idle", "done"} /\ Mishap
  /\ claim' = Released(r)
  /\ \/ UNCHANGED schemas
     \/ pc[r] = "migrate" /\ (Applied(Tenant(r)) \/ BrokenOff(Tenant(r)))
  /\ Answer(r, 500)
  /\ UNCHANGED <<tenant, owner, release, script, seen>>
-----------------------------------------------------------------------------
(* The operator: a new release, and the script to migrate its tenants *)

(* the old processes have ended; docker-entrypoint.sh migrates "public" only *)
Deploy ==
  /\ release < MaxRelease
  /\ script = {} /\ \A r \in Req : pc[r] \in {"idle", "done"}
  /\ release' = release + 1
  /\ UNCHANGED <<rows, schemas, script, failures, input, pc, seen, reply>>

(* migrateAllTenants reads the tenants once *)
StartScript ==
  /\ script = {} /\ script' = {t \in Req : tenant[t] # "absent"}
  /\ script' # {}
  /\ UNCHANGED <<rows, schemas, release, failures, input, pc, seen, reply>>

(* it provisions one after the other and leaves their status alone; it     *)
(* stops at the first error, ...                                           *)
ScriptStep(t) ==
  /\ t \in script
  /\ \/ Applied(t) /\ script' = script \ {t}
     \/ t \in broken /\ script' = {} /\ UNCHANGED schemas
  /\ UNCHANGED <<rows, release, failures, input, pc, seen, reply>>

(* ... and may be what makes one *)
ScriptFails(t) ==
  /\ t \in script /\ script' = {} /\ Mishap
  /\ UNCHANGED schemas \/ BrokenOff(t)
  /\ UNCHANGED <<rows, release, input, pc, seen, reply>>

(* what the server does next for r *)
Step(r) == \/ BeginRegister(r) \/ InsertUser(r) \/ CommitRegister(r)
           \/ FindUser(r) \/ ComparePassword(r)
           \/ EnsureProvisioned(r) \/ CreateSchema(r) \/ Migrate(r) \/ Confirm(r)
           \/ MarkFailed(r)

Next == \/ \E r \in Req : Send(r) \/ Step(r) \/ MarkLost(r) \/ AttemptFails(r) \/ Abort(r)
        \/ Deploy \/ StartScript
        \/ \E t \in Req : ScriptStep(t) \/ ScriptFails(t)
        \/ (\A r \in Req : pc[r] = "done") /\ UNCHANGED vars

Spec == Init /\ [][Next]_vars

(* The event loop serves every request whose await has settled; the        *)
(* operator owes nothing.                                                  *)
FairSpec == Spec /\ \A r \in Req : WF_vars(Step(r))
-----------------------------------------------------------------------------
(* auth.service.ts:28-29: a duplicate email, or a failure between the two  *)
(* inserts, never leaves a Tenant without its owner.                       *)
NoDanglingTenant == \A t \in Req : tenant[t] # "absent" => \E e \in Email : owner[e] = t

(* The account somebody was told they have is theirs: of the registrations *)
(* of one email that race between findFirst and insert, one gets the 201   *)
(* and no later one takes the email over.                                  *)
AccountIsKept == \A r \in Req : reply[r] = 201 => owner[Mail(r)] = r

(* tenant-provisioning.service.ts:19: READY means that the schema exists   *)
(* and has all migrations of the release that runs.  True as long as no    *)
(* release brings new ones; violated after one that does.                  *)
ReadyIsMigrated == \A t \in Req : tenant[t] = "READY" => schema[t] = release

(* auth.service.ts:61-63: no token for a schema that was never migrated,   *)
(* whatever attempts, logins and script runs overlap.                      *)
TokenIsUsable ==
  \A r \in Req : reply[r] = 200 => seen[r].id # None /\ schema[seen[r].id] >= 1

(* the status a token was handed out on came from an attempt that ended    *)
ReadyWasMigrated == \A t \in Req : tenant[t] = "READY" => schema[t] >= 1

(* what the client of r knows it has: a 201 says an account, a 200 a token, *)
(* and the token names the tenant of the row the login has read            *)
Told(r) == IF reply[r] \in {200, 201}
           THEN [email |-> Mail(r), tenant |-> seen[r].id, token |-> reply[r] = 200]
           ELSE [email |-> None, tenant |-> None, token |-> FALSE]

(* The doc comments of AuthService and TenantProvisioningService, taken    *)
(* together.  Hidden: transactions, index entries, attempts, what was read *)
Account == INSTANCE Accounts WITH
             tenants <- {t \in Req : tenant[t] # "absent"},
             migrated <- {t \in Req : schema[t] >= 1},
             ready <- {t \in Req : tenant[t] = "READY"},
             told <- [r \in Req |-> Told(r)]
AccountSpec == Account!Spec

(* Every request ends, with the outcome of its attempt or with an error:   *)
(* no wait for an email's index entry and no failed step leaves it hanging *)
EveryRequestAnswered == \A r \in Req : pc[r] = "start" ~> pc[r] = "done"

(* auth.service.ts:34-37: a failed provisioning is not a dead end.  Once   *)
(* things no longer fail, the next login with the right password gets its  *)
(* token, whatever attempts, script runs and lost writes there have been.  *)
(* Not so for a tenant in whose schema a migration was cut short: as long  *)
(* as it is not READY its logins get a 503, and nothing changes that.      *)
RetryRecovers ==
  \A r \in Req :
    (/\ pc[r] = "provision" /\ input[r].op = "login"
     /\ failures = MaxFailures /\ Tenant(r) \notin broken) ~> reply[r] = 200

(* the handler of r holds the Tenant row it has read, or written *)
Holding == {"compare", "provision", "create", "migrate", "confirm", "mark"}

(* the rows: every Tenant belongs to the User its register inserted, and   *)
(* the index entry of an open transaction is that of nobody else           *)
Ownership ==
  /\ \A t \in Req : tenant[t] # "absent" => Mail(t) \in Email /\ owner[Mail(t)] = t
  /\ \A e \in Email : owner[e] # None =>
       /\ tenant[owner[e]] # "absent"
       /\ input[owner[e]].op = "register" /\ Mail(owner[e]) = e
       /\ pc[owner[e]] \in Holding \cup {"done"}
  /\ \A e \in Email : claim[e] # None =>
       pc[claim[e]] = "commit" /\ Mail(claim[e]) = e /\ owner[e] = None
  /\ \A r \in Req : pc[r] = "commit" => claim[Mail(r)] = r

(* the requests in flight: what kind they are and whose row they hold *)
InFlight ==
  \A r \in Req :
    /\ pc[r] # "idle" => input[r].op # "none" /\ Mail(r) \in Email
    /\ pc[r] \in {"insert", "commit"} => input[r].op = "register"
    /\ pc[r] = "compare" => input[r].op = "login"
    /\ pc[r] # "done" => reply[r] = None
    /\ pc[r] \in Holding => seen[r].id # None
    /\ pc[r] \in Holding /\ input[r].op = "register" => seen[r].id = r /\ owner[Mail(r)] = r
    /\ seen[r].id # None => tenant[seen[r].id] # "absent"

(* what has been migrated stays migrated, so an old READY is still good *)
Migrated ==
  \A r \in Req :
    /\ seen[r].status = "READY" => seen[r].id # None /\ schema[seen[r].id] >= 1
    /\ pc[r] = "confirm" => schema[seen[r].id] >= 1

(* the inductive invariant *)
IInv == /\ TypeOK /\ Ownership /\ InFlight /\ Migrated
        /\ AccountIsKept /\ ReadyWasMigrated /\ TokenIsUsable
=============================================================================
