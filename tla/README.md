# Verification of moto-care-pro

TLA+ specifications of the server of a multi-tenant motorcycle workshop (NestJS, Prisma,
Postgres), their TLC configurations, and TLAPS proofs. Paths below are those of the repository.

## 1. Inventory of the system

Every workshop is a *tenant*: a row in the shared schema, and a Postgres schema of its own with
its motorcycles, services, appointments, supplies and stock movements. One Node process serves
all tenants; a request is interleaved with the others at every `await`, and the database runs at
its default READ COMMITTED.

| Component | State | Operations | What makes it hard | What makes it correct |
|---|---|---|---|---|
| Supplies (`src/modules/supplies`) | `Supply.stock`, `StockMovement` rows | create, update, remove, registerMovement | movements that race for the last units; a second read after a refused update; INTEGER overflow | stock = opening + history; never negative; replies tell what happened |
| Services (`src/modules/services`) | `Service` rows; the stock of every supply they use | create (with a transaction over its supply lines), update, remove | several row locks taken one by one, in the client's order; failure half way | all lines or none; no trace of a refusal; nobody waits for ever |
| Motorcycles, appointments | rows referenced by foreign keys | CRUD, with a check before the insert | the checked row is deleted before the insert | no row refers to a missing one; the right refusal |
| Client manager (`src/tenancy/prisma-client-manager.service.ts`) | a Map from schema name to the Promise of a connected client | getClient, onModuleDestroy | concurrent misses, rejected connects, eviction after a newer entry, shutdown in the middle | one pool per schema, each with an owner; a call gets its own schema |
| Tenant routing (`tenant-prisma.service.ts`, `tenant-context.service.ts`, `jwt.strategy.ts`) | request-local tenant | a proxy that resolves a client at every use | a route without a tenant; context lost over an await | a query goes to the caller's tenant or fails |
| Registration and login (`src/modules/auth`, `users`) | `User` rows (unique email) | register, signIn | two registrations of one email; steps after the commit | no tenant without owner; a confirmed account is kept |
| Tenants and provisioning (`src/modules/tenants`, `src/tenancy/provision-tenant-schema.ts`, `scripts/migrate-tenants.ts`) | `Tenant.provisioningStatus`, the Postgres schema | ensureProvisioned, the migration script | failures between the steps, attempts that overlap, decisions on an old row, releases | a token only for a migrated schema; a failure is not a dead end, save one (section 5) |
| Exception filter (`src/common/filters`) | none | error code to status | one code has several reasons, met in different statements | a refusal has a cause in what others did |
| Schema names (`tenants.service.ts`, `schema-name.util.ts`) | none | buildSchemaName, assertSafeSchemaName | cut after trim, letters that grow in lower case | every generated name is accepted |
| Rate limiting, health, configuration, logging, bootstrap, container | none of their own | | | not modelled, see section 8 |

How they interact: a controller calls its service; the service asks `TenantPrismaService` for a
client, which asks the client manager with the schema name of the request; `AuthService` calls
users, tenants and provisioning; the script calls the same `provisionTenantSchema`. What
the modules share is the database. The hazards, each with its line and the properties that would
catch it, are in `PROJECT.json`.

## 2. Modules

| Module | What it is |
|---|---|
| `Stock` | movement rows, and what it means that rows explain a level (`Replays`) |
| `StockLedger` | the abstract specification: a supply's level moves only with its rows, a service books all its lines in one step |
| `Selection` | the elements of a sequence that are in a set, in order: what is compared in `RepliesMatchHistory` and `SlugIsReadable` |
| `Inventory` | `SuppliesService`, `ServicesService.create` and `.remove`, row locks and transactions; implements `StockLedger` |
| `ClientManager` | `PrismaClientManager`, one action per turn of the event loop |
| `Accounts` | the abstract specification of registration and login: accounts are opened whole, READY and tokens are for migrated schemas, a client is told about its own tenant |
| `Provisioning` | `AuthService`, `UsersService`, `TenantsService`, `TenantProvisioningService`, `provisionTenantSchema`, the script, releases; implements `Accounts` |
| `Workshop` | `MotorcyclesService`, `AppointmentsService`, `ServicesService` as far as its motorcycle goes, the foreign keys and the unique vin |
| `TenantSchema` | all tables of one tenant: `Inventory` and `Workshop` composed, a service request taking its steps in both |
| `TenantAccess` | the abstract specification of routing: a request touches only the schema its user had when it was granted |
| `TenantRouting` | `JwtAuthGuard`, `JwtStrategy.validate`, the CLS store, `TenantPrismaService` at every query, over `ClientManager` (INSTANCE); implements `TenantAccess` |
| `SchemaName` | `buildSchemaName` and the pattern of `assertSafeSchemaName` |
| `MCInventory`, `MCProvisioning`, `MCWorkshop`, `MCTenantSchema`, `MCSchemaName` | inputs and symmetry for TLC; the other runs use the component itself |
| `SelectionProofs`, `InventoryProofs`, `ClientManagerProofs`, `ProvisioningProofs`, `WorkshopProofs`, `TenantSchemaProofs`, `TenantRoutingProofs`, `SchemaNameProofs` | theorems |

Definitions named `Mut...` are wrong variants of the definition that follows them, one plausible bug
each. No specification uses them; putting one in the place of the right definition must make
the property that `PROJECT.json` pairs it with fail.

### Inventory

A member of `Req` is one HTTP request; `pc[r]` says at which `await` its handler is and the id of
what it creates is `r` itself. One action is what the code does between two awaits:

* `RegisterMovement` is the conditional `supply.update` with its nested `create`
  (supplies.service.ts:63-77), `Recheck` the second read in the catch block (:83-91). The
  condition, the increment and the new row take effect together: that is what Prisma documents
  for a nested write, and what the comment at :52-57 relies on.
* `AssertMotorcycle`, `OpenTransaction`, `ConsumeSupply` (one per supply line), `ExplainShortage`
  and `CommitService` are `ServicesService.create`. A line locks its supply row (`lock`) and what it
  made of the row is in `draft`: invisible to the others until the commit, gone with a
  `Rollback`. A second line on the same supply sees the first (`Seen`).
* Deletes follow the schema: ON DELETE CASCADE takes the movements of a supply, ON DELETE SET NULL
  leaves those of a service untagged.
* `Fail` is any error the code does not foresee (connection, Prisma's transaction timeout, end of the
  process): rolled back, 500. `Acknowledge` allows a write to be committed and its
  acknowledgement lost: the client reads 500. `AbortDeadlock` is Postgres ending one
  transaction of a cycle of waits.
* Numbers beyond `MaxInt` are refused with 500, as the INTEGER column does.
* The unique index on `sku` does not compare NULLs (`SkuTaken`): any number of supplies have none.
* A client names only ids it has been shown (`Known`); ids are random UUIDs.
* Whether the motorcycle exists is left open: both answers of the check are possible, and both outcomes
  of the insert after it. `TenantSchema` decides.

`opening` (the stock a supply was created with) and `quoted` (the number in the 409 message) are
history variables of the model.

### ClientManager

A call of `getClient` has no `await` before it has read and written the Map, so it is one action.
The connect settles, the catch handler evicts, callers resume, `onModuleDestroy` runs, its
`allSettled` disconnects one client after the other: each is a later turn, in any order.
`promise[p]` goes `connecting -> open -> closed` or `connecting -> failed -> rejected`, where
between `failed` and `rejected` the handler has yet to run. A `closed` client that its caller uses after all connects again
(`reopened`), as Prisma's do; `Resume` may do that, and so may a query in `TenantRouting`. Such a pool counts as a pool in every
property (`Pool`), and section 5 says what becomes of it. Promises are named by the call that
created them, so that the identity check of the eviction means what it means in the code.

### Provisioning

`register` is a transaction (tenant insert, `findFirst`, a bcrypt hash, user insert) and then
`ensureProvisioned`; `signIn` reads the user with its tenant, compares the password, and provisions
on *the row it has read* (`seen`). `claim` is an uncommitted entry of the unique index on
`User.email`: another insert of that email waits for it. `AttemptFails` is an exception in the try
block of `ensureProvisioned`, with some or all of its effect already there; `Abort` a request
that ends anywhere else; `MarkLost` the failure of the best-effort write. `schema[t]` is the last release whose migrations the Postgres schema
has. `Deploy` puts a release with new tenant migrations in service (old processes gone, no script running); the entry point
migrates the shared schema only, so `StartScript`, `ScriptStep` and `ScriptFails` are the
operator's.

`prisma migrate deploy` applies what is pending (`Applied`) or breaks off after any number of migrations (`BrokenOff`).
Cut short *within* one it leaves the record of a migration begun and not finished, and every later run refuses that schema
until somebody resolves the record by hand: `broken` is the set of tenants whose schema has it, no action takes one out, and
`Migrate` and `ScriptStep` have an outcome for such a tenant. A failure before the first migration, after the last one, or of the
subprocess as a whole leaves no record.

Abstractions: generated schema names
are distinct (a collision is an `Abort`). The tenant insert is not separated from the `findFirst`
after it: it is invisible to everybody else.

### Workshop

`Check` is `assertMotorcycleExists`, before the create of a service or an appointment and before a PATCH
of an appointment that names a motorcycle; PATCH of a service has no check (`LooksUp`). The write comes
in a later turn and the database decides again: P2003 for a motorcycle that is gone (422), P2025 for a
row that is gone (404), P2002 for a vin (409). A service with supplies is inserted in a transaction
that stays open (`OpenTransaction`, `EndTransaction`), and its insert holds a share lock on the motorcycle
(`Held`): DELETE and a change of the vin, which is a unique key, wait for it, other PATCHes do not. `null` passes
the `IsOptional` of the PATCH DTOs and is refused by Prisma's own validation with 500 (`Null`).
A row keeps its last `motorcycleId` in `refers` when it is deleted, for the properties' sake.

### TenantSchema

`ServicesService.create` and `.remove` belong to both halves. A request of these has a control state in each,
`SamePlace` keeps the two together, and one step of the code is one step of the composition
(`ServeBoth`); the lines of a service up to the last change nothing in `Workshop`. The other requests live in one half
(`ServeInventory`, `ServeShop`). So the outcome of the transaction in `Workshop` is the one
`Inventory` computes, and the motorcycle check in `Inventory` is the one `Workshop` computes.

### TenantRouting

A request is public, refused, or carries the token of a user (`Arrive`). `FindUser` is the read of the
`User` row in `validate`, `SetTenant` the writing of the CLS store in a later turn, `Use` one property access on
`this.prisma` with `getSchemaName` and `getClient`, `RunQuery` the statement on the client that is resolved,
`Return` the end of the handler. Query `n` of request `r` is call `<<r, n>>` of the instance of `ClientManager`, whose
other turns (`ManagerTurn`, `Destroy`) interleave with everything. `claim` is the schema in the token, which no code
uses: it is there so that a mutant can. Users change tenant or vanish (`Move`) by hand only. No
`@Public()` handler queries a tenant today; the model lets one try. A client that has been disconnected
connects again when it is used (`reopened` in the manager), so a query that was on its way at shutdown may still succeed.

### SchemaName

The name is read one character a step, as the global regular expression does, and may end anywhere.
Characters are classes: lower-case letter, digit, underscore, upper-case letter, U+0130 (the one character whose lower
case has an ASCII letter and a character that is none), anything else. Lengths are constants: the
assumption says what the proof needs of 40, 63, `tenant_` and the suffix.

## 3. Properties and runs

| Run | Instance | What it shows |
|---|---|---|
| `InventoryRace` | 3 requests, 2 supplies, `MaxInt` 2, movements of 1 and 2, services of two lines | `Balanced`, `RefusedLeavesNoTrace`, `LinesDone`, `RepliesMatchHistory`, `Transactions`, `ConflictsOnlyOut`, and that every behaviour is one of the ledger (`LedgerSpec`) |
| `InventoryCatalogue` | 3 requests, every operation, a supply at the start and those the requests create, numbers up to `MaxInt` + 1 | the inductive invariant `IInv`, `RepliesMatchHistory` |
| `InventoryQuote` | 2 requests, 1 supply | violated: see section 5 |
| `ClientManager` | 3 calls, 2 schemas and an unsafe name, one shutdown | `NoOrphan`, `OnePoolPerSchema`, `NoStaleRejection`, `OwnSchema`, `IInv`; `CallsSettle`, `ShutdownEnds` |
| `ClientManagerLate` | 2 calls | violated: see section 5 |
| `Provisioning` | 3 requests, 2 emails, 2 failures, 2 releases | `NoDanglingTenant`, `AccountIsKept`, `ReadyWasMigrated`, `TokenIsUsable`, `IInv`, and that every behaviour is one of `Accounts` (`AccountSpec`) |
| `ProvisioningLive` | 3 requests, 1 email, 1 failure | `EveryRequestAnswered`, `RetryRecovers` |
| `ProvisioningRelease` | 2 requests, 2 releases | violated: see section 5 |
| `Workshop` | 3 requests, 2 motorcycles at the start and those created, 3 vins, every input | `ReferencesHold`, `VinUnique`, `RepliesMatchRows`, `RefusalsExplained`, `IInv` |
| `TenantSchema` | 3 requests, 2 supplies, 1 motorcycle; services with two lines in either order, movements OUT, deletes of supplies, services and the motorcycle | `ConsumptionTraceable`, `EverybodyAnswered` |
| `TenantRouting` | 2 requests with 2 queries each, 1 user who is moved between 2 schemas | `FailureIsOwn`, `NoTenantNoPool`, `IInv`, that every behaviour is one of `TenantAccess` (`AccessSpec`), and `EveryRequestAnswered` |
| `SchemaName` | names of up to 6 characters of 6 classes, slugs of up to 3 | `GeneratedIsSafe`, `SlugIsReadable` |

The refinement in `InventoryRace` uses the identity on the ledger's variables, which are the
committed tables: drafts, locks and control states are hidden. A transaction is a
stutter until its commit, which is one `Book`. The refinement in `Provisioning` keeps which tenants and emails
there are, who is migrated (by whatever release) and READY, and what each client has been told; the
commit of a register is one `Open`, an attempt is a `Migrate` and a `Drive`, and nothing else shows.

Why these bounds: a race for stock needs two contenders, and a third to delete the supply or to change
the stock between a refused update and its second read; a deadlock needs two services and two
supplies; `MaxInt` 2 makes both ends of the column reachable in two steps. In `ClientManager` two
overlapping attempts for one schema (the second begins before the first one's rejection has been handled, or after a shutdown) and a
later caller, or one of another schema, are three calls; `TenantRouting` has four on the same manager. In `Provisioning`
two requests race on an email or a schema while the third logs in later; two failures let one
attempt fail and its FAILED write too. `MaxFailures` and `MaxRelease` bound the model, not the
program. Symmetry is used in safety runs only.

In `Workshop` one request checks while another deletes and a third creates, moves or takes the same vin; with two motorcycles
a row can be moved off the one that is deleted. `TenantSchema` has two supplies for a deadlock, at most one unit of each, so that a
service can fail at either line, and a third request that waits behind two services or overtakes them. Services without supplies and the
PATCHes add nothing to the waits and stay with the run and the theorems of `Workshop`. `TenantRouting` has two queries per request so that the second
follows an eviction, another request's `setTenant` or a move of the user; because the user is moved between the requests, one user is enough
for two requests with different tenants; its refinement mapping
takes the rows `validate` has read for `granted` and the schemas of the executed queries for `touched`. In `SchemaName` the limits are
scaled down (slug 3 of 40, name 7 of 63) so that names reach both from every side; reading stops at
`MaxRead`, which is why that run does not check for deadlock. `MaxQueries` and `MaxRead` are bounds of the
model.

Only model-checked: the liveness properties (`CallsSettle`, `ShutdownEnds`, `EveryRequestAnswered`, `RetryRecovers`,
`EverybodyAnswered`), absence of deadlock, and the three violations of section 5. Every invariant, action property and
refinement of the passing runs is also a theorem (section 6).

## 4. Fairness

`FairSpec` in `ClientManager`, `Provisioning` and `TenantRouting`, and `AllFairSpec` in `TenantSchema`, ask for weak
fairness of what the event loop and Postgres do for a request that can go on: a settled await is resumed,
a statement that need not wait is executed, a deadlock is detected, a connect is answered or times out.
Nobody is obliged to send, to sign in, to move a user, to fail, to deploy, to shut down or to run the script.

Weak fairness is enough for `EverybodyAnswered` because a lock is only held by a transaction that can
go on or that is in a cycle, and a request that was overtaken meets a request that is over; the number
of requests is finite, so neither a row lock nor the share lock on a motorcycle can be handed past a waiter
for ever. `RetryRecovers` speaks of logins that reach the provisioning once the failures are
over (`failures = MaxFailures`), for a tenant whose schema has no record of an unfinished migration.

## 5. Where the code and its comments disagree

* **`InventoryQuote`** - the 409 of a movement is decided by the update and worded from a second read.
  A movement IN between the two makes it "Insufficient stock: 2 available, 2 requested"
  (supplies.service.ts:55, :83-91). The stock itself is right; the message is not.
* **`ClientManagerLate`** - `onModuleDestroy` empties the Map and `getClient` goes on filling it. Nest runs
  the hook before it closes the HTTP server, so a request served then opens a pool that nothing
  disconnects (prisma.service.ts:23-24, main.ts:13-15); so does a query that uses a client after the hook has
  disconnected it. A unit test expects the new client (prisma-client-manager.service.spec.ts:121-122): what is
  missing is somebody who closes it.
* **`ProvisioningRelease`** - READY is documented as "schema exists and is migrated"
  (tenant-provisioning.service.ts:19); after a release with new tenant migrations it only
  says that the schema *was* migrated once, until the script has passed. What does hold over releases is
  `ReadyWasMigrated`.

Three more have no run of their own.

* *A dead end of provisioning.* provision-tenant-schema.ts:22-24 says that "a failed run is safe to retry", and
  auth.service.ts:34-37 that the caller is not left unable to use the app. A migration cut short leaves the record of section 2, every
  later `prisma migrate deploy` refuses the schema, and nothing in the repository resolves it: the status stays FAILED, every
  login of that tenant gets a 503, and the operator's script stops at it. In the model this is immediate (`broken` only grows, and
  `Migrate` has no way on from it), so there is nothing for a run to find. What is checked is the rest: `RetryRecovers` for every tenant that has no such
  record, `EveryRequestAnswered` and `TokenIsUsable` for all.
* *The words of a refusal.* Every P2003 becomes 422 "Referenced record does not exist" (prisma-exception.filter.ts:46-49).
  DELETE of a motorcycle that has services or appointments is a P2003, too, and there the record exists and is referred to.
  `RefusalsExplained` is about the status and its cause; the wording is not modelled.
* tenant-isolation.e2e-spec.ts:202 still says that no filter is wired and a duplicate vin is a 500: it is a 409
  (prisma-exception.filter.ts:35, app.module.ts:51), which the test's assertions also accept.

## 6. Proofs

TLAPS checks the following for every value of the constants, under the assumptions named in the
modules (`None` is no request, no email and no status code; `MaxInt` is positive; inputs have the
shape the DTOs validate; requests are not pre-existing supplies).

* `SelectionProofs`: what `Among` selects from sequences that are empty, extended, cut or put one behind the other. The
  prover cannot instantiate an induction theorem; the lemmas take the smallest counterexample instead, whose
  existence is a theorem about sets (`Smallest`, from the well-foundedness of `<`).
* `InventoryProofs`, in five parts. (1) Lemmas on `Replays`: rows can be appended, concatenated and untagged.
  (2) `Spec => []IInv`, and from it `TypeOK`, `Balanced`, `RefusedLeavesNoTrace`,
  `Transactions`. `Balanced` alone is not inductive: a commit publishes drafts, so the
  invariant must say that a draft is the committed row plus rows that explain the difference
  (`Transactions`), that the committed row does not move or vanish under a lock, and that a request which has not
  answered has left no row and no id (`RefusedLeavesNoTrace`, `InFlight`).
  `ConflictsOnlyOut` needs one more invariant: a movement in `recheck` is an OUT, or its supply is gone for good (`LooksAgain`).
  (3) `Spec => LedgerSpec`. A commit publishes, for every supply it has locked, the rows
  of its draft; `Transactions` says that they explain the difference and `InFlight` that the service is new, which is what `Book` asks for.
  All control steps, locks and refusals are stutters.
  (4) `LinesDone` and `RepliesMatchHistory`, for services with any number of lines, together inductive (`RInv`).
  `LinesDone` says what the drafts of a service hold between two lines, so at the commit its histories gain exactly
  the lines asked for; `Named` says that a supply in a request has existed, so that a supply created later is none of
  its business. The rest is that others' rows and untagging change no record (`RecordKept`), and that a
  supply's history either keeps its rows or goes with the supply.
  (5) `TagsHold`: a row that names a service names one that is there.
* `ClientManagerProofs`: `Spec => []IInv`; `NoOrphan`, `OnePoolPerSchema`, `OwnSchema`, `NoStaleRejection`. The
  strengthening ties every Promise in the Map to the schema it was created for and keeps what is being
  closed out of the Map.
* `ProvisioningProofs`: `Spec => []IInv`; `NoDanglingTenant`, `AccountIsKept`, `ReadyWasMigrated`,
  `TokenIsUsable`. `Ownership` ties a tenant to the email whose user points at it and an index entry to the
  open transaction of its register: that entry is why a commit finds the email free. `Migrated`
  says that a READY read long ago is still good, because no action takes migrations back, a broken-off one included.
  `Spec => AccountSpec` needs one more invariant, `Owned`: the tenant a handler holds is the one of its request's
  email, at every step from the read to the token, and the script knows tenants from their rows.
* `WorkshopProofs`: `Spec => []IInv`; `ReferencesHold`, `VinUnique`, `RepliesMatchRows`, `RefusalsExplained`.
  `ReferencesHold` is inductive only with its second half (the motorcycle of an open transaction is there,
  because DELETE waits for `Held`), and with `InFlight`: a request that has not answered has made no row yet.
  `RefusalsExplained` speaks of what clients asked for and were told, the guards of the actions of what is in the tables; between the two
  is `History`: whatever is gone was taken by a request that was not refused, whatever was confirmed gone is gone, a vin was given,
  and the ids in a request are of rows that were there once. Every step is one of seven effects (`Effect`), and each keeps it.
* `TenantSchemaProofs`: the composition is a refinement of both its halves (`AllSpec => Spec`, `AllSpec => Shop!Spec`), so the
  theorems on `Inventory` and `Workshop` hold in it, the ledger included (`HalvesHold`, `SchemaImplementsLedger`).
  `Joined` is its own invariant: a request of both halves is in flight in both, `services` and the Service rows of
  `Workshop` are the same set, and an id in a request is that of a row of its table. With `Transactions`, `TagsHold` and
  `ReferencesHold` it gives `ConsumptionTraceable`.
* `TenantRoutingProofs`: `Spec => []IInv`; `FailureIsOwn`, `NoTenantNoPool`, `Spec => AccessSpec`. `StoresAndCalls` says that
  the store of a request has the schema of its row or nothing, that its calls are for that schema, and so are the
  Promises they wait for, whoever created them; the last is what makes sharing pools safe.
  The routing does nothing to the manager that `ClientManager` does not allow (`ManagerHolds`), so
  what is proved of the manager holds for all queries of all requests (`TenantsSharePools`): until the shutdown every pool is the one
  its schema has in the Map. After it a query can make a disconnected client connect again; the theorem does not
  deny those pools, it says that no other is without an owner.
* `SchemaNameProofs`: `Spec => []GeneratedIsSafe`, for names of any length: what has been read is always made of safe characters,
  and trimming and cutting keep that and bound the length. `Spec => []SlugIsReadable`: reading adds to the text the letters
  and digits it reads and no second underscore, and trimming and cutting take only underscores and a tail.

Each step theorem has one lemma per action. The instances of `WorkshopProofs` and `ClientManagerProofs` in the two compositions
carry their theorems over; their assumptions are proved from those of the composition (`TenantSchemaAssumption`,
`RoutingAssumption`). Out of the prover's reach, and so with TLC: liveness and
ENABLED, which the backends do not handle under fairness.

## 7. Plan

Done: all modules of section 2, with the runs and the theorems above, the three refinements of abstract specifications and
the two of compositions. All safety properties of the passing runs are theorems. Left:

1. An abstract specification of `Workshop` (rows that always have their motorcycle, no checks, no turns) and of
   `ClientManager` (a pool directory), and their refinements.
2. The safety half of the liveness properties: whoever waits for a row lock waits for a transaction that can go on, or
   is in a cycle; a settled Promise stays settled.

## 8. Not modelled

* Reads (`findAll`, `findOne`, `listMovements`): they change nothing.
* Descriptive columns (name, unit, reason, mechanic, dates), passwords and token contents.
* `PrismaService`: one connect and one disconnect in the life of the process.
* Rate limiting: counting, windows and refusals are the Throttler library's; this code gives it two limits and
  a switch (app.module.ts:30-33, `AUTH_RATE_LIMIT`), with no state or property of its own. Health check: one query. Environment
  validation, logging, Swagger, bootstrap: no state that changes. Container and CI files: only what
  the entry point migrates (`Deploy`).
* The pool of five connections per tenant: a request beyond them waits for one. Inside its transaction the
  code uses `tx` only, so no request holds a connection while it asks for a second.
* Signature and expiry of tokens: a 401 is possible for any request that is not public.
* The number of cached clients is not bounded by the code (five connections each), so there is nothing to
  check but that fact.
