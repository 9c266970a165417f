------------------------ MODULE ProvisioningProofs ------------------------
(***************************************************************************)
(* For any number of requests, emails, releases and failures: the tenants  *)
(* have owners, accounts are kept, and a token names a migrated schema.    *)
(* IInv is inductive; there is a lemma for each action.                    *)
(***************************************************************************)
EXTENDS Provisioning, TLAPS

USE DEF schemas

(* no rows, no requests *)
THEOREM InitInv == Init => IInv
<1> SUFFICES ASSUME Init PROVE IInv
  OBVIOUS
<1> USE DEF Missing, Unseen
<1>1. TypeOK
  BY ProvisioningAssumption DEF Init, TypeOK, Codes, Status
<1>2. /\ \A r \in Req : /\ tenant[r] = "absent" /\ pc[r] = "idle" /\ reply[r] = None
                         /\ seen[r].id = None /\ seen[r].status = "absent"
      /\ \A e \in Email : owner[e] = None /\ claim[e] = None
  BY DEF Init
<1>3. Ownership
  BY <1>2 DEF Ownership
<1>4. InFlight
  <2> SUFFICES ASSUME NEW r \in Req
               PROVE  /\ pc[r] # "idle" => input[r].op # "none" /\ Mail(r) \in Email
                      /\ pc[r] \in {"insert", "commit"} => input[r].op = "register"
                      /\ pc[r] = "compare" => input[r].op = "login"
                      /\ pc[r] # "done" => reply[r] = None
                      /\ pc[r] \in Holding => seen[r].id # None
                      /\ pc[r] \in Holding /\ input[r].op = "register" =>
                           seen[r].id = r /\ owner[Mail(r)] = r
                      /\ seen[r].id # None => tenant[seen[r].id] # "absent"
    BY DEF InFlight
  <2>1. pc[r] = "idle"
    BY DEF Init
  <2>2. reply[r] = None
    BY DEF Init
  <2>3. seen[r].id = None
    BY DEF Init
  <2> QED BY <2>1, <2>2, <2>3 DEF Holding
<1>5. Migrated /\ AccountIsKept /\ ReadyWasMigrated /\ TokenIsUsable
  BY <1>2, ProvisioningAssumption
     DEF Migrated, AccountIsKept, ReadyWasMigrated, TokenIsUsable, Codes
<1> QED BY <1>1, <1>3, <1>4, <1>5 DEF IInv

(* rows and index entries are those of a register past its insert *)
LEMMA ClaimsOfRegisters ==
  ASSUME IInv, NEW r \in Req, NEW e \in Email
  PROVE  /\ owner[e] = r => input[r].op = "register" /\ pc[r] \in Holding \cup {"done"}
         /\ claim[e] = r => input[r].op = "register" /\ pc[r] = "commit"
<1>1. r # None
  BY ProvisioningAssumption
<1>2. owner[e] = r => input[r].op = "register" /\ pc[r] \in Holding \cup {"done"}
  BY <1>1 DEF IInv, Ownership
<1>3. claim[e] = r => input[r].op = "register" /\ pc[r] = "commit"
  BY <1>1 DEF IInv, Ownership, InFlight
<1> QED BY <1>2, <1>3

(* Send keeps the invariant. *)
LEMMA SendInv ==
  ASSUME IInv, NEW r \in Req, Send(r)
  PROVE  IInv'
<1> USE ProvisioningAssumption
    DEF IInv, Codes, At, Mail, rows, Status, Missing, Holding, Unseen
<1>1. PICK op \in {"register", "login"}, e \in Email :
        input' = [input EXCEPT ![r] = [op |-> op, email |-> e]]
  BY DEF Send
<1>2. /\ pc[r] = "idle" /\ pc' = [pc EXCEPT ![r] = "start"]
      /\ UNCHANGED <<tenant, owner, claim, schemas, release, script, failures, seen, reply>>
  BY DEF Send
<1>3. TypeOK'
  BY <1>1, <1>2 DEF TypeOK, InFlight
<1>4. /\ reply[r] = None
      /\ \A f \in Email : owner[f] # r /\ claim[f] # r
      /\ tenant[r] = "absent"
  <2>1. reply[r] = None
    BY <1>2 DEF InFlight
  <2>2. \A f \in Email : owner[f] # r /\ claim[f] # r
    BY <1>2, ClaimsOfRegisters DEF Holding
  <2>3. tenant[r] = "absent"
    BY <2>2 DEF TypeOK, Ownership
  <2> QED BY <2>1, <2>2, <2>3
<1>5. Ownership'
  BY <1>1, <1>2, <1>4 DEF TypeOK, Ownership, InFlight
<1>6. InFlight'
  BY <1>1, <1>2, <1>4 DEF TypeOK, Ownership, InFlight
<1>7. Migrated' /\ AccountIsKept' /\ ReadyWasMigrated' /\ TokenIsUsable'
  BY <1>1, <1>2, <1>4 DEF TypeOK, Ownership, InFlight, Migrated,
       AccountIsKept, ReadyWasMigrated, TokenIsUsable
<1> QED BY <1>3, <1>5, <1>6, <1>7

(* an account that is there already, or a transaction that nobody else sees *)
LEMMA BeginRegisterInv ==
  ASSUME IInv, NEW r \in Req, BeginRegister(r)
  PROVE  IInv'
<1> USE ProvisioningAssumption
    DEF IInv, Codes, At, Mail, rows, Status, Missing, Holding, Unseen
<1>1. /\ pc[r] = "start" /\ input[r].op = "register"
      /\ UNCHANGED <<rows, schemas, release, script, failures, seen, input>>
      /\ \/ pc' = [pc EXCEPT ![r] = "done"] /\ reply' = [reply EXCEPT ![r] = 409]
         \/ pc' = [pc EXCEPT ![r] = "insert"] /\ reply' = reply
  BY DEF BeginRegister, BeginTransaction, Goto, Answer, Smooth
<1>2. pc' \in [Req -> {"idle", "start", "insert", "commit", "compare", "provision",
                       "create", "migrate", "confirm", "mark", "done"}]
  BY <1>1 DEF TypeOK
<1>3. reply' \in [Req -> Codes \cup {None}]
  BY <1>1 DEF TypeOK
<1>4. TypeOK'
  BY <1>1, <1>2, <1>3 DEF TypeOK, InFlight
<1>5. Ownership'
  <2>1. \A e \in Email : owner[e] # r /\ claim[e] # r
    BY <1>1, ClaimsOfRegisters
  <2>2. \A q \in Req \ {r} : pc'[q] = pc[q]
    BY <1>1 DEF TypeOK
  <2>3. pc'[r] # "commit"
    BY <1>1 DEF TypeOK
  <2> HIDE DEF Holding
  <2> QED BY <1>1, <2>1, <2>2, <2>3 DEF TypeOK, Ownership
<1>6. InFlight'
  BY <1>1 DEF TypeOK, Ownership, InFlight
<1>7. Migrated' /\ AccountIsKept' /\ ReadyWasMigrated' /\ TokenIsUsable'
  BY <1>1 DEF TypeOK, Ownership, InFlight, Migrated,
       AccountIsKept, ReadyWasMigrated, TokenIsUsable
<1> QED BY <1>4, <1>5, <1>6, <1>7

(* CreateSchema keeps the invariant. *)
LEMMA CreateSchemaInv ==
  ASSUME IInv, NEW r \in Req, CreateSchema(r)
  PROVE  IInv'
<1> USE ProvisioningAssumption
    DEF IInv, Codes, At, Mail, rows, Status, Missing, Holding, Unseen,
        CreateSchema, Tenant, Goto, Smooth
<1>1. TypeOK'
  BY DEF TypeOK, InFlight
<1>2. Ownership'
  BY DEF TypeOK, Ownership, InFlight
<1>3. InFlight'
  BY DEF TypeOK, Ownership, InFlight
<1>4. Migrated'
  BY DEF TypeOK, InFlight, Migrated, ReadyWasMigrated
<1>5. AccountIsKept'
  BY DEF TypeOK, Ownership, InFlight, AccountIsKept
<1>6. ReadyWasMigrated'
  BY DEF TypeOK, InFlight, Migrated, ReadyWasMigrated
<1>7. TokenIsUsable'
  BY DEF TypeOK, InFlight, Migrated, TokenIsUsable
<1> QED BY <1>1, <1>2, <1>3, <1>4, <1>5, <1>6, <1>7

(* Confirm keeps the invariant. *)
LEMMA ConfirmInv ==
  ASSUME IInv, NEW r \in Req, Confirm(r)
  PROVE  IInv'
<1> USE ProvisioningAssumption
    DEF IInv, Codes, At, Mail, rows, Status, Missing, Holding, Unseen,
        Confirm, Tenant, Finish, Answer, Smooth
<1>1. TypeOK'
  BY DEF TypeOK, InFlight
<1>2. Ownership'
  BY DEF TypeOK, Ownership, InFlight
<1>3. InFlight'
  BY DEF TypeOK, Ownership, InFlight
<1>4. Migrated'
  BY DEF TypeOK, InFlight, Migrated, ReadyWasMigrated
<1>5. AccountIsKept'
  BY DEF TypeOK, Ownership, InFlight, AccountIsKept
<1>6. ReadyWasMigrated'
  BY DEF TypeOK, InFlight, Migrated, ReadyWasMigrated
<1>7. TokenIsUsable'
  BY DEF TypeOK, InFlight, Migrated, TokenIsUsable
<1> QED BY <1>1, <1>2, <1>3, <1>4, <1>5, <1>6, <1>7

(* MarkFailed keeps the invariant. *)
LEMMA MarkFailedInv ==
  ASSUME IInv, NEW r \in Req, MarkFailed(r)
  PROVE  IInv'
<1> USE ProvisioningAssumption
    DEF IInv, Codes, At, Mail, rows, Status, Missing, Holding, Unseen,
        MarkFailed, Tenant, Finish, Answer, Smooth
<1>1. TypeOK'
  BY DEF TypeOK, InFlight
<1>2. Ownership'
  BY DEF TypeOK, Ownership, InFlight
<1>3. InFlight'
  BY DEF TypeOK, Ownership, InFlight
<1>4. Migrated'
  BY DEF TypeOK, InFlight, Migrated, ReadyWasMigrated
<1>5. AccountIsKept'
  BY DEF TypeOK, Ownership, InFlight, AccountIsKept
<1>6. ReadyWasMigrated'
  BY DEF TypeOK, InFlight, Migrated, ReadyWasMigrated
<1>7. TokenIsUsable'
  BY DEF TypeOK, InFlight, Migrated, TokenIsUsable
<1> QED BY <1>1, <1>2, <1>3, <1>4, <1>5, <1>6, <1>7

(* MarkLost keeps the invariant. *)
LEMMA MarkLostInv ==
  ASSUME IInv, NEW r \in Req, MarkLost(r)
  PROVE  IInv'
<1> USE ProvisioningAssumption
    DEF IInv, Codes, At, Mail, rows, Status, Missing, Holding, Unseen,
        MarkLost, Finish, Answer, Mishap
<1>1. TypeOK'
  BY DEF TypeOK, InFlight
<1>2. Ownership'
  BY DEF TypeOK, Ownership, InFlight
<1>3. InFlight'
  BY DEF TypeOK, Ownership, InFlight
<1>4. Migrated'
  BY DEF TypeOK, InFlight, Migrated, ReadyWasMigrated
<1>5. AccountIsKept'
  BY DEF TypeOK, Ownership, InFlight, AccountIsKept
<1>6. ReadyWasMigrated'
  BY DEF TypeOK, InFlight, Migrated, ReadyWasMigrated
<1>7. TokenIsUsable'
  BY DEF TypeOK, InFlight, Migrated, TokenIsUsable
<1> QED BY <1>1, <1>2, <1>3, <1>4, <1>5, <1>6, <1>7

(* the schema of t gets what the releases up to n bring, and loses nothing *)
Advances(t, n) == schema' = [schema EXCEPT ![t] = n] /\ (schema[t] >= 1 => n >= 1)

(* a run of the migrations, ended or broken off, takes no release away *)
LEMMA RunOfMigrations ==
  ASSUME TypeOK, NEW t \in Req, Applied(t) \/ BrokenOff(t)
  PROVE  broken' \subseteq Req /\ \E n \in Missing..MaxRelease : Advances(t, n)
<1>1. /\ schema[t] \in Int /\ Missing <= schema[t] /\ Missing \in Int
      /\ release \in Int /\ 1 <= release /\ release <= MaxRelease /\ MaxRelease \in Int
  BY ProvisioningAssumption DEF TypeOK, Missing
<1>2. broken' \subseteq Req
  BY DEF Applied, BrokenOff, TypeOK
<1>3. PICK n \in (schema[t]..release) \cup {release} : schema' = [schema EXCEPT ![t] = n]
  BY DEF Applied, BrokenOff
<1>4. n \in Missing..MaxRelease
  BY <1>1 DEF Missing
<1>5. schema[t] >= 1 => n >= 1
  BY <1>1
<1> QED BY <1>2, <1>3, <1>4, <1>5 DEF Advances

(* so it leaves no schema worse off *)
LEMMA NotWorse ==
  ASSUME TypeOK, NEW t \in Req, UNCHANGED schemas \/ Applied(t) \/ BrokenOff(t)
  PROVE  /\ schema' \in [Req -> Missing..MaxRelease] /\ broken' \subseteq Req
         /\ \A u \in Req : schema[u] >= 1 => schema'[u] >= 1
<1>1. CASE UNCHANGED schemas
  BY <1>1 DEF TypeOK
<1>2. CASE Applied(t) \/ BrokenOff(t)
  <2>1. broken' \subseteq Req
    BY <1>2, RunOfMigrations
  <2>2. PICK n \in Missing..MaxRelease : Advances(t, n)
    BY <1>2, RunOfMigrations
  <2>3. \A u \in Req : schema'[u] = IF u = t THEN n ELSE schema[u]
    BY <2>2 DEF TypeOK, Advances
  <2> QED BY <2>1, <2>2, <2>3 DEF TypeOK, Advances
<1> QED BY <1>1, <1>2

(* Applied brings the schema up to the release that runs *)
LEMMA AppliedIsMigrated ==
  ASSUME TypeOK, NEW t \in Req, Applied(t)
  PROVE  schema'[t] >= 1
  BY ProvisioningAssumption DEF TypeOK, Applied

(* a run of the migrations alone, with nothing else of the state moved *)
LEMMA SchemasInv ==
  ASSUME IInv, schema' \in [Req -> Missing..MaxRelease], broken' \subseteq Req,
         \A u \in Req : schema[u] >= 1 => schema'[u] >= 1,
         script' \subseteq Req, failures' \in 0..MaxFailures,
         UNCHANGED <<rows, release, input, pc, seen, reply>>
  PROVE  IInv'
<1> USE DEF IInv, Mail, rows
<1>1. TypeOK'
  BY DEF TypeOK
<1>2. Ownership'
  BY DEF Ownership
<1>3. InFlight'
  BY DEF InFlight
<1>4. Migrated'
  BY DEF TypeOK, Migrated, Holding, InFlight
<1>5. AccountIsKept' /\ ReadyWasMigrated' /\ TokenIsUsable'
  BY DEF TypeOK, AccountIsKept, ReadyWasMigrated, TokenIsUsable
<1> QED BY <1>1, <1>2, <1>3, <1>4, <1>5

(* Migrate keeps the invariant. *)
LEMMA MigrateInv ==
  ASSUME IInv, NEW r \in Req, Migrate(r)
  PROVE  IInv'
<1> USE ProvisioningAssumption
    DEF IInv, Codes, At, Mail, rows, Status, Missing, Holding, Unseen
<1>1. /\ pc[r] = "migrate" /\ Tenant(r) \in Req
      /\ UNCHANGED <<tenant, owner, claim, release, script, failures, seen, input, reply>>
      /\ \/ Applied(Tenant(r)) /\ pc' = [pc EXCEPT ![r] = "confirm"]
         \/ UNCHANGED schemas /\ pc' = [pc EXCEPT ![r] = "mark"]
  BY DEF Migrate, Goto, Smooth, Tenant, TypeOK, InFlight
<1>2. /\ schema' \in [Req -> Missing..MaxRelease] /\ broken' \subseteq Req
      /\ \A u \in Req : schema[u] >= 1 => schema'[u] >= 1
  BY <1>1, NotWorse
<1>3. pc'[r] = "confirm" => schema'[Tenant(r)] >= 1
  BY <1>1, AppliedIsMigrated DEF TypeOK
<1>4. /\ pc'[r] \in {"confirm", "mark"} /\ \A q \in Req \ {r} : pc'[q] = pc[q]
      /\ pc' \in [Req -> {"idle", "start", "insert", "commit", "compare", "provision",
                         "create", "migrate", "confirm", "mark", "done"}]
  <2>1. CASE pc' = [pc EXCEPT ![r] = "confirm"]
    BY <2>1 DEF TypeOK
  <2>2. CASE pc' = [pc EXCEPT ![r] = "mark"]
    BY <2>2 DEF TypeOK
  <2> QED BY <1>1, <2>1, <2>2
<1>5. TypeOK'
  BY <1>1, <1>2, <1>4 DEF TypeOK
<1>6. Ownership'
  BY <1>1, <1>4 DEF TypeOK, Ownership, InFlight
<1>7. InFlight'
  BY <1>1, <1>4 DEF TypeOK, InFlight
<1>8. Migrated'
  BY <1>1, <1>2, <1>3, <1>4 DEF TypeOK, InFlight, Migrated, Tenant
<1>9. AccountIsKept' /\ ReadyWasMigrated' /\ TokenIsUsable'
  BY <1>1, <1>2 DEF TypeOK, AccountIsKept, ReadyWasMigrated, TokenIsUsable
<1> QED BY <1>5, <1>6, <1>7, <1>8, <1>9

(* AttemptFails keeps the invariant. *)
LEMMA AttemptFailsInv ==
  ASSUME IInv, NEW r \in Req, AttemptFails(r)
  PROVE  IInv'
<1> USE ProvisioningAssumption
    DEF IInv, Codes, At, Mail, rows, Status, Missing, Holding, Unseen
<1>1. /\ pc[r] \in {"create", "migrate", "confirm"} /\ Tenant(r) \in Req
      /\ tenant[Tenant(r)] # "absent" /\ failures' \in 0..MaxFailures
      /\ pc' = [pc EXCEPT ![r] = "mark"]
      /\ UNCHANGED <<owner, claim, release, script, seen, input, reply>>
  BY DEF AttemptFails, Mishap, Goto, Tenant, TypeOK, InFlight
<1>2. tenant' = tenant \/ /\ pc[r] = "confirm" /\ UNCHANGED schemas
                          /\ tenant' = [tenant EXCEPT ![Tenant(r)] = "READY"]
  BY DEF AttemptFails
<1>3. /\ schema' \in [Req -> Missing..MaxRelease] /\ broken' \subseteq Req
      /\ \A u \in Req : schema[u] >= 1 => schema'[u] >= 1
  <2>1. UNCHANGED schemas \/ BrokenOff(Tenant(r))
    BY DEF AttemptFails
  <2> QED BY <1>1, <2>1, NotWorse
<1>4. TypeOK'
  <2>1. pc' \in [Req -> {"idle", "start", "insert", "commit", "compare", "provision",
                         "create", "migrate", "confirm", "mark", "done"}]
    BY <1>1 DEF TypeOK
  <2>2. tenant' \in [Req -> Status]
    BY <1>1, <1>2 DEF TypeOK
  <2> QED BY <1>1, <1>3, <2>1, <2>2 DEF TypeOK
<1>5. Ownership'
  BY <1>1, <1>2 DEF TypeOK, Ownership, InFlight
<1>6. InFlight'
  BY <1>1, <1>2 DEF TypeOK, InFlight
<1>7. Migrated'
  BY <1>1, <1>3 DEF TypeOK, InFlight, Migrated
<1>8. ReadyWasMigrated'
  BY <1>1, <1>2, <1>3 DEF TypeOK, Migrated, ReadyWasMigrated, Tenant
<1>9. AccountIsKept' /\ TokenIsUsable'
  BY <1>1, <1>3 DEF TypeOK, AccountIsKept, TokenIsUsable
<1> QED BY <1>4, <1>5, <1>6, <1>7, <1>8, <1>9

(* Abort keeps the invariant. *)
LEMMA AbortInv ==
  ASSUME IInv, NEW r \in Req, Abort(r)
  PROVE  IInv'
<1> USE ProvisioningAssumption
    DEF IInv, Codes, At, Mail, rows, Status, Missing, Holding, Unseen
<1>1. /\ pc[r] \notin {"idle", "done"} /\ failures' \in 0..MaxFailures
      /\ pc' = [pc EXCEPT ![r] = "done"] /\ reply' = [reply EXCEPT ![r] = 500]
      /\ claim' = [e \in Email |-> IF claim[e] = r THEN None ELSE claim[e]]
      /\ UNCHANGED <<tenant, owner, release, script, seen, input>>
  BY DEF Abort, Mishap, Answer, Released, TypeOK
<1>2. /\ schema' \in [Req -> Missing..MaxRelease] /\ broken' \subseteq Req
      /\ \A u \in Req : schema[u] >= 1 => schema'[u] >= 1
  <2>1. CASE UNCHANGED schemas
    BY <2>1 DEF TypeOK
  <2>2. CASE pc[r] = "migrate" /\ (Applied(Tenant(r)) \/ BrokenOff(Tenant(r)))
    <3>1. Tenant(r) \in Req
      BY <2>2 DEF Tenant, TypeOK, InFlight
    <3> QED BY <2>2, <3>1, NotWorse
  <2> QED BY <2>1, <2>2 DEF Abort
<1>3. TypeOK'
  <2>1. pc' \in [Req -> {"idle", "start", "insert", "commit", "compare", "provision",
                         "create", "migrate", "confirm", "mark", "done"}]
    BY <1>1 DEF TypeOK
  <2>2. reply' \in [Req -> Codes \cup {None}]
    BY <1>1 DEF TypeOK
  <2>3. claim' \in [Email -> Req \cup {None}]
    BY <1>1 DEF TypeOK
  <2> QED BY <1>1, <1>2, <2>1, <2>2, <2>3 DEF TypeOK
<1>4. Ownership'
  BY <1>1 DEF TypeOK, Ownership, InFlight
<1>5. InFlight'
  BY <1>1 DEF TypeOK, InFlight
<1>6. Migrated' /\ ReadyWasMigrated'
  BY <1>1, <1>2 DEF TypeOK, Migrated, ReadyWasMigrated, InFlight
<1>7. AccountIsKept' /\ TokenIsUsable'
  BY <1>1, <1>2 DEF TypeOK, AccountIsKept, TokenIsUsable
<1> QED BY <1>3, <1>4, <1>5, <1>6, <1>7

(* InsertUser keeps the invariant. *)
LEMMA InsertUserInv ==
  ASSUME IInv, NEW r \in Req, InsertUser(r)
  PROVE  IInv'
<1> USE ProvisioningAssumption
    DEF IInv, Codes, At, Mail, rows, Status, Missing, Holding, Unseen
<1>1. /\ pc[r] = "insert" /\ input[r].op = "register" /\ Mail(r) \in Email
      /\ UNCHANGED <<release, script, failures, tenant, owner, schemas, seen, input>>
  BY DEF InsertUser, Taken, Goto, Answer, Smooth, InFlight
<1>2. ASSUME NEW code \in {409, 500}, reply' = [reply EXCEPT ![r] = code],
             pc' = [pc EXCEPT ![r] = "done"], claim' = claim
      PROVE  IInv'
  <2>1. TypeOK'
    BY <1>1, <1>2 DEF TypeOK, InFlight
  <2>2. Ownership' /\ InFlight'
    BY <1>1, <1>2 DEF TypeOK, Ownership, InFlight
  <2>3. Migrated' /\ AccountIsKept' /\ ReadyWasMigrated' /\ TokenIsUsable'
    BY <1>1, <1>2 DEF TypeOK, Ownership, InFlight, Migrated,
         AccountIsKept, ReadyWasMigrated, TokenIsUsable
  <2> QED BY <2>1, <2>2, <2>3
<1>3. CASE /\ owner[Mail(r)] = None /\ claim[Mail(r)] = None
           /\ claim' = [claim EXCEPT ![Mail(r)] = r]
           /\ pc' = [pc EXCEPT ![r] = "commit"] /\ reply' = reply
  <2>1. TypeOK'
    BY <1>1, <1>3 DEF TypeOK, InFlight
  <2>2. Ownership' /\ InFlight'
    BY <1>1, <1>3 DEF TypeOK, Ownership, InFlight
  <2>3. Migrated' /\ AccountIsKept' /\ ReadyWasMigrated' /\ TokenIsUsable'
    BY <1>1, <1>3 DEF TypeOK, Ownership, InFlight, Migrated,
         AccountIsKept, ReadyWasMigrated, TokenIsUsable
  <2> QED BY <2>1, <2>2, <2>3
<1> QED BY <1>1, <1>2, <1>3 DEF InsertUser, Taken, Goto, Answer, Smooth

(* the entry in the index has kept the email free *)
LEMMA CommitRegisterInv ==
  ASSUME IInv, NEW r \in Req, CommitRegister(r)
  PROVE  IInv'
<1> USE ProvisioningAssumption
    DEF IInv, Codes, At, Mail, rows, Status, Missing, Holding, Unseen,
        CommitRegister, Goto, Smooth, Released
<1>1. owner[Mail(r)] = None /\ reply[r] = None /\ Mail(r) \in Email
  BY DEF InFlight, Ownership
<1>2. TypeOK'
  BY DEF TypeOK, InFlight
<1>3. Ownership'
  BY <1>1 DEF TypeOK, Ownership, InFlight
<1>4. InFlight'
  BY <1>1 DEF TypeOK, Ownership, InFlight
<1>5. Migrated' /\ AccountIsKept' /\ ReadyWasMigrated'
  BY <1>1 DEF TypeOK, Ownership, InFlight, Migrated, AccountIsKept, ReadyWasMigrated
<1>6. TokenIsUsable'
  <2> SUFFICES ASSUME NEW q \in Req, reply'[q] = 200
               PROVE  seen'[q].id # None /\ schema'[seen'[q].id] >= 1
    BY DEF TokenIsUsable
  <2>1. q # r /\ reply[q] = 200
    BY <1>1
  <2> QED BY <2>1 DEF TokenIsUsable, TypeOK
<1> QED BY <1>2, <1>3, <1>4, <1>5, <1>6

(* a step that only moves r on, with its row read or not: no 201 or 200 *)
LEMMA LoginInv ==
  ASSUME IInv, NEW r \in Req, pc[r] \in {"start", "compare"}, input[r].op = "login",
         UNCHANGED <<rows, schemas, release, script, failures, input>>,
         seen' \in [Req -> [id: Req \cup {None}, status: Status]],
         \A q \in Req \ {r} : seen'[q] = seen[q],
         seen'[r].id # None => tenant[seen'[r].id] # "absent",
         seen'[r].status = "READY" => seen'[r].id # None /\ schema[seen'[r].id] >= 1,
         \/ /\ pc' = [pc EXCEPT ![r] = "done"] /\ reply' = [reply EXCEPT ![r] = 401]
         \/ /\ pc[r] = "start" /\ pc' = [pc EXCEPT ![r] = "compare"] /\ reply' = reply
            /\ seen'[r].id # None
         \/ /\ pc[r] = "compare" /\ pc' = [pc EXCEPT ![r] = "provision"] /\ reply' = reply
            /\ seen'[r].id # None
  PROVE  IInv'
<1> USE ProvisioningAssumption
    DEF IInv, Codes, At, Mail, rows, Status, Missing, Holding, Unseen
<1>1. /\ reply[r] = None /\ reply'[r] \in {None, 401}
      /\ pc'[r] \in {"compare", "provision", "done"}
      /\ \A q \in Req \ {r} : pc'[q] = pc[q] /\ reply'[q] = reply[q] /\ seen'[q] = seen[q]
      /\ \A e \in Email : claim[e] # r /\ owner[e] # r
  <2>1. reply[r] = None /\ reply'[r] \in {None, 401}
    BY DEF TypeOK, InFlight
  <2>2. pc'[r] \in {"compare", "provision", "done"}
    BY DEF TypeOK, InFlight
  <2>3. \A q \in Req \ {r} : pc'[q] = pc[q] /\ reply'[q] = reply[q] /\ seen'[q] = seen[q]
    BY DEF TypeOK, InFlight
  <2>4. \A e \in Email : claim[e] # r /\ owner[e] # r
    BY ClaimsOfRegisters
  <2> QED BY <2>1, <2>2, <2>3, <2>4
<1>2. TypeOK'
  <2>1. pc' \in [Req -> {"idle", "start", "insert", "commit", "compare", "provision",
                         "create", "migrate", "confirm", "mark", "done"}]
    BY DEF TypeOK, InFlight
  <2>2. reply' \in [Req -> Codes \cup {None}]
    BY DEF TypeOK, InFlight
  <2> QED BY <2>1, <2>2 DEF TypeOK
<1>3. Ownership'
  BY <1>1 DEF TypeOK, Ownership, InFlight
<1>4. InFlight'
  BY <1>1 DEF TypeOK, Ownership, InFlight
<1>5. Migrated' /\ AccountIsKept' /\ ReadyWasMigrated'
  BY <1>1 DEF TypeOK, Ownership, InFlight, Migrated, AccountIsKept, ReadyWasMigrated
<1>6. TokenIsUsable'
  BY <1>1 DEF TypeOK, InFlight, Migrated, TokenIsUsable
<1> QED BY <1>2, <1>3, <1>4, <1>5, <1>6

(* FindUser keeps the invariant. *)
LEMMA FindUserInv ==
  ASSUME IInv, NEW r \in Req, FindUser(r)
  PROVE  IInv'
<1> USE ProvisioningAssumption
    DEF IInv, Codes, At, Mail, rows, Status, Missing, Holding, Unseen
<1>1. /\ pc[r] = "start" /\ input[r].op = "login" /\ Mail(r) \in Email
      /\ UNCHANGED <<rows, schemas, release, script, failures, input>>
  BY DEF FindUser, Goto, Answer, Smooth, InFlight
<1>2. CASE owner[Mail(r)] = None
  <2>1. /\ pc' = [pc EXCEPT ![r] = "done"] /\ reply' = [reply EXCEPT ![r] = 401]
        /\ seen' = seen
    BY <1>2 DEF FindUser, Answer
  <2>2. /\ seen'[r].id # None => tenant[seen'[r].id] # "absent"
        /\ seen'[r].status = "READY" => seen'[r].id # None /\ schema[seen'[r].id] >= 1
        /\ \A q \in Req \ {r} : seen'[q] = seen[q]
    BY <2>1 DEF InFlight, Migrated
  <2>3. seen' \in [Req -> [id: Req \cup {None}, status: Status]]
    BY <2>1 DEF TypeOK
  <2>4. pc[r] \in {"start", "compare"}
    BY <1>1
  <2> HIDE DEF IInv, Mail, Status, Codes, Holding
  <2> QED BY ONLY IInv, r \in Req, <1>1, <2>1, <2>2, <2>3, <2>4, LoginInv
<1>3. CASE owner[Mail(r)] # None
  <2> DEFINE t == owner[Mail(r)]
  <2>1. /\ pc' = [pc EXCEPT ![r] = "compare"] /\ reply' = reply
        /\ seen' = [seen EXCEPT ![r] = [id |-> t, status |-> tenant[t]]]
    BY <1>3 DEF FindUser, Goto
  <2>2. /\ t \in Req /\ tenant[t] \in Status /\ tenant[t] # "absent"
        /\ tenant[t] = "READY" => schema[t] >= 1
    BY <1>1, <1>3 DEF TypeOK, Ownership, ReadyWasMigrated
  <2> HIDE DEF t
  <2>3. [id |-> t, status |-> tenant[t]] \in [id: Req \cup {None}, status: Status]
    BY <2>2
  <2>4. seen' \in [Req -> [id: Req \cup {None}, status: Status]]
    BY <2>1, <2>3 DEF TypeOK
  <2>5. /\ seen'[r].id = t /\ seen'[r].status = tenant[t]
        /\ \A q \in Req \ {r} : seen'[q] = seen[q]
    BY <2>1 DEF TypeOK
  <2>6. /\ seen'[r].id # None /\ tenant[seen'[r].id] # "absent"
        /\ seen'[r].status = "READY" => schema[seen'[r].id] >= 1
    BY <2>2, <2>5
  <2>7. /\ pc[r] \in {"start", "compare"} /\ pc[r] = "start"
        /\ pc' = [pc EXCEPT ![r] = "compare"] /\ reply' = reply
    BY <1>1, <2>1
  <2> HIDE DEF IInv, Mail, Status, Codes, Holding
  <2> QED BY ONLY IInv, r \in Req, <1>1, <2>4, <2>5, <2>6, <2>7, LoginInv
<1> QED BY <1>2, <1>3

(* ComparePassword keeps the invariant. *)
LEMMA ComparePasswordInv ==
  ASSUME IInv, NEW r \in Req, ComparePassword(r)
  PROVE  IInv'
<1> USE ProvisioningAssumption
    DEF IInv, Codes, At, Mail, rows, Status, Missing, Holding, Unseen
<1>1. /\ pc[r] = "compare" /\ input[r].op = "login" /\ seen[r].id # None
      /\ UNCHANGED <<rows, schemas, release, script, failures, input, seen>>
      /\ \/ /\ pc' = [pc EXCEPT ![r] = "done"] /\ reply' = [reply EXCEPT ![r] = 401]
         \/ /\ pc' = [pc EXCEPT ![r] = "provision"] /\ reply' = reply
  BY DEF ComparePassword, Goto, Answer, Smooth, InFlight
<1>2. /\ seen[r].id # None => tenant[seen[r].id] # "absent"
      /\ seen[r].status = "READY" => seen[r].id # None /\ schema[seen[r].id] >= 1
  BY DEF InFlight, Migrated
<1>3. seen' \in [Req -> [id: Req \cup {None}, status: Status]]
  BY <1>1 DEF TypeOK
<1> QED BY <1>1, <1>2, <1>3, LoginInv

(* EnsureProvisioned keeps the invariant. *)
LEMMA EnsureProvisionedInv ==
  ASSUME IInv, NEW r \in Req, EnsureProvisioned(r)
  PROVE  IInv'
<1> USE ProvisioningAssumption
    DEF IInv, Codes, At, Mail, rows, Status, Missing, Holding, Unseen
<1>1. /\ pc[r] = "provision"
      /\ UNCHANGED <<rows, schemas, release, script, failures, input, seen>>
  BY DEF EnsureProvisioned, Finish, Goto, Answer, Smooth
<1>2. CASE /\ pc' = [pc EXCEPT ![r] = "create"] /\ reply' = reply
  <2>1. TypeOK'
    BY <1>1, <1>2 DEF TypeOK, InFlight
  <2>2. Ownership' /\ InFlight'
    BY <1>1, <1>2 DEF TypeOK, Ownership, InFlight
  <2>3. Migrated' /\ AccountIsKept' /\ ReadyWasMigrated' /\ TokenIsUsable'
    BY <1>1, <1>2 DEF TypeOK, Ownership, InFlight, Migrated,
         AccountIsKept, ReadyWasMigrated, TokenIsUsable
  <2> QED BY <2>1, <2>2, <2>3
<1>3. CASE /\ seen[r].status = "READY" /\ pc' = [pc EXCEPT ![r] = "done"]
           /\ reply' = [reply EXCEPT ![r] = IF input[r].op = "register" THEN 201 ELSE 200]
  <2>1. TypeOK'
    BY <1>1, <1>3 DEF TypeOK, InFlight
  <2>2. Ownership' /\ InFlight'
    BY <1>1, <1>3 DEF TypeOK, Ownership, InFlight
  <2>3. Migrated' /\ AccountIsKept' /\ ReadyWasMigrated' /\ TokenIsUsable'
    BY <1>1, <1>3 DEF TypeOK, Ownership, InFlight, Migrated,
         AccountIsKept, ReadyWasMigrated, TokenIsUsable
  <2> QED BY <2>1, <2>2, <2>3
<1>4. \/ ~NeedsProvisioning(r) /\ Finish(r, seen[r].status)
      \/ NeedsProvisioning(r) /\ Goto(r, "create")
  BY DEF EnsureProvisioned
<1> QED BY <1>2, <1>3, <1>4 DEF NeedsProvisioning, Finish, Goto, Answer

(* Deploy keeps the invariant. *)
LEMMA DeployInv ==
  ASSUME IInv, Deploy
  PROVE  IInv'
  BY ProvisioningAssumption
     DEF Deploy, IInv, TypeOK, Ownership, InFlight, Migrated,
          AccountIsKept, ReadyWasMigrated, TokenIsUsable,
         Codes, At, Mail, rows, Status, Missing, Holding, Unseen

(* StartScript keeps the invariant. *)
LEMMA StartScriptInv ==
  ASSUME IInv, StartScript
  PROVE  IInv'
  BY ProvisioningAssumption
     DEF StartScript, IInv, TypeOK, Ownership, InFlight, Migrated,
          AccountIsKept, ReadyWasMigrated, TokenIsUsable,
         Codes, At, Mail, rows, Status, Missing, Holding, Unseen

(* ScriptStep keeps the invariant. *)
LEMMA ScriptStepInv ==
  ASSUME IInv, NEW t \in Req, ScriptStep(t)
  PROVE  IInv'
<1>1. UNCHANGED schemas \/ Applied(t)
  BY DEF ScriptStep
<1>2. /\ script' \subseteq Req /\ failures' \in 0..MaxFailures
      /\ UNCHANGED <<rows, release, input, pc, seen, reply>>
  BY DEF ScriptStep, IInv, TypeOK
<1> QED BY <1>1, <1>2, NotWorse, SchemasInv DEF IInv

(* ScriptFails keeps the invariant. *)
LEMMA ScriptFailsInv ==
  ASSUME IInv, NEW t \in Req, ScriptFails(t)
  PROVE  IInv'
<1>1. UNCHANGED schemas \/ BrokenOff(t)
  BY DEF ScriptFails
<1>2. /\ script' \subseteq Req /\ failures' \in 0..MaxFailures
      /\ UNCHANGED <<rows, release, input, pc, seen, reply>>
  BY ProvisioningAssumption DEF ScriptFails, Mishap, IInv, TypeOK
<1> QED BY <1>1, <1>2, NotWorse, SchemasInv DEF IInv

(* Every step keeps it: a lemma for each action. *)
THEOREM StepInv == IInv /\ [Next]_vars => IInv'
<1> SUFFICES ASSUME IInv, [Next]_vars PROVE IInv'
  OBVIOUS
<1>1. CASE UNCHANGED vars
  BY <1>1 DEF vars, rows, IInv, TypeOK, Ownership, InFlight, Migrated, AccountIsKept,
              ReadyWasMigrated, TokenIsUsable, Mail
<1>2. CASE Next
  <2>1. ASSUME NEW r \in Req, Step(r) PROVE IInv'
    BY <2>1, BeginRegisterInv, InsertUserInv, CommitRegisterInv, FindUserInv,
       ComparePasswordInv, EnsureProvisionedInv, CreateSchemaInv, MigrateInv, ConfirmInv,
       MarkFailedInv DEF Step
  <2>2. ASSUME NEW r \in Req, Send(r) \/ MarkLost(r) \/ AttemptFails(r) \/ Abort(r)
        PROVE  IInv'
    BY <2>2, SendInv, MarkLostInv, AttemptFailsInv, AbortInv
  <2>3. ASSUME Deploy \/ StartScript \/ \E t \in Req : ScriptStep(t) \/ ScriptFails(t)
        PROVE  IInv'
    BY <2>3, DeployInv, StartScriptInv, ScriptStepInv, ScriptFailsInv
  <2> QED BY <1>1, <1>2, <2>1, <2>2, <2>3 DEF Next
<1> QED BY <1>1, <1>2

(* So it holds in every reachable state. *)
THEOREM Inductive == Spec => []IInv
  BY InitInv, StepInv, PTL DEF Spec

(* TypeOK, and the bounds of the counters, hold in every state. *)
THEOREM TypeCorrect == Spec => []TypeOK
<1>1. IInv => TypeOK
  BY DEF IInv
<1> QED BY <1>1, Inductive, PTL

(* auth.service.ts:28-29: the transaction of register leaves no Tenant     *)
(* without its owner, however registrations race and wherever they fail.   *)
THEOREM TenantsHaveOwners == Spec => []NoDanglingTenant
<1>1. IInv => NoDanglingTenant
  BY DEF IInv, Ownership, NoDanglingTenant
<1> QED BY <1>1, Inductive, PTL

(* An email whose registration was answered with 201 stays with the tenant *)
(* of that registration: the unique index decides between racing requests. *)
THEOREM AccountsAreKept == Spec => []AccountIsKept
<1>1. IInv => AccountIsKept
  BY DEF IInv
<1> QED BY <1>1, Inductive, PTL

(* READY is written only after a migration of that schema has ended, and   *)
(* what an attempt or a script run does later cannot undo it.              *)
THEOREM ReadyMeansMigrated == Spec => []ReadyWasMigrated
<1>1. IInv => ReadyWasMigrated
  BY DEF IInv
<1> QED BY <1>1, Inductive, PTL

(* auth.service.ts:61-63: a login gets its token only for a schema that    *)
(* has been migrated, even on a Tenant row read long ago.                  *)
THEOREM TokensAreUsable == Spec => []TokenIsUsable
<1>1. IInv => TokenIsUsable
  BY DEF IInv
<1> QED BY <1>1, Inductive, PTL
-----------------------------------------------------------------------------
(* Accounts *)

(* a handler holds the tenant of its own email, and the script knows its   *)
(* tenants from their rows                                                 *)
Owned == /\ \A r \in Req : seen[r].id # None => pc[r] # "idle" /\ owner[Mail(r)] = seen[r].id
         /\ \A t \in script : tenant[t] # "absent"

(* what a step of r leaves alone: the other requests, all accounts but the *)
(* one that a register opens, and every row that is there                  *)
Alone(r) ==
  /\ pc[r] # "done" /\ pc'[r] # "idle"
  /\ \A q \in Req \ {r} : /\ pc'[q] = pc[q] /\ seen'[q] = seen[q]
                          /\ input'[q] = input[q] /\ reply'[q] = reply[q]
  /\ \A t \in Req : tenant[t] # "absent" => tenant'[t] # "absent"
  /\ UNCHANGED script

(* a request acts for itself *)
LEMMA ActsAlone ==
  ASSUME IInv, NEW r \in Req,
         Send(r) \/ Step(r) \/ MarkLost(r) \/ AttemptFails(r) \/ Abort(r)
  PROVE  Alone(r)
<1> USE DEF Alone, At, Goto, Answer, Smooth, rows, IInv, TypeOK
<1>1. CASE Send(r) \/ MarkLost(r) \/ AttemptFails(r) \/ Abort(r)
  BY <1>1 DEF Send, MarkLost, AttemptFails, Abort, Finish
<1>2. CASE BeginRegister(r) \/ InsertUser(r) \/ CommitRegister(r)
  BY <1>2 DEF BeginRegister, BeginTransaction, InsertUser, CommitRegister
<1>3. CASE FindUser(r) \/ ComparePassword(r) \/ EnsureProvisioned(r) \/ CreateSchema(r)
  BY <1>3 DEF FindUser, ComparePassword, EnsureProvisioned, Finish, CreateSchema
<1>4. CASE Migrate(r) \/ Confirm(r) \/ MarkFailed(r)
  BY <1>4 DEF Migrate, Confirm, MarkFailed, Finish
<1> QED BY <1>1, <1>2, <1>3, <1>4 DEF Step

(* what a step of r does to its own row, email and tenant *)
LEMMA KeepsItsTenant ==
  ASSUME IInv, Owned, NEW r \in Req,
         Send(r) \/ Step(r) \/ MarkLost(r) \/ AttemptFails(r) \/ Abort(r)
  PROVE  \/ /\ UNCHANGED owner /\ (pc[r] # "idle" => UNCHANGED input)
            /\ \/ UNCHANGED seen
               \/ /\ pc[r] = "start" /\ seen'[r].id = owner[Mail(r)]
         \/ CommitRegister(r)
<1> USE DEF At, Goto, Answer, Smooth, rows, IInv, TypeOK
<1>1. CASE Send(r) \/ MarkLost(r) \/ AttemptFails(r) \/ Abort(r)
  BY <1>1 DEF Send, MarkLost, AttemptFails, Abort, Finish
<1>2. CASE BeginRegister(r) \/ InsertUser(r) \/ FindUser(r)
  BY <1>2 DEF BeginRegister, BeginTransaction, InsertUser, FindUser
<1>3. CASE ComparePassword(r) \/ EnsureProvisioned(r) \/ CreateSchema(r)
  BY <1>3 DEF ComparePassword, EnsureProvisioned, Finish, CreateSchema
<1>4. CASE Migrate(r) \/ Confirm(r) \/ MarkFailed(r)
  BY <1>4 DEF Migrate, Confirm, MarkFailed, Finish
<1> QED BY <1>1, <1>2, <1>3, <1>4 DEF Step

(* the tenant stays that of the email *)
LEMMA OwnedStep ==
  ASSUME IInv, Owned, [Next]_vars
  PROVE  Owned'
<1>1. CASE UNCHANGED vars
  BY <1>1 DEF vars, rows, Owned, Mail
<1>2. ASSUME NEW r \in Req,
             Send(r) \/ Step(r) \/ MarkLost(r) \/ AttemptFails(r) \/ Abort(r)
      PROVE  Owned'
  <2>1. Alone(r)
    BY <1>2, ActsAlone
  <2>2. \A t \in script' : tenant'[t] # "absent"
    BY <2>1 DEF Alone, Owned, IInv, TypeOK
  <2>3. CASE /\ UNCHANGED owner /\ (pc[r] # "idle" => UNCHANGED input)
             /\ \/ UNCHANGED seen
                \/ pc[r] = "start" /\ seen'[r].id = owner[Mail(r)]
    <3>1. \A q \in Req \ {r} : seen'[q].id # None =>
             pc'[q] # "idle" /\ owner'[Mail(q)'] = seen'[q].id
      BY <2>1, <2>3 DEF Alone, Owned, Mail
    <3>2. seen'[r].id # None => pc'[r] # "idle" /\ owner'[Mail(r)'] = seen'[r].id
      BY <2>1, <2>3 DEF Alone, Owned, Mail
    <3> QED BY <2>2, <3>1, <3>2 DEF Owned
  <2>4. CASE CommitRegister(r)
    <3>1. /\ Mail(r) \in Email /\ owner[Mail(r)] = None /\ owner' = [owner EXCEPT ![Mail(r)] = r]
          /\ seen'[r].id = r /\ UNCHANGED input
      BY <2>4, ProvisioningAssumption
         DEF CommitRegister, Goto, At, IInv, Ownership, InFlight, TypeOK
    <3>2. ASSUME NEW q \in Req, seen'[q].id # None
          PROVE  pc'[q] # "idle" /\ owner'[Mail(q)'] = seen'[q].id
      <4>1. CASE q = r
        BY <2>1, <3>1, <4>1 DEF Alone, Mail, IInv, TypeOK
      <4>2. CASE q # r
        <5>1. /\ seen[q].id # None /\ pc[q] # "idle" /\ owner[Mail(q)] = seen[q].id
              /\ Mail(q)' = Mail(q)
          BY <2>1, <3>1, <3>2, <4>2 DEF Alone, Owned, Mail
        <5>2. Mail(q) # Mail(r)
          BY <3>1, <5>1
        <5>3. owner'[Mail(q)] = owner[Mail(q)]
          BY <3>1, <5>2 DEF IInv, TypeOK, InFlight
        <5> QED BY <2>1, <4>2, <5>1, <5>3 DEF Alone
      <4> QED BY <4>1, <4>2
    <3> QED BY <2>2, <3>2 DEF Owned
  <2> QED BY <1>2, <2>3, <2>4, KeepsItsTenant
<1>3. CASE Deploy \/ \E t \in Req : ScriptStep(t) \/ ScriptFails(t)
  BY <1>3 DEF Deploy, ScriptStep, ScriptFails, rows, Owned, Mail
<1>4. CASE StartScript
  BY <1>4 DEF StartScript, rows, Owned, Mail
<1> QED BY <1>1, <1>2, <1>3, <1>4 DEF Next

(* nobody is told anything by a step that answers with neither 200 nor 201 *)
LEMMA ToldNothing ==
  ASSUME IInv, NEW r \in Req, Alone(r), reply'[r] \notin {200, 201}
  PROVE  [q \in Req |-> Told(q)'] = [q \in Req |-> Told(q)]
<1>1. reply[r] = None
  BY DEF Alone, IInv, InFlight
<1>2. reply[r] \notin {200, 201}
  BY <1>1, ProvisioningAssumption DEF Codes
<1>3. \A q \in Req : Told(q)' = Told(q)
  BY <1>2 DEF Alone, Told, Mail
<1> QED BY <1>3

(* a step that changes none of the variables of Accounts *)
LEMMA Unaccounted ==
  ASSUME UNCHANGED <<tenant, owner, schema>>,
         [q \in Req |-> Told(q)'] = [q \in Req |-> Told(q)]
  PROVE  UNCHANGED Account!vars
  BY DEF Account!vars

(* The commit of a register opens the account, a tenant with its owner. *)
LEMMA CommitOpens ==
  ASSUME IInv, NEW r \in Req, CommitRegister(r)
  PROVE  Account!Open(Mail(r), r) /\ Mail(r) \in Email
<1>1. Alone(r)
  BY ActsAlone DEF Step
<1>2. /\ pc[r] = "commit" /\ Mail(r) \in Email /\ claim[Mail(r)] = r /\ owner[Mail(r)] = None
      /\ reply[r] = None
  BY ProvisioningAssumption DEF CommitRegister, At, IInv, Ownership, InFlight
<1>3. tenant[r] = "absent"
  BY <1>2, ClaimsOfRegisters DEF IInv, Ownership, Holding
<1>4. /\ tenant' = [tenant EXCEPT ![r] = "PENDING"] /\ tenant \in [Req -> Status]
      /\ owner' = [owner EXCEPT ![Mail(r)] = r]
      /\ UNCHANGED <<schemas, reply>>
  BY DEF CommitRegister, Goto, IInv, TypeOK
<1>5. [q \in Req |-> Told(q)'] = [q \in Req |-> Told(q)]
  <2>1. reply'[r] \notin {200, 201}
    BY <1>2, <1>4, ProvisioningAssumption DEF Codes
  <2> QED BY <1>1, <2>1, ToldNothing
<1>6. {t \in Req : tenant'[t] # "absent"} = {t \in Req : tenant[t] # "absent"} \cup {r}
  BY <1>4 DEF Status
<1>7. {t \in Req : tenant'[t] = "READY"} = {t \in Req : tenant[t] = "READY"}
  BY <1>3, <1>4 DEF Status
<1> QED BY <1>2, <1>3, <1>4, <1>5, <1>6, <1>7 DEF Account!Open

(* What an attempt or a run of the script does to a schema is a migration, *)
(* or nothing that matters.                                                *)
LEMMA SchemaMigrates ==
  ASSUME IInv, NEW t \in Req, tenant[t] # "absent", NEW n \in Missing..MaxRelease,
         schema[t] >= 1 => n >= 1,
         schema' = [schema EXCEPT ![t] = n], UNCHANGED <<tenant, owner>>,
         [q \in Req |-> Told(q)'] = [q \in Req |-> Told(q)]
  PROVE  [Account!Next]_Account!vars
<1>1. n \in Int /\ schema \in [Req -> Int]
  BY ProvisioningAssumption DEF IInv, TypeOK, Missing
<1>2. CASE n >= 1
  <2>1. {q \in Req : schema'[q] >= 1} = {q \in Req : schema[q] >= 1} \cup {t}
    BY <1>1, <1>2
  <2>2. Account!Migrate(t)
    BY <2>1 DEF Account!Migrate
  <2> QED BY <2>2 DEF Account!Next
<1>3. CASE ~(n >= 1)
  <2>1. {q \in Req : schema'[q] >= 1} = {q \in Req : schema[q] >= 1}
    BY <1>1, <1>3
  <2>2. UNCHANGED Account!vars
    BY <2>1 DEF Account!vars
  <2> QED BY <2>2
<1> QED BY <1>2, <1>3

(* The end of an attempt marks the tenant of the email, and what the       *)
(* client is told is about that tenant.                                    *)
LEMMA AttemptDrives ==
  ASSUME IInv, Owned, NEW r \in Req, Alone(r), pc[r] \in Holding,
         UNCHANGED <<owner, schemas, seen, input>>,
         NEW status \in {"PENDING", "READY", "FAILED"},
         tenant' = [tenant EXCEPT ![Tenant(r)] = status],
         status = "READY" => schema[Tenant(r)] >= 1,
         NEW code \in Codes \cup {None}, reply' = [reply EXCEPT ![r] = code],
         code = 201 => owner[Mail(r)] = r,
         code = 200 => schema[Tenant(r)] >= 1
  PROVE  [Account!Next]_Account!vars
<1>1. /\ Tenant(r) \in Req /\ Tenant(r) = owner[Mail(r)] /\ Mail(r) \in Email
      /\ tenant[Tenant(r)] # "absent" /\ tenant \in [Req -> Status] /\ reply \in [Req -> Codes \cup {None}]
      /\ reply[r] = None /\ seen[r].id = Tenant(r)
  <2>1. seen[r].id # None /\ pc[r] # "idle" /\ pc[r] # "done"
    BY DEF IInv, InFlight, Holding
  <2> QED BY <2>1 DEF IInv, TypeOK, InFlight, Tenant, Owned
<1>2. PICK t \in Req : t = Tenant(r)
  BY <1>1
<1>3. {q \in Req : tenant'[q] # "absent"} = {q \in Req : tenant[q] # "absent"}
  BY <1>1, <1>2
<1>4. \/ {q \in Req : tenant'[q] = "READY"} = {q \in Req : tenant[q] = "READY"} \ {t}
      \/ /\ schema[t] >= 1
         /\ {q \in Req : tenant'[q] = "READY"} = {q \in Req : tenant[q] = "READY"} \cup {t}
  BY <1>1, <1>2
<1>5. \/ [q \in Req |-> Told(q)'] = [q \in Req |-> Told(q)]
      \/ /\ Told(r) = [email |-> None, tenant |-> None, token |-> FALSE]
         /\ \E token \in BOOLEAN :
              /\ IF token THEN schema[t] >= 1 ELSE owner[Mail(r)] = r
              /\ [q \in Req |-> Told(q)'] = [[q \in Req |-> Told(q)] EXCEPT ![r] =
                   [email |-> Mail(r), tenant |-> owner[Mail(r)], token |-> token]]
  <2>1. CASE code \notin {200, 201}
    BY <1>1, <2>1, ToldNothing
  <2>2. CASE code \in {200, 201}
    <3>1. reply[r] \notin {200, 201}
      BY <1>1, ProvisioningAssumption DEF Codes
    <3>2. Told(r) = [email |-> None, tenant |-> None, token |-> FALSE]
      BY <3>1 DEF Told
    <3>3. \A q \in Req \ {r} : Told(q)' = Told(q)
      BY DEF Alone, Told, Mail
    <3>4. Told(r)' = [email |-> Mail(r), tenant |-> owner[Mail(r)], token |-> code = 200]
      BY <1>1, <2>2 DEF Told, Mail
    <3>5. IF code = 200 THEN schema[t] >= 1 ELSE owner[Mail(r)] = r
      BY <1>2, <2>2
    <3>6. PICK token \in BOOLEAN : token = (code = 200)
      OBVIOUS
    <3>7. [q \in Req |-> Told(q)'] = [[q \in Req |-> Told(q)] EXCEPT ![r] =
             [email |-> Mail(r), tenant |-> owner[Mail(r)], token |-> token]]
      BY <3>3, <3>4, <3>6
    <3> QED BY <3>2, <3>5, <3>6, <3>7
  <2> QED BY <2>1, <2>2
<1>6. PICK e \in Email : e = Mail(r)
  BY <1>1
<1>7. Account!Drive(e)
  <2>1. Account!Mark(owner[e])
    BY <1>1, <1>2, <1>4, <1>6 DEF Account!Mark
  <2>2. (\E q \in Req : Account!Tell(q, e)) \/ [q \in Req |-> Told(q)'] = [q \in Req |-> Told(q)]
    BY <1>1, <1>2, <1>5, <1>6 DEF Account!Tell, Account!Nothing
  <2> QED BY <1>1, <1>2, <1>3, <1>6, <2>1, <2>2 DEF Account!Drive
<1> QED BY <1>7 DEF Account!Next

(* The handlers that end with Finish. *)
LEMMA FinishDrives ==
  ASSUME IInv, Owned, NEW r \in Req, Alone(r), pc[r] \in Holding, NEW outcome,
         Finish(r, outcome), outcome = "READY" => schema[Tenant(r)] >= 1,
         UNCHANGED <<owner, schemas, seen>>,
         \/ UNCHANGED tenant
         \/ \E status \in {"READY", "FAILED"} :
              /\ tenant' = [tenant EXCEPT ![Tenant(r)] = status]
              /\ status = "READY" => schema[Tenant(r)] >= 1
  PROVE  [Account!Next]_Account!vars
<1>1. /\ Tenant(r) \in Req /\ tenant[Tenant(r)] \in {"PENDING", "READY", "FAILED"}
      /\ tenant \in [Req -> Status]
  BY DEF IInv, TypeOK, InFlight, Tenant, Status
<1>2. UNCHANGED input /\ \E code \in Codes \cup {None} :
        /\ reply' = [reply EXCEPT ![r] = code]
        /\ code = 201 => owner[Mail(r)] = r
        /\ code = 200 => schema[Tenant(r)] >= 1
  <2>1. input[r].op = "register" => owner[Mail(r)] = r
    BY DEF IInv, InFlight
  <2>2. PICK code \in {200, 201, 503} : /\ Answer(r, code)
                                        /\ code = 201 => input[r].op = "register"
                                        /\ code = 200 => outcome = "READY"
    BY DEF Finish
  <2>3. code \in Codes \cup {None}
    BY DEF Codes
  <2>4. UNCHANGED input /\ reply' = [reply EXCEPT ![r] = code]
    BY <2>2 DEF Answer
  <2>5. (code = 201 => owner[Mail(r)] = r) /\ (code = 200 => schema[Tenant(r)] >= 1)
    BY <2>1, <2>2
  <2> QED BY <2>3, <2>4, <2>5
<1>3. \E status \in {"PENDING", "READY", "FAILED"} :
        /\ tenant' = [tenant EXCEPT ![Tenant(r)] = status]
        /\ status = "READY" => schema[Tenant(r)] >= 1
  <2>1. CASE UNCHANGED tenant
    <3>1. tenant' = [tenant EXCEPT ![Tenant(r)] = tenant[Tenant(r)]]
      BY <1>1, <2>1
    <3>2. tenant[Tenant(r)] = "READY" => schema[Tenant(r)] >= 1
      BY <1>1 DEF IInv, ReadyWasMigrated
    <3> QED BY <1>1, <3>1, <3>2
  <2> QED BY <2>1
<1> QED BY <1>2, <1>3, AttemptDrives

(* Every step of the server is one of Accounts, or none. *)
LEMMA ServerImplements ==
  ASSUME IInv, Owned, NEW r \in Req,
         Send(r) \/ Step(r) \/ MarkLost(r) \/ AttemptFails(r) \/ Abort(r)
  PROVE  [Account!Next]_Account!vars
<1>1. Alone(r)
  BY ActsAlone
<1> USE DEF Smooth, rows
<1>2. reply[r] = None /\ None \notin {200, 201}
  BY <1>1, ProvisioningAssumption DEF Alone, IInv, InFlight, Codes
<1>3. UNCHANGED reply => reply'[r] \notin {200, 201}
  BY <1>2
<1>4. \A code : Answer(r, code) => reply'[r] = code
  BY DEF Answer, IInv, TypeOK
<1>5. pc[r] \in Holding => /\ Tenant(r) \in Req /\ tenant[Tenant(r)] # "absent"
                           /\ schema[Tenant(r)] \in Missing..MaxRelease
  BY DEF IInv, TypeOK, InFlight, Tenant
<1>6. /\ release \in 1..MaxRelease /\ MaxRelease \in Nat
      /\ release \in Missing..MaxRelease /\ release >= 1
  BY ProvisioningAssumption DEF IInv, TypeOK, Missing
<1>7. CASE UNCHANGED <<tenant, owner, schemas>> /\ reply'[r] \notin {200, 201}
  <2>1. UNCHANGED Account!vars
    BY <1>1, <1>7, ToldNothing, Unaccounted
  <2> QED BY <2>1
<1>8. CASE Send(r) \/ BeginRegister(r) \/ InsertUser(r) \/ FindUser(r) \/ ComparePassword(r)
  <2>1. UNCHANGED <<tenant, owner, schemas>>
    BY <1>8 DEF Send, BeginRegister, BeginTransaction, InsertUser, FindUser, ComparePassword
  <2>2. reply'[r] \notin {200, 201}
    BY <1>3, <1>4, <1>8
       DEF Send, BeginRegister, BeginTransaction, InsertUser, FindUser, ComparePassword, Goto
  <2> QED BY <1>7, <2>1, <2>2
<1>9. CASE CommitRegister(r)
  <2>1. PICK e \in Email : e = Mail(r)
    BY <1>9, CommitOpens
  <2>2. Account!Open(e, r)
    BY <1>9, <2>1, CommitOpens
  <2> QED BY <2>2 DEF Account!Next
<1>10. CASE EnsureProvisioned(r)
  <2>1. CASE seen[r].status = "READY" /\ Finish(r, "READY")
    BY <1>1, <1>10, <2>1, FinishDrives
       DEF EnsureProvisioned, Holding, IInv, Migrated, Tenant
  <2>2. CASE Goto(r, "create")
    BY <1>3, <1>7, <1>10, <2>2 DEF EnsureProvisioned, Goto
  <2> QED BY <1>10, <2>1, <2>2 DEF EnsureProvisioned, NeedsProvisioning
<1>11. ASSUME NEW n \in Missing..MaxRelease, schema[Tenant(r)] >= 1 => n >= 1,
              schema' = [schema EXCEPT ![Tenant(r)] = n], pc[r] \in Holding,
              UNCHANGED <<tenant, owner>>, reply'[r] \notin {200, 201}
       PROVE  [Account!Next]_Account!vars
  <2>1. [q \in Req |-> Told(q)'] = [q \in Req |-> Told(q)]
    BY <1>1, <1>11, ToldNothing
  <2> QED BY <1>5, <1>11, <2>1, SchemaMigrates
<1>12. CASE CreateSchema(r)
  <2>1. PICK n \in Missing..MaxRelease :
          n = IF schema[Tenant(r)] = Missing THEN 0 ELSE schema[Tenant(r)]
    BY <1>5, <1>6, <1>12 DEF CreateSchema, Holding, Missing
  <2>2. schema[Tenant(r)] >= 1 => n >= 1
    BY <1>5, <1>6, <1>12, <2>1 DEF CreateSchema, Holding, Missing
  <2> QED BY <1>3, <1>11, <1>12, <2>1, <2>2 DEF CreateSchema, Goto, Holding
<1>13. ASSUME Applied(Tenant(r)) \/ BrokenOff(Tenant(r)), pc[r] \in Holding,
              UNCHANGED <<tenant, owner>>, reply'[r] \notin {200, 201}
       PROVE  [Account!Next]_Account!vars
  <2>1. PICK n \in Missing..MaxRelease : Advances(Tenant(r), n)
    BY <1>5, <1>13, RunOfMigrations DEF IInv
  <2> QED BY <1>11, <1>13, <2>1 DEF Advances
<1>14. CASE Migrate(r)
  <2>1. /\ pc[r] \in Holding /\ reply'[r] \notin {200, 201} /\ UNCHANGED <<tenant, owner>>
        /\ Applied(Tenant(r)) \/ UNCHANGED schemas
    <3>1. /\ UNCHANGED <<tenant, owner, reply>> /\ pc[r] = "migrate"
          /\ Applied(Tenant(r)) \/ UNCHANGED schemas
      BY <1>14 DEF Migrate, Goto
    <3> QED BY <1>3, <3>1 DEF Holding
  <2> QED BY <1>7, <1>13, <2>1
<1>15. CASE Confirm(r)
  <2>1. schema[Tenant(r)] >= 1
    BY <1>15 DEF Confirm, IInv, Migrated, Tenant
  <2> QED BY <1>1, <1>15, <2>1, FinishDrives DEF Confirm, Holding
<1>16. CASE MarkFailed(r)
  BY <1>1, <1>16, FinishDrives DEF MarkFailed, Holding
<1>17. CASE MarkLost(r)
  BY <1>1, <1>17, FinishDrives DEF MarkLost, Holding
<1>18. CASE AttemptFails(r)
  <2>1. UNCHANGED <<owner, seen, input, reply>> /\ pc[r] \in Holding
    BY <1>18 DEF AttemptFails, Goto, Holding
  <2>2. CASE UNCHANGED <<tenant, schemas>>
    BY <1>3, <1>7, <2>1, <2>2
  <2>3. CASE BrokenOff(Tenant(r)) /\ UNCHANGED tenant
    BY <1>3, <1>13, <2>1, <2>3
  <2>4. CASE /\ pc[r] = "confirm" /\ tenant' = [tenant EXCEPT ![Tenant(r)] = "READY"]
             /\ UNCHANGED schemas
    <3>1. schema[Tenant(r)] >= 1
      BY <2>4 DEF IInv, Migrated, Tenant
    <3>2. reply' = [reply EXCEPT ![r] = None]
      BY <1>2, <2>1 DEF IInv, TypeOK
    <3>3. None \in Codes \cup {None} /\ None # 200 /\ None # 201
      BY <1>2
    <3> QED BY <1>1, <2>1, <2>4, <3>1, <3>2, <3>3, AttemptDrives
  <2> QED BY <1>18, <2>2, <2>3, <2>4 DEF AttemptFails
<1>19. CASE Abort(r)
  <2>1. UNCHANGED <<tenant, owner>> /\ reply'[r] \notin {200, 201}
    BY <1>4, <1>19 DEF Abort
  <2>2. CASE UNCHANGED schemas
    BY <1>7, <2>1, <2>2
  <2>3. CASE pc[r] = "migrate" /\ (Applied(Tenant(r)) \/ BrokenOff(Tenant(r)))
    <3>1. pc[r] \in Holding
      BY <2>3 DEF Holding
    <3> QED BY <1>13, <2>1, <2>3, <3>1
  <2> QED BY <1>19, <2>2, <2>3 DEF Abort
<1> QED BY <1>8, <1>9, <1>10, <1>12, <1>14, <1>15, <1>16, <1>17, <1>18, <1>19 DEF Step

(* Nor do the operator's release and script do anything else. *)
LEMMA OperatorImplements ==
  ASSUME IInv, Owned, Deploy \/ StartScript \/ \E t \in Req : ScriptStep(t) \/ ScriptFails(t)
  PROVE  [Account!Next]_Account!vars
<1>1. UNCHANGED <<tenant, owner, input, seen, reply>>
  BY DEF Deploy, StartScript, ScriptStep, ScriptFails, rows
<1>2. [q \in Req |-> Told(q)'] = [q \in Req |-> Told(q)]
  BY <1>1 DEF Told, Mail
<1>3. CASE UNCHANGED schema
  BY <1>1, <1>2, <1>3, Unaccounted
<1>4. ASSUME NEW t \in Req, ScriptStep(t) \/ ScriptFails(t) PROVE [Account!Next]_Account!vars
  <2>1. tenant[t] # "absent"
    BY <1>4 DEF ScriptStep, ScriptFails, Owned
  <2>2. UNCHANGED schemas \/ Applied(t) \/ BrokenOff(t)
    BY <1>4 DEF ScriptStep, ScriptFails
  <2>3. CASE Applied(t) \/ BrokenOff(t)
    <3>1. PICK n \in Missing..MaxRelease : Advances(t, n)
      BY <2>3, RunOfMigrations DEF IInv
    <3> QED BY <1>1, <1>2, <2>1, <3>1, SchemaMigrates DEF Advances
  <2> QED BY <1>3, <2>2, <2>3
<1> QED BY <1>3, <1>4 DEF Deploy, StartScript

(* Every step is a step of Accounts, or none. *)
THEOREM StepImplements == IInv /\ Owned /\ [Next]_vars => [Account!Next]_Account!vars
<1> SUFFICES ASSUME IInv, Owned, [Next]_vars PROVE [Account!Next]_Account!vars
  OBVIOUS
<1>1. CASE UNCHANGED vars
  <2>1. [q \in Req |-> Told(q)'] = [q \in Req |-> Told(q)]
    BY <1>1 DEF vars, rows, Told, Mail
  <2> QED BY <1>1, <2>1, Unaccounted DEF vars, rows
<1> QED BY <1>1, ServerImplements, OperatorImplements DEF Next

(* Registration, provisioning and login keep what their doc comments say   *)
(* (auth.service.ts:27-37, :61-63, tenant-provisioning.service.ts:12-24):  *)
(* an account is opened whole and by one registration, READY and tokens    *)
(* are for migrated schemas only, and a token is for the tenant of the     *)
(* email that logs in, whatever fails, races or is retried.                *)
THEOREM ImplementsAccounts == Spec => AccountSpec
<1>1. Init => Account!Init
  <2> SUFFICES ASSUME Init PROVE Account!Init
    OBVIOUS
  <2>1. /\ {t \in Req : tenant[t] # "absent"} = {} /\ {t \in Req : schema[t] >= 1} = {}
        /\ {t \in Req : tenant[t] = "READY"} = {}
    BY DEF Init, Missing
  <2>2. \A r \in Req : Told(r) = Account!Nothing
    BY ProvisioningAssumption DEF Init, Told, Account!Nothing, Codes
  <2> QED BY <2>1, <2>2 DEF Init, Account!Init
<1>2. Init => Owned
  BY DEF Init, Owned, Unseen
<1> QED BY <1>1, <1>2, OwnedStep, StepImplements, Inductive, PTL
       DEF Spec, AccountSpec, Account!Spec
=============================================================================
