----------------------------- MODULE Inventory -----------------------------
(***************************************************************************)
(* The inventory of one tenant: SuppliesService, ServicesService.create    *)
(* and .remove, and the Postgres rows they touch.                          *)
(*                                                                         *)
(* Each member of Req is one HTTP request, executed once; any number are   *)
(* in flight, interleaved at every await.  The database runs at READ       *)
(* COMMITTED: a statement sees the committed rows and those of its own     *)
(* transaction, an UPDATE or DELETE waits for the row's lock, and a lock   *)
(* is held to the end of its transaction.  Only the transaction of         *)
(* ServicesService.create outlives one call, so only it appears as a       *)
(* lock holder; what it wrote is "draft" until the commit.                 *)
(***************************************************************************)
EXTENDS Stock, Selection, FiniteSets

CONSTANTS
  Existing,   \* the supplies there are at the start
  Sku,        \* stock keeping units
  Inputs      \* the requests clients send (a bound: a subset of Input)

Supply == Existing \cup Req    \* the supply created by request r has id r

Input ==
  [op: {"createSupply"}, sku: Sku, stock: Nat]
    \cup [op: {"updateSupply"}, supply: Supply, sku: Sku \cup {None}]
    \cup [op: {"removeSupply"}, supply: Supply]
    \cup [op: {"registerMovement"}, supply: Supply, type: {"IN", "OUT"},
          quantity: Nat \ {0}]
    \cup [op: {"createService"}, lines: Seq([supply: Supply, quantity: Nat \ {0}])]
    \cup [op: {"removeService"}, service: Req]

Codes == {200, 404, 409, 422, 500}    \* HTTP statuses

ASSUME InventoryAssumption == /\ Existing \cap Req = {}
                              /\ None \notin Sku \cup Codes
                              /\ Inputs \subseteq Input

VARIABLES
  status,    \* status[s]: is there a committed row s in Supply?
  sku, stock,
  opening,   \* the stock s was created with (history variable)
  history,   \* history[s]: the StockMovement rows of s, in the order they took effect
  services,  \* the ids of the committed Service rows
  lock,      \* lock[s]: the transaction that has updated s and is still open
  draft,     \* draft[s]: what that transaction made of s, not yet committed
  input, pc, \* pc[r]: where the handler of r is
  next,      \* next[r]: the index of the supply line the loop of r is at
  reply,     \* reply[r]: the HTTP status r was answered with
  quoted     \* quoted[r]: the stock the 409 message to r says is available

tables == <<status, sku, opening, stock, history, services>>
vars == <<status, sku, opening, stock, history, services,
          lock, draft, input, pc, next, reply, quoted>>

NoInput == [op |-> "none"]
NoDraft == [stock |-> 0, rows |-> <<>>]

TypeOK ==
  /\ status \in [Supply -> {"unborn", "live", "deleted"}]
  /\ sku \in [Supply -> Sku \cup {None}]
  /\ opening \in [Supply -> Level] /\ stock \in [Supply -> Level]
  /\ history \in [Supply -> Seq(Movement)]
  /\ services \subseteq Req
  /\ lock \in [Supply -> Req \cup {None}]
  /\ draft \in [Supply -> [stock: Level, rows: Seq(Movement)]]
  /\ input \in [Req -> Inputs \cup {NoInput}]
  /\ pc \in [Req -> {"idle", "start", "recheck", "insert", "line", "explain", "done"}]
  /\ next \in [Req -> Nat]
  /\ reply \in [Req -> Codes \cup {None}]
  /\ quoted \in [Req -> Level \cup {None}]

Init ==
  /\ status = [s \in Supply |-> IF s \in Existing THEN "live" ELSE "unborn"]
  /\ opening \in {o \in [Supply -> Level] : \A r \in Req : o[r] = 0}
  /\ stock = opening
  /\ sku = [s \in Supply |-> None]
  /\ history = [s \in Supply |-> <<>>]
  /\ services = {}
  /\ lock = [s \in Supply |-> None]
  /\ draft = [s \in Supply |-> NoDraft]
  /\ input = [r \in Req |-> NoInput]
  /\ pc = [r \in Req |-> "idle"]
  /\ next = [r \in Req |-> 0]
  /\ reply = [r \in Req |-> None]
  /\ quoted = [r \in Req |-> None]
-----------------------------------------------------------------------------
(* Requests and replies *)

At(r, op, label) == pc[r] = label /\ input[r].op = op

Live(s) == status[s] = "live"

(* A client can only name a supply id it has been shown (ids are random    *)
(* UUIDs); the row may be gone by the time the request is served.          *)
Known(i) ==
  CASE i.op = "createService" -> \A n \in 1..Len(i.lines) : status[i.lines[n].supply] # "unborn"
    [] i.op \in {"updateSupply", "removeSupply", "registerMovement"} ->
         status[i.supply] # "unborn"
    [] OTHER -> TRUE

Send(r) == /\ pc[r] = "idle"
           /\ \E i \in Inputs : Known(i) /\ input' = [input EXCEPT ![r] = i]
           /\ pc' = [pc EXCEPT ![r] = "start"]
           /\ UNCHANGED <<tables, lock, draft, next, reply, quoted>>

Goto(r, label) == /\ pc' = [pc EXCEPT ![r] = label]
                  /\ UNCHANGED <<input, reply, quoted>>

Answer(r, code) == /\ pc' = [pc EXCEPT ![r] = "done"]
                   /\ reply' = [reply EXCEPT ![r] = code]
                   /\ UNCHANGED <<input, next>>

(* A write that has taken effect is answered 200, or 500 when the          *)
(* connection is lost between the commit and its acknowledgement.          *)
Acknowledge(r) == /\ \E code \in {200, 500} : Answer(r, code)
                  /\ UNCHANGED quoted

(* the rows r has locked become what r made of them *)
Publish(r) ==
  /\ stock' = [s \in Supply |-> IF lock[s] = r THEN draft[s].stock ELSE stock[s]]
  /\ history' = [s \in Supply |->
                   IF lock[s] = r THEN history[s] \o draft[s].rows ELSE history[s]]

(* ROLLBACK: what r wrote is forgotten and its row locks are free *)
Rollback(r) ==
  /\ lock' = [s \in Supply |-> IF lock[s] = r THEN None ELSE lock[s]]
  /\ draft' = [s \in Supply |-> IF lock[s] = r THEN NoDraft ELSE draft[s]]
  /\ UNCHANGED tables

Refuse(r, code) == /\ Rollback(r)
                   /\ Answer(r, code)
                   /\ UNCHANGED quoted

(* the NotFoundException or ConflictException thrown after the second look *)
RefuseShort(r, found, level) ==
  /\ Rollback(r)
  /\ Answer(r, IF found THEN 409 ELSE 404)
  /\ quoted' = IF found THEN [quoted EXCEPT ![r] = level] ELSE quoted

(* the statement of r may write row s *)
Unlocked(r, s) == lock[s] \in {None, r}
-----------------------------------------------------------------------------
(* SuppliesService *)

(* the unique index, to which NULLs are all different *)
SkuTaken(k, s) == k # None /\ \E t \in Supply \ {s} : Live(t) /\ sku[t] = k

CreateSupply(r) ==
  /\ At(r, "createSupply", "start")
  /\ LET i == input[r] IN
     \/ i.stock \notin Level /\ Refuse(r, 500)
     \/ i.stock \in Level /\ SkuTaken(i.sku, r) /\ Refuse(r, 409)
     \/ /\ i.stock \in Level /\ ~SkuTaken(i.sku, r)
        /\ status' = [status EXCEPT ![r] = "live"]
        /\ sku' = [sku EXCEPT ![r] = i.sku]
        /\ opening' = [opening EXCEPT ![r] = i.stock]
        /\ stock' = [stock EXCEPT ![r] = i.stock]
        /\ Acknowledge(r)
        /\ UNCHANGED <<history, services, lock, draft>>

(* the DTO has no stock: only the other columns change *)
UpdateSupply(r) ==
  /\ At(r, "updateSupply", "start")
  /\ LET s == input[r].supply
         k == input[r].sku IN
     \/ ~Live(s) /\ Refuse(r, 404)
     \/ Live(s) /\ Unlocked(r, s) /\ SkuTaken(k, s) /\ Refuse(r, 409)
     \/ /\ Live(s) /\ Unlocked(r, s) /\ ~SkuTaken(k, s)
        /\ sku' = IF k = None THEN sku ELSE [sku EXCEPT ![s] = k]
        /\ Acknowledge(r)
        /\ UNCHANGED <<status, opening, stock, history, services, lock, draft>>

(* movements.supplyId is ON DELETE CASCADE: the history goes with the row *)
RemoveSupply(r) ==
  /\ At(r, "removeSupply", "start")
  /\ LET s == input[r].supply IN
     \/ ~Live(s) /\ Refuse(r, 404)
     \/ /\ Live(s) /\ Unlocked(r, s)
        /\ status' = [status EXCEPT ![s] = "deleted"]
        /\ history' = [history EXCEPT ![s] = <<>>]
        /\ Acknowledge(r)
        /\ UNCHANGED <<sku, opening, stock, services, lock, draft>>

MovementOf(r) == [by |-> r, type |-> input[r].type, quantity |-> input[r].quantity,
                  service |-> None]

(* mutants: the gte condition is lost; it is applied to both types *)
MutMatchesAny(s, m) == Live(s)
MutMatchesShort(s, m) == Live(s) /\ stock[s] >= m.quantity

(* the "where" of registerMovement, on a committed row *)
Matches(s, m) == Live(s) /\ (m.type = "OUT" => stock[s] >= m.quantity)

(* mutant: the movement row is not created with the increment *)
MutApplyAlone(s, m) ==
  /\ stock' = [stock EXCEPT ![s] = @ + Delta(m)]
  /\ UNCHANGED <<status, sku, opening, history, services, lock, draft>>

(* increment and nested create, one implicit transaction *)
Apply(s, m) ==
  /\ stock' = [stock EXCEPT ![s] = @ + Delta(m)]
  /\ history' = [history EXCEPT ![s] = Append(@, m)]
  /\ UNCHANGED <<status, sku, opening, services, lock, draft>>

RegisterMovement(r) ==
  /\ At(r, "registerMovement", "start")
  /\ LET s == input[r].supply
         m == MovementOf(r) IN
     \/ m.quantity > MaxInt /\ Refuse(r, 500)
     \/ /\ m.quantity <= MaxInt /\ Matches(s, m) /\ Unlocked(r, s)
        /\ stock[s] + Delta(m) > MaxInt /\ Refuse(r, 500)
     \/ /\ m.quantity <= MaxInt /\ Matches(s, m) /\ Unlocked(r, s)
        /\ stock[s] + Delta(m) <= MaxInt
        /\ Apply(s, m) /\ Acknowledge(r)
     \/ /\ m.quantity <= MaxInt /\ ~Matches(s, m)
        /\ Goto(r, "recheck")
        /\ UNCHANGED <<tables, lock, draft, next>>

(* catch (P2025): look again to tell a missing supply from a short one *)
Recheck(r) == /\ At(r, "registerMovement", "recheck")
              /\ LET s == input[r].supply IN RefuseShort(r, Live(s), stock[s])
-----------------------------------------------------------------------------
(* ServicesService *)

(* assertMotorcycleExists; the motorcycles are Workshop's, so here either  *)
(* answer is possible, before the insert and at it: TenantSchema decides.  *)
AssertMotorcycle(r) ==
  /\ At(r, "createService", "start")
  /\ \/ Refuse(r, 404)
     \/ Goto(r, "insert") /\ UNCHANGED <<tables, lock, draft, next>>

InsertRefused(r) == At(r, "createService", "insert") /\ Refuse(r, 422)

(* no supplies: a single insert *)
CreatePlainService(r) ==
  /\ At(r, "createService", "insert") /\ input[r].lines = <<>>
  /\ services' = services \cup {r}
  /\ Acknowledge(r)
  /\ UNCHANGED <<status, sku, opening, stock, history, lock, draft>>

(* mutant: service.create on this.prisma instead of tx *)
MutOpenTransaction(r) ==
  /\ At(r, "createService", "insert") /\ input[r].lines # <<>>
  /\ next' = [next EXCEPT ![r] = 1]
  /\ services' = services \cup {r}
  /\ Goto(r, "line")
  /\ UNCHANGED <<status, sku, opening, stock, history, lock, draft>>

(* $transaction begins and inserts the Service row, invisible as yet *)
OpenTransaction(r) ==
  /\ At(r, "createService", "insert") /\ input[r].lines # <<>>
  /\ next' = [next EXCEPT ![r] = 1]
  /\ Goto(r, "line")
  /\ UNCHANGED <<tables, lock, draft>>

Line(r) == input[r].lines[next[r]]

(* mutant: the loop stops before the last line *)
MutMoreLines(r) == next[r] < Len(input[r].lines)

MoreLines(r) == next[r] <= Len(input[r].lines)

(* the stock of s and its new rows, as the transaction of r sees them *)
Seen(r, s) == IF lock[s] = r THEN draft[s] ELSE [stock |-> stock[s], rows |-> <<>>]

(* mutant: the updateMany has no stock condition *)
MutCovers(r, l) == Live(l.supply)

(* the "where" of consumeSupply's updateMany *)
Covers(r, l) == Live(l.supply) /\ Seen(r, l.supply).stock >= l.quantity

(* mutant: the StockMovement row is not created *)
MutConsumed(r, l) ==
  [stock |-> Seen(r, l.supply).stock - l.quantity, rows |-> Seen(r, l.supply).rows]

(* the decrement and the StockMovement row that goes with it *)
Consumed(r, l) ==
  [stock |-> Seen(r, l.supply).stock - l.quantity,
   rows |-> Append(Seen(r, l.supply).rows,
                   [by |-> r, type |-> "OUT", quantity |-> l.quantity, service |-> r])]

(* mutant: consumeSupply works on this.prisma instead of tx *)
MutConsumeSupply(r) ==
  /\ At(r, "createService", "line") /\ MoreLines(r)
  /\ LET l == Line(r) IN
     \/ /\ Covers(r, l) /\ Unlocked(r, l.supply)
        /\ stock' = [stock EXCEPT ![l.supply] = Consumed(r, l).stock]
        /\ history' = [history EXCEPT ![l.supply] = @ \o Consumed(r, l).rows]
        /\ next' = [next EXCEPT ![r] = @ + 1]
        /\ Goto(r, "line")
        /\ UNCHANGED <<status, sku, opening, services, lock, draft>>
     \/ ~Covers(r, l) /\ Goto(r, "explain") /\ UNCHANGED <<tables, lock, draft, next>>

ConsumeSupply(r) ==
  /\ At(r, "createService", "line") /\ MoreLines(r)
  /\ LET l == Line(r) IN
     \/ l.quantity > MaxInt /\ Refuse(r, 500)
     \/ /\ l.quantity <= MaxInt /\ Covers(r, l) /\ Unlocked(r, l.supply)
        /\ lock' = [lock EXCEPT ![l.supply] = r]
        /\ draft' = [draft EXCEPT ![l.supply] = Consumed(r, l)]
        /\ next' = [next EXCEPT ![r] = @ + 1]
        /\ Goto(r, "line")
        /\ UNCHANGED tables
     \/ /\ l.quantity <= MaxInt /\ ~Covers(r, l)
        /\ Goto(r, "explain")
        /\ UNCHANGED <<tables, lock, draft, next>>

(* count is 0: look again, throw, and the transaction rolls back *)
ExplainShortage(r) ==
  /\ At(r, "createService", "explain")
  /\ LET s == Line(r).supply IN RefuseShort(r, Live(s), Seen(r, s).stock)

CommitService(r) ==
  /\ At(r, "createService", "line") /\ ~MoreLines(r)
  /\ services' = services \cup {r}
  /\ Publish(r)
  /\ lock' = [s \in Supply |-> IF lock[s] = r THEN None ELSE lock[s]]
  /\ draft' = [s \in Supply |-> IF lock[s] = r THEN NoDraft ELSE draft[s]]
  /\ Acknowledge(r)
  /\ UNCHANGED <<status, sku, opening>>

(* stockMovements.serviceId is ON DELETE SET NULL *)
RemoveService(r) ==
  /\ At(r, "removeService", "start")
  /\ LET sv == input[r].service IN
     \/ sv \notin services /\ Refuse(r, 404)
     \/ /\ sv \in services
        /\ services' = services \ {sv}
        /\ history' = [s \in Supply |-> Untagged(history[s], sv)]
        /\ Acknowledge(r)
        /\ UNCHANGED <<status, sku, opening, stock, lock, draft>>
-----------------------------------------------------------------------------
(* Failures *)

(* a lost connection, Prisma's transaction timeout, a crash of the server *)
Fail(r) == pc[r] \notin {"idle", "done"} /\ Refuse(r, 500)

(* r's UPDATE waits for a row that q has locked *)
WaitsFor(r, q) == /\ At(r, "createService", "line") /\ MoreLines(r)
                  /\ Line(r).quantity <= MaxInt /\ Covers(r, Line(r))
                  /\ lock[Line(r).supply] = q /\ q \notin {None, r}

(* Postgres aborts a member of a cycle of waiting transactions *)
AbortDeadlock(r) ==
  /\ \E C \in SUBSET Req :
       /\ r \in C
       /\ \A a \in C : (\E b \in C : WaitsFor(a, b)) /\ (\E b \in C : WaitsFor(b, a))
  /\ Refuse(r, 500)

(* what the server does next for r *)
Step(r) ==
  \/ CreateSupply(r) \/ UpdateSupply(r) \/ RemoveSupply(r)
  \/ RegisterMovement(r) \/ Recheck(r)
  \/ AssertMotorcycle(r) \/ InsertRefused(r) \/ CreatePlainService(r)
  \/ OpenTransaction(r) \/ ConsumeSupply(r) \/ ExplainShortage(r) \/ CommitService(r)
  \/ RemoveService(r)
  \/ AbortDeadlock(r)

(* every client has its reply: the system rests *)
Rest == (\A r \in Req : pc[r] = "done") /\ UNCHANGED vars

Next == (\E r \in Req : Send(r) \/ Step(r) \/ Fail(r)) \/ Rest

Spec == Init /\ [][Next]_vars
-----------------------------------------------------------------------------
(* Properties *)

(* The comment at supplies.service.ts:52-57: the running total never       *)
(* drifts from the history.  The rows of every supply lead from its        *)
(* opening stock to its stock, never below zero or above the column's      *)
(* maximum on the way, whatever movements, services and removals race.     *)
Balanced == \A s \in Supply : Live(s) => Replays(history[s], opening[s], stock[s])

(* movements of s and lines of a request, in a form that can be compared *)
Entry(s, r, type, quantity) == [supply |-> s, by |-> r, type |-> type, quantity |-> quantity]

Entries(s, rows) ==
  [n \in DOMAIN rows |-> Entry(s, rows[n].by, rows[n].type, rows[n].quantity)]

Asked(r) ==
  CASE input[r].op = "createService" ->
         [n \in DOMAIN input[r].lines |->
            Entry(input[r].lines[n].supply, r, "OUT", input[r].lines[n].quantity)]
    [] input[r].op = "registerMovement" ->
         <<Entry(input[r].supply, r, input[r].type, input[r].quantity)>>
    [] OTHER -> <<>>

(* what concerns r and s *)
Of(r, s) == [supply: {s}, by: {r}, type: {"IN", "OUT"}, quantity: Nat]

Recorded(r, s) == Among(Entries(s, history[s]), Of(r, s))

Whole(r) == \A s \in Supply : Live(s) => Recorded(r, s) = Among(Asked(r), Of(r, s))
Nothing(r) == \A s \in Supply : Recorded(r, s) = <<>>

(* The loop of services.service.ts:30-32 books every line once and in the  *)
(* order of the request, whatever it shares supplies with: between two     *)
(* lines the drafts of a service hold the lines behind it, and no others.  *)
LinesDone ==
  \A r \in Req : pc[r] = "line" =>
    \A s \in Supply :
      Entries(s, Seen(r, s).rows) = Among(SubSeq(Asked(r), 1, next[r] - 1), Of(r, s))

(* A reply of 200 to a movement or a service means that the history has    *)
(* every row asked for, once each, as long as the supply exists; a service *)
(* is booked on all its supplies or on none, even when the reply is a 500. *)
RepliesMatchHistory ==
  \A r \in Req : /\ reply[r] = 200 => Whole(r)
                 /\ reply[r] = 500 => Whole(r) \/ Nothing(r)

(* Every row of a history was put there by a request that has been         *)
(* answered, and not with a refusal: a 404, 409 or 422, and a service      *)
(* still in progress, leave no trace (the $transaction of                  *)
(* services.service.ts:26-37).                                             *)
RefusedLeavesNoTrace ==
  \A s \in Supply : \A i \in DOMAIN history[s] : reply[history[s][i].by] \in {200, 500}

(* A row is locked only by a service whose transaction is open, the supply *)
(* cannot be deleted meanwhile, and the draft is the committed row plus    *)
(* rows of that service that explain the difference.                       *)
Transactions ==
  \A s \in Supply : lock[s] # None =>
    /\ Live(s)
    /\ pc[lock[s]] \in {"line", "explain"}
    /\ Replays(draft[s].rows, stock[s], draft[s].stock)
    /\ \A i \in DOMAIN draft[s].rows : /\ draft[s].rows[i].by = lock[s]
                                       /\ draft[s].rows[i].service = lock[s]
                                       /\ draft[s].rows[i].type = "OUT"

(* where the requests in flight are, and what they have not yet created *)
InFlight ==
  /\ \A r \in Req : /\ pc[r] # "idle" => input[r] \in Inputs
                    /\ pc[r] \in {"line", "explain"} => input[r].op = "createService"
                    /\ pc[r] = "line" => next[r] \in 1..(Len(input[r].lines) + 1)
                    /\ pc[r] = "explain" => next[r] \in 1..Len(input[r].lines)
                    /\ pc[r] # "done" => /\ reply[r] = None
                                         /\ status[r] = "unborn" /\ r \notin services
  /\ \A s \in Supply : status[s] = "unborn" => history[s] = <<>>

(* the inductive invariant *)
IInv == TypeOK /\ Balanced /\ RefusedLeavesNoTrace /\ Transactions /\ InFlight

(* "Insufficient stock" is never the answer to an IN movement: without the *)
(* stock condition in the where, only a deleted supply can fail to match.  *)
ConflictsOnlyOut ==
  \A r \in Req : reply[r] = 409 /\ input[r].op = "registerMovement" => input[r].type = "OUT"

(* Seen through its committed rows, the inventory is the abstract ledger:  *)
(* whole services, single movements, nothing in between.                   *)
Ledger == INSTANCE StockLedger
LedgerSpec == Ledger!Spec

(* supplies.service.ts:55: a movement is refused with "Insufficient stock: *)
(* X available, Y requested" when it would take stock below zero, so X is  *)
(* less than Y.  The second read may see a later stock: violated.          *)
ConflictQuotesShortage ==
  \A r \in Req : reply[r] = 409 /\ input[r].op = "registerMovement"
                   => quoted[r] < input[r].quantity
=============================================================================
