-------------------------- MODULE InventoryProofs --------------------------
(***************************************************************************)
(* For any number of supplies and of requests in flight: the stock of      *)
(* every supply is what its history says, whatever is interleaved, the     *)
(* committed rows are the abstract ledger, and a reply says what they hold.*)
(*                                                                         *)
(* In this order: facts about histories; the inductive invariant; the 409  *)
(* of a movement; the refinement of StockLedger; replies and histories;    *)
(* rows and their services.                                                *)
(***************************************************************************)
EXTENDS Inventory, SelectionProofs

(* Replays, the relation between a history and a level *)

(* a movement changes the level by an integer *)
LEMMA DeltaInt == ASSUME NEW m \in Movement PROVE Delta(m) \in Int
  BY StockAssumption DEF Delta, Movement

(* both ends of a history are levels *)
LEMMA ReplaysLevels ==
  ASSUME NEW rows \in Seq(Movement), NEW from, NEW to, Replays(rows, from, to)
  PROVE  from \in Level /\ to \in Level
  BY DEF Replays

(* no rows, no change *)
LEMMA ReplaysEmpty ==
  ASSUME NEW n \in Level
  PROVE  Replays(<<>>, n, n)
<1> DEFINE bal == [i \in 0..0 |-> n]
<1>1. bal \in [0..Len(<<>>) -> Level] /\ bal[0] = n /\ bal[Len(<<>>)] = n
  OBVIOUS
<1>2. \A i \in 1..Len(<<>>) : bal[i] = bal[i - 1] + Delta(<<>>[i])
  OBVIOUS
<1> QED BY <1>1, <1>2 DEF Replays

(* one more row moves the level by its delta, if there is such a level *)
LEMMA ReplaysAppend ==
  ASSUME NEW rows \in Seq(Movement), NEW from, NEW to, Replays(rows, from, to),
         NEW m \in Movement, to + Delta(m) \in Level
  PROVE  Replays(Append(rows, m), from, to + Delta(m))
<1> DEFINE more == Append(rows, m)
<1>1. PICK bal \in [0..Len(rows) -> Level] :
        /\ bal[0] = from
        /\ \A i \in 1..Len(rows) : bal[i] = bal[i - 1] + Delta(rows[i])
        /\ bal[Len(rows)] = to
  BY DEF Replays
<1> DEFINE new == [i \in 0..Len(more) |-> IF i <= Len(rows) THEN bal[i] ELSE to + Delta(m)]
<1>2. /\ Len(more) = Len(rows) + 1
      /\ more[Len(rows) + 1] = m
      /\ \A i \in 1..Len(rows) : more[i] = rows[i]
      /\ Len(rows) \in Nat
  OBVIOUS
<1>3. new \in [0..Len(more) -> Level]
  BY <1>1, <1>2
<1>4. new[0] = from /\ new[Len(more)] = to + Delta(m)
  BY <1>1, <1>2
<1>5. ASSUME NEW i \in 1..Len(more)
      PROVE  new[i] = new[i - 1] + Delta(more[i])
  <2>1. CASE i \in 1..Len(rows)
    BY <2>1, <1>1, <1>2
  <2>2. CASE i = Len(rows) + 1
    BY <2>2, <1>1, <1>2
  <2> QED BY <2>1, <2>2, <1>2
<1> HIDE DEF new, more
<1>6. Replays(more, from, to + Delta(m))
  BY <1>3, <1>4, <1>5 DEF Replays
<1> QED BY <1>6 DEF more

(* histories compose *)
LEMMA ReplaysConcat ==
  ASSUME NEW rows \in Seq(Movement), NEW more \in Seq(Movement),
         NEW from, NEW mid, NEW to, Replays(rows, from, mid), Replays(more, mid, to)
  PROVE  Replays(rows \o more, from, to)
<1> DEFINE all == rows \o more
<1>1. PICK b \in [0..Len(rows) -> Level] :
        /\ b[0] = from
        /\ \A i \in 1..Len(rows) : b[i] = b[i - 1] + Delta(rows[i])
        /\ b[Len(rows)] = mid
  BY DEF Replays
<1>2. PICK c \in [0..Len(more) -> Level] :
        /\ c[0] = mid
        /\ \A i \in 1..Len(more) : c[i] = c[i - 1] + Delta(more[i])
        /\ c[Len(more)] = to
  BY DEF Replays
<1> DEFINE bal == [i \in 0..Len(all) |-> IF i <= Len(rows) THEN b[i] ELSE c[i - Len(rows)]]
<1>3. /\ Len(all) = Len(rows) + Len(more)
      /\ \A i \in 1..Len(rows) : all[i] = rows[i]
      /\ \A i \in 1..Len(all) : i > Len(rows) => all[i] = more[i - Len(rows)]
      /\ Len(rows) \in Nat /\ Len(more) \in Nat
  OBVIOUS
<1>4. bal \in [0..Len(all) -> Level]
  BY <1>1, <1>2, <1>3
<1>5. bal[0] = from /\ bal[Len(all)] = to
  <2>1. CASE Len(more) = 0
    BY <2>1, <1>1, <1>2, <1>3
  <2>2. CASE Len(more) > 0
    BY <2>2, <1>1, <1>2, <1>3
  <2> QED BY <2>1, <2>2, <1>3
<1>6. ASSUME NEW i \in 1..Len(all)
      PROVE  bal[i] = bal[i - 1] + Delta(all[i])
  <2>1. CASE i <= Len(rows)
    BY <2>1, <1>1, <1>3
  <2>2. CASE i = Len(rows) + 1
    <3>1. bal[i] = c[1] /\ bal[i - 1] = c[0] /\ all[i] = more[1] /\ 1 \in 1..Len(more)
      BY <2>2, <1>1, <1>2, <1>3
    <3>2. c[1] = c[0] + Delta(more[1])
      BY <3>1, <1>2
    <3> QED BY <3>1, <3>2
  <2>3. CASE i > Len(rows) + 1
    <3> DEFINE j == i - Len(rows)
    <3>1. bal[i] = c[j] /\ bal[i - 1] = c[j - 1] /\ all[i] = more[j] /\ j \in 1..Len(more)
      BY <2>3, <1>3
    <3>2. c[j] = c[j - 1] + Delta(more[j])
      BY <3>1, <1>2
    <3> QED BY <3>1, <3>2
  <2> QED BY <2>1, <2>2, <2>3, <1>3
<1> HIDE DEF bal, all
<1>7. Replays(all, from, to)
  BY <1>4, <1>5, <1>6 DEF Replays
<1> QED BY <1>7 DEF all

(* forgetting a service changes no quantity and keeps every row *)
LEMMA UntaggedRows ==
  ASSUME NEW rows \in Seq(Movement), NEW sv
  PROVE  /\ Untagged(rows, sv) \in Seq(Movement)
         /\ Len(Untagged(rows, sv)) = Len(rows)
         /\ \A i \in 1..Len(rows) : /\ Untagged(rows, sv)[i].by = rows[i].by
                                    /\ Delta(Untagged(rows, sv)[i]) = Delta(rows[i])
<1>1. \A m \in Movement : /\ [m EXCEPT !.service = None] \in Movement
                          /\ [m EXCEPT !.service = None].by = m.by
                          /\ Delta([m EXCEPT !.service = None]) = Delta(m)
  BY DEF Movement, Delta
<1>2. DOMAIN rows = 1..Len(rows) /\ Len(rows) \in Nat
      /\ \A i \in 1..Len(rows) : rows[i] \in Movement
  OBVIOUS
<1>3. Untagged(rows, sv) \in [1..Len(rows) -> Movement]
  BY <1>1, <1>2 DEF Untagged
<1>4. \A i \in 1..Len(rows) : /\ Untagged(rows, sv)[i].by = rows[i].by
                              /\ Delta(Untagged(rows, sv)[i]) = Delta(rows[i])
  BY <1>1, <1>2 DEF Untagged
<1>5. Untagged(rows, sv) \in Seq(Movement) /\ Len(Untagged(rows, sv)) = Len(rows)
  BY <1>2, <1>3
<1> QED BY <1>4, <1>5

(* forgetting the service of a row does not change what it explains *)
LEMMA ReplaysUntagged ==
  ASSUME NEW rows \in Seq(Movement), NEW sv, NEW from, NEW to, Replays(rows, from, to)
  PROVE  Replays(Untagged(rows, sv), from, to)
  BY UntaggedRows DEF Replays
-----------------------------------------------------------------------------
(* The inductive invariant *)

(* what the validated body of a request holds *)
LEMMA InputShape ==
  ASSUME NEW i \in Inputs
  PROVE  /\ i.op = "createSupply" => i.sku \in Sku /\ i.stock \in Nat
         /\ i.op = "updateSupply" => i.supply \in Supply /\ i.sku \in Sku \cup {None}
         /\ i.op = "removeSupply" => i.supply \in Supply
         /\ i.op = "registerMovement" => /\ i.supply \in Supply
                                         /\ i.type \in {"IN", "OUT"}
                                         /\ i.quantity \in Nat \ {0}
         /\ i.op = "createService" =>
              i.lines \in Seq([supply: Supply, quantity: Nat \ {0}])
         /\ i.op = "removeService" => i.service \in Req
<1>1. i \in Input
  BY InventoryAssumption
<1> QED BY <1>1 DEF Input

(* 0 is a level, and a draft that says nothing is one *)
LEMMA LevelFacts ==
  Level \subseteq Int /\ 0 \in Level /\ NoDraft \in [stock: Level, rows: Seq(Movement)]
  BY StockAssumption DEF Level, NoDraft

(* the rows of a history *)
LEMMA RowShape ==
  ASSUME TypeOK, NEW s \in Supply
  PROVE  /\ history[s] \in Seq(Movement)
         /\ DOMAIN history[s] = 1..Len(history[s]) /\ Len(history[s]) \in Nat
         /\ \A i \in DOMAIN history[s] : history[s][i] \in Movement /\ history[s][i].by \in Req
<1>1. history[s] \in Seq(Movement)
  BY DEF TypeOK
<1>2. \A m \in Movement : m.by \in Req
  BY DEF Movement
<1>3. \A i \in DOMAIN history[s] : history[s][i] \in Movement
  BY <1>1
<1> QED BY <1>1, <1>2, <1>3

(* The initial state satisfies the invariant. *)
THEOREM InitInv == Init => IInv
<1> SUFFICES ASSUME Init PROVE IInv
  OBVIOUS
<1> USE DEF Init
<1>1. TypeOK
  BY LevelFacts DEF TypeOK, Supply
<1>2. Balanced
  BY ReplaysEmpty, <1>1 DEF Balanced, TypeOK
<1>3. RefusedLeavesNoTrace
  BY DEF RefusedLeavesNoTrace
<1>4. Transactions
  BY DEF Transactions
<1>5. InFlight
  BY InventoryAssumption DEF InFlight, Supply
<1> QED BY <1>1, <1>2, <1>3, <1>4, <1>5 DEF IInv

(* A handler that ends without effect keeps the invariant.  This covers    *)
(* every refusal, rollback, failure and deadlock victim.                   *)
LEMMA RefusalInv ==
  ASSUME IInv, NEW r \in Req, pc[r] \notin {"idle", "done"},
         NEW code \in {404, 409, 422, 500}, Rollback(r), Answer(r, code),
         quoted' \in [Req -> Level \cup {None}]
  PROVE  IInv'
<1> USE DEF IInv, Rollback, Answer, tables
<1> code \in Codes
  BY DEF Codes
<1>1. TypeOK'
  <2>1. lock' \in [Supply -> Req \cup {None}]
        /\ draft' \in [Supply -> [stock: Level, rows: Seq(Movement)]]
    BY LevelFacts DEF TypeOK
  <2>2. pc' \in [Req -> {"idle", "start", "recheck", "insert", "line", "explain", "done"}]
        /\ reply' \in [Req -> Codes \cup {None}]
    BY DEF TypeOK
  <2> QED BY <2>1, <2>2 DEF TypeOK
<1>2. Balanced'
  BY DEF Balanced, Live
<1>3. RefusedLeavesNoTrace'
  <2> SUFFICES ASSUME NEW s \in Supply, NEW i \in DOMAIN history[s]
               PROVE  reply'[history[s][i].by] \in {200, 500}
    BY DEF RefusedLeavesNoTrace
  <2>1. history[s][i].by \in Req
    BY RowShape
  <2>2. reply[history[s][i].by] \in {200, 500}
    BY DEF RefusedLeavesNoTrace
  <2>3. reply[r] = None
    BY DEF InFlight
  <2>4. history[s][i].by # r
    BY <2>2, <2>3, InventoryAssumption DEF Codes
  <2> QED BY <2>1, <2>2, <2>4 DEF TypeOK
<1>4. Transactions'
  BY DEF Transactions, Live, TypeOK
<1>5. InFlight'
  BY DEF InFlight, TypeOK
<1> QED BY <1>1, <1>2, <1>3, <1>4, <1>5

(* refusals are answered with one of the codes RefusalInv speaks of *)
LEMMA RefuseInv ==
  ASSUME IInv, NEW r \in Req, pc[r] \notin {"idle", "done"},
         NEW code \in {404, 409, 422, 500}, Refuse(r, code)
  PROVE  IInv'
<1>1. quoted' \in [Req -> Level \cup {None}]
  BY DEF Refuse, IInv, TypeOK
<1> QED BY <1>1, RefusalInv DEF Refuse

(* RefuseShort keeps the invariant. *)
LEMMA RefuseShortInv ==
  ASSUME IInv, NEW r \in Req, pc[r] \notin {"idle", "done"},
         NEW found \in BOOLEAN, NEW level \in Level, RefuseShort(r, found, level)
  PROVE  IInv'
<1>1. quoted' \in [Req -> Level \cup {None}]
  BY DEF RefuseShort, IInv, TypeOK
<1>2. CASE found
  BY <1>1, <1>2, RefusalInv DEF RefuseShort
<1>3. CASE ~found
  BY <1>1, <1>3, RefusalInv DEF RefuseShort
<1> QED BY <1>2, <1>3

(* a handler that only moves on to its next await *)
LEMMA MoveInv ==
  ASSUME IInv, NEW r \in Req, NEW label \in {"recheck", "insert", "line", "explain"},
         pc[r] \notin {"idle", "done"},
         pc[r] \in {"line", "explain"} => label \in {"line", "explain"},
         label \in {"line", "explain"} => input[r].op = "createService",
         label = "line" => next'[r] \in 1..(Len(input[r].lines) + 1),
         label = "explain" => next'[r] \in 1..Len(input[r].lines),
         next' \in [Req -> Nat], \A q \in Req \ {r} : next'[q] = next[q],
         Goto(r, label), UNCHANGED <<tables, lock, draft>>
  PROVE  IInv'
<1> USE DEF IInv, Goto, tables
<1>1. TypeOK'
  BY DEF TypeOK
<1>2. Balanced' /\ RefusedLeavesNoTrace'
  BY DEF Balanced, Live, RefusedLeavesNoTrace
<1>3. Transactions'
  BY DEF Transactions, Live, TypeOK
<1>4. InFlight'
  BY DEF InFlight, TypeOK
<1> QED BY <1>1, <1>2, <1>3, <1>4

(* Send keeps the invariant. *)
LEMMA SendInv ==
  ASSUME IInv, NEW r \in Req, Send(r)
  PROVE  IInv'
<1> USE DEF IInv, Send, tables
<1>1. TypeOK'
  BY DEF TypeOK
<1>2. Balanced' /\ RefusedLeavesNoTrace'
  BY DEF Balanced, Live, RefusedLeavesNoTrace
<1>3. Transactions'
  BY DEF Transactions, Live, TypeOK
<1>4. InFlight'
  BY DEF InFlight, TypeOK
<1> QED BY <1>1, <1>2, <1>3, <1>4

(* what the reply to a write that has taken effect leaves to show *)
Acked(r) ==
  /\ pc' \in [Req -> {"idle", "start", "recheck", "insert", "line", "explain", "done"}]
  /\ reply' \in [Req -> Codes \cup {None}]
  /\ UNCHANGED <<input, next, quoted>>
  /\ reply'[r] \in {200, 500} /\ pc'[r] = "done"
  /\ \A q \in Req \ {r} : reply'[q] = reply[q] /\ pc'[q] = pc[q]
  /\ \A s \in Supply : \A i \in DOMAIN history[s] :
       reply'[history[s][i].by] \in {200, 500}

(* Acknowledge answers so: a row of the history may keep its request *)
LEMMA AckFacts ==
  ASSUME IInv, NEW r \in Req, pc[r] \notin {"idle", "done"}, Acknowledge(r)
  PROVE  Acked(r)
<1>1. PICK code \in {200, 500} : Answer(r, code)
  BY DEF Acknowledge
<1>2. code \in Codes
  BY DEF Codes
<1>3. reply'[r] \in {200, 500} /\ reply' \in [Req -> Codes \cup {None}]
      /\ \A q \in Req \ {r} : reply'[q] = reply[q]
  BY <1>1, <1>2 DEF Answer, IInv, TypeOK
<1>4. \A s \in Supply : \A i \in DOMAIN history[s] :
        reply'[history[s][i].by] \in {200, 500}
  BY <1>3, RowShape DEF IInv, RefusedLeavesNoTrace
<1> QED BY <1>1, <1>3, <1>4 DEF Acked, Acknowledge, Answer, IInv, TypeOK

(* a request that is not in a transaction holds no lock *)
LEMMA NoLock ==
  ASSUME IInv, NEW r \in Req, pc[r] \notin {"line", "explain"}
  PROVE  \A s \in Supply : lock[s] # r
  BY StockAssumption DEF IInv, Transactions

(* a write outside a transaction leaves the open ones alone, if it touches *)
(* no row they have locked                                                 *)
LEMMA TransactionsKept ==
  ASSUME IInv, NEW r \in Req, pc[r] \notin {"line", "explain"}, Acked(r),
         UNCHANGED <<lock, draft>>,
         \A s \in Supply : lock[s] # None => status'[s] = status[s] /\ stock'[s] = stock[s]
  PROVE  Transactions'
<1> SUFFICES ASSUME NEW s \in Supply, lock[s] # None
             PROVE  /\ status'[s] = "live"
                    /\ pc'[lock[s]] \in {"line", "explain"}
                    /\ Replays(draft[s].rows, stock'[s], draft[s].stock)
                    /\ \A i \in DOMAIN draft[s].rows :
                         /\ draft[s].rows[i].by = lock[s]
                         /\ draft[s].rows[i].service = lock[s]
                         /\ draft[s].rows[i].type = "OUT"
  BY DEF Transactions, Live
<1>1. lock[s] \in Req /\ lock[s] # r
  BY NoLock DEF IInv, TypeOK
<1>2. pc'[lock[s]] = pc[lock[s]]
  BY <1>1 DEF Acked
<1> QED BY <1>2 DEF IInv, Transactions, Live

(* CreateSupply keeps the invariant. *)
LEMMA CreateSupplyInv ==
  ASSUME IInv, NEW r \in Req, CreateSupply(r)
  PROVE  IInv'
<1> DEFINE i == input[r]
<1>1. pc[r] = "start" /\ i.op = "createSupply" /\ i \in Inputs /\ r \in Supply
  BY DEF CreateSupply, At, IInv, InFlight, Supply
<1>2. CASE \E code \in {409, 500} : Refuse(r, code)
  BY <1>1, <1>2, RefuseInv
<1>3. CASE /\ i.stock \in Level
           /\ status' = [status EXCEPT ![r] = "live"]
           /\ sku' = [sku EXCEPT ![r] = i.sku]
           /\ opening' = [opening EXCEPT ![r] = i.stock]
           /\ stock' = [stock EXCEPT ![r] = i.stock]
           /\ Acknowledge(r)
           /\ UNCHANGED <<history, services, lock, draft>>
  <2> Acked(r)
    BY <1>1, <1>3, AckFacts
  <2> USE <1>1, <1>3 DEF IInv, Acked
  <2>1. TypeOK'
    BY InputShape DEF TypeOK
  <2>2. history[r] = <<>> /\ status[r] = "unborn"
    BY DEF InFlight
  <2>3. Balanced'
    BY <2>2, ReplaysEmpty DEF Balanced, Live, TypeOK
  <2>4. RefusedLeavesNoTrace'
    BY DEF RefusedLeavesNoTrace
  <2>5. Transactions'
    <3>1. \A s \in Supply : lock[s] # None => s # r
      BY <2>2 DEF Transactions, Live
    <3>2. \A t \in Supply : lock[t] # None => status'[t] = status[t] /\ stock'[t] = stock[t]
      BY <3>1 DEF TypeOK
    <3> QED BY <3>2, TransactionsKept
  <2>6. InFlight'
    BY <2>2 DEF InFlight, TypeOK
  <2> QED BY <2>1, <2>3, <2>4, <2>5, <2>6
<1> QED BY <1>2, <1>3 DEF CreateSupply

(* UpdateSupply keeps the invariant. *)
LEMMA UpdateSupplyInv ==
  ASSUME IInv, NEW r \in Req, UpdateSupply(r)
  PROVE  IInv'
<1> DEFINE s == input[r].supply
           k == input[r].sku
<1>1. pc[r] = "start" /\ s \in Supply /\ k \in Sku \cup {None}
  BY InputShape DEF UpdateSupply, At, IInv, InFlight
<1>2. CASE \E code \in {404, 409} : Refuse(r, code)
  BY <1>1, <1>2, RefuseInv
<1>3. CASE /\ sku' = IF k = None THEN sku ELSE [sku EXCEPT ![s] = k]
           /\ Acknowledge(r)
           /\ UNCHANGED <<status, opening, stock, history, services, lock, draft>>
  <2> Acked(r)
    BY <1>1, <1>3, AckFacts
  <2> USE <1>1, <1>3 DEF IInv, Acked
  <2>1. TypeOK'
    BY DEF TypeOK
  <2>2. Balanced' /\ RefusedLeavesNoTrace'
    BY DEF Balanced, Live, RefusedLeavesNoTrace
  <2>3. Transactions'
    BY TransactionsKept
  <2>4. InFlight'
    BY DEF InFlight, TypeOK
  <2> QED BY <2>1, <2>2, <2>3, <2>4
<1> QED BY <1>2, <1>3 DEF UpdateSupply

(* RemoveSupply keeps the invariant. *)
LEMMA RemoveSupplyInv ==
  ASSUME IInv, NEW r \in Req, RemoveSupply(r)
  PROVE  IInv'
<1> DEFINE s == input[r].supply
<1>1. pc[r] = "start" /\ s \in Supply
  BY InputShape DEF RemoveSupply, At, IInv, InFlight
<1>2. CASE Refuse(r, 404)
  BY <1>1, <1>2, RefuseInv
<1>3. CASE /\ Live(s) /\ Unlocked(r, s)
           /\ status' = [status EXCEPT ![s] = "deleted"]
           /\ history' = [history EXCEPT ![s] = <<>>]
           /\ Acknowledge(r)
           /\ UNCHANGED <<sku, opening, stock, services, lock, draft>>
  <2> Acked(r)
    BY <1>1, <1>3, AckFacts
  <2> USE <1>1, <1>3 DEF IInv, Acked
  <2>1. TypeOK'
    BY DEF TypeOK
  <2>2. Balanced' /\ RefusedLeavesNoTrace'
    BY DEF Balanced, Live, RefusedLeavesNoTrace, TypeOK
  <2>3. lock[s] = None
    BY NoLock DEF Unlocked
  <2>4. \A u \in Supply : lock[u] # None => status'[u] = status[u] /\ stock'[u] = stock[u]
    BY <2>3 DEF TypeOK
  <2>5. \A q \in Req : pc[q] # "done" => s # q
    BY DEF InFlight, Live
  <2>6. InFlight'
    BY <2>5 DEF InFlight, TypeOK
  <2>7. Transactions'
    <3> HIDE <1>3 DEF IInv, Acked, s
    <3>1. IInv /\ Acked(r) /\ UNCHANGED <<lock, draft>>
      BY <1>3
    <3> QED BY <3>1, <1>1, <2>4, TransactionsKept
  <2> QED BY <2>1, <2>2, <2>6, <2>7
<1> QED BY <1>2, <1>3 DEF RemoveSupply

(* the delta of an accepted movement leads to a level again *)
LEMMA RegisterMovementInv ==
  ASSUME IInv, NEW r \in Req, RegisterMovement(r)
  PROVE  IInv'
<1> DEFINE s == input[r].supply
           m == MovementOf(r)
<1>1. /\ pc[r] = "start" /\ s \in Supply
      /\ input[r].type \in {"IN", "OUT"} /\ input[r].quantity \in Nat \ {0}
  BY InputShape DEF RegisterMovement, At, IInv, InFlight
<1>2. CASE Refuse(r, 500)
  BY <1>1, <1>2, RefuseInv
<1>3. CASE Goto(r, "recheck") /\ UNCHANGED <<tables, lock, draft, next>>
  <2>1. next' \in [Req -> Nat]
    BY <1>3 DEF IInv, TypeOK
  <2> QED BY <1>1, <1>3, <2>1, MoveInv
<1>4. CASE /\ m.quantity <= MaxInt /\ Matches(s, m) /\ Unlocked(r, s)
           /\ stock[s] + Delta(m) <= MaxInt
           /\ Apply(s, m) /\ Acknowledge(r)
  <2>1. m \in Movement /\ m.by = r
    BY <1>1, <1>4, StockAssumption DEF MovementOf, Movement
  <2>2. stock[s] \in Level /\ stock[s] + Delta(m) \in Level
    BY <1>1, <1>4, <2>1, StockAssumption
       DEF Matches, Delta, Level, Movement, IInv, TypeOK
  <2>3. /\ stock' = [stock EXCEPT ![s] = stock[s] + Delta(m)]
        /\ history' = [history EXCEPT ![s] = Append(history[s], m)]
        /\ UNCHANGED <<status, sku, opening, services, lock, draft>>
    BY <1>4 DEF Apply
  <2>4. history[s] \in Seq(Movement)
    BY <1>1 DEF IInv, TypeOK
  <2> Acked(r)
    BY <1>1, <1>4, AckFacts
  <2> HIDE DEF m
  <2> USE <1>1, <2>1, <2>2, <2>3, <2>4 DEF IInv, Acked
  <2>5. TypeOK'
    BY <1>4 DEF TypeOK
  <2>6. Balanced'
    <3>1. Live(s) => Replays(Append(history[s], m), opening[s], stock[s] + Delta(m))
      BY ReplaysAppend DEF Balanced
    <3> QED BY <3>1 DEF Balanced, Live, TypeOK
  <2>7. RefusedLeavesNoTrace'
    <3>1. \A i \in DOMAIN Append(history[s], m) :
            \/ i \in DOMAIN history[s] /\ Append(history[s], m)[i] = history[s][i]
            \/ Append(history[s], m)[i] = m
      OBVIOUS
    <3>2. history'[s] = Append(history[s], m)
      BY DEF TypeOK
    <3> DEFINE more == Append(history[s], m)
    <3>0. \A i \in DOMAIN history[s] : reply'[history[s][i].by] \in {200, 500}
      OBVIOUS
    <3>6. reply'[m.by] \in {200, 500}
      OBVIOUS
    <3> HIDE DEF more, s
    <3>4. \A i \in DOMAIN history'[s] : reply'[history'[s][i].by] \in {200, 500}
      <4>1. \A i \in DOMAIN more : reply'[more[i].by] \in {200, 500}
        <5> TAKE i \in DOMAIN more
        <5>1. CASE i \in DOMAIN history[s] /\ more[i] = history[s][i]
          BY <5>1, <3>0
        <5>2. CASE more[i] = m
          BY <5>2, <3>6
        <5> QED BY <5>1, <5>2, <3>1 DEF more
      <4> QED BY <4>1, <3>2 DEF more
    <3>3. \A t \in Supply \ {s} : history'[t] = history[t]
      BY DEF TypeOK
    <3>5. ASSUME NEW t \in Supply, NEW i \in DOMAIN history'[t]
          PROVE  reply'[history'[t][i].by] \in {200, 500}
      <4>1. CASE t = s
        BY <4>1, <3>4
      <4>2. CASE t # s
        <5>1. history'[t] = history[t]
          BY <4>2, <3>3
        <5> QED BY <5>1, <3>5
      <4> QED BY <4>1, <4>2
    <3> QED BY <3>5 DEF RefusedLeavesNoTrace
  <2>8. Transactions'
    <3>1. lock[s] = None
      BY <1>4, NoLock DEF Unlocked
    <3>2. \A t \in Supply : lock[t] # None => status'[t] = status[t] /\ stock'[t] = stock[t]
      BY <3>1 DEF TypeOK
    <3> QED BY <3>2, TransactionsKept
  <2>9. InFlight'
    <3>1. status[s] # "unborn"
      BY <1>4 DEF Matches, Live
    <3> QED BY <3>1 DEF InFlight, TypeOK
  <2> QED BY <2>5, <2>6, <2>7, <2>8, <2>9
<1> QED BY <1>2, <1>3, <1>4 DEF RegisterMovement

(* Recheck keeps the invariant. *)
LEMMA RecheckInv ==
  ASSUME IInv, NEW r \in Req, Recheck(r)
  PROVE  IInv'
<1> DEFINE s == input[r].supply
<1>1. pc[r] = "recheck" /\ s \in Supply
  BY InputShape DEF Recheck, At, IInv, InFlight
<1>2. Live(s) \in BOOLEAN /\ stock[s] \in Level
  BY <1>1 DEF Live, IInv, TypeOK
<1> QED BY <1>1, <1>2, RefuseShortInv DEF Recheck

(* AssertMotorcycle keeps the invariant. *)
LEMMA AssertMotorcycleInv ==
  ASSUME IInv, NEW r \in Req, AssertMotorcycle(r)
  PROVE  IInv'
<1>1. pc[r] = "start"
  BY DEF AssertMotorcycle, At
<1>2. CASE Refuse(r, 404)
  BY <1>1, <1>2, RefuseInv
<1>3. CASE Goto(r, "insert") /\ UNCHANGED <<tables, lock, draft, next>>
  <2>1. next' \in [Req -> Nat]
    BY <1>3 DEF IInv, TypeOK
  <2> QED BY <1>1, <1>3, <2>1, MoveInv
<1> QED BY <1>2, <1>3 DEF AssertMotorcycle

(* Insert keeps the invariant. *)
LEMMA InsertInv ==
  ASSUME IInv, NEW r \in Req, InsertRefused(r) \/ CreatePlainService(r) \/ OpenTransaction(r)
  PROVE  IInv'
<1>1. /\ pc[r] = "insert" /\ input[r].op = "createService"
      /\ input[r].lines \in Seq([supply: Supply, quantity: Nat \ {0}])
  BY InputShape DEF InsertRefused, CreatePlainService, OpenTransaction, At, IInv, InFlight
<1>2. CASE InsertRefused(r)
  BY <1>1, <1>2, RefuseInv DEF InsertRefused
<1>3. CASE CreatePlainService(r)
  <2>1. Acked(r)
    BY <1>1, <1>3, AckFacts DEF CreatePlainService
  <2> USE <1>1, <1>3, <2>1 DEF IInv, Acked, CreatePlainService
  <2>2. TypeOK'
    BY DEF TypeOK
  <2>3. Balanced' /\ RefusedLeavesNoTrace'
    BY DEF Balanced, Live, RefusedLeavesNoTrace
  <2>4. Transactions'
    BY TransactionsKept
  <2>5. InFlight'
    BY DEF InFlight, TypeOK
  <2> QED BY <2>2, <2>3, <2>4, <2>5
<1>4. CASE OpenTransaction(r)
  <2>1. next' \in [Req -> Nat] /\ \A q \in Req \ {r} : next'[q] = next[q]
    BY <1>4 DEF OpenTransaction, IInv, TypeOK
  <2>2. next'[r] \in 1..(Len(input[r].lines) + 1)
    BY <1>1, <1>4 DEF OpenTransaction, IInv, TypeOK
  <2> QED BY <1>1, <1>4, <2>1, <2>2, MoveInv DEF OpenTransaction
<1> QED BY <1>2, <1>3, <1>4

(* the line a service is at *)
LEMMA LineShape ==
  ASSUME IInv, NEW r \in Req, pc[r] \in {"line", "explain"}, MoreLines(r)
  PROVE  /\ Line(r).supply \in Supply /\ Line(r).quantity \in Nat \ {0}
         /\ next[r] \in 1..Len(input[r].lines)
         /\ input[r].lines \in Seq([supply: Supply, quantity: Nat \ {0}])
<1>1. input[r].lines \in Seq([supply: Supply, quantity: Nat \ {0}])
  BY InputShape DEF IInv, InFlight
<1>2. next[r] \in 1..Len(input[r].lines)
  <2>1. Len(input[r].lines) \in Nat /\ next[r] \in Nat
    BY <1>1 DEF IInv, TypeOK
  <2> QED BY <2>1 DEF IInv, InFlight, MoreLines
<1>3. Line(r) \in [supply: Supply, quantity: Nat \ {0}]
  <2> DEFINE T == [supply: Supply, quantity: Nat \ {0}]
             lines == input[r].lines
  <2>1. lines \in Seq(T) /\ next[r] \in 1..Len(lines)
    BY <1>1, <1>2
  <2>2. lines[next[r]] \in T
    <3> HIDE DEF T, lines
    <3> QED BY <2>1
  <2> QED BY <2>2 DEF Line
<1> QED BY <1>1, <1>2, <1>3

(* what a transaction sees of a row is explained by its own rows so far *)
LEMMA SeenShape ==
  ASSUME IInv, NEW r \in Req, NEW s \in Supply
  PROVE  /\ Seen(r, s).stock \in Level /\ Seen(r, s).rows \in Seq(Movement)
         /\ Replays(Seen(r, s).rows, stock[s], Seen(r, s).stock)
         /\ \A i \in DOMAIN Seen(r, s).rows : /\ Seen(r, s).rows[i].by = r
                                              /\ Seen(r, s).rows[i].service = r
                                              /\ Seen(r, s).rows[i].type = "OUT"
<1>1. stock[s] \in Level
  BY DEF IInv, TypeOK
<1>2. CASE lock[s] = r
  <2>1. Seen(r, s) = draft[s] /\ lock[s] # None
    BY <1>2, StockAssumption DEF Seen
  <2> QED BY <1>2, <2>1 DEF IInv, TypeOK, Transactions
<1>3. CASE lock[s] # r
  <2>1. Seen(r, s) = [stock |-> stock[s], rows |-> <<>>]
    BY <1>3 DEF Seen
  <2> QED BY <1>1, <2>1, ReplaysEmpty
<1> QED BY <1>2, <1>3

(* ConsumeSupply keeps the invariant. *)
LEMMA ConsumeSupplyInv ==
  ASSUME IInv, NEW r \in Req, ConsumeSupply(r)
  PROVE  IInv'
<1> DEFINE l == Line(r)
           s == l.supply
<1>1. /\ pc[r] = "line" /\ input[r].op = "createService" /\ MoreLines(r)
      /\ s \in Supply /\ l.quantity \in Nat \ {0}
      /\ next[r] \in 1..Len(input[r].lines) /\ Len(input[r].lines) \in Nat
  BY LineShape DEF ConsumeSupply, At
<1>2. CASE Refuse(r, 500)
  BY <1>1, <1>2, RefuseInv
<1>3. CASE Goto(r, "explain") /\ UNCHANGED <<tables, lock, draft, next>>
  <2>1. next' \in [Req -> Nat]
    BY <1>3 DEF IInv, TypeOK
  <2> QED BY <1>1, <1>3, <2>1, MoveInv
<1>4. CASE /\ l.quantity <= MaxInt /\ Covers(r, l) /\ Unlocked(r, s)
           /\ lock' = [lock EXCEPT ![s] = r]
           /\ draft' = [draft EXCEPT ![s] = Consumed(r, l)]
           /\ next' = [next EXCEPT ![r] = @ + 1]
           /\ Goto(r, "line")
           /\ UNCHANGED tables
  <2> DEFINE m == [by |-> r, type |-> "OUT", quantity |-> l.quantity, service |-> r]
             old == Seen(r, s)
             new == Consumed(r, l)
  <2>1. m \in Movement /\ Delta(m) = -l.quantity
    BY <1>1, <1>4, StockAssumption DEF Movement, Delta
  <2>2. /\ old.stock \in Level /\ old.rows \in Seq(Movement)
        /\ Replays(old.rows, stock[s], old.stock)
        /\ \A i \in DOMAIN old.rows : /\ old.rows[i].by = r
                                      /\ old.rows[i].service = r
                                      /\ old.rows[i].type = "OUT"
    BY <1>1, SeenShape
  <2>3. new = [stock |-> old.stock - l.quantity, rows |-> Append(old.rows, m)]
    BY DEF Consumed
  <2>4. old.stock + Delta(m) \in Level /\ old.stock + Delta(m) = old.stock - l.quantity
    BY <1>1, <1>4, <2>1, <2>2, StockAssumption DEF Covers, Level
  <2>5. /\ new.rows \in Seq(Movement) /\ new \in [stock: Level, rows: Seq(Movement)]
        /\ Replays(new.rows, stock[s], new.stock)
    BY <2>1, <2>2, <2>3, <2>4, ReplaysAppend
  <2>6. \A i \in DOMAIN new.rows : /\ new.rows[i].by = r
                                   /\ new.rows[i].service = r
                                   /\ new.rows[i].type = "OUT"
    BY <2>2, <2>3
  <2> HIDE DEF m, old, new, l
  <2> USE <1>1, <1>4, <2>5, <2>6 DEF IInv, Goto, tables
  <2>7. TypeOK'
    BY DEF TypeOK, new
  <2>8. Balanced' /\ RefusedLeavesNoTrace'
    BY DEF Balanced, Live, RefusedLeavesNoTrace
  <2>9. Transactions'
    <3> SUFFICES ASSUME NEW t \in Supply, lock'[t] # None
                 PROVE  /\ status[t] = "live"
                        /\ pc'[lock'[t]] \in {"line", "explain"}
                        /\ Replays(draft'[t].rows, stock[t], draft'[t].stock)
                        /\ \A i \in DOMAIN draft'[t].rows :
                             /\ draft'[t].rows[i].by = lock'[t]
                             /\ draft'[t].rows[i].service = lock'[t]
                             /\ draft'[t].rows[i].type = "OUT"
      BY DEF Transactions, Live
    <3>1. CASE t = s
      <4>1. lock'[t] = r /\ draft'[t] = new /\ pc'[r] = "line"
        BY <3>1 DEF TypeOK, new
      <4> QED BY <3>1, <4>1 DEF Covers, Live
    <3>2. CASE t # s
      <4>1. lock'[t] = lock[t] /\ draft'[t] = draft[t] /\ lock[t] \in Req
        BY <3>2 DEF TypeOK
      <4>2. pc'[lock[t]] \in {"line", "explain"}
        BY <4>1 DEF Transactions, TypeOK
      <4> QED BY <4>1, <4>2 DEF Transactions, Live
    <3> QED BY <3>1, <3>2
  <2>10. InFlight'
    BY DEF InFlight, TypeOK
  <2> QED BY <2>7, <2>8, <2>9, <2>10
<1> QED BY <1>2, <1>3, <1>4 DEF ConsumeSupply

(* ExplainShortage keeps the invariant. *)
LEMMA ExplainShortageInv ==
  ASSUME IInv, NEW r \in Req, ExplainShortage(r)
  PROVE  IInv'
<1> DEFINE s == Line(r).supply
<1>1. pc[r] = "explain" /\ MoreLines(r)
  BY InputShape DEF ExplainShortage, At, IInv, InFlight, MoreLines, TypeOK
<1>2. s \in Supply
  BY <1>1, LineShape
<1>3. Live(s) \in BOOLEAN /\ Seen(r, s).stock \in Level
  BY <1>2, SeenShape DEF Live
<1> QED BY <1>1, <1>3, RefuseShortInv DEF ExplainShortage

(* CommitService keeps the invariant. *)
LEMMA CommitServiceInv ==
  ASSUME IInv, NEW r \in Req, CommitService(r)
  PROVE  IInv'
<1>1. pc[r] = "line" /\ input[r].op = "createService"
  BY DEF CommitService, At
<1>2. Acked(r)
  BY <1>1, AckFacts DEF CommitService
<1>3. \A s \in Supply :
        IF lock[s] = r
          THEN /\ Live(s)
               /\ history'[s] = history[s] \o draft[s].rows /\ stock'[s] = draft[s].stock
               /\ Replays(draft[s].rows, stock[s], draft[s].stock)
               /\ \A i \in DOMAIN draft[s].rows : draft[s].rows[i].by = r
          ELSE history'[s] = history[s] /\ stock'[s] = stock[s]
  BY StockAssumption DEF CommitService, Publish, IInv, Transactions
<1>4. \A s \in Supply : /\ draft[s].stock \in Level /\ draft[s].rows \in Seq(Movement)
                        /\ history[s] \in Seq(Movement) /\ stock[s] \in Level
  BY DEF IInv, TypeOK
<1>5. /\ \A s \in Supply : lock'[s] = IF lock[s] = r THEN None ELSE lock[s]
      /\ \A s \in Supply : lock[s] # r => draft'[s] = draft[s]
      /\ UNCHANGED <<status, sku, opening>> /\ services' = services \cup {r}
  BY DEF CommitService
<1>6. TypeOK'
  <2>1. /\ lock' \in [Supply -> Req \cup {None}]
        /\ draft' \in [Supply -> [stock: Level, rows: Seq(Movement)]]
    BY LevelFacts DEF CommitService, IInv, TypeOK
  <2>2. stock' \in [Supply -> Level]
    BY <1>4 DEF CommitService, Publish
  <2>3. history' \in [Supply -> Seq(Movement)]
    <3>1. \A s \in Supply : history[s] \o draft[s].rows \in Seq(Movement)
      BY <1>4
    <3> QED BY <1>4, <3>1 DEF CommitService, Publish
  <2> QED BY <1>2, <1>5, <2>1, <2>2, <2>3 DEF IInv, TypeOK, Acked
<1>7. Balanced'
  <2> SUFFICES ASSUME NEW s \in Supply, Live(s)
               PROVE  Replays(history'[s], opening[s], stock'[s])
    BY <1>5 DEF Balanced, Live
  <2>1. Replays(history[s], opening[s], stock[s])
    BY DEF IInv, Balanced
  <2>2. CASE lock[s] = r
    BY <2>1, <2>2, <1>3, <1>4, ReplaysConcat
  <2>3. CASE lock[s] # r
    BY <2>1, <2>3, <1>3
  <2> QED BY <2>2, <2>3
<1>8. RefusedLeavesNoTrace'
  <2> SUFFICES ASSUME NEW s \in Supply, NEW i \in DOMAIN history'[s]
               PROVE  reply'[history'[s][i].by] \in {200, 500}
    BY DEF RefusedLeavesNoTrace
  <2>1. \A j \in DOMAIN history[s] : reply'[history[s][j].by] \in {200, 500}
    BY <1>2 DEF Acked
  <2>2. CASE lock[s] # r
    <3>1. history'[s] = history[s]
      BY <2>2, <1>3
    <3> QED BY <2>1, <3>1
  <2>3. CASE lock[s] = r
    <3> DEFINE old == history[s]
               new == draft[s].rows
    <3>1. history'[s] = old \o new /\ old \in Seq(Movement) /\ new \in Seq(Movement)
      BY <2>3, <1>3, <1>4
    <3>2. \A j \in DOMAIN new : reply'[new[j].by] \in {200, 500}
      <4>1. reply'[r] \in {200, 500}
        BY <1>2 DEF Acked
      <4>2. \A j \in DOMAIN new : new[j].by = r
        BY <2>3, <1>3
      <4> QED BY <4>1, <4>2
    <3> HIDE DEF old, new
    <3>3. CASE i \in 1..Len(old)
      <4>1. i \in DOMAIN old /\ history'[s][i] = old[i]
        BY <3>1, <3>3
      <4> QED BY <4>1, <2>1 DEF old
    <3>4. CASE i \notin 1..Len(old)
      <4>1. (i - Len(old)) \in DOMAIN new /\ history'[s][i] = new[i - Len(old)]
        BY <3>1, <3>4
      <4> QED BY <4>1, <3>2
    <3> QED BY <3>3, <3>4
  <2> QED BY <2>2, <2>3
<1>9. Transactions'
  <2> SUFFICES ASSUME NEW s \in Supply, lock'[s] # None
               PROVE  /\ status[s] = "live"
                      /\ pc'[lock'[s]] \in {"line", "explain"}
                      /\ Replays(draft'[s].rows, stock'[s], draft'[s].stock)
                      /\ \A i \in DOMAIN draft'[s].rows :
                           /\ draft'[s].rows[i].by = lock'[s]
                           /\ draft'[s].rows[i].service = lock'[s]
                           /\ draft'[s].rows[i].type = "OUT"
    BY <1>5 DEF Transactions, Live
  <2>1. lock[s] # r /\ lock'[s] = lock[s] /\ draft'[s] = draft[s] /\ stock'[s] = stock[s]
    BY <1>3, <1>5
  <2>2. lock[s] \in Req
    BY <2>1 DEF IInv, TypeOK
  <2>3. pc'[lock[s]] = pc[lock[s]]
    BY <2>1, <2>2, <1>2 DEF Acked
  <2> QED BY <2>1, <2>3 DEF IInv, Transactions, Live
<1>10. InFlight'
  <2>1. \A s \in Supply : status[s] = "unborn" => lock[s] # r /\ history[s] = <<>>
    BY <1>3 DEF IInv, InFlight, Live
  <2>2. \A s \in Supply : status'[s] = "unborn" => history'[s] = <<>>
    BY <2>1, <1>3, <1>5
  <2>3. \A q \in Req : pc'[q] # "done" =>
          q # r /\ pc'[q] = pc[q] /\ reply'[q] = reply[q] /\ q \notin services'
    BY <1>2, <1>5 DEF IInv, InFlight, Acked
  <2>4. \A q \in Req : input'[q] = input[q] /\ next'[q] = next[q] /\ status'[q] = status[q]
    BY <1>2, <1>5 DEF Acked
  <2>5. pc'[r] = "done" /\ pc[r] # "idle"
    BY <1>1, <1>2 DEF Acked
  <2>6. \A q \in Req \ {r} : pc'[q] = pc[q]
    BY <1>2 DEF Acked
  <2>7. ASSUME NEW q \in Req
        PROVE  /\ pc'[q] # "idle" => input'[q] \in Inputs
               /\ pc'[q] \in {"line", "explain"} => input'[q].op = "createService"
               /\ pc'[q] = "line" => next'[q] \in 1..(Len(input'[q].lines) + 1)
               /\ pc'[q] = "explain" => next'[q] \in 1..Len(input'[q].lines)
               /\ pc'[q] # "done" => /\ reply'[q] = None
                                    /\ status'[q] = "unborn" /\ q \notin services'
    <3>1. CASE q = r
      BY <3>1, <2>4, <2>5 DEF IInv, InFlight
    <3>2. CASE q # r
      BY <3>2, <2>3, <2>4, <2>6 DEF IInv, InFlight
    <3> QED BY <3>1, <3>2
  <2> QED BY <2>2, <2>7 DEF InFlight
<1> QED BY <1>6, <1>7, <1>8, <1>9, <1>10 DEF IInv

(* RemoveService keeps the invariant. *)
LEMMA RemoveServiceInv ==
  ASSUME IInv, NEW r \in Req, RemoveService(r)
  PROVE  IInv'
<1> DEFINE sv == input[r].service
<1>1. pc[r] = "start" /\ sv \in Req
  BY InputShape DEF RemoveService, At, IInv, InFlight
<1>2. CASE Refuse(r, 404)
  BY <1>1, <1>2, RefuseInv
<1>3. CASE /\ services' = services \ {sv}
           /\ history' = [s \in Supply |-> Untagged(history[s], sv)]
           /\ Acknowledge(r)
           /\ UNCHANGED <<status, sku, opening, stock, lock, draft>>
  <2> HIDE DEF sv
  <2>1. Acked(r)
    BY <1>1, <1>3, AckFacts
  <2>2. \A s \in Supply :
          /\ history'[s] = Untagged(history[s], sv) /\ history'[s] \in Seq(Movement)
          /\ DOMAIN history'[s] = DOMAIN history[s]
          /\ \A i \in DOMAIN history[s] : history'[s][i].by = history[s][i].by
    <3> TAKE s \in Supply
    <3>1. history'[s] = Untagged(history[s], sv) /\ history[s] \in Seq(Movement)
      BY <1>3, RowShape DEF IInv
    <3>2. /\ history'[s] \in Seq(Movement) /\ Len(history'[s]) = Len(history[s])
          /\ \A i \in 1..Len(history[s]) : history'[s][i].by = history[s][i].by
      BY <3>1, UntaggedRows
    <3> QED BY <3>1, <3>2
  <2>3. TypeOK'
    BY <1>3, <2>1, <2>2 DEF IInv, TypeOK, Acked
  <2>4. Balanced'
    <3> SUFFICES ASSUME NEW s \in Supply, Live(s)
                 PROVE  Replays(history'[s], opening[s], stock[s])
      BY <1>3 DEF Balanced, Live
    <3> QED BY <2>2, RowShape, ReplaysUntagged DEF IInv, Balanced
  <2>5. RefusedLeavesNoTrace'
    BY <2>1, <2>2 DEF RefusedLeavesNoTrace, Acked
  <2>6. Transactions'
    BY <1>1, <1>3, <2>1, TransactionsKept
  <2>7. InFlight'
    <3>1. \A s \in Supply : status[s] = "unborn" => history'[s] = <<>>
      <4> SUFFICES ASSUME NEW s \in Supply, status[s] = "unborn" PROVE history'[s] = <<>>
        OBVIOUS
      <4>1. history[s] = <<>>
        BY DEF IInv, InFlight
      <4>2. history'[s] \in Seq(Movement) /\ Len(history'[s]) = 0
        BY <4>1, <2>2, UntaggedRows, RowShape DEF IInv
      <4> QED BY <4>2
    <3> QED BY <1>1, <1>3, <2>1, <3>1 DEF IInv, InFlight, Acked
  <2> QED BY <2>3, <2>4, <2>5, <2>6, <2>7 DEF IInv
<1> QED BY <1>2, <1>3 DEF RemoveService

(* every step keeps the inductive invariant *)
THEOREM StepInv == IInv /\ [Next]_vars => IInv'
<1> SUFFICES ASSUME IInv, [Next]_vars PROVE IInv'
  OBVIOUS
<1>1. CASE UNCHANGED vars
  BY <1>1 DEF vars, IInv, TypeOK, Balanced, RefusedLeavesNoTrace, Transactions, InFlight, Live
<1>2. ASSUME NEW r \in Req, Send(r) PROVE IInv'
  BY <1>2, SendInv
<1>3. ASSUME NEW r \in Req, Fail(r) PROVE IInv'
  BY <1>3, RefuseInv DEF Fail
<1>4. ASSUME NEW r \in Req, AbortDeadlock(r) PROVE IInv'
  <2>1. \E q \in Req : WaitsFor(r, q)
    BY <1>4 DEF AbortDeadlock
  <2>2. pc[r] = "line" /\ Refuse(r, 500)
    BY <1>4, <2>1 DEF AbortDeadlock, WaitsFor, At
  <2> QED BY <2>2, RefuseInv
<1>5. ASSUME NEW r \in Req, Step(r) PROVE IInv'
  BY <1>4, <1>5, CreateSupplyInv, UpdateSupplyInv, RemoveSupplyInv, RegisterMovementInv,
     RecheckInv, AssertMotorcycleInv, InsertInv, ConsumeSupplyInv, ExplainShortageInv,
     CommitServiceInv, RemoveServiceInv DEF Step
<1> QED BY <1>1, <1>2, <1>3, <1>5 DEF Next, Rest

(* So it holds in every reachable state. *)
THEOREM Inductive == Spec => []IInv
  BY InitInv, StepInv, PTL DEF Spec

(* Every variable keeps its type; in particular no stock is ever negative  *)
(* or beyond the INTEGER column.                                           *)
THEOREM TypeCorrect == Spec => []TypeOK
<1>1. IInv => TypeOK
  BY DEF IInv
<1> QED BY <1>1, Inductive, PTL

(* The running total never drifts from the history (supplies.service.ts    *)
(* :52-57), for any number of supplies, movements and services in flight.  *)
THEOREM StockIsHistory == Spec => []Balanced
<1>1. IInv => Balanced
  BY DEF IInv
<1> QED BY <1>1, Inductive, PTL

(* A request answered with 404, 409 or 422, or not yet answered, has no    *)
(* row in any history: the rollback of services.service.ts:26-37 is whole. *)
THEOREM NoTraceOfRefused == Spec => []RefusedLeavesNoTrace
<1>1. IInv => RefusedLeavesNoTrace
  BY DEF IInv
<1> QED BY <1>1, Inductive, PTL

(* Row locks belong to open transactions, whose drafts add up; no handler  *)
(* ends with a lock.                                                       *)
THEOREM LocksEnd == Spec => []Transactions
<1>1. IInv => Transactions
  BY DEF IInv
<1> QED BY <1>1, Inductive, PTL

-----------------------------------------------------------------------------
(* Who is told that the stock is short *)

(* A movement names a supply that there was, and a movement IN looks again *)
(* only because that supply is gone.                                       *)
LooksAgain ==
  \A r \in Req : pc[r] # "idle" /\ input[r].op = "registerMovement" =>
    /\ status[input[r].supply] # "unborn"
    /\ input[r].type = "IN" =>
         /\ reply[r] # 409
         /\ pc[r] = "recheck" => status[input[r].supply] = "deleted"

(* ids are not used twice *)
Moves(s) == \/ status'[s] = status[s]
            \/ status[s] = "unborn" /\ status'[s] = "live"
            \/ status[s] = "live" /\ status'[s] = "deleted"

(* what any step of r leaves alone, and what it does to a movement IN *)
Served(r) ==
  /\ UNCHANGED input /\ pc[r] # "idle"
  /\ \A q \in Req \ {r} : pc'[q] = pc[q] /\ reply'[q] = reply[q]
  /\ \A s \in Supply : Moves(s)
  /\ input[r].op = "registerMovement" /\ input[r].type = "IN" =>
       /\ reply'[r] # 409
       /\ pc'[r] = "recheck" => status'[input[r].supply] = "deleted"

(* a refusal of anything but a movement with 409 *)
LEMMA RefuseServed ==
  ASSUME IInv, NEW r \in Req, NEW code, Refuse(r, code), pc[r] # "idle",
         code # 409 \/ input[r].op # "registerMovement"
  PROVE  Served(r)
  BY DEF Refuse, Rollback, Answer, tables, Served, Moves, IInv, TypeOK

(* an acknowledged write is no refusal *)
LEMMA AcknowledgeServed ==
  ASSUME IInv, NEW r \in Req, Acknowledge(r), pc[r] # "idle", \A s \in Supply : Moves(s)
  PROVE  Served(r)
<1>1. PICK code \in {200, 500} : Answer(r, code)
  BY DEF Acknowledge
<1> QED BY <1>1 DEF Answer, Served, IInv, TypeOK

(* the handlers of SuppliesService but for movements, and RemoveService *)
LEMMA RowsServed ==
  ASSUME IInv, NEW r \in Req,
         \/ CreateSupply(r) \/ UpdateSupply(r) \/ RemoveSupply(r) \/ RemoveService(r)
  PROVE  Served(r)
<1>1. pc[r] = "start" /\ input[r].op # "registerMovement" /\ r \in Supply
  BY DEF CreateSupply, UpdateSupply, RemoveSupply, RemoveService, At, Supply
<1>2. CASE \E code : Refuse(r, code)
  BY <1>1, <1>2, RefuseServed
<1>3. CASE Acknowledge(r) /\ \A s \in Supply : Moves(s)
  BY <1>1, <1>3, AcknowledgeServed
<1>4. CASE status' = [status EXCEPT ![r] = "live"] /\ Acknowledge(r)
  <2>1. status[r] = "unborn"
    BY <1>1 DEF IInv, InFlight
  <2> QED BY <1>3, <1>4, <2>1 DEF Moves, IInv, TypeOK
<1>5. CASE /\ Live(input[r].supply) /\ Acknowledge(r)
           /\ status' = [status EXCEPT ![input[r].supply] = "deleted"]
  BY <1>3, <1>5 DEF Moves, Live, IInv, TypeOK
<1>6. CASE UNCHANGED status /\ Acknowledge(r)
  BY <1>3, <1>6 DEF Moves
<1> QED BY <1>2, <1>4, <1>5, <1>6
       DEF CreateSupply, UpdateSupply, RemoveSupply, RemoveService

(* the where of a movement IN fails for a deleted supply only *)
LEMMA MovementServed ==
  ASSUME IInv, LooksAgain, NEW r \in Req, RegisterMovement(r) \/ Recheck(r)
  PROVE  Served(r)
<1> DEFINE s == input[r].supply
<1>1. /\ pc[r] \in {"start", "recheck"} /\ input[r].op = "registerMovement"
      /\ s \in Supply /\ status[s] \in {"live", "deleted"}
  BY InputShape DEF RegisterMovement, Recheck, At, IInv, InFlight, TypeOK, LooksAgain
<1>2. reply[r] # 409
  BY <1>1, InventoryAssumption DEF IInv, InFlight, Codes
<1>3. CASE RegisterMovement(r)
  <2>1. CASE Refuse(r, 500)
    BY <1>1, <2>1, RefuseServed
  <2>2. CASE Apply(s, MovementOf(r)) /\ Acknowledge(r)
    BY <1>1, <2>2, AcknowledgeServed DEF Apply, Moves
  <2>3. CASE ~Matches(s, MovementOf(r)) /\ Goto(r, "recheck") /\ UNCHANGED tables
    BY <1>1, <1>2, <2>3
       DEF Matches, MovementOf, Live, Goto, tables, Served, Moves, IInv, TypeOK
  <2> QED BY <1>3, <2>1, <2>2, <2>3 DEF RegisterMovement
<1>4. CASE Recheck(r)
  <2>0. pc[r] = "recheck"
    BY <1>4 DEF Recheck, At
  <2>1. input[r].type = "IN" => ~Live(s)
    BY <1>1, <2>0 DEF LooksAgain, Live
  <2>2. RefuseShort(r, Live(s), stock[s])
    BY <1>4 DEF Recheck
  <2> QED BY <1>1, <2>1, <2>2
       DEF RefuseShort, Rollback, Answer, tables, Served, Moves, IInv, TypeOK
<1> QED BY <1>3, <1>4

(* the handlers of a service answer no movement *)
LEMMA ServiceServed ==
  ASSUME IInv, NEW r \in Req,
         \/ AssertMotorcycle(r) \/ InsertRefused(r) \/ CreatePlainService(r)
         \/ OpenTransaction(r) \/ ConsumeSupply(r) \/ ExplainShortage(r) \/ CommitService(r)
  PROVE  Served(r)
<1>1. pc[r] # "idle" /\ input[r].op # "registerMovement"
  BY DEF AssertMotorcycle, InsertRefused, CreatePlainService, OpenTransaction,
         ConsumeSupply, ExplainShortage, CommitService, At
<1>2. CASE \E code : Refuse(r, code)
  BY <1>1, <1>2, RefuseServed
<1>3. CASE UNCHANGED status /\ Acknowledge(r)
  BY <1>1, <1>3, AcknowledgeServed DEF Moves
<1>4. CASE UNCHANGED status /\ \E label : Goto(r, label)
  BY <1>1, <1>4 DEF Goto, Served, Moves, IInv, TypeOK
<1>5. CASE \E found, level : RefuseShort(r, found, level)
  BY <1>1, <1>5 DEF RefuseShort, Rollback, Answer, tables, Served, Moves, IInv, TypeOK
<1> QED BY <1>2, <1>3, <1>4, <1>5
       DEF AssertMotorcycle, InsertRefused, CreatePlainService, OpenTransaction,
           ConsumeSupply, ExplainShortage, CommitService, tables

(* a step of r leaves what is said of all requests *)
LEMMA ServedLooksAgain ==
  ASSUME IInv, LooksAgain, NEW r \in Req, Served(r)
  PROVE  LooksAgain'
<1> SUFFICES ASSUME NEW q \in Req, pc'[q] # "idle", input[q].op = "registerMovement"
             PROVE  /\ status'[input[q].supply] # "unborn"
                    /\ input[q].type = "IN" =>
                         /\ reply'[q] # 409
                         /\ pc'[q] = "recheck" => status'[input[q].supply] = "deleted"
  BY DEF LooksAgain, Served
<1>1. pc[q] # "idle"
  BY DEF Served
<1>2. input[q].supply \in Supply
  BY <1>1, InputShape DEF IInv, InFlight
<1>3. status[input[q].supply] # "unborn" /\ Moves(input[q].supply)
  BY <1>1, <1>2 DEF LooksAgain, Served
<1>4. status'[input[q].supply] # "unborn"
  BY <1>3 DEF Moves
<1>5. CASE q = r
  BY <1>4, <1>5 DEF Served
<1>6. CASE q # r
  <2>1. pc'[q] = pc[q] /\ reply'[q] = reply[q]
    BY <1>6 DEF Served
  <2> QED BY <1>1, <1>3, <1>4, <2>1 DEF LooksAgain, Moves
<1> QED BY <1>5, <1>6

(* a client names a supply it has been shown *)
LEMMA SendLooksAgain ==
  ASSUME IInv, LooksAgain, NEW r \in Req, Send(r)
  PROVE  LooksAgain'
<1>1. PICK i \in Inputs : Known(i) /\ input' = [input EXCEPT ![r] = i]
  BY DEF Send
<1>2. i.op = "registerMovement" => status[i.supply] # "unborn"
  BY <1>1 DEF Known
<1>3. /\ pc' = [pc EXCEPT ![r] = "start"] /\ UNCHANGED <<status, reply>>
      /\ reply[r] # 409
  BY InventoryAssumption DEF Send, tables, IInv, InFlight, Codes
<1> QED BY <1>1, <1>2, <1>3 DEF LooksAgain, IInv, TypeOK

(* what LooksAgain says of movements is so in every state *)
LEMMA AlwaysLooksAgain == Spec => []LooksAgain
<1>1. Init => LooksAgain
  BY DEF Init, LooksAgain
<1>2. IInv /\ LooksAgain /\ [Next]_vars => LooksAgain'
  <2> SUFFICES ASSUME IInv, LooksAgain, [Next]_vars PROVE LooksAgain'
    OBVIOUS
  <2>1. CASE UNCHANGED vars
    BY <2>1 DEF vars, LooksAgain
  <2>2. ASSUME NEW r \in Req, Fail(r) \/ AbortDeadlock(r) PROVE LooksAgain'
    <3>1. Refuse(r, 500) /\ pc[r] # "idle"
      BY <2>2 DEF Fail, AbortDeadlock, WaitsFor, At
    <3> QED BY <3>1, RefuseServed, ServedLooksAgain
  <2>3. ASSUME NEW r \in Req, Step(r) PROVE LooksAgain'
    BY <2>2, <2>3, RowsServed, MovementServed, ServiceServed, ServedLooksAgain DEF Step
  <2> QED BY <2>1, <2>2, <2>3, SendLooksAgain DEF Next, Rest
<1> QED BY <1>1, <1>2, Inductive, PTL DEF Spec

(* A movement IN is never refused with "Insufficient stock", for any       *)
(* number of requests: the condition on the stock is in the where of an    *)
(* OUT movement only (supplies.service.ts:64-66), and ids are not reused.  *)
THEOREM ShortOnlyOut == Spec => []ConflictsOnlyOut
<1>1. IInv /\ LooksAgain => ConflictsOnlyOut
  <2> SUFFICES ASSUME IInv, LooksAgain, NEW r \in Req, reply[r] = 409,
                      input[r].op = "registerMovement"
               PROVE  input[r].type = "OUT"
    BY DEF ConflictsOnlyOut
  <2>1. pc[r] # "idle"
    BY InventoryAssumption DEF IInv, InFlight, Codes
  <2>2. input[r].type \in {"IN", "OUT"}
    BY <2>1, InputShape DEF IInv, InFlight
  <2> QED BY <2>1, <2>2 DEF LooksAgain
<1> QED BY <1>1, AlwaysLooksAgain, Inductive, PTL
-----------------------------------------------------------------------------
(* The inventory implements the abstract ledger: each step of a handler is *)
(* one step of the ledger on the committed rows, or none.                  *)

(* the words of Stock mean the same in both modules *)
LEMMA SameWords ==
  /\ Ledger!Level = Level
  /\ \A rows, from, to : Ledger!Replays(rows, from, to) <=> Replays(rows, from, to)
  /\ \A rows, sv : Ledger!Untagged(rows, sv) = Untagged(rows, sv)
<1>1. Ledger!Level = Level
  BY DEF Ledger!Level, Level
<1>2. \A m : Ledger!Delta(m) = Delta(m)
  BY DEF Ledger!Delta, Delta
<1>3. \A rows, sv : Ledger!Untagged(rows, sv) = Untagged(rows, sv)
  BY DEF Ledger!Untagged, Untagged
<1>4. \A rows, from, to : Ledger!Replays(rows, from, to) <=> Replays(rows, from, to)
  BY <1>1, <1>2 DEF Ledger!Replays, Replays
<1> QED BY <1>1, <1>3, <1>4

(* the variables of the ledger are the committed rows *)
LEMMA Stutter == ASSUME UNCHANGED tables PROVE UNCHANGED Ledger!vars
  BY DEF tables, Ledger!vars

(* the rows added to a history that grows *)
LEMMA AddedRows ==
  ASSUME NEW s \in Supply, history[s] \in Seq(Movement), NEW rows \in Seq(Movement),
         history'[s] = history[s] \o rows
  PROVE  Ledger!Added(s) = rows
<1> DEFINE h == history[s]
           n == Len(h)
           added == SubSeq(h \o rows, n + 1, n + Len(rows))
<1>1. n \in Nat /\ Len(rows) \in Nat /\ Len(h \o rows) = n + Len(rows) /\ h \in Seq(Movement)
  OBVIOUS
<1>2. Ledger!Added(s) = added
  BY <1>1 DEF Ledger!Added
<1>3. h \o rows \in Seq(Movement)
  BY <1>1
<1>4. \A i \in 1..Len(rows) : (h \o rows)[n + i] = rows[i]
  BY <1>1
<1> HIDE DEF h, n
<1>5. /\ added \in Seq(Movement) /\ Len(added) = Len(rows)
      /\ \A i \in 1..Len(rows) : added[i] = (h \o rows)[n + i]
  <2> DEFINE all == h \o rows
             k == Len(rows)
  <2>1. \A i \in (n + 1)..(n + k) : all[i] \in Movement
    BY <1>1, <1>3
  <2>2. n + 1 \in Int /\ n + k \in Int /\ k \in Nat /\ n \in Nat
    BY <1>1
  <2> HIDE DEF all, k
  <2>3. /\ SubSeq(all, n + 1, n + k) \in Seq(Movement)
        /\ Len(SubSeq(all, n + 1, n + k)) = IF n + 1 <= n + k THEN (n + k) - (n + 1) + 1 ELSE 0
        /\ \A i \in 1..((n + k) - (n + 1) + 1) :
             SubSeq(all, n + 1, n + k)[i] = all[(n + 1) + i - 1]
    BY <2>1, <2>2, SubSeqProperties
  <2>4. \A i \in 1..k : SubSeq(all, n + 1, n + k)[i] = all[n + i]
    BY <2>2, <2>3
  <2>5. Len(SubSeq(all, n + 1, n + k)) = k
    BY <2>2, <2>3
  <2> QED BY <2>3, <2>4, <2>5 DEF all, k
<1>6. \A i \in 1..Len(rows) : added[i] = rows[i]
  BY <1>4, <1>5
<1>7. added = rows
  BY <1>5, <1>6, SeqEqual
<1> QED BY <1>2, <1>7

(* no rows added: the level stays *)
LEMMA NothingAdded ==
  ASSUME NEW s \in Supply, history[s] \in Seq(Movement), stock[s] \in Level,
         history'[s] = history[s], stock'[s] = stock[s]
  PROVE  Ledger!Added(s) = <<>> /\ Ledger!Explained(s)
<1>1. history[s] \o <<>> = history[s] /\ <<>> \in Seq(Movement)
  OBVIOUS
<1>2. Ledger!Added(s) = <<>>
  BY <1>1, AddedRows
<1> QED BY <1>2, ReplaysEmpty, SameWords DEF Ledger!Explained

(* the initial rows are those of the ledger *)
LEMMA InitImplements == Init => Ledger!Init
<1> SUFFICES ASSUME Init PROVE Ledger!Init
  OBVIOUS
<1>1. opening \in [Supply -> Level] /\ status \in [Supply -> {"unborn", "live"}]
  BY DEF Init
<1> QED BY <1>1, SameWords DEF Init, Ledger!Init

(* what changes no row is a stutter of the ledger: refusals and failures, *)
(* the first look at a row, the lines of a transaction                    *)
LEMMA RefuseStutters ==
  ASSUME NEW r, NEW code, Refuse(r, code)
  PROVE  UNCHANGED Ledger!vars
  BY Stutter DEF Refuse, Rollback

(* CreateSupply opens a supply. *)
LEMMA CreateSupplyImplements ==
  ASSUME IInv, NEW r \in Req, CreateSupply(r)
  PROVE  [Ledger!Next]_Ledger!vars
<1> DEFINE i == input[r]
<1>1. status[r] = "unborn" /\ r \in Supply
  BY DEF CreateSupply, At, IInv, InFlight, Supply
<1>2. CASE \E code \in {409, 500} : Refuse(r, code)
  BY <1>2, RefuseStutters
<1>3. CASE /\ i.stock \in Level
           /\ status' = [status EXCEPT ![r] = "live"]
           /\ opening' = [opening EXCEPT ![r] = i.stock]
           /\ stock' = [stock EXCEPT ![r] = i.stock]
           /\ UNCHANGED <<history, services>>
  <2>1. Ledger!Open(r)
    BY <1>1, <1>3, SameWords DEF Ledger!Open
  <2> QED BY <1>1, <2>1 DEF Ledger!Next
<1> QED BY <1>2, <1>3 DEF CreateSupply

(* UpdateSupply changes no column of the ledger. *)
LEMMA UpdateSupplyImplements ==
  ASSUME NEW r \in Req, UpdateSupply(r)
  PROVE  UNCHANGED Ledger!vars
  BY RefuseStutters DEF UpdateSupply, Ledger!vars

(* RemoveSupply closes a supply. *)
LEMMA RemoveSupplyImplements ==
  ASSUME IInv, NEW r \in Req, RemoveSupply(r)
  PROVE  [Ledger!Next]_Ledger!vars
<1> DEFINE s == input[r].supply
<1>1. s \in Supply
  BY InputShape DEF RemoveSupply, At, IInv, InFlight
<1>2. CASE Refuse(r, 404)
  BY <1>2, RefuseStutters
<1>3. CASE /\ Live(s)
           /\ status' = [status EXCEPT ![s] = "deleted"]
           /\ history' = [history EXCEPT ![s] = <<>>]
           /\ UNCHANGED <<opening, stock, services>>
  <2>1. Ledger!Close(s)
    BY <1>3 DEF Ledger!Close, Ledger!Live, Live
  <2> QED BY <1>1, <2>1 DEF Ledger!Next
<1> QED BY <1>2, <1>3 DEF RemoveSupply

(* RegisterMovement posts one row that explains the new level. *)
LEMMA RegisterMovementImplements ==
  ASSUME IInv, NEW r \in Req, RegisterMovement(r)
  PROVE  [Ledger!Next]_Ledger!vars
<1> DEFINE s == input[r].supply
           m == MovementOf(r)
<1>1. /\ s \in Supply /\ history[s] \in Seq(Movement) /\ stock[s] \in Level
      /\ input[r].type \in {"IN", "OUT"} /\ input[r].quantity \in Nat \ {0}
  BY InputShape DEF RegisterMovement, At, IInv, InFlight, TypeOK
<1>2. CASE UNCHANGED tables \/ Refuse(r, 500)
  BY <1>2, Stutter, RefuseStutters
<1>3. CASE /\ m.quantity <= MaxInt /\ Matches(s, m)
           /\ stock[s] + Delta(m) <= MaxInt
           /\ Apply(s, m)
  <2>1. m \in Movement /\ m.service = None
    BY <1>1, <1>3, StockAssumption DEF MovementOf, Movement
  <2>2. stock[s] + Delta(m) \in Level
    BY <1>1, <1>3, <2>1, StockAssumption DEF Matches, Delta, Level, Movement
  <2>3. /\ Live(s) /\ UNCHANGED <<status, opening, services>>
        /\ stock' = [stock EXCEPT ![s] = stock[s] + Delta(m)]
        /\ history' = [history EXCEPT ![s] = Append(history[s], m)]
    BY <1>3 DEF Apply, Matches
  <2> HIDE DEF m, s
  <2>4. stock'[s] = stock[s] + Delta(m) /\ history'[s] = Append(history[s], m)
    BY <1>1, <2>3 DEF IInv, TypeOK
  <2>5. <<m>> \in Seq(Movement) /\ Append(history[s], m) = history[s] \o <<m>>
        /\ Append(<<>>, m) = <<m>> /\ <<>> \in Seq(Movement)
    BY <1>1, <2>1
  <2>6. Ledger!Added(s) = <<m>>
    BY <1>1, <2>4, <2>5, AddedRows
  <2>7. Replays(<<m>>, stock[s], stock'[s])
    BY <1>1, <2>1, <2>2, <2>4, <2>5, ReplaysEmpty, ReplaysAppend
  <2>8. Len(<<m>>) = 1 /\ <<m>>[1] = m
    OBVIOUS
  <2>9. Ledger!Post(s)
    BY <2>1, <2>3, <2>4, <2>5, <2>6, <2>7, <2>8, SameWords
       DEF Ledger!Post, Ledger!Live, Ledger!Explained, Live
  <2> QED BY <1>1, <2>9 DEF Ledger!Next
<1> QED BY <1>2, <1>3 DEF RegisterMovement

(* A service without supplies books nothing. *)
LEMMA CreatePlainServiceImplements ==
  ASSUME IInv, NEW r \in Req, CreatePlainService(r)
  PROVE  [Ledger!Next]_Ledger!vars
<1>1. r \notin services
  BY DEF CreatePlainService, At, IInv, InFlight
<1>2. services' = services \cup {r} /\ UNCHANGED <<status, opening, stock, history>>
  BY DEF CreatePlainService
<1>3. \A s \in Supply : Ledger!Added(s) = <<>> /\ Ledger!Explained(s)
  BY <1>2, NothingAdded DEF IInv, TypeOK
<1>4. \A s \in Supply : history[s] \o <<>> = history[s]
  BY DEF IInv, TypeOK
<1>5. history' = [s \in Supply |-> history[s] \o Ledger!Added(s)]
  BY <1>2, <1>3, <1>4 DEF IInv, TypeOK
<1>6. stock' = [s \in Supply |-> stock'[s]]
  BY <1>2 DEF IInv, TypeOK
<1>7. Ledger!Book(r)
  BY <1>1, <1>2, <1>3, <1>5, <1>6 DEF Ledger!Book
<1> QED BY <1>7 DEF Ledger!Next

(* CommitService books what the drafts of its transaction hold. *)
LEMMA CommitServiceImplements ==
  ASSUME IInv, NEW r \in Req, CommitService(r)
  PROVE  [Ledger!Next]_Ledger!vars
<1>1. r \notin services
  BY DEF CommitService, At, IInv, InFlight
<1>2. /\ services' = services \cup {r} /\ UNCHANGED <<status, opening>>
      /\ stock' = [s \in Supply |-> IF lock[s] = r THEN draft[s].stock ELSE stock[s]]
      /\ history' = [s \in Supply |->
                       IF lock[s] = r THEN history[s] \o draft[s].rows ELSE history[s]]
  BY DEF CommitService, Publish
<1>3. \A s \in Supply : /\ history[s] \in Seq(Movement) /\ draft[s].rows \in Seq(Movement)
                        /\ stock[s] \in Level
  BY DEF IInv, TypeOK
<1>4. ASSUME NEW s \in Supply
      PROVE  /\ history'[s] = history[s] \o Ledger!Added(s)
             /\ Ledger!Explained(s)
             /\ Ledger!Added(s) # <<>> => Live(s)
             /\ \A i \in DOMAIN Ledger!Added(s) : /\ Ledger!Added(s)[i].service = r
                                                  /\ Ledger!Added(s)[i].type = "OUT"
  <2>1. CASE lock[s] = r
    <3>1. history'[s] = history[s] \o draft[s].rows /\ stock'[s] = draft[s].stock
      BY <1>2, <2>1
    <3>2. Ledger!Added(s) = draft[s].rows
      BY <1>3, <3>1, AddedRows
    <3>3. /\ Live(s) /\ Replays(draft[s].rows, stock[s], draft[s].stock)
          /\ \A i \in DOMAIN draft[s].rows : /\ draft[s].rows[i].service = r
                                             /\ draft[s].rows[i].type = "OUT"
      BY <2>1, StockAssumption DEF IInv, Transactions
    <3> QED BY <3>1, <3>2, <3>3, SameWords DEF Ledger!Explained
  <2>2. CASE lock[s] # r
    <3>1. history'[s] = history[s] /\ stock'[s] = stock[s]
      BY <1>2, <2>2
    <3>2. Ledger!Added(s) = <<>> /\ Ledger!Explained(s) /\ history[s] \o <<>> = history[s]
      BY <1>3, <3>1, NothingAdded
    <3> QED BY <3>1, <3>2
  <2> QED BY <2>1, <2>2
<1>5. history' = [s \in Supply |-> history[s] \o Ledger!Added(s)]
  BY <1>2, <1>4
<1>6. stock' = [s \in Supply |-> stock'[s]]
  BY <1>2
<1>7. Ledger!Book(r)
  BY <1>1, <1>2, <1>4, <1>5, <1>6 DEF Ledger!Book, Ledger!Live, Live
<1> QED BY <1>7 DEF Ledger!Next

(* RemoveService detaches the rows of a service. *)
LEMMA RemoveServiceImplements ==
  ASSUME IInv, NEW r \in Req, RemoveService(r)
  PROVE  [Ledger!Next]_Ledger!vars
<1> DEFINE sv == input[r].service
<1>1. sv \in Req
  BY InputShape DEF RemoveService, At, IInv, InFlight
<1>2. CASE Refuse(r, 404)
  BY <1>2, RefuseStutters
<1>3. CASE /\ sv \in services /\ services' = services \ {sv}
           /\ history' = [s \in Supply |-> Untagged(history[s], sv)]
           /\ UNCHANGED <<status, opening, stock>>
  <2>1. Ledger!Detach(sv)
    BY <1>3, SameWords DEF Ledger!Detach
  <2> QED BY <1>1, <2>1 DEF Ledger!Next
<1> QED BY <1>2, <1>3 DEF RemoveService

(* the steps that only move a handler on, or end it *)
LEMMA OtherStepsStutter ==
  ASSUME NEW r \in Req,
         \/ Send(r) \/ Fail(r) \/ Recheck(r) \/ AssertMotorcycle(r) \/ InsertRefused(r)
         \/ OpenTransaction(r) \/ ConsumeSupply(r) \/ ExplainShortage(r) \/ AbortDeadlock(r)
  PROVE  UNCHANGED Ledger!vars
<1>1. CASE \E code : Refuse(r, code)
  BY <1>1, RefuseStutters
<1>2. CASE \E found, level : RefuseShort(r, found, level)
  BY <1>2, Stutter DEF RefuseShort, Rollback
<1>3. CASE UNCHANGED tables
  BY <1>3, Stutter
<1> QED BY <1>1, <1>2, <1>3
       DEF Send, Fail, Recheck, AssertMotorcycle, InsertRefused, OpenTransaction,
           ConsumeSupply, ExplainShortage, AbortDeadlock

(* Every step of the inventory is a step of the ledger or leaves it alone. *)
THEOREM StepImplements == IInv /\ [Next]_vars => [Ledger!Next]_Ledger!vars
<1> SUFFICES ASSUME IInv, [Next]_vars PROVE [Ledger!Next]_Ledger!vars
  OBVIOUS
<1>1. CASE UNCHANGED vars
  BY <1>1, Stutter DEF vars, tables
<1>2. ASSUME NEW r \in Req, Send(r) \/ Step(r) \/ Fail(r) PROVE [Ledger!Next]_Ledger!vars
  BY <1>2, CreateSupplyImplements, UpdateSupplyImplements, RemoveSupplyImplements,
     RegisterMovementImplements, CreatePlainServiceImplements, CommitServiceImplements,
     RemoveServiceImplements, OtherStepsStutter DEF Step
<1> QED BY <1>1, <1>2 DEF Next, Rest

(* Seen through its committed rows the inventory is the abstract ledger:   *)
(* a movement and its level in one step, a service with all its lines or   *)
(* with none (supplies.service.ts:52-57, services.service.ts:26-37).       *)
THEOREM ImplementsLedger == Spec => LedgerSpec
  BY InitImplements, StepImplements, Inductive, PTL
     DEF Spec, LedgerSpec, Ledger!Spec
-----------------------------------------------------------------------------
(* Replies and histories: what a request asks for, what is recorded of it, *)
(* and what the drafts of its transaction hold in between.                 *)

(* The entries that rows of histories and lines of requests are compared as *)
AnyEntry == [supply: Supply, by: Req, type: {"IN", "OUT"}, quantity: Nat]

(* rows as entries, one for one *)
LEMMA EntriesFacts ==
  ASSUME NEW s \in Supply, NEW rows \in Seq(Movement)
  PROVE  /\ Entries(s, rows) \in Seq(AnyEntry) /\ Len(Entries(s, rows)) = Len(rows)
         /\ \A n \in 1..Len(rows) :
              Entries(s, rows)[n] = Entry(s, rows[n].by, rows[n].type, rows[n].quantity)
<1>1. DOMAIN rows = 1..Len(rows) /\ Len(rows) \in Nat
  OBVIOUS
<1>2. \A n \in 1..Len(rows) :
        Entry(s, rows[n].by, rows[n].type, rows[n].quantity) \in AnyEntry
  <2> TAKE n \in 1..Len(rows)
  <2>1. rows[n] \in Movement
    OBVIOUS
  <2> QED BY <2>1, StockAssumption DEF Movement, Entry, AnyEntry
<1>3. Entries(s, rows) = [n \in 1..Len(rows) |->
                            Entry(s, rows[n].by, rows[n].type, rows[n].quantity)]
  BY <1>1 DEF Entries
<1>4. Entries(s, rows) \in [1..Len(rows) -> AnyEntry]
  BY <1>2, <1>3
<1>5. Entries(s, rows) \in Seq(AnyEntry) /\ Len(Entries(s, rows)) = Len(rows)
  <2> DEFINE e == Entries(s, rows)
  <2>1. e \in [1..Len(rows) -> AnyEntry] /\ DOMAIN e = 1..Len(rows)
    BY <1>4
  <2> HIDE DEF e
  <2>2. e \in Seq(AnyEntry)
    BY <1>1, <2>1
  <2>3. Len(e) = Len(rows)
    BY <1>1, <2>1, <2>2
  <2> QED BY <2>2, <2>3 DEF e
<1> QED BY <1>3, <1>5

(* sequences are equal that have the same elements *)
LEMMA SameEntries ==
  ASSUME NEW a \in Seq(AnyEntry), NEW b \in Seq(AnyEntry), Len(a) = Len(b),
         \A n \in 1..Len(a) : a[n] = b[n]
  PROVE  a = b
  BY SeqEqual

(* one more row is one more entry *)
LEMMA EntriesAppend ==
  ASSUME NEW s \in Supply, NEW rows \in Seq(Movement), NEW m \in Movement
  PROVE  /\ Entry(s, m.by, m.type, m.quantity) \in AnyEntry
         /\ Entries(s, Append(rows, m))
              = Append(Entries(s, rows), Entry(s, m.by, m.type, m.quantity))
<1> DEFINE e == Entry(s, m.by, m.type, m.quantity)
           longer == Append(rows, m)
           a == Entries(s, longer)
           b == Append(Entries(s, rows), e)
<1>1. e \in AnyEntry
  BY StockAssumption DEF Movement, Entry, AnyEntry
<1>2. /\ longer \in Seq(Movement) /\ Len(longer) = Len(rows) + 1 /\ Len(rows) \in Nat
      /\ longer[Len(rows) + 1] = m /\ \A n \in 1..Len(rows) : longer[n] = rows[n]
  OBVIOUS
<1> HIDE DEF longer, e
<1>3. /\ a \in Seq(AnyEntry) /\ Len(a) = Len(rows) + 1
      /\ \A n \in 1..(Len(rows) + 1) :
           a[n] = Entry(s, longer[n].by, longer[n].type, longer[n].quantity)
  BY <1>2, EntriesFacts
<1>4. /\ b \in Seq(AnyEntry) /\ Len(b) = Len(rows) + 1 /\ b[Len(rows) + 1] = e
      /\ \A n \in 1..Len(rows) :
           b[n] = Entry(s, rows[n].by, rows[n].type, rows[n].quantity)
  BY <1>1, EntriesFacts, AppendProperties
<1> HIDE DEF a, b
<1>5. \A n \in 1..Len(a) : a[n] = b[n]
  <2> TAKE n \in 1..Len(a)
  <2>1. CASE n \in 1..Len(rows)
    BY <1>2, <1>3, <1>4, <2>1
  <2>2. CASE n = Len(rows) + 1
    BY <1>2, <1>3, <1>4, <2>2 DEF e
  <2> QED BY <1>2, <1>3, <2>1, <2>2
<1>6. a = b
  BY <1>3, <1>4, <1>5, SameEntries
<1> QED BY <1>1, <1>6 DEF a, b, longer, e

(* rows put behind others are entries put behind others *)
LEMMA EntriesConcat ==
  ASSUME NEW s \in Supply, NEW rows \in Seq(Movement), NEW new \in Seq(Movement)
  PROVE  Entries(s, rows \o new) = Entries(s, rows) \o Entries(s, new)
<1> DEFINE all == rows \o new
           c == Entries(s, rows)
           d == Entries(s, new)
           a == Entries(s, all)
           b == c \o d
<1>1. /\ all \in Seq(Movement) /\ Len(all) = Len(rows) + Len(new)
      /\ Len(rows) \in Nat /\ Len(new) \in Nat
      /\ \A n \in 1..Len(all) : all[n] = IF n <= Len(rows) THEN rows[n] ELSE new[n - Len(rows)]
  BY ConcatProperties
<1> HIDE DEF all
<1>2. /\ a \in Seq(AnyEntry) /\ Len(a) = Len(all)
      /\ \A n \in 1..Len(all) : a[n] = Entry(s, all[n].by, all[n].type, all[n].quantity)
  BY <1>1, EntriesFacts
<1>3. /\ c \in Seq(AnyEntry) /\ Len(c) = Len(rows)
      /\ d \in Seq(AnyEntry) /\ Len(d) = Len(new)
  BY EntriesFacts
<1> HIDE DEF c, d
<1>4. /\ b \in Seq(AnyEntry) /\ Len(b) = Len(rows) + Len(new)
      /\ \A n \in 1..Len(b) : b[n] = IF n <= Len(rows) THEN c[n] ELSE d[n - Len(rows)]
  <2>1. /\ b \in Seq(AnyEntry) /\ Len(b) = Len(c) + Len(d)
        /\ \A n \in 1..(Len(c) + Len(d)) : b[n] = IF n <= Len(c) THEN c[n] ELSE d[n - Len(c)]
    BY <1>3, ConcatProperties
  <2> HIDE DEF b
  <2> QED BY <1>3, <2>1
<1> HIDE DEF a, b
<1>5. \A n \in 1..Len(a) : a[n] = b[n]
  <2> TAKE n \in 1..Len(a)
  <2>1. CASE n <= Len(rows)
    <3>1. c[n] = Entry(s, rows[n].by, rows[n].type, rows[n].quantity)
      BY <1>1, <1>2, <2>1, EntriesFacts DEF c
    <3> QED BY <1>1, <1>2, <1>4, <2>1, <3>1
  <2>2. CASE ~(n <= Len(rows))
    <3> DEFINE k == n - Len(rows)
    <3>1. k \in 1..Len(new)
      BY <1>1, <1>2, <2>2
    <3> HIDE DEF k
    <3>2. d[k] = Entry(s, new[k].by, new[k].type, new[k].quantity)
      BY <3>1, EntriesFacts DEF d
    <3>3. all[n] = new[k] /\ b[n] = d[k]
      BY <1>1, <1>2, <1>4, <2>2 DEF k
    <3> QED BY <1>2, <3>2, <3>3
  <2> QED BY <2>1, <2>2
<1>6. a = b
  BY <1>1, <1>2, <1>4, <1>5, SameEntries
<1> QED BY <1>6 DEF a, b, c, d, all

(* a row that forgets its service is the same entry *)
LEMMA EntriesUntagged ==
  ASSUME NEW s \in Supply, NEW rows \in Seq(Movement), NEW sv
  PROVE  Entries(s, Untagged(rows, sv)) = Entries(s, rows)
<1> DEFINE u == Untagged(rows, sv)
<1>1. /\ u = [n \in 1..Len(rows) |-> IF rows[n].service = sv
                                     THEN [rows[n] EXCEPT !.service = None] ELSE rows[n]]
      /\ DOMAIN rows = 1..Len(rows)
  BY DEF Untagged
<1>2. \A n \in 1..Len(rows) : /\ u[n].by = rows[n].by /\ u[n].type = rows[n].type
                              /\ u[n].quantity = rows[n].quantity
  <2> TAKE n \in 1..Len(rows)
  <2>1. rows[n] \in Movement
    OBVIOUS
  <2> QED BY <1>1, <2>1 DEF Movement
<1>3. DOMAIN u = DOMAIN rows
  BY <1>1
<1> HIDE DEF u
<1> QED BY <1>1, <1>2, <1>3 DEF Entries, u

(* nothing is recorded of a request that has no row *)
LEMMA NoRows ==
  ASSUME NEW s \in Supply, NEW rows \in Seq(Movement), NEW q,
         \A n \in 1..Len(rows) : rows[n].by # q
  PROVE  Among(Entries(s, rows), Of(q, s)) = <<>>
<1> DEFINE e == Entries(s, rows)
<1>1. /\ e \in Seq(AnyEntry) /\ Len(e) = Len(rows)
      /\ \A n \in 1..Len(rows) : e[n] = Entry(s, rows[n].by, rows[n].type, rows[n].quantity)
  BY EntriesFacts
<1> HIDE DEF e
<1>2. \A n \in 1..Len(e) : e[n] \notin Of(q, s)
  <2> TAKE n \in 1..Len(e)
  <2>0. n \in 1..Len(rows)
    BY <1>1
  <2>1. rows[n].by # q /\ e[n].by = rows[n].by
    <3>1. \A by, type, quantity : Entry(s, by, type, quantity).by = by
      BY DEF Entry
    <3> QED BY <1>1, <2>0, <3>1
  <2>2. \A x \in Of(q, s) : x.by = q
    BY DEF Of
  <2> QED BY <2>1, <2>2
<1> QED BY <1>1, <1>2, AmongNone DEF e

(* what a request asks for *)
LEMMA AskedFacts ==
  ASSUME IInv, NEW q \in Req, pc[q] # "idle"
  PROVE  /\ Asked(q) \in Seq(AnyEntry)
         /\ \A n \in 1..Len(Asked(q)) : Asked(q)[n].by = q
         /\ input[q].op = "createService" =>
              /\ Len(Asked(q)) = Len(input[q].lines) /\ Len(input[q].lines) \in Nat
              /\ \A n \in 1..Len(input[q].lines) :
                   /\ input[q].lines[n] \in [supply: Supply, quantity: Nat \ {0}]
                   /\ Asked(q)[n] = Entry(input[q].lines[n].supply, q, "OUT",
                                          input[q].lines[n].quantity)
<1> DEFINE i == input[q]
<1>1. i \in Inputs
  BY DEF IInv, InFlight
<1>2. CASE i.op = "createService"
  <2> DEFINE L == i.lines
             a == Asked(q)
             Wanted == [supply: Supply, quantity: Nat \ {0}]
  <2>1. L \in Seq(Wanted)
    BY <1>1, <1>2, InputShape
  <2>2. a = [n \in DOMAIN L |-> Entry(L[n].supply, q, "OUT", L[n].quantity)]
    BY <1>2 DEF Asked
  <2> HIDE DEF L, a, Wanted
  <2>3. /\ DOMAIN L = 1..Len(L) /\ Len(L) \in Nat
        /\ \A n \in 1..Len(L) : L[n] \in Wanted
    BY <2>1
  <2>4. \A n \in 1..Len(L) : Entry(L[n].supply, q, "OUT", L[n].quantity) \in AnyEntry
    BY <2>3 DEF Entry, AnyEntry, Wanted
  <2>5. a \in [1..Len(L) -> AnyEntry] /\ DOMAIN a = 1..Len(L)
    BY <2>2, <2>3, <2>4
  <2>6. a \in Seq(AnyEntry) /\ Len(a) = Len(L)
    BY <2>3, <2>5
  <2>7. \A n \in 1..Len(L) : a[n] = Entry(L[n].supply, q, "OUT", L[n].quantity)
    BY <2>2, <2>3
  <2>8. \A n \in 1..Len(a) : a[n].by = q
    <3>1. \A x : Entry(x.supply, q, "OUT", x.quantity).by = q
      BY DEF Entry
    <3> QED BY <2>6, <2>7, <3>1
  <2> QED BY <2>3, <2>6, <2>7, <2>8 DEF L, a, Wanted
<1>3. CASE i.op = "registerMovement"
  <2> DEFINE e == Entry(i.supply, q, i.type, i.quantity)
  <2>1. e \in AnyEntry /\ e.by = q
    BY <1>1, <1>3, InputShape DEF Entry, AnyEntry
  <2>2. Asked(q) = <<e>>
    BY <1>3 DEF Asked
  <2> HIDE DEF e
  <2>3. Asked(q) \in Seq(AnyEntry) /\ \A n \in 1..Len(Asked(q)) : Asked(q)[n].by = q
    BY <2>1, <2>2
  <2> QED BY <1>3, <2>3
<1>4. CASE i.op \notin {"createService", "registerMovement"}
  <2>1. Asked(q) = <<>>
    BY <1>4 DEF Asked
  <2> QED BY <1>4, <2>1
<1> QED BY <1>2, <1>3, <1>4

(* nothing is recorded of a request that has not been answered *)
LEMMA NothingYet ==
  ASSUME IInv, NEW q \in Req, reply[q] \notin {200, 500}
  PROVE  \A s \in Supply : Recorded(q, s) = <<>>
<1> SUFFICES ASSUME NEW s \in Supply PROVE Recorded(q, s) = <<>>
  OBVIOUS
<1>1. history[s] \in Seq(Movement) /\ DOMAIN history[s] = 1..Len(history[s])
  BY RowShape DEF IInv
<1>2. \A n \in 1..Len(history[s]) : history[s][n].by # q
  BY <1>1 DEF IInv, RefusedLeavesNoTrace
<1> QED BY <1>1, <1>2, NoRows DEF Recorded

(* the supplies a request asks for are there, or were *)
Named ==
  \A q \in Req : pc[q] # "idle" =>
    \A n \in 1..Len(Asked(q)) : status[Asked(q)[n].supply] # "unborn"

(* the two halves of RepliesMatchHistory, for one request *)
Fits(q) == /\ reply[q] = 200 => Whole(q)
           /\ reply[q] = 500 => Whole(q) \/ Nothing(q)

(* what is recorded of q stays, or goes with its supply *)
RecordKept(q) ==
  \A s \in Supply :
    \/ Recorded(q, s)' = Recorded(q, s) /\ (Live(s)' => Live(s) \/ status[s] = "unborn")
    \/ Recorded(q, s)' = <<>> /\ ~Live(s)'

(* what is asked for is a matter of the request alone *)
LEMMA AskedKept ==
  ASSUME NEW q, input'[q] = input[q]
  PROVE  Asked(q)' = Asked(q)
  BY DEF Asked

(* a new supply has no rows, and nobody has asked for any *)
LEMMA UnbornEmpty ==
  ASSUME IInv, Named, NEW q \in Req, pc[q] # "idle", NEW s \in Supply, status[s] = "unborn"
  PROVE  Recorded(q, s) = <<>> /\ Among(Asked(q), Of(q, s)) = <<>>
<1>1. history[s] = <<>> /\ history[s] \in Seq(Movement)
  BY RowShape DEF IInv, InFlight
<1>2. Recorded(q, s) = <<>>
  <2>1. \A n \in 1..Len(history[s]) : history[s][n].by # q
    BY <1>1
  <2> QED BY <1>1, <2>1, NoRows DEF Recorded
<1>3. \A n \in 1..Len(Asked(q)) : Asked(q)[n] \notin Of(q, s)
  <2> TAKE n \in 1..Len(Asked(q))
  <2>1. Asked(q)[n].supply # s
    BY DEF Named
  <2>2. \A x \in Of(q, s) : x.supply = s
    BY DEF Of
  <2> QED BY <2>1, <2>2
<1>4. Asked(q) \in Seq(AnyEntry)
  BY AskedFacts
<1> QED BY <1>2, <1>3, <1>4, AmongNone

(* so a reply that fits goes on to do so *)
LEMMA FitsKept ==
  ASSUME IInv, Named, NEW q \in Req, pc[q] # "idle", RecordKept(q), input'[q] = input[q]
  PROVE  /\ Whole(q) => Whole(q)'
         /\ Nothing(q) => Nothing(q)'
<1>1. Asked(q)' = Asked(q)
  BY AskedKept
<1>2. ASSUME Whole(q), NEW s \in Supply, Live(s)'
      PROVE  Recorded(q, s)' = Among(Asked(q), Of(q, s))
  <2>1. Recorded(q, s)' = Recorded(q, s)
    BY <1>2 DEF RecordKept
  <2>2. CASE Live(s)
    BY <1>2, <2>1, <2>2 DEF Whole
  <2>3. CASE status[s] = "unborn"
    BY <2>1, <2>3, UnbornEmpty
  <2> QED BY <1>2, <2>2, <2>3 DEF RecordKept
<1>3. Whole(q) => Whole(q)'
  BY <1>1, <1>2 DEF Whole, Of
<1>4. Nothing(q) => Nothing(q)'
  BY DEF Nothing, RecordKept
<1> QED BY <1>3, <1>4

(* all that is claimed of replies, histories and drafts, by induction *)
RInv == IInv /\ LooksAgain /\ Named /\ LinesDone /\ RepliesMatchHistory

(* every step that serves a request serves it as Served says *)
LEMMA StepServed ==
  ASSUME IInv, LooksAgain, NEW r \in Req, Step(r) \/ Fail(r)
  PROVE  Served(r)
<1>1. CASE Fail(r) \/ AbortDeadlock(r)
  <2>1. Refuse(r, 500) /\ pc[r] # "idle"
    BY <1>1 DEF Fail, AbortDeadlock, WaitsFor, At
  <2> QED BY <2>1, RefuseServed
<1> QED BY <1>1, RowsServed, MovementServed, ServiceServed DEF Step

(* the supplies stay named *)
LEMMA ServedNamed ==
  ASSUME IInv, Named, NEW r \in Req, Served(r)
  PROVE  Named'
<1> SUFFICES ASSUME NEW q \in Req, pc'[q] # "idle", NEW n \in 1..Len(Asked(q)')
             PROVE  status'[Asked(q)'[n].supply] # "unborn"
  BY DEF Named
<1>1. pc[q] # "idle" /\ input'[q] = input[q]
  BY DEF Served
<1>2. Asked(q)' = Asked(q)
  BY <1>1, AskedKept
<1>3. Asked(q)[n] \in AnyEntry /\ status[Asked(q)[n].supply] # "unborn"
  BY <1>1, <1>2, AskedFacts DEF Named
<1>4. Asked(q)[n].supply \in Supply
  BY <1>3 DEF AnyEntry
<1> QED BY <1>2, <1>3, <1>4 DEF Served, Moves

(* a client asks for supplies it has been shown *)
LEMMA SendNamed ==
  ASSUME IInv, Named, NEW r \in Req, Send(r)
  PROVE  Named'
<1>1. PICK i \in Inputs : Known(i) /\ input' = [input EXCEPT ![r] = i]
  BY DEF Send
<1>2. /\ pc' = [pc EXCEPT ![r] = "start"] /\ status' = status
  BY DEF Send, tables
<1>3. ASSUME NEW q \in Req \ {r}, pc'[q] # "idle"
      PROVE  \A n \in 1..Len(Asked(q)') : status'[Asked(q)'[n].supply] # "unborn"
  <2>1. pc[q] # "idle" /\ input'[q] = input[q]
    BY <1>1, <1>2, <1>3 DEF IInv, TypeOK
  <2>2. Asked(q)' = Asked(q)
    BY <2>1, AskedKept
  <2> QED BY <1>2, <2>1, <2>2 DEF Named
<1>4. \A n \in 1..Len(Asked(r)') : status'[Asked(r)'[n].supply] # "unborn"
  <2>1. input'[r] = i
    BY <1>1 DEF IInv, TypeOK
  <2>2. CASE i.op = "createService"
    <3> DEFINE L == i.lines
               a == Asked(r)'
               Wanted == [supply: Supply, quantity: Nat \ {0}]
    <3>1. L \in Seq(Wanted)
      BY <2>2, InputShape
    <3>2. a = [n \in DOMAIN L |-> Entry(L[n].supply, r, "OUT", L[n].quantity)]
      BY <2>1, <2>2 DEF Asked
    <3>3. \A n \in 1..Len(L) : status[L[n].supply] # "unborn"
      BY <1>1, <2>2 DEF Known
    <3> HIDE DEF L, a, Wanted
    <3>4. DOMAIN L = 1..Len(L) /\ Len(L) \in Nat
      BY <3>1
    <3>5. \A x : Entry(x.supply, r, "OUT", x.quantity).supply = x.supply
      BY DEF Entry
    <3>6. Len(a) = Len(L)
      BY <3>2, <3>4
    <3> QED BY <1>2, <3>2, <3>3, <3>4, <3>5, <3>6 DEF a
  <2>3. CASE i.op = "registerMovement"
    <3>1. Asked(r)' = <<Entry(i.supply, r, i.type, i.quantity)>>
      BY <2>1, <2>3 DEF Asked
    <3>2. \A s, type, quantity : Entry(s, r, type, quantity).supply = s
      BY DEF Entry
    <3>3. status[i.supply] # "unborn"
      BY <1>1, <2>3 DEF Known
    <3>4. \A n \in 1..Len(Asked(r)') : Asked(r)'[n] = Entry(i.supply, r, i.type, i.quantity)
      BY <3>1
    <3> QED BY <1>2, <3>2, <3>3, <3>4
  <2>4. CASE i.op \notin {"createService", "registerMovement"}
    BY <2>1, <2>4 DEF Asked
  <2> QED BY <2>2, <2>3, <2>4
<1> QED BY <1>3, <1>4 DEF Named

(* what a step of r leaves to the other transactions *)
Apart(r) ==
  /\ \A s \in Supply : \A q \in Req \ {r} :
       /\ lock'[s] = q <=> lock[s] = q
       /\ lock[s] = q => draft'[s] = draft[s]
  /\ \A q \in Req \ {r} : next'[q] = next[q]

(* nothing that is theirs *)
LEMMA StepApart ==
  ASSUME IInv, NEW r \in Req, Step(r) \/ Fail(r)
  PROVE  Apart(r)
<1>0. None \notin Req
  BY StockAssumption
<1>1. CASE UNCHANGED <<lock, draft, next>>
  BY <1>1 DEF Apart
<1>2. CASE Rollback(r) /\ UNCHANGED next
  BY <1>0, <1>2 DEF Apart, Rollback
<1>3. ASSUME NEW code, Refuse(r, code) PROVE Apart(r)
  BY <1>2, <1>3 DEF Refuse, Answer
<1>4. ASSUME NEW found, NEW level, RefuseShort(r, found, level) PROVE Apart(r)
  BY <1>2, <1>4 DEF RefuseShort, Answer
<1>5. Acknowledge(r) => UNCHANGED next
  BY DEF Acknowledge, Answer
<1>6. CASE OpenTransaction(r)
  BY <1>6 DEF OpenTransaction, Apart, IInv, TypeOK
<1>7. CASE ConsumeSupply(r)
  <2> DEFINE l == Line(r)
  <2>1. CASE /\ Unlocked(r, l.supply)
             /\ lock' = [lock EXCEPT ![l.supply] = r]
             /\ draft' = [draft EXCEPT ![l.supply] = Consumed(r, l)]
             /\ next' = [next EXCEPT ![r] = @ + 1]
    <3> HIDE DEF l
    <3> QED BY <1>0, <2>1 DEF Unlocked, Apart, IInv, TypeOK
  <2> QED BY <1>1, <1>3, <1>7, <2>1 DEF ConsumeSupply
<1>8. CASE CommitService(r)
  BY <1>0, <1>5, <1>8 DEF CommitService, Apart
<1>9. CASE CreateSupply(r) \/ UpdateSupply(r) \/ RemoveSupply(r) \/ RemoveService(r)
  BY <1>1, <1>3, <1>5, <1>9 DEF CreateSupply, UpdateSupply, RemoveSupply, RemoveService
<1>10. CASE RegisterMovement(r)
  BY <1>1, <1>3, <1>5, <1>10 DEF RegisterMovement, Apply
<1>11. CASE \/ Recheck(r) \/ AssertMotorcycle(r) \/ InsertRefused(r)
            \/ CreatePlainService(r) \/ ExplainShortage(r) \/ AbortDeadlock(r) \/ Fail(r)
  BY <1>1, <1>3, <1>4, <1>5, <1>11
     DEF Recheck, AssertMotorcycle, InsertRefused, CreatePlainService, ExplainShortage,
         AbortDeadlock, Fail
<1> QED BY <1>6, <1>7, <1>8, <1>9, <1>10, <1>11 DEF Step

(* LinesDone for one request *)
Drawn(r) ==
  pc[r] = "line" =>
    \A s \in Supply :
      Entries(s, Seen(r, s).rows) = Among(SubSeq(Asked(r), 1, next[r] - 1), Of(r, s))

(* no draft of another service changes *)
LEMMA LinesKept ==
  ASSUME IInv, LinesDone, NEW r \in Req, Served(r), Apart(r), Drawn(r)'
  PROVE  LinesDone'
<1>1. ASSUME NEW q \in Req \ {r}, pc'[q] = "line", NEW s \in Supply
      PROVE  Entries(s, Seen(q, s).rows)'
               = Among(SubSeq(Asked(q), 1, next[q] - 1), Of(q, s))'
  <2>2. pc[q] = "line" /\ input'[q] = input[q] /\ next'[q] = next[q]
    BY <1>1 DEF Served, Apart
  <2>3. Asked(q)' = Asked(q)
    BY <2>2, AskedKept
  <2>4. Seen(q, s)'.rows = Seen(q, s).rows
    <3>1. CASE lock[s] = q
      BY <1>1, <3>1 DEF Apart, Seen
    <3>2. CASE lock[s] # q
      BY <1>1, <3>2 DEF Apart, Seen
    <3> QED BY <3>1, <3>2
  <2>5. Of(q, s)' = Of(q, s)
    BY DEF Of
  <2>6. Entries(s, Seen(q, s).rows)' = Entries(s, Seen(q, s).rows)
    BY <2>4 DEF Entries, Entry
  <2> QED BY <2>2, <2>3, <2>5, <2>6 DEF LinesDone
<1>2. ASSUME NEW q \in Req PROVE Drawn(q)'
  BY <1>1 DEF Drawn
<1> QED BY <1>2 DEF Drawn, LinesDone

(* The answer of r fits, if it does for r, and no other record is touched *)
LEMMA RepliesFit ==
  ASSUME IInv, Named, RepliesMatchHistory, NEW r \in Req, Served(r),
         \A q \in Req \ {r} : RecordKept(q),
         reply'[r] = 200 => Whole(r)', reply'[r] = 500 => Whole(r)' \/ Nothing(r)'
  PROVE  RepliesMatchHistory'
<1> SUFFICES ASSUME NEW q \in Req PROVE Fits(q)'
  BY DEF RepliesMatchHistory, Fits
<1>1. CASE q = r
  BY <1>1 DEF Fits
<1>2. CASE q # r /\ reply'[q] \in {200, 500}
  <2>1. reply'[q] = reply[q] /\ input'[q] = input[q] /\ RecordKept(q)
    BY <1>2 DEF Served
  <2>2. pc[q] # "idle"
    BY <1>2, <2>1, InventoryAssumption DEF IInv, InFlight, Codes
  <2>3. Fits(q)
    BY DEF RepliesMatchHistory, Fits
  <2> QED BY <2>1, <2>2, <2>3, FitsKept DEF Fits
<1> QED BY <1>1, <1>2 DEF Fits

(* an answer to a request that asks for no row, or that is a refusal *)
LEMMA RepliesFitUnasked ==
  ASSUME IInv, Named, RepliesMatchHistory, NEW r \in Req, Served(r),
         pc[r] \notin {"idle", "done"}, \A q \in Req : RecordKept(q),
         reply'[r] = 200 => Asked(r) = <<>>
  PROVE  RepliesMatchHistory'
<1>1. reply[r] \notin {200, 500}
  BY InventoryAssumption DEF IInv, InFlight, Codes
<1>2. Nothing(r)
  BY <1>1, NothingYet DEF Nothing
<1>3. Asked(r) = <<>> => Whole(r)
  BY <1>2, AmongEmpty DEF Nothing, Whole
<1>4. input'[r] = input[r]
  BY DEF Served
<1>5. Nothing(r)' /\ (Asked(r) = <<>> => Whole(r)')
  BY <1>2, <1>3, <1>4, FitsKept
<1> QED BY <1>5, RepliesFit

(* what leaves the histories alone leaves the records alone *)
LEMMA RecordsUntouched ==
  ASSUME UNCHANGED <<status, history>>
  PROVE  \A q \in Req : RecordKept(q)
<1> SUFFICES ASSUME NEW q \in Req, NEW s \in Supply
             PROVE  Recorded(q, s)' = Recorded(q, s) /\ (Live(s)' => Live(s))
  BY DEF RecordKept
<1> QED BY DEF Recorded, Entries, Entry, Of, Live

(* refusals and steps before the answer *)
LEMMA QuietFits ==
  ASSUME IInv, Named, RepliesMatchHistory, NEW r \in Req, Served(r),
         pc[r] \notin {"idle", "done"},
         \/ \E code \in {404, 409, 422, 500} : Refuse(r, code)
         \/ \E found, level : RefuseShort(r, found, level)
         \/ \E label : Goto(r, label) /\ UNCHANGED tables
  PROVE  RepliesMatchHistory'
<1>1. UNCHANGED <<status, history>> /\ reply'[r] # 200
  BY InventoryAssumption
     DEF Refuse, RefuseShort, Rollback, Goto, Answer, tables, IInv, TypeOK, InFlight, Codes
<1> QED BY <1>1, RecordsUntouched, RepliesFitUnasked

(* the record of a request is read off one history *)
LEMMA RecordOf ==
  ASSUME NEW q, NEW s, NEW rows, history'[s] = rows
  PROVE  Recorded(q, s)' = Among(Entries(s, rows), Of(q, s))
  BY DEF Recorded, Entries, Entry, Of

(* and is the same if the history is *)
LEMMA SameRecord ==
  ASSUME NEW q, NEW s, Entries(s, history[s])' = Entries(s, history[s])
  PROVE  Recorded(q, s)' = Recorded(q, s)
  BY DEF Recorded, Of

(* a history that is not written *)
LEMMA SameRows ==
  ASSUME NEW q, NEW s, history'[s] = history[s]
  PROVE  Recorded(q, s)' = Recorded(q, s)
<1>1. Entries(s, history[s])' = Entries(s, history[s])
  BY DEF Entries, Entry
<1> QED BY <1>1, SameRecord

(* The handlers that change a supply or take it away, and those that       *)
(* change a service: none writes a row of its own.                         *)
LEMMA RowsFit ==
  ASSUME IInv, Named, RepliesMatchHistory, NEW r \in Req, Served(r),
         \/ CreateSupply(r) \/ UpdateSupply(r) \/ RemoveSupply(r) \/ RemoveService(r)
         \/ CreatePlainService(r)
  PROVE  RepliesMatchHistory'
<1>1. pc[r] \notin {"idle", "done"} /\ r \in Supply
  BY DEF CreateSupply, UpdateSupply, RemoveSupply, RemoveService, CreatePlainService, At, Supply
<1>2. CASE \E code \in {404, 409, 422, 500} : Refuse(r, code)
  BY <1>1, <1>2, QuietFits
<1>3. Asked(r) = <<>>
  <2>1. input[r].op \in {"createSupply", "updateSupply", "removeSupply", "removeService"}
          => Asked(r) = <<>>
    BY DEF Asked
  <2>2. CASE CreatePlainService(r)
    <3>1. DOMAIN input[r].lines = {}
      BY <2>2 DEF CreatePlainService
    <3>2. Asked(r) = [n \in {} |-> Entry(input[r].lines[n].supply, r, "OUT",
                                         input[r].lines[n].quantity)]
      BY <2>2, <3>1 DEF CreatePlainService, At, Asked
    <3> QED BY <3>2
  <2> QED BY <2>1, <2>2 DEF CreateSupply, UpdateSupply, RemoveSupply, RemoveService, At
<1>4. CASE UNCHANGED <<status, history>>
  BY <1>1, <1>3, <1>4, RecordsUntouched, RepliesFitUnasked
<1>5. CASE UNCHANGED history /\ status' = [status EXCEPT ![r] = "live"]
  <2>1. status[r] = "unborn"
    BY <1>1 DEF IInv, InFlight, CreateSupply, At
  <2>2. \A s \in Supply : Live(s)' => Live(s) \/ status[s] = "unborn"
    BY <1>5, <2>1 DEF Live, IInv, TypeOK
  <2>3. \A q \in Req : RecordKept(q)
    BY <1>5, <2>2, SameRows DEF RecordKept
  <2> QED BY <1>1, <1>3, <2>3, RepliesFitUnasked
<1>6. CASE RemoveSupply(r) /\ ~(\E code \in {404, 409, 422, 500} : Refuse(r, code))
  <2>0. input[r].supply \in Supply
    BY <1>6, InputShape DEF RemoveSupply, At, IInv, InFlight
  <2>1. PICK d \in Supply : /\ status' = [status EXCEPT ![d] = "deleted"]
                            /\ history' = [history EXCEPT ![d] = <<>>]
    BY <1>6, <2>0 DEF RemoveSupply
  <2>2. ASSUME NEW q \in Req, NEW s \in Supply, s # d
        PROVE  Recorded(q, s)' = Recorded(q, s) /\ (Live(s)' => Live(s))
    <3>1. history'[s] = history[s] /\ status'[s] = status[s]
      BY <2>1, <2>2 DEF IInv, TypeOK
    <3> QED BY <3>1, SameRows DEF Live
  <2>3. ASSUME NEW q \in Req
        PROVE  Recorded(q, d)' = <<>> /\ ~Live(d)'
    <3> DEFINE none == <<>>
    <3>1. history'[d] = none /\ status'[d] = "deleted"
      BY <2>1 DEF IInv, TypeOK
    <3>2. none \in Seq(Movement) /\ \A n \in 1..Len(none) : none[n].by # q
      OBVIOUS
    <3> HIDE DEF none
    <3>3. Recorded(q, d)' = Among(Entries(d, none), Of(q, d))
      BY <3>1, RecordOf
    <3>4. Among(Entries(d, none), Of(q, d)) = <<>>
      BY <2>1, <3>2, NoRows
    <3> QED BY <3>1, <3>3, <3>4 DEF Live
  <2>4. ASSUME NEW q \in Req PROVE RecordKept(q)
    <3> SUFFICES ASSUME NEW s \in Supply
                 PROVE  \/ Recorded(q, s)' = Recorded(q, s) /\ (Live(s)' => Live(s))
                        \/ Recorded(q, s)' = <<>> /\ ~Live(s)'
      BY DEF RecordKept
    <3> QED BY <2>2, <2>3
  <2> QED BY <1>1, <1>3, <2>4, RepliesFitUnasked
<1>7. CASE RemoveService(r) /\ ~(\E code \in {404, 409, 422, 500} : Refuse(r, code))
  <2>1. /\ UNCHANGED status
        /\ \A s \in Supply : history'[s] = Untagged(history[s], input[r].service)
    BY <1>7 DEF RemoveService
  <2>2. ASSUME NEW q \in Req, NEW s \in Supply
        PROVE  Recorded(q, s)' = Recorded(q, s)
    <3>1. Entries(s, Untagged(history[s], input[r].service)) = Entries(s, history[s])
      BY RowShape, EntriesUntagged DEF IInv
    <3>2. Recorded(q, s)' = Among(Entries(s, history[s]), Of(q, s))
      BY <2>1, <3>1, RecordOf
    <3> QED BY <3>2 DEF Recorded
  <2>3. \A q \in Req : RecordKept(q)
    BY <2>1, <2>2 DEF RecordKept, Live
  <2> QED BY <1>1, <1>3, <2>3, RepliesFitUnasked
<1> QED BY <1>2, <1>4, <1>5, <1>6, <1>7
       DEF CreateSupply, UpdateSupply, CreatePlainService

(* selecting from rows of r what concerns r and s selects them all *)
LEMMA OwnRows ==
  ASSUME NEW s \in Supply, NEW rows \in Seq(Movement), NEW r \in Req,
         \A n \in 1..Len(rows) : rows[n].by = r
  PROVE  Among(Entries(s, rows), Of(r, s)) = Entries(s, rows)
<1> DEFINE e == Entries(s, rows)
<1>1. /\ e \in Seq(AnyEntry) /\ Len(e) = Len(rows)
      /\ \A n \in 1..Len(rows) : e[n] = Entry(s, rows[n].by, rows[n].type, rows[n].quantity)
  BY EntriesFacts
<1> HIDE DEF e
<1>2. \A n \in 1..Len(e) : e[n] \in Of(r, s)
  <2> TAKE n \in 1..Len(e)
  <2>1. rows[n] \in Movement /\ rows[n].by = r
    BY <1>1
  <2>2. rows[n].type \in {"IN", "OUT"} /\ rows[n].quantity \in Nat
    BY <2>1, StockAssumption DEF Movement
  <2>3. \A type \in {"IN", "OUT"}, quantity \in Nat : Entry(s, r, type, quantity) \in Of(r, s)
    BY DEF Entry, Of
  <2> QED BY <1>1, <2>1, <2>2, <2>3
<1>3. Among(e, Of(r, s)) = e
  BY <1>1, <1>2, AmongAll
<1> QED BY <1>3 DEF e

(* The rows that the answer of r commits are its own, and those it asked   *)
(* for: they leave the records of others alone and complete its own.       *)
LEMMA WritesFit ==
  ASSUME IInv, Named, RepliesMatchHistory, NEW r \in Req, Served(r),
         pc[r] \notin {"idle", "done"}, UNCHANGED status,
         NEW rows \in [Supply -> Seq(Movement)],
         \A s \in Supply : history'[s] = history[s] \o rows[s],
         \A s \in Supply : \A n \in 1..Len(rows[s]) : rows[s][n].by = r,
         \A s \in Supply : Entries(s, rows[s]) = Among(Asked(r), Of(r, s))
  PROVE  RepliesMatchHistory'
<1>1. ASSUME NEW q \in Req, NEW s \in Supply
      PROVE  Recorded(q, s)' = Recorded(q, s) \o Among(Entries(s, rows[s]), Of(q, s))
  <2> DEFINE h == history[s]
             w == rows[s]
             E(t) == Entries(s, t)
             S == Of(q, s)
  <2>1. h \in Seq(Movement) /\ w \in Seq(Movement)
    BY RowShape DEF IInv
  <2>2. E(h \o w) = E(h) \o E(w) /\ E(h) \in Seq(AnyEntry) /\ E(w) \in Seq(AnyEntry)
    BY <2>1, EntriesConcat, EntriesFacts
  <2>3. Among(E(h) \o E(w), S) = Among(E(h), S) \o Among(E(w), S)
    <3> DEFINE a == E(h)
               b == E(w)
    <3>1. a \in Seq(AnyEntry) /\ b \in Seq(AnyEntry)
      BY <2>2
    <3> HIDE DEF a, b, S
    <3>2. Among(a \o b, S) = Among(a, S) \o Among(b, S)
      BY <3>1, AmongConcat
    <3> QED BY <3>2 DEF a, b
  <2>4. Recorded(q, s)' = Among(E(h \o w), S)
    BY DEF Recorded, Entries, Entry, Of
  <2> QED BY <2>2, <2>3, <2>4 DEF Recorded
<1>2. ASSUME NEW q \in Req \ {r}, NEW s \in Supply
      PROVE  Recorded(q, s)' = Recorded(q, s)
  <2>1. Among(Entries(s, rows[s]), Of(q, s)) = <<>>
    BY NoRows
  <2>2. Entries(s, history[s]) \in Seq(AnyEntry)
    BY RowShape, EntriesFacts DEF IInv
  <2>3. Recorded(q, s) \in Seq(AnyEntry)
    BY <2>2, AmongIsSeq DEF Recorded
  <2>4. \A t \in Seq(AnyEntry) : t \o <<>> = t
    OBVIOUS
  <2> QED BY <1>1, <2>1, <2>3, <2>4
<1>3. \A q \in Req \ {r} : RecordKept(q)
  BY <1>2 DEF RecordKept, Live
<1>4. ASSUME NEW s \in Supply
      PROVE  Recorded(r, s)' = Among(Asked(r), Of(r, s))
  <2>1. Recorded(r, s) = <<>>
    <3>1. reply[r] \notin {200, 500}
      BY InventoryAssumption DEF IInv, InFlight, Codes
    <3> QED BY <3>1, NothingYet
  <2>2. Among(Entries(s, rows[s]), Of(r, s)) = Entries(s, rows[s])
    BY OwnRows
  <2>3. Entries(s, rows[s]) \in Seq(AnyEntry)
    BY EntriesFacts
  <2>4. \A t \in Seq(AnyEntry) : <<>> \o t = t
    OBVIOUS
  <2> QED BY <1>1, <2>1, <2>2, <2>3, <2>4
<1>5. Asked(r)' = Asked(r)
  BY AskedKept DEF Served
<1>6. Whole(r)'
  BY <1>4, <1>5 DEF Whole, Of
<1> QED BY <1>3, <1>6, RepliesFit

(* selecting from one entry *)
LEMMA AmongOne ==
  ASSUME NEW e \in AnyEntry, NEW S
  PROVE  /\ e \in S => Among(<<e>>, S) = <<e>>
         /\ e \notin S => Among(<<e>>, S) = <<>>
<1> DEFINE one == <<e>>
<1>1. one \in Seq(AnyEntry) /\ \A n \in 1..Len(one) : one[n] = e
  OBVIOUS
<1> HIDE DEF one
<1>2. (e \in S => Among(one, S) = one) /\ (e \notin S => Among(one, S) = <<>>)
  BY <1>1, AmongAll, AmongNone
<1> QED BY <1>2 DEF one

(* RegisterMovement and Recheck *)
LEMMA MovementFits ==
  ASSUME IInv, Named, RepliesMatchHistory, NEW r \in Req, Served(r),
         RegisterMovement(r) \/ Recheck(r)
  PROVE  RepliesMatchHistory'
<1>1. /\ pc[r] \notin {"idle", "done"} /\ input[r].op = "registerMovement"
      /\ input[r].supply \in Supply
      /\ input[r].type \in {"IN", "OUT"} /\ input[r].quantity \in Nat \ {0}
  BY InputShape DEF RegisterMovement, Recheck, At, IInv, InFlight
<1>2. CASE \/ Refuse(r, 500) \/ \E found, level : RefuseShort(r, found, level)
           \/ \E label : Goto(r, label) /\ UNCHANGED tables
  BY <1>1, <1>2, QuietFits
<1>3. CASE /\ MovementOf(r).quantity <= MaxInt
           /\ Apply(input[r].supply, MovementOf(r)) /\ Acknowledge(r)
  <2>1. PICK s \in Supply : s = input[r].supply
    BY <1>1
  <2>2. PICK m \in Movement : m = MovementOf(r)
    BY <1>1, <1>3, StockAssumption DEF MovementOf, Movement
  <2>3. /\ m.by = r /\ m.type = input[r].type /\ m.quantity = input[r].quantity
    BY <2>2 DEF MovementOf
  <2> DEFINE e == Entry(s, m.by, m.type, m.quantity)
             one == <<m>>
             none == <<>>
             rows == [t \in Supply |-> IF t = s THEN one ELSE none]
  <2>4. /\ one \in Seq(Movement) /\ none \in Seq(Movement) /\ Len(none) = 0
        /\ \A n \in 1..Len(one) : one[n] = m
    OBVIOUS
  <2>5. ASSUME NEW t \in Supply PROVE history'[t] = history[t] \o rows[t]
    <3>1. history' = [history EXCEPT ![s] = Append(@, m)] /\ history[t] \in Seq(Movement)
      BY <1>3, <2>1, <2>2 DEF Apply, IInv, TypeOK
    <3>2. \A h \in Seq(Movement) : h \o <<>> = h /\ h \o <<m>> = Append(h, m)
      OBVIOUS
    <3>3. CASE t = s
      BY <3>1, <3>2, <3>3 DEF IInv, TypeOK
    <3>4. CASE t # s
      BY <3>1, <3>2, <3>4 DEF IInv, TypeOK
    <3> QED BY <3>3, <3>4
  <2>6. Entries(s, <<m>>) = <<e>> /\ e \in AnyEntry
    <3>1. Append(<<>>, m) = <<m>> /\ Append(<<>>, e) = <<e>> /\ <<>> \in Seq(Movement)
      OBVIOUS
    <3>2. Entries(s, <<>>) = <<>>
      BY DEF Entries
    <3>3. e \in AnyEntry /\ Entries(s, Append(<<>>, m)) = Append(Entries(s, <<>>), e)
      BY <3>1, EntriesAppend
    <3> QED BY <3>1, <3>2, <3>3
  <2>7. Asked(r) = <<e>>
    BY <1>1, <2>1, <2>3 DEF Asked
  <2>8. ASSUME NEW t \in Supply PROVE Entries(t, rows[t]) = Among(Asked(r), Of(r, t))
    <3>1. e.supply = s /\ e.by = r /\ (e \in Of(r, s))
      BY <1>1, <2>3 DEF Entry, Of
    <3>2. \A x \in Of(r, t) : x.supply = t
      BY DEF Of
    <3>3. CASE t = s
      <4> HIDE DEF e
      <4> QED BY <2>6, <2>7, <3>1, <3>3, AmongOne
    <3>4. CASE t # s
      <4>1. Entries(t, none) = <<>>
        BY DEF Entries
      <4> HIDE DEF e, none
      <4> QED BY <2>6, <2>7, <3>1, <3>2, <3>4, <4>1, AmongOne
    <3> QED BY <3>3, <3>4
  <2>9. UNCHANGED status
    BY <1>3 DEF Apply
  <2> HIDE DEF e, one, none
  <2>10. rows \in [Supply -> Seq(Movement)]
    BY <2>4
  <2>11. \A t \in Supply : \A n \in 1..Len(rows[t]) : rows[t][n].by = r
    BY <2>3, <2>4
  <2> HIDE DEF rows
  <2> QED BY <1>1, <2>5, <2>8, <2>9, <2>10, <2>11, WritesFit
<1> QED BY <1>2, <1>3 DEF RegisterMovement, Recheck

(* CommitService *)
LEMMA CommitFits ==
  ASSUME IInv, Named, LinesDone, RepliesMatchHistory, NEW r \in Req, Served(r),
         CommitService(r)
  PROVE  RepliesMatchHistory'
<1>1. pc[r] = "line" /\ input[r].op = "createService" /\ ~MoreLines(r)
  BY DEF CommitService, At
<1> DEFINE rows == [s \in Supply |-> Seen(r, s).rows]
<1>2. \A s \in Supply : /\ history[s] \in Seq(Movement) /\ rows[s] \in Seq(Movement)
                        /\ \A n \in 1..Len(rows[s]) : rows[s][n].by = r
  <2> TAKE s \in Supply
  <2> DEFINE w == Seen(r, s).rows
  <2>1. w \in Seq(Movement) /\ \A n \in DOMAIN w : w[n].by = r
    BY SeenShape
  <2>2. DOMAIN w = 1..Len(w)
    BY <2>1
  <2>3. rows[s] = w /\ history[s] \in Seq(Movement)
    BY RowShape DEF IInv
  <2> HIDE DEF w, rows
  <2> QED BY <2>1, <2>2, <2>3
<1>3. ASSUME NEW s \in Supply PROVE history'[s] = history[s] \o rows[s]
  <2>1. \A h \in Seq(Movement) : h \o <<>> = h
    OBVIOUS
  <2> QED BY <1>2, <2>1 DEF CommitService, Publish, Seen
<1>4. /\ Asked(r) \in Seq(AnyEntry) /\ Len(Asked(r)) \in Nat
      /\ next[r] - 1 = Len(Asked(r))
  <2>1. /\ Asked(r) \in Seq(AnyEntry) /\ Len(Asked(r)) = Len(input[r].lines)
        /\ Len(input[r].lines) \in Nat
    BY <1>1, AskedFacts
  <2>2. next[r] \in 1..(Len(input[r].lines) + 1) /\ ~(next[r] <= Len(input[r].lines))
    BY <1>1 DEF IInv, InFlight, MoreLines
  <2> QED BY <2>1, <2>2
<1>5. SubSeq(Asked(r), 1, next[r] - 1) = Asked(r)
  <2> DEFINE a == Asked(r)
             k == next[r] - 1
  <2>1. a \in Seq(AnyEntry) /\ k = Len(a)
    BY <1>4
  <2> HIDE DEF a, k
  <2>2. SubSeq(a, 1, k) = a
    BY <2>1
  <2> QED BY <2>2 DEF a, k
<1>6. \A s \in Supply : Entries(s, rows[s]) = Among(Asked(r), Of(r, s))
  BY <1>1, <1>5 DEF LinesDone
<1>7. UNCHANGED status
  BY DEF CommitService
<1>8. rows \in [Supply -> Seq(Movement)]
  BY <1>2
<1> HIDE DEF rows
<1>9. PICK w \in [Supply -> Seq(Movement)] : w = rows
  BY <1>8
<1> QED BY <1>1, <1>2, <1>3, <1>6, <1>7, <1>9, WritesFit

(* the lines up to the k-th are those before it and the k-th *)
LEMMA PrefixAppend ==
  ASSUME NEW X, NEW a \in Seq(X), NEW k \in 1..Len(a)
  PROVE  /\ SubSeq(a, 1, k - 1) \in Seq(X) /\ a[k] \in X
         /\ SubSeq(a, 1, k) = Append(SubSeq(a, 1, k - 1), a[k])
  OBVIOUS

(* OpenTransaction: no line is behind it, and nothing is drafted *)
LEMMA OpenDrawn ==
  ASSUME IInv, NEW r \in Req, OpenTransaction(r)
  PROVE  Drawn(r)'
<1>1. /\ pc[r] = "insert" /\ next'[r] = 1 /\ UNCHANGED <<lock, input>>
  BY DEF OpenTransaction, At, Goto, IInv, TypeOK
<1>2. Asked(r) \in Seq(AnyEntry) /\ Asked(r)' = Asked(r)
  BY <1>1, AskedFacts, AskedKept
<1>3. SubSeq(Asked(r), 1, 0) = <<>>
  BY <1>2
<1>4. ASSUME NEW s \in Supply
      PROVE  Entries(s, Seen(r, s).rows)' = <<>>
  <2>1. lock'[s] # r
    BY <1>1, NoLock
  <2>2. Seen(r, s)'.rows = <<>>
    BY <2>1 DEF Seen
  <2> QED BY <2>2 DEF Entries
<1>5. next'[r] - 1 = 0
  BY <1>1
<1>6. \A s \in Supply : Among(SubSeq(Asked(r), 1, next[r] - 1), Of(r, s))' = <<>>
  <2>1. SubSeq(Asked(r), 1, next[r] - 1)' = <<>>
    BY <1>2, <1>3, <1>5
  <2> QED BY <2>1, AmongEmpty DEF Of
<1> QED BY <1>4, <1>6 DEF Drawn

(* ConsumeSupply: the line and its row *)
LEMMA ConsumeDrawn ==
  ASSUME IInv, LinesDone, NEW r \in Req, ConsumeSupply(r)
  PROVE  Drawn(r)'
<1>1. /\ pc[r] = "line" /\ input[r].op = "createService"
      /\ next[r] \in 1..Len(input[r].lines) /\ Len(input[r].lines) \in Nat
      /\ Line(r).supply \in Supply /\ Line(r).quantity \in Nat \ {0}
  BY LineShape DEF ConsumeSupply, At
<1>2. CASE Refuse(r, 500)
  BY <1>2 DEF Refuse, Answer, Drawn, IInv, TypeOK
<1>3. CASE Goto(r, "explain")
  BY <1>3 DEF Goto, Drawn, IInv, TypeOK
<1>4. CASE /\ Line(r).quantity <= MaxInt
           /\ lock' = [lock EXCEPT ![Line(r).supply] = r]
           /\ draft' = [draft EXCEPT ![Line(r).supply] = Consumed(r, Line(r))]
           /\ next' = [next EXCEPT ![r] = @ + 1]
           /\ Goto(r, "line") /\ UNCHANGED tables
  <2>1. PICK s \in Supply : s = Line(r).supply
    BY <1>1
  <2>2. PICK k \in Nat : k = next[r]
    BY <1>1
  <2>3. PICK a \in Seq(AnyEntry) : a = Asked(r)
    BY <1>1, AskedFacts
  <2>4. PICK m \in Movement :
          m = [by |-> r, type |-> "OUT", quantity |-> Line(r).quantity, service |-> r]
    <3>1. Line(r).quantity \in 1..MaxInt
      BY <1>1, <1>4, StockAssumption
    <3>2. \A n \in 1..MaxInt :
            [by |-> r, type |-> "OUT", quantity |-> n, service |-> r] \in Movement
      BY DEF Movement
    <3> QED BY <3>1, <3>2
  <2> DEFINE e == Entry(s, m.by, m.type, m.quantity)
             before == SubSeq(a, 1, k - 1)
  <2>5. /\ k \in 1..Len(a) /\ a[k] = e
    <3>1. /\ Len(a) = Len(input[r].lines) /\ k \in 1..Len(input[r].lines)
          /\ a[k] = Entry(input[r].lines[k].supply, r, "OUT", input[r].lines[k].quantity)
      BY <1>1, <2>2, <2>3, AskedFacts
    <3>2. Line(r) = input[r].lines[k]
      BY <2>2 DEF Line
    <3> QED BY <3>1, <3>2, <2>1, <2>4
  <2>6. e \in AnyEntry /\ e.supply = s /\ e \in Of(r, s)
    <3>1. m.by = r /\ m.type = "OUT" /\ m.quantity \in Nat
      BY <1>1, <2>4
    <3> QED BY <3>1 DEF Entry, AnyEntry, Of
  <2> HIDE DEF e
  <2>7. before \in Seq(AnyEntry) /\ SubSeq(a, 1, k) = Append(before, e)
    BY <2>5, PrefixAppend
  <2>8. /\ next'[r] - 1 = k /\ Asked(r)' = a
    <3>1. next'[r] = k + 1 /\ input'[r] = input[r]
      BY <1>4, <2>2 DEF Goto, IInv, TypeOK
    <3> QED BY <2>3, <3>1, AskedKept
  <2> HIDE DEF before
  <2>9. \A t \in Supply : Entries(t, Seen(r, t).rows) = Among(before, Of(r, t))
    BY <1>1, <2>2, <2>3 DEF LinesDone, before
  <2>10. ASSUME NEW t \in Supply
         PROVE  Entries(t, Seen(r, t).rows)' = Among(Append(before, e), Of(r, t))
    <3>1. PICK old \in Seq(Movement) : old = Seen(r, t).rows
      BY SeenShape
    <3>2. CASE t = s
      <4>1. lock'[t] = r /\ draft'[t] = Consumed(r, Line(r))
        BY <1>4, <2>1, <3>2 DEF IInv, TypeOK
      <4>2. Seen(r, t)'.rows = Append(old, m)
        BY <2>1, <2>4, <3>1, <3>2, <4>1 DEF Seen, Consumed
      <4>3. Entries(t, Append(old, m)) = Append(Entries(t, old), e)
        BY <3>2, EntriesAppend DEF e
      <4>4. Entries(t, Seen(r, t).rows)' = Append(Entries(t, old), e)
        BY <4>2, <4>3 DEF Entries, Entry
      <4>5. Among(Append(before, e), Of(r, t)) = Append(Among(before, Of(r, t)), e)
        BY <2>6, <2>7, <3>2, AmongAppend
      <4> QED BY <2>9, <3>1, <4>4, <4>5
    <3>3. CASE t # s
      <4>1. lock'[t] = lock[t] /\ draft'[t] = draft[t]
        BY <1>4, <2>1, <3>3 DEF IInv, TypeOK
      <4>2. Seen(r, t)'.rows = old
        BY <3>1, <4>1 DEF Seen
      <4>3. Entries(t, Seen(r, t).rows)' = Entries(t, old)
        BY <4>2 DEF Entries, Entry
      <4>4. e \notin Of(r, t)
        BY <2>6, <3>3 DEF Of
      <4>5. Among(Append(before, e), Of(r, t)) = Among(before, Of(r, t))
        BY <2>6, <2>7, <4>4, AmongAppend
      <4> QED BY <2>9, <3>1, <4>3, <4>5
    <3> QED BY <3>2, <3>3
  <2>11. \A t \in Supply :
           Among(SubSeq(Asked(r), 1, next[r] - 1), Of(r, t))' = Among(Append(before, e), Of(r, t))
    <3>1. SubSeq(Asked(r), 1, next[r] - 1)' = Append(before, e)
      BY <2>7, <2>8
    <3> QED BY <3>1 DEF Of
  <2> QED BY <2>10, <2>11 DEF Drawn
<1> QED BY <1>2, <1>3, <1>4 DEF ConsumeSupply

(* every step of a handler *)
LEMMA StepDrawn ==
  ASSUME IInv, LinesDone, NEW r \in Req, Step(r) \/ Fail(r)
  PROVE  Drawn(r)'
<1>1. CASE \E label \in {"recheck", "insert", "explain", "done"} : pc' = [pc EXCEPT ![r] = label]
  BY <1>1 DEF Drawn, IInv, TypeOK
<1>2. ASSUME NEW code, Answer(r, code) PROVE Drawn(r)'
  BY <1>1, <1>2 DEF Answer
<1>3. CASE Acknowledge(r) \/ (\E code : Refuse(r, code))
           \/ (\E found, level : RefuseShort(r, found, level))
  BY <1>2, <1>3 DEF Acknowledge, Refuse, RefuseShort
<1>4. CASE Goto(r, "recheck") \/ Goto(r, "insert")
  BY <1>1, <1>4 DEF Goto
<1>5. CASE \/ CreateSupply(r) \/ UpdateSupply(r) \/ RemoveSupply(r) \/ RemoveService(r)
           \/ RegisterMovement(r) \/ Recheck(r) \/ Fail(r) \/ AbortDeadlock(r)
  BY <1>3, <1>4, <1>5
     DEF CreateSupply, UpdateSupply, RemoveSupply, RemoveService, RegisterMovement, Recheck,
         Fail, AbortDeadlock
<1>6. CASE \/ AssertMotorcycle(r) \/ InsertRefused(r) \/ CreatePlainService(r)
           \/ ExplainShortage(r) \/ CommitService(r)
  BY <1>3, <1>4, <1>6
     DEF AssertMotorcycle, InsertRefused, CreatePlainService, ExplainShortage, CommitService
<1> QED BY <1>5, <1>6, OpenDrawn, ConsumeDrawn DEF Step

(* a client that asks has no answer, and no transaction *)
LEMMA SendFits ==
  ASSUME IInv, LinesDone, RepliesMatchHistory, NEW r \in Req, Send(r)
  PROVE  LinesDone' /\ RepliesMatchHistory'
<1>1. /\ UNCHANGED <<status, history, lock, draft, next, reply>>
      /\ pc' = [pc EXCEPT ![r] = "start"] /\ pc[r] = "idle"
      /\ \A q \in Req \ {r} : input'[q] = input[q]
  BY DEF Send, tables, IInv, TypeOK
<1>2. \A q \in Req \ {r} : Asked(q)' = Asked(q)
  BY <1>1, AskedKept
<1>3. \A q \in Req, s \in Supply :
        /\ Entries(s, Seen(q, s).rows)' = Entries(s, Seen(q, s).rows) \/ pc'[q] # "line"
        /\ Recorded(q, s)' = Recorded(q, s)
  <2> TAKE q \in Req, s \in Supply
  <2>1. Recorded(q, s)' = Recorded(q, s)
    BY <1>1, SameRows
  <2>2. Seen(q, s)'.rows = Seen(q, s).rows
    BY <1>1 DEF Seen
  <2>3. Entries(s, Seen(q, s).rows)' = Entries(s, Seen(q, s).rows)
    BY <2>2 DEF Entries, Entry
  <2> QED BY <2>1, <2>3
<1>4. LinesDone'
  <2> SUFFICES ASSUME NEW q \in Req, pc'[q] = "line", NEW s \in Supply
               PROVE  Entries(s, Seen(q, s).rows)'
                        = Among(SubSeq(Asked(q), 1, next[q] - 1), Of(q, s))'
    BY DEF LinesDone
  <2>1. q # r /\ pc[q] = "line"
    BY <1>1 DEF IInv, TypeOK
  <2>2. Of(q, s)' = Of(q, s) /\ next'[q] = next[q]
    BY <1>1 DEF Of
  <2> QED BY <1>2, <1>3, <2>1, <2>2 DEF LinesDone
<1>5. RepliesMatchHistory'
  <2> SUFFICES ASSUME NEW q \in Req PROVE Fits(q)'
    BY DEF RepliesMatchHistory, Fits
  <2>1. CASE q = r
    <3>1. reply'[r] \notin {200, 500}
      BY <1>1, InventoryAssumption DEF IInv, InFlight, Codes
    <3> QED BY <2>1, <3>1 DEF Fits
  <2>2. CASE q # r
    <3>1. Whole(q) => Whole(q)'
      BY <1>1, <1>2, <1>3, <2>2 DEF Whole, Live, Of
    <3>2. Nothing(q) => Nothing(q)'
      BY <1>3 DEF Nothing
    <3> QED BY <1>1, <3>1, <3>2 DEF RepliesMatchHistory, Fits
  <2> QED BY <2>1, <2>2
<1> QED BY <1>4, <1>5

(* the handlers of a service, before its transaction and within it *)
LEMMA ServiceFits ==
  ASSUME IInv, Named, RepliesMatchHistory, NEW r \in Req, Served(r),
         \/ AssertMotorcycle(r) \/ InsertRefused(r) \/ OpenTransaction(r)
         \/ ConsumeSupply(r) \/ ExplainShortage(r) \/ AbortDeadlock(r) \/ Fail(r)
  PROVE  RepliesMatchHistory'
<1>1. pc[r] \notin {"idle", "done"}
  BY DEF AssertMotorcycle, InsertRefused, OpenTransaction, ConsumeSupply, ExplainShortage,
         AbortDeadlock, WaitsFor, Fail, At
<1>2. \/ \E code \in {404, 409, 422, 500} : Refuse(r, code)
      \/ \E found, level : RefuseShort(r, found, level)
      \/ \E label : Goto(r, label) /\ UNCHANGED tables
  BY DEF AssertMotorcycle, InsertRefused, OpenTransaction, ConsumeSupply, ExplainShortage,
         AbortDeadlock, Fail
<1> QED BY <1>1, <1>2, QuietFits

(* every step of a handler *)
LEMMA StepFits ==
  ASSUME RInv, NEW r \in Req, Step(r) \/ Fail(r)
  PROVE  RepliesMatchHistory'
<1>1. Served(r)
  BY StepServed DEF RInv
<1> QED BY <1>1, RowsFit, MovementFits, CommitFits, ServiceFits DEF RInv, Step

(* a state that stays as it is *)
LEMMA RInvStutter == RInv /\ UNCHANGED vars => Named' /\ LinesDone' /\ RepliesMatchHistory'
<1> SUFFICES ASSUME RInv, UNCHANGED vars
             PROVE  Named' /\ LinesDone' /\ RepliesMatchHistory'
  OBVIOUS
<1> USE DEF vars, RInv
<1>1. \A q \in Req : Asked(q)' = Asked(q)
  BY AskedKept
<1>2. \A q \in Req, s \in Supply :
        /\ Recorded(q, s)' = Recorded(q, s)
        /\ Entries(s, Seen(q, s).rows)' = Entries(s, Seen(q, s).rows)
  BY SameRows DEF Entries, Entry, Seen
<1>3. Named'
  BY <1>1 DEF Named
<1>4. LinesDone'
  BY <1>1, <1>2 DEF LinesDone, Of
<1>5. \A q \in Req : (Whole(q)' <=> Whole(q)) /\ (Nothing(q)' <=> Nothing(q))
  BY <1>1, <1>2 DEF Whole, Nothing, Live, Of
<1> QED BY <1>3, <1>4, <1>5 DEF RepliesMatchHistory

(* at the start there are no rows, no drafts and no replies *)
LEMMA RInvInit == Init => Named /\ LinesDone /\ RepliesMatchHistory
  BY InventoryAssumption DEF Init, Named, LinesDone, RepliesMatchHistory, Codes

(* what is claimed of all requests is kept by every step *)
LEMMA RepliesInductive ==
  IInv /\ LooksAgain /\ Named /\ LinesDone /\ RepliesMatchHistory /\ [Next]_vars
    => Named' /\ LinesDone' /\ RepliesMatchHistory'
<1> SUFFICES ASSUME RInv, [Next]_vars PROVE Named' /\ LinesDone' /\ RepliesMatchHistory'
  BY DEF RInv
<1>1. CASE UNCHANGED vars
  BY <1>1, RInvStutter
<1>2. ASSUME NEW r \in Req, Send(r) PROVE Named' /\ LinesDone' /\ RepliesMatchHistory'
  BY <1>2, SendNamed, SendFits DEF RInv
<1>3. ASSUME NEW r \in Req, Step(r) \/ Fail(r)
      PROVE  Named' /\ LinesDone' /\ RepliesMatchHistory'
  <2>1. Served(r)
    BY <1>3, StepServed DEF RInv
  <2>2. Apart(r)
    BY <1>3, StepApart DEF RInv
  <2>3. Drawn(r)'
    BY <1>3, StepDrawn DEF RInv
  <2> QED BY <1>3, <2>1, <2>2, <2>3, ServedNamed, LinesKept, StepFits DEF RInv
<1> QED BY <1>1, <1>2, <1>3 DEF Next, Rest

(* Between two lines of a service its drafts hold the lines behind it, in  *)
(* the order asked, and no others (the loop of services.service.ts:30-32), *)
(* for any number of lines, supplies and services in flight.               *)
THEOREM LinesInOrder == Spec => []LinesDone
  BY RInvInit, RepliesInductive, Inductive, AlwaysLooksAgain, PTL DEF Spec

(* A 200 to a movement or a service means that every row asked for is in   *)
(* the history, once and in its order, as long as the supply exists; after *)
(* a 500 all are there or none is (services.service.ts:26-37).             *)
THEOREM RepliesTrue == Spec => []RepliesMatchHistory
  BY RInvInit, RepliesInductive, Inductive, AlwaysLooksAgain, PTL DEF Spec
-----------------------------------------------------------------------------
(* Rows and services *)

(* a row that names a service names one that is committed *)
Tagged ==
  \A s \in Supply : \A n \in DOMAIN history[s] : history[s][n].service \in services \cup {None}

(* histories that stay, and services that stay *)
LEMMA TaggedKept ==
  ASSUME Tagged, UNCHANGED history, services \subseteq services'
  PROVE  Tagged'
  BY DEF Tagged

(* rows that a step writes behind those of s *)
LEMMA TaggedRows ==
  ASSUME NEW a \in Seq(Movement), NEW b \in Seq(Movement), NEW S,
         \A n \in DOMAIN a : a[n].service \in S, \A n \in DOMAIN b : b[n].service \in S
  PROVE  \A n \in DOMAIN (a \o b) : (a \o b)[n].service \in S
<1>1. /\ a \o b \in Seq(Movement) /\ Len(a \o b) = Len(a) + Len(b)
      /\ \A n \in 1..(Len(a) + Len(b)) : (a \o b)[n] = IF n <= Len(a) THEN a[n] ELSE b[n - Len(a)]
  BY ConcatProperties
<1>2. DOMAIN a = 1..Len(a) /\ DOMAIN b = 1..Len(b) /\ Len(a) \in Nat /\ Len(b) \in Nat
  OBVIOUS
<1> DEFINE c == a \o b
<1>3. DOMAIN c = 1..(Len(a) + Len(b))
  BY <1>1
<1> SUFFICES ASSUME NEW n \in 1..(Len(a) + Len(b)) PROVE c[n].service \in S
  BY <1>3
<1> HIDE DEF c
<1>4. c[n] = IF n <= Len(a) THEN a[n] ELSE b[n - Len(a)]
  BY <1>1 DEF c
<1> QED BY <1>2, <1>4

(* every step of a handler *)
LEMMA StepTagged ==
  ASSUME IInv, Tagged, NEW r \in Req, Step(r) \/ Fail(r)
  PROVE  Tagged'
<1>1. CASE UNCHANGED history /\ services \subseteq services'
  BY <1>1, TaggedKept
<1>2. CASE \/ \E code : Refuse(r, code)
           \/ \E found, level : RefuseShort(r, found, level)
           \/ UNCHANGED tables
  BY <1>1, <1>2 DEF Refuse, RefuseShort, Rollback, tables
<1>3. CASE RegisterMovement(r)
  <2>1. CASE /\ MovementOf(r).quantity <= MaxInt
             /\ Apply(input[r].supply, MovementOf(r))
    <3>1. PICK s \in Supply : s = input[r].supply
      BY <1>3, InputShape DEF RegisterMovement, At, IInv, InFlight
    <3>2. PICK m \in Movement : m = MovementOf(r) /\ m.service = None
      <4>1. /\ input[r].quantity \in 1..MaxInt /\ input[r].type \in {"IN", "OUT"}
        BY <1>3, <2>1, InputShape, StockAssumption
           DEF RegisterMovement, At, IInv, InFlight, MovementOf
      <4>2. \A n \in 1..MaxInt, type \in {"IN", "OUT"} :
              [by |-> r, type |-> type, quantity |-> n, service |-> None] \in Movement
        BY DEF Movement
      <4> QED BY <4>1, <4>2 DEF MovementOf
    <3>3. history' = [history EXCEPT ![s] = Append(@, m)] /\ UNCHANGED services
      BY <2>1, <3>1, <3>2 DEF Apply
    <3>4. ASSUME NEW t \in Supply, NEW n \in DOMAIN history'[t]
          PROVE  history'[t][n].service \in services \cup {None}
      <4>1. history[t] \in Seq(Movement) /\ DOMAIN history[t] = 1..Len(history[t])
        BY RowShape DEF IInv
      <4>2. CASE t # s
        BY <3>3, <3>4, <4>2 DEF Tagged, IInv, TypeOK
      <4>3. CASE t = s
        <5> DEFINE h == history[t]
        <5>1. history'[t] = Append(h, m)
          BY <3>3, <4>3 DEF IInv, TypeOK
        <5>2. n \in 1..(Len(h) + 1) /\ Len(h) \in Nat
          BY <3>4, <4>1, <5>1
        <5>3. CASE n = Len(h) + 1
          BY <3>2, <4>1, <5>1, <5>3
        <5>4. CASE n \in 1..Len(h)
          BY <4>1, <5>1, <5>4 DEF Tagged
        <5> QED BY <5>2, <5>3, <5>4
      <4> QED BY <4>2, <4>3
    <3> QED BY <3>3, <3>4 DEF Tagged
  <2> QED BY <1>2, <1>3, <2>1 DEF RegisterMovement
<1>4. CASE RemoveSupply(r)
  <2>1. CASE history' = [history EXCEPT ![input[r].supply] = <<>>] /\ UNCHANGED services
    BY <2>1 DEF Tagged, IInv, TypeOK
  <2> QED BY <1>2, <1>4, <2>1 DEF RemoveSupply
<1>5. CASE CommitService(r)
  <2>1. services' = services \cup {r} /\ r \in services'
    BY <1>5 DEF CommitService
  <2>2. ASSUME NEW s \in Supply
        PROVE  \A n \in DOMAIN history'[s] : history'[s][n].service \in services' \cup {None}
    <3>1. CASE lock[s] = r
      <4>1. /\ history[s] \in Seq(Movement) /\ draft[s].rows \in Seq(Movement)
            /\ history'[s] = history[s] \o draft[s].rows
        BY <1>5, <3>1 DEF CommitService, Publish, IInv, TypeOK
      <4>2. \A n \in DOMAIN draft[s].rows : draft[s].rows[n].service = r
        BY <3>1, StockAssumption DEF IInv, Transactions
      <4>3. \A n \in DOMAIN history[s] : history[s][n].service \in services' \cup {None}
        BY <2>1 DEF Tagged
      <4> QED BY <2>1, <4>1, <4>2, <4>3, TaggedRows
    <3>2. CASE lock[s] # r
      BY <1>5, <2>1, <3>2 DEF CommitService, Publish, Tagged
    <3> QED BY <3>1, <3>2
  <2> QED BY <2>2 DEF Tagged
<1>6. CASE RemoveService(r)
  <2>1. ASSUME NEW sv, services' = services \ {sv},
               history' = [s \in Supply |-> Untagged(history[s], sv)]
        PROVE  Tagged'
    BY <2>1 DEF Tagged, Untagged, IInv, TypeOK, Movement
  <2> QED BY <1>2, <1>6, <2>1 DEF RemoveService
<1>7. CASE \/ CreateSupply(r) \/ UpdateSupply(r) \/ Recheck(r)
           \/ AssertMotorcycle(r) \/ InsertRefused(r) \/ CreatePlainService(r)
           \/ OpenTransaction(r) \/ ConsumeSupply(r) \/ ExplainShortage(r)
           \/ AbortDeadlock(r) \/ Fail(r)
  BY <1>1, <1>2, <1>7
     DEF CreateSupply, UpdateSupply, Recheck, AssertMotorcycle, InsertRefused,
         CreatePlainService, OpenTransaction, ConsumeSupply, ExplainShortage,
         AbortDeadlock, Fail
<1> QED BY <1>3, <1>4, <1>5, <1>6, <1>7 DEF Step

(* The rows of a history name no service that is not, or no longer, there: *)
(* ON DELETE SET NULL, and a service commits with its rows.                *)
THEOREM TagsHold == Spec => []Tagged
<1>1. Init => Tagged
  BY DEF Init, Tagged
<1>2. IInv /\ Tagged /\ [Next]_vars => Tagged'
  <2> SUFFICES ASSUME IInv, Tagged, [Next]_vars PROVE Tagged'
    OBVIOUS
  <2>1. CASE UNCHANGED vars
    BY <2>1, TaggedKept DEF vars
  <2>2. ASSUME NEW r \in Req, Send(r) PROVE Tagged'
    BY <2>2, TaggedKept DEF Send, tables
  <2> QED BY <2>1, <2>2, StepTagged DEF Next, Rest
<1> QED BY <1>1, <1>2, Inductive, PTL DEF Spec
=============================================================================
