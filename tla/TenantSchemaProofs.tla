------------------------- MODULE TenantSchemaProofs -------------------------
(***************************************************************************)
(* The tables of a tenant taken together: each half goes on as its own     *)
(* module says, so that what is proved of Inventory and of Workshop holds  *)
(* here, and the two agree on which services there are.                    *)
(***************************************************************************)
EXTENDS TenantSchema, InventoryProofs

(* what WorkshopProofs says of Workshop, for the Workshop in this module *)
ShopFacts == INSTANCE WorkshopProofs WITH Existing <- Bikes, Inputs <- ShopInputs,
                                          input <- shopInput, pc <- shopPc, reply <- shopReply

(* Every step of the whole is a step of Inventory, or leaves it alone: the *)
(* theorems about Inventory hold whatever the rest of the schema does.     *)
THEOREM InventoryHolds == AllSpec => Spec
<1>1. AllInit => Init
  BY DEF AllInit
<1>2. [AllNext]_allVars => [Next]_vars
  <2> SUFFICES ASSUME [AllNext]_allVars PROVE [Next]_vars
    OBVIOUS
  <2>1. CASE UNCHANGED allVars
    BY <2>1 DEF allVars
  <2>2. ASSUME NEW r \in Req, AllSend(r) \/ AllStep(r) \/ AllFail(r) PROVE [Next]_vars
    BY <2>2 DEF AllSend, AllStep, AllFail, ServeInventory, ServeShop, ServeBoth, Next
  <2> QED BY <2>1, <2>2 DEF AllNext, AllRest
<1> QED BY <1>1, <1>2, PTL DEF AllSpec, Spec

(* And so every step is one of Workshop, or leaves it alone.               *)
THEOREM WorkshopHolds == AllSpec => Shop!Spec
<1>1. AllInit => Shop!Init
  BY DEF AllInit
<1>2. [AllNext]_allVars => [Shop!Next]_Shop!vars
  <2> SUFFICES ASSUME [AllNext]_allVars PROVE [Shop!Next]_Shop!vars
    OBVIOUS
  <2>0. UNCHANGED shopVars => UNCHANGED Shop!vars
    BY DEF shopVars, Shop!vars
  <2>1. CASE UNCHANGED allVars
    BY <2>0, <2>1 DEF allVars
  <2>2. ASSUME NEW r \in Req, AllSend(r) \/ AllStep(r) \/ AllFail(r)
        PROVE  [Shop!Next]_Shop!vars
    BY <2>0, <2>2 DEF AllSend, AllStep, AllFail, ServeInventory, ServeShop, ServeBoth, Shop!Next
  <2> QED BY <2>1, <2>2 DEF AllNext, AllRest
<1> QED BY <1>1, <1>2, PTL DEF AllSpec, Shop!Spec

(* the two instances of Workshop are the same *)
LEMMA SameShop ==
  /\ Shop!Init => ShopFacts!Init
  /\ [Shop!Next]_Shop!vars => [ShopFacts!Next]_ShopFacts!vars
  /\ ShopFacts!IInv => Shop!IInv
<1>1. Shop!Init => ShopFacts!Init
  BY DEF Shop!Init, ShopFacts!Init, Shop!Motorcycle, ShopFacts!Motorcycle,
         Shop!NoInput, ShopFacts!NoInput
<1>2. [Shop!Next]_Shop!vars => [ShopFacts!Next]_ShopFacts!vars
  BY DEF
      Shop!Next, ShopFacts!Next, Shop!Send, ShopFacts!Send, Shop!Step,
      ShopFacts!Step, Shop!Fail, ShopFacts!Fail, Shop!Rest, ShopFacts!Rest,
      Shop!Check, ShopFacts!Check, Shop!CreateMotorcycle, ShopFacts!CreateMotorcycle,
      Shop!UpdateMotorcycle, ShopFacts!UpdateMotorcycle, Shop!RemoveMotorcycle,
      ShopFacts!RemoveMotorcycle, Shop!InsertRow, ShopFacts!InsertRow,
      Shop!OpenTransaction, ShopFacts!OpenTransaction, Shop!EndTransaction,
      ShopFacts!EndTransaction, Shop!UpdateRow, ShopFacts!UpdateRow, Shop!RemoveRow,
      ShopFacts!RemoveRow, Shop!Writes, ShopFacts!Writes, Shop!Refuse,
      ShopFacts!Refuse, Shop!Answer, ShopFacts!Answer, Shop!Acknowledge,
      ShopFacts!Acknowledge, Shop!Goto, ShopFacts!Goto, Shop!Live, ShopFacts!Live,
      Shop!Taken, ShopFacts!Taken, Shop!Held, ShopFacts!Held, Shop!Referenced,
      ShopFacts!Referenced, Shop!Store, ShopFacts!Store, Shop!Moved, ShopFacts!Moved,
      Shop!Known, ShopFacts!Known, Shop!Shown, ShopFacts!Shown, Shop!LooksUp,
      ShopFacts!LooksUp, Shop!tables, ShopFacts!tables, Shop!vars, ShopFacts!vars,
      Shop!Motorcycle, ShopFacts!Motorcycle, Shop!Child, ShopFacts!Child
<1>3. ShopFacts!IInv => Shop!IInv
  BY DEF
      Shop!IInv, ShopFacts!IInv, Shop!TypeOK, ShopFacts!TypeOK, Shop!ReferencesHold,
      ShopFacts!ReferencesHold, Shop!VinUnique, ShopFacts!VinUnique, Shop!InFlight,
      ShopFacts!InFlight, Shop!Motorcycle, ShopFacts!Motorcycle, Shop!Child,
      ShopFacts!Child, Shop!Codes, ShopFacts!Codes, Shop!NoInput, ShopFacts!NoInput,
      Shop!Live, ShopFacts!Live, Shop!LooksUp, ShopFacts!LooksUp
<1> QED BY <1>1, <1>2, <1>3

(* the invariant of Workshop holds here *)
LEMMA ShopInductive == AllSpec => []Shop!IInv
<1>1. ShopFacts!Spec => []ShopFacts!IInv
  BY ShopFacts!Inductive, TenantSchemaAssumption
     DEF ShopFacts!Codes, ShopFacts!Input, ShopFacts!Motorcycle, ShopFacts!Child,
         Shop!Codes, Shop!Input, Shop!Motorcycle, Shop!Child
<1> QED BY <1>1, SameShop, WorkshopHolds, PTL DEF Shop!Spec, ShopFacts!Spec
-----------------------------------------------------------------------------
(* a request of both modules is in flight in both, and holds the motorcycle *)
(* of its service as long as it can hold supplies                          *)
Together ==
  \A r \in Req : /\ pc[r] # "idle" /\ Shared(r) => shopPc[r] # "idle"
                 /\ shopPc[r] # "idle" /\ ShopShared(r) => pc[r] # "idle"
                 /\ pc[r] \in {"line", "explain"} => shopPc[r] = "open"

(* there is one Service table *)
SameServices == services = {t \in rows : shopInput[t].table = "Service"}

(* the id in a request is that of a row of its table *)
NamesRow(r) ==
  shopPc[r] # "idle" /\ shopInput[r].op \in {"update", "remove"} /\ shopInput[r].table \in Shop!Child
    => /\ shopPc[shopInput[r].id] # "idle"
       /\ shopInput[shopInput[r].id].table = shopInput[r].table

(* what holds of the two modules together *)
Joined == Together /\ SameServices /\ \A r \in Req : NamesRow(r)

(* what the requests to Workshop name *)
LEMMA ShopInputShape ==
  ASSUME NEW i \in ShopInputs
  PROVE  /\ i.op \in {"create", "update", "remove"}
         /\ i.op \in {"update", "remove"} /\ i.table \in Shop!Child => i.id \in Req
         /\ i.op = "create" /\ i.table = "Motorcycle" => i.table \notin Shop!Child
<1>1. i \in Shop!Input
  BY TenantSchemaAssumption
<1> QED BY <1>1 DEF Shop!Input, Shop!Child

(* a row has been created by a request that is answered *)
LEMMA RowsAreDone ==
  ASSUME Shop!IInv
  PROVE  /\ \A t \in Req : refers[t] # None => shopPc[t] = "done"
         /\ \A t \in rows : t \in Req /\ shopPc[t] = "done"
  BY DEF Shop!IInv, Shop!InFlight, Shop!ReferencesHold, Shop!TypeOK

(* a new request is for a row it has been shown *)
LEMMA ShopSendJoined ==
  ASSUME Shop!IInv, Joined, NEW r \in Req, Shop!Send(r), UNCHANGED services
  PROVE  SameServices' /\ \A q \in Req : NamesRow(q)'
<1>1. PICK i \in ShopInputs : Shop!Known(i) /\ shopInput' = [shopInput EXCEPT ![r] = i]
  BY DEF Shop!Send
<1>2. /\ shopPc[r] = "idle" /\ shopPc'[r] # "idle" /\ UNCHANGED <<rows, refers>>
      /\ shopInput'[r] = i
      /\ \A q \in Req \ {r} : shopPc'[q] = shopPc[q] /\ shopInput'[q] = shopInput[q]
  BY <1>1 DEF Shop!Send, Shop!tables, Shop!IInv, Shop!TypeOK
<1>3. SameServices'
  <2>1. \A t \in rows : shopInput'[t] = shopInput[t]
    BY <1>2, RowsAreDone
  <2> QED BY <1>2, <2>1 DEF Joined, SameServices
<1>4. ASSUME NEW q \in Req PROVE NamesRow(q)'
  <2> SUFFICES ASSUME shopPc'[q] # "idle", shopInput'[q].op \in {"update", "remove"},
                      shopInput'[q].table \in Shop!Child
               PROVE  /\ shopPc'[shopInput'[q].id] # "idle"
                      /\ shopInput'[shopInput'[q].id].table = shopInput'[q].table
    BY DEF NamesRow, Shop!Child
  <2>1. CASE q = r
    <3>1. i.id \in Req /\ refers[i.id] # None /\ shopInput[i.id].table = i.table
      BY <1>1, <1>2, <2>1, ShopInputShape DEF Shop!Known
    <3>2. shopPc[i.id] = "done" /\ i.id # r
      BY <1>2, <3>1, RowsAreDone
    <3> QED BY <1>2, <2>1, <3>1, <3>2
  <2>2. CASE q # r
    <3>1. shopInput[q] \in ShopInputs /\ NamesRow(q) /\ shopPc[q] # "idle"
      BY <1>2, <2>2 DEF Joined, Shop!IInv, Shop!InFlight
    <3>2. shopInput[q].id \in Req
      BY <1>2, <2>2, <3>1, ShopInputShape
    <3>3. /\ shopPc[shopInput[q].id] # "idle"
          /\ shopInput[shopInput[q].id].table = shopInput[q].table
      BY <1>2, <2>2, <3>1 DEF NamesRow
    <3> QED BY <1>2, <2>2, <3>2, <3>3
  <2> QED BY <2>1, <2>2
<1> QED BY <1>3, <1>4

(* a step of r in Workshop: only the place of r changes *)
ShopServed(r) ==
  /\ UNCHANGED shopInput /\ shopPc[r] # "idle" /\ shopPc'[r] # "idle"
  /\ \A q \in Req \ {r} : shopPc'[q] = shopPc[q]

(* so it is with every step *)
LEMMA ShopStepServed ==
  ASSUME Shop!IInv, NEW r \in Req, Shop!Step(r) \/ Shop!Fail(r)
  PROVE  ShopServed(r)
<1>1. shopPc[r] # "idle"
  BY DEF Shop!Step, Shop!Fail, Shop!Check, Shop!CreateMotorcycle, Shop!UpdateMotorcycle,
         Shop!RemoveMotorcycle, Shop!InsertRow, Shop!OpenTransaction, Shop!EndTransaction,
         Shop!UpdateRow, Shop!RemoveRow, Shop!Writes
<1>2. \/ \E code : Shop!Answer(r, code)
      \/ \E label \in {"write", "open"} : Shop!Goto(r, label)
  BY DEF Shop!Step, Shop!Fail, Shop!Check, Shop!CreateMotorcycle, Shop!UpdateMotorcycle,
         Shop!RemoveMotorcycle, Shop!InsertRow, Shop!OpenTransaction, Shop!EndTransaction,
         Shop!UpdateRow, Shop!RemoveRow, Shop!Refuse, Shop!Acknowledge
<1> QED BY <1>1, <1>2 DEF Shop!Answer, Shop!Goto, ShopServed, Shop!IInv, Shop!TypeOK

(* and the rows of requests keep their tables *)
LEMMA ServedNamesRow ==
  ASSUME Shop!IInv, Joined, NEW r \in Req, ShopServed(r)
  PROVE  \A q \in Req : NamesRow(q)'
<1> SUFFICES ASSUME NEW q \in Req, shopPc'[q] # "idle",
                    shopInput[q].op \in {"update", "remove"}, shopInput[q].table \in Shop!Child
             PROVE  /\ shopPc'[shopInput[q].id] # "idle"
                    /\ shopInput[shopInput[q].id].table = shopInput[q].table
  BY DEF NamesRow, Shop!Child, ShopServed
<1>1. shopPc[q] # "idle"
  BY DEF ShopServed
<1>2. shopInput[q].id \in Req
  BY <1>1, ShopInputShape DEF Shop!IInv, Shop!InFlight
<1>3. /\ shopPc[shopInput[q].id] # "idle"
      /\ shopInput[shopInput[q].id].table = shopInput[q].table
  BY <1>1 DEF Joined, NamesRow
<1> QED BY <1>2, <1>3 DEF ShopServed

(* Workshop alone creates and removes no service *)
LEMMA ShopAloneJoined ==
  ASSUME Shop!IInv, Joined, NEW r \in Req, ~ShopShared(r), Shop!Step(r) \/ Shop!Fail(r),
         UNCHANGED services
  PROVE  SameServices'
<1>1. UNCHANGED shopInput
  BY ShopStepServed DEF ShopServed
<1>2. CASE UNCHANGED rows
  BY <1>1, <1>2 DEF Joined, SameServices
<1>3. CASE \E code : Shop!Refuse(r, code)
  BY <1>2, <1>3 DEF Shop!Refuse, Shop!tables
<1>4. CASE Shop!InsertRow(r) /\ rows' = rows \cup {r}
  <2>1. shopInput[r].table # "Service"
    BY <1>4 DEF Shop!InsertRow, Shop!Writes, ShopShared
  <2> QED BY <1>1, <1>4, <2>1 DEF Joined, SameServices
<1>5. CASE Shop!RemoveRow(r) /\ rows' = rows \ {shopInput[r].id}
  <2>1. /\ shopInput[r].op = "remove" /\ shopInput[r].table \in Shop!Child
        /\ shopInput[r].table # "Service" /\ shopPc[r] # "idle"
    BY <1>5 DEF Shop!RemoveRow, Shop!Writes, ShopShared
  <2>2. shopInput[shopInput[r].id].table # "Service"
    BY <2>1 DEF Joined, NamesRow
  <2> QED BY <1>1, <1>5, <2>2 DEF Joined, SameServices
<1>6. ~Shop!EndTransaction(r)
  BY DEF Shop!EndTransaction, ShopShared, Shop!IInv, Shop!InFlight
<1> QED BY <1>2, <1>3, <1>4, <1>5, <1>6
       DEF Shop!Step, Shop!Fail, Shop!Check, Shop!CreateMotorcycle, Shop!UpdateMotorcycle,
           Shop!RemoveMotorcycle, Shop!InsertRow, Shop!OpenTransaction, Shop!UpdateRow,
           Shop!RemoveRow, Shop!Store, Shop!tables

(* a step of r in Inventory: only the place of r changes *)
StockServed(r) ==
  /\ UNCHANGED input /\ pc[r] # "idle" /\ pc'[r] # "idle"
  /\ \A q \in Req \ {r} : pc'[q] = pc[q]

(* so it is with every step *)
LEMMA StockStepServed ==
  ASSUME IInv, LooksAgain, NEW r \in Req, Step(r) \/ Fail(r)
  PROVE  StockServed(r)
<1>1. Served(r)
  BY StepServed
<1>2. \/ \E code : Answer(r, code)
      \/ \E label \in {"recheck", "insert", "line", "explain"} : Goto(r, label)
  BY DEF Step, Fail, CreateSupply, UpdateSupply, RemoveSupply, RegisterMovement, Recheck,
         AssertMotorcycle, InsertRefused, CreatePlainService, OpenTransaction,
         ConsumeSupply, ExplainShortage, CommitService, RemoveService, AbortDeadlock,
         Refuse, RefuseShort, Acknowledge
<1> QED BY <1>1, <1>2 DEF Served, StockServed, Answer, Goto, IInv, TypeOK

(* SuppliesService alone creates and removes no service, and is in no loop *)
LEMMA StockAlone ==
  ASSUME IInv, NEW r \in Req, Step(r) \/ Fail(r), ~Shared(r), StockServed(r)
  PROVE  UNCHANGED services /\ pc'[r] \notin {"line", "explain"}
<1>1. ~(\/ AssertMotorcycle(r) \/ InsertRefused(r) \/ CreatePlainService(r)
        \/ OpenTransaction(r) \/ ConsumeSupply(r) \/ ExplainShortage(r) \/ CommitService(r)
        \/ RemoveService(r) \/ AbortDeadlock(r))
  BY DEF AssertMotorcycle, InsertRefused, CreatePlainService, OpenTransaction, ConsumeSupply,
         ExplainShortage, CommitService, RemoveService, AbortDeadlock, WaitsFor, At, Shared
<1>2. UNCHANGED services
  BY <1>1 DEF Step, Fail, CreateSupply, UpdateSupply, RemoveSupply, RegisterMovement,
              Recheck, Apply, Refuse, RefuseShort, Rollback, tables
<1>3. \/ \E code : Answer(r, code)
      \/ Goto(r, "recheck")
  BY <1>1 DEF Step, Fail, CreateSupply, UpdateSupply, RemoveSupply, RegisterMovement,
              Recheck, Refuse, RefuseShort, Acknowledge
<1> QED BY <1>2, <1>3 DEF Answer, Goto, IInv, TypeOK

(* a request is sent to one module or to both *)
LEMMA AllSendJoined ==
  ASSUME IInv, Shop!IInv, Joined, NEW r \in Req, AllSend(r)
  PROVE  Joined'
<1>1. Send(r) => /\ UNCHANGED services /\ pc'[r] = "start"
                 /\ \A q \in Req \ {r} : pc'[q] = pc[q] /\ input'[q] = input[q]
  BY DEF Send, tables, IInv, TypeOK
<1>2. Shop!Send(r) => /\ shopPc'[r] \in {"check", "write"}
                      /\ \A q \in Req \ {r} : shopPc'[q] = shopPc[q] /\ shopInput'[q] = shopInput[q]
  BY DEF Shop!Send, Shop!IInv, Shop!TypeOK
<1>3. pc[r] = "idle" /\ shopPc[r] = "idle"
  BY DEF AllSend
<1>4. CASE Send(r) /\ ~Shared(r)' /\ UNCHANGED shopVars
  <2>1. SameServices' /\ \A q \in Req : NamesRow(q)'
    BY <1>1, <1>4 DEF Joined, SameServices, NamesRow, Shop!Child, shopVars
  <2>2. Together'
    BY <1>1, <1>3, <1>4 DEF Joined, Together, Shared, ShopShared, shopVars
  <2> QED BY <2>1, <2>2 DEF Joined
<1>5. CASE Shop!Send(r) /\ ~ShopShared(r)' /\ UNCHANGED vars
  <2>1. SameServices' /\ \A q \in Req : NamesRow(q)'
    BY <1>5, ShopSendJoined DEF vars
  <2>2. Together'
    BY <1>2, <1>3, <1>5 DEF Joined, Together, Shared, ShopShared, vars
  <2> QED BY <2>1, <2>2 DEF Joined
<1>6. CASE Send(r) /\ Shop!Send(r)
  <2>1. SameServices' /\ \A q \in Req : NamesRow(q)'
    BY <1>1, <1>6, ShopSendJoined
  <2>2. Together'
    BY <1>1, <1>2, <1>6 DEF Joined, Together, Shared, ShopShared
  <2> QED BY <2>1, <2>2 DEF Joined
<1> QED BY <1>4, <1>5, <1>6 DEF AllSend

(* a step of Inventory alone *)
LEMMA StockAloneJoined ==
  ASSUME IInv, LooksAgain, Joined, NEW r \in Req, shopPc[r] = "idle", Step(r) \/ Fail(r),
         UNCHANGED shopVars
  PROVE  Joined'
<1>1. StockServed(r)
  BY StockStepServed
<1>2. ~Shared(r)
  BY <1>1 DEF Joined, Together, StockServed
<1>3. UNCHANGED services /\ pc'[r] \notin {"line", "explain"}
  BY <1>1, <1>2, StockAlone
<1>4. SameServices' /\ \A q \in Req : NamesRow(q)'
  BY <1>3 DEF Joined, SameServices, NamesRow, Shop!Child, shopVars
<1>5. Together'
  BY <1>1, <1>2, <1>3 DEF Joined, Together, Shared, ShopShared, StockServed, shopVars
<1> QED BY <1>4, <1>5 DEF Joined

(* a step of Workshop alone *)
LEMMA ShopAlone ==
  ASSUME Shop!IInv, Joined, NEW r \in Req, pc[r] = "idle", Shop!Step(r) \/ Shop!Fail(r),
         UNCHANGED vars
  PROVE  Joined'
<1>1. ShopServed(r)
  BY ShopStepServed
<1>2. ~ShopShared(r)
  BY <1>1 DEF Joined, Together, ShopServed
<1>3. SameServices' /\ \A q \in Req : NamesRow(q)'
  BY <1>1, <1>2, ShopAloneJoined, ServedNamesRow DEF vars
<1>4. Together'
  BY <1>1 DEF Joined, Together, Shared, ShopShared, ShopServed, vars
<1> QED BY <1>3, <1>4 DEF Joined

(* ServicesService.create and .remove *)
LEMMA BothJoined ==
  ASSUME IInv, LooksAgain, Shop!IInv, Joined, NEW r \in Req, ServeBoth(r)
  PROVE  Joined'
<1>1. StockServed(r)
  BY StockStepServed DEF ServeBoth
<1>2. shopPc[r] # "idle"
  BY DEF Joined, Together, ServeBoth
<1>3. ShopServed(r)
  <2>1. CASE Shop!Step(r)
    BY <2>1, ShopStepServed
  <2>2. CASE UNCHANGED shopVars
    BY <1>2, <2>2 DEF ShopServed, shopVars
  <2> QED BY <2>1, <2>2 DEF ServeBoth
<1>4. SameServices' /\ (pc'[r] \in {"line", "explain"} => shopPc'[r] = "open")
  BY DEF ServeBoth, SamePlace, SameServices
<1>5. Together'
  BY <1>1, <1>3, <1>4 DEF Joined, Together, Shared, ShopShared, StockServed, ShopServed
<1> QED BY <1>3, <1>4, <1>5, ServedNamesRow DEF Joined

(* a request fails in both modules *)
LEMMA BothFailJoined ==
  ASSUME IInv, LooksAgain, Shop!IInv, Joined, NEW r \in Req, Fail(r), Shop!Fail(r)
  PROVE  Joined'
<1>1. StockServed(r) /\ ShopServed(r)
  BY StockStepServed, ShopStepServed
<1>2. pc'[r] = "done" /\ UNCHANGED <<services, rows, shopInput>>
  BY <1>1 DEF Fail, Refuse, Rollback, Answer, tables, Shop!Fail, Shop!Refuse, Shop!tables,
              ShopServed, IInv, TypeOK
<1>3. SameServices'
  BY <1>2 DEF Joined, SameServices
<1>4. Together'
  BY <1>1, <1>2 DEF Joined, Together, Shared, ShopShared, StockServed, ShopServed
<1> QED BY <1>1, <1>3, <1>4, ServedNamesRow DEF Joined

(* The Service table of Inventory is that of Workshop, and a service that  *)
(* can hold supplies holds its motorcycle too, whoever does what meanwhile. *)
THEOREM OneSchema == AllSpec => []Joined
<1>1. AllInit => Joined
  BY DEF AllInit, Init, Shop!Init, Joined, Together, SameServices, NamesRow
<1>2. IInv /\ LooksAgain /\ Shop!IInv /\ Joined /\ [AllNext]_allVars => Joined'
  <2> SUFFICES ASSUME IInv, LooksAgain, Shop!IInv, Joined, [AllNext]_allVars PROVE Joined'
    OBVIOUS
  <2>1. CASE UNCHANGED allVars
    BY <2>1 DEF allVars, vars, shopVars, Joined, Together, SameServices, NamesRow, Shared,
                ShopShared, Shop!Child
  <2>2. ASSUME NEW r \in Req, AllStep(r) PROVE Joined'
    BY <2>2, StockAloneJoined, ShopAlone, BothJoined DEF AllStep, ServeInventory, ServeShop
  <2>3. ASSUME NEW r \in Req, AllFail(r) PROVE Joined'
    BY <2>3, StockAloneJoined, ShopAlone, BothFailJoined DEF AllFail
  <2> QED BY <2>1, <2>2, <2>3, AllSendJoined DEF AllNext, AllRest
<1>3. AllSpec => []IInv /\ []LooksAgain
  BY InventoryHolds, Inductive, AlwaysLooksAgain, PTL
<1> QED BY <1>1, <1>2, <1>3, ShopInductive, PTL DEF AllSpec
-----------------------------------------------------------------------------
(* Stock is consumed by services whose motorcycle is there                 *)
(* (services.service.ts:18-37): while supplies are locked, and for as long *)
(* as a row of a history names the service.                                *)
THEOREM ServicesTraceable == AllSpec => []ConsumptionTraceable
<1>1. IInv /\ Tagged /\ Shop!IInv /\ Joined => ConsumptionTraceable
  <2> SUFFICES ASSUME IInv, Tagged, Shop!IInv, Joined, NEW s \in Supply
               PROVE  /\ lock[s] # None => Shop!Live(shopInput[lock[s]].motorcycle)
                      /\ \A n \in DOMAIN history[s] :
                           LET sv == history[s][n].service
                           IN  sv # None => sv \in services /\ sv \in rows /\ Shop!Live(refers[sv])
    BY DEF ConsumptionTraceable
  <2>1. lock[s] # None => Shop!Live(shopInput[lock[s]].motorcycle)
    <3>1. lock[s] # None => lock[s] \in Req /\ pc[lock[s]] \in {"line", "explain"}
      BY DEF IInv, TypeOK, Transactions
    <3> QED BY <3>1 DEF Joined, Together, Shop!IInv, Shop!ReferencesHold
  <2>2. ASSUME NEW n \in DOMAIN history[s], history[s][n].service # None
        PROVE  /\ history[s][n].service \in services /\ history[s][n].service \in rows
               /\ Shop!Live(refers[history[s][n].service])
    <3>1. history[s][n].service \in services
      BY <2>2 DEF Tagged
    <3> QED BY <3>1 DEF Joined, SameServices, Shop!IInv, Shop!ReferencesHold
  <2> QED BY <2>1, <2>2
<1>2. AllSpec => []IInv /\ []Tagged
  BY InventoryHolds, Inductive, TagsHold, PTL
<1> QED BY <1>1, <1>2, OneSchema, ShopInductive, PTL

(* Seen through its committed rows, the whole schema is the abstract       *)
(* ledger: what happens to motorcycles and appointments, and the locks     *)
(* that services hold on them, are stutters.                               *)
THEOREM SchemaImplementsLedger == AllSpec => LedgerSpec
  BY InventoryHolds, ImplementsLedger, PTL

(* The promises of the two halves hold of the whole: stock is what its     *)
(* history says, a reply is what happened to the supplies, and every       *)
(* service and appointment has its motorcycle.                             *)
THEOREM HalvesHold == AllSpec => [](Balanced /\ RepliesMatchHistory /\ Shop!ReferencesHold)
<1>1. Shop!IInv => Shop!ReferencesHold
  BY DEF Shop!IInv
<1>2. AllSpec => []Balanced /\ []RepliesMatchHistory
  BY InventoryHolds, StockIsHistory, RepliesTrue, PTL
<1> QED BY <1>1, <1>2, ShopInductive, PTL
=============================================================================
