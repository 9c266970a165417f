---------------------------- MODULE TenantSchema ----------------------------
(***************************************************************************)
(* All the tables of one tenant: Inventory and Workshop in one database.   *)
(*                                                                         *)
(* ServicesService belongs to both.  Creating a service checks and locks a *)
(* motorcycle (Workshop) and consumes supplies (Inventory) under one       *)
(* transaction; removing one takes the row and untags its movements.       *)
(* These two requests take their steps in both modules at once, which      *)
(* settles what Inventory leaves open (does the motorcycle exist?) and     *)
(* what Workshop leaves open (how does the transaction end?).              *)
(***************************************************************************)
EXTENDS Inventory

CONSTANTS Bikes, Vin, Null, ShopInputs    \* Existing and Inputs of Workshop

VARIABLES bike, vin, rows, refers,
          shopInput, shopPc, shopReply    \* input, pc, reply of Workshop

Shop == INSTANCE Workshop WITH Existing <- Bikes, Inputs <- ShopInputs,
                               input <- shopInput, pc <- shopPc, reply <- shopReply

ASSUME TenantSchemaAssumption ==
  /\ None # Null /\ {None, Null} \cap (Bikes \cup Req \cup Vin \cup Shop!Codes) = {}
  /\ Bikes \cap Req = {}
  /\ ShopInputs \subseteq Shop!Input

shopVars == <<bike, vin, rows, refers, shopInput, shopPc, shopReply>>
allVars == <<vars, shopVars>>

AllInit == Init /\ Shop!Init
-----------------------------------------------------------------------------
(* the requests that belong to both modules *)
Shared(r) == input[r].op \in {"createService", "removeService"}
ShopShared(r) == shopInput[r].table = "Service" /\ shopInput[r].op \in {"create", "remove"}

(* the two halves are one request *)
SameRequest(r) ==
  LET i == input[r]
      j == shopInput[r]
  IN  \/ /\ i.op = "createService" /\ j.op = "create"
         /\ j.supplies = (i.lines # <<>>)
      \/ i.op = "removeService" /\ j.op = "remove" /\ j.id = i.service

(* both halves of r are at the same point of ServicesService, with one     *)
(* reply, one Service table and one outcome of the transaction             *)
SamePlace(r) ==
  /\ reply[r] = shopReply[r]
  /\ services = {t \in rows : shopInput[t].table = "Service"}
  /\ CASE pc[r] = "start" -> shopPc[r] = IF input[r].op = "createService" THEN "check" ELSE "write"
       [] pc[r] = "insert" -> shopPc[r] = "write"
       [] pc[r] \in {"line", "explain"} -> shopPc[r] = "open"
       [] OTHER -> shopPc[r] = "done"

AllSend(r) ==
  /\ pc[r] = "idle" /\ shopPc[r] = "idle"
  /\ \/ Send(r) /\ ~Shared(r)' /\ UNCHANGED shopVars
     \/ Shop!Send(r) /\ ~ShopShared(r)' /\ UNCHANGED vars
     \/ Send(r) /\ Shared(r)' /\ Shop!Send(r) /\ ShopShared(r)' /\ SameRequest(r)'

(* SuppliesService *)
ServeInventory(r) == shopPc[r] = "idle" /\ Step(r) /\ UNCHANGED shopVars

(* MotorcyclesService, AppointmentsService, ServicesService.update *)
ServeShop(r) == pc[r] = "idle" /\ Shop!Step(r) /\ UNCHANGED vars

(* ServicesService.create and .remove: the lines of a service, up to the   *)
(* last, change nothing in Workshop                                        *)
ServeBoth(r) ==
  /\ pc[r] # "idle" /\ Shared(r)
  /\ Step(r)
  /\ Shop!Step(r) \/ UNCHANGED shopVars
  /\ SamePlace(r)'

AllFail(r) ==
  \/ shopPc[r] = "idle" /\ Fail(r) /\ UNCHANGED shopVars
  \/ pc[r] = "idle" /\ Shop!Fail(r) /\ UNCHANGED vars
  \/ Fail(r) /\ Shop!Fail(r)

AllStep(r) == ServeInventory(r) \/ ServeShop(r) \/ ServeBoth(r)

Answered(r) == pc[r] = "done" \/ shopPc[r] = "done"

AllRest == (\A r \in Req : Answered(r)) /\ UNCHANGED allVars

AllNext == (\E r \in Req : AllSend(r) \/ AllStep(r) \/ AllFail(r)) \/ AllRest

AllSpec == AllInit /\ [][AllNext]_allVars

(* Node's event loop resumes every handler whose await has settled, and    *)
(* Postgres serves every statement that need not wait and detects          *)
(* deadlocks.  Nothing obliges a client to send or a failure to happen.    *)
AllFairSpec == AllSpec /\ \A r \in Req : WF_allVars(AllStep(r))
-----------------------------------------------------------------------------
(* Whatever stock a service has consumed can be traced to its motorcycle:  *)
(* a movement with a serviceId has a committed service with a motorcycle   *)
(* that is still there, and stock is only held for a service whose         *)
(* motorcycle is there, although it is deleted, serviced and moved by      *)
(* others between the check and the commit (services.service.ts:18-37).    *)
ConsumptionTraceable ==
  \A s \in Supply :
    /\ lock[s] # None => Shop!Live(shopInput[lock[s]].motorcycle)
    /\ \A n \in DOMAIN history[s] :
         LET sv == history[s][n].service
         IN  sv # None => sv \in services /\ sv \in rows /\ Shop!Live(refers[sv])

(* No request waits for ever: services that lock supplies in opposite      *)
(* order are told apart by the deadlock detector, every handler that ends, *)
(* by whatever path, gives its locks back, and so a DELETE of a motorcycle *)
(* is served that waits for a service that waits for another's supplies.   *)
EverybodyAnswered == \A r \in Req : ~Answered(r) /\ (pc[r] # "idle" \/ shopPc[r] # "idle") ~> Answered(r)
=============================================================================
