--------------------------- MODULE MCTenantSchema ---------------------------
(* Bounded instances of TenantSchema for TLC. *)
EXTENDS TenantSchema, TLC

Line1(s) == [supply |-> s, quantity |-> 1]

Distinct == {l \in Existing \X Existing : l[1] # l[2]}
First == CHOOSE s \in Existing : TRUE

(* services that lock two supplies in either order, and what waits for a   *)
(* supply, takes its stock or its row, or untags its movements             *)
SchemaInputs ==
  [op: {"createService"}, lines: {<<Line1(l[1]), Line1(l[2])>> : l \in Distinct}]
    \cup [op: {"removeService"}, service: Req]
    \cup [op: {"registerMovement"}, supply: {First}, type: {"OUT"}, quantity: {1}]
    \cup [op: {"removeSupply"}, supply: Existing \ {First}]

(* a DELETE of their motorcycle, behind them or between check and insert *)
SchemaShopInputs ==
  [op: {"create"}, table: {"Service"}, motorcycle: Bikes, supplies: {TRUE}]
    \cup [op: {"remove"}, table: {"Service"}, id: Req]
    \cup [op: {"remove"}, table: {"Motorcycle"}, id: Bikes]
=============================================================================
