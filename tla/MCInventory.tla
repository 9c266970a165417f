---------------------------- MODULE MCInventory ----------------------------
(* Bounded instances of Inventory for TLC. *)
EXTENDS Inventory, TLC

Move(supplies, quantities) ==
  [op: {"registerMovement"}, supply: supplies, type: {"IN", "OUT"}, quantity: quantities]
Service(lines) == [op: {"createService"}, lines: lines]
One == [supply: Existing, quantity: {1}]

(* two lines: both supplies in either order, or one supply twice *)
TwoLines == {<<l, m>> : l, m \in One}

(* what moves stock, and what removes the rows a movement belongs to *)
RaceInputs ==
  Move(Existing, {1, 2}) \cup Service(TwoLines)
    \cup [op: {"removeSupply"}, supply: Existing]
    \cup [op: {"removeService"}, service: Req]

(* all operations, on supplies old and new, with numbers beyond the column *)
CatalogueInputs ==
  [op: {"createSupply"}, sku: Sku, stock: {0, MaxInt, MaxInt + 1}]
    \cup [op: {"updateSupply"}, supply: Supply, sku: Sku \cup {None}]
    \cup [op: {"removeSupply"}, supply: Supply]
    \cup Move(Supply, {1, MaxInt + 1})
    \cup Service({<<>>} \cup {<<[supply |-> s, quantity |-> q]>> :
                                s \in Supply, q \in {1, MaxInt + 1}})
    \cup [op: {"removeService"}, service: Req]

Symmetry == Permutations(Req) \cup Permutations(Existing)
=============================================================================
