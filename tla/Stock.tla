------------------------------- MODULE Stock -------------------------------
(***************************************************************************)
(* Stock movements and what it means for a history of movements to explain *)
(* a stock level: the data shared by the abstract ledger (StockLedger) and *)
(* by the supplies and services handlers (Inventory).                      *)
(***************************************************************************)
EXTENDS Integers, Sequences

CONSTANTS
  Req,      \* HTTP requests; a row created by request r is identified by r
  MaxInt,   \* the largest value of a Postgres INTEGER column
  None      \* SQL NULL

ASSUME StockAssumption == /\ None \notin Req
                          /\ MaxInt \in Nat \ {0}

(* A StockMovement row: "by" stands for its id (the request that inserted  *)
(* it), "service" is the nullable foreign key serviceId.                   *)
Movement == [by: Req, type: {"IN", "OUT"}, quantity: 1..MaxInt,
             service: Req \cup {None}]

(* quantity is always positive; the type decides the sign *)
Delta(m) == IF m.type = "OUT" THEN -m.quantity ELSE m.quantity

(* A stock value the column can hold and the workshop can have on a shelf *)
Level == 0..MaxInt

(* Rows lead from one level to another, and every level on the way is one  *)
(* too: no prefix of the history oversells or overflows the column.        *)
Replays(rows, from, to) ==
  \E bal \in [0..Len(rows) -> Level] :
    /\ bal[0] = from
    /\ \A i \in 1..Len(rows) : bal[i] = bal[i - 1] + Delta(rows[i])
    /\ bal[Len(rows)] = to

(* ON DELETE SET NULL: the rows forget service sv *)
Untagged(rows, sv) ==
  [i \in DOMAIN rows |->
     IF rows[i].service = sv THEN [rows[i] EXCEPT !.service = None] ELSE rows[i]]
=============================================================================
