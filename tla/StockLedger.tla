---------------------------- MODULE StockLedger ----------------------------
(***************************************************************************)
(* What the inventory promises, with no requests, locks or transactions:   *)
(* a supply is opened with a level, its level moves only together with the *)
(* rows that explain it, and a service books all its lines at once.        *)
(* Inventory implements this specification (LedgerSpec there).             *)
(***************************************************************************)
EXTENDS Stock

CONSTANT Supply

VARIABLES status, opening, stock, history, services

vars == <<status, opening, stock, history, services>>

Live(s) == status[s] = "live"

(* the rows a step adds to the history of s *)
Added(s) == SubSeq(history'[s], Len(history[s]) + 1, Len(history'[s]))

(* the added rows explain the change of the level *)
Explained(s) == Replays(Added(s), stock[s], stock'[s])

Init == /\ status \in [Supply -> {"unborn", "live"}]
        /\ opening \in [Supply -> Level]
        /\ stock = opening
        /\ history = [s \in Supply |-> <<>>]
        /\ services = {}

Open(s) == /\ status[s] = "unborn"
           /\ status' = [status EXCEPT ![s] = "live"]
           /\ \E level \in Level :
                /\ opening' = [opening EXCEPT ![s] = level]
                /\ stock' = [stock EXCEPT ![s] = level]
           /\ UNCHANGED <<history, services>>

Close(s) == /\ Live(s)
            /\ status' = [status EXCEPT ![s] = "deleted"]
            /\ history' = [history EXCEPT ![s] = <<>>]
            /\ UNCHANGED <<opening, stock, services>>

(* one movement on one supply *)
Post(s) == /\ Live(s)
           /\ history' = [history EXCEPT ![s] = @ \o Added(s)]
           /\ stock' = [stock EXCEPT ![s] = stock'[s]]
           /\ Len(Added(s)) = 1 /\ Added(s)[1].service = None
           /\ Explained(s)
           /\ UNCHANGED <<status, opening, services>>

(* a new service takes all it consumes, from every supply, in one step *)
Book(sv) == /\ sv \notin services
            /\ services' = services \cup {sv}
            /\ history' = [s \in Supply |-> history[s] \o Added(s)]
            /\ stock' = [s \in Supply |-> stock'[s]]
            /\ \A s \in Supply :
                 /\ Explained(s)
                 /\ Added(s) # <<>> => Live(s)
                 /\ \A i \in DOMAIN Added(s) : /\ Added(s)[i].service = sv
                                               /\ Added(s)[i].type = "OUT"
            /\ UNCHANGED <<status, opening>>

(* a service record goes; what it consumed stays consumed *)
Detach(sv) == /\ sv \in services
              /\ services' = services \ {sv}
              /\ history' = [s \in Supply |-> Untagged(history[s], sv)]
              /\ UNCHANGED <<status, opening, stock>>

Next == \/ \E s \in Supply : Open(s) \/ Close(s) \/ Post(s)
        \/ \E sv \in Req : Book(sv) \/ Detach(sv)

Spec == Init /\ [][Next]_vars
=============================================================================
