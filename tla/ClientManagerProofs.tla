------------------------ MODULE ClientManagerProofs ------------------------
(* For any number of calls and schemas: no pool without an owner but those *)
(* a query reopens after the shutdown, and one pool for a schema.          *)
EXTENDS ClientManager, TLAPS

(* The initial state satisfies the invariant. *)
THEOREM InitInv == Init => IInv
<1> SUFFICES ASSUME Init PROVE IInv
  OBVIOUS
<1>1. TypeOK
  BY DEF Init, TypeOK
<1>2. NoOrphan /\ NoStaleRejection /\ OwnSchema
  BY DEF Init, NoOrphan, Pool, NoStaleRejection, OwnSchema
<1>3. /\ \A s \in Schema : clients[s] = None
      /\ \A c \in Call : promise[c] = "none" /\ awaiting[c] = None
      /\ closing = {}
  BY DEF Init
<1> QED BY <1>1, <1>2, <1>3 DEF IInv

(* GetClient keeps the invariant. *)
LEMMA GetClientInv ==
  ASSUME IInv, NEW c \in Call, NEW s \in Schema, GetClient(c, s)
  PROVE  IInv'
<1> USE ClientManagerAssumption DEF IInv, NoOrphan, Pool, NoStaleRejection, OwnSchema
<1>1. promise[c] = "none" /\ \A d \in Call : clients[s] = d => d # c
  BY DEF GetClient, TypeOK
<1>2. TypeOK'
  BY DEF GetClient, TypeOK, Cached, Remember
<1>3. CASE s \notin Safe
  BY <1>1, <1>2, <1>3 DEF GetClient, TypeOK
<1>4. CASE s \in Safe /\ clients[s] # None
  BY <1>1, <1>2, <1>4 DEF GetClient, TypeOK, Cached
<1>5. CASE s \in Safe /\ clients[s] = None
  <2>1. /\ clients' = [clients EXCEPT ![s] = c]
        /\ promise' = [promise EXCEPT ![c] = "connecting"]
        /\ schema' = [schema EXCEPT ![c] = s]
        /\ awaiting' = [awaiting EXCEPT ![c] = c]
        /\ pc' = [pc EXCEPT ![c] = "waiting"]
        /\ pc[c] = "idle" /\ UNCHANGED <<closing, destroyed>>
    BY <1>5 DEF GetClient, Cached, Remember
  <2> QED BY <1>1, <1>2, <1>5, <2>1 DEF TypeOK
<1> QED BY <1>3, <1>4, <1>5 DEF TypeOK

(* ConnectSettles keeps the invariant. *)
LEMMA ConnectSettlesInv ==
  ASSUME IInv, NEW p \in Call, ConnectSettles(p)
  PROVE  IInv'
  BY ClientManagerAssumption
     DEF ConnectSettles, IInv, TypeOK, NoOrphan, Pool, NoStaleRejection, OwnSchema

(* the identity check of the handler: another Promise in the Map stays *)
LEMMA EvictInv ==
  ASSUME IInv, NEW p \in Call, Evict(p)
  PROVE  IInv'
<1> USE ClientManagerAssumption DEF IInv, NoOrphan, Pool, NoStaleRejection, OwnSchema
<1>1. schema[p] \in Schema
  BY DEF Evict, TypeOK
<1>2. CASE clients[schema[p]] = p
  BY <1>1, <1>2 DEF Evict, Forget, TypeOK
<1>3. CASE clients[schema[p]] # p
  BY <1>1, <1>3 DEF Evict, Forget, TypeOK
<1> QED BY <1>2, <1>3

(* Resume keeps the invariant. *)
LEMMA ResumeInv ==
  ASSUME IInv, NEW c \in Call, Resume(c)
  PROVE  IInv'
<1> USE ClientManagerAssumption DEF IInv, NoOrphan, Pool, NoStaleRejection, OwnSchema
<1>1. CASE UNCHANGED promise
  BY <1>1 DEF Resume, Settled, TypeOK
<1>2. CASE ~UNCHANGED promise
  <2> DEFINE p == awaiting[c]
  <2>1. /\ promise[p] = "closed" /\ promise' = [promise EXCEPT ![p] = "reopened"]
        /\ pc' = [pc EXCEPT ![c] = "client"] /\ pc[c] = "waiting"
        /\ UNCHANGED <<clients, schema, awaiting, closing, destroyed>>
    BY <1>2 DEF Resume
  <2>2. p \in Call
    BY <2>1 DEF TypeOK
  <2>3. destroyed
    BY <2>1, <2>2
  <2>4. \A s \in Schema : clients[s] # p
    BY <2>1, <2>2
  <2> HIDE DEF p
  <2>5. TypeOK'
    BY <2>1, <2>2 DEF TypeOK
  <2>6. NoOrphan'
    BY <2>1, <2>2, <2>3 DEF TypeOK
  <2>7. NoStaleRejection'
    BY <2>1, <2>4 DEF TypeOK
  <2>8. OwnSchema'
    BY <2>1, <2>2 DEF TypeOK, p
  <2> QED BY <2>1, <2>2, <2>3, <2>5, <2>6, <2>7, <2>8 DEF TypeOK
<1> QED BY <1>1, <1>2

(* what the Map held is what is being closed *)
LEMMA DestroyInv ==
  ASSUME IInv, Destroy
  PROVE  IInv'
<1> USE ClientManagerAssumption DEF IInv, NoOrphan, Pool, NoStaleRejection, OwnSchema
<1>1. \A p \in Call : Pool(p) => p \in closing'
  <2> SUFFICES ASSUME NEW p \in Call, Pool(p) PROVE p \in closing'
    OBVIOUS
  <2>1. clients[schema[p]] = p
    BY DEF Destroy
  <2> QED BY <2>1 DEF Destroy, ToClose
<1>2. closing' \subseteq Call /\ clients' = [s \in Schema |-> None]
  BY DEF Destroy, ToClose, TypeOK
<1>3. UNCHANGED <<promise, schema, awaiting, pc>> /\ destroyed' = TRUE
  BY DEF Destroy
<1>4. TypeOK'
  BY <1>2, <1>3 DEF TypeOK
<1>5. NoOrphan'
  BY <1>1, <1>3
<1>6. NoStaleRejection' /\ OwnSchema'
  BY <1>2, <1>3
<1>7. \A c \in Call : promise'[c] = "none" => c \notin closing'
  <2> SUFFICES ASSUME NEW c \in Call, c \in closing' PROVE promise[c] # "none"
    BY <1>3
  <2>1. PICK s \in Schema : clients[s] = c
    BY DEF Destroy, ToClose
  <2> QED BY <2>1
<1> QED BY <1>2, <1>3, <1>4, <1>5, <1>6, <1>7

(* Disconnect keeps the invariant. *)
LEMMA DisconnectInv ==
  ASSUME IInv, NEW p \in Call, Disconnect(p)
  PROVE  IInv'
<1> USE ClientManagerAssumption DEF IInv, NoOrphan, Pool, NoStaleRejection, OwnSchema
<1>1. TypeOK'
  BY DEF Disconnect, TypeOK
<1>2. /\ p \in closing /\ closing' = closing \ {p}
      /\ UNCHANGED <<clients, schema, awaiting, pc, destroyed>>
      /\ promise[p] \in {"open", "rejected"} /\ promise'[p] \in {"closed", "rejected"}
      /\ \A q \in Call \ {p} : promise'[q] = promise[q]
  BY DEF Disconnect, Settles, TypeOK
<1>3. \A s \in Schema : clients[s] = p => p \notin closing
  OBVIOUS
<1>4. NoOrphan'
  BY <1>2
<1>5. NoStaleRejection'
  BY <1>2, <1>3 DEF TypeOK
<1>6. OwnSchema' /\ (~destroyed => closing = {})'
  BY <1>2
<1> QED BY <1>1, <1>2, <1>4, <1>5, <1>6 DEF TypeOK

(* Every step keeps it: a lemma for each action. *)
THEOREM StepInv == IInv /\ [Next]_vars => IInv'
<1> SUFFICES ASSUME IInv, [Next]_vars PROVE IInv'
  OBVIOUS
<1>1. CASE UNCHANGED vars
  BY <1>1 DEF vars, IInv, TypeOK, NoOrphan, Pool, NoStaleRejection, OwnSchema
<1>2. CASE Next
  BY <1>1, <1>2, GetClientInv, ConnectSettlesInv, EvictInv, ResumeInv, DestroyInv,
     DisconnectInv DEF Next, Rest
<1> QED BY <1>1, <1>2

(* So it holds in every reachable state. *)
THEOREM Inductive == Spec => []IInv
  BY InitInv, StepInv, PTL DEF Spec

(* Every pool has an owner that will disconnect it (the race of            *)
(* prisma-client-manager.service.ts:19-23), but for a client that the      *)
(* shutdown has disconnected and a query has connected again.              *)
THEOREM PoolsHaveOwners == Spec => []NoOrphan
<1>1. IInv => NoOrphan
  BY DEF IInv
<1> QED BY <1>1, Inductive, PTL

(* Concurrent callers of one schema share one pool.                        *)
THEOREM PoolsAreShared == Spec => []OnePoolPerSchema
<1>1. IInv => OnePoolPerSchema
  BY DEF IInv, NoOrphan, OnePoolPerSchema, Retired
<1> QED BY <1>1, Inductive, PTL

(* A caller is handed a client pinned to the schema it asked for.          *)
THEOREM CallersGetTheirSchema == Spec => []OwnSchema
<1>1. IInv => OwnSchema
  BY DEF IInv
<1> QED BY <1>1, Inductive, PTL

(* A rejection that has been handed out is not in the Map any more: the    *)
(* next call connects anew (prisma-client-manager.service.ts:41-44).       *)
THEOREM RejectionsAreForgotten == Spec => []NoStaleRejection
<1>1. IInv => NoStaleRejection
  BY DEF IInv
<1> QED BY <1>1, Inductive, PTL
=============================================================================
