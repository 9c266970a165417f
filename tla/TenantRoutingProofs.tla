------------------------ MODULE TenantRoutingProofs ------------------------
(***************************************************************************)
(* For any number of users, tenants and requests: a request runs its       *)
(* queries in the schema of its own user, or not at all.                   *)
(***************************************************************************)
EXTENDS TenantRouting, TLAPS

(* a query belongs to a request *)
LEMMA QueryShape ==
  ASSUME NEW q \in Query
  PROVE  q[1] \in Request /\ q[2] \in 1..MaxQueries /\ q = <<q[1], q[2]>>
  BY DEF Query

(* undefined is no schema, no user and no query *)
LEMMA NoneIsNothing == None \notin Schema /\ None \notin User /\ None \notin Query
  BY RoutingAssumption

(* The initial state satisfies the invariant. *)
THEOREM InitInv == Init => IInv
<1> SUFFICES ASSUME Init PROVE IInv
  OBVIOUS
<1> USE DEF Init, Manager!Init
<1>1. TypeOK
  <2>1. Manager!TypeOK
    BY DEF Manager!TypeOK
  <2>2. 0 \in 0..MaxQueries
    BY RoutingAssumption
  <2> QED BY <2>1, <2>2 DEF TypeOK
<1>2. StoresAndCalls
  BY QueryShape DEF StoresAndCalls
<1>3. FailureIsOwn /\ NoTenantNoPool
  BY QueryShape DEF FailureIsOwn, NoTenantNoPool
<1> QED BY <1>1, <1>2, <1>3 DEF IInv

(* Move and SignIn touch no request and no client. *)
LEMMA UsersInv ==
  ASSUME IInv, NEW u \in User, Move(u) \/ SignIn(u)
  PROVE  IInv'
<1>1. UNCHANGED <<manager, request>>
  BY DEF Move, SignIn
<1>2. member' \in [User -> Schema \cup {None}] /\ claim' \in [User -> Schema]
  BY DEF Move, SignIn, IInv, TypeOK
<1>3. TypeOK'
  BY <1>1, <1>2 DEF IInv, TypeOK, Manager!TypeOK, manager, request
<1>4. StoresAndCalls' /\ FailureIsOwn' /\ NoTenantNoPool'
  BY <1>1 DEF IInv, StoresAndCalls, FailureIsOwn, NoTenantNoPool, manager, request
<1> QED BY <1>3, <1>4 DEF IInv

(* a handler moves on or answers *)
LEMMA PcAndReply ==
  ASSUME TypeOK, NEW r \in Request,
         \/ \E label \in {"guard", "validated", "handler", "query"} : Goto(r, label)
         \/ \E code \in Codes : Answer(r, code)
  PROVE  /\ pc' \in [Request -> {"idle", "guard", "validated", "handler", "query", "done"}]
         /\ reply' \in [Request -> Codes \cup {None}]
         /\ \A q \in Request \ {r} : pc'[q] = pc[q]
  BY DEF Goto, Answer, TypeOK

(* Arrive keeps the invariant. *)
LEMMA ArriveInv ==
  ASSUME IInv, NEW r \in Request, Arrive(r)
  PROVE  IInv'
<1>1. /\ UNCHANGED <<manager, member, claim, row, store, turn, ran>> /\ pc[r] = "idle"
      /\ \/ Goto(r, "handler") /\ UNCHANGED user
         \/ Answer(r, 401) /\ UNCHANGED user
         \/ \E u \in User : user' = [user EXCEPT ![r] = u] /\ Goto(r, "guard")
  BY DEF Arrive
<1>2. /\ pc' \in [Request -> {"idle", "guard", "validated", "handler", "query", "done"}]
      /\ reply' \in [Request -> Codes \cup {None}]
      /\ \A q \in Request \ {r} : pc'[q] = pc[q]
  BY <1>1, PcAndReply DEF IInv, Codes
<1>3. /\ user' \in [Request -> User \cup {None}]
      /\ \A q \in Request \ {r} : user'[q] = user[q]
      /\ user[r] = None /\ row[r] = None
      /\ pc'[r] \notin {"idle", "validated", "query"}
      /\ pc'[r] = "guard" => user'[r] # None
  <2>1. user[r] = None /\ row[r] = None
    BY <1>1 DEF IInv, StoresAndCalls
  <2>2. CASE Goto(r, "handler") /\ UNCHANGED user
    BY <2>1, <2>2 DEF Goto, IInv, TypeOK
  <2>3. CASE Answer(r, 401) /\ UNCHANGED user
    BY <2>1, <2>3 DEF Answer, IInv, TypeOK
  <2>4. CASE \E u \in User : user' = [user EXCEPT ![r] = u] /\ Goto(r, "guard")
    BY <2>1, <2>4, NoneIsNothing DEF Goto, IInv, TypeOK
  <2> QED BY <1>1, <2>2, <2>3, <2>4
<1>4. TypeOK'
  BY <1>1, <1>2, <1>3 DEF IInv, TypeOK, Manager!TypeOK, manager
<1>5. StoresAndCalls'
  <2>1. ASSUME NEW q \in Request
        PROVE  /\ pc'[q] = "idle" => user'[q] = None
               /\ pc'[q] = "guard" => user'[q] # None
               /\ row[q] # None => user'[q] # None /\ pc'[q] \notin {"idle", "guard"}
               /\ pc'[q] = "validated" => row[q] # None
               /\ pc'[q] = "query" => turn[q] # 0
    BY <1>2, <1>3 DEF IInv, StoresAndCalls
  <2> QED BY <1>1, <2>1 DEF IInv, StoresAndCalls, manager
<1>6. FailureIsOwn'
  BY <1>1 DEF IInv, FailureIsOwn, manager
<1>7. NoTenantNoPool'
  <2>1. \A q \in Request : user'[q] = None => user[q] = None
    BY <1>3
  <2> QED BY <1>1, <2>1, QueryShape DEF IInv, NoTenantNoPool, manager
<1> QED BY <1>4, <1>5, <1>6, <1>7 DEF IInv

(* Return keeps the invariant, and so does any answer. *)
LEMMA AnswerInv ==
  ASSUME IInv, NEW r \in Request, NEW code \in Codes, Answer(r, code),
         UNCHANGED <<manager, member, claim, user, row, store, turn, ran>>,
         pc[r] \notin {"idle", "done"}
  PROVE  IInv'
<1>1. TypeOK'
  BY PcAndReply DEF IInv, TypeOK, Manager!TypeOK, manager
<1>2. StoresAndCalls'
  <2>1. ASSUME NEW q \in Request
        PROVE  /\ pc'[q] = "idle" => user[q] = None
               /\ pc'[q] = "guard" => user[q] # None
               /\ row[q] # None => user[q] # None /\ pc'[q] \notin {"idle", "guard"}
               /\ pc'[q] = "validated" => row[q] # None
               /\ pc'[q] = "query" => turn[q] # 0
    BY DEF Answer, IInv, TypeOK, StoresAndCalls
  <2> QED BY <2>1 DEF IInv, StoresAndCalls, manager
<1>3. FailureIsOwn' /\ NoTenantNoPool'
  BY DEF IInv, FailureIsOwn, NoTenantNoPool, manager
<1> QED BY <1>1, <1>2, <1>3 DEF IInv

(* FindUser: the row is read once, and no call was made before it. *)
LEMMA FindUserInv ==
  ASSUME IInv, NEW r \in Request, FindUser(r)
  PROVE  IInv'
<1>1. /\ pc[r] = "guard" /\ user[r] # None /\ row[r] = None /\ user[r] \in User
      /\ UNCHANGED <<manager, member, claim, user, store, turn, ran>>
  BY DEF FindUser, IInv, TypeOK, StoresAndCalls
<1>2. CASE \E code \in {401, 500} : Answer(r, code) /\ UNCHANGED row
  BY <1>1, <1>2, AnswerInv DEF Codes
<1>3. CASE /\ RowOf(user[r]) # None /\ row' = [row EXCEPT ![r] = RowOf(user[r])]
           /\ Goto(r, "validated")
  <2>1. /\ row' \in [Request -> Schema \cup {None}] /\ row'[r] # None
        /\ \A q \in Request \ {r} : row'[q] = row[q]
    BY <1>1, <1>3 DEF RowOf, IInv, TypeOK
  <2>2. /\ pc' \in [Request -> {"idle", "guard", "validated", "handler", "query", "done"}]
        /\ UNCHANGED reply /\ pc'[r] = "validated"
        /\ \A q \in Request \ {r} : pc'[q] = pc[q]
    BY <1>3 DEF Goto, IInv, TypeOK
  <2>3. TypeOK'
    BY <1>1, <2>1, <2>2 DEF IInv, TypeOK, Manager!TypeOK, manager
  <2>4. store[r] = None
    BY <1>1 DEF IInv, StoresAndCalls
  <2>5. ASSUME NEW q \in Query
        PROVE  /\ awaiting[q] # None => row'[q[1]] = row[q[1]]
               /\ ran[q] \in {None, row'[q[1]]}
               /\ call[q] = "error" => row'[q[1]] = row[q[1]]
    <3>1. q[1] \in Request
      BY QueryShape
    <3>2. CASE q[1] = r
      <4>1. awaiting[q] = None /\ ran[q] = None /\ call[q] = "idle"
        BY <1>1, <3>2 DEF IInv, StoresAndCalls
      <4> QED BY <4>1
    <3>3. CASE q[1] # r
      BY <2>1, <3>1, <3>3 DEF IInv, StoresAndCalls
    <3> QED BY <3>2, <3>3
  <2>6. StoresAndCalls'
    <3>1. ASSUME NEW q \in Request
          PROVE  /\ pc'[q] = "idle" => user[q] = None
                 /\ pc'[q] = "guard" => user[q] # None
                 /\ row'[q] # None => user[q] # None /\ pc'[q] \notin {"idle", "guard"}
                 /\ pc'[q] = "validated" => row'[q] # None
                 /\ pc'[q] = "query" => turn[q] # 0
                 /\ store[q] \in {None, row'[q]}
      BY <1>1, <2>1, <2>2, <2>4 DEF IInv, StoresAndCalls
    <3> QED BY <1>1, <2>5, <3>1 DEF IInv, StoresAndCalls, manager
  <2>7. FailureIsOwn'
    BY <1>1, <2>5 DEF IInv, FailureIsOwn, manager
  <2>8. NoTenantNoPool'
    BY <1>1 DEF IInv, NoTenantNoPool, manager
  <2> QED BY <2>3, <2>6, <2>7, <2>8 DEF IInv
<1> QED BY <1>2, <1>3 DEF FindUser

(* SetTenant keeps the invariant. *)
LEMMA SetTenantInv ==
  ASSUME IInv, NEW r \in Request, SetTenant(r)
  PROVE  IInv'
<1>1. /\ UNCHANGED <<manager, member, claim, user, row, turn, ran>> /\ UNCHANGED reply
      /\ store' \in [Request -> Schema \cup {None}] /\ store'[r] = row[r]
      /\ \A q \in Request \ {r} : store'[q] = store[q]
      /\ pc' \in [Request -> {"idle", "guard", "validated", "handler", "query", "done"}]
      /\ pc[r] = "validated" /\ pc'[r] = "handler"
      /\ \A q \in Request \ {r} : pc'[q] = pc[q]
  BY DEF SetTenant, Set, Goto, IInv, TypeOK
<1>2. TypeOK'
  BY <1>1 DEF IInv, TypeOK, Manager!TypeOK, manager
<1>3. StoresAndCalls'
  <2>1. ASSUME NEW q \in Request
        PROVE  /\ pc'[q] = "idle" => user[q] = None
               /\ pc'[q] = "guard" => user[q] # None
               /\ row[q] # None => user[q] # None /\ pc'[q] \notin {"idle", "guard"}
               /\ pc'[q] = "validated" => row[q] # None
               /\ pc'[q] = "query" => turn[q] # 0
               /\ store'[q] \in {None, row[q]}
    BY <1>1 DEF IInv, StoresAndCalls
  <2> QED BY <1>1, <2>1 DEF IInv, StoresAndCalls, manager
<1>4. FailureIsOwn' /\ NoTenantNoPool'
  BY <1>1 DEF IInv, FailureIsOwn, NoTenantNoPool, manager
<1> QED BY <1>2, <1>3, <1>4 DEF IInv

(* A call that has not been made has no Promise and names no schema, so    *)
(* nobody waits for it and the Map does not hold it.                       *)
LEMMA IdleCall ==
  ASSUME IInv, NEW q \in Query, call[q] = "idle"
  PROVE  /\ schema[q] = None /\ awaiting[q] = None /\ promise[q] = "none"
         /\ \A x \in Query : awaiting[x] # q
         /\ \A s \in Schema : clients[s] # q
<1>1. schema[q] = None /\ awaiting[q] = None /\ promise[q] = "none"
  BY DEF IInv, StoresAndCalls
<1>2. \A x \in Query : awaiting[x] # q
  BY <1>1, NoneIsNothing DEF IInv, StoresAndCalls
<1>3. \A s \in Schema : clients[s] # q
  BY <1>1, NoneIsNothing DEF IInv, StoresAndCalls
<1> QED BY <1>1, <1>2, <1>3

(* what a call leaves: its Promise is for the schema it named *)
LEMMA CallMade ==
  ASSUME IInv, NEW q \in Query, NEW s \in Schema, Manager!GetClient(q, s)
  PROVE  /\ call[q] = "idle" /\ call' = [call EXCEPT ![q] = "waiting"]
         /\ schema' = [schema EXCEPT ![q] = s]
         /\ awaiting'[q] \in Query /\ schema'[awaiting'[q]] = s
         /\ \A x \in Query \ {q} : awaiting'[x] = awaiting[x] /\ promise'[x] = promise[x]
         /\ \A t \in Schema : clients'[t] = clients[t] \/ (t = s /\ clients'[t] = q)
         /\ Manager!TypeOK'
<1>1. /\ call[q] = "idle" /\ call' = [call EXCEPT ![q] = "waiting"]
      /\ schema' = [schema EXCEPT ![q] = s] /\ UNCHANGED <<closing, destroyed>>
      /\ \/ /\ clients[s] # None
            /\ awaiting' = [awaiting EXCEPT ![q] = clients[s]]
            /\ UNCHANGED <<clients, promise>>
         \/ /\ clients[s] = None
            /\ awaiting' = [awaiting EXCEPT ![q] = q]
            /\ promise' = [promise EXCEPT ![q] = "connecting"]
            /\ clients' = [clients EXCEPT ![s] = q]
  BY DEF Manager!GetClient, Manager!Cached, Manager!Remember
<1>2. Manager!TypeOK
  BY DEF IInv, TypeOK
<1>3. CASE /\ clients[s] # None
           /\ awaiting' = [awaiting EXCEPT ![q] = clients[s]]
           /\ UNCHANGED <<clients, promise>>
  <2>1. clients[s] \in Query /\ clients[s] # q /\ schema[clients[s]] = s
    BY <1>1, <1>2, <1>3, IdleCall DEF Manager!TypeOK, IInv, StoresAndCalls
  <2>2. Manager!TypeOK'
    BY <1>1, <1>2, <1>3, <2>1 DEF Manager!TypeOK
  <2> QED BY <1>1, <1>2, <1>3, <2>1, <2>2 DEF Manager!TypeOK
<1>4. CASE /\ clients[s] = None
           /\ awaiting' = [awaiting EXCEPT ![q] = q]
           /\ promise' = [promise EXCEPT ![q] = "connecting"]
           /\ clients' = [clients EXCEPT ![s] = q]
  <2>1. Manager!TypeOK'
    BY <1>1, <1>2, <1>4 DEF Manager!TypeOK
  <2> QED BY <1>1, <1>2, <1>4, <2>1 DEF Manager!TypeOK
<1> QED BY <1>1, <1>3, <1>4

(* Use: the call is for the schema in the store, which is that of the row. *)
LEMMA UseInv ==
  ASSUME IInv, NEW r \in Request, Use(r)
  PROVE  IInv'
<1>1. /\ pc[r] = "handler" /\ turn[r] < MaxQueries
      /\ UNCHANGED <<member, claim, user, row, store, ran>>
  BY DEF Use
<1>2. CASE store[r] = None /\ Answer(r, 500) /\ UNCHANGED <<manager, turn>>
  BY <1>1, <1>2, AnswerInv DEF Codes
<1>3. CASE /\ store[r] # None
           /\ turn' = [turn EXCEPT ![r] = @ + 1]
           /\ Manager!GetClient(<<r, turn'[r]>>, store[r])
           /\ Goto(r, "query")
  <2> DEFINE q == <<r, turn'[r]>>
             s == store[r]
  <2>1. /\ turn' \in [Request -> 0..MaxQueries] /\ turn'[r] \in 1..MaxQueries
        /\ \A o \in Request : turn[o] <= turn'[o]
    BY <1>1, <1>3, RoutingAssumption DEF IInv, TypeOK
  <2>2. q \in Query /\ q[1] = r /\ q[2] = turn'[r]
    BY <2>1 DEF Query
  <2>3. s \in Schema /\ row[r] = s /\ user[r] # None
    BY <1>3 DEF IInv, TypeOK, StoresAndCalls
  <2>4. Manager!GetClient(q, s)
    BY <1>3
  <2>5. /\ pc' \in [Request -> {"idle", "guard", "validated", "handler", "query", "done"}]
        /\ UNCHANGED reply /\ pc'[r] = "query"
        /\ \A o \in Request \ {r} : pc'[o] = pc[o]
    BY <1>3 DEF Goto, IInv, TypeOK
  <2> HIDE DEF q, s
  <2>6. /\ call[q] = "idle" /\ call' = [call EXCEPT ![q] = "waiting"]
        /\ schema' = [schema EXCEPT ![q] = s]
        /\ awaiting'[q] \in Query /\ schema'[awaiting'[q]] = s
        /\ \A x \in Query \ {q} : awaiting'[x] = awaiting[x] /\ promise'[x] = promise[x]
        /\ \A t \in Schema : clients'[t] = clients[t] \/ (t = s /\ clients'[t] = q)
        /\ Manager!TypeOK'
    BY <2>2, <2>3, <2>4, CallMade
  <2>7. TypeOK'
    BY <1>1, <2>1, <2>5, <2>6 DEF IInv, TypeOK
  <2>8. /\ call'[q] = "waiting" /\ schema'[q] = s /\ awaiting'[q] # None
        /\ ran[q] \in {None, row[r]}
        /\ \A x \in Query \ {q} : call'[x] = call[x] /\ schema'[x] = schema[x]
    BY <2>2, <2>6, NoneIsNothing DEF IInv, TypeOK, Manager!TypeOK, StoresAndCalls
  <2>9. \A x \in Query : awaiting[x] # q
    BY <2>2, <2>6, IdleCall
  <2>10. ASSUME NEW x \in Query
         PROVE  /\ call'[x] = "idle" => schema'[x] = None
                /\ call'[x] = "idle" <=> awaiting'[x] = None
                /\ call'[x] # "idle" => x[2] <= turn'[x[1]]
                /\ awaiting'[x] # None => /\ row[x[1]] # None
                                         /\ schema'[x] = row[x[1]]
                                         /\ schema'[awaiting'[x]] = row[x[1]]
                /\ promise'[x] # "none" => awaiting'[x] # None
    <3>1. CASE x = q
      BY <3>1, <2>1, <2>2, <2>3, <2>6, <2>8, NoneIsNothing
    <3>2. CASE x # q
      <4>1. /\ call'[x] = call[x] /\ schema'[x] = schema[x]
            /\ awaiting'[x] = awaiting[x] /\ promise'[x] = promise[x]
        BY <3>2, <2>6, <2>8
      <4>2. awaiting[x] # None => schema'[awaiting[x]] = schema[awaiting[x]]
        BY <2>8, <2>9 DEF IInv, TypeOK, Manager!TypeOK
      <4>3. x[1] \in Request /\ x[2] \in Nat /\ turn[x[1]] <= turn'[x[1]]
        BY <2>1, QueryShape
      <4>4. turn[x[1]] \in Nat /\ turn'[x[1]] \in Nat
        BY <4>3, <2>1 DEF IInv, TypeOK
      <4>5. call[x] # "idle" => x[2] <= turn'[x[1]]
        BY <4>3, <4>4 DEF IInv, StoresAndCalls
      <4> QED BY <4>1, <4>2, <4>5 DEF IInv, StoresAndCalls
    <3> QED BY <3>1, <3>2
  <2>11. \A t \in Schema : clients'[t] # None => schema'[clients'[t]] = t
    <3> SUFFICES ASSUME NEW t \in Schema, clients'[t] # None PROVE schema'[clients'[t]] = t
      OBVIOUS
    <3>1. CASE t = s /\ clients'[t] = q
      BY <3>1, <2>8
    <3>2. CASE clients'[t] = clients[t]
      <4>1. clients[t] \in Query \ {q} /\ schema[clients[t]] = t
        BY <3>2, <2>2, <2>6, IdleCall DEF IInv, TypeOK, Manager!TypeOK, StoresAndCalls
      <4> QED BY <3>2, <4>1, <2>8
    <3> QED BY <3>1, <3>2, <2>6
  <2>12. StoresAndCalls'
    <3>1. ASSUME NEW o \in Request
          PROVE  /\ pc'[o] = "idle" => user[o] = None
                 /\ pc'[o] = "guard" => user[o] # None
                 /\ row[o] # None => user[o] # None /\ pc'[o] \notin {"idle", "guard"}
                 /\ pc'[o] = "validated" => row[o] # None
                 /\ pc'[o] = "query" => turn'[o] # 0
      BY <1>1, <2>1, <2>5 DEF IInv, StoresAndCalls, TypeOK
    <3> QED BY <1>1, <2>10, <2>11, <3>1 DEF IInv, StoresAndCalls
  <2>13. FailureIsOwn'
    <3> SUFFICES ASSUME NEW x \in Query, call'[x] = "error"
                 PROVE  promise'[awaiting'[x]] = "rejected" /\ schema'[awaiting'[x]] = row[x[1]]
      BY <1>1 DEF FailureIsOwn
    <3>1. x # q /\ call[x] = "error"
      BY <2>8
    <3>2. awaiting'[x] = awaiting[x] /\ awaiting[x] \in Query \ {q}
      BY <3>1, <2>6, <2>9 DEF IInv, StoresAndCalls, TypeOK, Manager!TypeOK
    <3> QED BY <3>1, <3>2, <2>6, <2>8 DEF IInv, FailureIsOwn
  <2>14. NoTenantNoPool'
    <3> SUFFICES ASSUME NEW x \in Query, user[x[1]] = None
                 PROVE  call'[x] = "idle" /\ promise'[x] = "none" /\ ran[x] = None
      BY <1>1 DEF NoTenantNoPool
    <3>1. x # q
      BY <2>2, <2>3
    <3> QED BY <3>1, <2>6, <2>8 DEF IInv, NoTenantNoPool
  <2> QED BY <2>7, <2>12, <2>13, <2>14 DEF IInv
<1> QED BY <1>2, <1>3 DEF Use

(* The resumed caller has a client of its own schema, or its own error.    *)
LEMMA RunQueryInv ==
  ASSUME IInv, NEW r \in Request, RunQuery(r)
  PROVE  IInv'
<1> DEFINE q == <<r, turn[r]>>
<1>1. /\ pc[r] = "query" /\ turn[r] \in 1..MaxQueries
      /\ UNCHANGED <<member, claim, user, row, store, turn>>
  <2>1. turn[r] \in 0..MaxQueries /\ turn[r] # 0 /\ MaxQueries \in Nat
    BY RoutingAssumption DEF RunQuery, IInv, StoresAndCalls, TypeOK
  <2> QED BY <2>1 DEF RunQuery
<1>2. q \in Query /\ q[1] = r
  BY <1>1 DEF Query
<1>3. /\ call[q] = "waiting" /\ UNCHANGED <<clients, schema, awaiting, closing, destroyed>>
      /\ call' = [call EXCEPT ![q] = IF promise[awaiting[q]] = "rejected" THEN "error" ELSE "client"]
      /\ \/ call'[q] = "error" /\ Answer(r, 500) /\ UNCHANGED ran
         \/ /\ call'[q] = "client"
            /\ \/ Answer(r, 500) /\ UNCHANGED ran
               \/ Goto(r, "handler") /\ ran' = [ran EXCEPT ![q] = schema[awaiting[q]]]
      /\ \/ UNCHANGED promise
         \/ /\ promise[awaiting[q]] = "closed"
            /\ promise' = [promise EXCEPT ![awaiting[q]] = "reopened"]
  BY DEF RunQuery, Manager!Resume
<1> HIDE DEF q
<1>4. /\ awaiting[q] \in Query /\ row[r] \in Schema
      /\ schema[awaiting[q]] = row[r] /\ user[r] # None
  BY <1>2, <1>3, NoneIsNothing DEF IInv, StoresAndCalls, TypeOK, Manager!TypeOK
<1>5. /\ pc' \in [Request -> {"idle", "guard", "validated", "handler", "query", "done"}]
      /\ reply' \in [Request -> Codes \cup {None}] /\ pc'[r] \in {"handler", "done"}
      /\ \A o \in Request \ {r} : pc'[o] = pc[o]
  <2>1. 500 \in Codes
    BY DEF Codes
  <2>2. CASE Answer(r, 500)
    BY <2>1, <2>2 DEF Answer, IInv, TypeOK
  <2>3. CASE Goto(r, "handler")
    BY <2>3 DEF Goto, IInv, TypeOK
  <2> QED BY <1>3, <2>2, <2>3
<1>6. /\ ran' \in [Query -> Schema \cup {None}] /\ ran'[q] \in {None, row[r]}
      /\ \A x \in Query \ {q} : ran'[x] = ran[x]
  BY <1>2, <1>3, <1>4 DEF IInv, TypeOK, StoresAndCalls
<1>7. /\ call'[q] \in {"client", "error"} /\ \A x \in Query \ {q} : call'[x] = call[x]
      /\ call' \in [Query -> {"idle", "waiting", "client", "error"}]
      /\ call'[q] = "error" => promise[awaiting[q]] = "rejected"
  BY <1>2, <1>3 DEF IInv, TypeOK, Manager!TypeOK
<1>8. /\ promise' \in [Query -> {"none", "connecting", "open", "failed", "rejected",
                                "closed", "reopened"}]
       /\ \A x \in Query : /\ promise'[x] = "none" <=> promise[x] = "none"
                           /\ promise'[x] = "rejected" <=> promise[x] = "rejected"
  BY <1>3, <1>4 DEF IInv, TypeOK, Manager!TypeOK
<1>9. TypeOK'
  BY <1>1, <1>3, <1>5, <1>6, <1>7, <1>8 DEF IInv, TypeOK, Manager!TypeOK
<1>10. StoresAndCalls'
  <2>1. ASSUME NEW o \in Request
        PROVE  /\ pc'[o] = "idle" => user[o] = None
               /\ pc'[o] = "guard" => user[o] # None
               /\ row[o] # None => user[o] # None /\ pc'[o] \notin {"idle", "guard"}
               /\ pc'[o] = "validated" => row[o] # None
               /\ pc'[o] = "query" => turn[o] # 0
    BY <1>5 DEF IInv, StoresAndCalls
  <2>2. ASSUME NEW x \in Query
        PROVE  /\ call'[x] = "idle" <=> call[x] = "idle"
               /\ ran'[x] \in {None, row[x[1]]}
    BY <1>2, <1>3, <1>6, <1>7 DEF IInv, StoresAndCalls
  <2> QED BY <1>1, <1>3, <1>8, <2>1, <2>2 DEF IInv, StoresAndCalls
<1>11. FailureIsOwn'
  <2> SUFFICES ASSUME NEW x \in Query, call'[x] = "error"
               PROVE  promise'[awaiting[x]] = "rejected" /\ schema[awaiting[x]] = row[x[1]]
    BY <1>1, <1>3, <1>4, <1>8 DEF FailureIsOwn
  <2>1. CASE x = q
    BY <2>1, <1>2, <1>4, <1>7, <1>8
  <2>2. CASE x # q
    <3>1. call[x] = "error" /\ promise[awaiting[x]] = "rejected"
          /\ schema[awaiting[x]] = row[x[1]]
      BY <2>2, <1>7 DEF IInv, FailureIsOwn
    <3>2. awaiting[x] \in Query
      BY <3>1 DEF IInv, StoresAndCalls, TypeOK, Manager!TypeOK
    <3> QED BY <1>8, <3>1, <3>2
  <2> QED BY <2>1, <2>2
<1>12. NoTenantNoPool'
  <2> SUFFICES ASSUME NEW x \in Query, user[x[1]] = None
               PROVE  call'[x] = "idle" /\ promise[x] = "none" /\ ran'[x] = None
    BY <1>1, <1>3, <1>8 DEF NoTenantNoPool
  <2>1. x # q
    BY <1>2, <1>4
  <2> QED BY <2>1, <1>6, <1>7 DEF IInv, NoTenantNoPool
<1> QED BY <1>9, <1>10, <1>11, <1>12 DEF IInv

(* The turns of the manager change no call: the Map may lose a Promise,    *)
(* and a Promise that has rejected stays so.                               *)
LEMMA ManagerInv ==
  ASSUME IInv, UNCHANGED <<member, claim, request, schema, awaiting, call>>,
         Manager!TypeOK',
         \A s \in Schema : clients'[s] \in {None, clients[s]},
         \A q \in Query : /\ promise[q] = "rejected" => promise'[q] = "rejected"
                          /\ promise[q] = "none" => promise'[q] = "none"
  PROVE  IInv'
<1>1. TypeOK'
  BY DEF IInv, TypeOK, request
<1>2. StoresAndCalls'
  BY DEF IInv, StoresAndCalls, request
<1>3. FailureIsOwn'
  BY DEF IInv, FailureIsOwn, StoresAndCalls, TypeOK, Manager!TypeOK, request
<1>4. NoTenantNoPool'
  BY DEF IInv, NoTenantNoPool, request
<1> QED BY <1>1, <1>2, <1>3, <1>4 DEF IInv

(* ConnectSettles, Evict and Disconnect keep the invariant. *)
LEMMA ManagerTurnInv ==
  ASSUME IInv, NEW p \in Query, ManagerTurn(p)
  PROVE  IInv'
<1>1. Manager!TypeOK
  BY DEF IInv, TypeOK
<1>2. CASE Manager!ConnectSettles(p)
  <2>1. /\ UNCHANGED <<clients, schema, awaiting, call>> /\ Manager!TypeOK'
        /\ promise[p] = "connecting" /\ \A q \in Query \ {p} : promise'[q] = promise[q]
    BY <1>1, <1>2 DEF Manager!ConnectSettles, Manager!TypeOK
  <2> QED BY <2>1, ManagerInv DEF ManagerTurn
<1>3. CASE Manager!Evict(p)
  <2>1. /\ UNCHANGED <<schema, awaiting, call>>
        /\ promise[p] = "failed" /\ \A q \in Query \ {p} : promise'[q] = promise[q]
    BY <1>1, <1>3 DEF Manager!Evict, Manager!TypeOK
  <2>2. \A s \in Schema : clients'[s] \in {None, clients[s]}
    BY <1>1, <1>3 DEF Manager!Evict, Manager!Forget, Manager!TypeOK
  <2>3. Manager!TypeOK'
    <3>1. clients' \in [Schema -> Query \cup {None}]
      BY <1>1, <1>3 DEF Manager!Evict, Manager!Forget, Manager!TypeOK
    <3> QED BY <1>1, <1>3, <3>1 DEF Manager!Evict, Manager!TypeOK
  <2> QED BY <2>1, <2>2, <2>3, ManagerInv, <1>3 DEF ManagerTurn
<1>4. CASE Manager!Disconnect(p)
  <2>1. /\ UNCHANGED <<clients, schema, awaiting, call>> /\ Manager!TypeOK'
        /\ promise[p] \in {"open", "rejected"}
        /\ promise[p] = "rejected" => promise'[p] = "rejected"
        /\ \A q \in Query \ {p} : promise'[q] = promise[q]
    BY <1>1, <1>4 DEF Manager!Disconnect, Manager!Settles, Manager!TypeOK
  <2> QED BY <2>1, ManagerInv DEF ManagerTurn
<1> QED BY <1>2, <1>3, <1>4 DEF ManagerTurn

(* Destroy empties the Map and nothing else. *)
LEMMA DestroyInv ==
  ASSUME IInv, Destroy
  PROVE  IInv'
<1>1. /\ UNCHANGED <<member, claim, request, schema, awaiting, call, promise>>
      /\ clients' = [s \in Schema |-> None] /\ destroyed' = TRUE
      /\ closing' = {clients[s] : s \in Schema} \ {None}
  BY DEF Destroy, Manager!Destroy, Manager!ToClose
<1>2. Manager!TypeOK'
  BY <1>1 DEF IInv, TypeOK, Manager!TypeOK
<1> QED BY <1>1, <1>2, ManagerInv

(* Every step keeps the invariant: a lemma for each action. *)
THEOREM StepInv == IInv /\ [Next]_vars => IInv'
<1> SUFFICES ASSUME IInv, [Next]_vars PROVE IInv'
  OBVIOUS
<1>1. CASE UNCHANGED vars
  BY <1>1 DEF vars, manager, request, IInv, TypeOK, Manager!TypeOK, StoresAndCalls,
              FailureIsOwn, NoTenantNoPool
<1>2. ASSUME NEW r \in Request, Return(r) PROVE IInv'
  BY <1>2, AnswerInv DEF Return, Codes
<1>3. ASSUME NEW r \in Request, Arrive(r) \/ Serve(r) PROVE IInv'
  BY <1>2, <1>3, ArriveInv, FindUserInv, SetTenantInv, UseInv, RunQueryInv DEF Serve
<1> QED BY <1>1, <1>3, UsersInv, ManagerTurnInv, DestroyInv DEF Next, Rest

(* So it holds in every reachable state. *)
THEOREM Inductive == Spec => []IInv
  BY InitInv, StepInv, PTL DEF Spec

(* A query is refused only by a failed connect to the schema of its own    *)
(* tenant (prisma-client-manager.service.ts:41-50): for any number of      *)
(* tenants that Postgres does not serve, the others go on.                 *)
THEOREM FailuresStayHome == Spec => []FailureIsOwn
<1>1. IInv => FailureIsOwn
  BY DEF IInv
<1> QED BY <1>1, Inductive, PTL

(* Without a tenant in its context a request neither runs a query nor      *)
(* opens a pool (tenant-context.service.ts:33-41).                         *)
THEOREM NoTenantNoQuery == Spec => []NoTenantNoPool
<1>1. IInv => NoTenantNoPool
  BY DEF IInv
<1> QED BY <1>1, Inductive, PTL

(* a step that changes none of the variables of TenantAccess *)
LEMMA Stutter ==
  ASSUME UNCHANGED <<member, user, row, ran>>
  PROVE  UNCHANGED Access!vars
  BY DEF Access!vars

(* In the beginning nobody has touched anything. *)
LEMMA InitImplements == Init => Access!Init
<1> SUFFICES ASSUME Init PROVE Access!Init
  OBVIOUS
<1>1. \A r \in Request : {ran[q] : q \in {r} \X (1..MaxQueries)} \ {None} = {}
  <2> SUFFICES ASSUME NEW r \in Request, NEW q \in {r} \X (1..MaxQueries) PROVE ran[q] = None
    OBVIOUS
  <2>1. q \in Query
    BY DEF Query
  <2> QED BY <2>1 DEF Init
<1> QED BY <1>1 DEF Init, Access!Init

(* Arrive sends a request, or a request nobody has sent. *)
LEMMA ArriveImplements ==
  ASSUME IInv, NEW r \in Request, Arrive(r)
  PROVE  [Access!Next]_Access!vars
<1>1. user[r] = None /\ UNCHANGED <<member, row, ran>>
  BY DEF Arrive, IInv, StoresAndCalls
<1>2. CASE UNCHANGED user
  BY <1>1, <1>2, Stutter
<1>3. CASE \E u \in User : user' = [user EXCEPT ![r] = u]
  <2>1. Access!Send(r)
    BY <1>1, <1>3 DEF Access!Send
  <2> QED BY <2>1 DEF Access!Next
<1> QED BY <1>2, <1>3 DEF Arrive

(* FindUser grants the schema of the row, as it is now. *)
LEMMA FindUserImplements ==
  ASSUME IInv, NEW r \in Request, FindUser(r)
  PROVE  [Access!Next]_Access!vars
<1>1. user[r] # None /\ row[r] = None /\ UNCHANGED <<member, user, ran>>
  BY DEF FindUser, IInv, StoresAndCalls
<1>2. CASE UNCHANGED row
  BY <1>1, <1>2, Stutter
<1>3. CASE member[user[r]] # None /\ row' = [row EXCEPT ![r] = member[user[r]]]
  <2>1. Access!Grant(r)
    BY <1>1, <1>3 DEF Access!Grant
  <2> QED BY <2>1 DEF Access!Next
<1> QED BY <1>2, <1>3 DEF FindUser, RowOf

(* RunQuery touches the schema of the row, and no other. *)
LEMMA RunQueryImplements ==
  ASSUME IInv, NEW r \in Request, RunQuery(r)
  PROVE  [Access!Next]_Access!vars
<1> DEFINE q == <<r, turn[r]>>
<1>1. UNCHANGED <<member, user, row>> /\ turn[r] \in 1..MaxQueries
  <2>1. turn[r] \in 0..MaxQueries /\ turn[r] # 0 /\ MaxQueries \in Nat
    BY RoutingAssumption DEF RunQuery, IInv, StoresAndCalls, TypeOK
  <2> QED BY <2>1 DEF RunQuery
<1>2. q \in Query /\ q \in {r} \X (1..MaxQueries) /\ q[1] = r
  BY <1>1 DEF Query
<1>3. CASE UNCHANGED ran
  BY <1>1, <1>3, Stutter
<1>4. CASE ran' = [ran EXCEPT ![q] = schema[awaiting[q]]]
  <2>1. call[q] = "waiting"
    BY DEF RunQuery, Manager!Resume
  <2> HIDE DEF q
  <2>2. schema[awaiting[q]] = row[r] /\ row[r] # None
    BY <1>2, <2>1 DEF IInv, StoresAndCalls
  <2>3. ran'[q] = row[r] /\ ran[q] \in {None, row[r]}
        /\ \A x \in Query \ {q} : ran'[x] = ran[x]
    BY <1>2, <1>4, <2>2 DEF IInv, StoresAndCalls, TypeOK
  <2> DEFINE T(o) == {ran[x] : x \in {o} \X (1..MaxQueries)} \ {None}
             U(o) == {ran'[x] : x \in {o} \X (1..MaxQueries)} \ {None}
  <2>4. \A o \in Request : \A x \in {o} \X (1..MaxQueries) : x \in Query /\ x[1] = o
    BY DEF Query
  <2>5. U(r) = T(r) \cup {row[r]}
    <3>1. ASSUME NEW v \in U(r) PROVE v \in T(r) \cup {row[r]}
      <4>1. PICK x \in {r} \X (1..MaxQueries) : v = ran'[x]
        OBVIOUS
      <4> QED BY <4>1, <2>3, <2>4
    <3>2. ASSUME NEW v \in T(r) PROVE v \in U(r)
      <4>1. PICK x \in {r} \X (1..MaxQueries) : v = ran[x]
        OBVIOUS
      <4>2. CASE x = q
        BY <4>1, <4>2, <2>3
      <4>3. CASE x # q
        BY <4>1, <4>3, <2>3, <2>4
      <4> QED BY <4>2, <4>3
    <3>3. row[r] \in U(r)
      BY <1>2, <2>2, <2>3
    <3> QED BY <3>1, <3>2, <3>3
  <2>6. \A o \in Request \ {r} : U(o) = T(o)
    <3> SUFFICES ASSUME NEW o \in Request \ {r} PROVE U(o) = T(o)
      OBVIOUS
    <3>1. \A x \in {o} \X (1..MaxQueries) : ran'[x] = ran[x]
      BY <1>2, <2>3, <2>4
    <3> QED BY <3>1
  <2>7. [o \in Request |-> U(o)]
          = [[o \in Request |-> T(o)] EXCEPT ![r] = @ \cup {row[r]}]
    <3> HIDE DEF T, U
    <3> QED BY <2>5, <2>6
  <2>8. Access!Touch(r)
    BY <1>1, <2>2, <2>7 DEF Access!Touch
  <2> QED BY <2>8 DEF Access!Next
<1> QED BY <1>3, <1>4 DEF RunQuery

(* Every step is a step of TenantAccess, or none. *)
THEOREM StepImplements == IInv /\ [Next]_vars => [Access!Next]_Access!vars
<1> SUFFICES ASSUME IInv, [Next]_vars PROVE [Access!Next]_Access!vars
  OBVIOUS
<1>1. CASE UNCHANGED vars
  BY <1>1, Stutter DEF vars, request
<1>2. ASSUME NEW u \in User, Move(u) PROVE [Access!Next]_Access!vars
  <2>1. Access!Move(u)
    BY <1>2 DEF Move, request, Access!Move
  <2> QED BY <2>1 DEF Access!Next
<1>3. ASSUME NEW u \in User, SignIn(u) PROVE [Access!Next]_Access!vars
  BY <1>3, Stutter DEF SignIn, request
<1>4. ASSUME NEW r \in Request, SetTenant(r) \/ Use(r) \/ Return(r)
      PROVE  [Access!Next]_Access!vars
  BY <1>4, Stutter DEF SetTenant, Use, Return
<1>5. ASSUME NEW q \in Query, ManagerTurn(q) PROVE [Access!Next]_Access!vars
  BY <1>5, Stutter DEF ManagerTurn, request
<1>6. CASE Destroy
  BY <1>6, Stutter DEF Destroy, request
<1>7. ASSUME NEW r \in Request, Serve(r) PROVE [Access!Next]_Access!vars
  BY <1>4, <1>7, FindUserImplements, RunQueryImplements DEF Serve
<1> QED BY <1>1, <1>2, <1>3, <1>5, <1>6, <1>7, ArriveImplements DEF Next, Rest

(* Tenant isolation: whatever tokens say, whoever is served in between and *)
(* whichever client is cached, a request is granted the schema its user    *)
(* belongs to when validate reads the row (jwt.strategy.ts:29-47), and its *)
(* queries run there or nowhere (tenant-prisma.service.ts:69-76).          *)
THEOREM ImplementsAccess == Spec => AccessSpec
  BY InitImplements, StepImplements, Inductive, PTL
     DEF Spec, AccessSpec, Access!Spec
-----------------------------------------------------------------------------
(* The client manager behind the queries *)

(* what ClientManagerProofs says of a manager, for the one of TenantRouting *)
ManagerFacts == INSTANCE ClientManagerProofs WITH Call <- Query, Safe <- Schema, pc <- call

(* a query of a request in flight is a call of the manager *)
LEMMA QueryOf ==
  ASSUME NEW r \in Request, NEW n \in 0..MaxQueries, n # 0
  PROVE  <<r, n>> \in Query
<1>1. MaxQueries \in Nat
  BY RoutingAssumption
<1>2. n \in 1..MaxQueries
  BY <1>1
<1> QED BY <1>2 DEF Query

(* Every use of this.prisma is one call of getClient, awaited once, and    *)
(* nothing else touches the manager: it does what ClientManager says,      *)
(* whoever the users are and wherever they are moved.                      *)
THEOREM ManagerHolds == Spec => Manager!Spec
<1>1. Init => Manager!Init
  BY DEF Init
<1>2. IInv /\ [Next]_vars => [Manager!Next]_Manager!vars
  <2> SUFFICES ASSUME IInv, [Next]_vars PROVE [Manager!Next]_Manager!vars
    OBVIOUS
  <2>1. UNCHANGED manager => UNCHANGED Manager!vars
    BY DEF manager, Manager!vars
  <2>2. CASE UNCHANGED vars
    BY <2>1, <2>2 DEF vars
  <2>3. ASSUME NEW r \in Request, Use(r) PROVE [Manager!Next]_Manager!vars
    <3>1. CASE store[r] # None /\ turn' = [turn EXCEPT ![r] = @ + 1]
               /\ Manager!GetClient(<<r, turn'[r]>>, store[r])
      <4>1. turn[r] \in 0..MaxQueries /\ MaxQueries \in Nat /\ turn'[r] = turn[r] + 1
        BY <3>1, RoutingAssumption DEF IInv, TypeOK
      <4>2. turn[r] + 1 \in 0..MaxQueries /\ turn[r] + 1 # 0
        BY <2>3, <4>1 DEF Use
      <4>3. <<r, turn'[r]>> \in Query
        BY <4>1, <4>2, QueryOf
      <4>4. store[r] \in Schema
        BY <3>1 DEF IInv, TypeOK
      <4> QED BY <3>1, <4>3, <4>4 DEF Manager!Next
    <3> QED BY <2>1, <2>3, <3>1 DEF Use
  <2>4. ASSUME NEW r \in Request, RunQuery(r) PROVE [Manager!Next]_Manager!vars
    <3>1. turn[r] \in 0..MaxQueries /\ turn[r] # 0
      BY <2>4 DEF RunQuery, IInv, TypeOK, StoresAndCalls
    <3>2. <<r, turn[r]>> \in Query /\ Manager!Resume(<<r, turn[r]>>)
      BY <2>4, <3>1, QueryOf DEF RunQuery
    <3> QED BY <3>2 DEF Manager!Next
  <2>5. ASSUME NEW q \in Query, ManagerTurn(q) PROVE [Manager!Next]_Manager!vars
    BY <2>5 DEF ManagerTurn, Manager!Next
  <2>6. CASE Destroy
    BY <2>6 DEF Destroy, Manager!Next
  <2>7. ASSUME NEW u \in User, Move(u) \/ SignIn(u) PROVE [Manager!Next]_Manager!vars
    BY <2>1, <2>7 DEF Move, SignIn
  <2>8. ASSUME NEW r \in Request, Arrive(r) \/ FindUser(r) \/ SetTenant(r) \/ Return(r)
        PROVE  [Manager!Next]_Manager!vars
    BY <2>1, <2>8 DEF Arrive, FindUser, SetTenant, Return
  <2> QED BY <2>2, <2>3, <2>4, <2>5, <2>6, <2>7, <2>8 DEF Next, Rest, Serve
<1> QED BY <1>1, <1>2, Inductive, PTL DEF Spec, Manager!Spec

(* the two instances of ClientManager are the same *)
LEMMA SameManager ==
  /\ Manager!Init => ManagerFacts!Init
  /\ [Manager!Next]_Manager!vars => [ManagerFacts!Next]_ManagerFacts!vars
  /\ ManagerFacts!IInv => Manager!IInv
<1>1. Manager!Init => ManagerFacts!Init
  BY DEF Manager!Init, ManagerFacts!Init
<1>2. [Manager!Next]_Manager!vars => [ManagerFacts!Next]_ManagerFacts!vars
  BY DEF
      Manager!Next, ManagerFacts!Next, Manager!GetClient, ManagerFacts!GetClient,
      Manager!Resume, ManagerFacts!Resume, Manager!ConnectSettles,
      ManagerFacts!ConnectSettles, Manager!Evict, ManagerFacts!Evict,
      Manager!Disconnect, ManagerFacts!Disconnect, Manager!Destroy,
      ManagerFacts!Destroy, Manager!Rest, ManagerFacts!Rest, Manager!vars,
      ManagerFacts!vars, Manager!Cached, ManagerFacts!Cached, Manager!Remember,
      ManagerFacts!Remember, Manager!Forget, ManagerFacts!Forget, Manager!Settled,
      ManagerFacts!Settled, Manager!ToClose, ManagerFacts!ToClose, Manager!Settles,
      ManagerFacts!Settles
<1>3. ManagerFacts!IInv => Manager!IInv
  BY DEF Manager!IInv, ManagerFacts!IInv, Manager!TypeOK, ManagerFacts!TypeOK,
         Manager!NoOrphan, ManagerFacts!NoOrphan, Manager!Pool, ManagerFacts!Pool,
         Manager!NoStaleRejection, ManagerFacts!NoStaleRejection,
         Manager!OwnSchema, ManagerFacts!OwnSchema
<1> QED BY <1>1, <1>2, <1>3

(* the invariant of ClientManager holds here *)
LEMMA ManagerInductive == Spec => []Manager!IInv
<1>1. ManagerFacts!Spec => []ManagerFacts!IInv
  BY ManagerFacts!Inductive, NoneIsNothing DEF ManagerFacts!ClientManagerAssumption
<1> QED BY <1>1, SameManager, ManagerHolds, PTL DEF Manager!Spec, ManagerFacts!Spec

(* The requests of a tenant share its one pool.  Until the shutdown the    *)
(* Map holds every pool there is, although users come, go and move while   *)
(* connects fail; from then on a pool is in the Map, is about to be        *)
(* disconnected, or has been and was connected again by a query of a       *)
(* request still served (prisma-client-manager.service.ts:19-23, :41-65).  *)
THEOREM TenantsSharePools ==
  Spec => [](/\ Manager!NoOrphan /\ Manager!OnePoolPerSchema
             /\ ~destroyed => \A p \in Query : Manager!Pool(p) => clients[schema[p]] = p)
<1>1. Manager!IInv => Manager!NoOrphan /\ Manager!OnePoolPerSchema
  BY DEF Manager!IInv, Manager!NoOrphan, Manager!OnePoolPerSchema, Manager!Retired
<1>2. Manager!IInv /\ ~destroyed => \A p \in Query : Manager!Pool(p) => clients[schema[p]] = p
  BY DEF Manager!IInv, Manager!NoOrphan
<1> QED BY <1>1, <1>2, ManagerInductive, PTL
=============================================================================
