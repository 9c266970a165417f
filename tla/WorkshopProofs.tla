--------------------------- MODULE WorkshopProofs ---------------------------
(***************************************************************************)
(* For any number of requests, motorcycles and vins: every row has its     *)
(* motorcycle, a vin has one motorcycle, and replies tell what happened.   *)
(* IInv is inductive; the steps are grouped by what they write.            *)
(***************************************************************************)
EXTENDS Workshop, TLAPS

(* the fields of a request are what its operation needs *)
LEMMA InputShape ==
  ASSUME NEW i \in Inputs
  PROVE  /\ i.op = "create" /\ i.table = "Motorcycle" => i.vin \in Vin
         /\ i.op = "update" /\ i.table = "Motorcycle" =>
              i.id \in Motorcycle /\ i.vin \in Vin \cup {None, Null}
         /\ i.op = "remove" /\ i.table = "Motorcycle" => i.id \in Motorcycle
         /\ i.op = "create" /\ i.table \in Child => i.motorcycle \in Motorcycle
         /\ i.op = "update" /\ i.table \in Child =>
              i.id \in Req /\ i.motorcycle \in Motorcycle \cup {None, Null}
         /\ i.op = "remove" /\ i.table \in Child => i.id \in Req
<1>1. i \in Input
  BY WorkshopAssumption
<1> QED BY <1>1 DEF Input, Child

(* no rows but those of Existing, no requests *)
THEOREM InitInv == Init => IInv
<1> SUFFICES ASSUME Init PROVE IInv
  OBVIOUS
<1>1. /\ \A r \in Req : /\ pc[r] = "idle" /\ reply[r] = None /\ refers[r] = None
                         /\ input[r] = NoInput
      /\ \A b \in Motorcycle : /\ bike[b] = IF b \in Existing THEN "live" ELSE "unborn"
                               /\ vin[b] = None <=> b \notin Existing
      /\ \A b, c \in Existing : vin[b] = vin[c] => b = c
      /\ rows = {}
  BY DEF Init
<1>2. TypeOK
  BY DEF Init, TypeOK
<1>3. ReferencesHold
  BY <1>1 DEF ReferencesHold
<1>4. VinUnique
  BY <1>1 DEF VinUnique, Live
<1>5. InFlight
  <2>1. \A b \in Motorcycle : Live(b) => vin[b] # None
    BY <1>1 DEF Live
  <2>2. \A r \in Req : bike[r] = "unborn"
    BY <1>1, WorkshopAssumption DEF Motorcycle
  <2> QED BY <1>1, <2>1, <2>2 DEF InFlight
<1> QED BY <1>2, <1>3, <1>4, <1>5 DEF IInv

(* a new request *)
LEMMA SendInv ==
  ASSUME IInv, NEW r \in Req, Send(r)
  PROVE  IInv'
<1>1. PICK i \in Inputs : /\ input' = [input EXCEPT ![r] = i]
                          /\ pc' = [pc EXCEPT ![r] = IF LooksUp(i) THEN "check" ELSE "write"]
  BY DEF Send
<1>2. pc[r] = "idle" /\ UNCHANGED <<bike, vin, rows, refers, reply>>
  BY DEF Send, tables
<1>3. reply[r] = None /\ refers[r] = None /\ bike[r] = "unborn"
  BY <1>2 DEF IInv, InFlight
<1>4. TypeOK'
  BY <1>1, <1>2 DEF IInv, TypeOK
<1>5. pc'[r] \in {"check", "write"} /\ input'[r] = i
  BY <1>1 DEF IInv, TypeOK
<1>6. \A q \in Req \ {r} : pc'[q] = pc[q] /\ input'[q] = input[q]
  BY <1>1 DEF IInv, TypeOK
<1>7. ReferencesHold'
  BY <1>2, <1>5, <1>6 DEF IInv, ReferencesHold, Live
<1>8. VinUnique'
  BY <1>2 DEF IInv, VinUnique, Live
<1>9. InFlight'
  <2>1. pc'[r] = "check" => LooksUp(i)
    BY <1>1 DEF IInv, TypeOK
  <2> QED BY <1>2, <1>3, <1>5, <1>6, <2>1 DEF IInv, InFlight, Live, LooksUp
<1> QED BY <1>4, <1>7, <1>8, <1>9 DEF IInv

(* a request that goes on, or is answered, and leaves the tables alone *)
LEMMA NoWriteInv ==
  ASSUME IInv, NEW r \in Req, pc[r] # "idle", UNCHANGED <<tables, input>>,
         \/ /\ pc' = [pc EXCEPT ![r] = "write"] /\ reply' = reply
            /\ pc[r] # "done"
         \/ /\ pc' = [pc EXCEPT ![r] = "open"] /\ reply' = reply
            /\ pc[r] # "done" /\ Live(input[r].motorcycle) /\ input[r].supplies
            /\ input[r].op = "create" /\ input[r].table = "Service"
         \/ /\ pc' = [pc EXCEPT ![r] = "done"]
            /\ \E code \in Codes : reply' = [reply EXCEPT ![r] = code]
  PROVE  IInv'
<1>1. UNCHANGED <<bike, vin, rows, refers, input>>
  BY DEF tables
<1>2. TypeOK'
  BY <1>1 DEF IInv, TypeOK
<1>3. \A q \in Req \ {r} : pc'[q] = pc[q] /\ reply'[q] = reply[q]
  BY DEF IInv, TypeOK
<1>4. \/ pc'[r] = "write" /\ reply'[r] = reply[r] /\ pc[r] # "done"
      \/ /\ pc'[r] = "open" /\ reply'[r] = reply[r] /\ Live(input[r].motorcycle)
         /\ input[r].op = "create" /\ input[r].table = "Service" /\ input[r].supplies
         /\ pc[r] # "done"
      \/ pc'[r] = "done"
  BY DEF IInv, TypeOK
<1>5. ReferencesHold'
  BY <1>1, <1>3, <1>4 DEF IInv, ReferencesHold, Live
<1>6. VinUnique'
  BY <1>1 DEF IInv, VinUnique, Live
<1>7. InFlight'
  BY <1>1, <1>3, <1>4 DEF IInv, InFlight, Live, LooksUp
<1> QED BY <1>2, <1>5, <1>6, <1>7 DEF IInv

(* a refusal leaves the tables as they are *)
LEMMA RefuseInv ==
  ASSUME IInv, NEW r \in Req, NEW code \in Codes, pc[r] # "idle", Refuse(r, code)
  PROVE  IInv'
BY NoWriteInv DEF Refuse, Answer

(* a write that keeps the motorcycles sound, and those that are in use      *)
MotorcycleWrite(r) ==
  /\ Acknowledge(r) /\ UNCHANGED <<rows, refers>>
  /\ bike' \in [Motorcycle -> {"unborn", "live", "deleted"}]
  /\ vin' \in [Motorcycle -> Vin \cup {None}]
  /\ \A q \in Req \ {r} : bike'[q] = "unborn" \/ bike[q] # "unborn"
  /\ \A b \in Motorcycle : bike[b] = "live" => bike'[b] = "live" \/ (~Held(b) /\ ~Referenced(b))
  /\ \A b \in Motorcycle : bike'[b] = "live" => vin'[b] # None
  /\ VinUnique'

(* an answered request that changes motorcycles only *)
LEMMA MotorcycleWriteInv ==
  ASSUME IInv, NEW r \in Req, pc[r] # "idle", MotorcycleWrite(r)
  PROVE  IInv'
<1>0. /\ Acknowledge(r) /\ UNCHANGED <<rows, refers>>
      /\ bike' \in [Motorcycle -> {"unborn", "live", "deleted"}]
      /\ vin' \in [Motorcycle -> Vin \cup {None}]
      /\ \A q \in Req \ {r} : bike'[q] = "unborn" \/ bike[q] # "unborn"
      /\ \A b \in Motorcycle : bike[b] = "live" =>
                               bike'[b] = "live" \/ (~Held(b) /\ ~Referenced(b))
      /\ \A b \in Motorcycle : bike'[b] = "live" => vin'[b] # None
      /\ VinUnique'
  BY DEF MotorcycleWrite
<1>1. PICK code \in {200, 500} : /\ pc' = [pc EXCEPT ![r] = "done"]
                                 /\ reply' = [reply EXCEPT ![r] = code]
                                 /\ input' = input
  BY <1>0 DEF Acknowledge, Answer
<1>2. TypeOK'
  BY <1>0, <1>1 DEF IInv, TypeOK, Codes
<1>3. \A q \in Req \ {r} : pc'[q] = pc[q] /\ reply'[q] = reply[q]
  BY <1>1 DEF IInv, TypeOK
<1>4. pc'[r] = "done"
  BY <1>1 DEF IInv, TypeOK
<1>5. ReferencesHold'
  <2>1. ASSUME NEW t \in rows PROVE refers[t] # None /\ Live(refers[t])'
    <3>1. refers[t] # None /\ refers[t] \in Motorcycle /\ Live(refers[t])
      BY <2>1 DEF IInv, ReferencesHold, TypeOK
    <3> QED BY <1>0, <2>1, <3>1 DEF Referenced, Live
  <2>2. ASSUME NEW q \in Req, pc'[q] = "open" PROVE Live(input[q].motorcycle)'
    <3>1. q # r /\ pc[q] = "open"
      BY <1>3, <1>4, <2>2
    <3>2. /\ Live(input[q].motorcycle)
          /\ input[q] \in Inputs /\ input[q].op = "create" /\ input[q].table \in Child
      BY <3>1 DEF IInv, ReferencesHold, InFlight, Child
    <3>3. input[q].motorcycle \in Motorcycle
      BY <3>2, InputShape
    <3> QED BY <1>0, <1>1, <3>1, <3>2, <3>3 DEF Held, Live
  <2> QED BY <1>0, <1>1, <2>1, <2>2 DEF ReferencesHold
<1>6. InFlight'
  <2>1. \A q \in Req : pc'[q] # "done" => bike'[q] = "unborn"
    BY <1>0, <1>3, <1>4 DEF IInv, InFlight
  <2> QED BY <1>0, <1>1, <1>3, <1>4, <2>1 DEF IInv, InFlight, LooksUp, Live
<1> QED BY <1>0, <1>2, <1>5, <1>6 DEF IInv

(* an insert takes a vin nobody has *)
LEMMA CreateMotorcycleInv ==
  ASSUME IInv, NEW r \in Req, CreateMotorcycle(r)
  PROVE  IInv'
<1> DEFINE v == input[r].vin
<1>1. /\ pc[r] = "write" /\ input[r] \in Inputs
      /\ input[r].op = "create" /\ input[r].table = "Motorcycle"
  BY DEF CreateMotorcycle, Writes, IInv, InFlight
<1>2. v \in Vin /\ v # None
  BY <1>1, InputShape, WorkshopAssumption
<1>3. CASE Refuse(r, 409)
  BY <1>1, <1>3, RefuseInv DEF Codes
<1>4. CASE ~Refuse(r, 409)
  <2>1. /\ ~Taken(v, r) /\ Acknowledge(r) /\ UNCHANGED <<rows, refers>>
        /\ bike' = [bike EXCEPT ![r] = "live"] /\ vin' = [vin EXCEPT ![r] = v]
    BY <1>4 DEF CreateMotorcycle
  <2>2. /\ bike' \in [Motorcycle -> {"unborn", "live", "deleted"}]
        /\ vin' \in [Motorcycle -> Vin \cup {None}]
    BY <1>2, <2>1 DEF IInv, TypeOK
  <2>3. \A b \in Motorcycle : IF b = r THEN bike'[b] = "live" /\ vin'[b] = v
                              ELSE bike'[b] = bike[b] /\ vin'[b] = vin[b]
    BY <2>1 DEF IInv, TypeOK
  <2>4. r \in Motorcycle
    BY DEF Motorcycle
  <2>5. VinUnique'
    BY <2>1, <2>3, <2>4 DEF VinUnique, IInv, Live, Taken
  <2>6. \A b \in Motorcycle : /\ bike[b] = "live" => bike'[b] = "live"
                              /\ bike'[b] = "live" => vin'[b] # None
    BY <1>2, <2>3 DEF IInv, InFlight, Live
  <2>7. \A q \in Req \ {r} : bike'[q] = "unborn" \/ bike[q] # "unborn"
    BY <2>3 DEF Motorcycle
  <2>8. Acknowledge(r) /\ UNCHANGED <<rows, refers>>
    BY <2>1
  <2>10. \A b \in Motorcycle : bike[b] = "live" => bike'[b] = "live" \/ (~Held(b) /\ ~Referenced(b))
    BY <2>6
  <2>11. \A b \in Motorcycle : bike'[b] = "live" => vin'[b] # None
    BY <2>6
  <2>9. MotorcycleWrite(r)
    BY <2>8, <2>2, <2>5, <2>10, <2>11, <2>7 DEF MotorcycleWrite
  <2> QED BY <1>1, <2>9, MotorcycleWriteInv
<1> QED BY <1>3, <1>4

(* a PATCH moves a motorcycle to a vin nobody has *)
LEMMA UpdateMotorcycleInv ==
  ASSUME IInv, NEW r \in Req, UpdateMotorcycle(r)
  PROVE  IInv'
<1> DEFINE v == input[r].vin
           b == input[r].id
<1>1. /\ pc[r] = "write" /\ input[r] \in Inputs
      /\ input[r].op = "update" /\ input[r].table = "Motorcycle"
  BY DEF UpdateMotorcycle, Writes, IInv, InFlight
<1>2. b \in Motorcycle /\ v \in Vin \cup {None, Null}
  BY <1>1, InputShape
<1>3. CASE \E code \in {404, 409, 500} : Refuse(r, code)
  BY <1>1, <1>3, RefuseInv DEF Codes
<1>4. CASE Acknowledge(r) /\ UNCHANGED tables
  <2>1. UNCHANGED <<bike, vin, rows, refers>>
    BY <1>4 DEF tables
  <2>2. VinUnique'
    BY <2>1 DEF VinUnique, IInv, Live
  <2>3. /\ bike' \in [Motorcycle -> {"unborn", "live", "deleted"}]
        /\ vin' \in [Motorcycle -> Vin \cup {None}]
    BY <2>1 DEF IInv, TypeOK
  <2>4. \A c \in Motorcycle : /\ bike[c] = "live" => bike'[c] = "live"
                              /\ bike'[c] = "live" => vin'[c] # None
    BY <2>1 DEF IInv, InFlight, Live
  <2>9. MotorcycleWrite(r)
    BY <1>4, <2>1, <2>2, <2>3, <2>4 DEF MotorcycleWrite
  <2> QED BY <1>1, <2>9, MotorcycleWriteInv
<1>5. CASE /\ v \in Vin /\ ~Taken(v, b) /\ Acknowledge(r)
           /\ vin' = [vin EXCEPT ![b] = v] /\ UNCHANGED <<bike, rows, refers>>
  <2>1. vin' \in [Motorcycle -> Vin \cup {None}]
    BY <1>2, <1>5 DEF IInv, TypeOK
  <2>2. \A c \in Motorcycle : vin'[c] = IF c = b THEN v ELSE vin[c]
    BY <1>5 DEF IInv, TypeOK
  <2>3. VinUnique'
    BY <1>2, <1>5, <2>2 DEF VinUnique, IInv, Live, Taken
  <2>4. v # None
    BY <1>5, WorkshopAssumption
  <2>5. \A c \in Motorcycle : /\ bike[c] = "live" => bike'[c] = "live"
                              /\ bike'[c] = "live" => vin'[c] # None
    BY <1>5, <2>2, <2>4 DEF IInv, InFlight, Live
  <2>6. bike' \in [Motorcycle -> {"unborn", "live", "deleted"}]
    BY <1>5 DEF IInv, TypeOK
  <2>9. MotorcycleWrite(r)
    BY <1>5, <2>1, <2>3, <2>5, <2>6 DEF MotorcycleWrite
  <2> QED BY <1>1, <2>9, MotorcycleWriteInv
<1> QED BY <1>3, <1>4, <1>5 DEF UpdateMotorcycle

(* a DELETE leaves no reference behind: it was restricted, or had to wait *)
LEMMA RemoveMotorcycleInv ==
  ASSUME IInv, NEW r \in Req, RemoveMotorcycle(r)
  PROVE  IInv'
<1> DEFINE b == input[r].id
<1>1. /\ pc[r] = "write" /\ input[r] \in Inputs
      /\ input[r].op = "remove" /\ input[r].table = "Motorcycle"
  BY DEF RemoveMotorcycle, Writes, IInv, InFlight
<1>2. b \in Motorcycle
  BY <1>1, InputShape
<1>3. CASE \E code \in {404, 422} : Refuse(r, code)
  BY <1>1, <1>3, RefuseInv DEF Codes
<1>4. CASE ~\E code \in {404, 422} : Refuse(r, code)
  <2>1. /\ Live(b) /\ ~Held(b) /\ ~Referenced(b) /\ Acknowledge(r)
        /\ bike' = [bike EXCEPT ![b] = "deleted"] /\ UNCHANGED <<vin, rows, refers>>
    BY <1>4 DEF RemoveMotorcycle
  <2>2. bike' \in [Motorcycle -> {"unborn", "live", "deleted"}]
    BY <2>1 DEF IInv, TypeOK
  <2>3. \A c \in Motorcycle : bike'[c] = IF c = b THEN "deleted" ELSE bike[c]
    BY <2>1 DEF IInv, TypeOK
  <2>4. \A c \in Motorcycle : /\ Live(c)' => Live(c)
                              /\ Live(c) => Live(c)' \/ c = b
    BY <2>3 DEF Live
  <2>7. \A c \in Motorcycle :
          /\ bike[c] = "live" => bike'[c] = "live" \/ (~Held(c) /\ ~Referenced(c))
          /\ bike'[c] = "live" => vin'[c] # None
    BY <2>1, <2>3 DEF IInv, InFlight, Live
  <2>5. VinUnique'
    BY <2>1, <2>4 DEF VinUnique, IInv
  <2>6. \A q \in Req \ {r} : bike'[q] = "unborn" \/ bike[q] # "unborn"
    BY <2>1, <2>3 DEF Motorcycle, Live
  <2>8. vin' \in [Motorcycle -> Vin \cup {None}]
    BY <2>1 DEF IInv, TypeOK
  <2>9. MotorcycleWrite(r)
    BY <2>1, <2>2, <2>5, <2>6, <2>7, <2>8 DEF MotorcycleWrite
  <2> QED BY <1>1, <2>9, MotorcycleWriteInv
<1> QED BY <1>3, <1>4

(* a write to the rows of Service and Appointment *)
RowWrite(r) ==
  /\ Acknowledge(r) /\ UNCHANGED <<bike, vin>>
  /\ rows' \subseteq Req
  /\ refers' \in [Req -> Motorcycle \cup {None}]
  /\ \A t \in rows' : refers'[t] # None /\ Live(refers'[t])
  /\ \A q \in Req : \/ refers'[q] = refers[q]
                     \/ (q = r /\ input[r].op = "create" /\ input[r].table \in Child)
                     \/ refers[q] # None

(* an answered request that changes services and appointments only *)
LEMMA RowWriteInv ==
  ASSUME IInv, NEW r \in Req, pc[r] # "idle", RowWrite(r)
  PROVE  IInv'
<1>1. PICK code \in {200, 500} : /\ pc' = [pc EXCEPT ![r] = "done"]
                                 /\ reply' = [reply EXCEPT ![r] = code]
                                 /\ input' = input
  BY DEF RowWrite, Acknowledge, Answer
<1>2. /\ UNCHANGED <<bike, vin>>
      /\ rows' \subseteq Req
      /\ refers' \in [Req -> Motorcycle \cup {None}]
  BY DEF RowWrite
<1>3. \A t \in rows' : refers'[t] # None /\ Live(refers'[t])
  BY DEF RowWrite
<1>4. \A q \in Req : \/ refers'[q] = refers[q]
                     \/ (q = r /\ input[r].op = "create" /\ input[r].table \in Child)
                     \/ refers[q] # None
  BY DEF RowWrite
<1>5. TypeOK'
  <2>1. reply' \in [Req -> Codes \cup {None}]
    BY <1>1 DEF IInv, TypeOK, Codes
  <2>2. pc' \in [Req -> {"idle", "check", "write", "open", "done"}]
    BY <1>1 DEF IInv, TypeOK
  <2> QED BY <1>1, <1>2, <2>1, <2>2 DEF IInv, TypeOK
<1>6. \A q \in Req \ {r} : pc'[q] = pc[q] /\ reply'[q] = reply[q]
  BY <1>1 DEF IInv, TypeOK
<1>7. pc'[r] = "done"
  BY <1>1 DEF IInv, TypeOK
<1>8. ReferencesHold'
  BY <1>1, <1>2, <1>3, <1>6, <1>7 DEF IInv, ReferencesHold, Live
<1>9. VinUnique'
  BY <1>2 DEF IInv, VinUnique, Live
<1>10. InFlight'
  <2>1. \A q \in Req : refers'[q] # None => input[q].op = "create" /\ input[q].table \in Child
    BY <1>4 DEF IInv, InFlight
  <2>2. \A q \in Req : pc'[q] # "done" => refers'[q] = None
    BY <1>4, <1>6, <1>7 DEF IInv, InFlight
  <2> QED BY <1>1, <1>2, <1>6, <1>7, <2>1, <2>2 DEF IInv, InFlight, Live, LooksUp
<1> QED BY <1>5, <1>8, <1>9, <1>10 DEF IInv

(* a row of r is stored *)
LEMMA StoreInv ==
  ASSUME IInv, NEW r \in Req, pc[r] # "idle", input[r].op = "create", input[r].table \in Child,
         Live(input[r].motorcycle), Store(r), Acknowledge(r)
  PROVE  IInv'
<1>1. input[r].motorcycle \in Motorcycle /\ input[r].motorcycle # None
  <2>1. input[r] \in Inputs
    BY DEF IInv, InFlight
  <2> QED BY <2>1, InputShape, WorkshopAssumption DEF Motorcycle
<1>2. /\ rows' = rows \cup {r} /\ UNCHANGED <<bike, vin>>
      /\ refers' = [refers EXCEPT ![r] = input[r].motorcycle]
  BY DEF Store
<1>3. rows' \subseteq Req /\ refers' \in [Req -> Motorcycle \cup {None}]
  BY <1>1, <1>2 DEF IInv, TypeOK
<1>4. \A q \in Req : refers'[q] = IF q = r THEN input[r].motorcycle ELSE refers[q]
  BY <1>2 DEF IInv, TypeOK
<1>5. \A t \in rows' : refers'[t] # None /\ Live(refers'[t])
  BY <1>1, <1>2, <1>3, <1>4 DEF IInv, ReferencesHold
<1>6. RowWrite(r)
  BY <1>2, <1>3, <1>4, <1>5 DEF RowWrite
<1> QED BY <1>6, RowWriteInv

(* an insert refers to a motorcycle that is there *)
LEMMA InsertRowInv ==
  ASSUME IInv, NEW r \in Req, InsertRow(r)
  PROVE  IInv'
<1>1. pc[r] = "write" /\ input[r].op = "create" /\ input[r].table \in Child
  BY DEF InsertRow, Writes
<1>2. CASE Refuse(r, 422)
  BY <1>1, <1>2, RefuseInv DEF Codes
<1>3. CASE Live(input[r].motorcycle) /\ Store(r) /\ Acknowledge(r)
  BY <1>1, <1>3, StoreInv
<1> QED BY <1>2, <1>3 DEF InsertRow

(* a commit does, because the motorcycle was held since the insert *)
LEMMA EndTransactionInv ==
  ASSUME IInv, NEW r \in Req, EndTransaction(r)
  PROVE  IInv'
<1>1. /\ pc[r] = "open" /\ input[r].op = "create" /\ input[r].table \in Child
      /\ Live(input[r].motorcycle)
  BY DEF EndTransaction, IInv, InFlight, ReferencesHold, Child
<1>2. CASE \E code \in {404, 409, 500} : Refuse(r, code)
  BY <1>1, <1>2, RefuseInv DEF Codes
<1>3. CASE Store(r) /\ Acknowledge(r)
  BY <1>1, <1>3, StoreInv
<1> QED BY <1>2, <1>3 DEF EndTransaction

(* a PATCH leaves the reference alone or moves it to a motorcycle that is there *)
LEMMA UpdateRowInv ==
  ASSUME IInv, NEW r \in Req, UpdateRow(r)
  PROVE  IInv'
<1> DEFINE t == input[r].id
           m == input[r].motorcycle
<1>1. /\ pc[r] = "write" /\ input[r] \in Inputs
      /\ input[r].op = "update" /\ input[r].table \in Child
  BY DEF UpdateRow, Writes, IInv, InFlight
<1>2. t \in Req /\ m \in Motorcycle \cup {None, Null}
  BY <1>1, InputShape
<1>3. CASE \E code \in {404, 422, 500} : Refuse(r, code)
  BY <1>1, <1>3, RefuseInv DEF Codes
<1>4. CASE /\ m = None \/ (m \in Motorcycle /\ Live(m))
           /\ t \in rows /\ refers' = Moved(t, m) /\ Acknowledge(r)
           /\ UNCHANGED <<bike, vin, rows>>
  <2>1. \A q \in Req : refers'[q] = IF q = t /\ m # None THEN m ELSE refers[q]
    BY <1>4 DEF IInv, TypeOK, Moved
  <2>2. refers' \in [Req -> Motorcycle \cup {None}]
    BY <1>2, <1>4 DEF IInv, TypeOK, Moved
  <2>3. \A q \in rows' : refers'[q] # None /\ Live(refers'[q])
    BY <1>4, <2>1 DEF IInv, TypeOK, ReferencesHold
  <2>4. refers[t] # None
    BY <1>4 DEF IInv, ReferencesHold
  <2>5. rows' \subseteq Req
    BY <1>4 DEF IInv, TypeOK
  <2>6. \A q \in Req : refers'[q] = refers[q] \/ refers[q] # None
    BY <2>1, <2>4
  <2>7. RowWrite(r)
    BY <1>4, <2>2, <2>3, <2>5, <2>6 DEF RowWrite
  <2> QED BY <1>1, <2>7, RowWriteInv
<1> QED BY <1>3, <1>4 DEF UpdateRow

(* a DELETE of a row breaks no reference *)
LEMMA RemoveRowInv ==
  ASSUME IInv, NEW r \in Req, RemoveRow(r)
  PROVE  IInv'
<1>1. pc[r] = "write"
  BY DEF RemoveRow, Writes
<1>2. CASE Refuse(r, 404)
  BY <1>1, <1>2, RefuseInv DEF Codes
<1>3. CASE /\ rows' = rows \ {input[r].id} /\ Acknowledge(r)
           /\ UNCHANGED <<bike, vin, refers>>
  <2>1. rows' \subseteq Req /\ refers' \in [Req -> Motorcycle \cup {None}]
    BY <1>3 DEF IInv, TypeOK
  <2>2. \A t \in rows' : refers'[t] # None /\ Live(refers'[t])
    BY <1>3 DEF IInv, ReferencesHold
  <2>3. RowWrite(r)
    BY <1>3, <2>1, <2>2 DEF RowWrite
  <2> QED BY <1>1, <2>3, RowWriteInv
<1> QED BY <1>2, <1>3 DEF RemoveRow

(* Every step keeps the invariant. *)
THEOREM StepInv == IInv /\ [Next]_vars => IInv'
<1> SUFFICES ASSUME IInv, [Next]_vars PROVE IInv'
  OBVIOUS
<1>1. CASE UNCHANGED vars
  <2>1. UNCHANGED <<bike, vin, rows, refers, input, pc, reply>>
    BY <1>1 DEF vars
  <2> QED BY <2>1 DEF IInv, TypeOK, ReferencesHold, VinUnique, InFlight, Live, LooksUp
<1>2. ASSUME NEW r \in Req, Send(r) PROVE IInv'
  BY <1>2, SendInv
<1>3. ASSUME NEW r \in Req, Check(r) PROVE IInv'
  <2>1. pc[r] = "check"
    BY <1>3 DEF Check
  <2>2. CASE Refuse(r, 404)
    BY <2>1, <2>2, RefuseInv DEF Codes
  <2>3. CASE Goto(r, "write") /\ UNCHANGED tables
    BY <2>1, <2>3, NoWriteInv DEF Goto
  <2> QED BY <1>3, <2>2, <2>3 DEF Check
<1>4. ASSUME NEW r \in Req, OpenTransaction(r) PROVE IInv'
  <2>1. /\ pc[r] = "write" /\ input[r].op = "create" /\ input[r].table \in Child
        /\ input[r].supplies
    BY <1>4 DEF OpenTransaction, Writes
  <2>2. CASE Refuse(r, 422)
    BY <2>1, <2>2, RefuseInv DEF Codes
  <2>3. CASE Live(input[r].motorcycle) /\ Goto(r, "open") /\ UNCHANGED tables
    <3>1. input[r].table = "Service"
      <4>1. input[r] \in Input
        BY <2>1, WorkshopAssumption DEF IInv, InFlight
      <4> QED BY <2>1, <4>1 DEF Input, Child
    <3> QED BY <2>1, <2>3, <3>1, NoWriteInv DEF Goto
  <2> QED BY <1>4, <2>2, <2>3 DEF OpenTransaction
<1>5. ASSUME NEW r \in Req, Fail(r) PROVE IInv'
  BY <1>5, RefuseInv DEF Fail, Codes
<1> QED
  BY <1>1, <1>2, <1>3, <1>4, <1>5, CreateMotorcycleInv, UpdateMotorcycleInv,
     RemoveMotorcycleInv, InsertRowInv, EndTransactionInv, UpdateRowInv, RemoveRowInv
     DEF Next, Step, Rest

(* The invariant of all the tables holds throughout. *)
THEOREM Inductive == Spec => []IInv
BY InitInv, StepInv, PTL DEF Spec

(* bikes.prisma: for any number of requests, no committed service or       *)
(* appointment, and no service being written, is without its motorcycle.   *)
THEOREM RowsHaveMotorcycles == Spec => []ReferencesHold
<1>1. IInv => ReferencesHold
  BY DEF IInv
<1> QED BY <1>1, Inductive, PTL

(* bikes.prisma:3: at any time one motorcycle has a vin. *)
THEOREM VinsAreUnique == Spec => []VinUnique
<1>1. IInv => VinUnique
  BY DEF IInv
<1> QED BY <1>1, Inductive, PTL

-----------------------------------------------------------------------------
(* What a request did, and what was said of it *)

(* the first half of RepliesMatchRows, for one request: the rows *)
OwnReply(r) ==
  Asks(r, "create", Child) => /\ refers[r] # None => Took(r)
                              /\ reply[r] = 200 => refers[r] # None
Accounted(r) ==
  refers[r] # None =>
    /\ r \in rows \/ MayBeGone(r, Child)
    /\ refers[r] = input[r].motorcycle \/ \E q \in Req : Moves(q, r, refers[r])

(* the second half: the confirmed changes of a row *)
Confirmed(r) ==
  /\ Asks(r, "update", Child) /\ reply[r] = 200 /\ input[r].motorcycle # None =>
       LET m == refers[input[r].id]
       IN  m = input[r].motorcycle \/ \E q \in Req \ {r} : Moves(q, input[r].id, m)
  /\ Asks(r, "remove", Child) /\ reply[r] = 200 => input[r].id \notin rows

(* what is in a request was there when it was sent *)
Named(r) ==
  pc[r] # "idle" =>
    LET i == input[r] IN
    /\ i.op \in {"update", "remove"} /\ i.table = "Motorcycle" => bike[i.id] # "unborn"
    /\ i.op \in {"update", "remove"} /\ i.table \in Child => refers[i.id] # None
    /\ i.op \in {"create", "update"} /\ i.table \in Child /\ i.motorcycle \in Motorcycle =>
         bike[i.motorcycle] # "unborn"

(* the same for a motorcycle *)
Explains(b) ==
  /\ bike[b] = "deleted" => MayBeGone(b, {"Motorcycle"})
  /\ KnownGone(b, {"Motorcycle"}) => bike[b] = "deleted"
  /\ Live(b) => GivenVin(b, vin[b])

(* what replies tell is inductive together with the names in requests *)
History ==
  /\ \A r \in Req : OwnReply(r) /\ Accounted(r) /\ Confirmed(r) /\ Named(r)
  /\ \A b \in Motorcycle : Explains(b)

(* r is the only request that goes on, and is not answered yet *)
Alone(r) == /\ ~Took(r)
            /\ \A q \in Req \ {r} : pc'[q] = pc[q] /\ input'[q] = input[q] /\ reply'[q] = reply[q]
Kept(r) == Alone(r) /\ UNCHANGED input /\ pc[r] \notin {"idle", "done"} /\ pc'[r] # "idle"

(* what r can have done to the tables *)
NoEffect(r) == UNCHANGED tables /\ (reply'[r] = 200 => Asks(r, "update", {"Motorcycle"}))
Inserts(r) == /\ Asks(r, "create", {"Motorcycle"}) /\ Took(r)'
              /\ bike' = [bike EXCEPT ![r] = "live"]
              /\ vin' = [vin EXCEPT ![r] = input[r].vin]
              /\ UNCHANGED <<rows, refers>>
Renames(r) == /\ Asks(r, "update", {"Motorcycle"}) /\ Took(r)'
              /\ vin' = [vin EXCEPT ![input[r].id] = input[r].vin]
              /\ UNCHANGED <<bike, rows, refers>>
Deletes(r) == /\ Asks(r, "remove", {"Motorcycle"}) /\ Took(r)' /\ Live(input[r].id)
              /\ bike' = [bike EXCEPT ![input[r].id] = "deleted"]
              /\ UNCHANGED <<vin, rows, refers>>
Adds(r) == Asks(r, "create", Child) /\ Took(r)' /\ Store(r)
Alters(r) == /\ Asks(r, "update", Child) /\ Took(r)' /\ input[r].id \in rows
             /\ input[r].motorcycle \in Motorcycle \cup {None}
             /\ refers' = Moved(input[r].id, input[r].motorcycle)
             /\ UNCHANGED <<bike, vin, rows>>
Drops(r) == /\ Asks(r, "remove", Child) /\ Took(r)'
            /\ rows' = rows \ {input[r].id}
            /\ UNCHANGED <<bike, vin, refers>>
Effect(r) == \/ NoEffect(r) \/ Inserts(r) \/ Renames(r) \/ Deletes(r)
             \/ Adds(r) \/ Alters(r) \/ Drops(r)

(* an answer, or a step before it *)
LEMMA StepKept ==
  ASSUME IInv, NEW r \in Req, pc[r] \notin {"idle", "done"},
         (\E code : Answer(r, code)) \/ \E label \in {"write", "open"} : Goto(r, label)
  PROVE  Kept(r)
<1>1. ~Took(r)
  BY WorkshopAssumption DEF IInv, InFlight, Took, Codes
<1> QED BY <1>1 DEF Answer, Goto, Kept, Alone, IInv, TypeOK

(* every handler *)
LEMMA StepHasEffect ==
  ASSUME IInv, NEW r \in Req, Step(r) \/ Fail(r)
  PROVE  Kept(r) /\ Effect(r)
<1>1. pc[r] \notin {"idle", "done"} /\ input[r] \in Inputs
  BY DEF Step, Fail, Check, CreateMotorcycle, UpdateMotorcycle, RemoveMotorcycle, InsertRow,
         OpenTransaction, EndTransaction, UpdateRow, RemoveRow, Writes, IInv, InFlight
<1>2. ASSUME NEW code, Refuse(r, code), code # 200 PROVE Kept(r) /\ Effect(r)
  <2>1. Answer(r, code) /\ UNCHANGED tables
    BY <1>2 DEF Refuse
  <2>2. Kept(r)
    BY <1>1, <2>1, StepKept
  <2>3. reply'[r] = code
    BY <2>1 DEF Answer, IInv, TypeOK
  <2> QED BY <1>2, <2>1, <2>2, <2>3 DEF NoEffect, Effect
<1>3. ASSUME NEW label \in {"write", "open"}, Goto(r, label), UNCHANGED tables
      PROVE  Kept(r) /\ Effect(r)
  <2>1. Kept(r)
    BY <1>1, <1>3, StepKept
  <2>2. reply'[r] # 200
    BY <1>3, <2>1 DEF Goto, Kept, Alone, Took
  <2> QED BY <1>3, <2>1, <2>2 DEF NoEffect, Effect
<1>4. Acknowledge(r) => Kept(r) /\ Took(r)'
  <2> SUFFICES ASSUME NEW code \in {200, 500}, Answer(r, code) PROVE Kept(r) /\ Took(r)'
    BY DEF Acknowledge
  <2>1. Kept(r)
    BY <1>1, StepKept
  <2>2. reply'[r] = code
    BY DEF Answer, IInv, TypeOK
  <2> QED BY <2>1, <2>2 DEF Took
<1>5. ASSUME NEW op, NEW T, Writes(r, op, T) PROVE Asks(r, op, T)
  BY <1>5 DEF Writes, Asks
<1>6. CASE Check(r) \/ OpenTransaction(r) \/ Fail(r)
  BY <1>2, <1>3, <1>6 DEF Check, OpenTransaction, Fail
<1>7. CASE CreateMotorcycle(r)
  <2>1. CASE Refuse(r, 409)
    BY <1>2, <2>1
  <2>2. CASE ~Refuse(r, 409)
    <3>1. Inserts(r)
      BY <1>4, <1>5, <1>7, <2>2 DEF CreateMotorcycle, Inserts
    <3> QED BY <1>4, <1>7, <2>2, <3>1 DEF CreateMotorcycle, Effect
  <2> QED BY <2>1, <2>2
<1>8. CASE UpdateMotorcycle(r)
  <2>1. CASE \E code \in {404, 409, 500} : Refuse(r, code)
    BY <1>2, <2>1
  <2>2. CASE Acknowledge(r) /\ UNCHANGED tables
    BY <1>4, <1>5, <1>8, <2>2 DEF UpdateMotorcycle, NoEffect, Effect
  <2>3. CASE /\ Acknowledge(r) /\ UNCHANGED <<bike, rows, refers>>
             /\ vin' = [vin EXCEPT ![input[r].id] = input[r].vin]
    <3>1. Renames(r)
      BY <1>4, <1>5, <1>8, <2>3 DEF UpdateMotorcycle, Renames
    <3> QED BY <1>4, <2>3, <3>1 DEF Effect
  <2> QED BY <1>8, <2>1, <2>2, <2>3 DEF UpdateMotorcycle
<1>9. CASE RemoveMotorcycle(r)
  <2>1. CASE \E code \in {404, 422} : Refuse(r, code)
    BY <1>2, <2>1
  <2>2. CASE ~\E code \in {404, 422} : Refuse(r, code)
    <3>1. Acknowledge(r) /\ Deletes(r)
      BY <1>4, <1>5, <1>9, <2>2 DEF RemoveMotorcycle, Deletes
    <3> QED BY <1>4, <3>1 DEF Effect
  <2> QED BY <2>1, <2>2
<1>10. CASE InsertRow(r) \/ EndTransaction(r)
  <2>1. Asks(r, "create", Child)
    BY <1>5, <1>10 DEF InsertRow, EndTransaction, IInv, InFlight, Asks, Child
  <2>2. CASE \E code \in {404, 409, 422, 500} : Refuse(r, code)
    BY <1>2, <2>2
  <2>3. CASE Store(r) /\ Acknowledge(r)
    BY <1>4, <2>1, <2>3 DEF Adds, Effect
  <2> QED BY <1>10, <2>2, <2>3 DEF InsertRow, EndTransaction
<1>11. CASE UpdateRow(r)
  <2>1. CASE \E code \in {404, 422, 500} : Refuse(r, code)
    BY <1>2, <2>1
  <2>2. CASE ~\E code \in {404, 422, 500} : Refuse(r, code)
    <3>1. Acknowledge(r) /\ Alters(r)
      BY <1>4, <1>5, <1>11, <2>2 DEF UpdateRow, Alters
    <3> QED BY <1>4, <3>1 DEF Effect
  <2> QED BY <2>1, <2>2
<1>12. CASE RemoveRow(r)
  <2>1. CASE Refuse(r, 404)
    BY <1>2, <2>1
  <2>2. CASE ~Refuse(r, 404)
    <3>1. Acknowledge(r) /\ Drops(r)
      BY <1>4, <1>5, <1>12, <2>2 DEF RemoveRow, Drops
    <3> QED BY <1>4, <3>1 DEF Effect
  <2> QED BY <2>1, <2>2
<1> QED BY <1>6, <1>7, <1>8, <1>9, <1>10, <1>11, <1>12 DEF Step

(* nobody's part in the tables is forgotten *)
LEMMA KeptHistory ==
  ASSUME NEW r \in Req, Kept(r)
  PROVE  /\ \A q \in Req : \A op, T : Asks(q, op, T)' <=> Asks(q, op, T)
         /\ \A q \in Req : Took(q) => Took(q)' /\ q # r
         /\ \A x, T : MayBeGone(x, T) => MayBeGone(x, T)'
         /\ \A q \in Req : \A t, m : Moves(q, t, m) => Moves(q, t, m)'
         /\ \A b, v : GivenVin(b, v) => GivenVin(b, v)'
         /\ \A x, T : KnownGone(x, T)' =>
              \/ KnownGone(x, T)
              \/ Asks(r, "remove", T) /\ input[r].id = x /\ reply'[r] = 200
<1>1. \A q \in Req : \A op, T : Asks(q, op, T)' <=> Asks(q, op, T)
  BY DEF Kept, Alone, Asks
<1>2. \A q \in Req : Took(q) => Took(q)' /\ q # r
  BY DEF Kept, Alone, Took
<1>3. UNCHANGED input
  BY DEF Kept
<1>4. \A x, T : MayBeGone(x, T) => MayBeGone(x, T)'
  BY <1>1, <1>2, <1>3 DEF MayBeGone
<1>5. \A q \in Req : \A t, m : Moves(q, t, m) => Moves(q, t, m)'
  BY <1>1, <1>2, <1>3 DEF Moves, Child
<1>6. \A b, v : GivenVin(b, v) => GivenVin(b, v)'
  BY <1>1, <1>2, <1>3 DEF GivenVin
<1>7. \A x, T : KnownGone(x, T)' =>
        \/ KnownGone(x, T)
        \/ Asks(r, "remove", T) /\ input[r].id = x /\ reply'[r] = 200
  BY <1>1, <1>3 DEF KnownGone, Kept, Alone
<1> QED BY <1>1, <1>2, <1>4, <1>5, <1>6, <1>7

(* what is born stays born, what is gone stays gone *)
Progress ==
  /\ \A b \in Motorcycle : bike[b] # "unborn" => bike'[b] # "unborn"
  /\ \A b \in Motorcycle : bike[b] = "deleted" => bike'[b] = "deleted"
  /\ \A t \in Req : refers[t] # None => refers'[t] # None /\ (t \notin rows => t \notin rows')

(* a row is only created under the id of a request that has none yet *)
LEMMA EffectProgress ==
  ASSUME IInv, NEW r \in Req, Kept(r), Effect(r)
  PROVE  Progress
<1>1. bike[r] = "unborn" /\ refers[r] = None
  BY DEF Kept, IInv, InFlight
<1>2. CASE NoEffect(r) \/ Renames(r)
  BY <1>2 DEF NoEffect, Renames, tables, Progress
<1>3. CASE Inserts(r) \/ Deletes(r)
  BY <1>1, <1>3 DEF Inserts, Deletes, Live, Progress, IInv, TypeOK
<1>4. CASE Adds(r)
  <2>1. input[r].motorcycle # None
    <3>1. input[r].motorcycle \in Motorcycle
      BY <1>4, InputShape DEF Adds, Asks, IInv, InFlight
    <3> QED BY <3>1, WorkshopAssumption DEF Motorcycle
  <2> QED BY <1>1, <1>4, <2>1 DEF Adds, Store, Progress, IInv, TypeOK
<1>5. CASE Alters(r) \/ Drops(r)
  BY <1>5 DEF Alters, Drops, Moved, Progress, IInv, TypeOK
<1> QED BY <1>2, <1>3, <1>4, <1>5 DEF Effect

(* a step that leaves the rows alone confirms nothing about them *)
LEMMA RowsUntouched ==
  ASSUME IInv, History, NEW r \in Req, Kept(r), UNCHANGED <<rows, refers>>,
         reply'[r] = 200 => input[r].table = "Motorcycle", NEW q \in Req
  PROVE  OwnReply(q)' /\ Accounted(q)' /\ Confirmed(q)'
<1>1. OwnReply(q) /\ Accounted(q) /\ Confirmed(q)
  BY DEF History
<1>2. reply'[q] = 200 /\ input[q].table \in Child => reply[q] = 200
  BY DEF Kept, Alone, Child
<1>3. OwnReply(q)'
  BY <1>1, <1>2, KeptHistory DEF OwnReply, Asks, Kept
<1>4. Accounted(q)'
  BY <1>1, KeptHistory DEF Accounted, Kept
<1>5. Confirmed(q)'
  BY <1>1, <1>2, KeptHistory DEF Confirmed, Asks, Kept
<1> QED BY <1>3, <1>4, <1>5

(* a row is stored by the request that asked for it *)
LEMMA AddsMatches ==
  ASSUME IInv, History, NEW r \in Req, Kept(r), Adds(r), NEW q \in Req
  PROVE  OwnReply(q)' /\ Accounted(q)' /\ Confirmed(q)'
<1>1. OwnReply(q) /\ Accounted(q) /\ Confirmed(q) /\ Named(q)
  BY DEF History
<1>2. input[r].motorcycle \in Motorcycle /\ input[r].motorcycle # None
  <2>1. input[r].motorcycle \in Motorcycle
    BY InputShape DEF Adds, Asks, IInv, InFlight
  <2> QED BY <2>1, WorkshopAssumption DEF Motorcycle
<1>3. /\ rows' = rows \cup {r} /\ refers'[r] = input[r].motorcycle /\ refers[r] = None
      /\ \A t \in Req \ {r} : refers'[t] = refers[t]
  BY DEF Adds, Store, Kept, IInv, TypeOK, InFlight
<1>4. CASE q = r
  BY <1>2, <1>3, <1>4 DEF OwnReply, Accounted, Confirmed, Adds, Asks, Kept
<1>5. CASE q # r
  <2>1. refers'[q] = refers[q] /\ reply'[q] = reply[q] /\ UNCHANGED input
    BY <1>3, <1>5 DEF Kept, Alone
  <2>2. OwnReply(q)'
    BY <1>1, <2>1, KeptHistory DEF OwnReply
  <2>3. Accounted(q)'
    BY <1>1, <1>3, <2>1, KeptHistory DEF Accounted
  <2>4. Confirmed(q)'
    <3>1. ASSUME Asks(q, "update", Child) \/ Asks(q, "remove", Child)
          PROVE  input[q].id \in Req /\ input[q].id # r
      <4>1. input[q].id \in Req
        BY <3>1, InputShape DEF Asks, IInv, InFlight
      <4> QED BY <1>1, <1>3, <3>1, <4>1 DEF Named, Asks
    <3> QED BY <1>1, <1>3, <2>1, <3>1, KeptHistory DEF Confirmed
  <2> QED BY <2>2, <2>3, <2>4
<1> QED BY <1>4, <1>5

(* a row is moved, or not, by the request that asked for it *)
LEMMA AltersMatches ==
  ASSUME IInv, History, NEW r \in Req, Kept(r), Alters(r), NEW q \in Req
  PROVE  OwnReply(q)' /\ Accounted(q)' /\ Confirmed(q)'
<1> DEFINE t == input[r].id
           m == input[r].motorcycle
<1>1. OwnReply(q) /\ Accounted(q) /\ Confirmed(q)
  BY DEF History
<1>2. /\ t \in Req /\ refers[t] # None /\ m \in Motorcycle \cup {None}
      /\ UNCHANGED <<rows, input>>
      /\ \A u \in Req : refers'[u] = IF u = t /\ m # None THEN m ELSE refers[u]
  BY DEF Alters, Moved, Kept, IInv, TypeOK, ReferencesHold
<1>3. Moves(r, t, m)'
  BY <1>2, KeptHistory DEF Alters, Moves, Child
<1>4. \A u \in Req : refers'[u] # None <=> refers[u] # None
  BY <1>2
<1>5. OwnReply(q)'
  <2>1. CASE q = r
    BY <2>1 DEF OwnReply, Alters, Asks, Kept
  <2>2. CASE q # r
    BY <1>1, <1>4, <2>2, KeptHistory DEF OwnReply, Kept, Alone
  <2> QED BY <2>1, <2>2
<1>6. Accounted(q)'
  <2>1. CASE q = t /\ m # None
    <3>1. q \in rows' /\ refers'[q] = m
      BY <1>2, <2>1 DEF Alters
    <3>2. Moves(r, q, refers[q])'
      BY <1>2, <1>3, <2>1, <3>1 DEF Moves
    <3> QED BY <3>1, <3>2 DEF Accounted
  <2>2. CASE ~(q = t /\ m # None)
    <3>1. refers'[q] = refers[q]
      BY <1>2, <2>2
    <3> QED BY <1>1, <1>2, <3>1, KeptHistory DEF Accounted
  <2> QED BY <2>1, <2>2
<1>7. Confirmed(q)'
  <2>1. CASE q = r
    BY <1>2, <2>1 DEF Confirmed, Alters, Asks, Kept
  <2>2. CASE q # r
    <3>1. reply'[q] = reply[q]
      BY <2>2 DEF Kept, Alone
    <3>2. CASE input[q].id = t /\ m # None
      <4>1. refers'[input[q].id] = m
        BY <1>2, <3>2
      <4> QED BY <1>1, <1>2, <1>3, <2>2, <3>1, <3>2, <4>1, KeptHistory DEF Confirmed
    <3>3. CASE ~(input[q].id = t /\ m # None)
      <4>1. Asks(q, "update", Child) => refers'[input[q].id] = refers[input[q].id]
        <5>1. Asks(q, "update", Child) => input[q].id \in Req
          BY InputShape DEF Asks, IInv, InFlight
        <5> QED BY <1>2, <3>3, <5>1
      <4> QED BY <1>1, <1>2, <3>1, <4>1, KeptHistory DEF Confirmed
    <3> QED BY <3>2, <3>3
  <2> QED BY <2>1, <2>2
<1> QED BY <1>5, <1>6, <1>7

(* a row is removed by the request that asked for it *)
LEMMA DropsMatches ==
  ASSUME IInv, History, NEW r \in Req, Kept(r), Drops(r), NEW q \in Req
  PROVE  OwnReply(q)' /\ Accounted(q)' /\ Confirmed(q)'
<1>1. OwnReply(q) /\ Accounted(q) /\ Confirmed(q)
  BY DEF History
<1>2. /\ rows' = rows \ {input[r].id} /\ UNCHANGED <<refers, input>>
      /\ MayBeGone(input[r].id, Child)'
  <2>1. Asks(r, "remove", Child)' /\ Took(r)'
    BY KeptHistory DEF Drops
  <2> QED BY <2>1 DEF Drops, Kept, MayBeGone
<1>3. CASE q = r
  BY <1>1, <1>2, <1>3, KeptHistory DEF OwnReply, Accounted, Confirmed, Drops, Asks
<1>4. CASE q # r
  <2>1. reply'[q] = reply[q]
    BY <1>4 DEF Kept, Alone
  <2>2. OwnReply(q)' /\ Confirmed(q)'
    BY <1>1, <1>2, <2>1, KeptHistory DEF OwnReply, Confirmed
  <2>3. Accounted(q)'
    BY <1>1, <1>2, KeptHistory DEF Accounted
  <2> QED BY <2>2, <2>3
<1> QED BY <1>3, <1>4

(* a motorcycle comes, gets its vin and goes by requests *)
LEMMA EffectExplains ==
  ASSUME IInv, History, NEW r \in Req, Kept(r), Effect(r), NEW b \in Motorcycle
  PROVE  Explains(b)'
<1>1. Explains(b) /\ UNCHANGED input
  BY DEF History, Kept
<1>2. KnownGone(b, {"Motorcycle"})' =>
        \/ bike[b] = "deleted"
        \/ Asks(r, "remove", {"Motorcycle"}) /\ input[r].id = b /\ reply'[r] = 200
  BY <1>1, KeptHistory DEF Explains
<1>3. CASE NoEffect(r) \/ Adds(r) \/ Alters(r) \/ Drops(r)
  <2>1. UNCHANGED <<bike, vin>>
    BY <1>3 DEF NoEffect, Adds, Store, Alters, Drops, tables
  <2>2. ~(Asks(r, "remove", {"Motorcycle"}) /\ reply'[r] = 200)
    BY <1>3 DEF NoEffect, Adds, Alters, Drops, Asks, Child
  <2> QED BY <1>1, <1>2, <2>1, <2>2, KeptHistory DEF Explains, Live
<1>4. CASE Inserts(r)
  <2>1. bike'[b] = IF b = r THEN "live" ELSE bike[b]
    BY <1>4 DEF Inserts, IInv, TypeOK
  <2>2. vin'[b] = IF b = r THEN input[r].vin ELSE vin[b]
    BY <1>4 DEF Inserts, IInv, TypeOK
  <2>3. GivenVin(r, input[r].vin)'
    <3>1. Asks(r, "create", {"Motorcycle"})' /\ Took(r)'
      BY <1>4, KeptHistory DEF Inserts
    <3> QED BY <1>1, <3>1 DEF GivenVin
  <2>4. ~KnownGone(b, {"Motorcycle"})' \/ bike[b] = "deleted"
    BY <1>2, <1>4 DEF Inserts, Asks
  <2>5. bike[r] = "unborn"
    BY DEF Kept, IInv, InFlight
  <2> QED BY <1>1, <2>1, <2>2, <2>3, <2>4, <2>5, KeptHistory DEF Explains, Live
<1>5. CASE Renames(r)
  <2>1. vin'[b] = IF b = input[r].id THEN input[r].vin ELSE vin[b]
    BY <1>5 DEF Renames, IInv, TypeOK
  <2>2. GivenVin(input[r].id, input[r].vin)'
    <3>1. Asks(r, "update", {"Motorcycle"})' /\ Took(r)'
      BY <1>5, KeptHistory DEF Renames
    <3> QED BY <1>1, <3>1 DEF GivenVin
  <2>3. ~KnownGone(b, {"Motorcycle"})' \/ bike[b] = "deleted"
    BY <1>2, <1>5 DEF Renames, Asks
  <2>4. UNCHANGED bike
    BY <1>5 DEF Renames
  <2> QED BY <1>1, <2>1, <2>2, <2>3, <2>4, KeptHistory DEF Explains, Live
<1>6. CASE Deletes(r)
  <2>1. bike'[b] = IF b = input[r].id THEN "deleted" ELSE bike[b]
    BY <1>6 DEF Deletes, IInv, TypeOK
  <2>2. MayBeGone(input[r].id, {"Motorcycle"})'
    <3>1. Asks(r, "remove", {"Motorcycle"})' /\ Took(r)'
      BY <1>6, KeptHistory DEF Deletes
    <3> QED BY <1>1, <3>1 DEF MayBeGone
  <2>3. UNCHANGED vin
    BY <1>6 DEF Deletes
  <2> QED BY <1>1, <1>2, <2>1, <2>2, <2>3, KeptHistory DEF Explains, Live
<1> QED BY <1>3, <1>4, <1>5, <1>6 DEF Effect

(* every handler *)
LEMMA StepHistory ==
  ASSUME IInv, History, NEW r \in Req, Step(r) \/ Fail(r)
  PROVE  History'
<1>1. Kept(r) /\ Effect(r)
  BY StepHasEffect
<1>2. ASSUME NEW q \in Req PROVE OwnReply(q)' /\ Accounted(q)' /\ Confirmed(q)'
  <2>1. CASE NoEffect(r) \/ Inserts(r) \/ Renames(r) \/ Deletes(r)
    <3>1. UNCHANGED <<rows, refers>> /\ (reply'[r] = 200 => input[r].table = "Motorcycle")
      BY <2>1 DEF NoEffect, Inserts, Renames, Deletes, tables, Asks
    <3> QED BY <1>1, <3>1, RowsUntouched
  <2> QED BY <1>1, <2>1, AddsMatches, AltersMatches, DropsMatches DEF Effect
<1>3. ASSUME NEW q \in Req PROVE Named(q)'
  <2>1. Progress /\ Named(q) /\ UNCHANGED input /\ (pc'[q] # "idle" => pc[q] # "idle")
    BY <1>1, EffectProgress DEF History, Kept, Alone
  <2>2. pc[q] # "idle" => input[q] \in Inputs
    BY DEF IInv, InFlight
  <2> QED BY <2>1, <2>2, InputShape DEF Named, Progress, Child, Motorcycle
<1> QED BY <1>1, <1>2, <1>3, EffectExplains DEF History, Motorcycle

(* a new request has done nothing yet, and names what was there *)
LEMMA SendHistory ==
  ASSUME IInv, History, NEW r \in Req, Send(r)
  PROVE  History'
<1>1. PICK i \in Inputs : Known(i) /\ input' = [input EXCEPT ![r] = i]
  BY DEF Send
<1>2. /\ pc[r] = "idle" /\ UNCHANGED <<bike, vin, rows, refers, reply>>
      /\ input'[r] = i
      /\ \A q \in Req \ {r} : input'[q] = input[q] /\ pc'[q] = pc[q]
  BY <1>1 DEF Send, tables, IInv, TypeOK
<1>3. refers[r] = None /\ reply[r] \notin {200, 500} /\ i \in Inputs
  BY <1>2, WorkshopAssumption DEF IInv, InFlight, Codes
<1>4. /\ \A q \in Req : (Took(q) => Took(q)' /\ q # r) /\ (Took(q)' => Took(q))
      /\ \A q \in Req \ {r} : \A op, T : Asks(q, op, T)' <=> Asks(q, op, T)
  BY <1>2, <1>3 DEF Took, Asks
<1>5. /\ \A x, T : MayBeGone(x, T) => MayBeGone(x, T)'
      /\ \A x, T : KnownGone(x, T)' => KnownGone(x, T)
      /\ \A q \in Req \ {r} : \A t, m : Moves(q, t, m) => Moves(q, t, m)'
      /\ \A t, m : ~Moves(r, t, m)
      /\ \A b, v : GivenVin(b, v) => GivenVin(b, v)'
  <2>1. ASSUME NEW x, NEW T, MayBeGone(x, T) PROVE MayBeGone(x, T)'
    <3>1. PICK q \in Req : Asks(q, "remove", T) /\ input[q].id = x /\ Took(q)
      BY <2>1 DEF MayBeGone
    <3>2. Asks(q, "remove", T)' /\ input'[q].id = x /\ Took(q)'
      <4>1. Took(q)' /\ q # r
        BY <1>4, <3>1
      <4> QED BY <1>2, <3>1, <4>1 DEF Asks
    <3> QED BY <3>2 DEF MayBeGone
  <2>2. \A x, T : KnownGone(x, T)' => KnownGone(x, T)
    BY <1>2, <1>3, <1>4 DEF KnownGone
  <2>3. \A q \in Req \ {r} : \A t, m : Moves(q, t, m) => Moves(q, t, m)'
    BY <1>2, <1>4 DEF Moves, Child
  <2>4. \A t, m : ~Moves(r, t, m)
    BY <1>3 DEF Moves, Took
  <2>5. \A b, v : GivenVin(b, v) => GivenVin(b, v)'
    BY <1>2, <1>3, <1>4 DEF GivenVin, Took
  <2> QED BY <2>1, <2>2, <2>3, <2>4, <2>5
<1>6. ASSUME NEW q \in Req PROVE OwnReply(q)' /\ Accounted(q)' /\ Confirmed(q)'
  <2>1. OwnReply(q) /\ Accounted(q) /\ Confirmed(q)
    BY DEF History
  <2>2. CASE q = r
    BY <1>2, <1>3, <2>2 DEF OwnReply, Accounted, Confirmed
  <2>3. CASE q # r
    <3>1. input'[q] = input[q] /\ UNCHANGED <<rows, refers, reply>>
      BY <1>2, <2>3
    <3> QED BY <1>4, <1>5, <2>1, <2>3, <3>1 DEF OwnReply, Accounted, Confirmed
  <2> QED BY <2>2, <2>3
<1>7. ASSUME NEW q \in Req PROVE Named(q)'
  <2>1. CASE q = r
    BY <1>1, <1>2, <1>3, <2>1, InputShape DEF Named, Known, Shown, Child
  <2>2. CASE q # r
    BY <1>2, <2>2 DEF History, Named, Child, Motorcycle
  <2> QED BY <2>1, <2>2
<1>8. ASSUME NEW b \in Motorcycle PROVE Explains(b)'
  BY <1>2, <1>5 DEF History, Explains, Live
<1> QED BY <1>6, <1>7, <1>8 DEF History, Motorcycle

(* the replies of a run, and the tables, tell one story *)
LEMMA HistoryHolds == Spec => []History
<1>1. Init => History
  <2> SUFFICES ASSUME Init PROVE History
    OBVIOUS
  <2>1. \A r \in Req : pc[r] = "idle" /\ refers[r] = None
    BY DEF Init
  <2>2. \A b \in Motorcycle : /\ bike[b] # "deleted"
                              /\ Live(b) => b \in Existing
    BY DEF Init, Live
  <2>3. \A r \in Req : OwnReply(r) /\ Accounted(r) /\ Confirmed(r) /\ Named(r)
    BY <2>1 DEF OwnReply, Accounted, Confirmed, Named, Asks
  <2>4. \A b \in Motorcycle : Explains(b)
    BY <2>1, <2>2 DEF Explains, KnownGone, GivenVin, Asks
  <2> QED BY <2>3, <2>4 DEF History
<1>2. IInv /\ History /\ [Next]_vars => History'
  <2> SUFFICES ASSUME IInv, History, [Next]_vars PROVE History'
    OBVIOUS
  <2>1. CASE UNCHANGED vars
    <3>1. UNCHANGED <<bike, vin, rows, refers, input, pc, reply>>
      BY <2>1 DEF vars
    <3> QED BY <3>1 DEF History, OwnReply, Accounted, Confirmed, Named, Explains, MayBeGone,
                        KnownGone, Moves, GivenVin, Asks, Took, Live
  <2> QED BY <2>1, SendHistory, StepHistory DEF Next, Rest
<1> QED BY <1>1, <1>2, Inductive, PTL DEF Spec

(* For any number of requests: what was confirmed is so until somebody     *)
(* undoes it, and rows come, go and move by requests that asked for it     *)
(* (appointments.service.ts:12-42, services.service.ts:16-60).             *)
THEOREM RowsAreAccounted == Spec => []RepliesMatchRows
<1>1. History => RepliesMatchRows
  BY DEF History, OwnReply, Accounted, Confirmed, RepliesMatchRows
<1> QED BY <1>1, HistoryHolds, PTL

(* an answer that is explained is the only one of its step *)
LEMMA OneAnswer ==
  ASSUME TypeOK, NEW r \in Req, NEW code, Answer(r, code), Explained(r, code)
  PROVE  \A q \in Req : reply'[q] # reply[q] => Explained(q, reply'[q])
BY DEF Answer, TypeOK

(* a motorcycle that a request names was there, so a request took it *)
LEMMA GoneMotorcycle ==
  ASSUME IInv, History, NEW b \in Motorcycle, bike[b] # "unborn", ~Live(b)
  PROVE  MayBeGone(b, {"Motorcycle"})
<1>1. bike[b] = "deleted"
  BY DEF IInv, TypeOK, Live
<1> QED BY <1>1 DEF History, Explains

(* and so with a row *)
LEMMA GoneRow ==
  ASSUME History, NEW t \in Req, refers[t] # None, t \notin rows
  PROVE  MayBeGone(t, Child)
BY DEF History, Accounted

(* what is there is not known to be gone *)
LEMMA StillThere ==
  ASSUME History
  PROVE  /\ \A b \in Motorcycle : Live(b) => ~KnownGone(b, {"Motorcycle"}) /\ GivenVin(b, vin[b])
         /\ \A t \in rows : ~KnownGone(t, Child)
<1>1. \A t \in rows : ~KnownGone(t, Child)
  BY DEF History, Confirmed, KnownGone
<1>2. \A b \in Motorcycle : Live(b) => ~KnownGone(b, {"Motorcycle"}) /\ GivenVin(b, vin[b])
  BY DEF History, Explains, Live
<1> QED BY <1>1, <1>2

(* a row that restricts a DELETE was put there by requests *)
LEMMA ReferencedByRequest ==
  ASSUME IInv, History, NEW b, Referenced(b)
  PROVE  \E t \in Req : MayReferTo(t, b)
<1>1. PICK t \in rows : refers[t] = b
  BY DEF Referenced
<1>2. t \in Req /\ refers[t] # None /\ ~KnownGone(t, Child)
  BY <1>1, StillThere DEF IInv, TypeOK, ReferencesHold
<1>3. Asks(t, "create", Child)
  BY <1>2 DEF IInv, InFlight, Asks
<1>4. Took(t) /\ (b = input[t].motorcycle \/ \E q \in Req : Moves(q, t, b))
  BY <1>1, <1>2, <1>3 DEF History, OwnReply, Accounted
<1> QED BY <1>2, <1>3, <1>4 DEF MayReferTo

(* a vin is taken by a motorcycle that was given it *)
LEMMA TakenByRequest ==
  ASSUME IInv, History, NEW v, NEW b, Taken(v, b)
  PROVE  \E c \in Motorcycle \ {b} : /\ vin[c] = v /\ GivenVin(c, v)
                                    /\ ~KnownGone(c, {"Motorcycle"})
BY StillThere DEF Taken

(* every handler refuses for a cause *)
LEMMA StepExplained ==
  ASSUME IInv, History, NEW r \in Req, Step(r) \/ Fail(r)
  PROVE  \A q \in Req : reply'[q] # reply[q] => Explained(q, reply'[q])
<1> DEFINE Claim == \A q \in Req : reply'[q] # reply[q] => Explained(q, reply'[q])
           i == input[r]
<1>1. pc[r] \notin {"idle", "done"} /\ i \in Inputs /\ Named(r) /\ TypeOK
  BY DEF Step, Fail, Check, CreateMotorcycle, UpdateMotorcycle, RemoveMotorcycle, InsertRow,
         OpenTransaction, EndTransaction, UpdateRow, RemoveRow, Writes, IInv, InFlight, History
<1>2. ASSUME NEW code, Refuse(r, code), Explained(r, code) PROVE Claim
  BY <1>1, <1>2, OneAnswer DEF Refuse
<1>3. ASSUME NEW label, Goto(r, label) PROVE Claim
  BY <1>3 DEF Goto
<1>4. ASSUME Acknowledge(r) PROVE Claim
  <2>1. PICK code \in {200, 500} : Answer(r, code)
    BY <1>4 DEF Acknowledge
  <2> QED BY <1>1, <2>1, OneAnswer DEF Explained
<1>5. Explained(r, 500)
  BY DEF Explained
<1>6. ASSUME i.op \in {"create", "update"}, i.table \in Child, i.motorcycle \in Motorcycle,
             ~Live(i.motorcycle)
      PROVE  MayBeGone(i.motorcycle, {"Motorcycle"})
  <2>1. bike[i.motorcycle] # "unborn"
    BY <1>1, <1>6 DEF Named, Child
  <2> QED BY <1>6, <2>1, GoneMotorcycle
<1>7. ASSUME i.op \in {"update", "remove"}, i.table \in Child, i.id \notin rows
      PROVE  Explained(r, 404)
  <2>1. i.id \in Req /\ refers[i.id] # None
    BY <1>1, <1>7, InputShape DEF Named
  <2> QED BY <1>7, <2>1, GoneRow DEF Explained
<1>8. ASSUME i.op \in {"update", "remove"}, i.table = "Motorcycle", ~Live(i.id)
      PROVE  Explained(r, 404)
  <2>1. i.id \in Motorcycle /\ bike[i.id] # "unborn"
    BY <1>1, <1>8, InputShape DEF Named
  <2> QED BY <1>8, <2>1, GoneMotorcycle DEF Explained
<1>9. CASE Check(r)
  <2>1. i.op \in {"create", "update"} /\ i.table \in Child /\ i.motorcycle \in Motorcycle
        /\ LooksUp(i)
    BY <1>1, <1>9, InputShape DEF Check, IInv, InFlight, LooksUp, Child
  <2>2. ~Live(i.motorcycle) => Explained(r, 404)
    BY <1>6, <2>1 DEF Explained
  <2> QED BY <1>2, <1>3, <1>9, <2>2 DEF Check
<1>10. CASE CreateMotorcycle(r)
  <2>1. Taken(i.vin, r) => Explained(r, 409)
    BY <1>10, TakenByRequest DEF CreateMotorcycle, Writes, Explained
  <2> QED BY <1>2, <1>4, <1>10, <2>1 DEF CreateMotorcycle
<1>11. CASE UpdateMotorcycle(r)
  <2>1. Taken(i.vin, i.id) => Explained(r, 409)
    BY <1>11, TakenByRequest DEF UpdateMotorcycle, Writes, Explained
  <2>2. ~Live(i.id) => Explained(r, 404)
    BY <1>8, <1>11 DEF UpdateMotorcycle, Writes
  <2> QED BY <1>2, <1>4, <1>5, <1>11, <2>1, <2>2 DEF UpdateMotorcycle
<1>12. CASE RemoveMotorcycle(r)
  <2>1. ~Live(i.id) => Explained(r, 404)
    BY <1>8, <1>12 DEF RemoveMotorcycle, Writes
  <2>2. Referenced(i.id) => Explained(r, 422)
    BY <1>12, ReferencedByRequest DEF RemoveMotorcycle, Writes, Explained
  <2> QED BY <1>2, <1>4, <1>12, <2>1, <2>2 DEF RemoveMotorcycle
<1>13. CASE InsertRow(r) \/ OpenTransaction(r)
  <2>1. i.op = "create" /\ i.table \in Child /\ i.motorcycle \in Motorcycle
    BY <1>1, <1>13, InputShape DEF InsertRow, OpenTransaction, Writes
  <2>2. ~Live(i.motorcycle) => Explained(r, 422)
    BY <1>6, <2>1 DEF Explained
  <2> QED BY <1>2, <1>3, <1>4, <1>13, <2>2 DEF InsertRow, OpenTransaction
<1>14. CASE EndTransaction(r)
  <2>1. RefusedForSupplies(r)
    <3>1. i.motorcycle \in Motorcycle /\ Live(i.motorcycle)
      BY <1>1, <1>14, InputShape DEF EndTransaction, IInv, InFlight, ReferencesHold, Child
    <3> QED BY <1>14, <3>1, StillThere DEF EndTransaction, RefusedForSupplies
  <2>2. \A code \in {404, 409, 500} : Explained(r, code)
    BY <2>1 DEF Explained
  <2> QED BY <1>2, <1>4, <1>14, <2>2 DEF EndTransaction
<1>15. CASE UpdateRow(r)
  <2>1. i.id \notin rows => Explained(r, 404)
    BY <1>7, <1>15 DEF UpdateRow, Writes
  <2>2. i.motorcycle \in Motorcycle /\ ~Live(i.motorcycle) => Explained(r, 422)
    BY <1>6, <1>15 DEF UpdateRow, Writes, Explained
  <2> QED BY <1>2, <1>4, <1>5, <1>15, <2>1, <2>2 DEF UpdateRow
<1>16. CASE RemoveRow(r)
  <2>1. i.id \notin rows => Explained(r, 404)
    BY <1>7, <1>16 DEF RemoveRow, Writes
  <2> QED BY <1>2, <1>4, <1>16, <2>1 DEF RemoveRow
<1>17. CASE Fail(r)
  BY <1>2, <1>5, <1>17 DEF Fail
<1> QED
  BY <1>9, <1>10, <1>11, <1>12, <1>13, <1>14, <1>15, <1>16, <1>17 DEF Step

(* prisma-exception.filter.ts, not-found.ts: for any number of requests, a *)
(* refusal is accounted for by what other requests did, or may have done.  *)
THEOREM RefusalsAreExplained == Spec => RefusalsExplained
<1>1. IInv /\ History /\ [Next]_vars =>
        [\A r \in Req : reply'[r] # reply[r] => Explained(r, reply'[r])]_vars
  <2> SUFFICES ASSUME IInv, History, Next
               PROVE  \A r \in Req : reply'[r] # reply[r] => Explained(r, reply'[r])
    OBVIOUS
  <2>1. ASSUME NEW r \in Req, Send(r)
        PROVE  \A q \in Req : reply'[q] # reply[q] => Explained(q, reply'[q])
    BY <2>1 DEF Send
  <2>2. CASE Rest
    BY <2>2 DEF Rest, vars
  <2> QED BY <2>1, <2>2, StepExplained DEF Next
<1> QED BY <1>1, Inductive, HistoryHolds, PTL DEF Spec, RefusalsExplained
=============================================================================
