------------------------------ MODULE Workshop ------------------------------
(***************************************************************************)
(* Motorcycles and the rows that refer to them: MotorcyclesService,        *)
(* AppointmentsService, and ServicesService as far as the motorcycle goes. *)
(*                                                                         *)
(* A handler that names a motorcycle looks it up and, after an await,      *)
(* writes; the foreign key decides again.  The transaction of a service    *)
(* with supplies stays open over many awaits, and from its insert on it    *)
(* holds a share lock on the motorcycle (TenantSchema says what the supply *)
(* lines do meanwhile).  All other writes are single statements.           *)
(***************************************************************************)
EXTENDS Naturals

CONSTANTS
  Req,        \* HTTP requests; a row created by request r has id r
  Existing,   \* the motorcycles there are at the start
  Vin,
  None,       \* a property the body does not have, SQL NULL
  Null,       \* a property the body sets to null: IsOptional lets it pass
  Inputs      \* the requests clients send (a bound: a subset of Input)

Motorcycle == Existing \cup Req
Child == {"Service", "Appointment"}    \* the tables that refer to a motorcycle

Input ==
  [op: {"create"}, table: {"Motorcycle"}, vin: Vin]
    \cup [op: {"update"}, table: {"Motorcycle"}, id: Motorcycle, vin: Vin \cup {None, Null}]
    \cup [op: {"remove"}, table: {"Motorcycle"}, id: Motorcycle]
    \cup [op: {"create"}, table: {"Service"}, motorcycle: Motorcycle, supplies: BOOLEAN]
    \cup [op: {"create"}, table: {"Appointment"}, motorcycle: Motorcycle, supplies: {FALSE}]
    \cup [op: {"update"}, table: Child, id: Req, motorcycle: Motorcycle \cup {None, Null}]
    \cup [op: {"remove"}, table: Child, id: Req]

Codes == {200, 404, 409, 422, 500}    \* HTTP statuses, 200 for any success

ASSUME WorkshopAssumption ==
  /\ None # Null /\ {None, Null} \cap (Existing \cup Req \cup Vin \cup Codes) = {}
  /\ Existing \cap Req = {}
  /\ Inputs \subseteq Input

VARIABLES
  bike,      \* bike[b]: is there a committed row b in Motorcycle?
  vin,
  rows,      \* the ids of the committed Service and Appointment rows
  refers,    \* refers[t]: the motorcycleId of row t, the last it had if it is deleted
  input, pc, \* pc[r]: where the handler of r is
  reply      \* reply[r]: the HTTP status r was answered with

tables == <<bike, vin, rows, refers>>
vars == <<bike, vin, rows, refers, input, pc, reply>>

NoInput == [op |-> "none", table |-> "none"]

TypeOK ==
  /\ bike \in [Motorcycle -> {"unborn", "live", "deleted"}]
  /\ vin \in [Motorcycle -> Vin \cup {None}]
  /\ rows \subseteq Req
  /\ refers \in [Req -> Motorcycle \cup {None}]
  /\ input \in [Req -> Inputs \cup {NoInput}]
  /\ pc \in [Req -> {"idle", "check", "write", "open", "done"}]
  /\ reply \in [Req -> Codes \cup {None}]

Init ==
  /\ bike = [b \in Motorcycle |-> IF b \in Existing THEN "live" ELSE "unborn"]
  /\ vin \in {v \in [Motorcycle -> Vin \cup {None}] :
                /\ \A b \in Motorcycle : v[b] = None <=> b \notin Existing
                /\ \A b, c \in Existing : v[b] = v[c] => b = c}
  /\ rows = {}
  /\ refers = [r \in Req |-> None]
  /\ input = [r \in Req |-> NoInput]
  /\ pc = [r \in Req |-> "idle"]
  /\ reply = [r \in Req |-> None]
-----------------------------------------------------------------------------
(* Requests and replies *)

Live(b) == bike[b] = "live"

(* An assumption about clients: the ids they send are of rows that were     *)
(* there once, and may be gone by now.                                     *)
Shown(b) == b \in Motorcycle => bike[b] # "unborn"
Known(i) ==
  /\ i.op = "create" /\ i.table \in Child => Shown(i.motorcycle)
  /\ i.op \in {"update", "remove"} /\ i.table = "Motorcycle" => Shown(i.id)
  /\ i.op \in {"update", "remove"} /\ i.table \in Child =>
       refers[i.id] # None /\ input[i.id].table = i.table
  /\ i.op = "update" /\ i.table \in Child => Shown(i.motorcycle)

(* the handlers that begin with assertMotorcycleExists; that of a PATCH of *)
(* a service does not, and null is no motorcycle to look for               *)
LooksUp(i) == \/ i.op = "create" /\ i.table \in Child
              \/ i.op = "update" /\ i.table = "Appointment" /\ i.motorcycle \in Motorcycle

Send(r) == /\ pc[r] = "idle"
           /\ \E i \in Inputs :
                /\ Known(i)
                /\ input' = [input EXCEPT ![r] = i]
                /\ pc' = [pc EXCEPT ![r] = IF LooksUp(i) THEN "check" ELSE "write"]
           /\ UNCHANGED <<tables, reply>>

Goto(r, label) == /\ pc' = [pc EXCEPT ![r] = label]
                  /\ UNCHANGED <<input, reply>>

Answer(r, code) == /\ pc' = [pc EXCEPT ![r] = "done"]
                   /\ reply' = [reply EXCEPT ![r] = code]
                   /\ UNCHANGED input

(* a committed write; the client reads 500 if the connection is lost now *)
Acknowledge(r) == \E code \in {200, 500} : Answer(r, code)

Refuse(r, code) == Answer(r, code) /\ UNCHANGED tables

Writes(r, op, T) == pc[r] = "write" /\ input[r].op = op /\ input[r].table \in T

(* assertMotorcycleExists *)
Check(r) == /\ pc[r] = "check"
            /\ \/ Live(input[r].motorcycle) /\ Goto(r, "write") /\ UNCHANGED tables
               \/ ~Live(input[r].motorcycle) /\ Refuse(r, 404)
-----------------------------------------------------------------------------
(* MotorcyclesService *)

(* mutant: the index is not unique *)
MutTakenNever(v, b) == FALSE

(* Motorcycle.vin is unique *)
Taken(v, b) == \E c \in Motorcycle \ {b} : Live(c) /\ vin[c] = v

(* mutants: the lock outlives its transaction; there is none *)
MutHeldForever(b) == \E r \in Req : /\ pc[r] \in {"open", "done"} /\ input[r].op = "create"
                                    /\ input[r].table = "Service" /\ input[r].supplies
                                    /\ input[r].motorcycle = b
MutHeldNever(b) == FALSE

(* an open transaction has a share lock on b, for its Service's key *)
Held(b) == \E r \in Req : pc[r] = "open" /\ input[r].motorcycle = b

(* mutants: appointments do not restrict; a row that is gone restricts *)
MutReferenced(b) == \E t \in rows : refers[t] = b /\ input[t].table = "Service"
MutReferencedOnce(b) == \E t \in Req : refers[t] = b

(* both foreign keys are ON DELETE RESTRICT *)
Referenced(b) == \E t \in rows : refers[t] = b

CreateMotorcycle(r) ==
  /\ Writes(r, "create", {"Motorcycle"})
  /\ \/ Taken(input[r].vin, r) /\ Refuse(r, 409)
     \/ /\ ~Taken(input[r].vin, r)
        /\ bike' = [bike EXCEPT ![r] = "live"]
        /\ vin' = [vin EXCEPT ![r] = input[r].vin]
        /\ Acknowledge(r)
        /\ UNCHANGED <<rows, refers>>

(* a change of the vin, a unique key, waits for share locks *)
UpdateMotorcycle(r) ==
  /\ Writes(r, "update", {"Motorcycle"})
  /\ LET b == input[r].id
         v == input[r].vin IN
     \/ v = Null /\ Refuse(r, 500)
     \/ v # Null /\ ~Live(b) /\ Refuse(r, 404)
     \/ v \in {None, vin[b]} /\ Live(b) /\ Acknowledge(r) /\ UNCHANGED tables
     \/ /\ v \in Vin \ {vin[b]} /\ Live(b) /\ ~Held(b)
        /\ \/ Taken(v, b) /\ Refuse(r, 409)
           \/ /\ ~Taken(v, b)
              /\ vin' = [vin EXCEPT ![b] = v]
              /\ Acknowledge(r)
              /\ UNCHANGED <<bike, rows, refers>>

RemoveMotorcycle(r) ==
  /\ Writes(r, "remove", {"Motorcycle"})
  /\ LET b == input[r].id IN
     \/ ~Live(b) /\ Refuse(r, 404)
     \/ Live(b) /\ ~Held(b) /\ Referenced(b) /\ Refuse(r, 422)
     \/ /\ Live(b) /\ ~Held(b) /\ ~Referenced(b)
        /\ bike' = [bike EXCEPT ![b] = "deleted"]
        /\ Acknowledge(r)
        /\ UNCHANGED <<vin, rows, refers>>
-----------------------------------------------------------------------------
(* AppointmentsService, ServicesService *)

Store(r) == /\ rows' = rows \cup {r}
            /\ refers' = [refers EXCEPT ![r] = input[r].motorcycle]
            /\ UNCHANGED <<bike, vin>>

(* an appointment, or a service without supplies *)
InsertRow(r) ==
  /\ Writes(r, "create", Child) /\ ~input[r].supplies
  /\ \/ ~Live(input[r].motorcycle) /\ Refuse(r, 422)
     \/ Live(input[r].motorcycle) /\ Store(r) /\ Acknowledge(r)

(* mutant: the row is inserted on this.prisma instead of tx *)
MutOpenTransaction(r) ==
  /\ Writes(r, "create", Child) /\ input[r].supplies
  /\ \/ ~Live(input[r].motorcycle) /\ Refuse(r, 422)
     \/ Live(input[r].motorcycle) /\ Store(r) /\ Goto(r, "open")

(* $transaction begins and inserts the Service row, invisible as yet *)
OpenTransaction(r) ==
  /\ Writes(r, "create", Child) /\ input[r].supplies
  /\ \/ ~Live(input[r].motorcycle) /\ Refuse(r, 422)
     \/ Live(input[r].motorcycle) /\ Goto(r, "open") /\ UNCHANGED tables

(* the transaction ends: all supply lines were covered, or one was not *)
EndTransaction(r) ==
  /\ pc[r] = "open"
  /\ \/ Store(r) /\ Acknowledge(r)
     \/ \E code \in {404, 409, 500} : Refuse(r, code)

(* mutant: the columns not in the patch are reset *)
MutMoved(t, m) == [refers EXCEPT ![t] = IF m = None THEN None ELSE m]

Moved(t, m) == IF m = None THEN refers ELSE [refers EXCEPT ![t] = m]

UpdateRow(r) ==
  /\ Writes(r, "update", Child)
  /\ LET t == input[r].id
         m == input[r].motorcycle IN
     \/ m = Null /\ Refuse(r, 500)
     \/ m # Null /\ t \notin rows /\ Refuse(r, 404)
     \/ m \in Motorcycle /\ t \in rows /\ ~Live(m) /\ Refuse(r, 422)
     \/ /\ m = None \/ (m \in Motorcycle /\ Live(m))
        /\ t \in rows
        /\ refers' = Moved(t, m)
        /\ Acknowledge(r)
        /\ UNCHANGED <<bike, vin, rows>>

RemoveRow(r) ==
  /\ Writes(r, "remove", Child)
  /\ LET t == input[r].id IN
     \/ t \notin rows /\ Refuse(r, 404)
     \/ t \in rows /\ rows' = rows \ {t} /\ Acknowledge(r) /\ UNCHANGED <<bike, vin, refers>>

(* a lost connection, a timeout, the end of the process *)
Fail(r) == pc[r] \notin {"idle", "done"} /\ Refuse(r, 500)

Step(r) == \/ Check(r)
           \/ CreateMotorcycle(r) \/ UpdateMotorcycle(r) \/ RemoveMotorcycle(r)
           \/ InsertRow(r) \/ OpenTransaction(r) \/ EndTransaction(r)
           \/ UpdateRow(r) \/ RemoveRow(r)

Rest == (\A r \in Req : pc[r] = "done") /\ UNCHANGED vars

Next == (\E r \in Req : Send(r) \/ Step(r) \/ Fail(r)) \/ Rest

Spec == Init /\ [][Next]_vars
-----------------------------------------------------------------------------
(* Properties *)

(* bikes.prisma: every service and appointment has its motorcycle, and so  *)
(* has a service that is still being written, whatever is deleted or moved *)
(* between a handler's check and its write.                                *)
ReferencesHold ==
  /\ \A t \in rows : refers[t] # None /\ Live(refers[t])
  /\ \A r \in Req : pc[r] = "open" => Live(input[r].motorcycle)

(* bikes.prisma:3: creates and patches that race for a vin leave it with   *)
(* one motorcycle.                                                         *)
VinUnique == \A b, c \in {m \in Motorcycle : Live(m)} : vin[b] = vin[c] => b = c

(* where the requests in flight are, and what they have not yet created *)
InFlight ==
  /\ \A r \in Req :
       /\ pc[r] # "idle" => input[r] \in Inputs
       /\ pc[r] = "check" => LooksUp(input[r])
       /\ pc[r] = "open" => /\ input[r].op = "create" /\ input[r].table = "Service"
                            /\ input[r].supplies
       /\ pc[r] # "done" => reply[r] = None /\ refers[r] = None /\ bike[r] = "unborn"
       /\ refers[r] # None => input[r].op = "create" /\ input[r].table \in Child
  /\ \A b \in Motorcycle : Live(b) => vin[b] # None

(* the inductive invariant *)
IInv == TypeOK /\ ReferencesHold /\ VinUnique /\ InFlight

(* r may have had an effect *)
Took(r) == reply[r] \in {200, 500}

Asks(r, op, T) == pc[r] # "idle" /\ input[r].op = op /\ input[r].table \in T

(* x was removed from T as far as its clients can tell: perhaps, surely *)
MayBeGone(x, T) == \E q \in Req : Asks(q, "remove", T) /\ input[q].id = x /\ Took(q)
KnownGone(x, T) == \E q \in Req : Asks(q, "remove", T) /\ input[q].id = x /\ reply[q] = 200

(* q may have moved row t to motorcycle m *)
Moves(q, t, m) == Asks(q, "update", Child) /\ Took(q) /\ input[q].id = t /\ input[q].motorcycle = m

(* Rows come and go, and move to another motorcycle, by requests that were *)
(* not refused; what was confirmed, a new row, a move or a removal, is so  *)
(* until somebody else undoes it.                                          *)
RepliesMatchRows ==
  \A r \in Req :
    /\ Asks(r, "create", Child) =>
         /\ refers[r] # None => Took(r)
         /\ reply[r] = 200 => refers[r] # None
    /\ refers[r] # None =>
         /\ r \in rows \/ MayBeGone(r, Child)
         /\ refers[r] = input[r].motorcycle \/ \E q \in Req : Moves(q, r, refers[r])
    /\ Asks(r, "update", Child) /\ reply[r] = 200 /\ input[r].motorcycle # None =>
         LET m == refers[input[r].id]
         IN  m = input[r].motorcycle \/ \E q \in Req \ {r} : Moves(q, input[r].id, m)
    /\ Asks(r, "remove", Child) /\ reply[r] = 200 => input[r].id \notin rows

(* vin v was given to motorcycle b, by its create or by a PATCH *)
GivenVin(b, v) ==
  \/ b \in Existing
  \/ \E q \in Req : /\ Took(q) /\ input[q].vin = v
                     /\ \/ Asks(q, "create", {"Motorcycle"}) /\ q = b
                        \/ Asks(q, "update", {"Motorcycle"}) /\ input[q].id = b

(* row t was created for motorcycle b, or moved to it, by a request that   *)
(* may have had an effect, and nobody was told that it is gone             *)
MayReferTo(t, b) ==
  /\ Asks(t, "create", Child) /\ Took(t) /\ ~KnownGone(t, Child)
  /\ input[t].motorcycle = b \/ \E q \in Req : Moves(q, t, b)

(* a line of a service was refused, whose motorcycle is still there *)
RefusedForSupplies(r) == pc[r] = "open" /\ ~KnownGone(input[r].motorcycle, {"Motorcycle"})

(* what others asked for, and were told, explains that r is refused *)
Explained(r, code) ==
  LET i == input[r]
      own == IF i.op = "create" THEN r ELSE i.id
  IN
  CASE code = 404 -> \/ i.table = "Motorcycle" /\ MayBeGone(i.id, {"Motorcycle"})
                     \/ i.table \in Child /\ i.op # "create" /\ MayBeGone(i.id, Child)
                     \/ LooksUp(i) /\ MayBeGone(i.motorcycle, {"Motorcycle"})
                     \/ RefusedForSupplies(r)
    [] code = 409 -> \/ /\ i.table = "Motorcycle"
                        /\ \E b \in Motorcycle \ {own} :
                             /\ vin[b] = i.vin /\ GivenVin(b, i.vin)
                             /\ ~KnownGone(b, {"Motorcycle"})
                     \/ RefusedForSupplies(r)
    [] code = 422 -> \/ i.table \in Child /\ MayBeGone(i.motorcycle, {"Motorcycle"})
                     \/ i.table = "Motorcycle" /\ \E t \in Req : MayReferTo(t, i.id)
    [] OTHER -> TRUE

(* Nobody is refused without a cause that other requests account for: a    *)
(* row is missing only if a removal of it may have taken effect, a DELETE  *)
(* is restricted only by a row that somebody put there and nobody was told *)
(* is gone, a vin is taken only by a motorcycle that was given it and is   *)
(* not known to be gone (not-found.ts, prisma-exception.filter.ts:29-50).  *)
RefusalsExplained == [][\A r \in Req : reply'[r] # reply[r] => Explained(r, reply'[r])]_vars
=============================================================================
