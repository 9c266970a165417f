------------------------------ MODULE Accounts ------------------------------
(***************************************************************************)
(* What registration and login promise, with no transactions, index        *)
(* entries, passwords or attempts: an account is opened whole, a tenant    *)
(* with its owner; its email is never taken over; only a tenant whose      *)
(* schema has been migrated becomes READY; and what a client is told, an   *)
(* account or a token, is about the tenant of the email it has given.      *)
(* Provisioning implements this specification (AccountSpec there).         *)
(***************************************************************************)
CONSTANTS Req, Email, None

VARIABLES
  tenants,    \* a tenant has the name of the request that registered it
  owner,      \* owner[e]: the tenant of the account with email e
  migrated,   \* the tenants whose schema has been migrated, by some release
  ready,      \* the tenants whose status is READY
  told        \* told[r]: what r was told it has

vars == <<tenants, owner, migrated, ready, told>>

Nothing == [email |-> None, tenant |-> None, token |-> FALSE]

Init == /\ tenants = {} /\ migrated = {} /\ ready = {}
        /\ owner = [e \in Email |-> None]
        /\ told = [r \in Req |-> Nothing]

Open(e, t) == /\ owner[e] = None /\ t \notin tenants
              /\ tenants' = tenants \cup {t}
              /\ owner' = [owner EXCEPT ![e] = t]
              /\ UNCHANGED <<migrated, ready, told>>

Migrate(t) == /\ t \in tenants
              /\ migrated' = migrated \cup {t}
              /\ UNCHANGED <<tenants, owner, ready, told>>

(* an attempt for t ends: READY, FAILED, or its last write is lost *)
Mark(t) == \/ ready' = ready \ {t}
           \/ t \in migrated /\ ready' = ready \cup {t}
           \/ UNCHANGED ready

(* r, about its own email e: an account it has registered, or a token *)
Tell(r, e) ==
  /\ told[r] = Nothing
  /\ \E token \in BOOLEAN :
       /\ IF token THEN owner[e] \in migrated ELSE owner[e] = r
       /\ told' = [told EXCEPT ![r] = [email |-> e, tenant |-> owner[e], token |-> token]]

Drive(e) == /\ owner[e] \in tenants
            /\ Mark(owner[e])
            /\ (\E r \in Req : Tell(r, e)) \/ UNCHANGED told
            /\ UNCHANGED <<tenants, owner, migrated>>

Next == \/ \E t \in Req : Migrate(t) \/ \E e \in Email : Open(e, t)
        \/ \E e \in Email : Drive(e)

Spec == Init /\ [][Next]_vars
=============================================================================
