---------------------------- MODULE TenantAccess ----------------------------
(***************************************************************************)
(* What tenant routing promises, with no tokens, clients or pools: a       *)
(* request is granted, once, the schema its user belongs to at that        *)
(* moment, and reads or writes no other, however long it runs and whoever  *)
(* else is served.  TenantRouting implements this (AccessSpec there).      *)
(***************************************************************************)
CONSTANTS Request, User, Schema, None

VARIABLES
  member,    \* member[u]: the schema of the tenant of u, None if u is not a user
  user,      \* user[r]: who sent r, None before that
  granted,   \* granted[r]: the schema r may use
  touched    \* touched[r]: the schemas the queries of r ran in

vars == <<member, user, granted, touched>>

Init == /\ member \in [User -> Schema]
        /\ user = [r \in Request |-> None]
        /\ granted = [r \in Request |-> None]
        /\ touched = [r \in Request |-> {}]

Move(u) == /\ member[u] # None
           /\ \E s \in Schema \cup {None} : member' = [member EXCEPT ![u] = s]
           /\ UNCHANGED <<user, granted, touched>>

Send(r) == /\ user[r] = None
           /\ \E u \in User : user' = [user EXCEPT ![r] = u]
           /\ UNCHANGED <<member, granted, touched>>

Grant(r) == /\ user[r] # None /\ granted[r] = None /\ member[user[r]] # None
            /\ granted' = [granted EXCEPT ![r] = member[user[r]]]
            /\ UNCHANGED <<member, user, touched>>

Touch(r) == /\ granted[r] # None
            /\ touched' = [touched EXCEPT ![r] = @ \cup {granted[r]}]
            /\ UNCHANGED <<member, user, granted>>

Next == \/ \E u \in User : Move(u)
        \/ \E r \in Request : Send(r) \/ Grant(r) \/ Touch(r)

Spec == Init /\ [][Next]_vars
=============================================================================
