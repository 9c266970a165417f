--------------------------- MODULE ClientManager ---------------------------
(***************************************************************************)
(* PrismaClientManager: one tenant PrismaClient (a connection pool) per    *)
(* Postgres schema, cached as the Promise of its connect.                  *)
(*                                                                         *)
(* A call of getClient runs without a break up to its return of a Promise; *)
(* everything else happens in later turns of the event loop, in any order: *)
(* the connect settles, the catch handler evicts, a caller resumes,        *)
(* onModuleDestroy runs and disconnects.  Nest runs onModuleDestroy before *)
(* it closes the HTTP server, so getClient is called after it, too.        *)
(***************************************************************************)
EXTENDS Naturals

CONSTANTS
  Call,     \* the calls of getClient; the Promise a call creates has its name
  Schema,   \* the schema names asked for
  Safe,     \* those that pass assertSafeSchemaName
  None      \* undefined

ASSUME ClientManagerAssumption == Safe \subseteq Schema /\ None \notin Call

VARIABLES
  clients,    \* clients[s]: the Promise the Map holds for s
  promise,    \* promise[p]: how far the Promise created by call p is
  schema,     \* schema[c]: the argument of call c
  awaiting,   \* awaiting[c]: the Promise call c has returned
  pc,         \* pc[c]: what the caller has of call c
  closing,    \* the Promises onModuleDestroy still has to settle
  destroyed   \* has onModuleDestroy been called?

vars == <<clients, promise, schema, awaiting, pc, closing, destroyed>>

(* "failed": $connect has rejected and the catch handler is yet to run;    *)
(* "rejected": it has run and the cached Promise itself rejects;           *)
(* "reopened": disconnected, and connected once more by a query            *)
TypeOK ==
  /\ clients \in [Schema -> Call \cup {None}]
  /\ promise \in [Call -> {"none", "connecting", "open", "failed", "rejected", "closed",
                        "reopened"}]
  /\ schema \in [Call -> Schema \cup {None}]
  /\ awaiting \in [Call -> Call \cup {None}]
  /\ pc \in [Call -> {"idle", "waiting", "client", "error"}]
  /\ closing \subseteq Call
  /\ destroyed \in BOOLEAN

Init == /\ clients = [s \in Schema |-> None]
        /\ promise = [c \in Call |-> "none"]
        /\ schema = [c \in Call |-> None]
        /\ awaiting = [c \in Call |-> None]
        /\ pc = [c \in Call |-> "idle"]
        /\ closing = {}
        /\ destroyed = FALSE
-----------------------------------------------------------------------------
(* mutant: a lookup that ignores the key *)
MutCached(s) == IF \E t \in Schema : clients[t] # None
                THEN clients[CHOOSE t \in Schema : clients[t] # None] ELSE None

Cached(s) == clients[s]

(* mutant: the Map is written only when the connect is over *)
MutRemember(c, s) == UNCHANGED clients

Remember(c, s) == clients' = [clients EXCEPT ![s] = c]

GetClient(c, s) ==
  /\ pc[c] = "idle"
  /\ schema' = [schema EXCEPT ![c] = s]
  /\ \/ /\ s \notin Safe
        /\ pc' = [pc EXCEPT ![c] = "error"]
        /\ UNCHANGED <<clients, promise, awaiting>>
     \/ /\ s \in Safe /\ Cached(s) # None
        /\ pc' = [pc EXCEPT ![c] = "waiting"]
        /\ awaiting' = [awaiting EXCEPT ![c] = Cached(s)]
        /\ UNCHANGED <<clients, promise>>
     \/ /\ s \in Safe /\ Cached(s) = None
        /\ pc' = [pc EXCEPT ![c] = "waiting"]
        /\ awaiting' = [awaiting EXCEPT ![c] = c]
        /\ promise' = [promise EXCEPT ![c] = "connecting"]
        /\ Remember(c, s)
  /\ UNCHANGED <<closing, destroyed>>

(* $connect: the pool is open, or Postgres could not be reached *)
ConnectSettles(p) ==
  /\ promise[p] = "connecting"
  /\ \E outcome \in {"open", "failed"} : promise' = [promise EXCEPT ![p] = outcome]
  /\ UNCHANGED <<clients, schema, awaiting, pc, closing, destroyed>>

(* mutants: whatever is cached for the schema goes; nothing goes *)
MutForgetAny(p) == clients' = [clients EXCEPT ![schema[p]] = None]
MutForgetNot(p) == UNCHANGED clients

Forget(p) == clients' = IF clients[schema[p]] = p
                        THEN [clients EXCEPT ![schema[p]] = None] ELSE clients

(* the catch handler *)
Evict(p) ==
  /\ promise[p] = "failed"
  /\ Forget(p)
  /\ promise' = [promise EXCEPT ![p] = "rejected"]
  /\ UNCHANGED <<schema, awaiting, pc, closing, destroyed>>

(* mutant: a rejection is swallowed *)
MutSettled(p) == promise[p] \in {"open", "closed", "reopened"}

Settled(p) == promise[p] \in {"open", "closed", "reopened", "rejected"}

(* The await of the caller resumes, and its query runs on the client.  A   *)
(* client that was disconnected meanwhile connects again for the query, or *)
(* cannot.                                                                 *)
Resume(c) ==
  LET p == awaiting[c] IN
  /\ pc[c] = "waiting" /\ Settled(p)
  /\ pc' = [pc EXCEPT ![c] = IF promise[p] = "rejected" THEN "error" ELSE "client"]
  /\ \/ UNCHANGED promise
     \/ promise[p] = "closed" /\ promise' = [promise EXCEPT ![p] = "reopened"]
  /\ UNCHANGED <<clients, schema, awaiting, closing, destroyed>>

(* mutant: the Map is cleared before its values are copied *)
MutToClose == {}

ToClose == {clients[s] : s \in Schema} \ {None}

(* onModuleDestroy up to its await *)
Destroy ==
  /\ ~destroyed /\ destroyed' = TRUE
  /\ closing' = ToClose
  /\ clients' = [s \in Schema |-> None]
  /\ UNCHANGED <<promise, schema, awaiting, pc>>

(* mutant: Promise.all, which does not get past a rejection *)
MutSettles(p) == promise[p] = "open"

Settles(p) == promise[p] \in {"open", "rejected"}

(* one member of the allSettled: a connected client is disconnected *)
Disconnect(p) ==
  /\ p \in closing /\ Settles(p)
  /\ closing' = closing \ {p}
  /\ promise' = [promise EXCEPT ![p] = IF @ = "open" THEN "closed" ELSE @]
  /\ UNCHANGED <<clients, schema, awaiting, pc, destroyed>>

(* all calls over, and the shutdown too: nothing is left to happen *)
Rest == /\ \A c \in Call : pc[c] \in {"client", "error"} /\ promise[c] \notin {"connecting", "failed"}
        /\ destroyed /\ closing = {}
        /\ UNCHANGED vars

Next == \/ \E c \in Call : (\E s \in Schema : GetClient(c, s)) \/ Resume(c)
        \/ \E p \in Call : ConnectSettles(p) \/ Evict(p) \/ Disconnect(p)
        \/ Destroy \/ Rest

Spec == Init /\ [][Next]_vars

(* A connect is answered or times out, and the event loop runs whatever is *)
(* ready.  Nobody has to call getClient or to shut down.                   *)
Fairness == \A c \in Call : /\ WF_vars(ConnectSettles(c)) /\ WF_vars(Evict(c))
                            /\ WF_vars(Disconnect(c)) /\ WF_vars(Resume(c))

FairSpec == Spec /\ Fairness
-----------------------------------------------------------------------------
(* a pool that is, or is about to be, connected to Postgres *)
Pool(p) == promise[p] \in {"connecting", "open", "reopened"}

(* a pool that a shutdown is about to close, or has closed once already *)
Retired(p) == p \in closing \/ promise[p] = "reopened"

(* The race of the comment at lines 19-23: a pool always has an owner that *)
(* will disconnect it, the Map or the shutdown in progress.  The one       *)
(* exception is the client that a query has connected again after the      *)
(* shutdown: nothing will close that (NoPoolAfterShutdown).                *)
NoOrphan == \A p \in Call : Pool(p) =>
              \/ clients[schema[p]] = p
              \/ p \in closing
              \/ destroyed /\ promise[p] = "reopened"

(* Concurrent calls for one schema share one connect: there are never two  *)
(* pools for a schema, but for those a shutdown has to do with.            *)
OnePoolPerSchema ==
  \A p, q \in {c \in Call : Pool(c) /\ ~Retired(c)} : schema[p] = schema[q] => p = q

(* Lines 41-44: once a connect has rejected, no later call is handed that  *)
(* rejection.                                                              *)
NoStaleRejection == \A s \in Schema : clients[s] # None =>
                       promise[clients[s]] \in {"connecting", "open", "failed"}

(* Tenant isolation: what a caller gets is pinned to the schema it named.  *)
OwnSchema == \A c \in Call : pc[c] \in {"waiting", "client"} =>
                /\ awaiting[c] # None
                /\ schema[awaiting[c]] = schema[c] /\ schema[c] \in Safe

(* Every call ends, with a client or with the error of its own attempt.    *)
CallsSettle == \A c \in Call : pc[c] = "waiting" ~> pc[c] # "waiting"

(* onModuleDestroy ends, rejected connects or not (lines 58-60): nothing   *)
(* is left that it waits for.                                              *)
ShutdownEnds == destroyed ~> closing = {}

(* main.ts:13-15 and prisma.service.ts:23-24: shutdown disconnects every   *)
(* cached client and leaves no pool dangling.  A call after the hook opens *)
(* one that nothing closes, and so does a query on a client that the hook  *)
(* has disconnected: violated.                                             *)
NoPoolAfterShutdown ==
  destroyed => \A p \in Call : promise[p] \in {"open", "reopened"} => p \in closing

(* the inductive invariant *)
IInv ==
  /\ TypeOK
  /\ NoOrphan /\ NoStaleRejection /\ OwnSchema
  /\ ~destroyed => closing = {} /\ \A p \in Call : promise[p] \notin {"closed", "reopened"}
  /\ \A s \in Schema : clients[s] # None =>
       schema[clients[s]] = s /\ s \in Safe /\ clients[s] \notin closing
  /\ \A c \in Call : /\ promise[c] = "none" => c \notin closing
                     /\ promise[c] # "none" => pc[c] # "idle" /\ schema[c] \in Safe
                     /\ awaiting[c] # None => promise[awaiting[c]] # "none"
=============================================================================
