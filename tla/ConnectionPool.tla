--------------------------- MODULE ConnectionPool ---------------------------
(***************************************************************************)
(* connectionPool.ts and asyncMutex.ts of the VS Code extension: connec-   *)
(* tions to a remote system that are kept open between requests, and the   *)
(* semaphore that limits them.                                             *)
(*                                                                         *)
(* JavaScript runs one piece of code at a time; a step is what runs        *)
(* between two awaits. A call of withClient awaits: the semaphore, the     *)
(* creation of a connection (or the promise of one taken from the pool),   *)
(* the action it was given, and its own result before the semaphore's      *)
(* finally. Anything else may run in these places: other calls,            *)
(* closeClients, dispose and the timer.                                    *)
(***************************************************************************)
EXTENDS Naturals, Sequences, SequencesExt, FiniteSets

CONSTANTS
  Call,       \* calls of withClient; one that has returned may be made again
  Client,     \* connections; one that has been closed stands for a new one
  Limit,      \* slots of the semaphore
  NoClient,
  MaxCloses   \* bound: calls of closeClients by anybody but the timer

ASSUME PoolAssumption ==
  Limit \in Nat \ {0} /\ MaxCloses \in Nat /\ NoClient \notin Client /\ IsFiniteSet(Call)

VARIABLES
  slots,      \* availableSlots of the semaphore
  queue,      \* calls that wait for a slot, in order
  pooled,     \* pooledClients
  timer,      \* pooledClientsTimeout is set
  disposed,
  older,      \* older[c]: this.generation has been advanced since c was given out
  pc,         \* where each call is
  has,        \* the connection of each call
  open,       \* connections that are open
  closes,     \* calls of closeClients so far, up to MaxCloses
  revoked     \* history: connections in use when closeClients was called

vars == <<slots, queue, pooled, timer, disposed, older, pc, has, open, closes, revoked>>

sem == <<slots, queue>>
pool == <<pooled, timer, disposed>>

(* A call is outside, waits for a slot, has been given one but not run     *)
(* yet, creates a connection, has taken one from the pool, uses it, or is  *)
(* about to give its slot back.                                            *)
Phases == {"outside", "waiting", "granted", "creating", "taken", "using", "leaving"}

(* The calls that hold a slot of the semaphore.                            *)
Holding == {"granted", "creating", "taken", "using", "leaving"}

Init == /\ slots = Limit /\ queue = <<>>
        /\ pooled = <<>> /\ timer = FALSE /\ disposed = FALSE
        /\ older = [c \in Call |-> FALSE]
        /\ pc = [c \in Call |-> "outside"]
        /\ has = [c \in Call |-> NoClient]
        /\ open = {} /\ closes = 0 /\ revoked = {}

-----------------------------------------------------------------------------
(* withClient with a slot, up to its first await: getClient stops the      *)
(* timer, and takes the connection that has waited longest or creates one. *)
GetClient(c) ==
  /\ timer' = FALSE
  /\ \/ /\ pooled = <<>>
        /\ pc' = [pc EXCEPT ![c] = "creating"]
        /\ UNCHANGED <<pooled, has>>
     \/ /\ pooled # <<>>
        /\ pc' = [pc EXCEPT ![c] = "taken"]
        /\ has' = [has EXCEPT ![c] = Head(pooled)] /\ pooled' = Tail(pooled)
  /\ UNCHANGED <<disposed, older, open, closes, revoked>>

Enter(c) ==
  /\ pc[c] = "outside" /\ slots > 0
  /\ slots' = slots - 1 /\ UNCHANGED queue
  /\ GetClient(c)

Wait(c) ==
  /\ pc[c] = "outside" /\ slots = 0
  /\ queue' = Append(queue, c)
  /\ pc' = [pc EXCEPT ![c] = "waiting"]
  /\ UNCHANGED <<slots, pool, older, has, open, closes, revoked>>

Granted(c) ==
  /\ pc[c] = "granted" /\ GetClient(c) /\ UNCHANGED sem

(* The connection is there: the generation is read, and the action begins. *)
Created(c, x) ==
  /\ pc[c] = "creating" /\ x \notin open
  /\ open' = open \cup {x} /\ revoked' = revoked \ {x}
  /\ has' = [has EXCEPT ![c] = x]
  /\ older' = [older EXCEPT ![c] = FALSE]
  /\ pc' = [pc EXCEPT ![c] = "using"]
  /\ UNCHANGED <<sem, pool, closes>>

Taken(c) ==
  /\ pc[c] = "taken"
  /\ older' = [older EXCEPT ![c] = FALSE]
  /\ pc' = [pc EXCEPT ![c] = "using"]
  /\ UNCHANGED <<sem, pool, has, open, closes, revoked>>

CreateFails(c) ==
  /\ pc[c] = "creating"
  /\ pc' = [pc EXCEPT ![c] = "leaving"]
  /\ UNCHANGED <<sem, pool, older, has, open, closes, revoked>>

(* Defect: the generation is not compared.                                 *)
KeepsAny(c) == ~disposed

Keeps(c) == ~older[c] /\ ~disposed

(* The action has succeeded and the connection is reusable: it goes back   *)
(* to the pool, and the timer starts anew.                                 *)
Return(c) ==
  /\ pc[c] = "using" /\ Keeps(c)
  /\ pooled' = Append(pooled, has[c]) /\ timer' = TRUE
  /\ has' = [has EXCEPT ![c] = NoClient]
  /\ pc' = [pc EXCEPT ![c] = "leaving"]
  /\ UNCHANGED <<sem, disposed, older, open, closes, revoked>>

(* The action has failed, the connection is not reusable, or it is not to  *)
(* be kept: it is closed.                                                  *)
Close(c) ==
  /\ pc[c] = "using"
  /\ open' = open \ {has[c]}
  /\ has' = [has EXCEPT ![c] = NoClient]
  /\ pc' = [pc EXCEPT ![c] = "leaving"]
  /\ UNCHANGED <<sem, pool, older, closes, revoked>>

(* Defect: a waiting call is only woken when no slot is free.              *)
LeaveFree(c) ==
  /\ pc[c] = "leaving"
  /\ slots' = slots + 1 /\ queue' = queue
  /\ pc' = [pc EXCEPT ![c] = "outside"]
  /\ UNCHANGED <<pool, older, has, open, closes, revoked>>

(* finally of the semaphore: the slot goes to the call that has waited     *)
(* longest, without becoming free in between.                              *)
Leave(c) ==
  /\ pc[c] = "leaving"
  /\ IF queue = <<>>
     THEN /\ slots' = slots + 1 /\ queue' = queue
          /\ pc' = [pc EXCEPT ![c] = "outside"]
     ELSE /\ slots' = slots /\ queue' = Tail(queue)
          /\ pc' = [pc EXCEPT ![c] = "outside", ![Head(queue)] = "granted"]
  /\ UNCHANGED <<pool, older, has, open, closes, revoked>>

-----------------------------------------------------------------------------
(* closeClients: everything in the pool is closed, and the generation ad-  *)
(* vanced, so that what is in use is closed when it comes back.            *)
CloseAll ==
  /\ older' = [c \in Call |-> TRUE]
  /\ revoked' = revoked \cup {has[c] : c \in {d \in Call : pc[d] = "using"}}
  /\ open' = open \ ToSet(pooled)
  /\ pooled' = <<>>

(* closeClients is called when the remote activity is suspended, or by     *)
(* create itself when it has to ask for credentials.                       *)
CloseClients ==
  /\ closes < MaxCloses /\ closes' = closes + 1
  /\ CloseAll /\ UNCHANGED <<sem, timer, disposed, pc, has>>

Dispose ==
  /\ ~disposed /\ disposed' = TRUE /\ timer' = FALSE
  /\ CloseAll /\ UNCHANGED <<sem, pc, has, closes>>

Timeout ==
  /\ timer /\ timer' = FALSE
  /\ CloseAll /\ UNCHANGED <<sem, disposed, pc, has, closes>>

Proceed(c) == Granted(c) \/ Taken(c) \/ Leave(c)
Answered(c) == CreateFails(c) \/ Return(c) \/ Close(c) \/ \E x \in Client : Created(c, x)

Next == \/ \E c \in Call : Enter(c) \/ Wait(c) \/ Proceed(c) \/ Answered(c)
        \/ CloseClients \/ Dispose \/ Timeout

(* Promises that are settled are continued; connecting and reading from    *)
(* the remote system end, with a result or an error; the timer goes off.   *)
(* Nobody has to make a call, or to close anything.                        *)
Fairness == /\ \A c \in Call : WF_vars(Proceed(c)) /\ WF_vars(Answered(c))
            /\ WF_vars(Timeout)

Spec == Init /\ [][Next]_vars
FairSpec == Spec /\ Fairness

-----------------------------------------------------------------------------
(* Properties.                                                             *)

(* The variables hold values of these sets.                                *)
TypeOK ==
  /\ slots \in 0..Limit /\ queue \in Seq(Call) /\ pooled \in Seq(Client)
  /\ timer \in BOOLEAN /\ disposed \in BOOLEAN /\ older \in [Call -> BOOLEAN]
  /\ pc \in [Call -> Phases] /\ has \in [Call -> Client \cup {NoClient}]
  /\ open \subseteq Client /\ closes \in 0..MaxCloses /\ revoked \subseteq Client

(* A slot is free or held by exactly one call, whatever fails and however  *)
(* calls are handed over: the semaphore neither loses slots nor makes any. *)
SlotsConserved == slots + Cardinality({c \in Call : pc[c] \in Holding}) = Limit

(* Nobody waits while a slot is free, and the queue is who waits.          *)
WaitersQueued ==
  /\ queue # <<>> => slots = 0
  /\ \A c \in Call : pc[c] = "waiting" <=> \E i \in 1..Len(queue) : queue[i] = c
  /\ \A i, j \in 1..Len(queue) : queue[i] = queue[j] => i = j

(* The semaphore as a whole: slots, and who waits for one.                 *)
SlotsAreShared == SlotsConserved /\ WaitersQueued

(* Every open connection has exactly one owner, a call or a place in the   *)
(* pool, and what they own is open: nothing is used by two calls, closed   *)
(* twice, handed out after it was closed, or forgotten without a close.    *)
OneOwner ==
  /\ ToSet(pooled) \subseteq open /\ IsInjective(pooled)
  /\ \A c \in Call : (pc[c] \in {"taken", "using"}) = (has[c] # NoClient)
  /\ \A c \in Call : has[c] # NoClient => has[c] \in open \ ToSet(pooled)
  /\ \A c, d \in Call : has[c] # NoClient /\ has[c] = has[d] => c = d
  /\ open = ToSet(pooled) \cup {has[c] : c \in {d \in Call : has[d] # NoClient}}

(* The pool and the calls together never keep more connections than the    *)
(* limit, though a call may create one while others return theirs.         *)
LimitRespected ==
  Cardinality(open) + Cardinality({c \in Call : pc[c] = "creating"}) <= Limit

(* A connection that was in use when the clients were closed (credentials  *)
(* rejected, activity suspended) is never offered to another call.         *)
RevokedIsGone == ToSet(pooled) \cap revoked = {}

(* A disposed pool keeps nothing and has no timer, and what calls still    *)
(* use is closed by the time they have returned.                           *)
DisposedIsEmpty ==
  disposed => pooled = <<>> /\ ~timer /\ (open # {} => \E c \in Call : pc[c] # "outside")

(* What becomes of the connections, whoever opens, returns or closes them. *)
ConnectionsAreOwned == OneOwner /\ LimitRespected /\ RevokedIsGone /\ DisposedIsEmpty

(* A call that waits for a slot gets it, and returns.                      *)
CallsReturn == \A c \in Call : pc[c] = "waiting" ~> pc[c] = "outside"

=============================================================================
