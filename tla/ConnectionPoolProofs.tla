------------------------ MODULE ConnectionPoolProofs ------------------------
(***************************************************************************)
(* What holds of the connection pool for any calls, connections and limit. *)
(* The proof has three layers, each of which uses the ones before: what    *)
(* the variables hold, the semaphore, and the connections. The invariants  *)
(* of the properties are strengthened by what a call has in each phase     *)
(* (GivenHas), by what a revoked connection may still be (RevokedInUse)    *)
(* and by what remains in a disposed pool.                                 *)
(***************************************************************************)
EXTENDS ConnectionPool, FiniteSetTheorems, SequenceTheorems, TLAPS

(* Sequences without repetitions: what is taken from the front is not left *)
(* in the rest, and what is new may be put behind.                         *)
LEMMA InjectiveSequences ==
  ASSUME NEW S, NEW s \in Seq(S), IsInjective(s)
  PROVE  /\ s # <<>> => /\ Head(s) \in S /\ Tail(s) \in Seq(S) /\ IsInjective(Tail(s))
                        /\ ToSet(Tail(s)) = ToSet(s) \ {Head(s)} /\ Head(s) \in ToSet(s)
         /\ \A x \in S : /\ Append(s, x) \in Seq(S) /\ ToSet(Append(s, x)) = ToSet(s) \cup {x}
                         /\ x \notin ToSet(s) => IsInjective(Append(s, x))
<1>1. ASSUME s # <<>>
      PROVE  /\ Head(s) \in S /\ Tail(s) \in Seq(S) /\ IsInjective(Tail(s))
             /\ ToSet(Tail(s)) = ToSet(s) \ {Head(s)} /\ Head(s) \in ToSet(s)
  <2>1. /\ Head(s) \in S /\ Tail(s) \in Seq(S) /\ Head(s) = s[1]
        /\ Len(s) \in Nat \ {0} /\ Len(Tail(s)) = Len(s) - 1
        /\ DOMAIN s = 1..Len(s) /\ DOMAIN Tail(s) = 1..(Len(s) - 1)
        /\ \A i \in 1..(Len(s) - 1) : Tail(s)[i] = s[i + 1]
    BY <1>1
  <2>2. IsInjective(Tail(s))
    BY <2>1 DEF IsInjective
  <2>3. ToSet(Tail(s)) \subseteq ToSet(s) \ {Head(s)}
    BY <2>1 DEF IsInjective, ToSet
  <2>4. ToSet(s) \ {Head(s)} \subseteq ToSet(Tail(s))
    <3> SUFFICES ASSUME NEW i \in 1..Len(s), s[i] # s[1] PROVE s[i] \in ToSet(Tail(s))
      BY <2>1 DEF ToSet
    <3>1. i - 1 \in 1..(Len(s) - 1) /\ Tail(s)[i - 1] = s[i]
      BY <2>1
    <3> QED  BY <3>1, <2>1 DEF ToSet
  <2> QED  BY <2>1, <2>2, <2>3, <2>4 DEF ToSet
<1>2. ASSUME NEW x \in S
      PROVE  /\ Append(s, x) \in Seq(S) /\ ToSet(Append(s, x)) = ToSet(s) \cup {x}
             /\ x \notin ToSet(s) => IsInjective(Append(s, x))
  <2>1. /\ Append(s, x) \in Seq(S) /\ DOMAIN s = 1..Len(s) /\ Len(s) \in Nat
        /\ DOMAIN Append(s, x) = 1..(Len(s) + 1)
        /\ \A i \in 1..Len(s) : Append(s, x)[i] = s[i]
        /\ Append(s, x)[Len(s) + 1] = x
    OBVIOUS
  <2> QED  BY <2>1 DEF ToSet, IsInjective
<1> QED  BY <1>1, <1>2

-----------------------------------------------------------------------------
(* What the variables hold, without the upper bound of the slots.          *)

Typed ==
  /\ slots \in Nat /\ queue \in Seq(Call) /\ pooled \in Seq(Client)
  /\ timer \in BOOLEAN /\ disposed \in BOOLEAN /\ older \in [Call -> BOOLEAN]
  /\ pc \in [Call -> Phases] /\ has \in [Call -> Client \cup {NoClient}]
  /\ open \subseteq Client /\ closes \in 0..MaxCloses /\ revoked \subseteq Client

(* A call has a connection from when it takes or creates one to when it    *)
(* gives it back or closes it.                                             *)
GivenHas == \A c \in Call : pc[c] \in {"taken", "using"} <=> has[c] # NoClient

(* getClient, for either caller.                                           *)
LEMMA GetClientTyped ==
  ASSUME PoolAssumption, Typed, GivenHas, NEW c \in Call, pc[c] \notin {"taken", "using"}, GetClient(c)
  PROVE  /\ pooled' \in Seq(Client) /\ timer' \in BOOLEAN /\ pc' \in [Call -> Phases]
         /\ has' \in [Call -> Client \cup {NoClient}] /\ GivenHas'
<1>1. CASE pooled = <<>>
  BY <1>1 DEF GetClient, Typed, GivenHas, Phases
<1>2. CASE pooled # <<>>
  <2>1. Head(pooled) \in Client /\ Tail(pooled) \in Seq(Client) /\ Head(pooled) # NoClient
    BY <1>2 DEF Typed, PoolAssumption
  <2> QED  BY <1>2, <2>1 DEF GetClient, Typed, GivenHas, Phases
<1> QED  BY <1>1, <1>2

(* The call that has waited longest.                                       *)
LEMMA WaitingHead ==
  ASSUME Typed, WaitersQueued, queue # <<>>
  PROVE  Head(queue) \in Call /\ Tail(queue) \in Seq(Call) /\ pc[Head(queue)] = "waiting"
<1>1. Head(queue) \in Call /\ Tail(queue) \in Seq(Call) /\ Head(queue) = queue[1] /\ 1 \in 1..Len(queue)
  BY DEF Typed
<1> QED  BY <1>1 DEF WaitersQueued

LEMMA TypedStep == PoolAssumption /\ Typed /\ GivenHas /\ WaitersQueued /\ [Next]_vars => Typed' /\ GivenHas'
<1> SUFFICES ASSUME PoolAssumption, Typed, GivenHas, WaitersQueued, [Next]_vars PROVE Typed' /\ GivenHas'
  OBVIOUS
<1>1. ASSUME NEW c \in Call, Enter(c) PROVE Typed' /\ GivenHas'
  <2>1. pc[c] \notin {"taken", "using"} /\ slots' \in Nat
    BY <1>1 DEF Enter, Typed
  <2> QED  BY <1>1, <2>1, GetClientTyped DEF Enter, GetClient, Typed
<1>2. ASSUME NEW c \in Call, Wait(c) PROVE Typed' /\ GivenHas'
  BY <1>2 DEF Wait, Typed, GivenHas, Phases, pool
<1>3. ASSUME NEW c \in Call, Granted(c) PROVE Typed' /\ GivenHas'
  <2>1. pc[c] \notin {"taken", "using"}
    BY <1>3 DEF Granted
  <2> QED  BY <1>3, <2>1, GetClientTyped DEF Granted, GetClient, Typed, sem
<1>4. ASSUME NEW c \in Call, Taken(c) PROVE Typed' /\ GivenHas'
  BY <1>4 DEF Taken, Typed, GivenHas, Phases, pool, sem
<1>5. ASSUME NEW c \in Call, Leave(c) PROVE Typed' /\ GivenHas'
  <2>1. CASE queue = <<>>
    BY <1>5, <2>1 DEF Leave, Typed, GivenHas, Phases, pool
  <2>2. CASE queue # <<>>
    <3>1. Head(queue) \in Call /\ Tail(queue) \in Seq(Call) /\ pc[Head(queue)] = "waiting"
      BY <2>2, WaitingHead
    <3> QED  BY <1>5, <2>2, <3>1 DEF Leave, Typed, GivenHas, Phases, pool
  <2> QED  BY <2>1, <2>2
<1>6. ASSUME NEW c \in Call, CreateFails(c) PROVE Typed' /\ GivenHas'
  BY <1>6 DEF CreateFails, Typed, GivenHas, Phases, pool, sem
<1>7. ASSUME NEW c \in Call, Return(c) PROVE Typed' /\ GivenHas'
  <2>1. has[c] \in Client
    BY <1>7 DEF Return, Typed, GivenHas
  <2> QED  BY <1>7, <2>1 DEF Return, Typed, GivenHas, Phases, sem
<1>8. ASSUME NEW c \in Call, Close(c) PROVE Typed' /\ GivenHas'
  BY <1>8 DEF Close, Typed, GivenHas, Phases, pool, sem
<1>9. ASSUME NEW c \in Call, NEW x \in Client, Created(c, x) PROVE Typed' /\ GivenHas'
  BY <1>9 DEF Created, Typed, GivenHas, Phases, pool, sem, PoolAssumption
<1>10. ASSUME CloseClients \/ Dispose \/ Timeout PROVE Typed' /\ GivenHas'
  <2>1. \A c \in Call : pc[c] = "using" => has[c] \in Client
    BY DEF Typed, GivenHas
  <2>2. CloseAll /\ UNCHANGED <<slots, queue, pc, has>>
    BY <1>10 DEF CloseClients, Dispose, Timeout, sem
  <2>3. timer' \in BOOLEAN /\ disposed' \in BOOLEAN /\ closes' \in 0..MaxCloses
    <3>1. timer \in BOOLEAN /\ disposed \in BOOLEAN
      BY DEF Typed
    <3>2. timer' \in BOOLEAN /\ disposed' \in BOOLEAN
      <4>1. timer' = timer \/ timer' = FALSE
        BY <1>10, Zenon DEF CloseClients, Dispose, Timeout
      <4>2. disposed' = disposed \/ disposed' = TRUE
        BY <1>10, Zenon DEF CloseClients, Dispose, Timeout
      <4> QED  BY <3>1, <4>1, <4>2
    <3>3. closes' = closes \/ (closes < MaxCloses /\ closes' = closes + 1)
      BY <1>10 DEF CloseClients, Dispose, Timeout
    <3>4. closes' \in 0..MaxCloses
      BY <3>3 DEF Typed, PoolAssumption
    <3> QED  BY <3>2, <3>4
  <2>4. {has[c] : c \in {d \in Call : pc[d] = "using"}} \subseteq Client
    BY <2>1
  <2>5. GivenHas'
    BY <2>2 DEF GivenHas
  <2>6. open' \subseteq Client /\ revoked' \subseteq Client /\ pooled' \in Seq(Client) /\ older' \in [Call -> BOOLEAN]
    BY <2>2, <2>4 DEF CloseAll, Typed
  <2> QED  BY <2>2, <2>3, <2>5, <2>6 DEF Typed
<1>11. CASE UNCHANGED vars
  BY <1>11 DEF vars, Typed, GivenHas
<1> QED
  BY <1>1, <1>2, <1>3, <1>4, <1>5, <1>6, <1>7, <1>8, <1>9, <1>10, <1>11 DEF Next, Proceed, Answered

-----------------------------------------------------------------------------
(* The semaphore.                                                          *)

LEMMA WaitersStep == PoolAssumption /\ Typed /\ WaitersQueued /\ [Next]_vars => WaitersQueued'
<1> SUFFICES ASSUME PoolAssumption, Typed, WaitersQueued, [Next]_vars PROVE WaitersQueued'
  OBVIOUS
<1>1. ASSUME NEW c \in Call, Enter(c) PROVE WaitersQueued'
  <2>1. queue = <<>> /\ queue' = <<>> /\ pc[c] # "waiting" /\ Len(<<>>) = 0
    BY <1>1 DEF Enter, WaitersQueued
  <2>2. pc' = [pc EXCEPT ![c] = pc'[c]] /\ pc'[c] # "waiting"
    BY <1>1 DEF Enter, GetClient, Typed
  <2> QED  BY <2>1, <2>2 DEF WaitersQueued, Typed
<1>2. ASSUME NEW c \in Call, Wait(c) PROVE WaitersQueued'
  <2>1. /\ Len(queue) \in Nat /\ Len(queue') = Len(queue) + 1 /\ queue'[Len(queue) + 1] = c
        /\ \A i \in 1..Len(queue) : queue'[i] = queue[i]
    BY <1>2 DEF Wait, Typed
  <2>2. \A i \in 1..Len(queue) : queue[i] # c
    BY <1>2 DEF Wait, WaitersQueued
  <2> QED  BY <1>2, <2>1, <2>2 DEF Wait, WaitersQueued, Typed
<1>3. ASSUME NEW c \in Call, Granted(c) \/ Taken(c) \/ CreateFails(c) \/ Return(c) \/ Close(c)
                             \/ \E x \in Client : Created(c, x)
      PROVE  WaitersQueued'
  <2>1. pc[c] # "waiting" /\ pc' = [pc EXCEPT ![c] = pc'[c]] /\ pc'[c] # "waiting" /\ UNCHANGED sem
    BY <1>3 DEF Granted, GetClient, Taken, CreateFails, Return, Close, Created, Typed
  <2> QED  BY <2>1 DEF WaitersQueued, Typed, sem
<1>4. ASSUME NEW c \in Call, Leave(c) PROVE WaitersQueued'
  <2>1. CASE queue = <<>>
    BY <1>4, <2>1 DEF Leave, WaitersQueued, Typed
  <2>2. CASE queue # <<>>
    <3>1. /\ Len(queue) \in Nat \ {0} /\ Len(queue') \in Nat /\ Len(queue') = Len(queue) - 1
          /\ \A i \in 1..Len(queue') : queue'[i] = queue[i + 1]
          /\ Head(queue) = queue[1] /\ Head(queue) \in Call /\ pc[Head(queue)] = "waiting"
      <4>1. Head(queue) \in Call /\ pc[Head(queue)] = "waiting"
        BY <2>2, WaitingHead
      <4>2. queue' = Tail(queue) /\ queue \in Seq(Call)
        BY <1>4, <2>2 DEF Leave, Typed
      <4> QED  BY <2>2, <4>1, <4>2
    <3>2. /\ pc' = [pc EXCEPT ![c] = "outside", ![Head(queue)] = "granted"]
          /\ pc[c] = "leaving" /\ slots' = slots
      BY <1>4, <2>2 DEF Leave
    <3>3. slots' = 0
      BY <2>2, <3>2 DEF WaitersQueued
    <3>4. \A i, j \in 1..Len(queue') : queue'[i] = queue'[j] => i = j
      <4> SUFFICES ASSUME NEW i \in 1..Len(queue'), NEW j \in 1..Len(queue'), queue'[i] = queue'[j] PROVE i = j
        OBVIOUS
      <4>1. i + 1 \in 1..Len(queue) /\ j + 1 \in 1..Len(queue) /\ queue[i + 1] = queue[j + 1]
        BY <3>1
      <4> QED  BY <4>1 DEF WaitersQueued
    <3>5. ASSUME NEW d \in Call PROVE pc'[d] = "waiting" <=> \E i \in 1..Len(queue') : queue'[i] = d
      <4>1. pc'[d] = "waiting" <=> pc[d] = "waiting" /\ d # queue[1]
        BY <3>1, <3>2 DEF Typed
      <4>2. pc[d] = "waiting" <=> \E i \in 1..Len(queue) : queue[i] = d
        BY DEF WaitersQueued
      <4>3. \A i \in 2..Len(queue) : i - 1 \in 1..Len(queue') /\ queue'[i - 1] = queue[i]
        BY <3>1
      <4>4. \A i \in 1..Len(queue') : i + 1 \in 1..Len(queue) /\ i + 1 # 1 /\ queue'[i] = queue[i + 1]
        BY <3>1
      <4>5. \A i \in 1..Len(queue) : queue[i] = queue[1] => i = 1
        BY <3>1 DEF WaitersQueued
      <4>6. \A i \in 1..Len(queue) : i = 1 \/ i \in 2..Len(queue)
        BY <3>1
      <4> QED  BY <4>1, <4>2, <4>3, <4>4, <4>5, <4>6
    <3> QED  BY <3>3, <3>4, <3>5 DEF WaitersQueued
  <2> QED  BY <2>1, <2>2
<1>5. CASE CloseClients \/ Dispose \/ Timeout \/ UNCHANGED vars
  BY <1>5 DEF CloseClients, Dispose, Timeout, vars, sem, WaitersQueued
<1> QED
  BY <1>1, <1>2, <1>3, <1>4, <1>5 DEF Next, Proceed, Answered

Holders == {c \in Call : pc[c] \in Holding}

(* A step changes who holds a slot as it changes the number of free ones.  *)
LEMMA SlotsStep ==
  PoolAssumption /\ Typed /\ WaitersQueued /\ SlotsConserved /\ [Next]_vars => SlotsConserved'
<1> SUFFICES ASSUME PoolAssumption, Typed, WaitersQueued, SlotsConserved, [Next]_vars PROVE SlotsConserved'
  OBVIOUS
<1> USE DEF Holding
<1>a. IsFiniteSet(Holders) /\ Cardinality(Holders) \in Nat
  BY FS_Subset, FS_CardinalityType DEF PoolAssumption, Holders
<1>b. SlotsConserved <=> slots + Cardinality(Holders) = Limit
  BY DEF SlotsConserved, Holders
<1>c. SlotsConserved' <=> slots' + Cardinality(Holders') = Limit
  BY DEF SlotsConserved, Holders
<1>1. ASSUME NEW c \in Call, Enter(c) PROVE SlotsConserved'
  <2>1. Holders' = Holders \cup {c} /\ c \notin Holders
    BY <1>1 DEF Enter, GetClient, Holders, Typed
  <2>2. Cardinality(Holders') = Cardinality(Holders) + 1
    BY <1>a, <2>1, FS_AddElement
  <2> QED  BY <1>1, <1>a, <1>b, <1>c, <2>2 DEF Enter, Typed, PoolAssumption
<1>2. ASSUME NEW c \in Call, Leave(c) PROVE SlotsConserved'
  <2>1. CASE queue = <<>>
    <3>1. Holders' = Holders \ {c} /\ c \in Holders /\ slots' = slots + 1
      BY <1>2, <2>1 DEF Leave, Holders, Typed
    <3>2. Cardinality(Holders') = Cardinality(Holders) - 1
      BY <1>a, <3>1, FS_RemoveElement
    <3> QED  BY <1>a, <1>b, <1>c, <3>1, <3>2 DEF Typed, PoolAssumption
  <2>2. CASE queue # <<>>
    <3> DEFINE h == Head(queue)
    <3>1. h \in Call /\ pc[h] = "waiting"
      BY <2>2, WaitingHead
    <3>2. Holders' = (Holders \ {c}) \cup {h} /\ c \in Holders /\ h \notin Holders /\ slots' = slots
      BY <1>2, <2>2, <3>1 DEF Leave, Holders, Typed
    <3>3. IsFiniteSet(Holders \ {c}) /\ Cardinality(Holders \ {c}) = Cardinality(Holders) - 1
      BY <1>a, <3>2, FS_RemoveElement
    <3>4. h \notin Holders \ {c}
      BY <3>2
    <3>5. Cardinality((Holders \ {c}) \cup {h}) = Cardinality(Holders \ {c}) + 1
      BY <3>3, <3>4, FS_AddElement
    <3> QED  BY <1>a, <1>b, <1>c, <3>2, <3>3, <3>5 DEF Typed, PoolAssumption
  <2> QED  BY <2>1, <2>2
<1>3. ASSUME NEW c \in Call, Wait(c) \/ Granted(c) \/ Taken(c) \/ CreateFails(c) \/ Return(c) \/ Close(c)
                             \/ \E x \in Client : Created(c, x)
      PROVE  SlotsConserved'
  <2>1. Holders' = Holders /\ slots' = slots
    BY <1>3 DEF Wait, Granted, GetClient, Taken, CreateFails, Return, Close, Created, Typed, Holders, sem
  <2> QED  BY <1>b, <1>c, <2>1
<1>4. CASE CloseClients \/ Dispose \/ Timeout \/ UNCHANGED vars
  BY <1>4 DEF CloseClients, Dispose, Timeout, vars, sem, SlotsConserved
<1> QED
  BY <1>1, <1>2, <1>3, <1>4 DEF Next, Proceed, Answered

SemaphoreInv == Typed /\ GivenHas /\ WaitersQueued /\ SlotsConserved

LEMMA SemaphoreHolds == Spec => []SemaphoreInv
<1>1. Init => SemaphoreInv
  <2> SUFFICES ASSUME Init PROVE SemaphoreInv
    OBVIOUS
  <2>1. Typed
    <3>1. <<>> \in Seq(Call) /\ <<>> \in Seq(Client) /\ 0 \in 0..MaxCloses /\ Limit \in Nat
      BY PoolAssumption DEF PoolAssumption
    <3>2. timer \in BOOLEAN /\ disposed \in BOOLEAN /\ older \in [Call -> BOOLEAN]
      BY Zenon DEF Init
    <3>3. pc \in [Call -> Phases] /\ has \in [Call -> Client \cup {NoClient}]
      BY DEF Init, Phases
    <3>4. /\ slots \in Nat /\ queue \in Seq(Call) /\ pooled \in Seq(Client)
          /\ open \subseteq Client /\ closes \in 0..MaxCloses /\ revoked \subseteq Client
      BY <3>1 DEF Init
    <3> QED  BY <3>2, <3>3, <3>4 DEF Typed
  <2>5. GivenHas
    BY DEF Init, GivenHas
  <2>2. WaitersQueued
    BY DEF Init, WaitersQueued
  <2>3. {c \in Call : pc[c] \in Holding} = {}
    BY DEF Init, Holding
  <2>4. SlotsConserved
    <3>1. Cardinality({c \in Call : pc[c] \in Holding}) = 0
      BY <2>3, FS_EmptySet
    <3> QED  BY PoolAssumption, <3>1 DEF Init, SlotsConserved, PoolAssumption
  <2> QED  BY <2>1, <2>2, <2>4, <2>5 DEF SemaphoreInv
<1>2. SemaphoreInv /\ [Next]_vars => SemaphoreInv'
  BY PoolAssumption, TypedStep, WaitersStep, SlotsStep DEF SemaphoreInv
<1> QED  BY <1>1, <1>2, PTL DEF Spec

(* The variables keep their types; in particular there are never more      *)
(* free slots than the semaphore began with (asyncMutex.ts).               *)
THEOREM TypeCorrect == Spec => []TypeOK
<1>1. SemaphoreInv => TypeOK
  <2> SUFFICES ASSUME SemaphoreInv PROVE TypeOK
    OBVIOUS
  <2>1. Cardinality(Holders) \in Nat
    BY PoolAssumption, FS_Subset, FS_CardinalityType DEF PoolAssumption, Holders
  <2>2. slots \in 0..Limit
    BY <2>1, PoolAssumption DEF SemaphoreInv, SlotsConserved, Holders, Typed, PoolAssumption
  <2> QED  BY <2>2 DEF SemaphoreInv, Typed, TypeOK
<1> QED  BY <1>1, SemaphoreHolds, PTL

(* Free slots and calls that hold one are as many as the limit, nobody     *)
(* waits while a slot is free, and the queue is exactly who waits, in a    *)
(* semaphore that hands slots over without freeing them.                   *)
THEOREM SemaphoreIsRight == Spec => []SlotsAreShared
<1>1. SemaphoreInv => SlotsAreShared
  BY DEF SemaphoreInv, SlotsAreShared
<1> QED  BY <1>1, SemaphoreHolds, PTL
-----------------------------------------------------------------------------
(* The connections.                                                        *)

(* A revoked connection that a call still has is in use, and was given out *)
(* before the generation advanced: it will not be kept.                    *)
RevokedInUse == \A c \in Call : has[c] \in revoked => pc[c] = "using" /\ older[c]

NothingKept == disposed => pooled = <<>> /\ ~timer

Creating == {c \in Call : pc[c] = "creating"}
Owners == {c \in Call : has[c] # NoClient}

PoolInv == OneOwner /\ LimitRespected /\ RevokedIsGone /\ RevokedInUse /\ NothingKept /\ IsFiniteSet(open)

(* Without pooled connections, each one that is open is that of one call.  *)
LEMMA OpenAndCreating ==
  ASSUME PoolAssumption, Typed, OneOwner, pooled = <<>>
  PROVE  /\ IsFiniteSet(open) /\ Cardinality(open) \in Nat /\ Cardinality(Creating) \in Nat
         /\ IsFiniteSet(Owners \cup Creating)
         /\ Cardinality(open) + Cardinality(Creating) <= Cardinality(Owners \cup Creating)
<1>1. IsFiniteSet(Owners) /\ IsFiniteSet(Creating)
  BY FS_Subset DEF PoolAssumption, Owners, Creating
<1>2. open = {has[c] : c \in Owners}
  <2>1. ToSet(<<>>) = {}
    BY DEF ToSet
  <2> QED  BY <2>1 DEF OneOwner, Owners
<1>3. IsFiniteSet(open) /\ Cardinality(open) <= Cardinality(Owners)
  <2> DEFINE f == [c \in Owners |-> has[c]]
  <2>1. f \in Surjection(Owners, open)
    BY <1>2 DEF Surjection
  <2> HIDE DEF f
  <2> QED  BY <1>1, <2>1, FS_Surjection
<1>4. Owners \cap Creating = {}
  BY DEF OneOwner, Owners, Creating
<1>5. /\ IsFiniteSet(Owners \cup Creating)
      /\ Cardinality(Owners \cup Creating) = Cardinality(Owners) + Cardinality(Creating)
  <2>1. Cardinality(Owners \cap Creating) = 0
    BY <1>4, FS_EmptySet
  <2>2. Cardinality(Owners) \in Nat /\ Cardinality(Creating) \in Nat
    BY <1>1, FS_CardinalityType
  <2> QED  BY <1>1, <2>1, <2>2, FS_Union
<1> QED  BY <1>1, <1>3, <1>5, FS_CardinalityType

(* getClient creates a connection only where there is room for one: `held` *)
(* are calls with a slot, without the one that gets the connection.        *)
LEMMA RoomForOne ==
  ASSUME PoolAssumption, Typed, GivenHas, OneOwner, SlotsConserved, pooled = <<>>,
         NEW c \in Call, pc[c] = "granted" \/ (pc[c] = "outside" /\ slots > 0)
  PROVE  Cardinality(open) + Cardinality(Creating) + 1 <= Limit
<1> DEFINE A == Owners \cup Creating
<1>1. IsFiniteSet(Holders) /\ Cardinality(Holders) \in Nat /\ IsFiniteSet(A) /\ Cardinality(A) \in Nat
  BY FS_Subset, FS_CardinalityType, OpenAndCreating DEF PoolAssumption, Holders
<1>2. slots + Cardinality(Holders) = Limit
  BY DEF SlotsConserved, Holders
<1>3. A \subseteq Holders /\ c \notin A
  BY DEF Owners, Creating, Holders, Holding, GivenHas
<1>4. CASE pc[c] = "granted"
  <2>1. A \cup {c} \in SUBSET Holders
    BY <1>3, <1>4 DEF Holders, Holding
  <2>2. Cardinality(A \cup {c}) = Cardinality(A) + 1
    BY <1>1, <1>3, FS_AddElement
  <2>3. Cardinality(A \cup {c}) <= Cardinality(Holders)
    BY <1>1, <2>1, FS_Subset
  <2> QED  BY <1>1, <1>2, <2>2, <2>3, OpenAndCreating DEF Typed, PoolAssumption
<1>5. CASE pc[c] = "outside" /\ slots > 0
  <2>1. Cardinality(A) <= Cardinality(Holders)
    BY <1>1, <1>3, FS_Subset
  <2> QED  BY <1>1, <1>2, <1>5, <2>1, OpenAndCreating DEF Typed, PoolAssumption
<1> QED  BY <1>4, <1>5

(* How the number of calls that create a connection changes.               *)
LEMMA CreatingCount ==
  ASSUME PoolAssumption
  PROVE  /\ IsFiniteSet(Creating) /\ Cardinality(Creating) \in Nat
         /\ \A c \in Call : pc \in [Call -> Phases] =>
              /\ pc' = [pc EXCEPT ![c] = "creating"] /\ pc[c] # "creating"
                   => Cardinality(Creating') = Cardinality(Creating) + 1
              /\ pc[c] = "creating" /\ pc' = [pc EXCEPT ![c] = pc'[c]] /\ pc'[c] # "creating"
                   => Cardinality(Creating') = Cardinality(Creating) - 1
<1>1. IsFiniteSet(Creating) /\ Cardinality(Creating) \in Nat
  BY FS_Subset, FS_CardinalityType DEF PoolAssumption, Creating
<1>2. ASSUME NEW c \in Call, pc \in [Call -> Phases], pc' = [pc EXCEPT ![c] = "creating"], pc[c] # "creating"
      PROVE  Cardinality(Creating') = Cardinality(Creating) + 1
  <2>1. Creating' = Creating \cup {c} /\ c \notin Creating
    BY <1>2 DEF Creating
  <2> QED  BY <1>1, <2>1, FS_AddElement
<1>3. ASSUME NEW c \in Call, pc \in [Call -> Phases], pc[c] = "creating",
             pc' = [pc EXCEPT ![c] = pc'[c]], pc'[c] # "creating"
      PROVE  Cardinality(Creating') = Cardinality(Creating) - 1
  <2>1. Creating' = Creating \ {c} /\ c \in Creating
    BY <1>3 DEF Creating
  <2> QED  BY <1>1, <2>1, FS_RemoveElement
<1> QED  BY <1>1, <1>2, <1>3

(* The invariant of a call that is given a connection of the pool, or is   *)
(* to create one.                                                          *)
LEMMA GetClientStep ==
  ASSUME PoolAssumption, SemaphoreInv, PoolInv,
         NEW c \in Call, pc[c] = "granted" \/ (pc[c] = "outside" /\ slots > 0), GetClient(c)
  PROVE  PoolInv'
<1>1. Typed /\ GivenHas /\ SlotsConserved /\ OneOwner /\ LimitRespected /\ IsFiniteSet(open)
      /\ RevokedIsGone /\ RevokedInUse /\ NothingKept
  BY DEF SemaphoreInv, PoolInv
<1>2. has[c] = NoClient /\ UNCHANGED <<disposed, older, open, closes, revoked>> /\ timer' = FALSE
  BY <1>1 DEF GivenHas, GetClient
<1>3. CASE pooled = <<>>
  <2>1. pc' = [pc EXCEPT ![c] = "creating"] /\ UNCHANGED <<pooled, has>>
    BY <1>3 DEF GetClient
  <2>2. OneOwner'
    BY <1>1, <1>2, <2>1 DEF OneOwner, Typed
  <2>3. LimitRespected'
    <3>1. Cardinality(Creating') = Cardinality(Creating) + 1
      BY <1>1, <2>1, CreatingCount DEF Typed
    <3>2. Cardinality(open) + Cardinality(Creating) + 1 <= Limit
      BY <1>1, <1>3, RoomForOne
    <3>3. Cardinality(open) \in Nat /\ Cardinality(Creating) \in Nat /\ Limit \in Nat
      BY <1>1, CreatingCount, FS_CardinalityType DEF PoolAssumption
    <3> QED  BY <1>2, <3>1, <3>2, <3>3 DEF LimitRespected, Creating
  <2>4. RevokedIsGone' /\ NothingKept'
    BY <1>1, <1>2, <2>1 DEF RevokedIsGone, NothingKept
  <2>5. RevokedInUse'
    BY <1>1, <1>2, <2>1 DEF RevokedInUse, Typed
  <2> QED  BY <1>1, <1>2, <2>2, <2>3, <2>4, <2>5 DEF PoolInv
<1>4. CASE pooled # <<>>
  <2> DEFINE x == Head(pooled)
  <2>1. /\ pc' = [pc EXCEPT ![c] = "taken"]
        /\ has' = [has EXCEPT ![c] = x] /\ pooled' = Tail(pooled)
    BY <1>4 DEF GetClient
  <2>2. /\ IsInjective(pooled') /\ ToSet(pooled') = ToSet(pooled) \ {x}
        /\ x \in ToSet(pooled) /\ x \in Client /\ x # NoClient
    BY <1>1, <1>4, <2>1, InjectiveSequences DEF Typed, OneOwner, PoolAssumption
  <2> HIDE DEF x
  <2>3. OneOwner'
    <3>1. ToSet(pooled') \subseteq open' /\ IsInjective(pooled')
      BY <1>1, <1>2, <2>2 DEF OneOwner
    <3>2. \A d \in Call : (pc'[d] \in {"taken", "using"}) = (has'[d] # NoClient)
      BY <1>1, <2>1, <2>2 DEF OneOwner, Typed
    <3>3. \A d \in Call : has'[d] # NoClient => has'[d] \in open' \ ToSet(pooled')
      BY <1>1, <1>2, <2>1, <2>2 DEF OneOwner, Typed
    <3>4. \A d, e \in Call : has'[d] # NoClient /\ has'[d] = has'[e] => d = e
      BY <1>1, <2>1, <2>2 DEF OneOwner, Typed
    <3>5. {has'[d] : d \in {e \in Call : has'[e] # NoClient}}
            = {x} \cup {has[d] : d \in {e \in Call : has[e] # NoClient}}
      BY <1>1, <1>2, <2>1, <2>2 DEF Typed
    <3>6. open' = ToSet(pooled') \cup {has'[d] : d \in {e \in Call : has'[e] # NoClient}}
      BY <1>1, <1>2, <2>2, <3>5 DEF OneOwner
    <3> QED  BY <3>1, <3>2, <3>3, <3>4, <3>6 DEF OneOwner
  <2>4. LimitRespected'
    <3>1. Creating' = Creating
      BY <1>1, <2>1 DEF Creating, Typed
    <3> QED  BY <1>1, <1>2, <3>1 DEF LimitRespected, Creating
  <2>5. RevokedIsGone' /\ NothingKept'
    BY <1>1, <1>2, <1>4, <2>2 DEF RevokedIsGone, NothingKept
  <2>6. RevokedInUse'
    BY <1>1, <1>2, <2>1, <2>2 DEF RevokedInUse, RevokedIsGone, Typed
  <2> QED  BY <1>1, <1>2, <2>3, <2>4, <2>5, <2>6 DEF PoolInv
<1> QED  BY <1>3, <1>4

(* Everything in the pool is closed.                                       *)
LEMMA CloseAllStep ==
  ASSUME PoolAssumption, SemaphoreInv, PoolInv, CloseAll, UNCHANGED <<pc, has>>, disposed' => ~timer'
  PROVE  PoolInv'
<1>1. Typed /\ GivenHas /\ OneOwner /\ LimitRespected /\ IsFiniteSet(open) /\ RevokedInUse
  BY DEF SemaphoreInv, PoolInv
<1>2. /\ older' = [d \in Call |-> TRUE] /\ open' = open \ ToSet(pooled) /\ pooled' = <<>>
      /\ revoked' = revoked \cup {has[d] : d \in {e \in Call : pc[e] = "using"}}
      /\ pc' = pc /\ has' = has /\ ToSet(<<>>) = {} /\ IsInjective(<<>>)
  BY DEF CloseAll, ToSet, IsInjective
<1>3. OneOwner'
  <2>1. open' = {has[d] : d \in {e \in Call : has[e] # NoClient}}
    BY <1>1, <1>2 DEF OneOwner
  <2> QED  BY <1>1, <1>2, <2>1 DEF OneOwner
<1>4. IsFiniteSet(open') /\ LimitRespected'
  <2>1. open' \in SUBSET open /\ Creating' = Creating
    BY <1>2 DEF Creating
  <2>2. IsFiniteSet(open') /\ Cardinality(open') <= Cardinality(open)
    BY <1>1, <2>1, FS_Subset
  <2>3. Cardinality(open) \in Nat /\ Cardinality(open') \in Nat /\ Cardinality(Creating) \in Nat
    BY <1>1, <2>2, CreatingCount, FS_CardinalityType
  <2> QED  BY <1>1, <2>1, <2>2, <2>3 DEF LimitRespected, Creating, PoolAssumption
<1>5. RevokedIsGone' /\ NothingKept'
  BY <1>2 DEF RevokedIsGone, NothingKept
<1>6. RevokedInUse'
  <2> SUFFICES ASSUME NEW d \in Call, has[d] \in revoked' PROVE pc[d] = "using"
    BY <1>2 DEF RevokedInUse
  <2>1. CASE has[d] \in revoked
    BY <1>1, <2>1 DEF RevokedInUse
  <2>2. CASE \E e \in Call : pc[e] = "using" /\ has[e] = has[d]
    <3>1. PICK e \in Call : pc[e] = "using" /\ has[e] = has[d]
      BY <2>2
    <3>2. has[e] # NoClient
      BY <1>1, <3>1 DEF GivenHas
    <3> QED  BY <1>1, <3>1, <3>2 DEF OneOwner
  <2> QED  BY <1>2, <2>1, <2>2
<1> QED  BY <1>3, <1>4, <1>5, <1>6 DEF PoolInv

LEMMA PoolStep == PoolAssumption /\ SemaphoreInv /\ PoolInv /\ [Next]_vars => PoolInv'
<1> SUFFICES ASSUME PoolAssumption, SemaphoreInv, PoolInv, [Next]_vars PROVE PoolInv'
  OBVIOUS
<1>a. Typed /\ GivenHas /\ WaitersQueued /\ OneOwner /\ LimitRespected /\ IsFiniteSet(open)
      /\ RevokedIsGone /\ RevokedInUse /\ NothingKept
  BY DEF SemaphoreInv, PoolInv
<1>b. /\ Cardinality(open) \in Nat /\ Cardinality(Creating) \in Nat /\ Limit \in Nat
      /\ Cardinality(open) + Cardinality(Creating) <= Limit
  BY <1>a, CreatingCount, FS_CardinalityType DEF LimitRespected, Creating, PoolAssumption
<1>c. LimitRespected' <=> Cardinality(open') + Cardinality(Creating') <= Limit
  BY DEF LimitRespected, Creating
<1>1. ASSUME NEW c \in Call, Enter(c) PROVE PoolInv'
  BY <1>1, GetClientStep DEF Enter
<1>2. ASSUME NEW c \in Call, Granted(c) PROVE PoolInv'
  BY <1>2, GetClientStep DEF Granted
<1>3. ASSUME NEW c \in Call, Wait(c) \/ Leave(c) PROVE PoolInv'
  <2>1. UNCHANGED <<pool, older, has, open, closes, revoked>>
    BY <1>3 DEF Wait, Leave
  <2>2. \A d \in Call : /\ pc[d] \in {"taken", "using", "creating"} <=> pc'[d] \in {"taken", "using", "creating"}
                        /\ pc[d] \in {"taken", "using", "creating"} => pc'[d] = pc[d]
    <3>1. queue # <<>> => pc[Head(queue)] = "waiting" /\ Head(queue) \in Call
      BY <1>a, WaitingHead
    <3> QED  BY <1>3, <1>a, <3>1 DEF Wait, Leave, Typed
  <2>3. Creating' = Creating
    BY <2>2 DEF Creating
  <2>4. OneOwner'
    BY <1>a, <2>1, <2>2 DEF OneOwner, pool
  <2>5. RevokedInUse'
    BY <1>a, <2>1, <2>2 DEF RevokedInUse
  <2> QED  BY <1>a, <1>b, <1>c, <2>1, <2>3, <2>4, <2>5 DEF PoolInv, RevokedIsGone, NothingKept, pool
<1>4. ASSUME NEW c \in Call, Taken(c) PROVE PoolInv'
  <2>1. /\ pc[c] = "taken" /\ pc' = [pc EXCEPT ![c] = "using"] /\ older' = [older EXCEPT ![c] = FALSE]
        /\ UNCHANGED <<pooled, timer, disposed, has, open, revoked>>
    BY <1>4 DEF Taken, pool
  <2>2. Creating' = Creating
    BY <1>a, <2>1 DEF Creating, Typed
  <2>3. OneOwner'
    BY <1>a, <2>1 DEF OneOwner, Typed
  <2>4. RevokedInUse'
    BY <1>a, <2>1 DEF RevokedInUse, Typed
  <2> QED  BY <1>a, <1>b, <1>c, <2>1, <2>2, <2>3, <2>4 DEF PoolInv, RevokedIsGone, NothingKept
<1>5. ASSUME NEW c \in Call, CreateFails(c) PROVE PoolInv'
  <2>1. /\ pc[c] = "creating" /\ pc' = [pc EXCEPT ![c] = "leaving"]
        /\ UNCHANGED <<pooled, timer, disposed, older, has, open, revoked>>
    BY <1>5 DEF CreateFails, pool
  <2>2. Cardinality(Creating') = Cardinality(Creating) - 1
    BY <1>a, <2>1, CreatingCount DEF Typed
  <2>3. OneOwner' /\ RevokedInUse'
    BY <1>a, <2>1 DEF OneOwner, RevokedInUse, Typed
  <2> QED  BY <1>a, <1>b, <1>c, <2>1, <2>2, <2>3 DEF PoolInv, RevokedIsGone, NothingKept
<1>6. ASSUME NEW c \in Call, NEW x \in Client, Created(c, x) PROVE PoolInv'
  <2>1. /\ pc[c] = "creating" /\ pc' = [pc EXCEPT ![c] = "using"] /\ has' = [has EXCEPT ![c] = x]
        /\ x \notin open /\ open' = open \cup {x} /\ revoked' = revoked \ {x}
        /\ older' = [older EXCEPT ![c] = FALSE] /\ UNCHANGED <<pooled, timer, disposed>>
    BY <1>6 DEF Created, pool
  <2>2. x # NoClient /\ has[c] = NoClient
    BY <1>a, <2>1 DEF PoolAssumption, GivenHas
  <2>3. /\ IsFiniteSet(open') /\ Cardinality(open') = Cardinality(open) + 1
        /\ Cardinality(Creating') = Cardinality(Creating) - 1
    BY <1>a, <2>1, FS_AddElement, CreatingCount DEF Typed
  <2>4. \A d \in Call : has[d] # x
    BY <1>a, <2>1, <2>2 DEF OneOwner
  <2>5. OneOwner'
    <3>1. {has'[d] : d \in {e \in Call : has'[e] # NoClient}}
            = {x} \cup {has[d] : d \in {e \in Call : has[e] # NoClient}}
      BY <1>a, <2>1, <2>2 DEF Typed
    <3>2. open' = ToSet(pooled') \cup {has'[d] : d \in {e \in Call : has'[e] # NoClient}}
      BY <1>a, <2>1, <3>1 DEF OneOwner
    <3> QED  BY <1>a, <2>1, <2>2, <2>4, <3>2 DEF OneOwner, Typed
  <2>6. RevokedInUse'
    BY <1>a, <2>1 DEF RevokedInUse, Typed
  <2>7. RevokedIsGone'
    BY <1>a, <2>1 DEF RevokedIsGone
  <2> QED  BY <1>a, <1>b, <1>c, <2>1, <2>3, <2>5, <2>6, <2>7 DEF PoolInv, NothingKept
<1>7. ASSUME NEW c \in Call, Return(c) PROVE PoolInv'
  <2>1. /\ pc[c] = "using" /\ ~older[c] /\ ~disposed
        /\ pooled' = Append(pooled, has[c]) /\ has' = [has EXCEPT ![c] = NoClient]
        /\ pc' = [pc EXCEPT ![c] = "leaving"] /\ UNCHANGED <<disposed, older, open, revoked>>
    BY <1>7 DEF Return, Keeps
  <2>2. has[c] \in Client /\ has[c] # NoClient /\ has[c] \in open \ ToSet(pooled) /\ has[c] \notin revoked
    BY <1>a, <2>1 DEF Typed, GivenHas, OneOwner, RevokedInUse
  <2>3. ToSet(pooled') = ToSet(pooled) \cup {has[c]} /\ IsInjective(pooled')
    BY <1>a, <2>1, <2>2, InjectiveSequences DEF Typed, OneOwner
  <2>4. OneOwner'
    <3>1. {has[d] : d \in {e \in Call : has[e] # NoClient}}
            = {has[c]} \cup {has'[d] : d \in {e \in Call : has'[e] # NoClient}}
      BY <1>a, <2>1, <2>2 DEF Typed
    <3>2. open' = ToSet(pooled') \cup {has'[d] : d \in {e \in Call : has'[e] # NoClient}}
      BY <1>a, <2>1, <2>3, <3>1 DEF OneOwner
    <3> QED  BY <1>a, <2>1, <2>2, <2>3, <3>2 DEF OneOwner, Typed
  <2>5. Creating' = Creating
    BY <1>a, <2>1 DEF Creating, Typed
  <2>6. NoClient \notin revoked'
    BY <1>a, <2>1 DEF Typed, PoolAssumption
  <2>7. RevokedInUse'
    BY <1>a, <2>1, <2>6 DEF RevokedInUse, Typed
  <2>8. RevokedIsGone' /\ NothingKept'
    BY <1>a, <2>1, <2>2, <2>3 DEF RevokedIsGone, NothingKept
  <2> QED  BY <1>a, <1>b, <1>c, <2>1, <2>4, <2>5, <2>7, <2>8 DEF PoolInv
<1>8. ASSUME NEW c \in Call, Close(c) PROVE PoolInv'
  <2>1. /\ pc[c] = "using" /\ open' = open \ {has[c]} /\ has' = [has EXCEPT ![c] = NoClient]
        /\ pc' = [pc EXCEPT ![c] = "leaving"] /\ UNCHANGED <<pooled, timer, disposed, older, revoked>>
    BY <1>8 DEF Close, pool
  <2>2. has[c] # NoClient /\ has[c] \in open \ ToSet(pooled) /\ NoClient \notin revoked'
    BY <1>a, <2>1 DEF Typed, GivenHas, OneOwner, PoolAssumption
  <2>3. OneOwner'
    <3>1. {has'[d] : d \in {e \in Call : has'[e] # NoClient}}
            = {has[d] : d \in {e \in Call : has[e] # NoClient}} \ {has[c]}
      BY <1>a, <2>1, <2>2 DEF Typed, OneOwner
    <3>2. open' = ToSet(pooled') \cup {has'[d] : d \in {e \in Call : has'[e] # NoClient}}
      BY <1>a, <2>1, <2>2, <3>1 DEF OneOwner
    <3> QED  BY <1>a, <2>1, <2>2, <3>2 DEF OneOwner, Typed
  <2>4. Creating' = Creating
    BY <1>a, <2>1 DEF Creating, Typed
  <2>5. IsFiniteSet(open') /\ Cardinality(open') \in Nat /\ Cardinality(open') <= Cardinality(open)
    BY <1>a, <2>1, FS_Subset, FS_CardinalityType
  <2>6. RevokedInUse'
    BY <1>a, <2>1, <2>2 DEF RevokedInUse, Typed
  <2> QED  BY <1>a, <1>b, <1>c, <2>1, <2>3, <2>4, <2>5, <2>6 DEF PoolInv, RevokedIsGone, NothingKept
<1>9. ASSUME CloseClients \/ Dispose \/ Timeout PROVE PoolInv'
  <2>1. CloseAll /\ UNCHANGED <<pc, has>>
    BY <1>9 DEF CloseClients, Dispose, Timeout
  <2>2. disposed' => ~timer'
    BY <1>9, <1>a DEF CloseClients, Dispose, Timeout, NothingKept
  <2> QED  BY <2>1, <2>2, CloseAllStep
<1>10. CASE UNCHANGED vars
  BY <1>10, <1>a DEF vars, PoolInv, OneOwner, LimitRespected, RevokedIsGone, RevokedInUse, NothingKept
<1> QED
  BY <1>1, <1>2, <1>3, <1>4, <1>5, <1>6, <1>7, <1>8, <1>9, <1>10 DEF Next, Proceed, Answered

(* Every open connection is owned by one call or by the pool, there are    *)
(* never more than the limit, one that was revoked is not offered again,   *)
(* and a disposed pool keeps nothing (connectionPool.ts), for any number   *)
(* of calls and connections and for any limit.                             *)
THEOREM PoolIsRight == Spec => []ConnectionsAreOwned
<1>1. Init => PoolInv
  <2> SUFFICES ASSUME Init PROVE PoolInv
    OBVIOUS
  <2>1. ToSet(pooled) = {} /\ IsInjective(pooled)
    BY DEF Init, ToSet, IsInjective
  <2>2. OneOwner
    BY <2>1 DEF Init, OneOwner
  <2>3. {c \in Call : pc[c] = "creating"} = {} /\ open = {}
    BY DEF Init
  <2>4. LimitRespected /\ IsFiniteSet(open)
    <3>1. Cardinality(open) = 0 /\ Cardinality({c \in Call : pc[c] = "creating"}) = 0 /\ IsFiniteSet(open)
      BY <2>3, FS_EmptySet
    <3> QED  BY PoolAssumption, <3>1 DEF LimitRespected, PoolAssumption
  <2> QED  BY <2>1, <2>2, <2>4 DEF Init, PoolInv, RevokedIsGone, RevokedInUse, NothingKept
<1>2. PoolAssumption /\ SemaphoreInv /\ PoolInv /\ [Next]_vars => PoolInv'
  BY PoolStep
<1>3. PoolInv => ConnectionsAreOwned
  <2> SUFFICES ASSUME PoolInv PROVE DisposedIsEmpty
    BY DEF PoolInv, ConnectionsAreOwned
  <2> SUFFICES ASSUME disposed, open # {} PROVE \E c \in Call : pc[c] # "outside"
    BY DEF DisposedIsEmpty, PoolInv, NothingKept
  <2>1. ToSet(pooled) = {}
    BY DEF PoolInv, NothingKept, ToSet
  <2> QED  BY <2>1 DEF PoolInv, OneOwner
<1> QED  BY <1>1, <1>2, <1>3, PoolAssumption, SemaphoreHolds, PTL DEF Spec
=============================================================================
