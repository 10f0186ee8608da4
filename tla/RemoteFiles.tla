---------------------------- MODULE RemoteFiles ----------------------------
(***************************************************************************)
(* HLASMExternalFiles of the VS Code client (hlasmExternalFiles.ts): the   *)
(* requests of the language server for remote files, the caches in memory  *)
(* and on disk, the invalidation of both, suspended and disposed clients,  *)
(* and the progress that is shown while files are retrieved.               *)
(*                                                                         *)
(* One service and one of the two caches; files and directories are        *)
(* handled alike. The code runs on one thread and an action ends where it  *)
(* awaits. What the language server knows is external.                     *)
(***************************************************************************)
EXTENDS Integers, FiniteSets

CONSTANTS
  Req,          \* requests that may be in progress at once
  Key,          \* normalized paths
  Url,          \* URLs the language server uses
  KeyOf,        \* the normalized path of a URL
  MaxVersion,   \* bound: changes of a remote file
  MaxInstances, \* bound: calls of setClient
  MaxEvents     \* bound: clears, suspensions, resumptions, restarts

RemoteAssumption ==
  /\ KeyOf \in [Url -> Key]
  /\ MaxVersion \in Nat /\ MaxInstances \in Nat /\ MaxEvents \in Nat

VARIABLES
  current,   \* the client that is registered, 0 if none
  instances, \* clients registered so far
  suspended, \* clients that are suspended
  remote,    \* the version of each remote file, 0 if it does not exist
  memory,    \* memberContent, a set of at most one entry for each key
  disk,      \* files of the cache directory
  clearing,  \* what clearCache has yet to delete
  at, url, instance, result, \* each request: where it awaits, and what it holds
  pending,   \* pendingRequests
  progress,  \* activeProgress is not null
  armed,     \* the timer pendingActiveProgressCancellation is running
  orphans,   \* running timers whose handle has been overwritten
  asserted,  \* what the code asserts is not null, and was
  known,     \* what the language server has been told of each URL
  events,
  raced,     \* history: keys of requests that overlapped the removal of an entry
             \* or file, of entries that were removed without telling anyone, and
             \* of files that could not be deleted
  dropped    \* requests that were retrieving a file at a restart

requestVars == <<at, url, instance, result>>
clientVars == <<current, instances, suspended>>
progressVars == <<pending, progress, armed, orphans>>
vars == <<requestVars, clientVars, progressVars, remote, memory, disk, clearing,
          asserted, known, events, raced, dropped>>

NoValue == -3
InError == -2
NoClient == -1
Missing == 0

Init == /\ current = 0 /\ instances = 0 /\ suspended = {}
        /\ remote \in [Key -> 0..1] /\ memory = {} /\ disk = [k \in Key |-> NoValue]
        /\ clearing = [on |-> FALSE, service |-> FALSE, files |-> {}]
        /\ at = [r \in Req |-> "idle"] /\ url = [r \in Req |-> NoValue]
        /\ instance = [r \in Req |-> 0] /\ result = [r \in Req |-> NoValue]
        /\ pending = {} /\ progress = FALSE /\ armed = FALSE /\ orphans = 0
        /\ asserted = {} /\ known = [u \in Url |-> NoValue] /\ events = 0
        /\ raced = {} /\ dropped = {}

KeyOfReq(r) == KeyOf[url[r]]

Event == events < MaxEvents /\ events' = events + 1

-----------------------------------------------------------------------------
(* Entries in memory. An entry is an object that the requests of .holders  *)
(* still refer to.                                                         *)

(* Defect: only the request that created an entry is added to it.          *)
UnreferencedHit(e, r) == [e EXCEPT !.holders = @ \cup {r}]

Hit(e, r) == [e EXCEPT !.refs = @ \cup {url[r]}, !.holders = @ \cup {r}]

(* A new entry replaces one that was stored while it was retrieved.        *)
Insert(r, value) ==
  LET k == KeyOfReq(r)
      old == {e \in memory : e.key = k}
  IN /\ memory' = (memory \ old) \cup
          {[key |-> k, result |-> value, refs |-> {url[r]}, holders |-> {r}, cached |-> FALSE]}
     /\ raced' = IF old = {} THEN raced ELSE raced \cup {k}

Cacheable(value) == value >= Missing

(* An entry that can be stored on disk and has not been is stored first.   *)
AfterEntry(r, value, cached) ==
  IF Cacheable(value) /\ instance[r] # 0 /\ ~cached THEN "store" ELSE "respond"

(* Requests that have started and have not been answered.                  *)
InFlight(k) == \E r \in Req : at[r] # "idle" /\ KeyOfReq(r) = k

(* The entries whose references are reported as changed.                   *)
Notified(gone) == gone

(* notifyAllWorkspaces: the entries are removed, and the language server   *)
(* forgets the URLs that refer to them.                                    *)
Notify(gone) ==
  /\ memory' = memory \ gone
  /\ known' = [u \in Url |-> IF \E e \in Notified(gone) : u \in e.refs THEN NoValue ELSE known[u]]
  /\ raced' = raced \cup {k \in Key : InFlight(k)}

(* Entries without content: they are tried again.                          *)
Failures == {e \in memory : ~Cacheable(e.result)}

-----------------------------------------------------------------------------
(* The client of the service.                                              *)
SetClient ==
  /\ current = 0 /\ instances < MaxInstances
  /\ instances' = instances + 1 /\ current' = instances' /\ Notify(Failures)
  /\ UNCHANGED <<requestVars, suspended, progressVars, remote, disk, clearing, asserted, events, dropped>>

DisposeClient ==
  /\ current # 0 /\ current' = 0 /\ Notify(memory)
  /\ UNCHANGED <<requestVars, instances, suspended, progressVars, remote, disk, clearing, asserted, events, dropped>>

(* suspendAll, after which the timer and the progress are as given.        *)
Suspend(timer) ==
  LET active == current # 0 /\ current \notin suspended
  IN /\ suspended' = IF active THEN suspended \cup {current} ELSE suspended
     /\ progress' = IF active THEN FALSE ELSE progress
     /\ armed' = IF active /\ progress THEN FALSE ELSE timer

SuspendAll ==
  /\ Event /\ Suspend(armed)
  /\ UNCHANGED <<requestVars, current, instances, pending, orphans, remote, memory, disk, clearing, asserted, known, raced, dropped>>

ResumeAll ==
  /\ current \in suspended /\ Event
  /\ suspended' = suspended \ {current} /\ Notify(Failures)
  /\ UNCHANGED <<requestVars, current, instances, progressVars, remote, disk, clearing, asserted, dropped>>

-----------------------------------------------------------------------------
(* handleMessage.                                                          *)
Start(r) ==
  /\ at[r] = "idle" /\ r \notin dropped
  /\ \E u \in Url : url' = [url EXCEPT ![r] = u]
  /\ at' = [at EXCEPT ![r] = "parse"]
  /\ instance' = [instance EXCEPT ![r] = current]
  /\ UNCHANGED <<result, clientVars, progressVars, remote, memory, disk, clearing, asserted, known, events, raced, dropped>>

(* The arguments are parsed: the entry is looked up.                       *)
Lookup(r) ==
  /\ at[r] = "parse"
  /\ LET found == {e \in memory : e.key = KeyOfReq(r)} IN
       \/ \E e \in found :
            /\ memory' = (memory \ {e}) \cup {Hit(e, r)}
            /\ result' = [result EXCEPT ![r] = e.result]
            /\ at' = [at EXCEPT ![r] = AfterEntry(r, e.result, e.cached)]
            /\ UNCHANGED raced
       \/ /\ found = {} /\ instance[r] = 0 /\ Insert(r, NoClient)
          /\ result' = [result EXCEPT ![r] = NoClient]
          /\ at' = [at EXCEPT ![r] = "respond"]
       \/ /\ found = {} /\ instance[r] # 0
          /\ at' = [at EXCEPT ![r] = "disk"] /\ UNCHANGED <<memory, result, raced>>
  /\ UNCHANGED <<url, instance, clientVars, progressVars, remote, disk, clearing, asserted, known, events, dropped>>

(* getCachedResult finds a file. It may not be readable, and needs the id  *)
(* of the server, which some clients do not know.                          *)
ReadDisk(r) ==
  /\ at[r] = "disk" /\ disk[KeyOfReq(r)] # NoValue
  /\ at' = [at EXCEPT ![r] = "got"]
  /\ result' = [result EXCEPT ![r] = disk[KeyOfReq(r)]]
  /\ UNCHANGED <<url, instance, clientVars, progressVars, remote, memory, disk, clearing, asserted, known, events, raced, dropped>>

(* Nothing was found, and the client must not be asked.                    *)
Refuse(r) ==
  /\ at[r] = "disk" /\ instance[r] \in suspended
  /\ at' = [at EXCEPT ![r] = "got"] /\ result' = [result EXCEPT ![r] = NoClient]
  /\ UNCHANGED <<url, instance, clientVars, progressVars, remote, memory, disk, clearing, asserted, known, events, raced, dropped>>

(* askClient, addWIP: the client of the service is looked up again when    *)
(* there is no progress, and is not there if it has been disposed.         *)
Ask(r) ==
  /\ at[r] = "disk" /\ instance[r] \notin suspended
  /\ armed' = FALSE
  /\ \/ /\ ~progress /\ current = 0
        /\ asserted' = asserted \cup {"client"}
        /\ at' = [at EXCEPT ![r] = "got"] /\ result' = [result EXCEPT ![r] = InError]
        /\ UNCHANGED <<pending, progress>>
     \/ /\ progress \/ current # 0
        /\ at' = [at EXCEPT ![r] = "fetch"] /\ pending' = pending \cup {r}
        /\ progress' = (progress \/ current \notin suspended)
        /\ UNCHANGED <<asserted, result>>
  /\ UNCHANGED <<url, instance, clientVars, orphans, remote, memory, disk, clearing, known, events, raced, dropped>>

(* No request is pending after this one.                                   *)
Last(r) == pending \ {r} = {}

(* The timer that ends the progress is set over the one that may run.      *)
EndTimer(r) == IF progress /\ Last(r) THEN TRUE ELSE armed

Interest(r) == r \in pending

(* The request is over.                                                    *)
Finish(r) == /\ at' = [at EXCEPT ![r] = "idle"] /\ url' = [url EXCEPT ![r] = NoValue]
             /\ result' = [result EXCEPT ![r] = NoValue] /\ instance' = [instance EXCEPT ![r] = 0]

(* The client answers with the content, that there is none, or an error,   *)
(* which may suspend it; the answer to a previous server is dropped.       *)
Fetched(r, value, suspends) ==
  /\ at[r] = "fetch" /\ pending' = pending \ {r}
  /\ orphans' = IF progress /\ Last(r) /\ armed THEN orphans + 1 ELSE orphans
  /\ IF Interest(r)
     THEN /\ at' = [at EXCEPT ![r] = "got"] /\ result' = [result EXCEPT ![r] = value]
          /\ UNCHANGED <<url, instance>>
          /\ IF suspends THEN Suspend(EndTimer(r))
             ELSE armed' = EndTimer(r) /\ UNCHANGED <<suspended, progress>>
     ELSE Finish(r) /\ armed' = EndTimer(r) /\ UNCHANGED <<suspended, progress>>
  /\ dropped' = dropped \ {r}
  /\ UNCHANGED <<current, instances, remote, memory, disk, clearing, asserted, known, events, raced>>

FetchReturns(r) ==
  \/ Fetched(r, remote[KeyOfReq(r)], FALSE)
  \/ \E suspends \in BOOLEAN : Fetched(r, InError, suspends)

Store(r) ==
  /\ at[r] = "got" /\ Insert(r, result[r])
  /\ at' = [at EXCEPT ![r] = AfterEntry(r, result[r], FALSE)]
  /\ UNCHANGED <<url, instance, result, clientVars, progressVars, remote, disk, clearing, asserted, known, events, dropped>>

Mark(e, r, written) == [e EXCEPT !.cached = @ \/ (r \in e.holders /\ written)]

(* storeCachedResult: the file is written unless that fails, or the server *)
(* is not known.                                                           *)
StoreOnDisk(r) ==
  /\ at[r] = "store" /\ at' = [at EXCEPT ![r] = "respond"]
  /\ \E written \in BOOLEAN :
       /\ disk' = IF written THEN [disk EXCEPT ![KeyOfReq(r)] = result[r]] ELSE disk
       /\ memory' = {IF e.key = KeyOfReq(r) THEN Mark(e, r, written) ELSE e : e \in memory}
       /\ raced' = IF clearing.on /\ written THEN raced \cup {KeyOfReq(r)} ELSE raced
  /\ UNCHANGED <<url, instance, result, clientVars, progressVars, remote, clearing, asserted, known, events, dropped>>

Respond(r) ==
  /\ at[r] = "respond" /\ Finish(r)
  /\ known' = [known EXCEPT ![url[r]] = result[r]]
  /\ memory' = {[e EXCEPT !.holders = @ \ {r}] : e \in memory}
  /\ UNCHANGED <<clientVars, progressVars, remote, disk, clearing, asserted, events, raced, dropped>>

-----------------------------------------------------------------------------
(* clearCache: the directory is read, files are deleted one by one, and    *)
(* then all entries in memory are removed.                                 *)
ClearStart(service) ==
  /\ ~clearing.on
  /\ clearing' = [on |-> TRUE, service |-> service, files |-> {k \in Key : disk[k] # NoValue}]

(* A remote file changes, and its client invalidates the caches.           *)
RemoteChange(k) ==
  /\ current # 0 /\ remote[k] < MaxVersion
  /\ remote' = [remote EXCEPT ![k] = @ + 1] /\ ClearStart(TRUE)
  /\ UNCHANGED <<requestVars, clientVars, progressVars, memory, disk, asserted, known, events, raced, dropped>>

(* The user clears everything, or a service that is registered.            *)
UserClear ==
  /\ Event /\ \E service \in BOOLEAN : (service => current # 0) /\ ClearStart(service)
  /\ UNCHANGED <<requestVars, clientVars, progressVars, remote, memory, disk, asserted, known, raced, dropped>>

DeleteFile(k) == [disk EXCEPT ![k] = NoValue]

(* A file that cannot be deleted is counted, and stays.                    *)
ClearDelete(k) ==
  /\ k \in clearing.files
  /\ \/ disk' = DeleteFile(k) /\ UNCHANGED raced
     \/ disk[k] # NoValue /\ raced' = raced \cup {k} /\ UNCHANGED disk
  /\ clearing' = [clearing EXCEPT !.files = @ \ {k}]
  /\ UNCHANGED <<requestVars, clientVars, progressVars, remote, memory, asserted, known, events, dropped>>

(* Entries are removed, but nobody is told, when their service is unknown. *)
ClearEnd ==
  /\ clearing.on /\ clearing.files = {} /\ clearing' = [clearing EXCEPT !.on = FALSE, !.service = FALSE]
  /\ \/ (clearing.service \/ current # 0) /\ Notify(memory)
     \/ /\ ~clearing.service /\ current = 0
        /\ memory' = {} /\ known' = known
        /\ raced' = raced \cup {k \in Key : InFlight(k)} \cup {e.key : e \in memory}
  /\ UNCHANGED <<requestVars, clientVars, progressVars, remote, disk, asserted, events, dropped>>

-----------------------------------------------------------------------------
(* The callback of the timer ends the progress, which it asserts is there. *)
TimerFires ==
  /\ \/ armed /\ armed' = FALSE /\ UNCHANGED orphans
     \/ orphans > 0 /\ orphans' = orphans - 1 /\ UNCHANGED armed
  /\ progress' = FALSE
  /\ asserted' = IF progress THEN asserted ELSE asserted \cup {"progress"}
  /\ UNCHANGED <<requestVars, clientVars, pending, remote, memory, disk, clearing, known, events, raced, dropped>>

(* The language server is restarted: reset().                              *)
Restart ==
  /\ Event /\ pending' = {}
  /\ known' = [u \in Url |-> NoValue]
  /\ dropped' = {r \in Req : at[r] = "fetch"}
  /\ UNCHANGED <<requestVars, clientVars, progress, armed, orphans, remote, memory, disk, clearing, asserted, raced>>

Step(r) == Lookup(r) \/ ReadDisk(r) \/ Refuse(r) \/ Ask(r) \/ FetchReturns(r)
           \/ Store(r) \/ StoreOnDisk(r) \/ Respond(r)

Clearing == ClearEnd \/ \E k \in Key : ClearDelete(k)

Next == \/ SetClient \/ DisposeClient \/ SuspendAll \/ ResumeAll
        \/ \E r \in Req : Start(r) \/ Step(r)
        \/ \E k \in Key : RemoteChange(k)
        \/ UserClear \/ Clearing \/ TimerFires \/ Restart

(* Promises settle, clients answer in the end, and timers fire.            *)
Fairness == /\ \A r \in Req : WF_vars(Step(r))
            /\ WF_vars(Clearing) /\ WF_vars(TimerFires)

Spec == Init /\ [][Next]_vars
FairSpec == Spec /\ Fairness

-----------------------------------------------------------------------------
(* Properties.                                                             *)

Value == NoClient..MaxVersion \cup {InError}

(* The variables hold values of these sets; a key has one entry.           *)
TypeOK ==
  /\ current \in 0..instances /\ suspended \subseteq 1..instances
  /\ memory \subseteq [key : Key, result : Value, refs : SUBSET Url, holders : SUBSET Req, cached : BOOLEAN]
  /\ \A d, e \in memory : d.key = e.key => d = e
  /\ disk \in [Key -> {NoValue} \cup Missing..MaxVersion]
  /\ at \in [Req -> {"idle", "parse", "disk", "fetch", "got", "store", "respond"}]
  /\ result \in [Req -> {NoValue} \cup Value] /\ known \in [Url -> {NoValue} \cup Value]
  /\ pending \subseteq {r \in Req : at[r] = "fetch"} /\ orphans \in 0..Cardinality(Req)

(* When a remote file has changed and the caches are cleared, the language *)
(* server has no older content of it: it has been told that its URL has    *)
(* changed. Not so for a file that was being requested when an entry was   *)
(* removed or replaced: its answer, and the entry and the file that it     *)
(* then stores, may be older than the removal, or be referred to by nobody;*)
(* nor for one that could not be deleted.                                  *)
ServerIsFresh == \A u \in Url :
  known[u] >= Missing /\ ~clearing.on /\ KeyOf[u] \notin raced => known[u] = remote[KeyOf[u]]

(* The same of what is left in the caches, which later requests read.      *)
CachesAreFresh == \A k \in Key :
  ~clearing.on /\ k \notin raced =>
    /\ disk[k] \in {NoValue, remote[k]}
    /\ \A e \in memory : e.key = k /\ Cacheable(e.result) => e.result = remote[k]

(* The language server is not left with the answer that there is no client *)
(* when there is one that is not suspended: except for files that were     *)
(* being requested when it appeared, or if the caches were cleared while   *)
(* the service had no client.                                              *)
RetriedWhenAvailable == \A u \in Url :
  known[u] = NoClient /\ current # 0 /\ current \notin suspended => KeyOf[u] \in raced

(* An entry that is not stored on disk again is on disk, for the next      *)
(* session, unless the cache is being cleared.                             *)
CachedIsOnDisk == \A e \in memory : e.cached /\ ~clearing.on => disk[e.key] # NoValue

(* A progress that is shown will be ended: by a request in progress, also  *)
(* one that was started for a previous server, or by a timer.              *)
ProgressHasEnd == progress => armed \/ orphans > 0 \/ \E r \in Req : at[r] = "fetch"

=============================================================================
