------------------------------ MODULE MCCaches ------------------------------
(***************************************************************************)
(* What is kept between two requests, for TLC: macros and copy members of  *)
(* two programs (MacroCache, of which invariants are proved as well),      *)
(* remote files (Clients, Urls), and the statement a debugged program is   *)
(* stopped at (Debug).                                                     *)
(*                                                                         *)
(* The components share no state in this model; `part` chooses the one that*)
(* runs.                                                                   *)
(***************************************************************************)
EXTENDS MacroCache, TLC

CONSTANTS m, c, plain, copying, Unused, r1, r2, key, u1, u2, line1, line2, inner

VARIABLES
  part,
  \* RemoteFiles
  current, instances, suspended, remote, memory, clientsDisk, clearing, at, url,
  instance, clientsResult, clientsPending, progress, armed, orphans, asserted,
  known, clientsEvents, raced, dropped,
  \* Debugger
  thread, inbox, terminated, task, config, stack, limited, continue, stopNext,
  stopStack, condition, shown, breakpoints, outbox, editor, sent, wish

(* A macro m that may copy c.                                              *)
MCNameOf == [l \in Location |-> l]
MCCopies == [t \in Text |-> IF t = copying THEN {c} ELSE {}]

(* The library of the macro may be missing ...                             *)
MCConfig == {[n \in Name |-> n], [n \in Name |-> IF n = m THEN None ELSE n]}

(* ... or the library of the copy member.                                  *)
MCCopyConfig == {[n \in Name |-> n], [n \in Name |-> IF n = c THEN None ELSE n]}

Symmetry == Permutations(Program)

(* Two lines of open code and a macro of one line.                         *)
MCUnit == [l \in {line1, line2, inner} |-> IF l = inner THEN "macro" ELSE "open code"]
MCSource == [l \in {line1, line2, inner} |-> "file"]

(* A remote file, with clients that come, go and are suspended ...         *)
Clients == INSTANCE RemoteFiles WITH
            Req <- {r1, r2}, Key <- {key}, Url <- {u1},
            KeyOf <- [u \in {u1} |-> key], MaxVersion <- 1, MaxInstances <- 1,
            MaxEvents <- 1, disk <- clientsDisk, result <- clientsResult,
            pending <- clientsPending, events <- clientsEvents
(* ... and with two URLs.                                                 *)
Urls == INSTANCE RemoteFiles WITH
         Req <- {r1, r2}, Key <- {key}, Url <- {u1, u2},
         KeyOf <- [u \in {u1, u2} |-> key], MaxVersion <- 1, MaxInstances <- 1,
         MaxEvents <- 0, disk <- clientsDisk, result <- clientsResult,
         pending <- clientsPending, events <- clientsEvents

Debug == INSTANCE Debugger WITH
          Line <- {line1, line2, inner}, Unit <- MCUnit, Source <- MCSource,
          OpenCode <- "open code", Breakable <- {inner}, MaxDepth <- 2,
          MaxRequests <- 4

ASSUME Clients!RemoteAssumption /\ Urls!RemoteAssumption /\ Debug!DebuggerAssumption

clientsVars == <<current, instances, suspended, remote, memory, clientsDisk,
                 clearing, at, url, instance, clientsResult, clientsPending,
                 progress, armed, orphans, asserted, known, clientsEvents, raced,
                 dropped>>
debugVars == <<thread, inbox, terminated, task, config, stack, limited, continue,
               stopNext, stopStack, condition, shown, breakpoints, outbox, editor,
               sent, wish>>
allVars == <<part, vars, clientsVars, debugVars>>

ClientsAtRest ==
  /\ current = Unused /\ instances = Unused /\ suspended = Unused /\ remote = Unused
  /\ memory = Unused /\ clientsDisk = Unused /\ clearing = Unused /\ at = Unused
  /\ url = Unused /\ instance = Unused /\ clientsResult = Unused
  /\ clientsPending = Unused /\ progress = Unused /\ armed = Unused
  /\ orphans = Unused /\ asserted = Unused /\ known = Unused
  /\ clientsEvents = Unused /\ raced = Unused /\ dropped = Unused

CachesInit ==
  /\ part \in {"macros", "clients", "urls", "debugger"}
  /\ Init /\ (part # "macros" => disk \in [Location -> {plain}] /\ conf = [n \in Name |-> n])
  /\ CASE part = "clients" -> Clients!Init
       [] part = "urls" -> Urls!Init
       [] OTHER -> ClientsAtRest
  /\ Debug!Init

CachesNext ==
  \/ part = "macros" /\ Next /\ UNCHANGED <<part, clientsVars, debugVars>>
  \/ part = "clients" /\ Clients!Next /\ UNCHANGED <<part, vars, debugVars>>
  \/ part = "urls" /\ Urls!Next /\ UNCHANGED <<part, vars, debugVars>>
  \/ part = "debugger" /\ Debug!Next /\ UNCHANGED <<part, vars, clientsVars>>

CachesSpec == CachesInit /\ [][CachesNext]_allVars

-----------------------------------------------------------------------------
(* After a change of a remote file and a clear of the caches, neither the  *)
(* language server nor a cache has an older version of it, except of what  *)
(* was being requested meanwhile or could not be deleted                   *)
(* (hlasmExternalFiles.ts:557, 692); what is marked as cached is on disk.  *)
(* The server is not left with the answer that there is no client when     *)
(* there is one, and a progress that is shown will be ended.               *)
RemoteIsFresh ==
  /\ part = "clients" =>
       /\ Clients!ServerIsFresh /\ Clients!CachesAreFresh /\ Clients!CachedIsOnDisk
       /\ Clients!RetriedWhenAvailable /\ Clients!ProgressHasEnd
  /\ part = "urls" => Urls!ServerIsFresh /\ Urls!CachesAreFresh /\ Urls!CachedIsOnDisk

(* The program stops at each statement the user has asked for, and at no   *)
(* other, whatever requests cross with the stops; while the editor         *)
(* believes it to be stopped it is, at the statement shown, and can be     *)
(* resumed.                                                                *)
StopsAsAsked == []Debug!StopIsShared /\ Debug!StopsWhereAsked /\ Debug!NeverRunsPast
=============================================================================
