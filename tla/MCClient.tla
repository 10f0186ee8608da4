------------------------------ MODULE MCClient ------------------------------
(***************************************************************************)
(* The extension of the editor for TLC: the pool of connections to a       *)
(* mainframe (ConnectionPool, whose invariants are proved as well), the    *)
(* command that downloads data sets (Download) and the stream that unpacks *)
(* one (Unpack).                                                           *)
(*                                                                         *)
(* The components share no state in this model; `part` chooses the one that*)
(* runs.                                                                   *)
(***************************************************************************)
EXTENDS ConnectionPool

CONSTANTS Unused

VARIABLES
  part,
  \* DownloadJobs
  downloadPc, content, wanted, toSend, host, downloaded, list, unpacking, copied,
  total, failed, progress, closed, broken,
  \* UnterseStream
  archive, unpackToSend, source, chunks, over, interested, fetch, decoder, current,
  chain, chainOk, active, files

(* Two data sets, one of them wanted by two directories.                   *)
MCDirs == [j \in {"A", "B"} |-> IF j = "A" THEN <<"d1", "d2">> ELSE <<"d3">>]

P(k, n) == [kind |-> k, name |-> n]

(* Archives with members, an alias before and behind other members, a bad  *)
(* header, data behind the end of the archive.                             *)
MCArchives ==
  { <<P("header", "pds"), P("member", "A"), P("data", 1), P("data", 2), P("alias", "C"),
      P("member", "B"), P("data", 3), P("end", "")>>,
    <<P("header", "pds"), P("member", "B"), P("member", "A"), P("data", 1),
      P("alias", "C"), P("alias", "D"), P("end", ""), P("rest", ""), P("rest", "")>>,
    <<P("header", "other"), P("member", "A"), P("end", "")>> }

Download == INSTANCE DownloadJobs WITH
             Jobs <- {"A", "B"}, DirsOf <- MCDirs, MaxBroken <- 2, pc <- downloadPc

Unpack == INSTANCE UnterseStream WITH
           Archives <- MCArchives, Limit <- 1, toSend <- unpackToSend

downloadVars == <<downloadPc, content, wanted, toSend, host, downloaded, list,
                  unpacking, copied, total, failed, progress, closed, broken>>
unpackVars == <<archive, unpackToSend, source, chunks, over, interested, fetch,
                decoder, current, chain, chainOk, active, files>>
allVars == <<part, vars, downloadVars, unpackVars>>

DownloadAtRest ==
  /\ downloadPc = Unused /\ content = Unused /\ wanted = Unused /\ toSend = Unused
  /\ host = Unused /\ downloaded = Unused /\ list = Unused /\ unpacking = Unused
  /\ copied = Unused /\ total = Unused /\ failed = Unused /\ progress = Unused
  /\ closed = Unused /\ broken = Unused
UnpackAtRest ==
  /\ archive = Unused /\ unpackToSend = Unused /\ source = Unused /\ chunks = Unused
  /\ over = Unused /\ interested = Unused /\ fetch = Unused /\ decoder = Unused
  /\ current = Unused /\ chain = Unused /\ chainOk = Unused /\ active = Unused
  /\ files = Unused

ClientInit ==
  /\ part \in {"pool", "jobs", "unterse"}
  /\ Init
  /\ IF part = "jobs" THEN Download!Init ELSE DownloadAtRest
  /\ IF part = "unterse" THEN Unpack!Init ELSE UnpackAtRest

ClientNext ==
  \/ part = "pool" /\ Next /\ UNCHANGED <<part, downloadVars, unpackVars>>
  \/ part = "jobs" /\ Download!Next /\ UNCHANGED <<part, vars, unpackVars>>
  \/ part = "unterse" /\ Unpack!Next /\ UNCHANGED <<part, vars, downloadVars>>

(* What is awaited happens: calls go on, the host finishes its jobs, the   *)
(* stream and the decoder run. The timer of the pool fires.                *)
ClientFairness ==
  /\ \A c \in Call : /\ WF_vars(part = "pool" /\ Proceed(c))
                     /\ WF_vars(part = "pool" /\ Answered(c))
  /\ WF_vars(part = "pool" /\ Timeout)
  /\ WF_downloadVars(part = "jobs" /\ Download!Main)
  /\ \A j \in {"A", "B"} : /\ WF_downloadVars(part = "jobs" /\ Download!Unterse(j))
                           /\ WF_downloadVars(part = "jobs" /\ Download!CopyDir(j))
                           /\ WF_downloadVars(part = "jobs" /\ Download!HostFinishes(j))
  /\ WF_unpackVars(part = "unterse" /\ (Unpack!Write \/ Unpack!Final))
  /\ WF_unpackVars(part = "unterse" /\ Unpack!RunAction)
  /\ WF_unpackVars(part = "unterse" /\ Unpack!Decode)

ClientSpec == ClientInit /\ [][ClientNext]_allVars /\ ClientFairness

-----------------------------------------------------------------------------
(* A data set reported as complete is complete in each of its directories, *)
(* and none of those asked for is forgotten. An archive reported as        *)
(* unpacked is unpacked as a whole, aliases behind their targets, and no   *)
(* chunk is left while the decoder waits for one.                          *)
DataIsWhole ==
  /\ part = "jobs" =>
       Download!ProgressIsBounded /\ Download!NothingIsForgotten /\ Download!CompleteIsWhole
  /\ part = "unterse" => Unpack!ResolvedIsWhole /\ Unpack!TargetsFirst /\ Unpack!NoLostWake

(* A call that waits for a slot returns, a download ends and closes its    *)
(* connection, an unpacker settles.                                        *)
EverythingSettles ==
  /\ CallsReturn
  /\ downloadPc = "submit" ~> closed = TRUE
  /\ <>(part = "unterse" => decoder \in {"resolved", "rejected"})
=============================================================================
