--------------------------- MODULE DownloadJobs ---------------------------
(***************************************************************************)
(* The command that downloads the copybook data sets of a workspace from   *)
(* a mainframe (hlasmDownloadCommands.ts): one job per data set is         *)
(* submitted, the finished jobs are listed again and again, the output of  *)
(* each is downloaded and, while the loop goes on, unpacked into the first *)
(* of the directories that want it and copied into the others.             *)
(*                                                                         *)
(* The command's own coroutine awaits at every `pc`; unpackers and the     *)
(* host run in between.  A directory holds "none", files from before       *)
(* ("old"), what a broken download left ("part") or the data set ("new").  *)
(***************************************************************************)
EXTENDS Naturals, Sequences, FiniteSets, SequencesExt, FiniteSetsExt

CONSTANTS Jobs,        \* the data sets
          DirsOf,      \* [Jobs -> Seq of directories], without repetition
          MaxBroken    \* bound: downloads that break off in one behaviour

Dirs == UNION {Range(DirsOf[j]) : j \in Jobs}

VARIABLES pc, content, wanted, toSend, host, downloaded, list, unpacking,
          copied, total, failed, progress, closed, broken

vars == <<pc, content, wanted, toSend, host, downloaded, list, unpacking,
          copied, total, failed, progress, closed, broken>>

cmd  == <<content, wanted>>
tell == <<total, failed, progress>>

TypeOK ==
  /\ pc \in {"select", "ask", "submit", "mask", "check", "list", "fetch",
             "download", "await", "done", "thrown", "quit"}
  /\ content \in [Dirs -> {"none", "old", "part", "new"}]
  /\ wanted \subseteq Jobs /\ downloaded \subseteq wanted
  /\ Range(toSend) \subseteq wanted /\ Range(list) \subseteq wanted \ downloaded
  /\ host \in [Jobs -> {"none", "runs", "good", "bad"}]
  /\ unpacking \in [Jobs -> {"none", "unterse", "copy", "good", "bad"}]
  /\ copied \in [Jobs -> Nat]
  /\ total \in Nat /\ progress \in Nat /\ failed \subseteq wanted
  /\ closed \in BOOLEAN /\ broken \in 0 .. MaxBroken

Init ==
  /\ pc = "select"
  /\ content \in [Dirs -> {"none", "old"}]
  /\ wanted = {} /\ toSend = <<>> /\ downloaded = {} /\ list = <<>>
  /\ host = [j \in Jobs |-> "none"]
  /\ unpacking = [j \in Jobs |-> "none"]
  /\ copied = [j \in Jobs |-> 0]
  /\ total = 0 /\ failed = {} /\ progress = 0
  /\ closed = FALSE /\ broken = 0

First(j)  == DirsOf[j][1]
Stages(S) == FoldSet(LAMBDA j, n : n + Len(DirsOf[j]) + 2, 0, S)
WantedDirs == UNION {Range(DirsOf[j]) : j \in wanted}

-----------------------------------------------------------------------------
(* What the user chooses *)

\* gatherDownloadList, filterDownloadList and checkForExistingFiles; hiding the
\* list is a cancellation
Select ==
  /\ pc = "select"
  /\ UNCHANGED <<content, host, downloaded, list, unpacking, copied, tell,
                 closed, broken>>
  /\ \/ \E S \in SUBSET Jobs :
          /\ wanted' = S
          /\ toSend' = SetToSeq(S)
          /\ pc' = IF \E j \in S : \E d \in Range(DirsOf[j]) : content[d] # "none"
                   THEN "ask" ELSE "submit"
     \/ pc' = "quit" /\ UNCHANGED <<wanted, toSend>>

\* removeFilesFromDirectory for every directory with files
Emptied == [d \in Dirs |-> IF d \in WantedDirs THEN "none" ELSE content[d]]

Ask ==
  /\ pc = "ask"
  /\ UNCHANGED <<wanted, toSend, host, downloaded, list, unpacking, copied,
                 tell, closed, broken>>
  /\ \/ content' = Emptied /\ pc' = "submit"
     \/ content' = content /\ pc' = "quit"

-----------------------------------------------------------------------------
(* downloadDependenciesWithClient.  An error of the client or a             *)
(* cancellation leaves through the finally block, which closes the client   *)

Throw == pc' = "thrown" /\ closed' = TRUE

Submit ==
  /\ pc = "submit"
  /\ UNCHANGED <<cmd, downloaded, list, unpacking, copied, total, failed, broken>>
  /\ \/ Throw /\ UNCHANGED <<toSend, host, progress>>
     \/ /\ toSend # <<>>
        /\ host' = [host EXCEPT ![Head(toSend)] = "runs"]
        /\ toSend' = Tail(toSend)
        /\ progress' = progress + 1
        /\ UNCHANGED <<pc, closed>>
     \/ toSend = <<>> /\ pc' = "mask" /\ UNCHANGED <<toSend, host, progress, closed>>

SetListMask ==
  /\ pc = "mask"
  /\ UNCHANGED <<cmd, toSend, host, downloaded, list, unpacking, copied, tell, broken>>
  /\ \/ Throw
     \/ pc' = "check" /\ UNCHANGED closed

CheckLoop ==
  /\ pc = "check"
  /\ UNCHANGED <<cmd, toSend, host, downloaded, list, unpacking, copied, tell, broken>>
  /\ \/ downloaded = wanted /\ pc' = "await" /\ UNCHANGED closed
     \/ downloaded # wanted /\ Throw
     \/ downloaded # wanted /\ pc' = "list" /\ UNCHANGED closed

\* The jobs that are finished on the host and not yet downloaded, in the order
\* of the host; nothing new: a pause, then the next round
Finished == {j \in wanted \ downloaded : host[j] \in {"good", "bad"}}

ListJobs ==
  /\ pc = "list"
  /\ UNCHANGED <<cmd, toSend, host, downloaded, unpacking, copied, tell, broken>>
  /\ \/ Throw /\ UNCHANGED list
     \/ \E l \in SetToSeqs(Finished) :
          /\ list' = l
          /\ pc' = IF l = <<>> THEN "check" ELSE "fetch"
          /\ UNCHANGED closed

NextOf(l) == IF l = <<>> THEN "check" ELSE "fetch"

\* A rejected unpacker: counted, and the data set is among the failed ones
Reject(j) ==
  /\ unpacking' = [unpacking EXCEPT ![j] = "bad"]
  /\ total' = total + 1
  /\ failed' = failed \union {j}

\* downloadJobAndProcess: a job that failed is not asked for again
FetchFailed ==
  /\ pc = "fetch" /\ host[Head(list)] = "bad"
  /\ downloaded' = downloaded \union {Head(list)}
  /\ Reject(Head(list))
  /\ list' = Tail(list) /\ pc' = NextOf(Tail(list))
  /\ UNCHANGED <<cmd, toSend, host, copied, progress, closed, broken>>

\* io.unterse makes the directory, which may fail
Fetch ==
  /\ pc = "fetch" /\ host[Head(list)] = "good"
  /\ UNCHANGED <<cmd, toSend, host, downloaded, copied, progress, closed>>
  /\ \/ pc' = "download" /\ UNCHANGED <<list, unpacking, total, failed, broken>>
     \/ /\ broken < MaxBroken /\ broken' = broken + 1
        /\ Reject(Head(list))
        /\ list' = Tail(list) /\ pc' = NextOf(Tail(list))

\* A download that breaks off may leave members in the directory; the job is
\* not marked, so that the next list asks for it again
Downloaded(j) ==
  /\ progress' = progress + 1
  /\ downloaded' = downloaded \union {j}
  /\ unpacking' = [unpacking EXCEPT ![j] = "unterse"]
  /\ UNCHANGED <<content, total, failed, broken>>

Broken(j) ==
  /\ broken < MaxBroken /\ broken' = broken + 1
  /\ \E c \in {content[First(j)], "part"} : content' = [content EXCEPT ![First(j)] = c]
  /\ Reject(j)
  /\ UNCHANGED <<progress, downloaded>>

Download ==
  /\ pc = "download"
  /\ Downloaded(Head(list)) \/ Broken(Head(list))
  /\ list' = Tail(list) /\ pc' = NextOf(Tail(list))
  /\ UNCHANGED <<wanted, toSend, host, copied, closed>>

(* Defect: the result is returned when everything is downloaded *)
SettledSoon(S) == S \subseteq downloaded

\* Promise.all(jobs.map(x => x.unpacking))
Settled(S) == \A j \in S : unpacking[j] \in {"good", "bad"}

AwaitAll ==
  /\ pc = "await" /\ Settled(wanted)
  /\ pc' = "done" /\ closed' = TRUE
  /\ UNCHANGED <<cmd, toSend, host, downloaded, list, unpacking, copied, tell, broken>>

-----------------------------------------------------------------------------
(* The unpackers, which also go on after a cancellation *)

\* A member is written with "wx": a file that is there already is an error
Unpacks(j) == content[First(j)] = "none"

Leave(j) == \* the last stage of the unpacker
  /\ unpacking' = [unpacking EXCEPT ![j] = "good"]
  /\ total' = total + 1 /\ UNCHANGED failed

Unterse(j) ==
  /\ unpacking[j] = "unterse"
  /\ UNCHANGED <<pc, wanted, toSend, host, downloaded, list, copied, closed, broken>>
  /\ \/ /\ Unpacks(j)
        /\ content' = [content EXCEPT ![First(j)] = "new"]
        /\ progress' = progress + 1
        /\ IF Len(DirsOf[j]) = 1 THEN Leave(j)
           ELSE /\ unpacking' = [unpacking EXCEPT ![j] = "copy"]
                /\ UNCHANGED <<total, failed>>
     \/ Reject(j) /\ UNCHANGED <<content, progress>>

\* copyDirectory: the files, then the links
Source(j) == content[First(j)]

CopyDir(j) ==
  /\ unpacking[j] = "copy"
  /\ UNCHANGED <<pc, wanted, toSend, host, downloaded, list, closed, broken>>
  /\ LET d == DirsOf[j][copied[j] + 2]
     IN \/ /\ content' = [content EXCEPT ![d] = Source(j)]
           /\ copied' = [copied EXCEPT ![j] = @ + 1]
           /\ progress' = progress + 1
           /\ IF copied[j] + 2 = Len(DirsOf[j]) THEN Leave(j)
              ELSE UNCHANGED <<unpacking, total, failed>>
        \/ Reject(j) /\ UNCHANGED <<content, copied, progress>>

HostFinishes(j) ==
  /\ host[j] = "runs"
  /\ \E r \in {"good", "bad"} : host' = [host EXCEPT ![j] = r]
  /\ UNCHANGED <<pc, cmd, toSend, downloaded, list, unpacking, copied, tell,
                 closed, broken>>

Main == \/ Select \/ Ask \/ Submit \/ SetListMask \/ CheckLoop \/ ListJobs
        \/ FetchFailed \/ Fetch \/ Download \/ AwaitAll

Next == Main \/ \E j \in Jobs : Unterse(j) \/ CopyDir(j) \/ HostFinishes(j)

Spec == Init /\ [][Next]_vars

\* The event loop runs every promise that can go on, and the host's queue moves
FairSpec == /\ Spec /\ WF_vars(Main)
            /\ \A j \in Jobs : /\ WF_vars(Unterse(j)) /\ WF_vars(CopyDir(j))
                               /\ WF_vars(HostFinishes(j))

-----------------------------------------------------------------------------
(* Properties *)

(* The notification never passes 100 %: a stage of a data set is reported at
   most once, also when its download was tried again (stages of
   downloadDependencies) *)
ProgressIsBounded == progress <= Stages(wanted)

(* When the command reports its result, every data set it was asked for is in
   all its directories or among the failed ones *)
NothingIsForgotten ==
  pc = "done" =>
    \A j \in wanted \ failed : \A d \in Range(DirsOf[j]) : content[d] = "new"

(* What an unpacker reports as complete was unpacked into emptied directories:
   no file from before and no rest of a broken download is among them *)
CompleteIsWhole ==
  \A j \in Jobs : unpacking[j] = "good" =>
    \A d \in Range(DirsOf[j]) : content[d] = "new"

(* A command that got a list to download ends, and its client is closed *)
Closes == pc = "submit" ~> closed

=============================================================================
