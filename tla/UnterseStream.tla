--------------------------- MODULE UnterseStream ---------------------------
(***************************************************************************)
(* unterse of hlasmDownloadCommands.ts: a Writable stream that the download *)
(* fills, a decoder (external) that takes chunks from it, and the chain of  *)
(* file operations the decoder's callbacks schedule.                        *)
(*                                                                          *)
(* A chunk is abstracted to the piece of the archive it completes: the      *)
(* header, the start of a member, data of the current member, an alias, the *)
(* end of the archive, or what follows it.                                  *)
(***************************************************************************)
EXTENDS Naturals, Sequences, FiniteSets, SequencesExt

CONSTANTS Archives,   \* the archives that may be sent: sequences of pieces
          Limit       \* file operations beyond which the decoder waits

\* Pieces: [kind, name]: "header" ("pds" or "other"), "member", "alias" (of the
\* member "A"), "data", "end", "rest"

VARIABLES archive, toSend, source, chunks, over, interested, fetch,
          decoder, current, chain, chainOk, active, files

vars == <<archive, toSend, source, chunks, over, interested, fetch, decoder,
          current, chain, chainOk, active, files>>

TypeOK ==
  /\ source \in {"open", "held", "ended"}   \* held: a write never called back
  /\ over \in BOOLEAN /\ interested \in BOOLEAN /\ chainOk \in BOOLEAN
  /\ fetch \in {"none", "waits", "eof"}
  /\ decoder \in {"runs", "pause", "flush", "close", "resolved", "rejected"}
  /\ active = Len(chain)
  /\ IsSuffix(toSend, archive)

Init ==
  /\ archive \in Archives /\ toSend = archive
  /\ source = "open" /\ chunks = <<>> /\ over = FALSE /\ interested = TRUE
  /\ fetch = "none" /\ decoder = "runs" /\ current = <<>>
  /\ chain = <<>> /\ chainOk = TRUE /\ active = 0 /\ files = <<>>

-----------------------------------------------------------------------------
(* The stream.  Writes come one at a time: the next one is behind the callback *)

\* getCallback()?.resolve(): the fetch looks at the chunks again
Woken == IF fetch = "waits" THEN "none" ELSE fetch

Write ==
  /\ source = "open" /\ toSend # <<>>
  /\ toSend' = Tail(toSend)
  /\ IF ~interested
     THEN source' = "held" /\ UNCHANGED <<chunks, fetch>>
     ELSE /\ chunks' = Append(chunks, Head(toSend))
          /\ fetch' = Woken
          /\ UNCHANGED source
  /\ UNCHANGED <<archive, over, interested, decoder, current, chain, chainOk,
                 active, files>>

(* Defect: the end does not reach the fetch that waits *)
EofLost == fetch

\* _final: also when the connection ends early
Eof == IF fetch = "waits" THEN "eof" ELSE fetch

Final ==
  /\ source = "open"
  /\ source' = "ended" /\ over' = TRUE
  /\ fetch' = Eof
  /\ UNCHANGED <<archive, toSend, chunks, interested, decoder, current, chain,
                 chainOk, active, files>>

-----------------------------------------------------------------------------
(* The chain of file operations *)

\* writeCurrentMember, with an operation to follow
Flushed(ops) ==
  IF current = <<>> THEN chain \o ops
  ELSE Append(chain, [op |-> "write", name |-> Head(current), data |-> Tail(current)]) \o ops

NoLongerActive == active - 1

\* A promise chain: behind an operation that failed none of the others runs
RunAction ==
  /\ chain # <<>>
  /\ chain' = Tail(chain) /\ active' = NoLongerActive
  /\ IF chainOk
     THEN \/ files' = Append(files, Head(chain)) /\ UNCHANGED chainOk
          \/ chainOk' = FALSE /\ UNCHANGED files
     ELSE UNCHANGED <<files, chainOk>>
  /\ UNCHANGED <<archive, toSend, source, chunks, over, interested, fetch,
                 decoder, current>>

-----------------------------------------------------------------------------
(* The decoder and its callbacks *)

Reject == decoder' = "rejected"

\* fetchChunk: a chunk, the end, or a wait
NoChunk ==
  /\ decoder = "runs" /\ chunks = <<>>
  /\ fetch = "none"
  /\ \/ over /\ Reject /\ UNCHANGED fetch
     \/ ~over /\ fetch' = "waits" /\ UNCHANGED decoder
  /\ UNCHANGED <<archive, toSend, source, chunks, over, interested, current,
                 chain, chainOk, active, files>>

FetchFails ==
  /\ decoder = "runs" /\ fetch = "eof"
  /\ fetch' = "none" /\ Reject
  /\ UNCHANGED <<archive, toSend, source, chunks, over, interested, current,
                 chain, chainOk, active, files>>

\* rest: with more than Limit operations under way all of them are awaited
After(c) == IF Len(c) > Limit THEN "pause" ELSE "runs"

Pause ==
  /\ decoder = "pause" /\ chain = <<>>
  /\ IF chainOk THEN decoder' = "runs" ELSE Reject
  /\ UNCHANGED <<archive, toSend, source, chunks, over, interested, fetch,
                 current, chain, chainOk, active, files>>

Take(kind) ==
  /\ decoder = "runs" /\ fetch = "none"
  /\ chunks # <<>> /\ Head(chunks).kind = kind
  /\ chunks' = Tail(chunks)
  /\ UNCHANGED <<archive, toSend, source, over, interested, fetch, chainOk, files>>

\* "PDS(E) expected", "Expected FB80 data set", "Invalid member name"
Header ==
  /\ Take("header")
  /\ IF Head(chunks).name = "pds" THEN UNCHANGED decoder ELSE Reject
  /\ UNCHANGED <<current, chain, active>>

Member ==
  /\ Take("member")
  /\ chain' = Flushed(<<>>)
  /\ active' = Len(chain')
  /\ current' = <<Head(chunks).name>>
  /\ decoder' = After(chain')

Data ==
  /\ Take("data")
  /\ current' = Append(current, Head(chunks).name)
  /\ UNCHANGED <<decoder, chain, active>>

Alias ==
  /\ Take("alias")
  /\ chain' = Flushed(<<[op |-> "link", name |-> Head(chunks).name, data |-> <<"A">>]>>)
  /\ active' = Len(chain')
  /\ current' = <<>>
  /\ decoder' = After(chain')

End == /\ Take("end") /\ decoder' = "flush" /\ UNCHANGED <<current, chain, active>>

\* await pendingAction at the end of rest, then the last member
Flush ==
  /\ decoder = "flush" /\ chain = <<>>
  /\ IF chainOk
     THEN /\ decoder' = "close" /\ interested' = FALSE
          /\ chain' = Flushed(<<>>) /\ active' = Len(chain')
          /\ current' = <<>>
     ELSE Reject /\ UNCHANGED <<interested, chain, active, current>>
  /\ UNCHANGED <<archive, toSend, source, chunks, over, fetch, chainOk, files>>

Closed == chain = <<>>

Close ==
  /\ decoder = "close" /\ Closed
  /\ decoder' = IF chainOk THEN "resolved" ELSE "rejected"
  /\ UNCHANGED <<archive, toSend, source, chunks, over, interested, fetch,
                 current, chain, chainOk, active, files>>

Decode == \/ NoChunk \/ FetchFails \/ Pause \/ Header \/ Member \/ Data
          \/ Alias \/ End \/ Flush \/ Close

Next == Write \/ Final \/ RunAction \/ Decode

Spec == Init /\ [][Next]_vars

\* The download writes and ends (or breaks off), promises that can go on do
FairSpec == Spec /\ WF_vars(Write \/ Final) /\ WF_vars(RunAction) /\ WF_vars(Decode)

-----------------------------------------------------------------------------
(* Properties *)

\* What an archive says the directory holds when all of it has arrived
Contents ==
  LET starts == {i \in DOMAIN archive : archive[i].kind \in {"member", "alias"}}
      Until(i) == CHOOSE k \in i .. Len(archive) :
                   /\ k = Len(archive) \/ archive[k + 1].kind # "data"
                   /\ \A n \in i + 1 .. k : archive[n].kind = "data"
  IN {IF archive[i].kind = "alias"
      THEN [op |-> "link", name |-> archive[i].name, data |-> <<"A">>]
      ELSE [op |-> "write", name |-> archive[i].name,
            data |-> [n \in 1 .. Until(i) - i |-> archive[i + n].name]] : i \in starts}

(* When the process is reported as done, the directory holds every member and
   alias of the archive, each with all of its records *)
ResolvedIsWhole == decoder = "resolved" => Range(files) = Contents

(* An alias is linked (or, where links are refused, copied) behind its target:
   copyFile of a file not yet written would fail *)
TargetsFirst ==
  \A i \in DOMAIN files : files[i].op = "link" /\ (\E p \in Contents : p.op = "write" /\ p.name = "A") =>
    \E k \in 1 .. i : files[k].op = "write" /\ files[k].name = "A"

(* A decoder that waits for a chunk has none: it is woken by the write *)
NoLostWake == fetch = "waits" => chunks = <<>> /\ ~over

=============================================================================
