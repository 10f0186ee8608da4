------------------------------ MODULE MCFiles -------------------------------
(***************************************************************************)
(* The files a program is made of, for TLC: external files that threads ask*)
(* the client for (ExternalFiles, of which invariants are proved as well), *)
(* the files of the editor and of the disk (Files), and the configuration  *)
(* that says what libraries a program has (Config, Client, Outside), where *)
(* files are and what is sent of them (Places, Uris).                      *)
(*                                                                         *)
(* The components share no state in this model; `part` chooses the one that*)
(* runs.                                                                   *)
(***************************************************************************)
EXTENDS ExternalFiles, TLC

CONSTANTS lsp, debug, Unused, NoPart, doc, t1, t2, o1, o2, o3, Error, P, Q, F, G, H, X, NP

(* Texts of locations. *)

Paths == UNION {[1..n -> {"a", "b", ".", "/", "\\"}] : n \in 0..3}
Scheme == <<"s", "s", ":">>
Beginnings == {<<>>, Scheme, Scheme \o <<"/">>, Scheme \o <<"/", "/", "a">>, Scheme \o <<"/", "/">>}
MCLocations == {b \o p : b \in Beginnings, p \in Paths}

MCUris ==
  {Scheme \o <<"/", "/">> \o a \o p : a \in {<<>>, <<"a">>, <<"a", "@", "a">>, <<"a", ":", "1">>, <<"a", ":", "a", "@", "a", ":", "1">>, <<"a", "@", "a", ":", "a">>}, p \in
     {<<>>, <<"/">>, <<"/", "a", "?", "a">>, <<"/", "a", "?", "a", "#">>, <<"/", "a", "#", "a">>, <<"/", "a", "/", "a">>,
      <<"/", "a", "/", ".">>}}

MCReferences == {<<>>, <<"b">>, <<".">>, <<".", ".">>, <<".", ".", "/", "b">>, <<"b", "/", ".", "/", "b">>, <<"/", "b">>, <<"b", "/">>, <<"b", "/", ".", ".">>,
   <<"?", "b">>, <<"#", "b">>, <<"/", "/", "b">>, Scheme \o <<"b">>}
MCNoReferences == {<<"b">>, <<".", ".">>}
MCBases == {Scheme \o p : p \in {<<"/">>, <<"/", "b">>, <<"/", "a">>, <<"/", "a", "/">>, <<"/", "a", "/", "b">>, <<"/", "/", "a", "/", "a">>}}
MCOneBase == {Scheme \o <<"/", "b">>}
MCEncoded == ":" :> "%3A" @@ "@" :> "%40"

VARIABLES
  part,
  \* FileManager
  files, object, version, held, load, mutex, stuck, editor, disk, textOf, onDisk,
  \* Configuration
  proc, pgm, bridge, saved, configClient, conf, parsed, configPending, asking,
  changes, missed, lost,
  \* Utilities
  loc, base, sent, sentPending, streamResult, told, overwritten

Is(s) == [is |-> s]
Nothing == [x \in {} |-> x]
NoAnswer == <<"none", "none", "root">>
Proc(groups) == [is |-> "text", groups |-> groups]
PgmText(exact, wild) == [is |-> "text", exact |-> exact, wild |-> wild]
Bridge(named, default) == [is |-> "text", files |-> named, default |-> default]

(* H is defined or not, and a mapping names it or not. The libraries of G  *)
(* are relative to the folder of a .bridge.json, or not.                   *)
MCProc == {Is("error"), Proc(G :> FALSE), Proc(G :> TRUE @@ H :> FALSE)}
MCPgm == {Is("absent"), PgmText(P :> H, {}), PgmText(Nothing, {G}), PgmText(P :> NP, {H})}
MCBridge == {Is("absent"), Is("malformed"), Bridge(P :> G, {H}), Bridge(Q :> H, {G}), Bridge(Nothing, {})}

(* With answers of the client, the .bridge.json has a default only.        *)
MCDefaults == {Is("absent"), Bridge(Nothing, {G}), Bridge(Nothing, {H})}
MCAnswers == {NoAnswer, <<"group", H, "root">>, <<"external", X, "root">>}
MCGroups == {Proc(G :> FALSE), Proc(G :> FALSE @@ H :> FALSE)}

(* A program has a group or not, and the group is defined or not.          *)
MCSwap == {Proc(G :> FALSE), Proc(G :> FALSE @@ H :> FALSE)}
MCAll == {PgmText(P :> H, {G}), PgmText(Nothing, {H}), PgmText(P :> G, {})}
MCNoBridge == {Is("absent")}

Files == INSTANCE FileManager WITH
          File <- {doc}, Text <- {t1, t2}, Loader <- {lsp, debug},
          Object <- {o1, o2, o3}, MaxVersion <- 2

(* The processor groups, the mappings of pgm_conf.json and of .bridge.json,*)
(* and the libraries change ...                                            *)
Config == INSTANCE Configuration WITH
           Pgm <- {P, Q}, Folder <- {F}, InFolder <- [p \in {P, Q} |-> F],
           Group <- {G, H}, NoProc <- NP, ProcTexts <- MCProc, PgmTexts <- MCPgm,
           BridgeTexts <- MCBridge, Answers <- {NoAnswer},
           Interferes <- {"library"}, MaxChanges <- 3, client <- configClient,
           pending <- configPending
(* ... the client gives groups or refuses, ...                             *)
Client == INSTANCE Configuration WITH
           Pgm <- {P, Q}, Folder <- {F}, InFolder <- [p \in {P, Q} |-> F],
           Group <- {G, H}, NoProc <- NP, ProcTexts <- MCGroups, PgmTexts <- MCPgm,
           BridgeTexts <- MCDefaults, Answers <- MCAnswers,
           Interferes <- {"overtake", "library"},
           MaxChanges <- 2, client <- configClient, pending <- configPending
(* ... and the files are changed outside the editor, or their changes there*)
(* are discarded.                                                          *)
Outside == INSTANCE Configuration WITH
            Pgm <- {P, Q}, Folder <- {F}, InFolder <- [p \in {P, Q} |-> F],
            Group <- {G, H}, NoProc <- NP, ProcTexts <- MCSwap, PgmTexts <- MCAll,
            BridgeTexts <- MCNoBridge, Answers <- {NoAnswer},
            Interferes <- {"outside", "library", "discard"}, MaxChanges <- 4,
            client <- configClient, pending <- configPending

(* All short paths behind several beginnings, and URIs with all their parts. *)
Places == INSTANCE Utilities WITH
           None <- NoPart, Letters <- {"a", "b", "s"}, Digits <- {"1"},
           Encoded <- MCEncoded, Locations <- MCLocations, Bases <- MCBases,
           References <- MCNoReferences, MaxLength <- 10, Lrecl <- 3,
           MaxBytes <- 14, pending <- sentPending, result <- streamResult
Uris == INSTANCE Utilities WITH
         None <- NoPart, Letters <- {"a", "b", "s"}, Digits <- {"1"},
         Encoded <- MCEncoded, Locations <- MCUris, Bases <- MCOneBase,
         References <- MCReferences, MaxLength <- 10, Lrecl <- 3, MaxBytes <- 14,
         pending <- sentPending, result <- streamResult

ASSUME
  /\ Files!FilesAssumption /\ Config!ConfigurationAssumption
  /\ Client!ConfigurationAssumption /\ Outside!ConfigurationAssumption
  /\ Places!ResourceLocationAssumption /\ Uris!ResourceLocationAssumption
  /\ Places!RecordAssumption

filesVars == <<files, object, version, held, load, mutex, stuck, editor, disk,
               textOf, onDisk>>
configVars == <<proc, pgm, bridge, saved, configClient, conf, parsed, configPending,
                asking, changes, missed, lost>>
locationVars == <<loc, base>>
streamVars == <<sent, sentPending, streamResult, told, overwritten>>
utilityVars == <<locationVars, streamVars>>
allVars == <<part, vars, filesVars, configVars, utilityVars>>

ConfigAtRest ==
  /\ proc = Unused /\ pgm = Unused /\ bridge = Unused /\ saved = Unused
  /\ configClient = Unused /\ conf = Unused /\ parsed = Unused
  /\ configPending = Unused /\ asking = Unused /\ changes = Unused
  /\ missed = Unused /\ lost = Unused

FilesInit ==
  /\ part \in {"external", "files", "libraries", "answers", "outside",
               "locations", "uris", "stream"}
  /\ Init
  /\ Files!Init /\ (part # "files" => disk = [f \in {doc} |-> t1])
  /\ CASE part = "libraries" -> Config!Init
       [] part = "answers" -> Client!Init
       [] part = "outside" -> Outside!Init
       [] OTHER -> ConfigAtRest
  /\ CASE part = "locations" -> Places!LocationInit
       [] part = "uris" -> Uris!LocationInit
       [] OTHER -> loc = Unused /\ base = Unused
  /\ Places!StreamInit

FilesNext ==
  \/ /\ \/ part = "external" /\ Next /\ UNCHANGED <<filesVars, configVars>>
        \/ part = "files" /\ Files!Next /\ UNCHANGED <<vars, configVars>>
        \/ part = "libraries" /\ Config!Next /\ UNCHANGED <<vars, filesVars>>
        \/ part = "answers" /\ Client!Next /\ UNCHANGED <<vars, filesVars>>
        \/ part = "outside" /\ Outside!Next /\ UNCHANGED <<vars, filesVars>>
     /\ UNCHANGED <<part, utilityVars>>
  \/ /\ \/ part = "locations" /\ Places!LocationNext /\ UNCHANGED streamVars
        \/ part = "uris" /\ Uris!LocationNext /\ UNCHANGED streamVars
        \/ part = "stream" /\ Places!StreamNext /\ UNCHANGED locationVars
     /\ UNCHANGED <<part, vars, filesVars, configVars>>

FilesSpec == FilesInit /\ [][FilesNext]_allVars

-----------------------------------------------------------------------------
(* m_files and the objects agree, a document that is open is what the      *)
(* editor shows, and a version stands for one text. A location is the same *)
(* file through normalising, relating and joining, and the text of a data  *)
(* set does not depend on the pieces it arrived in, but for what they lose.*)
FilesAreTrue ==
  /\ Files!EntriesAgree /\ Files!OpenIsShown /\ Files!VersionTellsText
  /\ part = "locations" =>
       /\ Places!NormalIsNormal /\ Places!NoDots
       /\ Places!RelativeLeadsBack /\ Places!PrefixIsAbove
  /\ part = "uris" =>
       /\ Uris!NothingLost /\ Uris!NormalIsNormal /\ Uris!NameInDirectory /\ Uris!ReferenceIsJoined
  /\ Places!StreamIsContent

(* What a holder reads does not change under its hands, and a text that    *)
(* was never saved is not handed out once its document is closed.          *)
HandedOutIsKept == Files!HeldNeverChange /\ Files!NothingUnsaved

(* Each open program is analysed with the group that the configuration and *)
(* the client give it, or is about to be, unless a change does not mark it *)
(* (Missed) or its answer names no group there is (Stuck); and if it has   *)
(* none, that is told.                                                     *)
AnalysedAsConfigured ==
  /\ part = "libraries" => Config!AnalysedAsConfigured /\ Config!MissingIsReported
  /\ part = "answers" => Client!AnalysedAsConfigured /\ Client!ExternalIsUsed
  /\ part = "outside" => Outside!AnalysedAsConfigured

(* A change of a library marks each program that was analysed with it, if  *)
(* the last sweep visited the groups that have the library (lost).         *)
LibraryChangeIsSeen ==
  [][/\ part = "libraries" => Config!LibraryChangeMarks
     /\ part = "answers" => Client!LibraryChangeMarks
     /\ part = "outside" => Outside!LibraryChangeMarks]_allVars
=============================================================================
