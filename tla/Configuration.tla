---------------------------- MODULE Configuration ----------------------------
(***************************************************************************)
(* The configuration of a workspace (workspaces/workspace_configuration.cpp *)
(* and program_configuration_storage.cpp): the processor groups of         *)
(* proc_grps.json, the mapping of programs to them by pgm_conf.json, by    *)
(* the .bridge.json files of the programs' folders and by the client       *)
(* (external configuration), and the libraries that are watched. An open   *)
(* program is analysed with the group it has when its analysis starts      *)
(* (workspace.cpp:592-656); what changes a configuration marks programs.   *)
(*                                                                         *)
(* Each handler is one step: it is a work item, and no other item is       *)
(* executed before it ends. Analysing a program is two steps, around the   *)
(* wait for the client's answer. A key is a kind, a name and the root of   *)
(* its relative libraries: Root, or the folder of a .bridge.json.          *)
(***************************************************************************)
EXTENDS Naturals, FiniteSets, Functions, TLC

CONSTANTS
  Pgm,          \* the open programs
  Folder,       \* folders with programs
  InFolder,     \* the folder of each program
  Group,        \* names of processor groups
  NoProc,       \* the name *NOPROC*: a group that is not missed
  ProcTexts,    \* what proc_grps.json may hold
  PgmTexts,     \* what pgm_conf.json may hold
  BridgeTexts,  \* what a .bridge.json may hold
  Answers,      \* keys the client may answer with, or NoGroup: it has none
  Interferes,   \* which of Interference happen
  MaxChanges    \* bound: changes of the texts and of the client's answers

Root == "root"
NoGroup == <<"none", "none", Root>>
Basic(g) == <<"group", g, Root>>
External(x) == <<"external", x, Root>>
Is(s) == [is |-> s]
Interference == {"outside", "discard", "overtake", "library"}

ConfigurationAssumption ==
  /\ InFolder \in [Pgm -> Folder] /\ Root \notin Folder /\ NoProc \notin Group
  /\ Interferes \subseteq Interference /\ MaxChanges \in Nat

VARIABLES
  proc, pgm, bridge,   \* the texts, as the file manager has them
  saved,     \* the text of proc_grps.json on the disk
  client,    \* what the client answers for each program
  conf,      \* workspace_configuration: see Empty
  parsed,    \* what each program was last analysed with
  pending,   \* m_parsing_pending
  asking,    \* the analysis that has the client's answer, or Nobody
  changes,   \* how many changes there were
  missed,    \* history: <<program, why>>: the changes that did not mark it
  lost       \* history: libraries of groups that a sweep did not visit

texts == <<proc, pgm, bridge, saved, client>>
vars == <<texts, conf, parsed, pending, asking, changes, missed, lost>>

Nobody == [pgm |-> "nobody", answer |-> NoGroup]
NoEntry == [key |-> NoGroup, aff |-> "none", tag |-> Root]
Nothing == [x \in {} |-> x]

(* groups is m_proc_grps: the identity and the libraries of each group;    *)
(* source is m_proc_grps_source; exact, wild and bridged are m_exact_match,*)
(* m_regex_pgm_conf and m_regex_b4g_json; missing is m_missing_proc_grps,  *)
(* cache is m_b4g_config_cache; watched are the libraries of m_libraries.  *)
Empty == [groups |-> Nothing, source |-> Nothing, exact |-> Nothing, wild |-> NoEntry,
          bridged |-> Nothing, missing |-> {}, cache |-> Nothing, watched |-> {}]

-----------------------------------------------------------------------------
(* process_processor_group: where the libraries of a group are.            *)
Library(g, alternate, root) == <<g, IF alternate THEN root ELSE Root>>

Made(source, root, gen) ==
  [k \in {<<"group", g, root>> : g \in DOMAIN source} |->
     [gen |-> gen, libs |-> {Library(k[2], source[k[2]], root)}]]

(* Defect: a library that is found again is not marked as used.            *)
WithGroupsSwept(c, source, root, gen) ==
  LET new == Made(source, root, gen)
  IN  [c EXCEPT !.groups = @ @@ new, !.watched = UNION {new[k].libs : k \in DOMAIN new} \ @]

(* process_processor_group_and_cleanup_libraries: the libraries that are   *)
(* not found here are not watched any more, whoever has them.              *)
WithGroups(c, source, root, gen) ==
  LET new == Made(source, root, gen)
  IN  [c EXCEPT !.groups = @ @@ new, !.watched = UNION {new[k].libs : k \in DOMAIN new}]

(* Which groups are missing: new_missing_pgroup_helper.                    *)
Misses(c, key) == key \notin DOMAIN c.groups /\ key[2] # NoProc

Noted(c, keys, file) ==
  [c EXCEPT !.missing = @ \cup {<<file, k[2]>> : k \in {k \in keys : Misses(c, k)}}]

Entry(key, aff, tag) == [key |-> key, aff |-> aff, tag |-> tag]

(* process_program for each program of pgm_conf.json.                      *)
WithPrograms(c, t) ==
  LET exact == [p \in DOMAIN t.exact |-> Entry(Basic(t.exact[p]), "exact_pgm", Root)]
      keys == {exact[p].key : p \in DOMAIN exact} \cup {Basic(g) : g \in t.wild}
  IN  [Noted(c, keys, Root) EXCEPT
         !.exact = exact,
         !.wild = IF t.wild = {} THEN NoEntry
                  ELSE Entry(Basic(CHOOSE g \in t.wild : TRUE), "regex_pgm", Root)]

(* load_and_process_config: nothing is left of the previous configuration, *)
(* except its source and libraries when there is no new one.               *)
Load(c, t, u, gen) ==
  LET base == [Empty EXCEPT !.source = c.source, !.watched = c.watched]
  IN  IF t.is # "text" THEN base
      ELSE LET d == [WithGroups(base, t.groups, Root, gen) EXCEPT !.source = t.groups]
           IN  IF u.is = "text" THEN WithPrograms(d, u) ELSE d

-----------------------------------------------------------------------------
(* parse_b4g_config_file: the previous content is removed (remove_conf and *)
(* the groups of the folder), unless this is the first time.               *)
Removed(c, f) ==
  [c EXCEPT !.exact = Restrict(@, {p \in DOMAIN @ : @[p].tag # f}),
            !.bridged = Restrict(@, DOMAIN @ \ {f}),
            !.groups = Restrict(@, {k \in DOMAIN @ : k[3] # f})]

(* add_exact_conf: a program that is there already keeps its entry.        *)
Mapped(c, f, t) ==
  LET exact == [p \in DOMAIN t.files |-> Entry(<<"group", t.files[p], f>>, "exact_b4g", f)]
      default == [x \in IF t.default = {} THEN {} ELSE {f} |->
                    Entry(<<"group", CHOOSE g \in t.default : TRUE, f>>, "regex_b4g", f)]
      keys == {exact[p].key : p \in DOMAIN exact} \cup {default[x].key : x \in DOMAIN default}
  IN  [Noted(c, keys, f) EXCEPT !.exact = @ @@ exact, !.bridged = default @@ @]

ParseBridge(c, f, t, gen) ==
  LET old == IF f \in DOMAIN c.cache THEN Removed(c, f) ELSE c
      Cached(d, s) == [d EXCEPT !.cache = (f :> s) @@ @]
  IN  CASE t.is \in {"absent", "error"} -> Cached(old, "none")
        [] t.is = "malformed" -> Cached(old, "diags")
        [] t.is = "text" -> Mapped(WithGroups(Cached(old, "loaded"), old.source, f, gen), f, t)

-----------------------------------------------------------------------------
(* get_program: a wildcard of pgm_conf.json comes before .bridge.json.     *)
(* Defect: .bridge.json comes first when it names the program.             *)
ProgramExactFirst(c, p) ==
  CASE p \in DOMAIN c.exact -> c.exact[p]
    [] p \notin DOMAIN c.exact /\ c.wild # NoEntry -> c.wild
    [] p \notin DOMAIN c.exact /\ c.wild = NoEntry /\ InFolder[p] \in DOMAIN c.bridged ->
         c.bridged[InFolder[p]]
    [] OTHER -> NoEntry

Program(c, p) ==
  CASE p \in DOMAIN c.exact /\ c.exact[p].aff \in {"exact_pgm", "exact_ext"} -> c.exact[p]
    [] c.wild # NoEntry -> c.wild
    [] c.wild = NoEntry /\ p \in DOMAIN c.exact -> c.exact[p]
    [] c.wild = NoEntry /\ p \notin DOMAIN c.exact /\ InFolder[p] \in DOMAIN c.bridged ->
         c.bridged[InFolder[p]]
    [] OTHER -> NoEntry

(* update_external_configuration and make_external_proc_group.             *)
Updated(c, p, key, gen) ==
  LET made == IF key[1] # "external" \/ key \in DOMAIN c.groups THEN c
              ELSE [c EXCEPT !.groups = @ @@ (key :> [gen |-> gen, libs |-> {<<key[2], Root>>}]),
                             !.watched = @ \cup {<<key[2], Root>>}]
  IN  [Noted(made, {key}, Root) EXCEPT !.exact = (p :> Entry(key, "exact_ext", Root)) @@ @]

(* prune_external_processor_groups for the programs S: an entry whose      *)
(* group is missing has no program (is_external), and stays.               *)
(* Defect of Pruned: the groups that no program has any more stay.         *)
PrunedMappings(c, S) ==
  [c EXCEPT !.exact = Restrict(@, {p \in DOMAIN @ :
     ~(p \in S /\ @[p].aff = "exact_ext" /\ ~Misses(c, @[p].key))})]

Pruned(c, S) ==
  LET d == PrunedMappings(c, S)
      used == {d.exact[p].key : p \in DOMAIN d.exact}
  IN  [d EXCEPT !.groups = Restrict(@, {k \in DOMAIN @ : k[1] = "external" => k \in used})]

(* What a program is analysed with: the group and its identity, which is   *)
(* m_group_id, and the libraries.                                          *)
With(c, p) ==
  LET k == Program(c, p).key
  IN  IF k \in DOMAIN c.groups THEN [key |-> k, gen |-> c.groups[k].gen, libs |-> c.groups[k].libs]
      ELSE [key |-> NoGroup, gen |-> 0, libs |-> {}]

-----------------------------------------------------------------------------
(* History. What a program misses because of a change that does not mark   *)
(* it, and why: the text of proc_grps.json was "discarded", its answer was *)
(* "overtaken", or files changed "outside" while it had no group; until it *)
(* is analysed again, or a configuration is loaded. And the libraries that *)
(* are not found for the folder that a sweep is about.                     *)
Because(why) == {<<p, why>> : p \in Pgm}
LoadedAnew == missed' = missed \cap Because("outside") /\ lost' = {}

LibrariesOf(groups, ks) == UNION {groups[k].libs : k \in ks}
Swept(c, f) ==
  LibrariesOf(c.groups, {k \in DOMAIN c.groups : k[3] # f})
    \ LibrariesOf(Made(c.source, f, 0), DOMAIN Made(c.source, f, 0))

-----------------------------------------------------------------------------
Changes == changes < MaxChanges /\ changes' = changes + 1

(* A work item of a file drops the analysis that is in progress.           *)
Drops == asking' = Nobody

(* did_open_file, did_change_file of a configuration file: every program   *)
(* is marked, if the configuration could be loaded.                        *)
Reloaded(t) ==
  /\ conf' = Load(conf, proc', pgm', changes')
  /\ pending' = IF t.is = "text" THEN Pgm ELSE pending
  /\ LoadedAnew

EditProc ==
  /\ Changes /\ Drops
  /\ proc' \in ProcTexts \ {proc, Is("absent")}
  /\ saved' \in IF "discard" \in Interferes THEN {saved, proc'} ELSE {proc'}
  /\ UNCHANGED <<pgm, bridge, client, parsed>>
  /\ Reloaded(proc')

EditPgm ==
  /\ Changes /\ Drops
  /\ pgm' \in PgmTexts \ {pgm, Is("absent")}
  /\ UNCHANGED <<proc, bridge, saved, client, parsed>>
  /\ Reloaded(proc)

EditBridge(f) ==
  /\ Changes /\ Drops
  /\ \E t \in BridgeTexts \ {bridge[f], Is("absent")} :
       /\ bridge' = [bridge EXCEPT ![f] = t]
       /\ conf' = ParseBridge(conf, f, t, changes')
       /\ pending' = IF t.is = "text" THEN Pgm ELSE pending
       /\ lost' = IF t.is = "text" THEN Swept(conf, f) ELSE lost
  /\ UNCHANGED <<proc, pgm, saved, client, parsed, missed>>

(* did_close_file of proc_grps.json that was not saved: workspace::        *)
(* did_close_file has nothing to do for a configuration file.              *)
DiscardProc ==
  /\ "discard" \in Interferes /\ saved # proc
  /\ Changes /\ Drops
  /\ proc' = saved
  /\ missed' = missed \cup Because("discarded")
  /\ UNCHANGED <<pgm, bridge, saved, client, conf, parsed, pending, lost>>

(* did_change_watched_files of a configuration file that is not open:      *)
(* refresh_libraries returns the groups that there were before.            *)
Concerned(c, d) == {p \in Pgm : \E k \in DOMAIN c.groups : k = parsed[p].key /\ c.groups[k].gen = parsed[p].gen}

OutsideChange ==
  /\ "outside" \in Interferes
  /\ Changes /\ Drops
  /\ \/ proc' \in ProcTexts \ {proc} /\ saved' = proc' /\ UNCHANGED <<pgm, bridge>>
     \/ pgm' \in PgmTexts \ {pgm} /\ UNCHANGED <<proc, bridge, saved>>
     \/ /\ \E f \in Folder, t \in BridgeTexts : t # bridge[f] /\ bridge' = [bridge EXCEPT ![f] = t]
        /\ UNCHANGED <<proc, pgm, saved>>
  /\ conf' = Load(conf, proc', pgm', changes')
  /\ pending' = pending \cup Concerned(conf, conf')
  /\ missed' = (missed \cap Because("outside")) \cup
                 {<<p, "outside">> : p \in {p \in Pgm : parsed[p].key \notin DOMAIN conf.groups}}
  /\ lost' = {}
  /\ UNCHANGED <<client, parsed>>

(* A member of a library changes outside the editor: the client tells it   *)
(* when the library is watched (did_change_watched_files).                 *)
Libraries == UNION {parsed[p].libs : p \in Pgm}

LibraryChange(l) ==
  /\ "library" \in Interferes
  /\ Changes
  /\ IF l \in conf.watched
     THEN /\ Drops
          /\ pending' = pending \cup
               {p \in Concerned(conf, conf) : l \in conf.groups[parsed[p].key].libs}
     ELSE UNCHANGED <<asking, pending>>
  /\ UNCHANGED <<texts, conf, parsed, missed, lost>>

-----------------------------------------------------------------------------
(* The client answers differently for the programs S, and tells            *)
(* (invalidate_external_configuration): at once, not by a work item. An    *)
(* analysis of S that has its answer is overtaken.                         *)
ClientChange(S) ==
  /\ Changes
  /\ asking.pgm \in S => "overtake" \in Interferes
  /\ client' \in {[p \in Pgm |-> IF p \in S THEN a ELSE client[p]] : a \in Answers} \ {client}
  /\ conf' = Pruned(conf, S)
  /\ pending' = pending \cup S
  /\ UNCHANGED <<proc, pgm, bridge, saved, parsed, asking, missed, lost>>

(* workspace::parse_file, and load_alternative_config_if_needed up to the  *)
(* client's answer. Nobody is asked about a program of pgm_conf.json, nor  *)
(* again about one that has an answer.                                     *)
Settled(p) == Program(conf, p).aff \in {"exact_pgm", "exact_ext"}

Ask(p) ==
  /\ asking = Nobody /\ p \in pending /\ ~Settled(p)
  /\ asking' = [pgm |-> p, answer |-> client[p]]
  /\ UNCHANGED <<texts, conf, parsed, pending, changes, missed, lost>>

(* The rest of load_alternative_config_if_needed.                          *)
Alternative(c, p, answer) ==
  IF answer # NoGroup THEN Updated(c, p, answer, changes)
  ELSE LET f == InFolder[p]
       IN  IF Program(c, p).aff = "none" /\ f \notin DOMAIN c.cache
           THEN ParseBridge(c, f, bridge[f], changes) ELSE c

(* get_analyzer_configuration, the analysis, and parse_successful.         *)
Analyse(p, c) ==
  /\ conf' = c
  /\ parsed' = [parsed EXCEPT ![p] = With(c, p)]
  /\ pending' = pending \ {p}
  /\ asking' = Nobody
  /\ UNCHANGED <<texts, changes>>

Answered ==
  /\ asking # Nobody
  /\ LET p == asking.pgm
         f == InFolder[p]
         c == Alternative(conf, p, asking.answer)
     IN /\ Analyse(p, c)
        /\ missed' = {m \in missed : m[1] # p \/ m[2] = "discarded"} \cup
                       (IF asking.answer # client[p] THEN {<<p, "overtaken">>} ELSE {})
        /\ lost' = (IF f \in DOMAIN c.cache \ DOMAIN conf.cache /\ bridge[f].is = "text"
                    THEN Swept(conf, f) ELSE lost)
                     \ LibrariesOf(c.groups, DOMAIN c.groups \ DOMAIN conf.groups)

AnalyseSettled(p) ==
  /\ asking = Nobody /\ p \in pending /\ Settled(p)
  /\ Analyse(p, conf)
  /\ missed' = missed \ {<<p, "outside">>}
  /\ UNCHANGED lost

Init ==
  /\ proc \in ProcTexts /\ pgm \in PgmTexts /\ bridge \in [Folder -> BridgeTexts]
  /\ saved = proc
  /\ client \in [Pgm -> Answers]
  /\ conf = Load(Empty, proc, pgm, 0)
  /\ parsed = [p \in Pgm |-> [key |-> NoGroup, gen |-> 0, libs |-> {}]]
  /\ pending = Pgm /\ asking = Nobody /\ changes = 0
  /\ missed = {} /\ lost = {}

Next ==
  \/ EditProc \/ EditPgm \/ DiscardProc \/ OutsideChange \/ Answered
  \/ \E f \in Folder : EditBridge(f)
  \/ \E l \in Libraries : LibraryChange(l)
  \/ \E S \in {{p} : p \in Pgm} \cup {Pgm} : ClientChange(S)
  \/ \E p \in Pgm : Ask(p) \/ AnalyseSettled(p)

Spec == Init /\ [][Next]_vars

-----------------------------------------------------------------------------
(* The entries are of programs, folders and keys, and nothing is marked or *)
(* analysed but the programs.                                              *)
Keys == {<<kind, name, root>> : kind \in {"none", "group", "external"},
           name \in {"none", NoProc} \cup Group \cup {a[2] : a \in Answers}, root \in Folder \cup {Root}}
Entries == [key : Keys, aff : {"none", "exact_pgm", "exact_ext", "exact_b4g", "regex_pgm", "regex_b4g"},
            tag : Folder \cup {Root}]

TypeOK ==
  /\ proc \in ProcTexts /\ saved \in ProcTexts /\ pgm \in PgmTexts
  /\ bridge \in [Folder -> BridgeTexts] /\ client \in [Pgm -> Answers]
  /\ pending \subseteq Pgm /\ changes \in 0 .. MaxChanges
  /\ asking # Nobody => asking.pgm \in pending /\ asking.answer \in Answers
  /\ DOMAIN conf.groups \subseteq Keys /\ DOMAIN conf.source \subseteq Group
  /\ DOMAIN conf.exact \subseteq Pgm /\ Range(conf.exact) \subseteq Entries
  /\ conf.wild \in Entries
  /\ DOMAIN conf.bridged \subseteq DOMAIN conf.cache /\ Range(conf.bridged) \subseteq Entries
  /\ DOMAIN conf.cache \subseteq Folder /\ Range(conf.cache) \subseteq {"none", "diags", "loaded"}
  /\ \A p \in Pgm : parsed[p].key \in Keys /\ parsed[p].gen \in 0 .. MaxChanges
  /\ missed \subseteq UNION {Because(why) : why \in {"discarded", "overtaken", "outside"}}
  /\ lost \cap conf.watched = {}

(* The group the current texts and answers give to a program, by the       *)
(* precedence of src/README.md:212-217, the client between the first two.  *)
(* An answer whose group is not defined is not pruned when the client      *)
(* invalidates it (program_configuration_storage.cpp:157-172): the program *)
(* is Stuck with it, whatever the client answers later.                    *)
Stuck(p) == p \in DOMAIN conf.exact /\ conf.exact[p].aff = "exact_ext" /\ Misses(conf, conf.exact[p].key)
Heard(p) == IF Stuck(p) THEN conf.exact[p].key ELSE client[p]

Defined(g, root) ==
  IF proc.is = "text" /\ g \in DOMAIN proc.groups THEN <<"group", g, root>> ELSE NoGroup
Intended(p) ==
  LET f == InFolder[p]
      b == bridge[f]
      named == pgm.is = "text" /\ p \in DOMAIN pgm.exact
      wild == pgm.is = "text" /\ pgm.wild # {}
  IN  CASE named -> Defined(pgm.exact[p], Root)
        [] ~named /\ Heard(p) # NoGroup ->
             IF Heard(p)[1] = "external" THEN Heard(p) ELSE Defined(Heard(p)[2], Root)
        [] ~named /\ Heard(p) = NoGroup /\ wild -> Defined(CHOOSE g \in pgm.wild : TRUE, Root)
        [] ~named /\ Heard(p) = NoGroup /\ ~wild /\ b.is = "text" ->
             IF p \in DOMAIN b.files THEN Defined(b.files[p], f)
             ELSE IF b.default # {} THEN Defined(CHOOSE g \in b.default : TRUE, f) ELSE NoGroup
        [] OTHER -> NoGroup

(* A program that is not marked was analysed with the group that the       *)
(* configuration gives it now, whatever changed in whatever order. While   *)
(* proc_grps.json cannot be read (workspace_configuration.cpp:617), or the *)
(* .bridge.json of the folder, what was found before stays. Three changes  *)
(* mark nobody, and what they concern is in `missed`: the text discarded   *)
(* at closing (workspace.cpp:747-751), a program without a group when files*)
(* change outside (workspace.cpp:813-823), and an answer that the client   *)
(* replaced while it was waited for (workspace_manager.cpp:1142-1161).     *)
Readable(p) == proc.is = "text" /\ bridge[InFolder[p]].is \in {"text", "absent"}
Missed(p) == \E m \in missed : m[1] = p

AnalysedAsConfigured ==
  \A p \in Pgm \ pending : Readable(p) /\ ~Missed(p) => parsed[p].key = Intended(p)

(* A change of a member of a library marks every program that was analysed *)
(* with the library: the library is still watched, and the group of the    *)
(* program still has the identity it had (refresh_libraries). Again with   *)
(* files that can be read, and but for the libraries that were watched for *)
(* other folders or for the client when the libraries of one folder were   *)
(* swept (workspace_configuration.cpp:515-524).                            *)
LibraryChangeMarks ==
  \A l \in Libraries \ lost : LibraryChange(l)
    => \A p \in Pgm : (Readable(p) /\ l \in parsed[p].libs) => p \in pending'
LibraryChangeIsSeen == [][LibraryChangeMarks]_vars

(* A group that a loaded configuration names and does not define is        *)
(* reported (add_missing_diags), also when another mapping has precedence. *)
Names(t) == Range(t.exact) \cup t.wild
BridgeNames(t) == Range(t.files) \cup t.default
MissingIsReported ==
  proc.is = "text" =>
    /\ pgm.is = "text" => \A g \in Names(pgm) \ (DOMAIN proc.groups \cup {NoProc}) : <<Root, g>> \in conf.missing
    /\ \A f \in DOMAIN conf.cache : conf.cache[f] = "loaded" /\ bridge[f].is = "text" =>
         \A g \in BridgeNames(bridge[f]) \ (DOMAIN proc.groups \cup {NoProc}) : <<f, g>> \in conf.missing

(* An inline group of the client is kept as long as a program has it, and  *)
(* no longer (prune_external_processor_groups).                            *)
ExternalIsUsed ==
  {k \in DOMAIN conf.groups : k[1] = "external"}
    = {k \in {conf.exact[p].key : p \in DOMAIN conf.exact} : k[1] = "external"}
=============================================================================
