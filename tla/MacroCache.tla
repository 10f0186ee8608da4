----------------------------- MODULE MacroCache -----------------------------
(***************************************************************************)
(* The members that parses read through the libraries                      *)
(* (parser_library/src/workspaces/workspace.cpp, macro_cache.cpp): which   *)
(* of them a program depends on, which are kept, and the cache of parsed   *)
(* macros and copy members, which is validated by the versions of files.   *)
(*                                                                         *)
(* Abstracted data:                                                        *)
(*  - a text tells which members a macro copies, and whether it holds any  *)
(*    statement; a parse is known by the texts it has read;                *)
(*  - a program may request any member at any time, each text of it does;  *)
(*  - the OPSYN state in the key of an entry is left out: entries under    *)
(*    different states do not meet; copy members copy nothing themselves;  *)
(*  - a mapped_file object is its version; versions of different files    *)
(*    are never compared, so each location counts its own.                 *)
(*                                                                         *)
(* All of it runs on the LSP thread. The two items of a document change    *)
(* are one step here (no parse runs between them, see WorkQueue).          *)
(***************************************************************************)
EXTENDS Naturals, Sequences, FiniteSets

CONSTANTS
  Program,      \* documents that are parsed, not members of a library
  Location,     \* library members
  Name,         \* names of members
  NameOf,       \* NameOf[l]: the name of the member at l
  Macro,        \* names that are requested as macros, the others by COPY
  Text,         \* texts of members
  Copies,       \* Copies[t]: names that the macro in t copies
  Blank,        \* texts without any statement
  Config,       \* what the configured libraries may resolve names to
  None,
  MaxEvents     \* bound: events from the outside

ASSUME MembersAssumption ==
  /\ NameOf \in [Location -> Name] /\ Macro \subseteq Name
  /\ Copies \in [Text -> SUBSET (Name \ Macro)] /\ Blank \subseteq Text
  /\ None \notin Location /\ None \notin Program /\ Program \cap Location = {}
  /\ Config \subseteq {c \in [Name -> Location \cup {None}] :
                         \A n \in Name : c[n] # None => NameOf[c[n]] = n}
  /\ MaxEvents \in Nat

VARIABLES
  events,     \* number of events so far
  disk,       \* external: texts of the files
  watched,    \* files whose change on the disk is still to be reported
  conf,       \* the configured libraries
  entry,      \* m_files of the file manager; version 0: none
  last,       \* versions given out
  opened,     \* files open in the editor (m_opened, m_editing_self_reference)
  pending,    \* m_parsing_pending
  comp,       \* m_file of the components of members; 0: no component
  deps,       \* m_dependencies of each file
  result,     \* what the last results of a file were read from
  active,     \* the parse in progress
  failed      \* get_copy_member_versions has thrown (never, as it turns out)

files == <<disk, watched, entry, last>>
workspace == <<opened, pending, comp, deps, result>>
vars == <<events, files, conf, workspace, active, failed>>

-----------------------------------------------------------------------------
File == Program \cup Location
NoEntry == [version |-> 0, text |-> None, closed |-> FALSE]

(* A dependency_cache with what its macro_cache holds: the stamps of the   *)
(* entry, and what was read to make it (nothing: no entry).                *)
NewDep(v) == [version |-> v, stamps |-> {}, reads |-> {}]
NoDep == NewDep(0)
NoDeps == [l \in Location |-> NoDep]
Uses(f) == {l \in Location : deps[f][l].version # 0}

(* A parse. next: next_dependencies, known: the copy members of its        *)
(* context, asked: the requests it has made, reads: what it has read,      *)
(* nest: the analyzers of the members it is in.                            *)
NoParse == [file |-> None, conf |-> [n \in Name |-> None], next |-> NoDeps, known |-> {},
            asked |-> {}, reads |-> {}, nest |-> <<>>]

Init ==
  /\ events = 0 /\ disk \in [Location -> Text] /\ watched = {}
  /\ conf \in Config
  /\ entry = [l \in Location |-> NoEntry] /\ last = [l \in Location |-> 0]
  /\ opened = {} /\ pending = {}
  /\ comp = [l \in Location |-> 0] /\ deps = [f \in File |-> NoDeps]
  /\ result = [f \in File |-> {}]
  /\ active = NoParse /\ failed = FALSE

-----------------------------------------------------------------------------
(* The file manager (see FileManager).                                     *)

(* Somebody has a reference to the current object of l: the editor, a      *)
(* component, a dependency_cache, or the parse a.                          *)
Alive(l, a) ==
  /\ entry[l].version # 0
  /\ \/ l \in opened
     \/ entry[l].version \in {comp[l], a.next[l].version} \cup {deps[f][l].version : f \in File}

(* find: the version of the file, or 0.                                    *)
Find(l, a) == IF Alive(l, a) /\ ~entry[l].closed THEN entry[l].version ELSE 0

NewEntry(l, t) == [version |-> last[l] + 1, text |-> t, closed |-> FALSE]

(* What add_file leaves in m_files.                                        *)
Added(l, a) ==
  IF Find(l, a) # 0 THEN entry[l]
  ELSE IF Alive(l, a) /\ entry[l].text = disk[l] THEN [entry[l] EXCEPT !.closed = FALSE]
  ELSE NewEntry(l, disk[l])

SetEntry(l, e) ==
  /\ entry' = [entry EXCEPT ![l] = e]
  /\ last' = [last EXCEPT ![l] = IF e.version > @ THEN e.version ELSE @]

-----------------------------------------------------------------------------
(* The workspace: documents and configuration.                             *)
Event == events < MaxEvents /\ events' = events + 1

(* A file_change item drops the parse in progress.                         *)
Abandon == active' = NoParse

Dependents(l) == {f \in opened : l \in Uses(f)}

DidOpenProgram(p) ==
  /\ Event /\ p \notin opened
  /\ opened' = opened \cup {p} /\ pending' = pending \cup {p}
  /\ Abandon
  /\ UNCHANGED <<files, conf, comp, deps, result, failed>>

DidChangeProgram(p) ==
  /\ Event /\ p \in opened
  /\ pending' = pending \cup {p}
  /\ Abandon
  /\ UNCHANGED <<files, conf, opened, comp, deps, result, failed>>

(* Defect: the dependencies of other files are not looked at.              *)
NotOpened(candidates, ignored, d) == candidates \ opened

(* filter_and_close_dependencies: of the candidates, the ones to close.    *)
ToClose(candidates, ignored, d) ==
  {l \in candidates \ opened : \A f \in File \ ignored : d[f][l].version = 0}

DidCloseProgram(p) ==
  /\ Event /\ p \in opened
  /\ opened' = opened \ {p} /\ pending' = pending \ {p}
  /\ LET closing == ToClose(Uses(p), {p}, deps) IN
       /\ comp' = [l \in Location |-> IF l \in closing THEN 0 ELSE comp[l]]
       /\ deps' = [f \in File |-> IF f \in closing \cup {p} THEN NoDeps ELSE deps[f]]
       /\ result' = [f \in File |-> IF f \in closing \cup {p} THEN {} ELSE result[f]]
  /\ Abandon
  /\ UNCHANGED <<files, conf, failed>>

(* A member is opened with text t: a new object, unless the old one says t.*)
DidOpenMember(l, t) ==
  /\ Event /\ l \notin opened
  /\ LET same == Alive(l, NoParse) /\ entry[l].text = t
         e == IF same THEN [entry[l] EXCEPT !.closed = FALSE] ELSE NewEntry(l, t)
     IN /\ SetEntry(l, e)
        /\ comp' = [comp EXCEPT ![l] = e.version]
        /\ pending' = pending \cup {l} \cup (IF same THEN {} ELSE Dependents(l))
  /\ opened' = opened \cup {l}
  /\ Abandon
  /\ UNCHANGED <<disk, watched, conf, deps, result, failed>>

(* The component of the member refers to the document, so the document is  *)
(* shared and a change makes a new object.                                 *)
DidChangeMember(l, t) ==
  /\ Event /\ l \in opened
  /\ SetEntry(l, NewEntry(l, t))
  /\ comp' = [comp EXCEPT ![l] = last[l] + 1]
  /\ pending' = pending \cup {l} \cup Dependents(l)
  /\ Abandon
  /\ UNCHANGED <<disk, watched, conf, opened, deps, result, failed>>

(* did_close_file: the document is closed, not dropped. If it is somebody's*)
(* dependency the disk is read, and its dependents are marked when one of  *)
(* them has another version; otherwise its component goes.                 *)
DidCloseMember(l) ==
  /\ Event /\ l \in opened
  /\ opened' = opened \ {l}
  /\ LET users == {f \in File : l \in Uses(f)}
         e == IF users # {} /\ entry[l].text # disk[l] THEN NewEntry(l, disk[l])
              ELSE [entry[l] EXCEPT !.closed = (users = {})]
         closing == IF users = {} THEN ToClose(Uses(l), {l}, deps) \cup {l} ELSE {}
     IN /\ SetEntry(l, e)
        /\ pending' = (pending \ {l}) \cup
                      (IF \E f \in users : deps[f][l].version # e.version
                       THEN Dependents(l) \ {l} ELSE {})
        /\ comp' = [k \in Location |-> IF k \in closing THEN 0 ELSE comp[k]]
        /\ deps' = [f \in File |-> IF f \in closing THEN NoDeps ELSE deps[f]]
        /\ result' = [f \in File |-> IF f \in closing THEN {} ELSE result[f]]
  /\ Abandon
  /\ UNCHANGED <<disk, watched, conf, failed>>

(* Another program writes a file.                                          *)
DiskChanges(l, t) ==
  /\ Event /\ t # disk[l]
  /\ disk' = [disk EXCEPT ![l] = t] /\ watched' = watched \cup {l}
  /\ UNCHANGED <<conf, entry, last, workspace, active, failed>>

(* did_change_watched_files: update_file, refresh_libraries, and the marks.*)
(* A file in a listed library makes its libraries list their files again   *)
(* (giving c), and marks all files that are parsed with them (groups).     *)
DidChangeWatchedFiles(l, groups, c) ==
  /\ l \in watched /\ watched' = watched \ {l}
  /\ groups \/ c = conf
  /\ conf' = c
  /\ LET known == l \notin opened /\ Alive(l, NoParse)
         changed == known /\ entry[l].text # disk[l]
     IN /\ entry' = IF changed THEN [entry EXCEPT ![l] = NoEntry]
                    ELSE IF known THEN [entry EXCEPT ![l].closed = FALSE] ELSE entry
        /\ pending' = IF groups THEN opened
                      ELSE pending \cup (IF changed THEN Dependents(l) ELSE {})
  /\ Abandon
  /\ UNCHANGED <<events, disk, last, opened, comp, deps, result, failed>>

(* A change of the configuration marks all files; a parse goes on.         *)
Reconfigure(c) ==
  /\ Event /\ c # conf
  /\ conf' = c
  /\ pending' = opened
  /\ UNCHANGED <<files, opened, comp, deps, result, active, failed>>

-----------------------------------------------------------------------------
(* A parse: parse_file, and parse_library of each member it requests.      *)

ParseBegin(f) ==
  /\ active.file = None /\ f \in pending
  /\ active' = [NoParse EXCEPT !.file = f, !.conf = conf]
  /\ UNCHANGED <<events, files, conf, workspace, failed>>

Top == Head(active.nest)
Resolved(n) == active.conf[n]
KnownAs(n, known) == {r \in known : NameOf[r.at] = n}

(* The request of a name by the open code (a member that is open in the    *)
(* editor, and parsed as open code, makes none) or by a macro copying it.  *)
Wanted(n) == IF active.nest = <<>> THEN active.file \in Program /\ n \notin active.asked
             ELSE n \in Top.todo

(* The parse a after it has got the copy member r: a macro that copies it  *)
(* notes it as one of its used_copy_members, when counted.                 *)
CopyInto(a, r, counted) ==
  LET top == Head(a.nest)
      known == {k \in a.known : NameOf[k.at] # NameOf[r.at]} \cup {r}
  IN IF a.nest = <<>> THEN [a EXCEPT !.known = known, !.reads = @ \cup {r}]
     ELSE [a EXCEPT !.known = known,
             !.nest = <<[top EXCEPT !.todo = @ \ {NameOf[r.at]}, !.reads = @ \cup {r},
                                    !.used = @ \cup (IF counted THEN {r.at} ELSE {})]>> \o Tail(@)]

(* request_external_processing answers FALSE.                              *)
NotFound(n) ==
  /\ active.file # None /\ Wanted(n)
  /\ KnownAs(n, active.known) = {} /\ Resolved(n) = None
  /\ active' = [active EXCEPT !.asked = @ \cup {n},
                  !.nest = IF @ = <<>> THEN @ ELSE <<[Top EXCEPT !.todo = @ \ {n}]>> \o Tail(@)]
  /\ UNCHANGED <<events, files, conf, workspace, failed>>

(* process_COPY of a member that the context has already.                  *)
CopyKnown(n) ==
  /\ active.nest # <<>> /\ n \in Top.todo
  /\ \E r \in KnownAs(n, active.known) : active' = CopyInto(active, r, TRUE)
  /\ UNCHANGED <<events, files, conf, workspace, failed>>

(* get_cache: the dependency_cache of version v of l.                      *)
Cache(a, l, v) ==
  IF a.next[l].version # 0 THEN a.next[l]
  ELSE IF deps[a.file][l].version = v THEN deps[a.file][l]
  ELSE NewDep(v)

(* Defect: only the macro's own version is compared.                       *)
OwnStampValid(d, a) == d.reads # {}

(* find_cached_data: there is an entry and its stamps are the versions of  *)
(* the files.                                                              *)
Valid(d, a) == d.reads # {} /\ \A s \in d.stamps : Find(s.at, a) = s.version

(* Defect: the copy members of a cached macro are not dependencies.        *)
NothingCarried(a, l, d) == a

(* load_from_cache of a macro and the loop that carries over the nested    *)
(* dependencies: its copy members replace those of the context.            *)
CarryOver(a, l, d) ==
  LET copies == {s \in d.stamps : s.at # l}
      loaded == {r \in d.reads : \E s \in copies : s.at = r.at}
  IN [a EXCEPT
        !.next = [k \in Location |->
                    IF \E s \in copies : s.at = k THEN Cache(a, k, Find(k, a)) ELSE @[k]],
        !.known = {r \in @ : \A q \in loaded : NameOf[q.at] # NameOf[r.at]} \cup loaded]

(* parse_library up to the result of load_from_cache, or up to the start   *)
(* of the analyzer of the member.                                          *)
Request(n) ==
  /\ active.file # None /\ Wanted(n)
  /\ KnownAs(n, active.known) = {} /\ Resolved(n) # None
  /\ LET l == Resolved(n)
         e == IF active.next[l].version # 0 THEN entry[l] ELSE Added(l, active)
         d == Cache(active, l, e.version)
         a == [active EXCEPT !.next[l] = d]
         member == [at |-> l, text |-> e.text]
     IN /\ SetEntry(l, e)
        /\ comp' = [comp EXCEPT ![l] = e.version]
        /\ active' =
             IF ~Valid(d, active)
               THEN [a EXCEPT !.nest = <<[at |-> l, reads |-> {member}, used |-> {},
                        todo |-> IF n \in Macro THEN Copies[e.text] ELSE {}]>> \o @]
             ELSE IF n \in Macro
               THEN [CarryOver(a, l, d) EXCEPT !.asked = @ \cup {n}, !.reads = @ \cup d.reads]
             ELSE CopyInto([a EXCEPT !.asked = @ \cup {n}], member, e.text \notin Blank)
  /\ UNCHANGED <<events, disk, watched, conf, opened, pending, deps, result, failed>>

(* The versions of the copy members of a macro, for its stamps.            *)
CopyVersions(used) == {[at |-> k, version |-> Find(k, active)] : k \in used}

(* The analyzer of a member ends: save_macro. The cache object may be the  *)
(* one of the last parse too.                                              *)
Save ==
  /\ active.nest # <<>> /\ Top.todo = {}
  /\ LET l == Top.at
         v == active.next[l].version
         d == [version |-> v, reads |-> Top.reads,
               stamps |-> CopyVersions(Top.used) \cup {[at |-> l, version |-> v]}]
         a == [active EXCEPT !.next[l] = d, !.nest = Tail(@), !.asked = @ \cup {NameOf[l]}]
         member == CHOOSE r \in Top.reads : r.at = l
     IN IF \E k \in Top.used : Find(k, active) = 0
        THEN failed' = TRUE /\ active' = NoParse /\ UNCHANGED deps
        ELSE /\ deps' = IF deps[active.file][l].version = v
                        THEN [deps EXCEPT ![active.file][l] = d] ELSE deps
             /\ active' = IF NameOf[l] \in Macro
                          THEN [a EXCEPT !.reads = @ \cup Top.reads]
                          ELSE CopyInto(a, member, member.text \notin Blank)
             /\ UNCHANGED failed
  /\ UNCHANGED <<events, files, conf, opened, pending, comp, result>>

(* The open code ends: parse_successful, then the dependencies that are    *)
(* none any more are closed.                                               *)
ParseDone ==
  /\ active.file # None /\ active.nest = <<>>
  /\ LET f == active.file
         new == [deps EXCEPT ![f] = active.next]
         closing == ToClose({l \in Uses(f) : active.next[l].version = 0}, {}, new)
     IN /\ comp' = [l \in Location |-> IF l \in closing THEN 0 ELSE comp[l]]
        /\ deps' = [g \in File |-> IF g \in closing THEN NoDeps ELSE new[g]]
        /\ result' = [g \in File |-> IF g \in closing THEN {}
                                     ELSE IF g = f THEN active.reads ELSE result[g]]
  /\ pending' = pending \ {active.file}
  /\ active' = NoParse
  /\ UNCHANGED <<events, files, conf, opened, failed>>

-----------------------------------------------------------------------------
Documents ==
  \/ \E p \in Program : DidOpenProgram(p) \/ DidChangeProgram(p) \/ DidCloseProgram(p)
  \/ \E l \in Location, t \in Text : DidOpenMember(l, t) \/ DidChangeMember(l, t)
  \/ \E l \in Location : DidCloseMember(l)

Files ==
  \/ \E l \in Location, t \in Text : DiskChanges(l, t)
  \/ \E l \in Location, groups \in BOOLEAN, c \in Config : DidChangeWatchedFiles(l, groups, c)
  \/ \E c \in Config : Reconfigure(c)

Parse ==
  \/ \E f \in File : ParseBegin(f)
  \/ \E n \in Name : NotFound(n) \/ CopyKnown(n) \/ Request(n)
  \/ Save
  \/ ParseDone

Next == Documents \/ Files \/ Parse

Spec == Init /\ [][Next]_vars

-----------------------------------------------------------------------------
(* Properties.                                                             *)

(* The variables hold values of these sets; only files that are open are   *)
(* marked, whoever is closed while marked (the assert of parse_file).       *)
Read == [at : Location, text : Text]
Stamp == [at : Location, version : Nat]
Entry == [version : Nat, text : Text \cup {None}, closed : BOOLEAN]
Dep == [version : Nat, stamps : SUBSET Stamp, reads : SUBSET Read]
Frame == [at : Location, reads : SUBSET Read, used : SUBSET Location, todo : SUBSET Name]
Parsing == [file : File \cup {None}, conf : [Name -> Location \cup {None}],
            next : [Location -> Dep], known : SUBSET Read, asked : SUBSET Name,
            reads : SUBSET Read, nest : Seq(Frame)]

TypeOK ==
  /\ events \in Nat
  /\ disk \in [Location -> Text] /\ watched \subseteq Location /\ conf \in Config
  /\ entry \in [Location -> Entry] /\ last \in [Location -> Nat]
  /\ opened \subseteq File /\ pending \subseteq opened
  /\ comp \in [Location -> Nat] /\ deps \in [File -> [Location -> Dep]]
  /\ result \in [File -> SUBSET Read]
  /\ active \in Parsing
  /\ failed \in BOOLEAN

(* What a parse of the macro at l would read now: its text, and for each   *)
(* member it copies the one the context has or the libraries give.         *)
Current(l) == IF Find(l, active) # 0 THEN entry[l].text ELSE disk[l]
Reparse(l) ==
  {[at |-> l, text |-> Current(l)]} \cup
  UNION {IF KnownAs(n, active.known) # {} THEN KnownAs(n, active.known)
         ELSE {[at |-> k, text |-> Current(k)] : k \in {Resolved(n)} \ {None}} :
           n \in Copies[Current(l)]}

(* "Contains all the context that affects parsing an external file (macro  *)
(* or copy member)", the comment of macro_cache_key; "Versions of          *)
(* respective macro (copy member) with all dependencies", that of stamps:  *)
(* a macro that is about to be taken from the cache is the one that        *)
(* parsing its file again would give.                                      *)
HitAsParsed ==
  \A n \in Macro :
    active.nest = <<>> /\ active.file \in Program /\ n \notin active.asked /\ Resolved(n) # None =>
      LET l == Resolved(n)
          d == Cache(active, l, Find(l, active))
      IN Find(l, active) # 0 /\ Valid(d, active) => d.reads = Reparse(l)

(* "Dependencies of a macro must be open right after parsing the macro."   *)
(* (get_copy_member_versions): whatever the editor and the disk do while   *)
(* the parse is suspended, they are.                                       *)
OpenAfterParsing == ~failed

(* The results of an open file that is not marked come from the current    *)
(* text of each member, cached or not: a member whose text influences them *)
(* is a dependency, so that its change marks the file. A change on the     *)
(* disk counts when it is reported.                                        *)
ResultsAreCurrent ==
  \A f \in opened \ pending : \A r \in result[f] : r.at \in watched \/ r.text = Current(r.at)

(* filter_and_close_dependencies closes no member that an open file still  *)
(* depends on, whoever else closes it or stops to use it.                  *)
DependenciesStay == \A f \in opened : \A l \in Uses(f) : comp[l] # 0

(* What an open file, or the parse of one, depends on stays open.          *)
MembersStayOpen == DependenciesStay /\ OpenAfterParsing
=============================================================================
