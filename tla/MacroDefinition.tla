--------------------------- MODULE MacroDefinition ---------------------------
(***************************************************************************)
(* How a macro is defined (macrodef_processor.cpp): the statements between *)
(* MACRO and MEND are collected from open code, from COPY members          *)
(* (copy_processor.cpp, copy_statement_provider.cpp) and from the macros   *)
(* that are called (macro_statement_provider.cpp), and for each of them    *)
(* the nest of files it comes from, its sequence symbol, the slices of the *)
(* files (lsp/macro_info.h) and the members used are kept.                 *)
(*                                                                         *)
(* The text of the analysed file is written while it is read. A member is  *)
(* loaded when it is first copied (request_external_processing); nothing   *)
(* else happens meanwhile, so that is one step with its COPY. A statement  *)
(* is its operation and an argument: PLAIN has a sequence symbol or none,  *)
(* REM is a comment, NAME calls a macro or is the prototype of one.        *)
(***************************************************************************)
EXTENDS Naturals, FiniteSets, SequencesExt

CONSTANTS
  Member,    \* names of COPY members
  Texts,     \* the texts the members may have: functions from some of Member
  Macro,     \* names of macros
  Symbol,    \* sequence symbols
  MaxLine,   \* bound: lines of the analysed file
  MaxCalls,  \* bound: calls of macros inside each other
  External   \* whether the analysed file may be a library macro

Main == "main"
NoName == "none"

DefinitionAssumption ==
  /\ {Main, NoName} \cap (Member \cup Macro \cup Symbol) = {}
  /\ MaxLine \in Nat /\ MaxCalls \in Nat /\ External \subseteq BOOLEAN

Stmt(op, arg) == [op |-> op, arg |-> arg]
Statements ==
  {Stmt("PLAIN", x) : x \in Symbol \cup {NoName}} \cup {Stmt("MACRO", NoName), Stmt("MEND", NoName)}
  \cup {Stmt("COPY", m) : m \in Member} \cup {Stmt("NAME", n) : n \in Macro}
File == {Main} \cup Member
Place(f, l) == [file |-> f, line |-> l]
NoDef == [is |-> "no definition"]

VARIABLES
  text,     \* the members of the libraries
  wanted,   \* external_name of a library macro, or NoName
  line,     \* lines of the analysed file read so far
  copy,     \* copy_stack: members and current_statement of each
  calls,    \* scope_stack: macros and current_statement of each
  def,      \* the macrodef_processor on top of the processors
  macros,   \* the last macro of each name
  known,    \* copy_members_
  over      \* the file was read

vars == <<text, wanted, line, copy, calls, def, macros, known, over>>

-----------------------------------------------------------------------------
(* copy_processor: a member whose MACRO and MEND do not match is empty,    *)
(* and a comment is no statement.                                          *)
Count(s, op) == Cardinality({i \in DOMAIN s : s[i].op = op})

Balanced(s) ==
  /\ Count(s, "MACRO") <= Count(s, "MEND")
  /\ \A i \in DOMAIN s : Count(SubSeq(s, 1, i), "MEND") <= Count(SubSeq(s, 1, i), "MACRO")

Collected(m) ==
  IF ~Balanced(text[m]) THEN <<>>
  ELSE SelectSeq([i \in DOMAIN text[m] |-> [s |-> text[m][i], at |-> Place(m, i)]],
                 LAMBDA e : e.s.op # "REM")

-----------------------------------------------------------------------------
(* Where the statement that is processed is: current_statement_location.   *)
FrameAt(f) == Collected(f.member)[f.cur].at
CallNest(f) == f.mac.nests[f.cur]
CurrentAt(cs, st, l) ==
  CASE cs # <<>> -> Last(CallNest(Last(cs))).loc
    [] cs = <<>> /\ st # <<>> -> FrameAt(Last(st))
    [] OTHER -> Place(Main, l)

(* A processor of a definition: copy_nest_limit, expecting_prototype_,     *)
(* last_in_inner_macro_, curr_outer_position_ and the result. at of a      *)
(* statement, entered and copied are history: where the text of the        *)
(* statement is, the members that were entered, and whether MACRO itself   *)
(* came from a copied part of a macro.                                     *)
Fresh(limits, at, copied) ==
  [limits |-> limits, expecting |-> TRUE, lastInner |-> FALSE, outer |-> 0, name |-> NoName,
   start |-> at, body |-> <<>>, nests |-> <<>>, labels |-> [x \in {} |-> 0],
   scopes |-> [f \in File |-> [slices |-> <<>>, new |-> FALSE]], used |-> {},
   entered |-> {}, copied |-> copied]

-----------------------------------------------------------------------------
(* update_outer_position, for a statement whose text is on line l of its   *)
(* file.                                                                   *)
OuterPosition(d, st, cs, l) ==
  IF \/ Len(st) # d.limits[1]
     \/ wanted = NoName /\ cs # <<>> /\ Len(CallNest(Last(cs))) >= 2
  THEN d
  ELSE [d EXCEPT !.outer = l]

(* Defect: the sequence symbols of inner macros count as well.             *)
LabelAnywhere(d, s) ==
  IF s.op = "PLAIN" /\ s.arg # NoName /\ s.arg \notin DOMAIN d.labels
  THEN [d EXCEPT !.labels = [x \in DOMAIN @ \cup {s.arg} |->
                               IF x = s.arg THEN Len(d.body) + 1 ELSE @[x]]]
  ELSE d

(* process_sequence_symbol: the first one in the macro itself counts.      *)
Label(d, s) == IF Len(d.limits) = 1 THEN LabelAnywhere(d, s) ELSE d

-----------------------------------------------------------------------------
(* add_correct_copy_nest. A copied member is at the level of the macros    *)
(* that were open when it was copied.                                      *)
Level(d, i) == 1 + Cardinality({k \in 2 .. Len(d.limits) : d.limits[k] < i})
Inner(nest) == SelectSeq(nest, LAMBDA e : e.level > 1)

Nest(d, st, cs) ==
  <<[loc |-> Place(d.start.file, d.outer), name |-> d.name, level |-> 1]>>
  \o [k \in 1 .. Len(st) - d.limits[1] |->
        LET i == d.limits[1] + k
        IN  [loc |-> FrameAt(st[i]), name |-> st[i].member, level |-> Level(d, i)]]
  \o IF cs = <<>> THEN <<>>
     ELSE LET mine == Inner(CallNest(Last(cs)))
          IN  [k \in DOMAIN mine |-> [mine[k] EXCEPT !.level = @ - 1]]

(* Defect: the members an inner macro of the caller copied are forgotten.  *)
UsedOnStack(d, st, cs) ==
  IF Len(st) > d.limits[1] THEN {Last(st).member} ELSE {}

Used(d, st, cs) ==
  UsedOnStack(d, st, cs)
  \cup IF cs = <<>> THEN {} ELSE {e.name : e \in ToSet(Inner(CallNest(Last(cs))))}

(* The slices of a file; id is the statement that was added last.          *)
Slice(id, inner) == [first |-> id, last |-> id, inner |-> inner]

Scoped(scope, id, inner, lastInner) ==
  CASE scope.slices = <<>> \/ scope.new ->
         [slices |-> Append(scope.slices, Slice(id, inner)), new |-> FALSE]
    [] scope.slices # <<>> /\ ~scope.new /\ ~lastInner /\ inner ->
         [scope EXCEPT !.slices = Append(@, Slice(id, inner))]
    [] OTHER ->
         [slices |-> [scope.slices EXCEPT ![Len(scope.slices)].last = id],
          new |-> lastInner /\ ~inner]

(* definition.push_back and add_correct_copy_nest. opened is               *)
(* bumped_macro_nest: the statement is the MACRO of an inner macro.        *)
Added(d, s, at, st, cs, opened) ==
  LET nest == Nest(d, st, cs)
      inner == Len(d.limits) > (IF opened THEN 2 ELSE 1)
  IN  [d EXCEPT !.body = Append(@, [s |-> s, at |-> at]),
                !.nests = Append(@, nest),
                !.used = @ \cup Used(d, st, cs),
                !.scopes[Last(nest).loc.file] = Scoped(@, Len(d.body) + 1, inner, d.lastInner),
                !.lastInner = inner]

-----------------------------------------------------------------------------
(* COPY (common_copy_postprocess): a member that is being copied is not    *)
(* copied again.                                                           *)
Enterable(m, st) == m \in DOMAIN text /\ \A i \in DOMAIN st : st[i].member # m

Entered(m, st) == IF Enterable(m, st) THEN Append(st, [member |-> m, cur |-> 0]) ELSE st

Known(m) == IF m \in DOMAIN text THEN known \cup {m} ELSE known

(* process_COPY of a definition: the member counts as used here when it    *)
(* was known before, otherwise with its first statement.                   *)
CopyUsed(d, m, st) ==
  IF Enterable(m, st)
  THEN [d EXCEPT !.used = IF m \in known THEN @ \cup {m} ELSE @, !.entered = @ \cup {m}]
  ELSE d

-----------------------------------------------------------------------------
(* finish_macro_definition: what stays of a definition.                    *)
Kept(d) == [name |-> d.name, start |-> d.start, body |-> d.body, nests |-> d.nests,
            labels |-> d.labels, scopes |-> d.scopes, used |-> d.used,
            entered |-> d.entered, copied |-> d.copied]

Finish(d, valid) ==
  /\ def' = NoDef
  /\ macros' = IF valid THEN [macros EXCEPT ![d.name] = Kept(d)] ELSE macros

Goes(d) == def' = d /\ UNCHANGED macros

(* macrodef_processor::process_statement, once the providers moved on to   *)
(* st and cs and the statement s, whose text is at at.                     *)
DefineFirst(s, st, cs, l) ==
  /\ IF s.op = "MACRO"
     THEN Goes([def EXCEPT !.limits = <<Len(st)>>, !.start = CurrentAt(cs, st, l)])
     ELSE Finish(def, FALSE)
  /\ copy' = st /\ UNCHANGED known

DefinePrototype(s, st) ==
  /\ s.op = "NAME"
  /\ IF wanted \notin {NoName, s.arg} THEN Finish(def, FALSE)
     ELSE Goes([def EXCEPT !.expecting = FALSE, !.name = s.arg])
  /\ copy' = st /\ UNCHANGED known

DefineBody(s, at, st, cs) ==
  LET d == Label(OuterPosition(def, st, cs, at.line), s)
  IN  CASE s.op = "MACRO" ->
             /\ Goes(Added([d EXCEPT !.limits = Append(@, Len(st))], s, at, st, cs, TRUE))
             /\ copy' = st /\ UNCHANGED known
        [] s.op = "MEND" ->
             /\ IF Len(d.limits) = 1 THEN Finish(Added(d, s, at, st, cs, FALSE), TRUE)
                ELSE Goes(Added([d EXCEPT !.limits = Front(@)], s, at, st, cs, FALSE))
             /\ copy' = st /\ UNCHANGED known
        [] s.op = "COPY" ->
             /\ Goes(CopyUsed(Added(d, Stmt("PLAIN", NoName), at, st, cs, FALSE), s.arg, st))
             /\ copy' = Entered(s.arg, st) /\ known' = Known(s.arg)
        [] OTHER ->
             /\ Goes(Added(d, s, at, st, cs, FALSE))
             /\ copy' = st /\ UNCHANGED known

(* A statement that is executed: ca_processor, asm_processor and           *)
(* macro_processor.                                                        *)
Execute(s, st, cs, l) ==
  /\ def' = IF s.op = "MACRO"
            THEN Fresh(<<Len(st)>>, CurrentAt(cs, st, l),
                       cs # <<>> /\ Len(CallNest(Last(cs))) >= 2)
            ELSE NoDef
  /\ copy' = IF s.op = "COPY" THEN Entered(s.arg, st) ELSE st
  /\ known' = IF s.op = "COPY" THEN Known(s.arg) ELSE known
  /\ calls' = IF s.op = "NAME" /\ macros[s.arg] # NoDef /\ Len(cs) < MaxCalls
              THEN Append(cs, [mac |-> macros[s.arg], cur |-> 0]) ELSE cs
  /\ UNCHANGED macros

Process(s, at, st, cs, l) ==
  IF def = NoDef THEN Execute(s, st, cs, l)
  ELSE /\ calls' = cs
       /\ IF def.limits = <<>> THEN DefineFirst(s, st, cs, l)
          ELSE IF def.expecting THEN DefinePrototype(s, st)
          ELSE DefineBody(s, at, st, cs)

-----------------------------------------------------------------------------
(* The next statement comes from the innermost macro, else from the        *)
(* innermost member, else from the file.                                   *)
Advanced(stack) == [stack EXCEPT ![Len(stack)].cur = @ + 1]

FromMacro ==
  /\ calls # <<>>
  /\ \E cs \in {Advanced(calls)} :
       LET f == Last(cs)
       IN  IF f.cur > Len(f.mac.body)
           THEN calls' = Front(calls) /\ UNCHANGED <<copy, def, macros, known>>
           ELSE Process(f.mac.body[f.cur].s, f.mac.body[f.cur].at, copy, cs, line)
  /\ UNCHANGED <<text, wanted, line, over>>

FromMember ==
  /\ calls = <<>> /\ copy # <<>>
  /\ \E st \in {Advanced(copy)} :
       LET c == Collected(Last(st).member)
           i == Last(st).cur
       IN  IF i > Len(c)
           THEN copy' = Front(copy) /\ UNCHANGED <<calls, def, macros, known>>
           ELSE Process(c[i].s, c[i].at, st, calls, line)
  /\ UNCHANGED <<text, wanted, line, over>>

(* The statement after a MACRO is a prototype, and a statement that does   *)
(* nothing is not written outside a definition.                            *)
Sensible(s) ==
  IF def = NoDef THEN s.op \in {"MACRO", "COPY", "NAME"}
  ELSE (def.limits # <<>>
        /\ (def.expecting \/ (def.body # <<>> /\ Last(def.body).s.op = "MACRO"))) => s.op = "NAME"

FromFile ==
  /\ calls = <<>> /\ copy = <<>> /\ ~over /\ line < MaxLine
  /\ wanted = NoName \/ def # NoDef
  /\ line' = line + 1
  /\ \E s \in Statements : Sensible(s) /\ Process(s, Place(Main, line'), <<>>, <<>>, line')
  /\ UNCHANGED <<text, wanted, over>>

(* The file ends: end_processing of an unfinished definition.              *)
EndOfFile ==
  /\ calls = <<>> /\ copy = <<>> /\ ~over
  /\ over' = TRUE
  /\ IF def = NoDef THEN UNCHANGED <<def, macros>> ELSE Finish(def, FALSE)
  /\ UNCHANGED <<text, wanted, line, copy, calls, known>>

Init ==
  /\ text \in Texts
  /\ \E e \in External : wanted \in IF e THEN Macro ELSE {NoName}
  /\ def = IF wanted = NoName THEN NoDef ELSE Fresh(<<>>, Place(Main, 1), FALSE)
  /\ line = 0 /\ copy = <<>> /\ calls = <<>> /\ known = {} /\ over = FALSE
  /\ macros = [n \in Macro |-> NoDef]

Next == FromMacro \/ FromMember \/ FromFile \/ EndOfFile

Spec == Init /\ [][Next]_vars

-----------------------------------------------------------------------------
Defined == {macros[n] : n \in {n \in Macro : macros[n] # NoDef}}
InWork == IF def = NoDef THEN {} ELSE {def}
Definitions == Defined \cup InWork

(* The statements of a definition are in their files, one nest belongs to  *)
(* each, and the levels and positions are numbers.                         *)
TypeOK ==
  /\ text \in Texts /\ wanted \in Macro \cup {NoName} /\ line \in 0 .. MaxLine /\ over \in BOOLEAN
  /\ known \subseteq DOMAIN text
  /\ \A i \in DOMAIN copy : copy[i].member \in known /\ copy[i].cur \in 0 .. Len(Collected(copy[i].member))
  /\ \A i \in DOMAIN calls : calls[i].cur \in 0 .. Len(calls[i].mac.body)
  /\ DOMAIN macros = Macro
  /\ \A d \in Definitions :
       /\ d.name \in Macro \cup {NoName} /\ d.used \subseteq Member
       /\ Len(d.nests) = Len(d.body)
       /\ \A i \in DOMAIN d.body :
            /\ d.body[i].s \in Statements /\ d.body[i].at.file \in File
            /\ \A e \in ToSet(d.nests[i]) :
                 e.loc.file \in File /\ e.loc.line \in Nat /\ e.level \in Nat \ {0}

(* A member is not copied inside itself, whoever copies it: open code, a   *)
(* definition or a member (asm_processor.cpp:860-866).                     *)
CopyIsNotRecursive ==
  \A i, j \in DOMAIN copy : copy[i].member = copy[j].member => i = j

(* The last item of the nest of each statement is the place of its text,   *)
(* and what is before it is the nest of the COPY that brought it in        *)
(* (macrodef_processor.cpp:568-588).                                       *)
NestTells(d) ==
  \A i \in DOMAIN d.body :
    /\ Last(d.nests[i]).loc = d.body[i].at
    /\ Len(d.nests[i]) > 1 => \E j \in 1 .. i - 1 : d.nests[j] = Front(d.nests[i])

(* The same of the macros whose MACRO is not in a copied part of a macro.  *)
NestTellsPlace == \A d \in Definitions : ~d.copied => NestTells(d)

(* A sequence symbol of a macro is its first one outside the inner macros  *)
(* (macrodef_processor.cpp:529-542): AGO finds it there.                   *)
Depth(d, i) ==
  LET before(op) == Cardinality({j \in 1 .. i - 1 : d.body[j].s.op = op})
  IN  before("MACRO") - before("MEND")

LabelsAreFirst ==
  \A d \in Definitions : \A x \in Symbol :
    LET at == {i \in DOMAIN d.body : d.body[i].s = Stmt("PLAIN", x) /\ Depth(d, i) = 0}
    IN  /\ (x \in DOMAIN d.labels) = (at # {})
        /\ at # {} => d.labels[x] \in at /\ \A i \in at : d.labels[x] <= i

(* The members the statements of a macro come from are members it uses     *)
(* (macrodef_processor.cpp:582-592): the macro cache and the language      *)
(* features ask only for those.                                            *)
UsedCoversNests ==
  \A d \in Definitions : \A i \in DOMAIN d.nests :
    \A e \in ToSet(Tail(d.nests[i])) : e.name \in d.used

(* Each statement is in one slice of its file, and a slice starts and ends *)
(* with a statement of its file (lsp/file_info.cpp:229, the assertion of   *)
(* source_line).                                                           *)
FileOf(d, i) == Last(d.nests[i]).loc.file
Holds(sl, i) == sl.first <= i /\ i <= sl.last

SlicesCover ==
  \A d \in Definitions :
    /\ \A i \in DOMAIN d.body :
         Cardinality({k \in DOMAIN d.scopes[FileOf(d, i)].slices :
                        Holds(d.scopes[FileOf(d, i)].slices[k], i)}) = 1
    /\ \A f \in File : \A sl \in ToSet(d.scopes[f].slices) :
         FileOf(d, sl.first) = f /\ FileOf(d, sl.last) = f

=============================================================================
