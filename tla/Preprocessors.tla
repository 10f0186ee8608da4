--------------------------- MODULE Preprocessors ----------------------------
(***************************************************************************)
(* The preprocessors that rewrite the lines of a document before it is     *)
(* assembled: CICS, with the operands of its EXEC statements, Db2 and      *)
(* Endevor.                                                                *)
(***************************************************************************)
EXTENDS Naturals, FiniteSets, SequencesExt

-----------------------------------------------------------------------------
(***************************************************************************)
(* The CICS translator (cics_preprocessor.cpp, preprocessor.cpp): one pass *)
(* over the lines of the file, copying them, adding the statements of the  *)
(* command level interface and replacing EXEC CICS commands and DFHRESP    *)
(* and DFHVALUE arguments. An iteration of generate_replacement is a step. *)
(*                                                                         *)
(* A line is what the translator can tell apart: its kind, an argument in  *)
(* its operands, whether column 72 continues it, and how many of its first *)
(* columns are blank: none, some, or all 15 before a continuation. Text    *)
(* the translator adds is one entry of the output, whatever lines it has.  *)
(***************************************************************************)
CONSTANTS
  CicsLines,    \* the lines files are made of
  CicsMaxLine,  \* bound: lines of the file
  Options       \* the initial cics_preprocessor_options

CicsKinds == {"process", "noprolog", "noepilog", "comment", "start", "rsect", "dsect", "stg",
              "dfhe", "end", "exec", "exec0", "plain"}
Arguments == {"-", "dfh", "null"}
Line == [kind : CicsKinds, arg : Arguments, cont : BOOLEAN, blank : {0, 1, 15}]

CicsAssumption ==
  /\ CicsLines \subseteq Line /\ CicsMaxLine \in Nat
  /\ Options \subseteq [prolog : BOOLEAN, epilog : BOOLEAN]

Special == {"process", "noprolog", "noepilog"}
Sections == {"start", "rsect", "dsect", "stg", "dfhe"}

VARIABLES
  cicsDoc,    \* the lines of the file
  pos,        \* it
  skip,       \* skip_continuation
  allowed,    \* asm_xopts_allowed
  options,    \* m_options
  flags,      \* m_end_seen, m_global_macro_called and what is pending
  cicsOut,    \* m_result
  cicsDiags,  \* the diagnostics added
  cicsOver    \* the result was returned

-----------------------------------------------------------------------------
CicsGiven(i) == <<"line", i>>     \* the line as it was
CicsEcho(i) == <<"echo", i>>      \* the line as a comment
CicsAdded(what) == <<what, 0>>
Diag(code, i) == <<code, i>>

(* extract_nonempty_logical_line: lines while they are continued, and      *)
(* whether the columns before the continuation are blank in all but the    *)
(* first of them. The commands continue in column 2.                       *)
CicsLastOf(i) == CHOOSE j \in i .. Len(cicsDoc) :
                   /\ \A n \in i .. j - 1 : cicsDoc[n].cont
                   /\ ~cicsDoc[j].cont \/ j = Len(cicsDoc)
CicsBroken(i, columns) == \E j \in i + 1 .. CicsLastOf(i) : cicsDoc[j].blank < columns
ExecColumns == 1
StatementColumns == 15

(* An argument of any line of the statement.                               *)
Has(i, arg) == \E j \in i .. CicsLastOf(i) : cicsDoc[j].arg = arg
CicsEchoed(i, j) == [n \in 1 .. (j + 1) - i |-> CicsEcho((i + n) - 1)]

(* do_general_injections                                                   *)
If(condition, what) == IF condition THEN <<CicsAdded(what)>> ELSE <<>>
PendingAdded(f) ==
  If(f.prolog, "DFHEIENT") \o If(f.stg, "DFHEISTG") \o If(f.null, "DFH7218I")
NothingPending(f) == [f EXCEPT !.prolog = FALSE, !.stg = FALSE, !.null = FALSE]
Pending(i) == PendingAdded(flags)

-----------------------------------------------------------------------------
(* process_asm_statement: what is added before the line, and the flags.    *)
Start(kind) ==
  IF kind \in {"start", "dsect", "stg", "dfhe"} /\ ~flags.global THEN <<CicsAdded("DFHEIGBL")>>
  ELSE IF kind = "rsect" THEN <<CicsAdded("DFHEIGBL RS")>>
  ELSE <<>>
CicsEnd == If(options.epilog, "DFHEIRET") \o If(options.prolog, "DFHEIEND")
FlagsOf(kind, f) ==
  CASE kind \in {"dsect", "dfhe"} -> [f EXCEPT !.global = TRUE]
    [] kind = "stg" -> [f EXCEPT !.global = TRUE, !.stg = options.prolog]
    [] kind \in {"start", "rsect"} -> [f EXCEPT !.global = TRUE, !.prolog = options.prolog]
    [] kind = "end" -> [f EXCEPT !.end = TRUE]
    [] OTHER -> f
(* A DSECT, DFHEIENT or DFHEISTG goes on to the tests that follow.         *)
OfInterest(kind) == kind \in {"start", "rsect", "stg", "end"}

CicsInit ==
  /\ cicsDoc \in UNION {[1 .. n -> CicsLines] : n \in 0 .. CicsMaxLine}
  /\ pos = 1 /\ skip = FALSE /\ allowed = TRUE
  /\ options \in Options
  /\ flags = [end |-> FALSE, global |-> FALSE, prolog |-> FALSE, stg |-> FALSE, null |-> FALSE]
  /\ cicsOut = <<>> /\ cicsDiags = {} /\ cicsOver = FALSE
CicsContinues(i) == cicsDoc[i].cont

CicsReading == ~cicsOver /\ pos <= Len(cicsDoc)

(* A line that continues one that was copied.                              *)
CicsSkip ==
  /\ CicsReading /\ skip
  /\ cicsOut' = Append(cicsOut, CicsGiven(pos))
  /\ skip' = CicsContinues(pos)
  /\ pos' = pos + 1
  /\ UNCHANGED <<cicsDoc, allowed, options, flags, cicsDiags, cicsOver>>

(* The lines *PROCESS and *ASM XOPTS before any other, never continued.    *)
Directive ==
  /\ CicsReading /\ ~skip /\ allowed
  /\ LET k == cicsDoc[pos].kind IN
     /\ k \in Special
     /\ cicsOut' = cicsOut \o Pending(pos) \o <<CicsGiven(pos)>>
     /\ options' = CASE k = "noprolog" -> [options EXCEPT !.prolog = FALSE]
                     [] k = "noepilog" -> [options EXCEPT !.epilog = FALSE]
                     [] OTHER -> options
     /\ cicsDiags' = cicsDiags \cup (IF k # "process" /\ cicsDoc[pos].cont THEN {Diag("CIC001", pos)} ELSE {})
  /\ pos' = pos + 1
  /\ flags' = NothingPending(flags)
  /\ UNCHANGED <<cicsDoc, skip, allowed, cicsOver>>

Ordinary == CicsReading /\ ~skip /\ ~(allowed /\ cicsDoc[pos].kind \in Special)

(* Comments, which a later directive is, and statements of interest.       *)
CicsCopy ==
  /\ Ordinary
  /\ LET k == cicsDoc[pos].kind IN
     /\ k \in Special \cup {"comment"} \/ OfInterest(k)
     /\ cicsOut' = cicsOut \o Pending(pos) \o Start(k) \o (IF k = "end" THEN CicsEnd ELSE <<>>) \o <<CicsGiven(pos)>>
     /\ flags' = FlagsOf(k, NothingPending(flags))
  /\ pos' = pos + 1
  /\ skip' = CicsContinues(pos)
  /\ allowed' = FALSE
  /\ UNCHANGED <<cicsDoc, options, cicsDiags, cicsOver>>

(* try_exec_cics: a command that is continued badly keeps its first line,  *)
(* and its word may be on the next line otherwise.                         *)
Exec ==
  /\ Ordinary
  /\ cicsDoc[pos].kind \in {"exec", "exec0"}
  /\ LET broken == CicsBroken(pos, ExecColumns)
         last == IF broken THEN pos ELSE CicsLastOf(pos)
         command == cicsDoc[pos].kind = "exec" \/ last > pos
         text == IF command
                 THEN CicsEchoed(pos, last) \o <<CicsAdded("DFHECALL")>> \o If(broken, "DFH7080I")
                 ELSE <<CicsAdded("DFH7237I")>>
     IN /\ cicsOut' = cicsOut \o Pending(pos) \o text
        /\ cicsDiags' = cicsDiags \cup (IF ~command THEN {Diag("CIC003", pos)}
                                        ELSE IF broken THEN {Diag("CIC001", pos)} ELSE {})
  /\ pos' = CicsLastOf(pos) + 1
  /\ flags' = NothingPending(flags)
  /\ allowed' = FALSE
  /\ UNCHANGED <<cicsDoc, skip, options, cicsOver>>
Backup(i) == i

Other == Ordinary /\ cicsDoc[pos].kind \in {"plain", "dsect", "dfhe"}

(* try_dfh_lookup: the statement with its arguments replaced.              *)
CicsSubstitute ==
  /\ Other
  /\ ~CicsBroken(pos, StatementColumns) /\ Has(pos, "dfh") /\ ~Has(pos, "null")
  /\ cicsOut' = cicsOut \o Pending(pos) \o Start(cicsDoc[pos].kind) \o CicsEchoed(Backup(pos), CicsLastOf(pos))
                        \o <<CicsAdded("substituted")>>
  /\ pos' = CicsLastOf(pos) + 1
  /\ flags' = FlagsOf(cicsDoc[pos].kind, NothingPending(flags))
  /\ allowed' = FALSE
  /\ UNCHANGED <<cicsDoc, skip, options, cicsDiags, cicsOver>>

(* Any other statement; an argument that is null is reported after it.     *)
CicsPlain ==
  /\ Other
  /\ LET broken == CicsBroken(pos, StatementColumns)
         null == ~broken /\ Has(pos, "null")
         f == FlagsOf(cicsDoc[pos].kind, NothingPending(flags))
     IN /\ broken \/ null \/ ~Has(pos, "dfh")
        /\ cicsDiags' = cicsDiags \cup (IF broken THEN {Diag("CIC001", pos)} ELSE {})
                                  \cup (IF null THEN {Diag("CIC002", pos)} ELSE {})
        /\ flags' = [f EXCEPT !.null = null]
        /\ cicsOut' = cicsOut \o Pending(pos) \o Start(cicsDoc[pos].kind) \o <<CicsGiven(Backup(pos))>>
        /\ skip' = CicsContinues(Backup(pos))
        /\ pos' = Backup(pos) + 1
  /\ allowed' = FALSE
  /\ UNCHANGED <<cicsDoc, options, cicsOver>>

CicsFinish ==
  /\ ~cicsOver /\ pos > Len(cicsDoc)
  /\ cicsOut' = cicsOut \o PendingAdded(flags) \o If(~flags.end /\ ~allowed, "DFH7041I")
  /\ flags' = [NothingPending(flags) EXCEPT !.end = TRUE]
  /\ cicsOver' = TRUE
  /\ UNCHANGED <<cicsDoc, pos, skip, allowed, options, cicsDiags>>

CicsNext == CicsSkip \/ Directive \/ CicsCopy \/ Exec \/ CicsSubstitute \/ CicsPlain \/ CicsFinish

-----------------------------------------------------------------------------
(* Where a statement starts, from the lines alone.                         *)
RECURSIVE Starts(_, _)
Starts(i, free) ==   \* free: only directives before i
  IF i > Len(cicsDoc) THEN {}
  ELSE LET directive == free /\ cicsDoc[i].kind \in Special IN
       {i} \cup Starts(IF directive THEN i + 1 ELSE CicsLastOf(i) + 1, directive)
Statements == Starts(1, TRUE)
Directives == {i \in 1 .. Len(cicsDoc) : \A j \in 1 .. i : cicsDoc[j].kind \in Special}

Shown == SelectSeq(cicsOut, LAMBDA e : e[1] \in {"line", "echo"})
CicsIs(what) == {p \in DOMAIN cicsOut : cicsOut[p][1] \in what}
Globals == {"DFHEIGBL", "DFHEIGBL RS"}

(* The lines read so far are in the output once each and in their order;   *)
(* only those of a command that was refused, or of its bad continuation,   *)
(* are not (generate_replacement goes back to it_backup after each try).   *)
LinesKept ==
  LET kept == {Shown[n][2] : n \in DOMAIN Shown} IN
  /\ \A n \in 1 .. Len(Shown) - 1 : Shown[n][2] < Shown[n + 1][2]
  /\ \A i \in 1 .. pos - 1 : i \notin kept =>
       \E s \in Statements : /\ s <= i /\ i <= CicsLastOf(s)
                             /\ \E code \in {"CIC001", "CIC003"} : Diag(code, s) \in cicsDiags
                             /\ cicsDoc[s].kind \in {"exec", "exec0"}

(* Nothing is added between a line and the line that continues it.         *)
CicsContinuationsKept ==
  \A p \in 1 .. Len(cicsOut) - 1 :
    LET i == cicsOut[p][2] IN
    cicsOut[p][1] = "line" /\ cicsDoc[i].cont /\ i \notin Directives /\ i < Len(cicsDoc)
      => cicsOut[p + 1] = CicsGiven(i + 1)

(* A section comes after DFHEIGBL, which is called once, but for an RSECT, *)
(* which always calls it (process_asm_statement, m_global_macro_called).   *)
GlobalComesFirst ==
  /\ \A p \in CicsIs({"line", "echo"}) :
       cicsOut[p][2] \in Statements /\ cicsDoc[cicsOut[p][2]].kind \in Sections
         => \E q \in CicsIs(Globals) : q < p
  /\ \A p \in CicsIs({"DFHEIGBL"}) : ~\E q \in CicsIs(Globals) : q < p

(* What follows a statement is right behind its last line: the prolog of a *)
(* section, the storage of DFHEISTG and the message about its argument.    *)
AfterStatement ==
  cicsOver => \A s \in Statements \ Directives :
    LET last == CHOOSE p \in 0 .. Len(cicsOut) :
                  \/ p = 0 /\ \A q \in DOMAIN cicsOut : cicsOut[q] # CicsGiven(CicsLastOf(s))
                  \/ p > 0 /\ cicsOut[p] = CicsGiven(CicsLastOf(s))
        follows(what) == last < Len(cicsOut) /\ cicsOut[last + 1] = CicsAdded(what)
    IN last > 0 =>
         /\ follows("DFHEIENT") <=> cicsDoc[s].kind \in {"start", "rsect"} /\ options.prolog
         /\ follows("DFHEISTG") <=> cicsDoc[s].kind = "stg" /\ options.prolog
         /\ follows("DFH7218I") <=> Diag("CIC002", s) \in cicsDiags

(* The return code speaks of a missing END just when no statement is END,  *)
(* and the code of the end is added before every END.                      *)
EndIsFound ==
  cicsOver =>
    LET ends == {s \in Statements : cicsDoc[s].kind = "end"} IN
    /\ CicsIs({"DFH7041I"}) # {} <=> ends = {} /\ Statements \ Directives # {}
    /\ options.epilog => Cardinality(CicsIs({"DFHEIRET"})) = Cardinality(ends)

-----------------------------------------------------------------------------
(***************************************************************************)
(* The operands of a statement as the CICS translator reads them, from     *)
(* left to right (mini_parser::parse_and_substitute of                     *)
(* cics_preprocessor.cpp): DFHRESP and DFHVALUE are replaced where a term  *)
(* begins. A symbol of the text is a character, or a whole DFHRESP or      *)
(* DFHVALUE with the argument it has: Known with one of the tables, Null   *)
(* with none. A step reads a symbol, a string, or the rest of a line.      *)
(***************************************************************************)
CONSTANT ExecMaxText  \* bound: symbols of the text

Known == "DFHRESP(NORMAL)"
Null == "DFHRESP()"
Normal == {"L", "x", Known, Null}
Chars == Normal \cup {"'", ",", " ", "+"}

OperandsAssumption == ExecMaxText \in Nat

VARIABLES
  execText,   \* the symbols
  lines,      \* how many of them the first line has
  b,          \* the symbol being looked at
  execLast,   \* next_last_attribute
  new,        \* next_new_token
  execOut,    \* m_substituted_operands: positions of symbols, and what is replaced
  execResult  \* "reading", "done" or "null"

-----------------------------------------------------------------------------
Length == Len(execText)
SameLine(i, j) == i <= lines <=> j <= lines
ExecIs(i, c) == i <= Length /\ execText[i] = c
Keep(i) == <<"kept", i>>
Replace(i) == <<"replaced", i>>
ExecReading == execResult = "reading" /\ b <= Length

ExecInit ==
  /\ execText \in UNION {[1 .. n -> Chars] : n \in 0 .. ExecMaxText}
  /\ lines \in 1 .. ExecMaxText /\ lines <= Len(execText) + 1
  /\ b = 1 /\ execLast = FALSE /\ new = TRUE
  /\ execOut = <<>> /\ execResult = "reading"

(* A symbol that is copied; DFHRESP that is not replaced ends in a bracket.*)
Copies(token) ==
  /\ execOut' = Append(execOut, Keep(b))
  /\ b' = b + 1
  /\ execLast' = FALSE /\ new' = token
  /\ UNCHANGED <<execText, lines, execResult>>
Attribute == TRUE

AtAttribute == new /\ execText[b] = "L" /\ ExecIs(b + 1, "'")
Symbol ==
  /\ ExecReading
  /\ execText[b] \in Normal
  /\ ~AtAttribute
  /\ ~(new /\ ~execLast /\ execText[b] \in {Known, Null})
  /\ Copies(execText[b] \in {Known, Null})

Reference ==
  /\ ExecReading /\ AtAttribute
  /\ execOut' = execOut \o <<Keep(b), Keep(b + 1)>>
  /\ b' = b + 2
  /\ execLast' = Attribute /\ new' = TRUE
  /\ UNCHANGED <<execText, lines, execResult>>

ExecSubstitute ==
  /\ ExecReading /\ new /\ ~execLast /\ execText[b] = Known
  /\ execOut' = Append(execOut, Replace(b))
  /\ b' = b + 1
  /\ execLast' = FALSE /\ new' = FALSE
  /\ UNCHANGED <<execText, lines, execResult>>

Refuse ==
  /\ ExecReading /\ new /\ ~execLast /\ execText[b] = Null
  /\ execResult' = "null"
  /\ UNCHANGED <<execText, lines, b, execLast, new, execOut>>

Operator ==
  /\ ExecReading /\ execText[b] = "+"
  /\ Copies(TRUE)

(* A string to its end, or to the end of the text. Two apostrophes are two *)
(* strings.                                                                *)
Closing == {j \in b + 1 .. Length : execText[j] = "'"}
StringEnd ==
  IF Closing # {} THEN CHOOSE j \in Closing : \A k \in Closing : j <= k ELSE Length
String ==
  /\ ExecReading /\ execText[b] = "'"
  /\ execOut' = execOut \o [n \in 1 .. (StringEnd + 1) - b |-> Keep((b + n) - 1)]
  /\ b' = StringEnd + 1
  /\ execLast' = FALSE /\ new' = TRUE
  /\ UNCHANGED <<execText, lines, execResult>>
AfterRemark == IF SameLine(b, Length) THEN Length + 1 ELSE lines + 1
Comma ==
  /\ ExecReading /\ execText[b] = "," /\ ~ExecIs(b + 1, " ")
  /\ Copies(TRUE)
NextLine ==
  /\ ExecReading /\ execText[b] = "," /\ ExecIs(b + 1, " ")
  /\ execOut' = Append(execOut, Keep(b))
  /\ b' = AfterRemark
  /\ execLast' = FALSE /\ new' = TRUE
  /\ UNCHANGED <<execText, lines, execResult>>

Blank ==
  /\ ExecReading /\ execText[b] = " "
  /\ execResult' = "done"
  /\ UNCHANGED <<execText, lines, b, execLast, new, execOut>>

ExecEnd ==
  /\ execResult = "reading" /\ b > Length
  /\ execResult' = "done"
  /\ UNCHANGED <<execText, lines, b, execLast, new, execOut>>

ExecNext == Symbol \/ Reference \/ ExecSubstitute \/ Refuse \/ Operator \/ String \/ Comma
            \/ NextLine \/ Blank \/ ExecEnd

-----------------------------------------------------------------------------
(* The meaning of an apostrophe, from the text alone: that of L' at the    *)
(* start of a term opens no string, any other opens or closes one.         *)
Read == {execOut[n][2] : n \in DOMAIN execOut}
InString[i \in 0 .. Length] ==
  IF i = 0 THEN FALSE
  ELSE IF execText[i] # "'" THEN InString[i - 1]
  ELSE ~InString[i - 1]
       /\ ~(i > 1 /\ execText[i - 1] = "L" /\ (i = 2 \/ execText[i - 2] \in {"+", ",", "'"}))
Attributes == {i \in 1 .. Length : execText[i] = "'" /\ ~InString[i] /\ ~InString[i - 1]}
Begins(i) == /\ ~InString[i] /\ i - 1 \notin Attributes
             /\ i = 1 \/ execText[i - 1] \in {"+", ",", "'"}
(* Texts of one line of operands, with an operator behind each argument.   *)
Simple ==
  \A i \in 1 .. Length - 1 :
    /\ execText[i] = "," => execText[i + 1] # " "
    /\ execText[i] \in {Known, Null} => execText[i + 1] \notin Normal

(* Nothing of the operands is lost or repeated: what was read is in the    *)
(* result in order, and a gap is the rest of a line after a comma.         *)
OperandsKept ==
  \A n \in 1 .. Len(execOut) - 1 :
    LET i == execOut[n][2]
        j == execOut[n + 1][2]
    IN j = i + 1 \/ (execText[i] = "," /\ execText[i + 1] = " " /\ i <= lines /\ j = lines + 1)

(* DFHRESP is replaced just where a term of the operands begins: behind    *)
(* nothing, an operator, a comma or a string, but never inside a string or *)
(* behind L', whatever precedes it.                                        *)
TermsReplaced ==
  Simple => \A n \in DOMAIN execOut :
    LET i == execOut[n][2] IN
    /\ execOut[n][1] = "replaced" => execText[i] = Known /\ ~InString[i] /\ i - 1 \notin Attributes
    /\ execText[i] = Known /\ Begins(i) => execOut[n][1] = "replaced"

(* A statement is refused for the first term that has no argument, unless  *)
(* its operands end before.                                                *)
NullRefused ==
  Simple =>
    /\ execResult = "null" => execText[b] = Null /\ ~InString[b] /\ b - 1 \notin Attributes
    /\ \A i \in Read : execText[i] = Null => ~Begins(i)

-----------------------------------------------------------------------------
(***************************************************************************)
(* The DB2 precompiler (db2_preprocessor.cpp): EXEC SQL statements become  *)
(* comments followed by the code of a call, SQL TYPE becomes definitions,  *)
(* the working storage precedes END, and EXEC SQL INCLUDE brings a member  *)
(* of the libraries, which goes through the same loop with includes        *)
(* refused. An iteration of generate_replacement is a step, and so is the  *)
(* return from a member.                                                   *)
(*                                                                         *)
(* A line is its kind, the member it includes, whether it is continued and *)
(* whether its first 15 columns are blank. Text that is added is one entry *)
(* of the output, whatever lines it has.                                   *)
(***************************************************************************)
CONSTANTS
  DbLines,    \* the lines files are made of
  DbMaxLine,  \* bound: lines of the file
  Members,    \* the texts of the members of the libraries, a set of functions
  DbFound     \* members a library has, of those the lines include

DbKinds == {"process", "comment", "plain", "end", "sql", "declare", "include", "type", "badtype"}
DbNothing == ""
BuiltIn == "SQLCA"

Db2Assumption ==
  /\ \A l \in DbLines : l.kind \in DbKinds /\ {l.cont, l.blank} \subseteq BOOLEAN
  /\ \A ms \in Members : DOMAIN ms = DbFound
  /\ BuiltIn \notin DbFound /\ DbNothing \notin DbFound
  /\ DbMaxLine \in Nat

DbMain == "main"

VARIABLES
  dbDoc,         \* the text of the file and of its members
  conditional,   \* m_conditional
  nest,          \* the calls of the loop: the file, it and skip_continuation of each
  translated,    \* m_source_translated
  dbOut,         \* m_result
  dbDiags,       \* the diagnostics added
  dbStatements,  \* m_statements: line and whether it includes a member
  dbMembers,     \* m_inc_members
  dbResult       \* the document returned, once it is

-----------------------------------------------------------------------------
DbGiven(f, i) == <<"line", f, i>>
DbEcho(f, i) == <<"echo", f, i>>
DbAdded(what) == <<what, DbNothing, 0>>
Call(f) == [file |-> f, at |-> 1, skip |-> FALSE]
NotYet == <<>>
Original == <<"the document given">>

Here == Last(nest)
Text == dbDoc[Here.file]
Stmt == Text[Here.at]
DbLastOf(text, i) == CHOOSE j \in i .. Len(text) :
                       /\ \A n \in i .. j - 1 : text[n].cont
                       /\ ~text[j].cont \/ j = Len(text)
StatementEnd == DbLastOf(Text, Here.at)
(* continuation_error of the line read by reinit.                          *)
DbBroken == \E j \in Here.at + 1 .. StatementEnd : ~Text[j].blank

At(i, skipping) == [nest EXCEPT ![Len(nest)].at = i, ![Len(nest)].skip = skipping]

(* process_regular_line: every line of the statement as a comment.         *)
(* Defect: only the first one.                                             *)
EchoedFirst(last) == <<DbEcho(Here.file, Here.at)>>
DbEchoed(last) == [n \in 1 .. (last + 1) - Here.at |-> DbEcho(Here.file, (Here.at + n) - 1)]
IncludeAllowed(m) == Len(nest) = 1

-----------------------------------------------------------------------------
(* skip_process: *PROCESS lines, continued or not, then the macro SQLSECT. *)
Processes(text) ==
  CHOOSE n \in 0 .. Len(text) : /\ \A i \in 1 .. n : text[i].kind = "process"
                                /\ n = Len(text) \/ text[n + 1].kind # "process"
DbInit ==
  /\ \E text \in UNION {[1 .. n -> DbLines] : n \in 0 .. DbMaxLine}, ms \in Members :
       /\ dbDoc = [f \in DbFound \cup {DbMain} |-> IF f = DbMain THEN text ELSE ms[f]]
       /\ dbOut = [i \in 1 .. Processes(text) |-> DbGiven(DbMain, i)] \o <<DbAdded("SQLSECT")>>
       /\ nest = <<[Call(DbMain) EXCEPT !.at = Processes(text) + 1]>>
  /\ conditional \in BOOLEAN
  /\ translated = FALSE
  /\ dbDiags = <<>> /\ dbStatements = <<>> /\ dbMembers = <<>>
  /\ dbResult = NotYet

DbReading == dbResult = NotYet /\ Here.at <= Len(Text)
Diagnosed(codes) == [n \in DOMAIN codes |-> <<codes[n], Here.file, Here.at>>]
Registered(includes) ==
  IF Here.file = DbMain THEN Append(dbStatements, <<Here.at, includes>>) ELSE dbStatements
DbContinues == Stmt.cont

DbSkip ==
  /\ DbReading /\ Here.skip
  /\ dbOut' = Append(dbOut, DbGiven(Here.file, Here.at))
  /\ nest' = At(Here.at + 1, DbContinues)
  /\ UNCHANGED <<dbDoc, conditional, translated, dbDiags, dbStatements, dbMembers, dbResult>>
Storage == IF Stmt.kind = "end" THEN <<DbAdded("storage")>> ELSE <<>>
DbCopy ==
  /\ DbReading /\ ~Here.skip
  /\ Stmt.kind \in {"process", "comment", "plain", "end"}
  /\ dbOut' = dbOut \o Storage \o <<DbGiven(Here.file, Here.at)>>
  /\ nest' = At(Here.at + 1, DbContinues)
  /\ UNCHANGED <<dbDoc, conditional, translated, dbDiags, dbStatements, dbMembers, dbResult>>

Translating(kinds) == DbReading /\ ~Here.skip /\ Stmt.kind \in kinds /\ translated' = TRUE
Continuation == IF DbBroken THEN <<"DB001">> ELSE <<>>

Sql ==
  /\ Translating({"sql", "declare"})
  /\ dbOut' = dbOut \o DbEchoed(StatementEnd) \o (IF Stmt.kind = "sql" THEN <<DbAdded("code")>> ELSE <<>>)
  /\ dbDiags' = dbDiags \o Diagnosed(Continuation)
  /\ dbStatements' = Registered(FALSE)
  /\ nest' = At(StatementEnd + 1, FALSE)
  /\ UNCHANGED <<dbDoc, conditional, dbMembers, dbResult>>

(* process_sql_type_line: the first line, and the definitions if its       *)
(* operands are understood.                                                *)
Type ==
  /\ Translating({"type", "badtype"})
  /\ dbOut' = dbOut \o <<DbEcho(Here.file, Here.at)>>
                    \o (IF Stmt.kind = "type" THEN <<DbAdded("definitions")>> ELSE <<>>)
  /\ dbDiags' = dbDiags \o Diagnosed(Continuation
                                     \o (IF StatementEnd > Here.at THEN <<"DB005">> ELSE <<>>)
                                     \o (IF Stmt.kind = "badtype" THEN <<"DB004 or DB006">> ELSE <<>>))
  /\ dbStatements' = Registered(FALSE)
  /\ nest' = At(StatementEnd + 1, FALSE)
  /\ UNCHANGED <<dbDoc, conditional, dbMembers, dbResult>>

(* EXEC SQL INCLUDE that brings no member: none is named, includes are not *)
(* allowed here, or process_include_member adds SQLCA or finds none.       *)
IncludeNothing ==
  /\ Translating({"include"})
  /\ \/ Stmt.member \notin DbFound
     \/ ~IncludeAllowed(Stmt.member)
  /\ LET nested == ~IncludeAllowed(Stmt.member)
         code == CASE Stmt.member = DbNothing -> <<"DB007">>
                   [] Stmt.member # DbNothing /\ nested -> <<"DB003">>
                   [] Stmt.member = BuiltIn /\ ~nested -> <<>>
                   [] OTHER -> <<"DB002">>
     IN /\ dbDiags' = dbDiags \o Diagnosed(Continuation \o code)
        /\ dbOut' = dbOut \o DbEchoed(StatementEnd) \o (IF code = <<>> THEN <<DbAdded("SQLCA")>> ELSE <<>>)
  /\ dbStatements' = Registered(FALSE)
  /\ nest' = At(StatementEnd + 1, FALSE)
  /\ UNCHANGED <<dbDoc, conditional, dbMembers, dbResult>>

(* The member found goes through the loop before the statement ends.       *)
Include ==
  /\ Translating({"include"})
  /\ Stmt.member \in DbFound /\ IncludeAllowed(Stmt.member)
  /\ dbOut' = dbOut \o DbEchoed(StatementEnd)
  /\ dbDiags' = dbDiags \o Diagnosed(Continuation)
  /\ nest' = Append(nest, Call(Stmt.member))
  /\ UNCHANGED <<dbDoc, conditional, dbStatements, dbMembers, dbResult>>

Return ==
  /\ dbResult = NotYet
  /\ Here.at > Len(Text) /\ Len(nest) > 1
  /\ LET caller == nest[Len(nest) - 1]
         text == dbDoc[caller.file]
     IN /\ dbMembers' = Append(dbMembers, Here.file)
        /\ dbStatements' = IF caller.file = DbMain THEN Append(dbStatements, <<caller.at, TRUE>>) ELSE dbStatements
        /\ nest' = [Front(nest) EXCEPT ![Len(nest) - 1].at = DbLastOf(text, caller.at) + 1]
  /\ UNCHANGED <<dbDoc, conditional, translated, dbOut, dbDiags, dbResult>>
Result == IF translated \/ ~conditional THEN dbOut ELSE Original
DbFinish ==
  /\ dbResult = NotYet
  /\ Here.at > Len(Text) /\ Len(nest) = 1
  /\ dbResult' = Result
  /\ UNCHANGED <<dbDoc, conditional, nest, translated, dbOut, dbDiags, dbStatements, dbMembers>>

DbNext == DbSkip \/ DbCopy \/ Sql \/ Type \/ IncludeNothing \/ Include \/ Return \/ DbFinish

-----------------------------------------------------------------------------
(* The statements of a text, from its lines alone; lines before p are      *)
(* *PROCESS lines.                                                         *)
RECURSIVE StartsFrom(_, _)
StartsFrom(text, i) == IF i > Len(text) THEN {} ELSE {i} \cup StartsFrom(text, DbLastOf(text, i) + 1)
StartsOf(f) == StartsFrom(dbDoc[f], IF f = DbMain THEN Processes(dbDoc[f]) + 1 ELSE 1)

(* The lines of a file in the order in which they should be read, with     *)
(* those of the members its statements bring.                              *)
RECURSIVE Flat(_, _)
Flat(f, i) ==
  LET text == dbDoc[f] IN
  IF i > Len(text) THEN <<>>
  ELSE LET directive == f = DbMain /\ i <= Processes(text)
           last == IF directive THEN i ELSE DbLastOf(text, i)
           shown == IF text[i].kind \in {"type", "badtype"} THEN i ELSE last
           whole == [n \in 1 .. (shown + 1) - i |-> <<f, (i + n) - 1>>]
           brought == IF text[i].kind = "include" /\ text[i].member \in DbFound /\ f = DbMain
                      THEN Flat(text[i].member, 1) ELSE <<>>
       IN whole \o brought \o Flat(f, last + 1)

ShownOf(o) == LET kept == SelectSeq(o, LAMBDA e : e[1] \in {"line", "echo"})
              IN [n \in DOMAIN kept |-> <<kept[n][2], kept[n][3]>>]

(* The lines of the file are in the output once each and in order, those   *)
(* of a member right after the statement that includes it, and members of  *)
(* members are not brought. A SQL TYPE keeps its first line only.          *)
LinesInOrder ==
  /\ IsPrefix(ShownOf(dbOut), Flat(DbMain, 1))
  /\ dbResult # NotYet => ShownOf(dbOut) = Flat(DbMain, 1)

(* The working storage comes before each END that starts a statement, and  *)
(* nowhere else (check_line).                                              *)
StorageBeforeEnd ==
  \A p \in DOMAIN dbOut :
    (dbOut[p] = DbAdded("storage") /\ p < Len(dbOut)) \/ (p > 1 /\ dbOut[p][1] = "line")
      => LET q == IF dbOut[p][1] = "line" THEN p ELSE p + 1
             f == dbOut[q][2]
             i == dbOut[q][3]
         IN dbOut[q - 1] = DbAdded("storage") <=> i \in StartsOf(f) /\ dbDoc[f][i].kind = "end"

(* Whatever is inserted, a line that is copied is followed by the lines    *)
(* that continue it.                                                       *)
DbContinuationsKept ==
  \A p \in 1 .. Len(dbOut) - 1 :
    LET f == dbOut[p][2]
        i == dbOut[p][3]
    IN dbOut[p][1] = "line" /\ i < Len(dbDoc[f]) /\ dbDoc[f][i].cont /\ ~(f = DbMain /\ i <= Processes(dbDoc[f]))
         => dbOut[p + 1] = DbGiven(f, i + 1)

(* The statements of the file that were translated are registered once, in *)
(* order, and those that brought a member name it in the same order.       *)
StatementsRegistered ==
  dbResult # NotYet =>
    LET sql == {i \in StartsOf(DbMain) : dbDoc[DbMain][i].kind \in {"sql", "declare", "include", "type", "badtype"}}
        including == SelectSeq(dbStatements, LAMBDA s : s[2])
    IN /\ {dbStatements[n][1] : n \in DOMAIN dbStatements} = sql
       /\ \A n \in 1 .. Len(dbStatements) - 1 : dbStatements[n][1] < dbStatements[n + 1][1]
       /\ [n \in DOMAIN including |-> dbDoc[DbMain][including[n][1]].member] = dbMembers

(* A conditional precompiler changes nothing in a file without SQL.        *)
UntouchedWithoutSql ==
  dbResult # NotYet /\ conditional =>
    (dbResult = Original <=> ~\E i \in StartsOf(DbMain) :
                                dbDoc[DbMain][i].kind \in {"sql", "declare", "include", "type", "badtype"})

-----------------------------------------------------------------------------
(***************************************************************************)
(* The Endevor preprocessor (endevor_preprocessor.cpp) replaces the lines  *)
(* -INC and ++INCLUDE by members of the libraries, whose own lines of that *)
(* kind are replaced too. The files it is inside of are on a stack; a line *)
(* read, or the return from a file, is a step. A line is the member that   *)
(* it includes, or Plain; a member is asked for once the line is read, and *)
(* the line is finished once the library answered.                         *)
(***************************************************************************)
CONSTANTS
  Member,          \* names of members
  EndevorMaxLine,  \* bound: lines of the file
  EndevorMaxText   \* bound: lines of a member

EndevorMain == "main"
EndevorPlain == "plain"

EndevorAssumption ==
  {EndevorMain, EndevorPlain} \cap Member = {} /\ EndevorMaxLine \in Nat /\ EndevorMaxText \in Nat

Texts(n) == UNION {[1 .. k -> Member \cup {EndevorPlain}] : k \in 0 .. n}

VARIABLES
  endevorDoc,         \* the lines of the file and of the members there are
  stack,              \* the files: name and current of each
  endevorOut,         \* the lines of the result: file and line of each
  endevorDiags,       \* the diagnostics added: code and line of the file
  endevorStatements,  \* m_statements: the lines of the file
  endevorMembers,     \* m_inc_members
  asked,              \* the member the library is asked for, or Plain
  endevorOver         \* the document was returned

-----------------------------------------------------------------------------
File(f) == [name |-> f, current |-> 1]
Top == Last(stack)
TextOf(f) == endevorDoc[f]
AtEnd == Top.current > Len(TextOf(Top.name))
Advanced == [stack EXCEPT ![Len(stack)].current = @ + 1]
LineOfFile(s) == s[1].current - 1
IsRead(m) == \E n \in DOMAIN stack : stack[n].name = m

EndevorFound(m) == m \in DOMAIN endevorDoc

Includes(text) == \E i \in DOMAIN text : text[i] # EndevorPlain

EndevorInit ==
  /\ \E present \in SUBSET Member, text \in Texts(EndevorMaxLine) :
       \E ms \in [present -> Texts(EndevorMaxText)] :
         endevorDoc = [f \in present \cup {EndevorMain} |-> IF f = EndevorMain THEN text ELSE ms[f]]
  /\ stack = <<File(EndevorMain)>>
  /\ endevorOut = <<>> /\ endevorDiags = <<>> /\ endevorStatements = <<>> /\ endevorMembers = <<>>
  /\ asked = EndevorPlain
  /\ endevorOver = FALSE

EndevorReading == ~endevorOver /\ stack # <<>> /\ asked = EndevorPlain

(* The document is returned as it is when no line of it includes.          *)
EndevorNothing ==
  /\ EndevorReading /\ stack = <<File(EndevorMain)>> /\ endevorOut = <<>>
  /\ ~Includes(endevorDoc[EndevorMain])
  /\ endevorOut' = [i \in DOMAIN endevorDoc[EndevorMain] |-> <<EndevorMain, i>>]
  /\ endevorOver' = TRUE
  /\ UNCHANGED <<endevorDoc, stack, endevorDiags, endevorStatements, endevorMembers, asked>>

Working == EndevorReading /\ Includes(endevorDoc[EndevorMain])

Pop ==
  /\ Working /\ AtEnd
  /\ stack' = Front(stack)
  /\ endevorOver' = (Len(stack) = 1)
  /\ UNCHANGED <<endevorDoc, endevorOut, endevorDiags, endevorStatements, endevorMembers, asked>>

EndevorCopy ==
  /\ Working /\ ~AtEnd
  /\ TextOf(Top.name)[Top.current] = EndevorPlain
  /\ endevorOut' = Append(endevorOut, <<Top.name, Top.current>>)
  /\ stack' = Advanced
  /\ UNCHANGED <<endevorDoc, endevorDiags, endevorStatements, endevorMembers, asked, endevorOver>>

(* An include of a file being read ends the document.                      *)
Recursion ==
  /\ Working /\ ~AtEnd
  /\ LET m == TextOf(Top.name)[Top.current] IN
     /\ m # EndevorPlain /\ IsRead(m)
     /\ endevorDiags' = Append(endevorDiags, <<"END002", LineOfFile(Advanced)>>)
  /\ stack' = Advanced
  /\ endevorOver' = TRUE
  /\ UNCHANGED <<endevorDoc, endevorOut, endevorStatements, endevorMembers, asked>>

Ask ==
  /\ Working /\ ~AtEnd
  /\ LET m == TextOf(Top.name)[Top.current] IN
     /\ m # EndevorPlain /\ ~IsRead(m)
     /\ asked' = m
  /\ stack' = Advanced
  /\ UNCHANGED <<endevorDoc, endevorOut, endevorDiags, endevorStatements, endevorMembers, endevorOver>>

(* The library answers, and the line ends as a statement of its file.      *)
Answer ==
  /\ ~endevorOver /\ asked # EndevorPlain
  /\ IF EndevorFound(asked)
     THEN /\ stack' = Append(stack, File(asked))
          /\ endevorMembers' = Append(endevorMembers, asked)
          /\ UNCHANGED endevorDiags
     ELSE /\ endevorDiags' = Append(endevorDiags, <<"END001", LineOfFile(stack)>>)
          /\ UNCHANGED <<stack, endevorMembers>>
  /\ endevorStatements' = IF Top.name = EndevorMain THEN Append(endevorStatements, Top.current - 1) ELSE endevorStatements
  /\ asked' = EndevorPlain
  /\ UNCHANGED <<endevorDoc, endevorOut, endevorOver>>

EndevorNext == EndevorNothing \/ Pop \/ EndevorCopy \/ Recursion \/ Ask \/ Answer

-----------------------------------------------------------------------------
(* What the file stands for: the lines of all the files, in the order they *)
(* are read, with a Stop where a file would include itself.                *)
Stop == <<"stop", 0>>
RECURSIVE Expansion(_, _, _)
Expansion(f, i, inside) ==
  IF i > Len(endevorDoc[f]) THEN <<>>
  ELSE LET m == endevorDoc[f][i]
           here == IF m = EndevorPlain THEN <<<<f, i>>>>
                   ELSE IF m \in inside THEN <<Stop>>
                   ELSE IF m \in DOMAIN endevorDoc THEN Expansion(m, 1, inside \cup {m})
                   ELSE <<>>
       IN here \o Expansion(f, i + 1, inside)
Meaning == Expansion(EndevorMain, 1, {EndevorMain})
IsRecursive == \E n \in DOMAIN Meaning : Meaning[n] = Stop
Until == IF IsRecursive
         THEN (CHOOSE n \in DOMAIN Meaning : /\ Meaning[n] = Stop
                                             /\ \A k \in 1 .. n - 1 : Meaning[k] # Stop) - 1
         ELSE Len(Meaning)

(* No file is inside itself, so the stack is bounded by the members.       *)
StackIsFinite == \A n, k \in DOMAIN stack : stack[n].name = stack[k].name => n = k

(* The result is what the file stands for, as far as the first include of  *)
(* a file in itself; a recursion is always reported, and only once.        *)
ResultIsExpansion ==
  /\ IsPrefix(endevorOut, SubSeq(Meaning, 1, Until))
  /\ endevorOver => /\ endevorOut = SubSeq(Meaning, 1, Until)
                    /\ IsRecursive <=> \E n \in DOMAIN endevorDiags : endevorDiags[n][1] = "END002"

(* Diagnostics are at lines of the file that include something, in order,  *)
(* whatever the depth of the member that causes them.                      *)
DiagnosticsInFile ==
  /\ \A n \in DOMAIN endevorDiags : endevorDiags[n][2] \in DOMAIN endevorDoc[EndevorMain] /\ endevorDoc[EndevorMain][endevorDiags[n][2]] # EndevorPlain
  /\ \A n \in 1 .. Len(endevorDiags) - 1 : endevorDiags[n][2] <= endevorDiags[n + 1][2]
=============================================================================
