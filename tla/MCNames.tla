------------------------------ MODULE MCNames -------------------------------
(***************************************************************************)
(* Names, macros and where statements come from, for TLC: the table of     *)
(* operation codes (OpcodeTable, of which invariants are proved as well),  *)
(* definitions of macros (Definition), their arguments (Text, Argument),   *)
(* conditional assembly (Branching, Variable, Arrays, Message) and the     *)
(* lines of open code (Provider).                                          *)
(*                                                                         *)
(* The components share no state in this model; `part` chooses the one that*)
(* runs.                                                                   *)
(***************************************************************************)
EXTENDS OpcodeTable, Integers, Sequences, TLC

CONSTANTS instr, lib, m1, m2, c1, c2, x, A, P, S, None, Unused

VARIABLES
  part,
  \* MacroDefinition
  text, wanted, line, copy, calls, def, definitionMacros, known, over,
  \* MacroArguments
  definition, args, name, diags, call,
  \* ConditionalAssembly
  branchingText, pc, seen, scopes, globals, sysndx, limit, remaining, finished, log,
  \* OpencodeProvider
  document, doc, next, begin, end, copies, ainsert, virtual, task, restart, opts,
  macro, label, actr, fetches, sought, out

(* One instruction and one name of a library member, which defines m1.     *)
MCLibrary == (instr :> m1 @@ lib :> m1)

(* COPY members: one copies the other, is a whole macro between statements, *)
(* is unbalanced, or has the end of a macro in the other.                   *)
Stmt(op, arg) == [op |-> op, arg |-> arg]
PlainLine == Stmt("PLAIN", "none")
Rem == Stmt("REM", "none")
Seq1 == Stmt("PLAIN", x)
Macro1 == Stmt("MACRO", "none")
Mend == Stmt("MEND", "none")
Copied(m) == Stmt("COPY", m)
DefinesM2 == <<Macro1, Stmt("NAME", m2), Seq1, Mend>>
MCTexts ==
  { (c1 :> <<Seq1, Copied(c2)>> @@ c2 :> <<PlainLine>>),
    (c1 :> <<Copied(c2), PlainLine>> @@ c2 :> <<Copied(c1)>>),
    (c1 :> <<PlainLine>> \o DefinesM2 @@ c2 :> <<Mend, Macro1, Stmt("NAME", m2)>>),
    (c1 :> <<Macro1, Stmt("NAME", m2), Copied(c2), Mend, PlainLine>> @@ c2 :> <<Rem, PlainLine>>) }

(* Operands of macros.                                                     *)
Str(t) == [what |-> "str", text |-> t]
Var(t) == [what |-> "var", text |-> t]
Sub(list) == [what |-> "sublist", list |-> list]
Texts ==
  UNION {{<<"(">> \o t \o <<")">> : t \in [1..n -> {"a", "L", "(", ")", ",", "'"}]} : n \in 0..5}
Long == {<<"a", "+", "a", "a", "a", "a", "a", "a", "a", "+", "+", "a">>,
         <<"a", "a", "+", "(", "a", ")", "a", "a", "a", ")">>}
MCTextChains == {<<Var(t)>> : t \in Texts \cup Long}
Positional(id) == [id |-> id, data |-> None]
MCTextParameters == {<<Positional("P")>>}
OneA == <<Str(<<"a">>)>>
MCChains ==
  {<<>>, OneA, <<Sub(<<OneA, <<>>>>)>>, <<Sub(<<<<Sub(<<OneA>>)>>, <<>>>>)>>,
   <<Sub(<<<<Sub(<<OneA>>)>>, OneA>>), Str(<<"a">>)>>,
   <<Sub(<<<<Sub(<<OneA, OneA>>)>>, OneA, <<Str(<<"(", "'">>), Var(<<"a">>)>>>>)>>,
   <<Str(<<"(">>), Var(<<"a", ",", "a">>), Str(<<")">>)>>}
MCParameters ==
  {<<Positional("P"), [id |-> "K", data |-> [value |-> <<"a">>, items |-> <<>>]], Positional(None),
     Positional("Q")>>, <<>>}
MCNames == {None, <<"a">>, <<"a", "+", "a">>, <<"a", "a", "a">>}

(* Statements of conditional assembly.                                     *)
Bare(op) == [op |-> op]
Branch(to, may) == [op |-> "BRANCH", to |-> to, may |-> may]
Numbered(op, n) == [op |-> op, n |-> n]
Call(m) == [op |-> "CALL", mac |-> m]
Declare(global, v, t, scalar) ==
  [op |-> "DECLARE", global |-> global, v |-> v, t |-> t, scalar |-> scalar]
Set(v, t, sub, vals) == [op |-> "SET", v |-> v, t |-> t, sub |-> sub, vals |-> vals]
MCBranches ==
  {Bare("PLAIN"), Bare("MEXIT"), Call(m1), Numbered("ACTR", 1), Numbered("ACTR", -1), Branch({1}, FALSE),
   Branch({2}, TRUE), Branch({1, 3}, FALSE)}
(* P is a parameter, S a system variable of macros.                        *)
MCVariables ==
  {Call(m1), Declare(TRUE, A, "A", TRUE), Declare(TRUE, A, "C", TRUE),
   Declare(FALSE, A, "A", TRUE), Declare(TRUE, P, "A", TRUE), Declare(FALSE, S, "A", TRUE),
   Set(A, "A", <<>>, <<<<1>>>>), Set(A, "C", <<>>, <<<<3>>>>), Set(A, "A", <<>>, <<<<2>>, <<>>>>),
   Set(P, "A", <<>>, <<<<1>>>>)}
MCArrays ==
  {Call(m1), Declare(TRUE, A, "A", FALSE), Set(A, "A", <<1>>, <<<<1>>, <<2>>>>),
   Set(A, "A", <<1>>, <<<<>>, <<3>>>>), Set(A, "A", <<2>>, <<<<4>>, <<5>>>>), Set(A, "A", <<0>>, <<<<1>>>>),
   Set(A, "A", <<1, 1>>, <<<<1>>>>), Set(A, "A", <<>>, <<<<1>>>>), Set(A, "A", <<2>>, <<>>), Bare("MEXIT")}
MCMessages ==
  {Bare("PLAIN"), Call(m1), Call(m2), Numbered("MNOTE", 4), Numbered("MNOTE", 8), Numbered("MHELP", 0),
   Numbered("MHELP", 1), Numbered("MHELP", 9)}

(* Lines of open code: a macro may read lines that are generated, and some *)
(* of a statement; lines are generated at both ends, and read twice.       *)
L(i, n, k, c) == [id |-> i, no |-> n, kind |-> k, cont |-> c, of |-> None]
MCCopies ==
  [m \in {c1} |-> <<L("c1", 0, "macro", FALSE), L("c2", 1, "comment", FALSE), L("c3", 2, "ref", TRUE),
                    L("c4", 3, "ref", TRUE), L("c5", 4, "comment", FALSE), L("c6", 5, "plain", FALSE)>>]
Generation ==
  <<L("o1", 0, "ictl", FALSE), L("o2", 1, "process", FALSE), L("o3", 2, "macro", FALSE), L("o4", 3, "ref", TRUE),
    L("g1", None, "plain", FALSE), L("g2", None, "macro", FALSE), L("g3", None, "comment", TRUE),
    L("g4", None, "ref", FALSE), L("o5", 7, "process", FALSE), L("o6", 8, "plain", FALSE)>>
Again ==
  <<L("g1", None, "macro", FALSE), L("g2", None, "ref", FALSE), L("o1", 1, "label", FALSE),
    L("o2", 2, "macro", FALSE), L("o3", 3, "ref", TRUE), L("g3", None, "plain", FALSE), L("g4", None, "ref", FALSE),
    L("o4", 5, "ago", FALSE), L("g5", None, "plain", TRUE)>>
Including ==
  <<L("o1", 0, "process", FALSE), L("o2", 1, "plain", FALSE), [L("o3", 2, "copy", FALSE) EXCEPT !.of = c1]>>
UnprocessedLine == <<L("x", 0, "plain", FALSE)>>
MCDocuments ==
  {[raw |-> UnprocessedLine, text |-> t] : t \in {Generation, Again, Including}}

Definition == INSTANCE MacroDefinition WITH
               Member <- {c1, c2}, Texts <- MCTexts, Macro <- {m1, m2},
               Symbol <- {x}, MaxLine <- 6, MaxCalls <- 2,
               External <- {TRUE, FALSE}, macros <- definitionMacros

(* One operand of a macro is a text of variable symbols ...                *)
Text == INSTANCE MacroArguments WITH
         None <- None, Label <- "LBL", NameLimit <- 2, Limit <- 9,
         Parameters <- MCTextParameters, Keys <- {"X"}, Chains <- MCTextChains,
         Names <- {None}, MaxOperands <- 1
(* ... or there are several, of sublists and with keywords.                *)
Argument == INSTANCE MacroArguments WITH
             None <- None, Label <- "LBL", NameLimit <- 2, Limit <- 9,
             Parameters <- MCParameters, Keys <- {"K", "P", "X"},
             Chains <- MCChains, Names <- MCNames, MaxOperands <- 3

(* Branches, counters, calls of macros that call each other; symbols of two
   types, one of them an array; arrays; MNOTE and MHELP.                   *)
Branching == INSTANCE ConditionalAssembly WITH
              Name <- {A, P, S}, Params <- {P}, SysGlobal <- {}, SysMacro <- {S},
              Branches <- 1, MaxIndex <- 3, Lines <- 3, Macro <- {m1}, Body <- 2,
              Statements <- MCBranches, StatementLimit <- 7, NestLimit <- 2,
              SysndxMax <- 9, text <- branchingText
Variable == INSTANCE ConditionalAssembly WITH
             Name <- {A, P, S}, Params <- {P}, SysGlobal <- {}, SysMacro <- {S},
             Branches <- 1, MaxIndex <- 3, Lines <- 3, Macro <- {m1}, Body <- 3,
             Statements <- MCVariables, StatementLimit <- 6, NestLimit <- 2,
             SysndxMax <- 9, text <- branchingText
Arrays == INSTANCE ConditionalAssembly WITH
           Name <- {A, P, S}, Params <- {P}, SysGlobal <- {}, SysMacro <- {S},
           Branches <- 1, MaxIndex <- 3, Lines <- 3, Macro <- {m1}, Body <- 3,
           Statements <- MCArrays, StatementLimit <- 6, NestLimit <- 2,
           SysndxMax <- 9, text <- branchingText
Message == INSTANCE ConditionalAssembly WITH
            Name <- {A, P, S}, Params <- {P}, SysGlobal <- {}, SysMacro <- {S},
            Branches <- 1, MaxIndex <- 3, Lines <- 3, Macro <- {m1, m2}, Body <- 2,
            Statements <- MCMessages, StatementLimit <- 6, NestLimit <- 3,
            SysndxMax <- 3, text <- branchingText

Provider == INSTANCE OpencodeProvider WITH
             Member <- {c1}, None <- None, Copies <- MCCopies,
             Documents <- MCDocuments, Records <- {L("r", 0, "plain", FALSE), L("s", 0, "ref", FALSE)},
             Options <- 2, Fetches <- 1, MacroSteps <- 2, Actr <- 1

ASSUME
  /\ Definition!DefinitionAssumption /\ Text!MacroArgumentsAssumption
  /\ Argument!MacroArgumentsAssumption /\ Branching!LimitAssumption
  /\ Variable!LimitAssumption /\ Arrays!LimitAssumption /\ Message!LimitAssumption
  /\ Provider!OpencodeProviderAssumption

definitionVars == <<text, wanted, line, copy, calls, def, definitionMacros, known,
                    over>>
textVars == <<definition, args, name, diags, call>>
branchingVars == <<branchingText, pc, seen, scopes, globals, sysndx, limit,
                   remaining, finished, log>>
providerVars == <<document, doc, next, begin, end, copies, ainsert, virtual, task,
                  restart, opts, macro, label, actr, fetches, sought, out>>
allVars == <<part, vars, definitionVars, textVars, branchingVars, providerVars>>

DefinitionAtRest ==
  /\ text = Unused /\ wanted = Unused /\ line = Unused /\ copy = Unused
  /\ calls = Unused /\ def = Unused /\ definitionMacros = Unused /\ known = Unused
  /\ over = Unused
TextAtRest ==
  /\ definition = Unused /\ args = Unused /\ name = Unused /\ diags = Unused
  /\ call = Unused
BranchingAtRest ==
  /\ branchingText = Unused /\ pc = Unused /\ seen = Unused /\ scopes = Unused
  /\ globals = Unused /\ sysndx = Unused /\ limit = Unused /\ remaining = Unused
  /\ finished = Unused /\ log = Unused

NamesInit ==
  /\ part \in {"operation codes", "definitions", "argument texts", "arguments",
               "branches", "variables", "arrays", "messages", "open code"}
  /\ Init
  /\ IF part = "definitions" THEN Definition!Init ELSE DefinitionAtRest
  /\ CASE part = "argument texts" -> Text!Init
       [] part = "arguments" -> Argument!Init
       [] OTHER -> TextAtRest
  /\ CASE part = "branches" -> Branching!Init
       [] part = "variables" -> Variable!Init
       [] part = "arrays" -> Arrays!Init
       [] part = "messages" -> Message!Init
       [] OTHER -> BranchingAtRest
  /\ Provider!Init
  /\ part # "open code" => document = [raw |-> UnprocessedLine, text |-> Including]

NamesNext ==
  \/ part = "operation codes" /\ Next /\ UNCHANGED <<part, definitionVars, textVars, branchingVars, providerVars>>
  \/ part = "definitions" /\ Definition!Next
     /\ UNCHANGED <<part, vars, textVars, branchingVars, providerVars>>
  \/ part = "argument texts" /\ Text!Next
     /\ UNCHANGED <<part, vars, definitionVars, branchingVars, providerVars>>
  \/ part = "arguments" /\ Argument!Next
     /\ UNCHANGED <<part, vars, definitionVars, branchingVars, providerVars>>
  \/ part = "branches" /\ Branching!Next
     /\ UNCHANGED <<part, vars, definitionVars, textVars, providerVars>>
  \/ part = "variables" /\ Variable!Next
     /\ UNCHANGED <<part, vars, definitionVars, textVars, providerVars>>
  \/ part = "arrays" /\ Arrays!Next
     /\ UNCHANGED <<part, vars, definitionVars, textVars, providerVars>>
  \/ part = "messages" /\ Message!Next
     /\ UNCHANGED <<part, vars, definitionVars, textVars, providerVars>>
  \/ part = "open code" /\ Provider!Next
     /\ UNCHANGED <<part, vars, definitionVars, textVars, branchingVars>>

NamesSpec == NamesInit /\ [][NamesNext]_allVars

-----------------------------------------------------------------------------
(* A definition of a macro ends where it started, copies no member in      *)
(* itself, and what is kept of its lines and sequence symbols tells where  *)
(* they are. In a call of it parameters and SYSLIST have what the operands *)
(* say, and an argument that is passed on has the same components again,   *)
(* but for an empty operand behind a sublist (Lost).                       *)
MacrosAsWritten ==
  /\ part = "definitions" =>
       /\ Definition!CopyIsNotRecursive /\ Definition!NestTellsPlace
       /\ Definition!LabelsAreFirst /\ Definition!UsedCoversNests /\ Definition!SlicesCover
  /\ part = "argument texts" => Text!KeepsText /\ Text!PassedOn /\ Text!CommasSeparate
  /\ part = "arguments" => Argument!KeepsText /\ Argument!PassedOn /\ Argument!SyslistAgrees

(* A variable symbol has the value that was assigned last by those that    *)
(* share it; no loop and no recursion goes on for ever; &SYSNDX and        *)
(* &SYSM_SEV tell calls of macros apart.                                   *)
VariablesAsWritten ==
  /\ part = "branches" => Branching!LoopsAreCut
  /\ part = "variables" => Variable!ReadsWhatWasWritten /\ Variable!ParametersAreNotHidden
  /\ part = "arrays" => Arrays!ReadsWhatWasWritten
  /\ part = "messages" => Message!SeverityOfLastCall /\ Message!SysndxTellsCalls

(* Every line of open code, of a COPY member and of AINSERT is read once   *)
(* and in order (InputStream), by a statement or by AREAD; but a lookahead *)
(* for attributes forgets what was inserted and reads again what AREAD has *)
(* read (opencode_provider.cpp:78-83, statement_provider.cpp:74-90).       *)
ReadsTheStream == Provider!Implements
=============================================================================
