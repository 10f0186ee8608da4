---------------------------- MODULE MCAssembler -----------------------------
(***************************************************************************)
(* The assembler proper, for TLC: the sections of a program (Sections, of  *)
(* which invariants are proved as well), its statements (Moving, Text,     *)
(* Later), the symbols that are defined in any order (Symbols), the        *)
(* counters of a section (OrgCounter, LoctrCounter) and USING (Plain,      *)
(* Pushed).                                                                *)
(*                                                                         *)
(* The components share no state in this model; `part` chooses the one that*)
(* runs.                                                                   *)
(***************************************************************************)
EXTENDS Sections, TLC

CONSTANTS X, Y, A, B, C, D, sa, sb, sc, None, Elsewhere, Unused

VARIABLES
  part,
  \* AsmStatements
  at, loc, sym, title, sev, out, front, back, posted, ended, over, movingSaid,
  \* SymbolDependencies
  program, symbolsAt, symbolsSym, symbolsLoc, space, deps, skip, refs, cycles, late,
  \* LocationCounter
  value, orgCounterProgram, labels, counters, current, data, spaces, pending, batch,
  phase, last,
  \* Using
  usings, contexts, active, points, warned, answer, plainEnded

Symmetry == Permutations({X, Y})

(* Any part, and one with another name than its class.                     *)
AnyParts(n) == Names \cup {Unnamed}
OtherParts(n) == (Names \cup {Unnamed}) \ (IF n = Unnamed THEN {} ELSE {n})

(* Statements of AsmStatements: both labels or none where a label counts,  *)
(* and operands on both sides of each limit.                               *)
Nothing == [k |-> "empty"]
Number(n) == [k |-> "number", n |-> n]
Sum(n, name) == [k |-> "sum", n |-> n, of |-> name]
Word(w) == [k |-> "word", of |-> w]
String(n) == [k |-> "string", n |-> n]
Complex == [k |-> "complex"]
S(op, label, ops) == [op |-> op, label |-> label, ops |-> ops]
Star(n) == Sum(n, None)

Addresses ==
  {S(op, l, <<>>) : op \in {"CCW", "CXD", "LTORG", "MACHINE"}, l \in {A, None}}
  \cup {S("CNOP", l, <<Number(byte), Number(w)>>) : l \in {A, None}, byte \in {0, 2, 6}, w \in {4, 8}}
  \cup {S("CNOP", None, <<Number(3), Number(8)>>), S("CNOP", None, <<Sum(0, A), Number(8)>>), S("CNOP", None, <<>>)}
  \cup {S("ORG", A, ops) : ops \in {<<>>, <<Nothing, Nothing>>, <<Star(3)>>}}
  \cup {S("ORG", None, ops) :
          ops \in {<<Star(-4)>>, <<Sum(1, A)>>, <<Star(-1), Number(8)>>, <<Star(0), Number(8), Number(-3)>>,
                   <<Star(-6), Nothing, Number(5)>>, <<Star(0), Number(3)>>, <<Number(4)>>, <<Star(2), Complex>>,
                   <<Complex>>, <<Star(0), Nothing, Complex>>, <<Star(0), Nothing, Star(0)>>, <<Nothing, Number(8)>>}}
  \cup {S("END", None, <<>>)}

Texts ==
  {S("MNOTE", None, ops) :
     ops \in {<<String(3)>>, <<Nothing, String(1020)>>, <<Star(0), String(1020 + 1)>>, <<Number(255), String(1020)>>,
              <<Number(12), String(2)>>, <<Number(256), String(1)>>, <<Word("X"), String(1)>>, <<Number(4), Word("X")>>,
              <<Number(4), Number(5), String(1)>>, <<String(1), String(1)>>, <<Number(8), Complex>>}}
  \cup {S("PUNCH", None, ops) :
          ops \in {<<String(0)>>, <<String(80)>>, <<String(80 + 1)>>, <<Word("X")>>, <<>>}}
  \cup {S("AINSERT", None, <<String(n), Word(w)>>) : n \in {0, 1, 80, 80 + 1}, w \in {"FRONT", "BACK"}}
  \cup {S("AINSERT", None, ops) : ops \in {<<Word("X"), Word("BACK")>>, <<String(1), Word("X")>>, <<String(1), Complex>>, <<String(1)>>}}
  \cup {S("TITLE", l, <<String(1)>>) : l \in {A, B} \cup {None}}

Aside ==
  {S("CCW", None, <<Number(2), Sum(0, l), Number(0), Number(1)>>) : l \in {A, B}}
  \cup {S("MACHINE", l, <<Number(1), Sum(0, A)>>) : l \in {A, None}} \cup {S("DATA", l, <<Number(1)>>) : l \in {A, B}}
  \cup {S("CNOP", None, <<Number(byte), Number(w)>>) : byte \in {0, 1}, w \in {2, 4}}
  \cup {S("CNOP", None, <<Sum(0, A), Number(8)>>), S("TITLE", None, <<>>), S("TITLE", None, <<String(1)>>),
        S("END", None, <<>>), S("END", A, <<Number(1)>>), S("ALIAS", None, <<String(1)>>), S("ALIAS", A, <<String(1)>>)}

(* a and the first space share the bit of their hash.                      *)
MCBit == (sa :> 0 @@ sb :> 1 @@ sc :> 2 @@ 1 :> 0 @@ 2 :> 3 @@ 3 :> 4)

MCTerm(k, x, s) == [sign |-> s, kind |-> k, of |-> x]
MCSum(n, T, l) == [const |-> n, terms |-> T, lead |-> l]
MCConst == MCSum(1, {}, None)
MCSymbol(x) == MCSum(0, {MCTerm("sym", x, 1)}, x)
MCNext(x) == MCSum(1, {MCTerm("sym", x, 1)}, x)
MCLength(x) == MCSum(0, {MCTerm("L", x, 1)}, None)
MCType(x) == MCSum(1, {MCTerm("T", x, 1)}, None)
MCDifference(x, y) == MCSum(0, {MCTerm("sym", x, 1), MCTerm("sym", y, -1)}, x)
MCStatement(o, l, e) == [op |-> o, label |-> l, expr |-> e]
EQU(l, e) == MCStatement("equ", l, e)
DS(l, e) == MCStatement("ds", l, e)
EXTRN(l) == MCStatement("extrn", l, MCConst)

MCExpressions ==
  {MCConst, MCType(sb)} \cup {MCSymbol(x) : x \in {sa, sb, sc}} \cup {MCLength(x) : x \in {sa, sb}}
    \cup {MCDifference(sa, sb), MCDifference(sc, sa), MCDifference(sb, sc)}
MCStatements ==
  [op : {"equ"}, label : {sa, sb, sc}, expr : MCExpressions] \cup [op : {"ds"}, label : {sa, sb, sc} \cup {None}, expr : MCExpressions]

(* The second statement of three has some other label than the first one.  *)
MCLabelled(names) == {st \in MCStatements : st.label \in names}
MCShort ==
  {p \in {<<s1, s2, s3>> : s1 \in MCLabelled({sa, None}), s2 \in MCLabelled({sa, sb, None}), s3 \in MCLabelled({sb, sc})} :
     /\ (p[1].label = None => p[2].label # sb) /\ (p[3].label = sc <=> p[2].label = sb)}

(* DS CL(LEN), a DS CL(b), HERE DS 0C, LEN EQU HERE-a, b EQU 1: the names  *)
(* are a .. c, and others.                                                 *)
MCLong ==
  {<<DS(None, MCSymbol(sc)), DS(sa, MCSymbol(sb)), EQU(sc, e), EQU(sb, f)>> :
     e \in MCExpressions, f \in {MCConst, MCLength(sa), MCSymbol(sc)}}
  \cup {<<DS(None, MCSymbol(sc)), DS(sa, e), DS(sb, MCConst), EQU(sc, MCDifference(sb, sa))>> : e \in MCExpressions}
  \cup {<<EXTRN(sa), s, t, EQU(sc, MCConst)>> : s \in {DS(sb, e) : e \in MCExpressions}, t \in {EQU(sa, MCConst), EQU(sb, MCNext(sc))}}

MCPrograms == MCShort \cup MCLong

(* Statements of LocationCounter.                                          *)
Ds(n, m) == [op |-> "DS", n |-> n, a |-> m]
DsK(m) == [op |-> "DSK", a |-> m]
Org(t, o, p) == [op |-> "ORG", t |-> t, b |-> o, o |-> p]
OrgK(t, o, p) == [op |-> "ORGK", t |-> t, b |-> o, o |-> p]
OrgMax == [op |-> "ORGMAX"]
ToCounter(k) == [op |-> "LOCTR", c |-> k]

(* One counter, with an ORG whose operand is not defined yet.                *)
UndefinedOrg == {Ds(1, 1), Ds(1, 4), DsK(1), Org(1, 0, 0), Org(2, 4, 1), OrgK(1, 0, 0), OrgMax}

(* Two counters.                                                             *)
Counters == {Ds(1, 1), Ds(1, 4), DsK(2), Org(1, 0, 0), Org(3, 4, 1), OrgK(1, 0, 0), ToCounter(D), ToCounter(C)}

(* USING and DROP: a page of 8 bytes, a section A and a DSECT B, registers *)
(* 0 to 3.                                                                 *)
Address(label, sect, off) == [qualifier |-> label, sect |-> sect, off |-> off]
At(sect, off) == Address("none", sect, off)
Reg(r) == At("absolute", r)
UsingSt(label, begin, end, bases) ==
  [op |-> "USING", label |-> label, begin |-> begin, end |-> end, bases |-> bases]
DropSt(bases) ==
  [op |-> "DROP", label |-> "none", begin |-> Address("none", "none", -1), end |-> Address("none", "none", -1), bases |-> bases]
LabelName(l) == At(l, 0)

MCUsings == {
  UsingSt("none", At("A", 2), Address("none", "none", -1), <<Reg(1)>>),
  UsingSt("none", At("A", 0), Address("none", "none", -1), <<Reg(2), Reg(1)>>),
  UsingSt("L", At("A", 0), Address("none", "none", -1), <<Reg(2)>>),
  UsingSt("none", At("A", 3), At("A", 6), <<Reg(3)>>),
  UsingSt("none", At("B", 1), Address("none", "none", -1), <<At("A", 9)>>),
  UsingSt("L", At("B", 1), At("B", 4), <<Address("L", "A", 4)>>),
  UsingSt("none", At("B", 5), At("B", 6), <<Reg(3)>>),
  UsingSt("none", At("A", 4), Address("none", "none", -1), <<At("B", 3)>>),
  UsingSt("none", At("absolute", 4), Address("none", "none", -1), <<Reg(1), At("A", 4)>>),
  UsingSt("none", Address("none", "none", 0), Address("none", "none", -1), <<Reg(1)>>),
  DropSt(<<Reg(1)>>), DropSt(<<Reg(2), LabelName("L"), Reg(2)>>) }

(* The statements around PUSH USING and POP USING.                         *)
MCPushed == {
  UsingSt("none", At("A", 2), Address("none", "none", -1), <<Reg(1)>>),
  UsingSt("L", At("A", 0), Address("none", "none", -1), <<Reg(2)>>),
  UsingSt("none", At("B", 1), Address("none", "none", -1), <<At("A", 9)>>),
  DropSt(<<LabelName("L"), Reg(1)>>) }

Short(v) == <<v, FALSE>>
Long(v) == <<v, TRUE>>

MCUses ==
  {Short(At("A", o)) : o \in {0, 2, 5, 9, 10}} \cup {Short(At("B", o)) : o \in {0, 1, 5}}
  \cup {Short(Address("L", "A", 3)), Short(Address("L", "B", 3)), Short(At("absolute", 4))}
  \cup {Long(At("A", 0)), Long(At("A", 16)), Long(At("B", 9)), Long(At("absolute", -2))}
MCPushedUses == {Short(At("B", 1)), Short(Address("L", "A", 3))}

(* Statements that name symbols.                                          *)
MoreSections == INSTANCE Sections WITH
                 Ops <- {"sect", "label", "equate", "xattr", "extern"}, MaxSections <- 2

(* Statements that move the counter, that say something, and that are put
   aside for the end.                                                      *)
Moving == INSTANCE AsmStatements WITH
           Label <- {A, B}, None <- None, MaxStatements <- 3, MaxRecord <- 80,
           MaxText <- 1020, MaxOperands <- 1022, Statements <- Addresses,
           said <- movingSaid
Text == INSTANCE AsmStatements WITH
         Label <- {A, B}, None <- None, MaxStatements <- 3, MaxRecord <- 80,
         MaxText <- 1020, MaxOperands <- 1022, Statements <- Texts,
         said <- movingSaid
Later == INSTANCE AsmStatements WITH
          Label <- {A, B}, None <- None, MaxStatements <- 3, MaxRecord <- 80,
          MaxText <- 1020, MaxOperands <- 1022, Statements <- Aside,
          said <- movingSaid

Symbols == INSTANCE SymbolDependencies WITH
            Sym <- {sa, sb, sc}, None <- None, Here <- Elsewhere, Bit <- MCBit,
            MaxSpace <- 3, Programs <- MCPrograms, at <- symbolsAt,
            sym <- symbolsSym, loc <- symbolsLoc

OrgCounter == INSTANCE LocationCounter WITH
               Counter <- {C, D}, First <- C, Value <- {0, 3}, Targets <- {1, 2, 3},
               MaxLength <- 5, Operations <- UndefinedOrg,
               program <- orgCounterProgram
LoctrCounter == INSTANCE LocationCounter WITH
                 Counter <- {C, D}, First <- C, Value <- {0, 3},
                 Targets <- {1, 2, 3}, MaxLength <- 5, Operations <- Counters,
                 program <- orgCounterProgram

Plain == INSTANCE Using WITH
          Sect <- {"A", "B"}, Absolute <- "absolute", Label <- {"L"},
          NoLabel <- "none", Register <- 0..3, Page <- 8, MinLong <- -12,
          MaxLong <- 11, MaxPoints <- 1, Uses <- MCUses, Statements <- MCUsings,
          MaxStatements <- 2, MaxPush <- 0, ended <- plainEnded
Pushed == INSTANCE Using WITH
           Sect <- {"A", "B"}, Absolute <- "absolute", Label <- {"L"},
           NoLabel <- "none", Register <- 0..3, Page <- 8, MinLong <- -12,
           MaxLong <- 11, MaxPoints <- 1, Uses <- MCPushedUses,
           Statements <- MCPushed, MaxStatements <- 3, MaxPush <- 1,
           ended <- plainEnded

ASSUME
  /\ Moving!StatementAssumption /\ Text!StatementAssumption /\ Later!StatementAssumption
  /\ Symbols!SymbolAssumption /\ OrgCounter!CounterAssumption /\ LoctrCounter!CounterAssumption
  /\ Plain!UsingAssumption /\ Pushed!UsingAssumption

movingVars == <<at, loc, sym, title, sev, out, front, back, posted, ended, over,
                movingSaid>>
symbolsVars == <<program, symbolsAt, symbolsSym, symbolsLoc, space, deps, skip,
                 refs, cycles, late>>
orgCounterVars == <<value, orgCounterProgram, labels, counters, current, data,
                    spaces, pending, batch, phase, last>>
plainVars == <<usings, contexts, active, points, warned, answer, plainEnded>>
allVars == <<part, vars, movingVars, symbolsVars, orgCounterVars, plainVars>>

SymbolsAtRest ==
  /\ program = Unused /\ symbolsAt = Unused /\ symbolsSym = Unused
  /\ symbolsLoc = Unused /\ space = Unused /\ deps = Unused /\ skip = Unused
  /\ refs = Unused /\ cycles = Unused /\ late = Unused
OrgCounterAtRest ==
  /\ value = Unused /\ orgCounterProgram = Unused /\ labels = Unused
  /\ counters = Unused /\ current = Unused /\ data = Unused /\ spaces = Unused
  /\ pending = Unused /\ batch = Unused /\ phase = Unused /\ last = Unused

AssemblerInit ==
  /\ part \in {"sections", "psects", "addresses", "texts", "aside", "symbols", "org", "loctr",
               "using", "push using"}
  /\ Init
  /\ IF part = "aside" THEN Later!Init ELSE IF part = "texts" THEN Text!Init ELSE Moving!Init
  /\ IF part = "symbols" THEN Symbols!Init ELSE SymbolsAtRest
  /\ CASE part = "org" -> OrgCounter!Init
       [] part = "loctr" -> LoctrCounter!Init
       [] OTHER -> OrgCounterAtRest
  /\ IF part = "push using" THEN Pushed!Init ELSE Plain!Init

AssemblerNext ==
  \/ part = "sections" /\ Next /\ UNCHANGED <<part, movingVars, symbolsVars, orgCounterVars, plainVars>>
  \/ part = "psects" /\ MoreSections!Next /\ UNCHANGED <<part, movingVars, symbolsVars, orgCounterVars, plainVars>>
  \/ part = "addresses" /\ Moving!Next
     /\ UNCHANGED <<part, vars, symbolsVars, orgCounterVars, plainVars>>
  \/ part = "texts" /\ Text!Next
     /\ UNCHANGED <<part, vars, symbolsVars, orgCounterVars, plainVars>>
  \/ part = "aside" /\ Later!Next
     /\ UNCHANGED <<part, vars, symbolsVars, orgCounterVars, plainVars>>
  \/ part = "symbols" /\ Symbols!Next
     /\ UNCHANGED <<part, vars, movingVars, orgCounterVars, plainVars>>
  \/ part = "org" /\ OrgCounter!Next
     /\ UNCHANGED <<part, vars, movingVars, symbolsVars, plainVars>>
  \/ part = "loctr" /\ LoctrCounter!Next
     /\ UNCHANGED <<part, vars, movingVars, symbolsVars, plainVars>>
  \/ part = "using" /\ Plain!Next
     /\ UNCHANGED <<part, vars, movingVars, symbolsVars, orgCounterVars>>
  \/ part = "push using" /\ Pushed!Next
     /\ UNCHANGED <<part, vars, movingVars, symbolsVars, orgCounterVars>>

AssemblerSpec == AssemblerInit /\ [][AssemblerNext]_allVars

-----------------------------------------------------------------------------
(* A class is in two levels at most and has the part it was made for; the  *)
(* private section, START and the home of the literals are right. Labels   *)
(* are on their boundary, the counter stays in the section, and what is    *)
(* told, shown and given to AINSERT is what the operands say.              *)
StatementsAreRight ==
  /\ part \in {"sections", "psects"} =>
       /\ OnePrivateSection /\ ClassesAreTwoLevels /\ PartitionedHasPart
       /\ StartIsFirst /\ LiteralsHaveHome /\ PsectsAreCode
  /\ part = "addresses" => Moving!LabelOnBoundary /\ Moving!NotBeforeSection
  /\ part = "texts" => Text!SeverityIsHighest /\ Text!RecordsFit
  /\ part = "aside" => Later!ToldUnlessStopped

(* The first definition of a symbol stays, CNOP reaches its byte and       *)
(* nothing has an effect after END.                                        *)
StatementsAct ==
  Moving!FirstDefinition /\ Moving!CnopReaches /\ Later!NothingAfterEnd

(* Whatever the order in which symbols are defined and used, they get the  *)
(* values that solve the program; what waits for nothing is evaluated at   *)
(* once, if it is not an attribute of an EQU without a value; and what is  *)
(* given up is on a cycle, not defined, or the length of an EQU that was   *)
(* read before the length of its first symbol was known.                   *)
SymbolsAreSolved ==
  part = "symbols" =>
    /\ Symbols!RefCounts /\ Symbols!CacheIsTrue /\ Symbols!NothingReadyWaits
    /\ Symbols!ValuesSolve /\ Symbols!GivenUpIsStuck /\ Symbols!NoFalseCycle

(* The layout is that of a program whose lengths are all known, but for    *)
(* counters behind one whose storage was left too short (append_data,      *)
(* location_counter_data.cpp:56-68). An address that USING translates      *)
(* leads to the operand, a dropped register is not used, and a DROP        *)
(* without effect is told.                                                 *)
AddressesAreRight ==
  /\ part = "org" =>
       OrgCounter!LayoutIsPlain /\ OrgCounter!AllResolved /\ OrgCounter!StorageIsPrior
  /\ part = "loctr" => LoctrCounter!LayoutIsPlain /\ LoctrCounter!StorageIsPrior
  /\ part = "using" => Plain!LeadsToOperand /\ Plain!WarnedIfUseless
  /\ part = "push using" => Pushed!LeadsToOperand /\ Pushed!DroppedStaysDropped

(* USING, DROP, PUSH and POP USING act where they stand, although they are *)
(* resolved at the end.                                                    *)
UsingActsAtOnce ==
  [][CASE part = "using" -> Plain!AtOnce
       [] part = "push using" -> Pushed!AtOnce
       [] OTHER -> TRUE]_plainVars
=============================================================================
