----------------------------- MODULE MCAnalysis -----------------------------
(***************************************************************************)
(* What is parsed, evaluated, checked and shown of a source, for TLC:      *)
(* values of conditional assembly (Expressions, Comparands), operands      *)
(* (Storage, Types, Nominal, Checks), the preprocessors (Preprocess,       *)
(* CicsSections), the services of the editor and of listings (Services),   *)
(* and how statements are parsed: their fields and the operands of machine,*)
(* assembler and data definition instructions (Machine, Literals,          *)
(* Definitions, Assembler) and those of the macro language (CaOperands,    *)
(* Strings, Terms, CaBranches), where every text of the pieces up to a     *)
(* length is a statement.                                                  *)
(*                                                                         *)
(* The components share no state in this model; `part` chooses the one that*)
(* runs. Of those that share a module each has variables of its own.       *)
(***************************************************************************)
EXTENDS Integers, FiniteSets, SequencesExt, TLC

CONSTANT Unused

(* The tables of OperandChecks, to tell what is about their limits.        *)
NoOperand(i) == {}
Limits == INSTANCE OperandChecks WITH
            Candidates <- {}, Starts <- {}, MaxLength <- 0, Kinds <- {},
            NominalChars <- {}, MaxChars <- 0, Examined <- {}, Operand <- NoOperand,
            MaxOperands <- NoOperand,
            dataInstr <- Unused, operands <- Unused, start <- Unused,
            chunk <- Unused, loctr <- Unused, checked <- Unused, accepted <- Unused,
            bits <- Unused, says <- Unused, done <- Unused, kind <- Unused,
            text <- Unused, at <- Unused, part <- Unused, verdict <- Unused,
            asmInstr <- Unused, asmOps <- Unused, result <- Unused

(* Operands of data definitions: one of every type with modifiers about    *)
(* their limits, and a few of different boundaries in a row.               *)
Nothing == [kind |-> "none", values |-> <<>>, exprs |-> <<>>, wrong |-> FALSE]
Definition(type, dupl, length, inBits, scale, exponent, nominal) ==
  [type |-> type, dupl |-> dupl, length |-> length, inBits |-> inBits,
   scale |-> scale, exponent |-> exponent, nominal |-> nominal]
TextOf(values, wrong) == [kind |-> "text", values |-> values, exprs |-> <<>>, wrong |-> wrong]
Exprs(values) == [kind |-> "exprs", values |-> <<>>, exprs |-> values, wrong |-> FALSE]

About(spec) == {Limits!Absolute(n) : n \in IF spec.values = {} THEN {1}
                                    ELSE LET low == CHOOSE v \in spec.values : v - 1 \notin spec.values
                                             high == CHOOSE v \in spec.values : v + 1 \notin spec.values
                                         IN {low - 1, low, high, high + 1}}
Lengths(type) == {Limits!Absent, Limits!Relocatable} \cup About(type.length) \cup About(type.dsLength)
BitLengths(type) == About(type.bits) \cup About(type.dsBits)
Dupls == {Limits!Absent, Limits!Absolute(0), Limits!Absolute(2)}
Nominals(type) ==
  {Nothing, TextOf(<<3>>, FALSE), TextOf(<<9, 2>>, FALSE), Exprs(<<"symbol", "absolute">>)}
    \cup IF type.implicit.needed THEN {TextOf(<<3, 1>>, TRUE)}
         ELSE {Exprs(<<e>>) : e \in {"symbol", "section", "far", "high base", "far, high base", "complex"}}

MCEveryType ==
  UNION {{<<Definition(t, d, l, FALSE, Limits!Absent, Limits!Absent, n)>> :
            d \in Dupls, l \in Lengths(Limits!DataType(t)), n \in Nominals(Limits!DataType(t))}
         \cup {<<Definition(t, Limits!Absent, l, TRUE, Limits!Absent, Limits!Absent, n)>> :
                 l \in BitLengths(Limits!DataType(t)), n \in Nominals(Limits!DataType(t))}
         \cup {<<Definition(t, Limits!Absent, Limits!Absent, FALSE, s, e, TextOf(<<3>>, FALSE))>> :
                 s \in {Limits!Absent, Limits!Relocatable} \cup About(Limits!DataType(t).scale),
                 e \in {Limits!Absent} \cup About(Limits!DataType(t).exponent)} : t \in Limits!TypeNames}
  \cup {<<Definition(t, Limits!Absent, l, FALSE, Limits!Absent, Limits!Absent, TextOf(<<3>>, FALSE))>> :
          t \in {"FX", "?"}, l \in {Limits!Absent, Limits!Absolute(4)}}

Unmodified(t, nominal) == Definition(t, Limits!Absent, Limits!Absent, FALSE, Limits!Absent, Limits!Absent, nominal)
MCSeveral ==
  LET one == TextOf(<<3>>, FALSE)
      some == {Unmodified("X", one), Unmodified("H", one), Unmodified("F", one), Unmodified("LQ", one),
               Definition("F", Limits!Absolute(0), Limits!Absent, FALSE, Limits!Absent, Limits!Absent, one),
               Definition("F", Limits!Absent, Limits!Absolute(3), FALSE, Limits!Absent, Limits!Absent, TextOf(<<1, 1>>, FALSE)),
               Definition("B", Limits!Absent, Limits!Absolute(3), TRUE, Limits!Absent, Limits!Absent, one),
               Definition("X", Limits!Absent, Limits!Absolute(300), FALSE, Limits!Absent, Limits!Absent, one),
               Definition("C", Limits!Absolute(3), Limits!Absent, FALSE, Limits!Absent, Limits!Absent, TextOf(<<9, 2>>, FALSE)),
               Definition("X", Limits!Absolute(-1), Limits!Absent, FALSE, Limits!Absent, Limits!Absent, one)}
  IN UNION {[1 .. n -> some] : n \in 1 .. 3}

(* Operands of assembler instructions.                                     *)
Text(t, w, n) == [t |-> t, w |-> w, n |-> n]
Empty == [k |-> "empty"]
Simple(x, def, v) == [k |-> "simple", x |-> x, def |-> def, v |-> v]
Complex(w, ps) == [k |-> "complex", w |-> w, ps |-> ps]
Word(w) == Simple(Text("word", w, 0), TRUE, 0)
Number(n) == Simple(Text("digits", "", n), FALSE, n)
Quoted(n) == Simple(Text("quoted", "", n), TRUE, 0)
Hex(n) == Simple(Text("hex", "X", n), TRUE, 0)
Negative(n) == Simple(Text("word", "-1", 0), FALSE, 0 - n)
Symbol(v) == Simple(Text("word", "SYM", 0), FALSE, v)
Params(w, ps) == {Complex(w, <<p>>) : p \in ps}
Words(ws)     == {Word(w) : w \in ws}
Numbered(ns)  == {Number(n) : n \in ns}

Options ==
    {Word("RENT"), Word("PESTOP=YES"), Word("MAP"), Complex("OVERRIDE", <<Word("RENT"), Word("WRONG")>>),
     Complex("FLAG", <<>>), Complex("XREF", <<Word("SHORT"), Word("UNREFS")>>),
     Complex("MACHINE", <<Word("ZS-4"), Word("LIST")>>), Complex("OPTABLE", <<Word("ZOP"), Word("MAP")>>),
     Complex("FAIL", <<Word("NOMSG"), Complex("MSG", <<Number(7)>>)>>), Complex("FAIL", <<Word("NOMNOTE")>>),
     Complex("USING", <<Complex("WARN", <<Number(16)>>), Complex("LIMIT", <<Number(4095)>>)>>)}
    \cup Params("FLAG", Words({"ALIGN", "PUSH", "WRONG"}) \cup Numbered({0, 255, 256}))
    \cup Params("USING", Words({"MAP"}) \cup Params("LIMIT", Numbered({4096})) \cup Params("WARN", Numbered({15, 256})))
    \cup Params("FAIL", Params("MSG", Numbered({7, 8})) \cup Params("MAXERRS", Numbered({31, 32})))
    \cup Params("SECTALGN", {Word("WRONG")} \cup Numbered({4, 8, 12, 4096}))
    \cup Params("CODEPAGE", Numbered({1139, 1148}))
    \cup Params("INFO", Numbered({20240229, 20230229}))
    \cup Params("SUPRWARN", Numbered({318, 31800}))
    \cup Params("COMPAT", Words({"NOCASE", "YES"})) \cup Params("TYPECHECK", Words({"MAG", "YES"}))
    \cup Params("PCONTROL", Words({"ON", "YES"})) \cup Params("MX", Words({"FULL", "YES"}))
    \cup Params("WRONG", Numbered({1}))

MCOperand(i) ==
    {Empty} \cup
    CASE i = "ORG"   -> {Word("WRONG"), Complex("P", <<>>), Negative(1)} \cup Numbered({0, 1, 2, 3, 8, 4096, 8192})
      [] i = "CNOP"  -> {Word("WRONG"), Negative(2)} \cup Numbered({0, 1, 2, 4, 6, 8, 4094, 4096})
      [] i = "ICTL"  -> {Word("WRONG"), Symbol(1)} \cup Numbered({0, 1, 2, 16, 36, 37, 40, 41, 42, 45, 71, 80, 81})
      [] i = "ISEQ"  -> {Word("WRONG")} \cup Numbered({0, 1, 4, 80, 81})
      [] i = "SPACE" -> {Word("WRONG"), Complex("P", <<>>)} \cup Numbered({0, 1})
      [] i = "PUSH"  -> Words({"PRINT", "USING", "ACONTROL", "NOPRINT", "WRONG"})
      [] i = "PRINT" -> Words({"ON", "NOGEN", "NOPRINT", "WRONG"})
      [] i = "USING" -> {Complex("", <<Symbol(1), Symbol(2)>>), Complex("", <<Symbol(1)>>), Symbol(1), Number(12)}
      [] i = "DROP"  -> {Complex("", <<>>), Number(12)}
      [] i = "END"   -> {Symbol(0), Complex("", <<Quoted(8), Quoted(2), Quoted(3)>>), Complex("", <<Quoted(9), Quoted(2), Quoted(3)>>)}
      [] i = "TITLE" -> {Word("WRONG"), Quoted(0), Quoted(100), Quoted(101)}
      [] i = "MNOTE" -> {Word("*"), Word("WRONG"), Quoted(10), Quoted(1018), Quoted(1019)} \cup Numbered({0, 255, 256})
      [] i = "EXTRN" -> {Symbol(1), Number(1), Complex("PART", <<Symbol(1), Symbol(1)>>), Complex("PART", <<Number(1)>>),
                         Complex("WRONG", <<Symbol(1)>>)}
      [] i = "ENTRY" -> {Symbol(1), Complex("PART", <<>>)}
      [] i = "RMODE" -> {Word("ANY"), Word("ANY31")} \cup Numbered({24, 25})
      [] i = "AMODE" -> {Word("ANY"), Word("ANY31")} \cup Numbered({24, 25})
      [] i = "COPY"  -> {Word("MEMBER"), Quoted(3), Number(1)}
      [] i = "ALIAS" -> {Word("C'A'"), Hex(65), Hex(66), Quoted(3)}
      [] i = "AINSERT" -> {Quoted(0), Quoted(80), Quoted(81), Word("BACK"), Word("WRONG")}
      [] i = "ADATA" -> {Number(1), Word("A"), Quoted(2)}
      [] i = "EXITCTL" -> {Word("SOURCE"), Word("WRONG"), Number(1)}
      [] i = "CCW"   -> {Word("WRONG")} \cup Numbered({0, 256, 65535, 65536})
      [] i = "OPSYN" -> {Word("LR"), Complex("P", <<>>)}
      [] i = "XATTR" -> {Word("WRONG"), Complex("REF", <<Word("DIRECT"), Word("CODE")>>), Complex("REF", <<Word("DATA"), Word("CODE")>>),
                         Complex("SCOPE", <<Word("X")>>), Complex("LINK", <<Word("XX")>>), Complex("PSECT", <<Symbol(1)>>),
                         Complex("ATTR", <<Word("A"), Word("B")>>)}
      [] i = "CATTR" -> {Word("RENT"), Word("WRONG"), Complex("PART", <<Word("P")>>), Complex("PART", <<Number(1)>>),
                         Complex("RMODE", <<Word("ANY"), Word("ANY")>>), Complex("RMODE", <<Number(31)>>)}
                        \cup Params("ALIGN", Numbered({3, 5})) \cup Params("FILL", Numbered({255, 256}))
                        \cup Params("PRIORITY", Numbered({0, 1}))
      [] i = "*PROCESS" -> Options
      [] i = "ACONTROL" -> {Word("AFPR"), Word("RENT")} \cup Params("FLAG", Words({"ALIGN", "PUSH"}) \cup Numbered({255, 256}))
                           \cup Params("COMPAT", Words({"NOCASE", "YES"})) \cup Params("OPTABLE", Words({"ZOP", "YES"}))
                           \cup Params("TC", Words({"MAG", "YES"})) \cup {Complex("FLAG", <<>>), Complex("XREF", <<>>)}
      [] OTHER -> {Number(1)}

MCMaxOperands(i) == IF i \in {"CCW", "ADATA"} THEN 5 ELSE IF i = "*PROCESS" THEN 2 ELSE 3
MCExamined ==
    {"ORG", "CNOP", "ICTL", "ISEQ", "SPACE", "PUSH", "PRINT", "USING", "DROP", "END", "TITLE", "MNOTE",
     "EXTRN", "ENTRY", "RMODE", "AMODE", "COPY", "ALIAS", "AINSERT", "ADATA", "EXITCTL", "CCW", "OPSYN",
     "XATTR", "CATTR", "ACONTROL", "CSECT", "*PROCESS"}

(* Lines for the preprocessors. *)
Cics(kind, arg, cont, blank) == [kind |-> kind, arg |-> arg, cont |-> cont, blank |-> blank]

(* Statements that are and are not continued, in columns 1, 2 or 16.       *)
MCContinued ==
  {Cics("plain", "-", FALSE, 15), Cics("plain", "dfh", TRUE, 15), Cics("plain", "null", FALSE, 1), Cics("comment", "-", TRUE, 0),
   Cics("exec", "-", TRUE, 1), Cics("exec0", "-", TRUE, 1), Cics("exec", "-", FALSE, 0),
   Cics("start", "-", TRUE, 0), Cics("stg", "-", FALSE, 0), Cics("end", "-", FALSE, 1)}
(* Sections and directives.                                                *)
MCSections ==
  {Cics("process", "-", TRUE, 0), Cics("noprolog", "-", TRUE, 0), Cics("noepilog", "-", FALSE, 0),
   Cics("start", "-", FALSE, 0), Cics("rsect", "-", FALSE, 0), Cics("dsect", "-", FALSE, 0), Cics("stg", "-", FALSE, 0),
   Cics("dfhe", "-", TRUE, 1), Cics("end", "-", FALSE, 1), Cics("plain", "null", TRUE, 15), Cics("plain", "dfh", FALSE, 15),
   Cics("exec0", "-", FALSE, 0)}
MCOptions == {[prolog |-> TRUE, epilog |-> TRUE]}

Db(kind, member, cont, blank) == [kind |-> kind, member |-> member, cont |-> cont, blank |-> blank]

MCLines ==
  {Db("process", "", TRUE, FALSE), Db("comment", "", TRUE, FALSE), Db("plain", "", FALSE, TRUE),
   Db("end", "", TRUE, FALSE), Db("end", "", FALSE, FALSE), Db("sql", "", TRUE, FALSE), Db("declare", "", FALSE, FALSE),
   Db("include", "A", FALSE, FALSE), Db("include", "B", TRUE, FALSE), Db("include", "C", FALSE, FALSE),
   Db("include", "", FALSE, FALSE), Db("include", "SQLCA", FALSE, FALSE),
   Db("type", "", TRUE, FALSE), Db("badtype", "", FALSE, FALSE)}
MCFound == {"A", "B"}
(* A includes B, and ends with an END; B has SQL that is continued.        *)
MCMembers ==
  { ("A" :> <<Db("include", "B", FALSE, FALSE), Db("end", "", FALSE, FALSE)>> @@
     "B" :> <<Db("plain", "", TRUE, FALSE), Db("end", "", FALSE, TRUE), Db("sql", "", TRUE, FALSE)>>),
    ("A" :> <<Db("process", "", FALSE, FALSE), Db("include", "SQLCA", FALSE, FALSE)>> @@ "B" :> <<>>) }

(* Files of up to three blocks: a line without anything, symbols, titles issued
   by open code, by a macro of the file and by a copy member, a call that
   issues a title and has a label, one that issues two titles, and definitions
   of macros with one and with two labels *)
Blocks == {"-", "A", "B", "T", "U", "TA", "TU", "M", "N"}
Size(b) == CASE b = "M" -> 3 [] b = "N" -> 4 [] OTHER -> 1
Sizes(f) == FoldSeq(LAMBDA b, n : Size(b) + n, 0, f)
Start(f, i) == Sizes(SubSeq(f, 1, i - 1))

Frame(h, l, mac) == [here |-> h, line |-> l, macro |-> mac]
Direct(n, l)  == [name |-> n, stack |-> <<Frame(TRUE, l, FALSE)>>]
ByMacro(n, l) == [name |-> n, stack |-> <<Frame(TRUE, 0, TRUE), Frame(TRUE, l, FALSE)>>]
ByCopy(n, l)  == [name |-> n, stack |-> <<Frame(FALSE, 7, FALSE), Frame(TRUE, l, FALSE)>>]

TitlesAt(b, l) == CASE b = "T" -> <<Direct("T", l)>> [] b = "U" -> <<ByCopy("U", l)>>
                    [] b = "TA" -> <<ByMacro("T", l)>>
                    [] b = "TU" -> <<ByMacro("T", l), ByMacro("U", l)>> [] OTHER -> <<>>
MacrosAt(b, l) ==
  CASE b = "M" -> <<[name |-> "M", first |-> l, last |-> l + 2, labels |-> <<l + 1>>]>>
    [] b = "N" -> <<[name |-> "N", first |-> l, last |-> l + 3, labels |-> <<l + 2, l + 1>>]>>
    [] OTHER   -> <<>>
\* A symbol within a macro is one of open code that was read again by a lookahead
SymbolsAt(b, l) == CASE b = "A" -> <<[name |-> "A", line |-> l]>>
                     [] b = "TA" -> <<[name |-> "A", line |-> l]>>
                     [] b = "B" -> <<[name |-> "B", line |-> l]>>
                     [] b = "M" -> <<[name |-> "A", line |-> l + 1]>> [] OTHER -> <<>>

Of(At(_, _), f) == FlattenSeq([i \in DOMAIN f |-> At(f[i], Start(f, i))])

MCInputs == {[lines |-> Sizes(f), titles |-> Of(TitlesAt, f), macros |-> Of(MacrosAt, f),
              symbols |-> Of(SymbolsAt, f)] :
               f \in UNION {[1 .. n -> Blocks] : n \in 1 .. 3}}

(* Macros with an inner macro, called not at all, once or twice, and a macro
   that is defined again *)
Occ(k, n, v, o) == [k |-> k, n |-> n, v |-> v, o |-> o]

\* MACRO OUT &P ... MACRO IN &P ... MEND ... MEND
Nest == << Occ("MACRO", "MACRO", "", ""), Occ("PROTO", "OUT", "P", ""), Occ("SET", "SETA", "V", ""),
           Occ("MACRO", "MACRO", "", ""), Occ("PROTO", "IN", "P", ""), Occ("SET", "SETA", "V", ""),
             Occ("OP", "LR", "V", "S"), Occ("MEND", "MEND", "", ""),
           Occ("OP", "LR", "V", "S"), Occ("OP", "IN", "P", ""), Occ("MEND", "MEND", "", "") >>
Again == << Occ("MACRO", "MACRO", "", ""), Occ("PROTO", "IN", "", ""), Occ("OP", "LR", "V", ""),
            Occ("MEND", "MEND", "", "") >>
Calls == { <<>>, <<Occ("OP", "OUT", "", "S")>>, <<Occ("OP", "OUT", "V", ""), Occ("OP", "OUT", "V", "S")>>,
           <<Occ("OP", "IN", "V", ""), Occ("OP", "OUT", "", ""), Occ("OP", "IN", "", "")>> }
Opens == { <<>>, <<Occ("SET", "SETA", "V", "")>> }

MCSources ==
  {o \o d \o c \o e : o \in Opens, d \in {Nest, Nest \o Again, Again \o Nest}, c \in Calls, e \in Opens}
  \union {o \o Nest \o c \o Again \o c : o \in Opens, c \in Calls}

(* Formats as in instruction_details.thh, with tables of up to three
   transformations of the forms there *)
F(t) == [type |-> t, opt |-> FALSE]
Optional(t) == [type |-> t, opt |-> TRUE]

Branches == {
  [formats |-> <<F("MASK"), F("DXB")>>, target |-> 1, nonzero |-> 0],
  [formats |-> <<F("MASK"), F("RI")>>, target |-> 1, nonzero |-> 0],
  [formats |-> <<F("REG"), F("IMM"), F("MASK"), F("RI")>>, target |-> 3, nonzero |-> 2],
  [formats |-> <<F("REG"), F("REG"), F("MASK"), F("DB")>>, target |-> 3, nonzero |-> 2],
  [formats |-> <<F("REG"), F("REG"), F("RI")>>, target |-> 2, nonzero |-> -1] }
Others == {
  [formats |-> <<F("REG"), F("REG"), F("IMM"), F("IMM"), Optional("IMM")>>, target |-> -1, nonzero |-> -1],
  [formats |-> <<F("REG"), F("REG"), F("REG"), Optional("MASK"), Optional("MASK")>>, target |-> -1, nonzero |-> -1],
  [formats |-> <<F("REG"), F("DXB"), F("MASK")>>, target |-> -1, nonzero |-> -1],
  [formats |-> <<F("DLB"), F("DB"), F("IMM")>>, target |-> -1, nonzero |-> -1] }

T(s, i, k, n) == [skip |-> s, insert |-> i, kind |-> k, src |-> n]
Inserting == {T(s, TRUE, k, 0) : s \in 0 .. 4, k \in {"zero", "value"}}
Replacing == {T(s, FALSE, "src", n) : s \in 0 .. 3, n \in {3}}
Computed  == {T(0, TRUE, "src", 3)}

Tables == {<<>>} \union {<<a>> : a \in Inserting \union Replacing}
  \union {<<a, b>> : a \in Inserting, b \in Inserting \union Replacing}
  \union {<<T(2, FALSE, "zero", 0), b, b>> : b \in Computed}
InsertTables == {t \in Tables : \A i \in DOMAIN t : t[i].insert}

With(i, t) == [formats |-> i.formats, table |-> t, target |-> i.target, nonzero |-> i.nonzero]

Fits(i) == FoldLeft(LAMBDA n, x : n + x.skip + 1, 0, i.table) <= Len(i.formats)

MCInstructions ==
  {i \in {With(o, t) : o \in Others, t \in Tables} : Fits(i)}
  \union {With(i, t) : i \in Branches, t \in InsertTables}

MCOperands == {[val |-> v, first |-> a, second |-> b] :
                 v \in {"ABS", "RELOC"}, a, b \in BOOLEAN}
              \union {[val |-> "UNDEF", first |-> FALSE, second |-> FALSE]}

(* One program: control section A, a dummy section D, A resumed; three pages of
   code, two of them with one title. The other documents lack one line or two. *)
Plain(k)             == [k |-> k]
Titled(t)             == [k |-> "title", t |-> t]
Header(d)             == [k |-> "header", dsect |-> d]
Stmt(n, a, l, s, t) == [k |-> "stmt", no |-> n, address |-> a, label |-> l, section |-> s, truth |-> t]
Sy(n, d, p, s, j, r) == [k |-> "symbol", name |-> n, defined |-> d, pure |-> p, section |-> s,
                         loctr |-> j, reloc |-> r]

MCProgram ==
  << Plain("options"), Plain("text"), Plain("externals"), [k |-> "ext", address |-> 0, length |-> 16],
     Titled("P"), Plain("text"), Header(FALSE),
       Stmt(1, 0, "A", TRUE, TRUE), Stmt(2, 0, "B", FALSE, TRUE), Plain("diag"), Stmt(3, 4, "", FALSE, TRUE),
     Plain("diag"), Titled("P"), Header(FALSE), Stmt(4, 8, "", FALSE, TRUE), Stmt(5, 0, "D", TRUE, FALSE),
     Titled("Q"), Header(TRUE), Stmt(6, 0, "X", FALSE, FALSE), Stmt(7, -1, "E", FALSE, FALSE),
       Stmt(8, 4, "", FALSE, FALSE), Plain("diag"), Stmt(9, 0, "A", FALSE, TRUE),
       Stmt(10, 12, "", FALSE, TRUE), Stmt(11, -1, "", FALSE, TRUE),
     Plain("ordinary"), Sy("A", {1}, {9}, 0, TRUE, TRUE), Sy("B", {2}, {}, 0, FALSE, TRUE),
       Sy("D", {5}, {}, -1, TRUE, TRUE), Sy("E", {7}, {}, 0, FALSE, FALSE), Sy("X", {6}, {}, -1, FALSE, TRUE),
     Plain("dsects"), [k |-> "dsect", name |-> "D", defined |-> 5, section |-> -1],
     Plain("usings"), [k |-> "using", no |-> 3, section |-> 0], [k |-> "using", no |-> 6, section |-> -1],
     Plain("summary"), Plain("text"), Plain("return") >>

\* Lines the listing can do without: page breaks, diagnostics, cross reference
\* of a dummy section, usings, text
Dispensable == {n \in DOMAIN MCProgram :
               \/ MCProgram[n].k \in {"diag", "text", "dsect", "using", "usings", "summary", "return"}
               \/ MCProgram[n].k = "symbol" /\ MCProgram[n].name \in {"B", "D", "E"}}

Without(R) == SelectSeq([n \in DOMAIN MCProgram |-> [n |-> n, l |-> MCProgram[n]]],
                        LAMBDA x : x.n \notin R)

\* The dummy section is in one of the two references at least
Removed == {O \in SUBSET Dispensable :
              /\ Cardinality(O) <= 2
              /\ \E n \in DOMAIN MCProgram \ O : MCProgram[n].k \in {"symbol", "dsect"} /\ MCProgram[n].name = "D"}

MCTexts == {[n \in DOMAIN Without(R) |-> Without(R)[n].l] : R \in Removed}

(* What the texts of operands are put together from.                       *)
Singles(chars) == {<<c>> : c \in chars}

MCMachine ==
  [mach |-> Singles({"1", "A", "(", ")", ",", "+", "*", "'"})
              \cup {<<"L", "'">>, <<"C", "'">>}]
MCLiterals ==
  [mach |-> {<<"=", "A", "(">>, <<"=", "A", "'", "'">>, <<"L", "'">>, <<")">>,
             <<"A">>, <<",">>, <<"+">>, <<"(">>, <<" ">>},
   dat |-> {<<"A", "(">>, <<"=", "A", "(">>, <<"=", "A", "'", "'">>, <<"L", "'">>,
            <<")">>, <<",">>, <<" ">>}]
MCDefinitions ==
  [dat |-> {<<"1">>, <<"(">>, <<")">>, <<"'">>, <<"A">>, <<"C">>, <<"L">>, <<"E">>,
            <<".">>, <<"P">>, <<"1", "9">>, <<"-", "1", "0">>, <<"S">>}]
MCAssembler ==
  [asm |-> Singles({"1", "A", "(", ")", ",", "'", "+", " "}),
   alias |-> Singles({"C", "A", ",", "'", "&", " "}),
   end |-> Singles({"A", "(", ")", ",", " "}),
   using |-> Singles({"1", "A", "(", ")", ",", "-", "."})]


MCExpressions ==
  [expression |-> Singles({"A", "&A", "(", ")", ",", "'", " ", "N"})
                    \cup {<<"F", "(">>}]
MCStrings ==
  [expression |-> {<<"'", "A", "'">>, <<"(", "1", ",", "1", ")">>, <<"(", "1", ",", "*">>,
                   <<"(">>, <<"1">>, <<")">>, <<" ">>, <<"F", "(">>, <<",">>}]
MCTerms ==
  [expression |-> {<<"L", "'">>, <<"X", "'">>, <<"'">>, <<"&A">>, <<"&(">>, <<"&&">>, <<".">>,
                   <<"-">>, <<"(">>, <<")">>}]
MCBranches ==
  [branch |-> {<<".">>, <<"A">>, <<"(">>, <<")">>, <<",">>, <<"&A">>, <<"'">>, <<" ">>},
   definition |-> {<<"A">>, <<"1">>, <<"&A">>, <<"&(">>, <<"&?">>, <<"&&">>, <<"(">>, <<")">>, <<",">>}]

(* The values of variable symbols.                                         *)
OneValue == {<<"A">>}
SomeValues == {<<>>, <<"A">>, <<"W", "A">>}

VARIABLES
  part,
  \* OperandChecks, DataDefinition
  dataInstr, operands, start, chunk, loctr, checked, accepted, bits, says, done,
  \* OperandChecks, NominalValues
  kind, text, at, nominalValuesPart, verdict,
  \* OperandChecks, AsmChecks
  asmInstr, asmOps, result,
  \* CaExpressions, CaArithmetic
  wordBefore, wordOp, operand, wordAcc, message,
  \* CaExpressions, CaStrings
  caStringsText, dup, range, term, messages, stringBefore, stringAcc, stringTerms,
  \* CaExpressions, CaFunctions
  given, notationKind, value,
  \* CaExpressions, CaExprList
  listKind, bare, list, i, prefer, listTerms, ops, outcome, errors,
  \* Preprocessors, CicsPreprocessor
  cicsDoc, pos, skip, allowed, options, flags, cicsOut, cicsDiags, cicsOver,
  \* Preprocessors, CicsOperands
  execText, lines, b, execLast, new, execOut, execResult,
  \* Preprocessors, Db2Preprocessor
  dbDoc, conditional, nest, translated, dbOut, dbDiags, dbStatements, dbMembers,
  dbResult,
  \* Preprocessors, EndevorPreprocessor
  endevorDoc, stack, endevorOut, endevorDiags, endevorStatements, endevorMembers,
  asked, endevorOver,
  \* LspServices, Outline
  input, step, outlineResult,
  \* LspServices, LspOccurrences
  source, occurrenceAt, occurrenceStack, def, macros, table, openOcc, openVars,
  macroOcc, inMacro, lspOccurrencesNest, finished,
  \* LspServices, Mnemonics
  instr, count, phase, todo, processed, fmt, evaluated, out, cur,
  \* LspServices, ListingServices
  listingServicesText, listingI, state, opened, lastTitle, listing, symbol,
  listingServicesDone,
  \* StatementParsing, StatementFields
  fieldText, process, reader, fieldAt, fieldFrom, statementFieldsPart, special,
  fields, told, looked,
  \* StatementParsing, OperandParser
  format, operandText, operandAt, fieldPhase, goals, fieldAllowed, fieldSays, fieldOperands, literals,
  rest,
  \* MacroParsing, MacroOperands
  macroText, macroLines, macroAt, macroPhase, macroGoals, chains, macroSpecial, named,
  macroOperands, remarks, macroSays,
  \* MacroParsing, CaOperandParser
  caKind, caText, caAt, caPhase, pending, caGoals, spaces, caOperands, silent, caSays,
  caRest,
  \* MacroParsing, ModelStatement
  modelText, modelAt, modelStatementPart, modelSpecial, open, modelChain, modelVerdict,
  values

(* Several data definitions in a row, and one of every type.               *)
Storage == INSTANCE OperandChecks WITH
            Candidates <- MCSeveral, Starts <- {0, 5}, MaxLength <- 50, Kinds <- {},
            NominalChars <- {}, MaxChars <- 0, Examined <- {}, Operand <- MCOperand,
            MaxOperands <- MCMaxOperands, part <- nominalValuesPart
DataTypes == INSTANCE OperandChecks WITH
              Candidates <- MCEveryType, Starts <- {0}, MaxLength <- 70000,
              Kinds <- {}, NominalChars <- {}, MaxChars <- 0, Examined <- {},
              Operand <- MCOperand, MaxOperands <- MCMaxOperands,
              part <- nominalValuesPart

(* Texts of nominal values; operands of assembler instructions.            *)
Nominal == INSTANCE OperandChecks WITH
            Candidates <- MCSeveral, Starts <- {0, 5}, MaxLength <- 50,
            Kinds <- {"word", "decimal", "none", "B", "D"},
            NominalChars <- {"1", "8", "+", ".", "E", "R", ",", " ", "name", "other"},
            MaxChars <- 3, Examined <- {}, Operand <- MCOperand,
            MaxOperands <- MCMaxOperands, part <- nominalValuesPart

Checks == INSTANCE OperandChecks WITH
           Candidates <- MCSeveral, Starts <- {0, 5}, MaxLength <- 50, Kinds <- {},
           NominalChars <- {}, MaxChars <- 0, Examined <- MCExamined,
           Operand <- MCOperand, MaxOperands <- MCMaxOperands,
           part <- nominalValuesPart

(* Conditional assembly: one list is of operators of every priority, the   *)
(* other of the terms that are compared.                                   *)
Expressions == INSTANCE CaExpressions WITH
                Width <- 5, ShiftBits <- 4, Chars <- {0, 1}, StringMaxString <- 4,
                MaxText <- 2, MaxTerms <- 2, DigitBits <- 2, NotationMaxString <- 8,
                MaxInput <- 4,
                Tokens <- {"list", "AND", "NOT", "EQ", "SLA", "AND()"},
                MaxList <- 4, text <- caStringsText

Comparands == INSTANCE CaExpressions WITH
               Width <- 5, ShiftBits <- 4, Chars <- {0, 1}, StringMaxString <- 4,
               MaxText <- 2, MaxTerms <- 2, DigitBits <- 2, NotationMaxString <- 8,
               MaxInput <- 4,
               Tokens <- {"1", "'x'", "&v", "INDEX", "UPPER", "EQ", "NOT", "OR"},
               MaxList <- 4, text <- caStringsText

(* The preprocessors; CICS with continued statements, and with sections.   *)
Preprocess == INSTANCE Preprocessors WITH
               CicsLines <- MCContinued, CicsMaxLine <- 4, Options <- MCOptions,
               ExecMaxText <- 4, DbLines <- MCLines, DbMaxLine <- 3,
               Members <- MCMembers, DbFound <- MCFound, Member <- {"A", "B"},
               EndevorMaxLine <- 2, EndevorMaxText <- 2
CicsSections == INSTANCE Preprocessors WITH
                 CicsLines <- MCSections, CicsMaxLine <- 4, Options <- MCOptions,
                 ExecMaxText <- 4, DbLines <- MCLines, DbMaxLine <- 3,
                 Members <- MCMembers, DbFound <- MCFound, Member <- {"A", "B"},
                 EndevorMaxLine <- 2, EndevorMaxText <- 2

Services == INSTANCE LspServices WITH
             Inputs <- MCInputs, Sources <- MCSources,
             Instructions <- MCInstructions, Operands <- MCOperands,
             Texts <- MCTexts, result <- outlineResult, nest <- lspOccurrencesNest,
             text <- listingServicesText, done <- listingServicesDone

(* Fields of statements and operands of machine instructions; literals;      *)
(* nominal values; operands of assembler instructions.                     *)
Machine == INSTANCE StatementParsing WITH
            Chars <- {"A", "1", "L", "C", " ", ".", "&", "'", "=", "*PROCESS"},
            MaxChars <- 4, Pieces <- MCMachine, MaxPieces <- 4, NumberLimit <- 12,
            LengthKnown <- TRUE, part <- statementFieldsPart, operands <- fieldOperands,
            phase <- fieldPhase, allowed <- fieldAllowed, says <- fieldSays

Literals == INSTANCE StatementParsing WITH
             Chars <- {"A", "1", "L", "C", " ", ".", "&", "'", "=", "*PROCESS"},
             MaxChars <- 4, Pieces <- MCLiterals, MaxPieces <- 4, NumberLimit <- 12,
             LengthKnown <- FALSE, part <- statementFieldsPart, operands <- fieldOperands,
            phase <- fieldPhase, allowed <- fieldAllowed, says <- fieldSays
Definitions == INSTANCE StatementParsing WITH
                Chars <- {"A", "1", "L", "C", " ", ".", "&", "'", "=", "*PROCESS"},
                MaxChars <- 4, Pieces <- MCDefinitions, MaxPieces <- 3,
                NumberLimit <- 10, LengthKnown <- TRUE, part <- statementFieldsPart, operands <- fieldOperands,
            phase <- fieldPhase, allowed <- fieldAllowed, says <- fieldSays
Assembler == INSTANCE StatementParsing WITH
              Chars <- {"A", "1", "L", "C", " ", ".", "&", "'", "=", "*PROCESS"},
              MaxChars <- 4, Pieces <- MCAssembler, MaxPieces <- 4,
              NumberLimit <- 12, LengthKnown <- TRUE, part <- statementFieldsPart, operands <- fieldOperands,
            phase <- fieldPhase, allowed <- fieldAllowed, says <- fieldSays

(* Operands of macros, also over lines; expressions, strings, terms and     *)
(* branches of conditional assembly; texts of model statements.            *)
CaOperands == INSTANCE MacroParsing WITH
                Characters <- {"A", "L", "=", "'", "(", ")", ",", " ", "&V", "&?"},
                MaxText <- 4, LineEnds <- {}, Pieces <- MCExpressions,
                MaxPieces <- 4, InString <- FALSE,
                Chars <- {"A", "L", "&", ".", "'", " ", "="}, MaxChars <- 5,
                Values <- OneValue, ModelFirst <- 2, PerLine <- 3, StartColumn <- 3,
                ContinuedColumn <- 2, DefaultLimit <- 20, part <- modelStatementPart,
            lines <- macroLines, kind <- caKind, verdict <- modelVerdict
Strings == INSTANCE MacroParsing WITH
            Characters <- {"A", "(", ")", ",", " "}, MaxText <- 5,
            LineEnds <- {3, 4}, Pieces <- MCStrings, MaxPieces <- 4,
            InString <- FALSE, Chars <- {"A", "L", "&", ".", "'", " ", "=", "*"},
            MaxChars <- 5, Values <- OneValue, ModelFirst <- 2, PerLine <- 3,
            StartColumn <- 3, ContinuedColumn <- 2, DefaultLimit <- 20,
            part <- modelStatementPart,
            lines <- macroLines, kind <- caKind, verdict <- modelVerdict

Terms == INSTANCE MacroParsing WITH
          Characters <- {"A", "L", "=", "'", "(", ")", ",", " ", "&V", "&?"},
          MaxText <- 4, LineEnds <- {}, Pieces <- MCTerms, MaxPieces <- 4,
          InString <- FALSE, Chars <- {"A", "W", "&", ".", "="}, MaxChars <- 5,
          Values <- SomeValues, ModelFirst <- 4, PerLine <- 5, StartColumn <- 3,
          ContinuedColumn <- 2, DefaultLimit <- 20, part <- modelStatementPart,
            lines <- macroLines, kind <- caKind, verdict <- modelVerdict
CaBranches == INSTANCE MacroParsing WITH
             Characters <- {"A", "L", "=", "'", "(", ")", ",", " ", "&V", "&?"},
             MaxText <- 4, LineEnds <- {}, Pieces <- MCBranches, MaxPieces <- 4,
             InString <- TRUE, Chars <- {"A", "L", "&", ".", "'", " ", "=", "*"},
             MaxChars <- 5, Values <- OneValue, ModelFirst <- 2, PerLine <- 3,
             StartColumn <- 3, ContinuedColumn <- 2, DefaultLimit <- 20,
             part <- modelStatementPart,
            lines <- macroLines, kind <- caKind, verdict <- modelVerdict

ASSUME CaOperands!LayoutAssumption /\ Terms!LayoutAssumption

ASSUME
  /\ Expressions!ArithmeticAssumption /\ Expressions!StringsAssumption
  /\ Expressions!FunctionsAssumption /\ Preprocess!CicsAssumption
  /\ CicsSections!CicsAssumption /\ Preprocess!OperandsAssumption
  /\ Preprocess!Db2Assumption /\ Preprocess!EndevorAssumption

dataDefinitionVars == <<dataInstr, operands, start, chunk, loctr, checked, accepted,
                        bits, says, done>>
nominalValuesVars == <<kind, text, at, nominalValuesPart, verdict>>
asmChecksVars == <<asmInstr, asmOps, result>>
caArithmeticVars == <<wordBefore, wordOp, operand, wordAcc, message>>
caStringsVars == <<caStringsText, dup, range, term, messages, stringBefore,
                   stringAcc, stringTerms>>
caFunctionsVars == <<given, notationKind, value>>
caExprListVars == <<listKind, bare, list, i, prefer, listTerms, ops, outcome, errors>>
cicsPreprocessorVars == <<cicsDoc, pos, skip, allowed, options, flags, cicsOut,
                          cicsDiags, cicsOver>>
cicsOperandsVars == <<execText, lines, b, execLast, new, execOut, execResult>>
db2PreprocessorVars == <<dbDoc, conditional, nest, translated, dbOut, dbDiags,
                         dbStatements, dbMembers, dbResult>>
endevorPreprocessorVars == <<endevorDoc, stack, endevorOut, endevorDiags,
                             endevorStatements, endevorMembers, asked, endevorOver>>
outlineVars == <<input, step, outlineResult>>
lspOccurrencesVars == <<source, occurrenceAt, occurrenceStack, def, macros, table,
                        openOcc, openVars, macroOcc, inMacro, lspOccurrencesNest,
                        finished>>
mnemonicsVars == <<instr, count, phase, todo, processed, fmt, evaluated, out, cur>>
listingServicesVars == <<listingServicesText, listingI, state, opened, lastTitle,
                         listing, symbol, listingServicesDone>>
analysisVars == <<dataDefinitionVars, nominalValuesVars, asmChecksVars, caArithmeticVars, caStringsVars, caFunctionsVars, caExprListVars, cicsPreprocessorVars, cicsOperandsVars, db2PreprocessorVars, endevorPreprocessorVars, outlineVars, lspOccurrencesVars, mnemonicsVars, listingServicesVars>>

statementFieldsVars == <<fieldText, process, reader, fieldAt, fieldFrom,
                         statementFieldsPart, special, fields, told, looked>>
operandParserVars == <<format, operandText, operandAt, fieldPhase, goals, fieldAllowed, fieldSays,
                       fieldOperands, literals, rest>>
macroOperandsVars == <<macroText, macroLines, macroAt, macroPhase, macroGoals, chains,
                       macroSpecial, named, macroOperands, remarks, macroSays>>
caOperandParserVars == <<caKind, caText, caAt, caPhase, pending, caGoals, spaces,
                         caOperands, silent, caSays, caRest>>
modelStatementVars == <<modelText, modelAt, modelStatementPart, modelSpecial, open,
                        modelChain, modelVerdict, values>>
parserVars == <<statementFieldsVars, operandParserVars, macroOperandsVars, caOperandParserVars, modelStatementVars>>
allVars == <<part, analysisVars, parserVars>>

DataDefinitionAtRest ==
  /\ dataInstr = Unused /\ operands = Unused /\ start = Unused /\ chunk = Unused
  /\ loctr = Unused /\ checked = Unused /\ accepted = Unused /\ bits = Unused
  /\ says = Unused /\ done = Unused
NominalValuesAtRest ==
  /\ kind = Unused /\ text = Unused /\ at = Unused /\ nominalValuesPart = Unused
  /\ verdict = Unused
AsmChecksAtRest ==
  /\ asmInstr = Unused /\ asmOps = Unused /\ result = Unused
CaArithmeticAtRest ==
  /\ wordBefore = Unused /\ wordOp = Unused /\ operand = Unused /\ wordAcc = Unused
  /\ message = Unused
CaStringsAtRest ==
  /\ caStringsText = Unused /\ dup = Unused /\ range = Unused /\ term = Unused
  /\ messages = Unused /\ stringBefore = Unused /\ stringAcc = Unused
  /\ stringTerms = Unused
CaFunctionsAtRest ==
  /\ given = Unused /\ notationKind = Unused /\ value = Unused
CaExprListAtRest ==
  /\ listKind = Unused /\ bare = Unused /\ list = Unused /\ i = Unused /\ prefer = Unused
  /\ listTerms = Unused /\ ops = Unused /\ outcome = Unused /\ errors = Unused
CicsPreprocessorAtRest ==
  /\ cicsDoc = Unused /\ pos = Unused /\ skip = Unused /\ allowed = Unused
  /\ options = Unused /\ flags = Unused /\ cicsOut = Unused /\ cicsDiags = Unused
  /\ cicsOver = Unused
CicsOperandsAtRest ==
  /\ execText = Unused /\ lines = Unused /\ b = Unused /\ execLast = Unused
  /\ new = Unused /\ execOut = Unused /\ execResult = Unused
Db2PreprocessorAtRest ==
  /\ dbDoc = Unused /\ conditional = Unused /\ nest = Unused /\ translated = Unused
  /\ dbOut = Unused /\ dbDiags = Unused /\ dbStatements = Unused
  /\ dbMembers = Unused /\ dbResult = Unused
EndevorPreprocessorAtRest ==
  /\ endevorDoc = Unused /\ stack = Unused /\ endevorOut = Unused
  /\ endevorDiags = Unused /\ endevorStatements = Unused /\ endevorMembers = Unused
  /\ asked = Unused /\ endevorOver = Unused
OutlineAtRest ==
  /\ input = Unused /\ step = Unused /\ outlineResult = Unused
LspOccurrencesAtRest ==
  /\ source = Unused /\ occurrenceAt = Unused /\ occurrenceStack = Unused
  /\ def = Unused /\ macros = Unused /\ table = Unused /\ openOcc = Unused
  /\ openVars = Unused /\ macroOcc = Unused /\ inMacro = Unused
  /\ lspOccurrencesNest = Unused /\ finished = Unused
MnemonicsAtRest ==
  /\ instr = Unused /\ count = Unused /\ phase = Unused /\ todo = Unused
  /\ processed = Unused /\ fmt = Unused /\ evaluated = Unused /\ out = Unused
  /\ cur = Unused
ListingServicesAtRest ==
  /\ listingServicesText = Unused /\ listingI = Unused /\ state = Unused
  /\ opened = Unused /\ lastTitle = Unused /\ listing = Unused
  /\ symbol = Unused /\ listingServicesDone = Unused

StatementFieldsAtRest ==
  /\ fieldText = Unused /\ process = Unused /\ reader = Unused /\ fieldAt = Unused
  /\ fieldFrom = Unused /\ statementFieldsPart = Unused /\ special = Unused
  /\ fields = Unused /\ told = Unused /\ looked = Unused
OperandParserAtRest ==
  /\ format = Unused /\ operandText = Unused /\ operandAt = Unused /\ fieldPhase = Unused
  /\ goals = Unused /\ fieldAllowed = Unused /\ fieldSays = Unused /\ fieldOperands = Unused
  /\ literals = Unused /\ rest = Unused
MacroOperandsAtRest ==
  /\ macroText = Unused /\ macroLines = Unused /\ macroAt = Unused /\ macroPhase = Unused
  /\ macroGoals = Unused /\ chains = Unused /\ macroSpecial = Unused
  /\ named = Unused /\ macroOperands = Unused /\ remarks = Unused
  /\ macroSays = Unused
CaOperandParserAtRest ==
  /\ caKind = Unused /\ caText = Unused /\ caAt = Unused /\ caPhase = Unused
  /\ pending = Unused /\ caGoals = Unused /\ spaces = Unused /\ caOperands = Unused
  /\ silent = Unused /\ caSays = Unused /\ caRest = Unused
ModelStatementAtRest ==
  /\ modelText = Unused /\ modelAt = Unused /\ modelStatementPart = Unused
  /\ modelSpecial = Unused /\ open = Unused /\ modelChain = Unused
  /\ modelVerdict = Unused /\ values = Unused

ParserInit ==
  /\ IF part = "fields" THEN Machine!FieldInit ELSE StatementFieldsAtRest
  /\ CASE part = "machine operands" -> Machine!OperandInit
       [] part = "literals" -> Literals!OperandInit
       [] part = "definitions" -> Definitions!OperandInit
       [] part = "assembler statements" -> Assembler!OperandInit
       [] OTHER -> OperandParserAtRest
  /\ CASE part = "macro operands" -> CaOperands!MacroInit
       [] part = "macro lines" -> Strings!MacroInit
       [] OTHER -> MacroOperandsAtRest
  /\ CASE part = "expressions" -> CaOperands!CaInit
       [] part = "string operands" -> Strings!CaInit
       [] part = "terms" -> Terms!CaInit
       [] part = "branches" -> CaBranches!CaInit
       [] OTHER -> CaOperandParserAtRest
  /\ CASE part = "model statements" -> CaOperands!ModelInit
       [] part = "model places" -> Terms!ModelInit
       [] OTHER -> ModelStatementAtRest

AnalysisInit ==
  /\ part \in {"data storage", "data types", "nominal values", "assembler operands",
               "arithmetic", "strings", "notations", "lists", "comparands", "cics",
               "cics sections", "exec operands", "db2", "endevor", "outline",
               "occurrences", "mnemonics", "listings",
               "fields", "machine operands", "literals", "definitions", "assembler statements",
               "macro operands", "expressions", "model statements",
               "macro lines", "string operands", "terms", "model places", "branches"}
  /\ ParserInit
  /\ CASE part = "data storage" -> Storage!DataInit
       [] part = "data types" -> DataTypes!DataInit
       [] OTHER -> DataDefinitionAtRest
  /\ IF part = "nominal values" THEN Nominal!NominalInit ELSE NominalValuesAtRest
  /\ IF part = "assembler operands" THEN Checks!AsmInit ELSE AsmChecksAtRest
  /\ IF part = "arithmetic" THEN Expressions!WordInit ELSE CaArithmeticAtRest
  /\ IF part = "strings" THEN Expressions!StringInit ELSE CaStringsAtRest
  /\ IF part = "notations" THEN Expressions!NotationInit ELSE CaFunctionsAtRest
  /\ CASE part = "lists" -> Expressions!ListInit
       [] part = "comparands" -> Comparands!ListInit
       [] OTHER -> CaExprListAtRest
  /\ CASE part = "cics" -> Preprocess!CicsInit
       [] part = "cics sections" -> CicsSections!CicsInit
       [] OTHER -> CicsPreprocessorAtRest
  /\ IF part = "exec operands" THEN Preprocess!ExecInit ELSE CicsOperandsAtRest
  /\ IF part = "db2" THEN Preprocess!DbInit ELSE Db2PreprocessorAtRest
  /\ IF part = "endevor" THEN Preprocess!EndevorInit ELSE EndevorPreprocessorAtRest
  /\ IF part = "outline" THEN Services!OutlineInit ELSE OutlineAtRest
  /\ IF part = "occurrences" THEN Services!OccurrenceInit ELSE LspOccurrencesAtRest
  /\ IF part = "mnemonics" THEN Services!MnemonicInit ELSE MnemonicsAtRest
  /\ IF part = "listings" THEN Services!ListingInit ELSE ListingServicesAtRest

ParserNext ==
  \/ part = "fields" /\ Machine!FieldNext
     /\ UNCHANGED <<part, operandParserVars, macroOperandsVars, caOperandParserVars,
                    modelStatementVars>>
  \/ part = "machine operands" /\ Machine!OperandNext
     /\ UNCHANGED <<part, statementFieldsVars, macroOperandsVars, caOperandParserVars,
                    modelStatementVars>>
  \/ part = "literals" /\ Literals!OperandNext
     /\ UNCHANGED <<part, statementFieldsVars, macroOperandsVars, caOperandParserVars,
                    modelStatementVars>>
  \/ part = "definitions" /\ Definitions!OperandNext
     /\ UNCHANGED <<part, statementFieldsVars, macroOperandsVars, caOperandParserVars,
                    modelStatementVars>>
  \/ part = "assembler statements" /\ Assembler!OperandNext
     /\ UNCHANGED <<part, statementFieldsVars, macroOperandsVars, caOperandParserVars,
                    modelStatementVars>>
  \/ part = "macro operands" /\ CaOperands!MacroNext
     /\ UNCHANGED <<part, statementFieldsVars, operandParserVars, caOperandParserVars,
                    modelStatementVars>>
  \/ part = "macro lines" /\ Strings!MacroNext
     /\ UNCHANGED <<part, statementFieldsVars, operandParserVars, caOperandParserVars,
                    modelStatementVars>>
  \/ part = "expressions" /\ CaOperands!CaNext
     /\ UNCHANGED <<part, statementFieldsVars, operandParserVars, macroOperandsVars,
                    modelStatementVars>>
  \/ part = "string operands" /\ Strings!CaNext
     /\ UNCHANGED <<part, statementFieldsVars, operandParserVars, macroOperandsVars,
                    modelStatementVars>>
  \/ part = "terms" /\ Terms!CaNext
     /\ UNCHANGED <<part, statementFieldsVars, operandParserVars, macroOperandsVars,
                    modelStatementVars>>
  \/ part = "branches" /\ CaBranches!CaNext
     /\ UNCHANGED <<part, statementFieldsVars, operandParserVars, macroOperandsVars,
                    modelStatementVars>>
  \/ part = "model statements" /\ CaOperands!ModelNext
     /\ UNCHANGED <<part, statementFieldsVars, operandParserVars, macroOperandsVars,
                    caOperandParserVars>>
  \/ part = "model places" /\ Terms!ModelNext
     /\ UNCHANGED <<part, statementFieldsVars, operandParserVars, macroOperandsVars,
                    caOperandParserVars>>

ServiceNext ==
  \/ part = "data storage" /\ Storage!DataNext
     /\ UNCHANGED <<part, nominalValuesVars, asmChecksVars, caArithmeticVars,
                    caStringsVars, caFunctionsVars, caExprListVars,
                    cicsPreprocessorVars, cicsOperandsVars, db2PreprocessorVars,
                    endevorPreprocessorVars, outlineVars, lspOccurrencesVars,
                    mnemonicsVars, listingServicesVars>>
  \/ part = "data types" /\ DataTypes!DataNext
     /\ UNCHANGED <<part, nominalValuesVars, asmChecksVars, caArithmeticVars,
                    caStringsVars, caFunctionsVars, caExprListVars,
                    cicsPreprocessorVars, cicsOperandsVars, db2PreprocessorVars,
                    endevorPreprocessorVars, outlineVars, lspOccurrencesVars,
                    mnemonicsVars, listingServicesVars>>
  \/ part = "nominal values" /\ Nominal!NominalNext
     /\ UNCHANGED <<part, dataDefinitionVars, asmChecksVars, caArithmeticVars,
                    caStringsVars, caFunctionsVars, caExprListVars,
                    cicsPreprocessorVars, cicsOperandsVars, db2PreprocessorVars,
                    endevorPreprocessorVars, outlineVars, lspOccurrencesVars,
                    mnemonicsVars, listingServicesVars>>
  \/ part = "assembler operands" /\ Checks!AsmNext
     /\ UNCHANGED <<part, dataDefinitionVars, nominalValuesVars, caArithmeticVars,
                    caStringsVars, caFunctionsVars, caExprListVars,
                    cicsPreprocessorVars, cicsOperandsVars, db2PreprocessorVars,
                    endevorPreprocessorVars, outlineVars, lspOccurrencesVars,
                    mnemonicsVars, listingServicesVars>>
  \/ part = "arithmetic" /\ Expressions!WordNext
     /\ UNCHANGED <<part, dataDefinitionVars, nominalValuesVars, asmChecksVars,
                    caStringsVars, caFunctionsVars, caExprListVars,
                    cicsPreprocessorVars, cicsOperandsVars, db2PreprocessorVars,
                    endevorPreprocessorVars, outlineVars, lspOccurrencesVars,
                    mnemonicsVars, listingServicesVars>>
  \/ part = "strings" /\ Expressions!StringNext
     /\ UNCHANGED <<part, dataDefinitionVars, nominalValuesVars, asmChecksVars,
                    caArithmeticVars, caFunctionsVars, caExprListVars,
                    cicsPreprocessorVars, cicsOperandsVars, db2PreprocessorVars,
                    endevorPreprocessorVars, outlineVars, lspOccurrencesVars,
                    mnemonicsVars, listingServicesVars>>
  \/ part = "notations" /\ Expressions!NotationNext
     /\ UNCHANGED <<part, dataDefinitionVars, nominalValuesVars, asmChecksVars,
                    caArithmeticVars, caStringsVars, caExprListVars,
                    cicsPreprocessorVars, cicsOperandsVars, db2PreprocessorVars,
                    endevorPreprocessorVars, outlineVars, lspOccurrencesVars,
                    mnemonicsVars, listingServicesVars>>
  \/ part = "lists" /\ Expressions!ListNext
     /\ UNCHANGED <<part, dataDefinitionVars, nominalValuesVars, asmChecksVars,
                    caArithmeticVars, caStringsVars, caFunctionsVars,
                    cicsPreprocessorVars, cicsOperandsVars, db2PreprocessorVars,
                    endevorPreprocessorVars, outlineVars, lspOccurrencesVars,
                    mnemonicsVars, listingServicesVars>>
  \/ part = "comparands" /\ Comparands!ListNext
     /\ UNCHANGED <<part, dataDefinitionVars, nominalValuesVars, asmChecksVars,
                    caArithmeticVars, caStringsVars, caFunctionsVars,
                    cicsPreprocessorVars, cicsOperandsVars, db2PreprocessorVars,
                    endevorPreprocessorVars, outlineVars, lspOccurrencesVars,
                    mnemonicsVars, listingServicesVars>>
  \/ part = "cics" /\ Preprocess!CicsNext
     /\ UNCHANGED <<part, dataDefinitionVars, nominalValuesVars, asmChecksVars,
                    caArithmeticVars, caStringsVars, caFunctionsVars,
                    caExprListVars, cicsOperandsVars, db2PreprocessorVars,
                    endevorPreprocessorVars, outlineVars, lspOccurrencesVars,
                    mnemonicsVars, listingServicesVars>>
  \/ part = "cics sections" /\ CicsSections!CicsNext
     /\ UNCHANGED <<part, dataDefinitionVars, nominalValuesVars, asmChecksVars,
                    caArithmeticVars, caStringsVars, caFunctionsVars,
                    caExprListVars, cicsOperandsVars, db2PreprocessorVars,
                    endevorPreprocessorVars, outlineVars, lspOccurrencesVars,
                    mnemonicsVars, listingServicesVars>>
  \/ part = "exec operands" /\ Preprocess!ExecNext
     /\ UNCHANGED <<part, dataDefinitionVars, nominalValuesVars, asmChecksVars,
                    caArithmeticVars, caStringsVars, caFunctionsVars,
                    caExprListVars, cicsPreprocessorVars, db2PreprocessorVars,
                    endevorPreprocessorVars, outlineVars, lspOccurrencesVars,
                    mnemonicsVars, listingServicesVars>>
  \/ part = "db2" /\ Preprocess!DbNext
     /\ UNCHANGED <<part, dataDefinitionVars, nominalValuesVars, asmChecksVars,
                    caArithmeticVars, caStringsVars, caFunctionsVars,
                    caExprListVars, cicsPreprocessorVars, cicsOperandsVars,
                    endevorPreprocessorVars, outlineVars, lspOccurrencesVars,
                    mnemonicsVars, listingServicesVars>>
  \/ part = "endevor" /\ Preprocess!EndevorNext
     /\ UNCHANGED <<part, dataDefinitionVars, nominalValuesVars, asmChecksVars,
                    caArithmeticVars, caStringsVars, caFunctionsVars,
                    caExprListVars, cicsPreprocessorVars, cicsOperandsVars,
                    db2PreprocessorVars, outlineVars, lspOccurrencesVars,
                    mnemonicsVars, listingServicesVars>>
  \/ part = "outline" /\ Services!OutlineNext
     /\ UNCHANGED <<part, dataDefinitionVars, nominalValuesVars, asmChecksVars,
                    caArithmeticVars, caStringsVars, caFunctionsVars,
                    caExprListVars, cicsPreprocessorVars, cicsOperandsVars,
                    db2PreprocessorVars, endevorPreprocessorVars,
                    lspOccurrencesVars, mnemonicsVars, listingServicesVars>>
  \/ part = "occurrences" /\ Services!OccurrenceNext
     /\ UNCHANGED <<part, dataDefinitionVars, nominalValuesVars, asmChecksVars,
                    caArithmeticVars, caStringsVars, caFunctionsVars,
                    caExprListVars, cicsPreprocessorVars, cicsOperandsVars,
                    db2PreprocessorVars, endevorPreprocessorVars, outlineVars,
                    mnemonicsVars, listingServicesVars>>
  \/ part = "mnemonics" /\ Services!MnemonicNext
     /\ UNCHANGED <<part, dataDefinitionVars, nominalValuesVars, asmChecksVars,
                    caArithmeticVars, caStringsVars, caFunctionsVars,
                    caExprListVars, cicsPreprocessorVars, cicsOperandsVars,
                    db2PreprocessorVars, endevorPreprocessorVars, outlineVars,
                    lspOccurrencesVars, listingServicesVars>>
  \/ part = "listings" /\ Services!ListingNext
     /\ UNCHANGED <<part, dataDefinitionVars, nominalValuesVars, asmChecksVars,
                    caArithmeticVars, caStringsVars, caFunctionsVars,
                    caExprListVars, cicsPreprocessorVars, cicsOperandsVars,
                    db2PreprocessorVars, endevorPreprocessorVars, outlineVars,
                    lspOccurrencesVars, mnemonicsVars>>

AnalysisNext ==
  \/ ServiceNext /\ UNCHANGED parserVars
  \/ ParserNext /\ UNCHANGED analysisVars

AnalysisSpec == AnalysisInit /\ [][AnalysisNext]_allVars

-----------------------------------------------------------------------------
(* What is evaluated and checked is what is written: the arithmetic of a   *)
(* word is exact or a message says why not, a character value is the part  *)
(* of the text its range names, a value stays the number it was through    *)
(* the conversion functions, and a list of terms becomes the tree its      *)
(* priorities give. A data definition is stored where it is counted to be, *)
(* a nominal value is accepted exactly if it is one, and an operand of an  *)
(* assembler instruction exactly if it is in the range its message names.  *)
ValuesAreRight ==
  /\ part = "arithmetic" =>
       /\ Expressions!ExactOrReported /\ Expressions!RightShiftDivides /\ Expressions!ShiftsAddUp
  /\ part = "strings" =>
       /\ Expressions!NeverTooLong /\ Expressions!TermIsPart
       /\ Expressions!NothingIsLost /\ Expressions!ComparisonIsOrder
  /\ part = "notations" =>
       /\ Expressions!NumberIsKept /\ Expressions!WordsAreNotRefused /\ Expressions!BadIsRefused
       /\ Expressions!PredicatesAgree /\ Expressions!TextIsKept
  /\ part = "lists" =>
       /\ Expressions!ReadsAsWritten /\ Expressions!PriorityDecides
       /\ Expressions!ExpressionsAreAccepted
  /\ part = "comparands" => Comparands!ComparandsAgree
  /\ part = "data storage" =>
       /\ Storage!StoredInPlace /\ Storage!CountedAsStored /\ Storage!NoStorageIsTold
  /\ part = "data types" =>
       /\ DataTypes!ValuesAreCounted /\ DataTypes!NoStorageIsTold
       /\ DataTypes!AttributeTellsAlignment /\ DataTypes!ImplicitMayBeWritten
  /\ part = "nominal values" => Nominal!ValuesAreAccepted /\ Nominal!ModeIsTold
  /\ part = "assembler operands" =>
       /\ Checks!RangesAsMessaged /\ Checks!OneComplaint
       /\ Checks!CommaIsNoOperand /\ Checks!PushSelects

(* What is made of a source for others keeps what it says: a preprocessor  *)
(* leaves every line it does not replace, in order and with its            *)
(* continuations, and inserts what it has to once; the services find every *)
(* symbol, title and operand where the source has it.                      *)
SourceIsKept ==
  /\ part = "cics" =>
       /\ Preprocess!LinesKept /\ Preprocess!CicsContinuationsKept /\ Preprocess!AfterStatement
  /\ part = "cics sections" => CicsSections!GlobalComesFirst /\ CicsSections!EndIsFound
  /\ part = "exec operands" =>
       /\ Preprocess!OperandsKept /\ Preprocess!TermsReplaced /\ Preprocess!NullRefused
  /\ part = "db2" =>
       /\ Preprocess!LinesInOrder /\ Preprocess!StorageBeforeEnd
       /\ Preprocess!DbContinuationsKept /\ Preprocess!StatementsRegistered
       /\ Preprocess!UntouchedWithoutSql
  /\ part = "endevor" =>
       /\ Preprocess!StackIsFinite /\ Preprocess!ResultIsExpansion /\ Preprocess!DiagnosticsInFile
  /\ part = "outline" =>
       /\ Services!RangesNest /\ Services!EverythingIsShown /\ Services!TitlesAreChapters
  /\ part = "occurrences" =>
       /\ Services!ScopeIsInnermost /\ Services!CollectedOnce
       /\ Services!DefinedInScope /\ Services!CallsAreOfMacros
  /\ part = "mnemonics" =>
       /\ Services!CheckedAsPlaced /\ Services!NothingIsLost /\ Services!PartsAreUsed
       /\ Services!RelativeIsMarked /\ Services!BranchIsFound /\ Services!HelpIsAligned
  /\ part = "listings" =>
       /\ Services!StatementsAreInPages /\ Services!OffsetsAreOfControlSections
       /\ Services!OffsetsAreComplete
(* What the parser makes of a statement is what its text says: every       *)
(* character is in one field or told about, the operands that are          *)
(* accepted are exactly those of the grammar and each has the characters   *)
(* it was written with, what is refused is told once, and a variable       *)
(* symbol or a message is found where it stands in the lines.              *)
StatementsAsWritten ==
  /\ part = "fields" =>
       /\ Machine!AssignedOnce /\ Machine!FoundAsProcessed
       /\ Machine!ProcessedIsFound /\ Machine!NothingIsLost
  /\ part = "machine operands" => Machine!ReadAsWritten /\ Machine!ToldOnce
  /\ part = "literals" => Literals!ToldOnce /\ Literals!LiteralsAllowedAgain /\ Literals!NestedAreTold
  /\ part = "definitions" => Definitions!ToldOnce /\ Definitions!ReadAsWritten
  /\ part = "assembler statements" => Assembler!ReadAsWritten /\ Assembler!ToldOnce
  /\ part = "macro operands" => CaOperands!OperandsAreTheText /\ CaOperands!ChainsHoldTheRest
  /\ part = "macro lines" => Strings!OperandsAreTheText /\ Strings!RemarkEndsWithItsLine
  /\ part = "expressions" => CaOperands!ToldOnce /\ CaOperands!ReadAsWritten /\ CaOperands!PlacesAreKept
  /\ part = "string operands" => Strings!ReadAsWritten /\ Strings!ToldOnce
  /\ part = "terms" => Terms!ToldOnce /\ Terms!ReadAsWritten
  /\ part = "branches" => CaBranches!ToldOnce /\ CaBranches!ReadAsWritten /\ CaBranches!PlacesAreKept
  /\ part = "model statements" =>
       /\ CaOperands!ChainIsOperands /\ CaOperands!VariablesAreFound /\ CaOperands!ShownInPlace
  /\ part = "model places" => Terms!ShownInPlace
=============================================================================
