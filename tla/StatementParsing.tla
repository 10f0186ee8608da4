-------------------------- MODULE StatementParsing --------------------------
(***************************************************************************)
(* How a statement is parsed: the fields of its lines, and the operands of *)
(* machine, assembler and data definition instructions.                    *)
(***************************************************************************)
EXTENDS Naturals, FiniteSets, SequencesExt

-----------------------------------------------------------------------------
(***************************************************************************)
(* The label, the instruction and the operand text of a statement are      *)
(* found by two readers: one that looks ahead for symbols                  *)
(* (parser2::look_lab_instr) and one for the statement that is processed   *)
(* (parser2::lab_instr, parsing/parser_impl.cpp).  Each assigns the fields *)
(* of a collector, which refuses a second assignment with an exception     *)
(* (semantics/collector.cpp).  The provider makes a statement of the       *)
(* fields, or of the diagnostics when no instruction was found             *)
(* (opencode_provider::get_next).                                          *)
(*                                                                         *)
(* A text is a sequence of characters; "*PROCESS" is one of them.          *)
(* Subscripts of variable symbols are left out.                            *)
(***************************************************************************)
CONSTANTS
  Chars,    \* "A" ordinary, "1" a digit, "L" an attribute, "C" as in C'x'
  MaxChars  \* bound: characters of a text

OrdFirst == {"A", "L", "C"}
FieldOrd == OrdFirst \cup {"1"}

VARIABLES
  fieldText,
  process,    \* *PROCESS is allowed
  reader,     \* "look", then "assembly"
  fieldAt,
  fieldFrom,  \* where the field begins that is being read
  part,
  special,    \* next_char_special: the last character was not ordinary
  fields,     \* what has been assigned, in order
  told,       \* a diagnostic was added
  looked      \* the fields the first reader assigned

FieldInit ==
  /\ fieldText \in UNION {[1 .. n -> Chars] : n \in 0 .. MaxChars}
  /\ process \in BOOLEAN
  /\ reader = "look" /\ fieldAt = 1 /\ fieldFrom = 1 /\ part = "start" /\ special = TRUE
  /\ fields = <<>> /\ told = FALSE /\ looked = <<>>

-----------------------------------------------------------------------------
Char(p) == IF p <= Len(fieldText) THEN fieldText[p] ELSE "end"
FieldCh == Char(fieldAt)

FieldPast(p, chars) ==
  CHOOSE q \in p .. Len(fieldText) + 1 :
    /\ \A r \in p .. q - 1 : fieldText[r] \in chars
    /\ q = Len(fieldText) + 1 \/ fieldText[q] \notin chars

Assigned(field, kind, value) == [field |-> field, kind |-> kind, value |-> value]
Label(kind, value) == Assigned("label", kind, value)
Instruction(kind, value) == Assigned("instruction", kind, value)

(* The value of an operand field is the place of its text, if it has one.  *)
FieldOperands(p) == Assigned("operands", "text", <<p>>)
NoOperands == Assigned("operands", "empty", <<>>)

IsOrdinary(s) == s # <<>> /\ s[1] \in OrdFirst /\ ToSet(s) \subseteq FieldOrd

Assigns(values) ==
  /\ fields' = fields \o values
  /\ part' = "done"
  /\ UNCHANGED <<fieldText, process, reader, fieldAt, fieldFrom, special, told, looked>>

Fails ==
  /\ told' = TRUE /\ part' = "done"
  /\ UNCHANGED <<fieldText, process, reader, fieldAt, fieldFrom, special, fields, looked>>

Moves(p, next, isSpecial) ==
  /\ fieldAt' = p /\ part' = next /\ special' = isSpecial
  /\ UNCHANGED <<fieldText, process, reader, fieldFrom, fields, told, looked>>

(* lab_instr_empty.                                                        *)
Nothing == <<Label("empty", <<>>), Instruction("empty", <<>>), NoOperands>>

-----------------------------------------------------------------------------
(* look_lab_instr: everything has to be ordinary, or the line is empty.    *)
InstructionAt(p) == FieldPast(p, {" "})
InstructionEnd(p) == FieldPast(InstructionAt(p), FieldOrd)

HasInstruction(p) ==
  /\ Char(p) = " " /\ Char(InstructionAt(p)) \in OrdFirst
  /\ Char(InstructionEnd(p)) \in {" ", "end"}

LookRest(p) ==
  <<Instruction("id", SubSeq(fieldText, InstructionAt(p), InstructionEnd(p) - 1)),
    FieldOperands(InstructionEnd(p))>>

LookSequence ==
  /\ FieldCh = "."
  /\ Assigns(
       IF Char(fieldAt + 1) \notin OrdFirst THEN Nothing
       ELSE LET end == FieldPast(fieldAt + 1, FieldOrd)
            IN <<Label("seq", SubSeq(fieldText, fieldAt + 1, end - 1))>>
               \o IF HasInstruction(end) THEN LookRest(end)
                  ELSE <<Instruction("empty", <<>>), NoOperands>>)

LookOrdinary ==
  /\ FieldCh # "."
  /\ LET end == IF FieldCh = " " THEN fieldAt ELSE FieldPast(fieldAt, FieldOrd)
     IN Assigns(IF FieldCh \in OrdFirst \cup {" "} /\ HasInstruction(end)
                  THEN (IF end > fieldAt THEN <<Label("ord", SubSeq(fieldText, fieldAt, end - 1))>> ELSE <<>>)
                       \o LookRest(end)
                  ELSE Nothing)

Look == reader = "look" /\ part = "start" /\ (LookSequence \/ LookOrdinary)

(* The other reader gets the same line.                                    *)
Again ==
  /\ reader = "look" /\ part = "done"
  /\ reader' = "assembly" /\ looked' = fields
  /\ fields' = <<>> /\ part' = "start" /\ fieldAt' = 1
  /\ UNCHANGED <<fieldText, process, fieldFrom, special, told>>

-----------------------------------------------------------------------------
(* lab_instr.                                                              *)
Reading(p) == reader = "assembly" /\ part = p

(* lab_instr_process.                                                      *)
FollowsProcess == FieldCh = "*PROCESS" /\ Char(fieldAt + 1) \in {" ", "end"}
ProcessRest ==
  <<Label("empty", <<>>), Instruction("id", <<"*PROCESS">>), FieldOperands(fieldAt + 1)>>

FieldStart ==
  /\ Reading("start")
  /\ CASE FieldCh = "end" -> Assigns(Nothing)
       [] process /\ FollowsProcess -> Assigns(ProcessRest)
       [] ~(process /\ FollowsProcess) /\ FieldCh = " " ->
            IF Char(FieldPast(fieldAt, {" "})) = "end" THEN Assigns(Nothing)
            ELSE Moves(FieldPast(fieldAt, {" "}), "instruction", TRUE)
       [] OTHER -> Moves(fieldAt, "label", TRUE)
BehindPair == fieldAt + 2

(* lex_variable without its subscript.                                     *)
VariableEnd == FieldPast(fieldAt + 1, FieldOrd)
Variable(next) == IF Char(fieldAt + 1) \in OrdFirst THEN Moves(VariableEnd, next, TRUE) ELSE Fails

(* lex_label.                                                              *)
EndOfLabel == FieldPast(fieldAt, {" "})
LabelEnds ==
  /\ Reading("label") /\ FieldCh \in {" ", "end"}
  /\ IF FieldCh = "end" \/ Char(EndOfLabel) = "end" THEN Fails
     ELSE /\ fieldAt' = EndOfLabel /\ fieldFrom' = fieldAt /\ part' = "instruction"
          /\ UNCHANGED <<fieldText, process, reader, special, fields, told, looked>>

LabelVariable ==
  /\ Reading("label") /\ FieldCh = "&"
  /\ IF Char(fieldAt + 1) = "&" THEN Moves(BehindPair, "label", TRUE) ELSE Variable("label")

LabelQuote ==
  /\ Reading("label") /\ FieldCh = "'"
  /\ IF ~special /\ Char(fieldAt + 1) = " " THEN Moves(fieldAt + 1, "label", TRUE)
     ELSE Moves(fieldAt + 1, "string", TRUE)

LabelTyped ==
  /\ Reading("label") /\ FieldCh \in {"L", "C"} /\ special /\ Char(fieldAt + 1) = "'"
  /\ Moves(fieldAt + 2, IF FieldCh = "L" THEN "label" ELSE "string", TRUE)

LabelChar ==
  /\ Reading("label") /\ FieldCh \notin {" ", "end", "&", "'"}
  /\ ~(FieldCh \in {"L", "C"} /\ special /\ Char(fieldAt + 1) = "'")
  /\ Moves(fieldAt + 1, "label", IF FieldCh \in {".", "="} THEN Char(fieldAt + 1) = "C"
                                 ELSE FieldCh \notin FieldOrd \cup {"*PROCESS"})

(* lex_label_string.                                                       *)
LabelString ==
  /\ Reading("string")
  /\ CASE FieldCh = "end" -> Fails
       [] FieldCh = "'" -> Moves(fieldAt + 1, "label", TRUE)
       [] FieldCh = "&" /\ Char(fieldAt + 1) = "&" -> Moves(BehindPair, "string", TRUE)
       [] FieldCh = "&" /\ Char(fieldAt + 1) # "&" -> Variable("string")
       [] OTHER -> Moves(fieldAt + 1, "string", TRUE)

(* What lex_handle_label makes of the text of the label.  A variable       *)
(* symbol begins with the last of an odd number of ampersands.             *)
VariableAt(s, n) ==
  /\ s[n] = "&" /\ (n < Len(s) => s[n + 1] # "&")
  /\ Cardinality({m \in 1 .. n : \A k \in m .. n : s[k] = "&"}) % 2 = 1
HasVariable(s) == \E n \in DOMAIN s : VariableAt(s, n)

HandleLabel(s) ==
  CASE s = <<>> -> Label("empty", <<>>)
    [] HasVariable(s) -> Label("variable", s)
    [] ~HasVariable(s) /\ s # <<>> /\ s[1] = "." /\ IsOrdinary(Tail(s)) -> Label("seq", Tail(s))
    [] ~HasVariable(s) /\ IsOrdinary(s) -> Label("ord", s)
    [] OTHER -> Label("string", s)

LabelText == IF fieldFrom = 1 THEN <<>> ELSE SubSeq(fieldText, 1, fieldFrom - 1)

(* lex_instr, lex_handle_instruction; && becomes one &.                    *)
EndOfInstruction == FieldPast(fieldAt, Chars \ {" "})
BadInstruction == Fails

ReadInstruction ==
  /\ Reading("instruction")
  /\ LET word == SubSeq(fieldText, fieldAt, EndOfInstruction - 1)
         variables == {n \in DOMAIN word : VariableAt(word, n)}
     IN IF \/ \E n \in DOMAIN word : word[n] = "'"
           \/ \E n \in variables : n = Len(word) \/ word[n + 1] \notin OrdFirst
          THEN BadInstruction
          ELSE Assigns(<<HandleLabel(LabelText),
                         Instruction(IF variables = {} THEN "id" ELSE "concat", word),
                         FieldOperands(EndOfInstruction)>>)

FieldNext ==
  \/ Look \/ Again
  \/ FieldStart \/ LabelEnds \/ LabelVariable \/ LabelQuote \/ LabelTyped \/ LabelChar
  \/ LabelString \/ ReadInstruction

-----------------------------------------------------------------------------
(* Properties                                                              *)
Of(list, field) == {n \in DOMAIN list : list[n].field = field}
The(list, field) == list[CHOOSE n \in Of(list, field) : TRUE]
Names(list) == {n \in Of(list, "instruction") : list[n].kind = "id"} # {}

(* No field is assigned twice (the collector would throw).                 *)
AssignedOnce ==
  \A field \in {"label", "instruction", "operands"} : Cardinality(Of(fields, field)) <= 1

Compared == reader = "assembly" /\ part = "done"

(* A statement the lookahead finds is read the same when its turn comes:   *)
(* the label, the instruction and the text of the operands.                *)
FoundAsProcessed ==
  Compared /\ Names(looked) =>
    /\ Names(fields)
    /\ \A field \in {"instruction", "operands"} : The(looked, field) = The(fields, field)
    /\ IF Of(looked, "label") = {} THEN The(fields, "label").kind = "empty"
       ELSE The(looked, "label") = The(fields, "label")

(* A symbol that labels an ordinary instruction is found by the lookahead. *)
ProcessedIsFound ==
  Compared /\ Names(fields) /\ IsOrdinary(The(fields, "instruction").value)
    /\ The(fields, "label").kind \in {"ord", "seq", "empty"}
  => Names(looked)

(* A line without an instruction has a diagnostic, which is all that       *)
(* becomes of it.                                                          *)
NothingIsLost == Compared => (Of(fields, "instruction") = {} <=> told)

-----------------------------------------------------------------------------
(***************************************************************************)
(* Reading the operands of a machine instruction, of DC and DS, and of an  *)
(* assembler instruction (with_model, mach_op, dat_op, asm_op, alias_op,   *)
(* end_op and using_op1 of parser_impl.cpp): machine expressions, literals *)
(* and data definitions.  The calls of the recursive descent that are      *)
(* still to be made or to be finished are the stack "goals"; a failure     *)
(* leaves all of them at once, and what their destructors do is done.      *)
(***************************************************************************)
CONSTANTS
  Pieces,       \* for "mach", "dat", "asm", "alias", "end", "using" (some of
                \* these): what the texts are put together from
  MaxPieces,    \* bound: pieces of a text
  NumberLimit,  \* 2^31, the bound of a number that is read at once
  LengthKnown   \* the instruction has a length for L'*

Digit == [d \in {"0", "1", "9"} |->
            CASE d = "0" -> 0 [] d = "1" -> 1 [] d = "9" -> 9]
Digits == DOMAIN Digit
Letters == {"A", "C", "E", "F", "L", "P", "S", "X"}
OperandOrd == Letters \cup Digits
MachAttrs == {"L", "S"}
SelfDef == {"C", "X"}
HasExponent == {"E", "F", "L"}
Extensions == {<<"C", "A">>, <<"C", "E">>}

Characters == OperandOrd \cup {"(", ")", ",", "+", "-", "*", "/", "=", "'", "&", ".", " "}

VARIABLES
  format,       \* what the instruction takes
  operandText,  \* the operand field
  operandAt,    \* input.next
  phase,        \* "first", "operand", "next", "rest" or "done"
  goals,        \* the calls in progress, the innermost first
  allowed,      \* literals_allowed
  says,         \* the messages
  operands,     \* "given" or "empty" for each
  literals,     \* the literals collected: from, and whether S0013 was said
  rest          \* where the operands ended, 0 before that

Texts == [f \in DOMAIN Pieces |->
            UNION {{FlattenSeq(p) : p \in [1 .. n -> Pieces[f]]} : n \in 1 .. MaxPieces}]

OperandInit ==
  /\ format \in DOMAIN Pieces /\ operandText \in Texts[format]
  /\ operandAt = 1 /\ phase = "first" /\ goals = <<>>
  /\ allowed = TRUE /\ says = <<>> /\ operands = <<>> /\ literals = {}
  /\ rest = 0

-----------------------------------------------------------------------------
OperandCh(n) == IF operandAt + n <= Len(operandText) THEN operandText[operandAt + n] ELSE "eof"

(* The first position from p on whose character is not in a set.           *)
OperandPast(p, chars) ==
  CHOOSE q \in p .. Len(operandText) + 1 :
    /\ \A r \in p .. q - 1 : operandText[r] \in chars
    /\ q = Len(operandText) + 1 \/ operandText[q] \notin chars

SyntaxError == IF OperandCh(0) = "eof" THEN "S0003" ELSE "S0002"
Restore == IF allowed THEN <<"restore on">> ELSE <<>>

(* What the controllers on the stack leave of literals_allowed.            *)
Unwound ==
  LET restores == SelectSeq(goals, LAMBDA g : g \in {"restore on", "restore off"})
  IN IF restores = <<>> THEN allowed ELSE Last(restores) = "restore on"

(* What the innermost call becomes after n characters.                     *)
Becomes(n, steps) ==
  /\ operandAt' = operandAt + n
  /\ goals' = steps \o Tail(goals)
  /\ UNCHANGED <<format, operandText, phase, operands, rest>>

Reads(n, steps) == Becomes(n, steps) /\ UNCHANGED <<allowed, says, literals>>
Told(code) == Append(says, code)

(* An operand that fails is empty, unless it is the first.                 *)
FailAt(p, code) ==
  /\ says' = Told(code)
  /\ operandAt' = p
  /\ allowed' = Unwound
  /\ goals' = <<>>
  /\ phase' = "rest" /\ rest' = p
  /\ operands' = IF phase = "operand" THEN Append(operands, "empty") ELSE operands
  /\ UNCHANGED <<format, operandText, literals>>

Fail(code) == FailAt(operandAt, code)

-----------------------------------------------------------------------------
Goal(g) == goals # <<>> /\ Head(goals) = g

(* ")" with and without a message of its own.                              *)
Bracket ==
  /\ Goal(")") \/ Goal("closing")
  /\ IF OperandCh(0) = ")" THEN Reads(1, <<>>)
     ELSE Fail(IF Goal(")") THEN "S0011" ELSE SyntaxError)

Expression ==
  \/ Goal("expression") /\ Reads(0, <<"product", "sum">>)
  \/ Goal("sum") /\ IF OperandCh(0) \in {"+", "-"} THEN Reads(1, <<"product", "sum">>)
                                                    ELSE Reads(0, <<>>)
  \/ Goal("product") /\ Reads(0, <<"signed", "factors">>)
  \/ Goal("factors") /\ IF OperandCh(0) \in {"*", "/"} THEN Reads(1, <<"signed", "factors">>)
                                                        ELSE Reads(0, <<>>)
  \/ Goal("signed") /\ IF OperandCh(0) = "+" \/ (OperandCh(0) = "-" /\ OperandCh(1) \notin Digits)
                         THEN Reads(1, <<"signed">>) ELSE Reads(0, <<"term">>)

(* lex_qualified_id.                                                       *)
Symbol ==
  LET end == OperandPast(operandAt, OperandOrd) - operandAt
  IN IF OperandCh(end) # "." THEN Reads(end, <<>>)
     ELSE IF OperandCh(end + 1) \in Letters THEN Reads(OperandPast(operandAt + end + 1, OperandOrd) - operandAt, <<>>)
     ELSE FailAt(operandAt + end + 1, IF OperandCh(end + 1) = "eof" THEN "S0003" ELSE "S0002")
LengthOfLocation ==
  IF LengthKnown THEN Reads(3, <<>>) ELSE FailAt(operandAt + 2, "S0014")

AttributeOfLiteral ==
  /\ Becomes(2, IF allowed THEN <<"literal">> ELSE <<"literal", "restore off">>)
  /\ allowed' = TRUE
  /\ UNCHANGED <<says, literals>>

Attribute ==
  IF OperandCh(2) = "=" THEN AttributeOfLiteral
  ELSE IF OperandCh(2) \in Letters THEN Reads(2, <<"symbol">>)
  ELSE FailAt(operandAt + 2, IF OperandCh(2) = "eof" THEN "S0003" ELSE "S0002")

Constant == \/ OperandCh(0) = "C" /\ OperandCh(1) \in {"A", "E"} /\ OperandCh(2) = "'"
            \/ OperandCh(0) \in SelfDef /\ OperandCh(1) = "'"

Term ==
  /\ Goal("term")
  /\ CASE OperandCh(0) = "eof" -> Fail("S0003")
       [] OperandCh(0) = "(" -> Reads(1, <<"expression", ")">>)
       [] OperandCh(0) = "*" -> Reads(1, <<>>)
       [] OperandCh(0) \in {"-"} \cup Digits -> Reads(OperandPast(operandAt + 1, Digits) - operandAt, <<>>)
       [] OperandCh(0) = "=" -> Reads(0, <<"literal">>)
       [] OperandCh(0) = "L" /\ OperandCh(1) = "'" /\ OperandCh(2) = "*" -> LengthOfLocation
       [] OperandCh(0) \in MachAttrs /\ OperandCh(1) = "'" /\ (OperandCh(0) # "L" \/ OperandCh(2) # "*") -> Attribute
       [] Constant -> Reads(IF OperandCh(1) = "'" THEN 1 ELSE 2, <<"string">>)
       [] OperandCh(0) \in Letters /\ ~(OperandCh(1) = "'" /\ OperandCh(0) \in MachAttrs) /\ ~Constant -> Symbol
       [] OTHER -> Fail("S0002")

Name == Goal("symbol") /\ Symbol
OpenString == Fail("S0005")

(* lex_simple_string.                                                      *)
String ==
  \/ Goal("string") /\ Reads(1, <<"in string">>)
  \/ /\ Goal("in string")
     /\ IF OperandCh(0) = "eof" THEN OpenString
        ELSE IF OperandCh(0) \in {"'", "&"} /\ OperandCh(1) = OperandCh(0) THEN Reads(2, <<"in string">>)
        ELSE IF OperandCh(0) = "'" THEN Reads(1, <<>>)
        ELSE IF OperandCh(0) = "&" THEN Fail("S0002")
        ELSE Reads(1, <<"in string">>)

-----------------------------------------------------------------------------
Collected == IF allowed THEN "collect" ELSE "nested literal"

Literal ==
  /\ Goal("literal")
  /\ Becomes(1, <<"definition", "nominal", Collected>> \o Restore)
  /\ allowed' = FALSE
  /\ UNCHANGED <<says, literals>>

Collect ==
  /\ Goal("collect") \/ Goal("nested literal")
  /\ Becomes(0, <<>>)
  /\ says' = IF Goal("nested literal") THEN Append(says, "S0013") ELSE says
  /\ literals' = literals \cup {[to |-> operandAt, nested |-> Goal("nested literal")]}
  /\ UNCHANGED allowed

Controlled ==
  /\ Goal("restore on") \/ Goal("restore off")
  /\ Becomes(0, <<>>)
  /\ allowed' = Goal("restore on")
  /\ UNCHANGED <<says, literals>>

(* parse_number: digits beyond the limit are passed over.                  *)
Accumulated(from, to) ==
  FoldLeft(LAMBDA value, d : IF value > NumberLimit THEN value ELSE value * 10 + Digit[d],
           0, SubSeq(operandText, from, to))
InRange(negative, value) == IF negative THEN value <= NumberLimit ELSE value < NumberLimit

Number ==
  LET signed == OperandCh(0) \in {"+", "-"}
      from == IF signed THEN operandAt + 1 ELSE operandAt
      end == OperandPast(from, Digits)
  IN IF from = end THEN FailAt(end, "D002")
     ELSE IF InRange(OperandCh(0) = "-", Accumulated(from, end - 1)) THEN Reads(end - operandAt, <<>>)
     ELSE FailAt(end, "D001")

Modifier ==
  \/ /\ Goal("signed number")
     /\ IF OperandCh(0) = "(" THEN Reads(1, <<"expression", ")">>) ELSE Number
  \/ /\ Goal("unsigned number")
     /\ IF OperandCh(0) = "(" THEN Reads(1, <<"expression", ")">>)
        ELSE IF OperandCh(0) \in Digits THEN Number
        ELSE Fail(SyntaxError)

(* The exponent is of some types only.                                     *)
Exponent(type) == IF type \in HasExponent THEN <<"E">> ELSE <<>>

Definition ==
  \/ /\ Goal("definition")
     /\ Reads(0, IF OperandCh(0) = "(" \/ OperandCh(0) \in Digits THEN <<"unsigned number", "type">>
                 ELSE <<"type">>)
  \/ /\ Goal("type")
     /\ IF OperandCh(0) \notin Letters THEN Fail(SyntaxError)
        ELSE Reads(IF <<OperandCh(0), OperandCh(1)>> \in Extensions THEN 2 ELSE 1,
                   <<"P", "L", "S">> \o Exponent(OperandCh(0)))
  \/ \E modifier \in {"P", "S", "E"} :
       /\ Goal(modifier)
       /\ IF OperandCh(0) = modifier THEN Reads(1, <<"signed number">>) ELSE Reads(0, <<>>)
  \/ /\ Goal("L")
     /\ IF OperandCh(0) # "L" THEN Reads(0, <<>>)
        ELSE Reads(IF OperandCh(1) = "." THEN 2 ELSE 1, <<"unsigned number">>)

Nominal ==
  \/ /\ Goal("nominal")
     /\ CASE OperandCh(0) = "'" -> Reads(0, <<"string">>)
          [] OperandCh(0) = "(" -> Reads(1, <<"address", "addresses">>)
          [] OTHER -> Fail(SyntaxError)
  \/ /\ Goal("optional nominal")
     /\ Reads(0, IF OperandCh(0) \in {"'", "("} THEN <<"nominal">> ELSE <<>>)
  \/ Goal("address") /\ Reads(0, <<"expression", "base">>)
  \/ /\ Goal("base")
     /\ IF OperandCh(0) = "(" THEN Reads(1, <<"expression", ")">>) ELSE Reads(0, <<>>)
  \/ /\ Goal("addresses")
     /\ IF OperandCh(0) = "," THEN Reads(1, <<"address", "addresses">>) ELSE Reads(0, <<")">>)

-----------------------------------------------------------------------------
Machine ==
  \/ /\ Goal("address operand")
     /\ IF OperandCh(0) # "(" THEN Reads(0, <<>>)
        ELSE IF OperandCh(1) = "eof" THEN FailAt(operandAt + 1, "S0003")
        ELSE Reads(1, IF OperandCh(1) = "," THEN <<"second">> ELSE <<"expression", "second">>)
  \/ /\ Goal("second")
     /\ IF OperandCh(0) # "," THEN Reads(0, <<")">>)
        ELSE IF OperandCh(1) # ")" THEN Reads(1, <<"expression", ")">>)
        ELSE /\ Becomes(1, <<")">>)
             /\ says' = Append(says, "M004")
             /\ UNCHANGED <<allowed, literals>>
WordBeforeBracket == OperandCh(0) \in Letters /\ OperandCh(OperandPast(operandAt, OperandOrd) - operandAt) = "("

Assembler ==
  \/ /\ Goal("assembler operand")
     /\ IF OperandCh(0) = "'" THEN Reads(0, <<"string">>)
        ELSE IF WordBeforeBracket
        THEN Reads(OperandPast(operandAt, OperandOrd) + 1 - operandAt, <<"value", "values", "closing">>)
        ELSE Reads(0, <<"expression">>)
  \/ /\ Goal("value")
     /\ CASE OperandCh(0) = "'" -> Reads(0, <<"string">>)
          [] OperandCh(0) \in Digits -> Reads(OperandPast(operandAt, Digits) - operandAt, <<>>)
          [] OperandCh(0) \in {",", ")"} -> Reads(0, <<>>)
          [] WordBeforeBracket ->
               Reads(OperandPast(operandAt, OperandOrd) + 1 - operandAt, <<"value", "values", "closing">>)
          [] OperandCh(0) \in Letters /\ ~WordBeforeBracket -> Reads(OperandPast(operandAt, OperandOrd) - operandAt, <<>>)
          [] OTHER -> Fail(SyntaxError)
  \/ /\ Goal("values")
     /\ IF OperandCh(0) = "," THEN Reads(1, <<"value", "values">>) ELSE Reads(0, <<>>)

Alias ==
  /\ Goal("alias operand")
  /\ IF OperandCh(0) \notin SelfDef THEN Fail(SyntaxError)
     ELSE IF OperandCh(1) # "'" THEN FailAt(operandAt + 1, IF OperandCh(1) = "eof" THEN "S0003" ELSE "S0002")
     ELSE Reads(1, <<"string">>)

(* The language of END: three texts in brackets.                           *)
Language ==
  \/ /\ Goal("language operand")
     /\ IF OperandCh(0) # "(" THEN Fail(SyntaxError)
        ELSE Reads(1, <<"until comma", "until comma", "until bracket", "closing">>)
  \/ /\ Goal("until comma")
     /\ LET comma == OperandPast(operandAt, Characters \ {","})
        IN IF comma > Len(operandText) THEN FailAt(comma, "S0003") ELSE Reads(comma + 1 - operandAt, <<>>)
  \/ Goal("until bracket") /\ Reads(OperandPast(operandAt, Characters \ {")"}) - operandAt, <<>>)

Using ==
  \/ /\ Goal("range operand")
     /\ IF OperandCh(0) = "(" THEN Reads(1, <<"expression", "range end">>)
        ELSE Reads(0, <<"expression">>)
  \/ /\ Goal("range end")
     /\ IF OperandCh(0) = "," THEN Reads(1, <<"expression", "closing">>) ELSE Reads(0, <<"closing">>)

-----------------------------------------------------------------------------
(* A data definition is read with literals forbidden.                      *)
OperandGoals(first) ==
  CASE format = "mach" -> <<"expression", "address operand">>
    [] format = "dat" -> <<"definition", "optional nominal">> \o Restore
    [] format = "asm" \/ (format = "end" /\ first) -> <<"assembler operand">>
    [] format = "alias" -> <<"alias operand">>
    [] format = "end" /\ ~first -> <<"language operand">>
    [] format = "using" -> IF first THEN <<"range operand">> ELSE <<"expression">>

OnlyOne == format = "alias"

OperandStart(first) ==
  /\ goals' = OperandGoals(first)
  /\ allowed' = (format # "dat")
  /\ UNCHANGED <<format, operandText, says, operands, literals, rest>>

First ==
  /\ phase = "first" /\ goals = <<>> /\ (OperandCh(0) # "," \/ OnlyOne)
  /\ phase' = "first operand"
  /\ OperandStart(TRUE) /\ UNCHANGED operandAt

FirstIsEmpty ==
  /\ phase = "first" /\ goals = <<>> /\ OperandCh(0) = "," /\ ~OnlyOne
  /\ phase' = "next"
  /\ operands' = <<"empty">>
  /\ UNCHANGED <<format, operandText, operandAt, goals, allowed, says, literals, rest>>

Ended(p) == phase' = "rest" /\ rest' = p

(* An operand has been read; what follows it has to end it.                *)
Given ==
  /\ phase \in {"first operand", "operand"} /\ goals = <<>>
  /\ operands' = Append(operands, "given")
  /\ IF OperandCh(0) \in {" ", "eof"} \/ (OperandCh(0) = "," /\ ~OnlyOne)
       THEN phase' = "next" /\ UNCHANGED <<says, rest>>
       ELSE says' = Append(says, "S0002") /\ Ended(operandAt)
  /\ UNCHANGED <<format, operandText, operandAt, goals, allowed, literals>>

(* Defect: a comma at the end is not followed by an operand.               *)
CommaEnds == operands
CommaIsFollowed == Append(operands, "empty")

NextOperand ==
  /\ phase = "next" /\ OperandCh(0) = ","
  /\ operandAt' = operandAt + 1
  /\ IF OperandCh(1) \in {",", " ", "eof"}
       THEN /\ operands' = CommaIsFollowed
            /\ IF OperandCh(1) = "," THEN UNCHANGED <<phase, rest>> ELSE Ended(operandAt + 1)
            /\ UNCHANGED <<format, operandText, goals, allowed, says, literals>>
       ELSE OperandStart(FALSE) /\ phase' = "operand"

NoMore ==
  /\ phase = "next" /\ OperandCh(0) # ","
  /\ Ended(operandAt)
  /\ UNCHANGED <<format, operandText, operandAt, goals, allowed, says, operands, literals>>

(* consume_rest: the rest is a remark.                                     *)
Remark ==
  /\ phase = "rest"
  /\ operandAt' = Len(operandText) + 1 /\ phase' = "done"
  /\ UNCHANGED <<format, operandText, goals, allowed, says, operands, literals, rest>>

-----------------------------------------------------------------------------
OperandNext ==
  \/ First \/ FirstIsEmpty \/ Given \/ NextOperand \/ NoMore \/ Remark
  \/ Bracket \/ Expression \/ Term \/ Name \/ String
  \/ Literal \/ Collect \/ Controlled \/ Modifier \/ Definition \/ Nominal
  \/ Machine \/ Assembler \/ Alias \/ Language \/ Using

-----------------------------------------------------------------------------
(* What the operands look like, as a grammar.                              *)
Without(s, n) == SubSeq(s, n + 1, Len(s))
First1(s, chars) == s # <<>> /\ s[1] \in chars
IsDigits(s) == s # <<>> /\ \A n \in DOMAIN s : s[n] \in Digits
IsWord(s) == First1(s, Letters) /\ \A n \in DOMAIN s : s[n] \in OperandOrd
IsName(s) == \/ IsWord(s)
             \/ \E n \in DOMAIN s : s[n] = "." /\ IsWord(SubSeq(s, 1, n - 1))
                                               /\ IsWord(Without(s, n))
RECURSIVE IsQuotable(_)
IsQuotable(s) ==
  \/ s = <<>>
  \/ s[1] \notin {"'", "&"} /\ IsQuotable(Tail(s))
  \/ Len(s) > 1 /\ s[1] \in {"'", "&"} /\ s[2] = s[1] /\ IsQuotable(Without(s, 2))
IsString(s) == /\ Len(s) > 1 /\ s[1] = "'" /\ s[Len(s)] = "'"
               /\ IsQuotable(SubSeq(s, 2, Len(s) - 1))
Inner(s) == SubSeq(s, 2, Len(s) - 1)
Bracketed(s) == Len(s) > 2 /\ s[1] = "(" /\ s[Len(s)] = ")"

Fits(value, negative) ==
  LET true == FoldLeft(LAMBDA v, d : v * 10 + Digit[d], 0, value)
  IN true < NumberLimit \/ (negative /\ true = NumberLimit)

(* The rules of expressions refer to one another by their names.           *)
RECURSIVE Is(_, _)
IsExpression(s) ==
  \/ Is("signed", s)
  \/ \E n \in 2 .. Len(s) - 1 : /\ s[n] \in {"+", "-", "*", "/"}
                                /\ Is("signed", Without(s, n))
                                /\ Is("expression", SubSeq(s, 1, n - 1))
IsSigned(s) ==
  \/ s = <<"*">> \/ IsName(s) \/ IsDigits(s)
  \/ First1(s, {"+", "-"}) /\ Is("signed", Tail(s))
  \/ Bracketed(s) /\ Is("expression", Inner(s))
  \/ First1(s, {"="}) /\ Is("literal", Tail(s))
  \/ s = <<"L", "'", "*">> /\ LengthKnown
  \/ /\ Len(s) > 2 /\ s[1] \in MachAttrs /\ s[2] = "'"
     /\ \/ IsName(Without(s, 2))
        \/ s[3] = "=" /\ Is("literal", Without(s, 3))
  \/ First1(s, SelfDef) /\ IsString(Tail(s))
  \/ Len(s) > 2 /\ s[1] = "C" /\ s[2] \in {"A", "E"} /\ IsString(Without(s, 2))

IsNumber(s, signed) ==
  \/ IsDigits(s) /\ Fits(s, FALSE)
  \/ signed /\ First1(s, {"+", "-"}) /\ IsDigits(Tail(s)) /\ Fits(Tail(s), s[1] = "-")
  \/ Bracketed(s) /\ Is("expression", Inner(s))

(* Modifiers, in their order, and the nominal value.                       *)
RECURSIVE IsModified(_, _, _), IsNominal(_)
IsModified(s, modifiers, nominal) ==
  IF modifiers = <<>> THEN IsNominal(s) \/ (s = <<>> /\ ~nominal)
  ELSE \/ IsModified(s, Tail(modifiers), nominal)
       \/ /\ First1(s, {Head(modifiers)})
          /\ LET from == IF Head(modifiers) = "L" /\ Len(s) > 1 /\ s[2] = "." THEN 3 ELSE 2
             IN \E n \in from .. Len(s) :
                  /\ IsNumber(SubSeq(s, from, n), Head(modifiers) # "L")
                  /\ IsModified(Without(s, n), Tail(modifiers), nominal)

IsTyped(s, nominal) ==
  /\ First1(s, Letters)
  /\ IsModified(Without(s, IF Len(s) > 1 /\ <<s[1], s[2]>> \in Extensions THEN 2 ELSE 1),
                <<"P", "L", "S">> \o (IF s[1] \in HasExponent THEN <<"E">> ELSE <<>>), nominal)

IsDefinition(s, nominal) ==
  \/ IsTyped(s, nominal)
  \/ \E n \in 1 .. Len(s) - 1 : /\ First1(s, Digits \cup {"("})
                                /\ IsNumber(SubSeq(s, 1, n), FALSE)
                                /\ IsTyped(Without(s, n), nominal)

IsBased(s) ==
  \/ Is("expression", s)
  \/ \E n \in 2 .. Len(s) : /\ Is("expression", SubSeq(s, 1, n - 1))
                            /\ Bracketed(Without(s, n - 1)) /\ Is("expression", Inner(Without(s, n - 1)))

RECURSIVE IsList(_)
IsList(s) == \/ IsBased(s)
             \/ \E n \in DOMAIN s : s[n] = "," /\ IsBased(SubSeq(s, 1, n - 1))
                                               /\ IsList(Without(s, n))
IsNominal(s) == IsString(s) \/ (Bracketed(s) /\ IsList(Inner(s)))

Is(rule, s) ==
  CASE rule = "expression" -> IsExpression(s)
    [] rule = "signed" -> IsSigned(s)
    [] rule = "literal" -> IsDefinition(s, TRUE)

(* An address: displacement, and up to two expressions in brackets.        *)
IsAddress(s) ==
  \/ Is("expression", s)
  \/ \E n \in 2 .. Len(s) :
       /\ Is("expression", SubSeq(s, 1, n - 1)) /\ Bracketed(Without(s, n - 1))
       /\ LET inner == Inner(Without(s, n - 1))
          IN \/ Is("expression", inner)
             \/ \E c \in DOMAIN inner :
                  /\ inner[c] = ","
                  /\ c = 1 \/ Is("expression", SubSeq(inner, 1, c - 1))
                  /\ c = Len(inner) \/ Is("expression", Without(inner, c))

RECURSIVE IsValue(_), IsValues(_)
IsComposite(s) ==
  \E n \in 2 .. Len(s) : /\ IsWord(SubSeq(s, 1, n - 1))
                        /\ s[n] = "(" /\ s[Len(s)] = ")"
                        /\ IsValues(SubSeq(s, n + 1, Len(s) - 1))
IsValue(s) == s = <<>> \/ IsString(s) \/ IsDigits(s) \/ IsWord(s) \/ IsComposite(s)
IsValues(s) == \/ IsValue(s)
               \/ \E n \in DOMAIN s : s[n] = "," /\ IsValue(SubSeq(s, 1, n - 1))
                                                 /\ IsValues(Without(s, n))

IsAssembler(s) == IsString(s) \/ Is("expression", s) \/ IsComposite(s)
IsLanguage(s) ==
  /\ Len(s) > 3 /\ s[1] = "(" /\ s[Len(s)] = ")"
  /\ \A n \in 2 .. Len(s) - 1 : s[n] = ")" =>
       Cardinality({m \in 1 .. n - 1 : s[m] = ","}) < 2
  /\ Cardinality({m \in DOMAIN s : s[m] = ","}) > 1
(* An expression that begins with a bracket has to end with it.            *)
IsRange(s) ==
  \/ Is("expression", s) /\ ~First1(s, {"("})
  \/ Bracketed(s) /\ \/ Is("expression", Inner(s))
                      \/ \E n \in DOMAIN s : /\ s[n] = ","
                                              /\ Is("expression", SubSeq(s, 2, n - 1))
                                              /\ Is("expression", SubSeq(s, n + 1, Len(s) - 1))

IsOperand(s, first) ==
  CASE format = "mach" -> IsAddress(s)
    [] format = "dat" -> IsDefinition(s, FALSE)
    [] format = "asm" \/ (format = "end" /\ first) -> IsAssembler(s)
    [] format = "alias" -> first /\ First1(s, SelfDef) /\ IsString(Tail(s))
    [] format = "end" /\ ~first -> IsLanguage(s)
    [] format = "using" -> IF first THEN IsRange(s) ELSE Is("expression", s)

(* The ways a text can be a list of operands, as the kinds of these.       *)
RECURSIVE OperandOperands(_, _)
OperandOperands(s, first) ==
  (IF s = <<>> THEN {<<"empty">>} ELSE IF IsOperand(s, first) THEN {<<"given">>} ELSE {})
  \cup UNION {{<<IF n = 1 THEN "empty" ELSE "given">> \o more :
                  more \in OperandOperands(Without(s, n), FALSE)} :
              n \in {c \in DOMAIN s : /\ s[c] = "," /\ ~OnlyOne
                                      /\ c = 1 \/ IsOperand(SubSeq(s, 1, c - 1), first)}}

-----------------------------------------------------------------------------

Faults == SelectSeq(says, LAMBDA code : code \notin {"S0013", "M004"})

(* The field up to its first remark is read without a message exactly when *)
(* it is a list of operands of the grammar, and into the operands it is    *)
(* made of, in the one way there is (with_model).                          *)
ReadAsWritten ==
  phase = "done" =>
    /\ Faults = <<>> => operands \in OperandOperands(SubSeq(operandText, 1, rest - 1), TRUE)
    /\ " " \notin ToSet(operandText) =>
         OperandOperands(operandText, TRUE) = IF Faults = <<>> THEN {operands} ELSE {}

(* One fault is told once, and nothing is left out in silence: without a   *)
(* message, the operands end at a space or at the end of the field.        *)
ToldOnce ==
  /\ Len(Faults) <= 1
  /\ phase = "done" /\ Faults = <<>> => rest = Len(operandText) + 1 \/ operandText[rest] = " "

(* Between operands literals are allowed, whichever way the operand before *)
(* has ended: what one operand forbids does not reach the next             *)
(* (literal_controller).                                                   *)
LiteralsAllowedAgain == phase \in {"next", "rest", "done"} => allowed

(* S0013 is for the literals that are part of another literal or of a data *)
(* definition and not behind an attribute, and only for these              *)
(* (lex_literal).                                                          *)
Enclosing(n) == SelectSeq(Without(goals, n), LAMBDA g :
                  g \in {"collect", "nested literal", "restore off"})
InDefinition(n) == format = "dat" /\ Enclosing(n) = <<>>
NestedAreTold ==
  \A n \in DOMAIN goals : goals[n] \in {"collect", "nested literal"} =>
    (goals[n] = "nested literal" <=>
       \/ Enclosing(n) # <<>> /\ Head(Enclosing(n)) # "restore off"
       \/ InDefinition(n))
=============================================================================
