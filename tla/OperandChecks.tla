--------------------------- MODULE OperandChecks ----------------------------
(***************************************************************************)
(* What the operands of instructions are checked for: data definitions and *)
(* where they are stored, the nominal values written in them, and the      *)
(* operands of assembler instructions and of *PROCESS.                     *)
(***************************************************************************)
EXTENDS Integers, Sequences, FiniteSets, SequencesExt

-----------------------------------------------------------------------------
(***************************************************************************)
(* The operands of DC and DS: their place in storage, worked out when the  *)
(* statement is processed (process_data_instruction of asm_processor.cpp,  *)
(* data_def_postponed_statement.cpp, data_definition.cpp), and their check *)
(* at the end of the assembly (data_instruction.cpp), both by the table of *)
(* the types (data_def_type_base.cpp).                                     *)
(***************************************************************************)
CONSTANTS
  Candidates,  \* sequences of operands to look at
  Starts,      \* values of the location counter before
  MaxLength    \* the largest length in bytes: INT32_MAX, made small

(* An expression of a modifier: missing, absolute or relocatable.          *)
Absent == <<>>
Relocatable == <<0, 0>>
Absolute(n) == <<n>>
Given(e) == Len(e) = 1

-----------------------------------------------------------------------------
(* What a modifier may be (modifier_spec).                                 *)
Bound(min, max) == [kind |-> "bound", values |-> min .. max, even |-> FALSE]
EvenBound(min, max) == [kind |-> "bound", values |-> min .. max, even |-> TRUE]
OneOf(values) == [kind |-> "list", values |-> values, even |-> FALSE]
NotAllowed == [kind |-> "none", values |-> {}, even |-> FALSE]
Ignored == [kind |-> "ignored", values |-> {0}, even |-> FALSE]

(* A length in bytes of a value, or as long as the values need, with the   *)
(* length when there is none and when there are expressions.               *)
Fixed(n) == [needed |-> FALSE, bytes |-> n, none |-> n, wrong |-> n]
AsNeeded(none, wrong) == [needed |-> TRUE, bytes |-> 0, none |-> none, wrong |-> wrong]

Sized(bits, length, scale, exponent, boundary, implicit) ==
  [bits |-> bits, length |-> length, dsBits |-> bits, dsLength |-> length,
   scale |-> scale, exponent |-> exponent, boundary |-> boundary, implicit |-> implicit]
LongerInDs(type, max) == [type EXCEPT !.dsBits = Bound(1, 8 * max), !.dsLength = Bound(1, max)]

Text(bits, length, implicit) ==
  Sized(bits, length, NotAllowed, NotAllowed, 1, implicit)
Word(bytes) ==
  Sized(Bound(1, 64), Bound(1, 8), Bound(-187, 346), Bound(-85, 75), bytes, Fixed(bytes))
Decimal == Text(Bound(1, 128), Bound(1, 16), AsNeeded(1, 1))
Address(bytes) ==
  Sized(Bound(1, 8 * bytes), Bound(1, bytes), NotAllowed, NotAllowed, bytes, Fixed(bytes))
Symbol(length, boundary, bytes) ==
  Sized(NotAllowed, length, NotAllowed, NotAllowed, boundary, Fixed(bytes))
Floating(minBits, bytes, maxBytes, scale, boundary) ==
  Sized(Bound(minBits, 8 * maxBytes),
        Bound(IF scale = Ignored THEN bytes ELSE 1, maxBytes), scale, Bound(-85, 75),
        boundary, Fixed(bytes))

TypeNames ==
  {"A", "AD", "Y", "B", "C", "CA", "CE", "CU", "G", "X", "H", "F", "FD", "P",
   "Z", "S", "SY", "R", "RD", "V", "VD", "Q", "QD", "QY", "J", "JD", "E", "EH",
   "ED", "EB", "D", "DH", "DB", "DD", "L", "LH", "LQ", "LD", "LB"}
DataType(t) ==
  CASE t = "A" -> Address(4)
    [] t = "AD" -> Address(8)
    [] t = "Y" -> Address(2)
    [] t = "B" -> Text(Bound(1, 2048), Bound(1, 256), AsNeeded(1, 0))
    [] t \in {"C", "CA", "CE", "X"} -> LongerInDs(Text(Bound(1, 2048), Bound(1, 256), AsNeeded(1, 0)), 65535)
    [] t = "CU" -> Text(NotAllowed, EvenBound(1, 256), AsNeeded(2, 0))
    [] t = "G" -> LongerInDs(Text(NotAllowed, EvenBound(1, 256), AsNeeded(2, 0)), 65534)
    [] t = "H" -> Word(2)
    [] t = "F" -> Word(4)
    [] t = "FD" -> Word(8)
    [] t \in {"P", "Z"} -> Decimal
    [] t = "S" -> Symbol(Bound(2, 2), 2, 2)
    [] t \in {"SY", "QY"} -> Symbol(Bound(3, 3), 2, 3)
    [] t \in {"R", "V"} -> Symbol(Bound(3, 4), 4, 4)
    [] t \in {"RD", "VD"} -> Symbol(OneOf({3, 4, 8}), 8, 8)
    [] t = "Q" -> Symbol(Bound(1, 4), 4, 4)
    [] t = "QD" -> Symbol(Bound(1, 8), 16, 8)
    [] t = "J" -> Symbol(OneOf({2, 3, 4}), 4, 4)
    [] t = "JD" -> Symbol(OneOf({2, 3, 4, 8}), 8, 8)
    [] t = "E" -> Floating(1, 4, 8, Bound(0, 5), 4)
    [] t = "EH" -> Floating(12, 4, 8, Bound(0, 5), 4)
    [] t \in {"ED", "EB"} -> Floating(32, 4, 4, Ignored, 4)
    [] t = "D" -> Floating(1, 8, 8, Bound(0, 13), 8)
    [] t = "DH" -> Floating(12, 8, 8, Bound(0, 13), 8)
    [] t \in {"DB", "DD"} -> Floating(64, 8, 8, Ignored, 8)
    [] t = "L" -> Floating(1, 16, 16, Bound(0, 27), 8)
    [] t = "LH" -> Floating(12, 16, 16, Bound(0, 27), 8)
    [] t = "LQ" -> Floating(12, 16, 16, Bound(0, 27), 16)
    [] t \in {"LD", "LB"} -> Floating(128, 16, 16, Ignored, 8)
(* A type without its extension.                                           *)
LetterOf(t) ==
  CASE t = "AD" -> "A"
    [] t \in {"CA", "CE", "CU"} -> "C"
    [] t = "FD" -> "F"
    [] t = "SY" -> "S"
    [] t = "RD" -> "R"
    [] t = "VD" -> "V"
    [] t \in {"QD", "QY"} -> "Q"
    [] t = "JD" -> "J"
    [] t \in {"EH", "ED", "EB"} -> "E"
    [] t \in {"DH", "DB", "DD"} -> "D"
    [] t \in {"LH", "LQ", "LD", "LB"} -> "L"
    [] OTHER -> t
Known(op) == op.type \in TypeNames
Type(op) == DataType(op.type)
Letter(op) == LetterOf(op.type)

VARIABLES
  dataInstr,  \* "DC" or "DS"
  operands,
  start,      \* the address of the first byte
  chunk,      \* the first operand that is not in storage yet
  loctr,      \* the location counter
  checked,    \* operands that have been checked
  accepted,   \* these of them in which nothing was wrong
  bits,       \* their length as the check counts it
  says,       \* messages: <<operand, code>>
  done

-----------------------------------------------------------------------------
RoundUp(n, m) == ((n + m - 1) \div m) * m
Total(s) == FoldLeft(+, 0, s)
Boundary(op) == IF Known(op) /\ op.length = Absent THEN Type(op).boundary ELSE 1

Start(n) == RoundUp(n, Boundary(operands[1]))

DataInit ==
  /\ dataInstr \in {"DC", "DS"} /\ operands \in Candidates
  /\ \E s \in Starts : start = Start(s)
  /\ chunk = 1 /\ loctr = start
  /\ checked = 0 /\ accepted = {} /\ bits = 0 /\ says = {} /\ done = FALSE
Count(op) ==
  IF op.nominal.kind = "none" \/ Letter(op) \in {"C", "G"} THEN 1
  ELSE Len(op.nominal.values) + Len(op.nominal.exprs)

(* The lengths of the values in bytes when they are what is needed; the    *)
(* commas of a character constant belong to it.                            *)
DataChars(op) == Total(op.nominal.values) + Len(op.nominal.values) - 1
Value(letter, n) ==
  CASE letter = "B" -> (n + 7) \div 8
    [] letter = "X" -> (n + 1) \div 2
    [] letter = "P" -> (n + 2) \div 2
    [] letter = "Z" -> n
NeededBytes(op) ==
  CASE op.type = "CU" -> 2 * DataChars(op)
    [] Letter(op) \in {"C", "G"} -> DataChars(op)
    [] OTHER -> Total([n \in DOMAIN op.nominal.values |->
                         Value(Letter(op), op.nominal.values[n])])

BytesAs(op, implicit) ==
  CASE op.nominal.kind = "none" -> implicit.none
    [] implicit.needed /\ op.nominal.kind = "exprs" -> implicit.wrong
    [] implicit.needed /\ op.nominal.kind = "text" -> NeededBytes(op)
    [] OTHER -> Count(op) * implicit.bytes
Bytes(op) == BytesAs(op, Type(op).implicit)

(* data_def_type::get_length, in bits.                                     *)
Repeated(op, one) == IF Given(op.dupl) THEN one * op.dupl[1] ELSE one
Length(op) ==
  Repeated(op, IF Given(op.length) THEN Count(op) * op.length[1] * (IF op.inBits THEN 1 ELSE 8)
               ELSE 8 * Bytes(op))

ImplicitLength(op, implicit) ==
  CASE ~implicit.needed -> implicit.bytes
    [] implicit.needed /\ op.nominal.kind = "none" -> implicit.none
    [] implicit.needed /\ op.nominal.kind = "exprs" -> implicit.wrong
    [] OTHER -> IF Letter(op) \in {"C", "G"} THEN NeededBytes(op)
                ELSE Value(Letter(op), op.nominal.values[1])
LengthAttribute(op) ==
  CASE ~Known(op) -> 0
    [] Known(op) /\ Given(op.length) ->
         IF op.inBits THEN RoundUp(op.length[1], 8) \div 8 ELSE op.length[1]
    [] Known(op) /\ ~Given(op.length) -> ImplicitLength(op, Type(op).implicit)

(* data_definition::get_type_attribute.                                    *)
TypeAttribute(op) ==
  LET letter == IF Known(op) THEN Letter(op) ELSE "?"
  IN CASE letter \in {"B", "C", "P", "X", "Z"} -> letter
       [] letter = "G" -> "@"
       [] op.length = Absent /\ letter \in {"A", "J"} -> "A"
       [] op.length = Absent /\ letter \in {"D", "E", "F", "H", "L", "Q", "S", "V", "Y"} -> letter
       [] op.length = Absent /\ letter = "R" -> "V"
       [] op.length # Absent /\ letter \in {"F", "H"} -> "G"
       [] op.length # Absent /\ letter \in {"E", "D", "L"} -> "K"
       [] op.length # Absent /\ letter \in {"A", "S", "Q", "J", "R", "V", "Y"} -> "R"
       [] OTHER -> "U"

-----------------------------------------------------------------------------
(* Storage.                                                                *)

SpecOf(type, inBits) ==
  IF inBits THEN IF dataInstr = "DC" THEN type.bits ELSE type.dsBits
  ELSE IF dataInstr = "DC" THEN type.length ELSE type.dsLength
LengthSpec(op) == SpecOf(Type(op), op.inBits)

(* evaluate_total_length gives up.                                         *)
OutOfBounds(spec, length) ==
  CASE spec.kind = "bound" -> length \notin spec.values
    [] spec.kind = "none" -> TRUE
    [] OTHER -> length < 0
Refused(op) ==
  \/ ~Known(op)
  \/ Given(op.dupl) /\ op.dupl[1] < 0
  \/ /\ Given(op.length)
     /\ OutOfBounds(LengthSpec(op), op.length[1])
  \/ Length(op) >= MaxLength * 8

Placed(pos, op) == IF op.inBits THEN pos ELSE RoundUp(RoundUp(pos, 8), 8 * Boundary(op))

(* The length of some operands, from an address that is aligned for the    *)
(* first of them; one that is wrong makes it nothing.                      *)
StorageOf(ops, end) ==
  IF (\E n \in DOMAIN ops : Refused(ops[n])) \/ RoundUp(end, 8) \div 8 > MaxLength THEN 0
  ELSE RoundUp(end, 8) \div 8
OperandsLength(ops) ==
  StorageOf(ops, FoldLeft(LAMBDA pos, op : IF Refused(op) THEN pos ELSE Placed(pos, op) + Length(op), 0, ops))
(* A chunk ends before an operand that is to be aligned more than the one  *)
(* before it.                                                              *)
ChunkEnd(from) ==
  CHOOSE n \in from .. Len(operands) :
    /\ \A k \in from + 1 .. n : Boundary(operands[k]) <= Boundary(operands[k - 1])
    /\ n = Len(operands) \/ Boundary(operands[n + 1]) > Boundary(operands[n])

Store ==
  /\ chunk <= Len(operands)
  /\ LET last == ChunkEnd(chunk)
     IN /\ chunk' = last + 1
        /\ loctr' = RoundUp(loctr, Boundary(operands[chunk]))
                      + OperandsLength(SubSeq(operands, chunk, last))
  /\ UNCHANGED <<dataInstr, operands, start, checked, accepted, bits, says, done>>

-----------------------------------------------------------------------------
(* The check.                                                              *)

(* check_modifier.                                                         *)
Modifier(spec, e, noBits) ==
  IF ~Given(e) THEN IF e = Relocatable THEN {"D034"} ELSE {}
  ELSE CASE spec.kind = "none" -> {IF noBits THEN "D007" ELSE "D009"}
         [] spec.kind = "ignored" -> {IF e[1] = 0 THEN "D025" ELSE "D009"}
         [] spec.kind = "list" -> IF e[1] \in spec.values THEN {} ELSE {"D021"}
         [] spec.kind = "bound" ->
              IF e[1] \notin spec.values THEN {"D008"}
              ELSE IF spec.even /\ e[1] % 2 = 1 THEN {"D014"} ELSE {}

(* Messages that do not refuse: the warning, and those of an expression    *)
(* that cannot be evaluated, without which the check goes on.              *)
Mild == {"D025", "D034"}

BaseOf(op, type) ==
  (IF Given(op.dupl) /\ op.dupl[1] < 0 THEN {"D011"} ELSE {})
  \cup (IF op.dupl = Relocatable THEN {"D034"} ELSE {})
  \cup Modifier(IF op.inBits /\ type.bits.kind = "none" THEN NotAllowed ELSE SpecOf(type, op.inBits),
                op.length, op.inBits)
  \cup Modifier(type.scale, op.scale, FALSE)
  \cup Modifier(type.exponent, op.exponent, FALSE)
Base(op) == BaseOf(op, Type(op))

Missing(op) == op.nominal.kind = "none" /\ dataInstr = "DC" /\ op.dupl # Absolute(0)

Based == {"high base", "far, high base"}
Symbols == {"symbol", "section"}
Expressions(op) == {op.nominal.exprs[n] : n \in DOMAIN op.nominal.exprs}

(* check_S_SY_operand: told and refused are two things.                    *)
AddressSays(e) ==
  CASE e = "far" -> {"D022"}
    [] e = "high base" -> {"D023"}
    [] e = "far, high base" -> {"D022", "D023"}
    [] e = "complex" -> {"D033"}
    [] OTHER -> {}
AddressRefused(e) == e \in {"far", "complex"}

NominalOf(op, letter) ==
  LET exprs == op.nominal.kind = "exprs"
  IN CASE op.nominal.kind = "none" -> IF Missing(op) THEN {"D016"} ELSE {}
       [] op.nominal.kind # "none" /\ letter \in {"A", "Y"} ->
            IF ~exprs THEN {"D017"}
            ELSE IF Expressions(op) \cap Based # {} THEN {"D020"}
            ELSE IF op.inBits /\ Expressions(op) \cap (Symbols \cup {"complex"}) # {} THEN {"D007"}
            ELSE {}
       [] op.nominal.kind # "none" /\ letter = "Q" ->
            IF ~exprs THEN {"D017"}
            ELSE (IF Expressions(op) \ Symbols # {} THEN {"D030"} ELSE {})
                 \cup IF "symbol" \in Expressions(op) THEN {"D035"} ELSE {}
       [] op.nominal.kind # "none" /\ letter \in {"J", "R", "V"} ->
            IF ~exprs THEN {"D017"}
            ELSE IF Expressions(op) \ Symbols # {} THEN {"D030"} ELSE {}
       [] op.nominal.kind # "none" /\ letter = "S" ->
            IF ~exprs THEN {"D017"} ELSE UNION {AddressSays(e) : e \in Expressions(op)}
       [] op.nominal.kind # "none" /\ letter \in {"H", "F", "P", "Z", "E", "D", "L", "B", "X"} ->
            IF exprs THEN {"D018"} ELSE IF op.nominal.wrong THEN {"D010"} ELSE {}
       [] op.nominal.kind # "none" /\ letter \in {"C", "G"} -> IF exprs THEN {"D018"} ELSE {}
Nominal(op) == NominalOf(op, Letter(op))

NominalPassed(op) ==
  IF Letter(op) = "S" /\ op.nominal.kind = "exprs"
    THEN \A e \in Expressions(op) : ~AddressRefused(e)
    ELSE Nominal(op) = {}

TooLong(op) == Length(op) >= MaxLength * 8

Say(codes) == says' = says \cup ({checked + 1} \X codes)
CheckKnown(op, base, nominal, passed, long) ==
  /\ Say(base \cup nominal \cup IF passed /\ long THEN {"D028"} ELSE {})
  /\ IF passed /\ ~long
       THEN /\ bits' = Placed(bits, op) + Length(op)
            /\ accepted' = accepted \cup {checked + 1}
       ELSE UNCHANGED <<accepted, bits>>

CheckOperand ==
  /\ chunk > Len(operands) /\ checked < Len(operands)
  /\ checked' = checked + 1
  /\ LET op == operands[checked + 1]
     IN IF ~Known(op)
          THEN /\ Say({IF op.type = "?" THEN "D012" ELSE "D013"})
               /\ UNCHANGED <<accepted, bits>>
          ELSE CheckKnown(op, Base(op), Nominal(op), Base(op) \subseteq Mild /\ NominalPassed(op), TooLong(op))
  /\ UNCHANGED <<dataInstr, operands, start, chunk, loctr, done>>

Finish ==
  /\ checked = Len(operands) /\ ~done
  /\ done' = TRUE
  /\ says' = says \cup IF RoundUp(bits, 8) \div 8 > MaxLength THEN {<<0, "D029">>} ELSE {}
  /\ UNCHANGED <<dataInstr, operands, start, chunk, loctr, checked, accepted, bits>>

DataNext == Store \/ CheckOperand \/ Finish

-----------------------------------------------------------------------------

Wrong == {m \in says : m[2] \notin Mild}

(* Where the operands are, if nothing is wrong: one behind the other, each *)
(* byte operand at the next address of its boundary, bits without a gap.   *)
EndInStorage ==
  RoundUp(FoldLeft(LAMBDA pos, op : Placed(pos, op) + Length(op), 8 * start, operands), 8) \div 8

(* The chunks put the operands where they belong, whatever the boundaries  *)
(* of the operands and the address they begin at (process_data_instruction *)
(* of asm_processor.cpp).                                                  *)
StoredInPlace == done /\ Wrong = {} => loctr = EndInStorage

(* The check, long after, counts the length that was reserved.             *)
CountedAsStored ==
  done /\ Wrong = {} /\ start % 16 = 0 => RoundUp(bits, 8) = 8 * (loctr - start)

(* An operand that was given no storage because something is wrong with it *)
(* gets a message at the end.                                              *)
NoStorageIsTold ==
  done => \A n \in DOMAIN operands : Refused(operands[n]) => \E m \in Wrong : m[1] \in {0, n}

(* A constant of several values is as long as each of them alone, which is *)
(* also what the length attribute tells.                                   *)
Alone(op, n) == [op EXCEPT !.nominal.values = <<@[n]>>]
ValuesAreCounted ==
  done => \A k \in accepted :
    LET op == operands[k]
    IN /\ op.length = Absent /\ op.dupl = Absent
       /\ op.nominal.kind = "text" /\ Letter(op) \notin {"C", "G"}
       => Length(op) = 8 * Total([n \in DOMAIN op.nominal.values |-> LengthAttribute(Alone(op, n))])

(* The type attribute tells whether the constant is aligned as its type    *)
(* is: with a length it is not, and has another attribute.                 *)
AttributeTellsAlignment ==
  \A k \in DOMAIN operands :
    LET op == operands[k]
        bare == [op EXCEPT !.length = Absent]
    IN Known(op) => (TypeAttribute(op) = TypeAttribute(bare) <=> Boundary(op) = Boundary(bare))

(* A length that is the implicit one may be written, and the bits of the   *)
(* longest length as well (the table of the types).                        *)
ImplicitMayBeWritten ==
  \A k \in DOMAIN operands :
    Known(operands[k]) =>
      LET type == Type(operands[k])
      IN /\ ~type.implicit.needed => type.implicit.bytes \in type.length.values
         /\ type.bits.kind # "none" =>
              \A n \in type.length.values :
                8 * n \in type.bits.values \/ \A b \in type.bits.values : 8 * n < b

-----------------------------------------------------------------------------
(***************************************************************************)
(* The check of the text of a constant: numbers with signs, exponents,     *)
(* rounding modes and names of special values, separated by commas         *)
(* (check_nominal_H_F_FD, check_nominal_P_Z of                             *)
(* data_def_types_fixed_point.cpp, check_nominal_E_D_L of                  *)
(* data_def_types_floating_point.cpp, check_number and check_exponent of   *)
(* checker_helper.h).  A position is moved on by each part; every part     *)
(* looks at the character there.                                           *)
(***************************************************************************)
CONSTANTS
  Kinds,         \* "word" (H, F), "decimal" (P, Z) and some of the extensions
                 \* of E, D and L: "none", "B", "H", "D", "Q"
  NominalChars,  \* what the texts are made of; "name" and "other" are special
                 \* values in brackets with their sign, NAN and MAX
  MaxChars       \* bound: characters of a text

NominalDigits == {"1", "8"}
IsFloating(kind) == kind \notin {"word", "decimal"}

VARIABLES kind, text, at, part, verdict

NominalInit ==
  /\ kind \in Kinds
  /\ text \in UNION {[1 .. n -> NominalChars] : n \in 0 .. MaxChars}
  /\ at = 1 /\ part = "start" /\ verdict = "none"

-----------------------------------------------------------------------------
Char(p) == IF p <= Len(text) THEN text[p] ELSE "end"
Ch == Char(at)

Ends == CASE kind = "word" -> {",", "E"} [] kind = "decimal" -> {","}
          [] IsFloating(kind) -> {",", "E", "R"}
Signs == IF kind = "word" THEN {"+", "U"} ELSE {"+"}

(* The special values of an extension.                                     *)
Special == CASE kind \in {"B", "D"} -> {"name", "other"} [] kind \in {"H", "Q"} -> {"other"}
             [] OTHER -> {}

Modes == CASE kind \in {"B", "H"} -> {<<"1">>}
           [] kind = "D" -> {<<"8">>, <<"1", "1">>}
           [] OTHER -> {}

Says(v) == verdict' = v /\ part' = "done" /\ UNCHANGED <<kind, text, at>>
Goes(p, next) == at' = p /\ part' = next /\ UNCHANGED <<kind, text, verdict>>

Past(p, chars) ==
  CHOOSE q \in p .. Len(text) + 1 :
    /\ \A r \in p .. q - 1 : text[r] \in chars
    /\ q = Len(text) + 1 \/ text[q] \notin chars

LastComma == text # <<>> /\ Last(text) = ","

(* What is looked at before the first value.                               *)
Begin ==
  /\ part = "start"
  /\ CASE text = <<>> -> Says(IF kind = "word" THEN "accepted" ELSE "D010")
       [] text # <<>> /\ IsFloating(kind) /\ LastComma -> Says("D010")
       [] OTHER -> Goes(1, "value")

(* The end of the text between values.                                     *)
End ==
  /\ part = "value" /\ at > Len(text)
  /\ Says(IF ~IsFloating(kind) /\ LastComma THEN "D010" ELSE "accepted")

(* try_matching_special_value: after spaces; the comma behind it is taken  *)
(* as well.                                                                *)
BehindSpaces == Past(at, {" "})
IsSpecial == Special # {} /\ Char(BehindSpaces) \in {"name", "other"}
NameEnds ==
  CASE Char(BehindSpaces + 1) = "end" -> Goes(BehindSpaces + 1, "value")
    [] Char(BehindSpaces + 1) = "," -> Goes(BehindSpaces + 2, "value")
    [] OTHER -> Says("D010")

Name ==
  /\ part = "value" /\ at <= Len(text) /\ IsSpecial
  /\ IF Char(BehindSpaces) \notin Special THEN Says("D010") ELSE NameEnds

(* check_number.                                                           *)
Number ==
  /\ part = "value" /\ at <= Len(text) /\ ~IsSpecial
  /\ IF Ch = "," THEN Says("D010")
     ELSE LET from == IF Ch \in Signs THEN at + 1 ELSE at
              end == Past(from, NominalChars \ Ends)
              number == SubSeq(text, from, end - 1)
              dots == SelectSeq(number, LAMBDA c : c = ".")
          IN IF /\ Len(dots) <= 1
                /\ ToSet(number) \subseteq NominalDigits \cup {".", " "}
                /\ ToSet(number) \cap NominalDigits # {}
               THEN Goes(end, "exponent") ELSE Says("D010")

ExponentFrom == at + (IF Char(at + 1) = "+" THEN 2 ELSE 1)

Exponent ==
  /\ part = "exponent"
  /\ IF kind # "decimal" /\ Ch = "E"
       THEN IF Past(ExponentFrom, NominalDigits) > ExponentFrom
              THEN Goes(Past(ExponentFrom, NominalDigits), "mode") ELSE Says("D010")
       ELSE Goes(at, "mode")

Mode ==
  /\ part = "mode"
  /\ IF IsFloating(kind) /\ Ch = "R"
       THEN IF SubSeq(text, at + 1, Past(at + 1, NominalDigits) - 1) \in Modes
              THEN Goes(Past(at + 1, NominalDigits), "behind") ELSE Says("D026")
       ELSE Goes(at, "behind")

Behind ==
  /\ part = "behind"
  /\ CASE Ch = "end" -> Goes(at, "value")
       [] Ch = "," -> Goes(at + 1, "value")
       [] OTHER -> Says("D010")

NominalNext == Begin \/ End \/ Name \/ Number \/ Exponent \/ Mode \/ Behind

-----------------------------------------------------------------------------
(* What a text is.                                                         *)
Without(s, n) == SubSeq(s, n + 1, Len(s))
Digital(s) == s # <<>> /\ ToSet(s) \subseteq NominalDigits
Unsigned(s, signs) == IF s # <<>> /\ s[1] \in signs THEN Tail(s) ELSE s
NominalIsNumber(s) ==
  LET number == Unsigned(s, Signs)
  IN /\ ToSet(number) \subseteq NominalDigits \cup {".", " "} /\ ToSet(number) \cap NominalDigits # {}
     /\ \A m, n \in DOMAIN number : number[m] = "." /\ number[n] = "." => m = n
IsScaled(s) ==
  \/ NominalIsNumber(s)
  \/ /\ kind # "decimal"
     /\ \E n \in 2 .. Len(s) : /\ s[n] = "E" /\ NominalIsNumber(SubSeq(s, 1, n - 1))
                               /\ Digital(Unsigned(Without(s, n), {"+"}))
IsRounded(s, any) ==
  \E n \in 2 .. Len(s) : /\ s[n] = "R" /\ IsScaled(SubSeq(s, 1, n - 1))
                         /\ Without(s, n) \in Modes \/ any
IsNamed(s) ==
  /\ s # <<>> /\ Last(s) \in Special
  /\ \A n \in 1 .. Len(s) - 1 : s[n] = " "
IsValue(s) == IsScaled(s) \/ IsNamed(s) \/ (IsFloating(kind) /\ IsRounded(s, FALSE))

Values ==
  LET commas == {n \in DOMAIN text : text[n] = ","} \cup {0, Len(text) + 1}
  IN {SubSeq(text, m + 1, n - 1) : <<m, n>> \in
        {p \in commas \X commas : p[1] < p[2] /\ \A c \in commas : c <= p[1] \/ c >= p[2]}}

-----------------------------------------------------------------------------

(* A text is accepted exactly when it is values of its type with commas    *)
(* between them; only words may have none at all.                          *)
ValuesAreAccepted ==
  part = "done" =>
    (verdict = "accepted" <=> (text = <<>> /\ kind = "word") \/ \A v \in Values : IsValue(v))

(* D026 is for a number whose rounding mode is not one of its type.        *)
ModeIsTold == verdict = "D026" => \E v \in Values : IsRounded(v, TRUE)

-----------------------------------------------------------------------------
(****************************************************************************)
(* The operand checks of the assembler instructions                          *)
(* (src/parser_library/src/checking/asm_instr_check.cpp, the option checks   *)
(* of asm_instr_class.cpp and the predicates of checker_helper.h).           *)
(*                                                                           *)
(* check_asm_ops looks the instruction up in a table of objects; each check  *)
(* walks the evaluated operands, reports the first thing it dislikes and     *)
(* refuses the statement.  An operand is empty, simple (a text, and a value  *)
(* when it could be evaluated: is_default tells) or complex (a name with     *)
(* parameters).  A text is a word, a number, a quoted string or X'..'; only  *)
(* the length of a string and the value of a number are kept.                *)
(*                                                                           *)
(* The behaviour chooses an instruction, reads operands one by one and then  *)
(* has the statement checked.                                                *)
(****************************************************************************)
CONSTANTS
    Examined,       \* the instructions of this instance
    Operand(_),     \* Operand(i): the operands given to instruction i
    MaxOperands(_)  \* bound: the operands of one statement of an instruction

VARIABLES
    asmInstr,  \* the instruction of the statement
    asmOps,    \* its operands
    result     \* what check returned and reported

----------------------------------------------------------------------------

IsEmpty(o)   == o.k = "empty"
IsSimple(o)  == o.k = "simple"
IsComplex(o) == o.k = "complex"

(* is_param_in_vector *)
In(o, words) == IsSimple(o) /\ o.x.t = "word" /\ o.x.w \in words
(* the text of a simple operand: its length, whether it is a number *)
AsmDigits(n)    == CHOOSE d \in 1 .. 9 : n < 10 ^ d /\ (d = 1 \/ n >= 10 ^ (d - 1))
Size(o)      == CASE o.x.t = "word"   -> Len(o.x.w)
                  [] o.x.t = "digits" -> AsmDigits(o.x.n)
                  [] o.x.t = "quoted" -> o.x.n + 2
                  [] OTHER            -> 4
AllDigits(o) == o.x.t = "digits" \/ (o.x.t = "word" /\ o.x.w = "")
AsmIsNumber(o)  == IsSimple(o) /\ ~o.def
Number10(o)  == o.x.t = "digits"                              \* as_int
HasOneComma(s) == Len(s) = 2 /\ IsEmpty(s[1]) /\ IsEmpty(s[2])
IsByte(n)    == n \in 0 .. 255
PowerOfTwo(n) == n = 0 \/ \E e \in 0 .. 15 : n = 2 ^ e
DaysIn(m, y) == CASE m \in {4, 6, 9, 11} -> 30
                  [] m = 2 -> IF y % 4 = 0 /\ (y % 100 # 0 \/ y % 400 = 0) THEN 29 ELSE 28
                  [] OTHER -> 31
IsDate(n)    == LET y == n \div 10000  m == (n \div 100) % 100  d == n % 100
                IN  /\ AsmDigits(n) = 8
                    /\ m \in 1 .. 12
                    /\ d \in 1 .. DaysIn(m, y)
SymbolName(o) == o.x.t = "word" /\ o.x.w # ""                 \* lexing::is_valid_symbol_name

----------------------------------------------------------------------------
(* Results: a check returns whether it accepts, and the codes it reported *)

Accept      == [ok |-> TRUE,  codes |-> <<>>]
Refuse(c)   == [ok |-> FALSE, codes |-> <<c>>]
Unless(b, c) == IF b THEN Accept ELSE Refuse(c)
(* one check after the other; the first refusal ends it *)
Then(r, s)  == IF r.ok THEN [s EXCEPT !.codes = r.codes \o s.codes] ELSE r
(* Each(s, f): the elements in turn, up to the first that is refused *)
Each(s, f(_)) == FoldLeft(LAMBDA r, o : IF r.ok THEN Then(r, f(o)) ELSE r, Accept, s)
EachAt(s, f(_)) == Each([i \in 1 .. Len(s) |-> i], f)

----------------------------------------------------------------------------
(* The options of *PROCESS and ACONTROL (asm_instr_class.cpp) *)

Negated(words) == words \cup {"NO" \o w : w \in words}

CompatWords  == Negated({"CASE", "LITTYPE", "MACROCASE", "SYSLIST", "TRANSDT", "LIT", "MC", "SYSL", "TRS"})
FlagWords    == Negated({"AL", "ALIGN", "CONT", "EXLITW", "IMP", "IMPLEN", "PAGE0", "PG0", "PU", "RC",
                         "SUB", "SUBSTR", "US0", "USING0"})
PushWords    == Negated({"PUSH", "RECORD", "PU", "RC"})
OptableWords == {"DOS", "ESA", "XA", "370", "YOP", "ZOP", "ZS3", "ZS4", "ZS5", "ZS6", "ZS7", "ZS8"}
CheckWords   == Negated({"MAGNITUDE", "REGISTER", "MAG", "REG"})
ControlWords == Negated({"DATA", "GEN", "MCALL", "MSOURCE", "UHEAD", "MC", "MS", "UHD"}) \cup {"ON", "OFF"}
MachineWords == {"S370", "S370XA", "S370ESA", "S390", "S390E", "ZSERIES", "ZS"} \cup
                {w \o n : w \in {"ZSERIES-", "ZS-"}, n \in {"2", "3", "4", "5", "6", "7", "8"}}
PlainWords   == Negated({"ALIGN", "BATCH", "DBCS", "DXREF", "DX", "ERASE", "ESD", "FOLD", "ILMA", "PROFILE",
                         "PROF", "INFO", "LIBMAC", "LMAC", "PRINT", "PR", "RA2", "RENT", "RLD", "RXREF", "RX",
                         "SEG", "TEST", "THREAD", "THR", "WORKFILE", "MXREF", "MX"}) \cup
                {"NOCOMPAT", "NOCPAT", "DISK", "DI", "NOFAIL", "NOPCONTROL", "NOPC", "NOTYPECHECK", "NOTC",
                 "NOUSING", "NOUS", "NOXREF", "PESTOP=YES", "PESTOP=NO", "NOSUPRWARN", "NOSUP"}

Compat(ps)    == Each(ps, LAMBDA o : Unless(In(o, CompatWords), "A209"))
TypeCheck(ps) == Each(ps, LAMBDA o : Unless(In(o, CheckWords), "A214"))
Pcontrol(ps)  == Each(ps, LAMBDA o : Unless(In(o, ControlWords), "A223"))
Listed(ps, code) == IF Len(ps) = 2 THEN Unless(In(ps[2], {"LIST", "NOLIST"}), code) ELSE Accept
Optable(ps)   == Then(Unless(In(ps[1], OptableWords), "A212"), Listed(ps, "A213"))
Machine(ps)   == Then(Unless(In(ps[1], MachineWords), "A222"), Listed(ps, "A221"))
Xref(ps)      == IF ~IsSimple(ps[1]) THEN Refuse("A224")
                 ELSE IF Len(ps) = 1 /\ In(ps[1], {"FULL"}) THEN Accept
                 ELSE Each(ps, LAMBDA o : Unless(In(o, {"SHORT", "UNREFS"}), "A224"))
Suprwarn(ps)  == Each(ps, LAMBDA o : IF ~IsSimple(o) \/ ~AllDigits(o) THEN Refuse("A225")
                                     ELSE Unless(Size(o) \in 1 .. 4, "A226"))

Flag(o) ==
    IF In(o, FlagWords) THEN Accept
    ELSE IF AllDigits(o) /\ ~o.def THEN Unless(IsByte(o.v), "A210")
    ELSE Refuse("A211")
AcontrolFlag(o) == IF ~IsSimple(o) THEN Refuse("A211") ELSE Flag(o)

(* check_process_flag_parameters: what check_flag_operand reported stays     *)
(* reported when the word turns out to be one of the other pair options.     *)
ProcessFlag(o) ==
    LET r == AcontrolFlag(o)
    IN  IF IsSimple(o) /\ ~r.ok /\ In(o, PushWords) THEN [r EXCEPT !.ok = TRUE] ELSE r

(* check_fail_parameters: no word is different from one of the first pair    *)
(* and from one of the second at once, so a complex parameter is refused     *)
(* before its number is looked at.                                           *)
FailWord(o) == (o.w \notin {"MNOTE", "MSG"}) \/ (o.w \notin {"MAXERRS", "NOMAXERRS"})
FailNumber(o) ==
    IF Len(o.ps) # 1 THEN Refuse("A016")
    ELSE IF ~IsSimple(o.ps[1]) THEN Refuse("A234")
    ELSE IF ~Number10(o.ps[1]) THEN Refuse("A235")
    ELSE IF o.w \in {"MNOTE", "MSG"} THEN Unless(o.ps[1].x.n \in 0 .. 7, "A237")
    ELSE Unless(o.ps[1].x.n \in 32 .. 65535, "A236")
Fail(ps) ==
    Each(ps, LAMBDA o : IF IsEmpty(o) THEN Refuse("A021")
                        ELSE IF IsSimple(o) THEN Unless(In(o, {"NOMSG", "NOMNOTE"}), "A233")
                        ELSE IF FailWord(o) THEN Refuse("A233")
                        ELSE FailNumber(o))

Warn(p)  == IF ~Number10(p) THEN Refuse("A228") ELSE Unless(IsByte(p.x.n), "A229")
Limit(p) ==
    IF p.x.t = "hex" THEN Unless(p.x.n <= 4095, "A232")
    ELSE IF ~Number10(p) THEN Refuse("A230")
    ELSE Unless(p.x.n <= 4095, "A231")
UsingOption(ps) ==
    Each(ps, LAMBDA o : IF IsEmpty(o) THEN Refuse("A021")
                        ELSE IF IsSimple(o) THEN Unless(In(o, {"MAP", "NOMAP", "NOWARN", "NOLIMIT"}), "A227")
                        ELSE IF o.w \notin {"WARN", "LIMIT"} THEN Refuse("A227")
                        ELSE IF Len(o.ps) # 1 \/ ~IsSimple(o.ps[1]) THEN Refuse("A228")
                        ELSE IF o.w = "WARN" THEN Warn(o.ps[1]) ELSE Limit(o.ps[1]))

(* check_codepage_parameter *)
Codepage(p) ==
    IF p.x.t \notin {"hex", "digits"} THEN Refuse("A215")
    ELSE Unless(p.x.n \in 1140 .. 1148, "A216")
Sectalgn(p) ==
    IF ~IsSimple(p) \/ ~AllDigits(p) \/ p.def THEN Refuse("A219")
    ELSE Unless(PowerOfTwo(p.v) /\ p.v \in 8 .. 4096, "A220")

OneParameter ==  {"CODEPAGE", "CP", "INFO", "MXREF", "MX", "SECTALGN", "PROFILE", "PROF"}
TwoParameters == {"MACHINE", "MAC", "OPTABLE", "OP"}
Parameters ==    {"COMPAT", "CPAT", "FLAG", "PCONTROL", "PC", "XREF", "SUPRWARN", "SUP", "NOSUPRWARN", "NOSUP",
                  "TYPECHECK", "TC"}

One(w, p) ==
    CASE w \in {"CODEPAGE", "CP"} -> IF ~IsSimple(p) THEN Refuse("A215") ELSE Codepage(p)
      [] w = "INFO"              -> Unless(AsmIsNumber(p) /\ AllDigits(p) /\ IsDate(p.x.n), "A217")
      [] w \in {"MXREF", "MX"}    -> Unless(In(p, {"FULL", "SOURCE", "XREF"}), "A218")
      [] w = "SECTALGN"          -> Sectalgn(p)
      [] OTHER                   -> Accept
Many(w, ps) ==
    CASE w \in {"COMPAT", "CPAT"}  -> Compat(ps)
      [] w \in {"TYPECHECK", "TC"} -> TypeCheck(ps)
      [] w \in {"PCONTROL", "PC"}  -> Pcontrol(ps)
      [] w = "XREF"               -> Xref(ps)
      [] w = "FLAG"               -> Each(ps, ProcessFlag)
      [] OTHER                    -> Suprwarn(ps)

(* check_assembler_process_operand *)
ProcessOption(o) ==
    IF IsEmpty(o) THEN Refuse("A021")
    ELSE IF IsSimple(o) THEN Unless(In(o, PlainWords), "A162")
    ELSE CASE o.w = "FAIL"              -> Fail(o.ps)
           [] o.w \in {"USING", "US"}    -> UsingOption(o.ps)
           [] o.w \in OneParameter       ->
                  IF Len(o.ps) = 1 THEN One(o.w, o.ps[1])
                  ELSE Refuse(IF o.w = "INFO" THEN "A018" ELSE "A016")
           [] o.w \in TwoParameters      ->
                  IF Len(o.ps) \notin 1 .. 2 THEN Refuse("A018")
                  ELSE IF o.w \in {"MACHINE", "MAC"} THEN Machine(o.ps) ELSE Optable(o.ps)
           [] o.w \in Parameters         ->
                  IF Len(o.ps) = 0 THEN Refuse("A015") ELSE Many(o.w, o.ps)
           [] OTHER                     -> Refuse("A162")

----------------------------------------------------------------------------
(* The instructions (asm_instr_check.cpp) *)

Unbounded == 99
(* the numbers of operands of the constructors *)
Bounds(i) ==
    CASE i \in {"XATTR", "PRINT", "EXTRN", "ENTRY", "*PROCESS", "ACONTROL"} -> <<1, Unbounded>>
      [] i \in {"DROP", "CATTR"}                              -> <<0, Unbounded>>
      [] i \in {"TITLE", "RMODE", "COPY", "AMODE", "ALIAS"}    -> <<1, 1>>
      [] i \in {"OPSYN", "SPACE"}                             -> <<0, 1>>
      [] i \in {"CNOP", "AINSERT"}                            -> <<2, 2>>
      [] i \in {"ISEQ", "END"}                                -> <<0, 2>>
      [] i = "USING"   -> <<2, 17>>    [] i = "PUSH"    -> <<1, 4>>
      [] i = "ORG"     -> <<0, 3>>     [] i = "MNOTE"   -> <<1, 2>>
      [] i = "ICTL"    -> <<1, 3>>     [] i = "EXITCTL" -> <<2, 5>>
      [] i = "CCW"     -> <<4, 4>>     [] i = "ADATA"   -> <<5, 5>>
      [] OTHER         -> <<0, 0>>
SizeOf(i, s) ==
    LET b == Bounds(i)
    IN  IF HasOneComma(s) THEN Unless(b[1] = 0, "A01x")
        ELSE Unless(Len(s) >= b[1] /\ Len(s) <= b[2], "A01x")

RmodeIs(o, more) == IsSimple(o) /\ \/ o.x.t = "word" /\ o.x.w \in ({"ANY"} \cup more)
                                   \/ o.x.t = "digits" /\ o.x.n \in {24, 31, 64}

XattrRef(s, o) ==
    LET Kind(x) == IF In(x, {"DIRECT", "INDIRECT"}) THEN "A202" ELSE "A203"
        At(j)   == IF ~In(o.ps[j], {"DIRECT", "INDIRECT", "DATA", "CODE"}) THEN Refuse("A238")
                   ELSE Unless(\A l \in 1 .. (j - 1) : Kind(o.ps[l]) # Kind(o.ps[j]), Kind(o.ps[j]))
    IN  IF Len(o.ps) \notin 1 .. 2 THEN Refuse("A018") ELSE EachAt(o.ps, At)
Xattr(s) ==
    Each(s, LAMBDA o :
        IF ~IsComplex(o) THEN Refuse("A001")
        ELSE IF o.w \in {"REFERENCE", "REF"} THEN XattrRef(s, o)
        ELSE IF o.w \notin {"ATTRIBUTES", "ATTR", "LINK", "LINKAGE", "SCOPE", "PSECT"} THEN Refuse("A100")
        ELSE IF Len(o.ps) # 1 THEN Refuse("A016")
        ELSE CASE o.w = "SCOPE" -> Unless(In(o.ps[1], {"SECTION", "MODULE", "LIBRARY", "IMPORT", "EXPORT",
                                                       "S", "M", "L", "X"}), "A200")
               [] o.w \in {"LINK", "LINKAGE"} -> Unless(In(o.ps[1], {"OS", "XPLINK"}), "A201")
               [] o.w = "PSECT" -> Unless(IsSimple(o.ps[1]) /\ SymbolName(o.ps[1]), "A248")
               [] OTHER -> Accept)

UsingFirst(o) == IF IsComplex(o) THEN o.w = "" /\ Len(o.ps) = 2 /\ IsSimple(o.ps[1]) /\ IsSimple(o.ps[2])
                 ELSE IsSimple(o)
UsingOps(s) == Then(Unless(UsingFirst(s[1]), "A104"),
                    Each(Tail(s), LAMBDA o : Unless(IsSimple(o), "A164")))

Title(s) == IF ~IsSimple(s[1]) \/ Size(s[1]) \notin 2 .. 102 THEN Refuse("A106")
            ELSE IF s[1].x.t # "quoted" THEN Refuse("A300") ELSE Accept
PrintOps(s) == Each(s, LAMBDA o : Unless(IsEmpty(o) \/
                In(o, Negated({"GEN", "DATA", "MCALL", "MSOURCE", "UHEAD"}) \cup {"ON", "OFF", "NOPRINT"}), "A109"))
StackOps(s) ==
    LET last(j) == j = Len(s)
        At(j) == IF In(s[j], {"ACONTROL", "PRINT", "USING"})
                 THEN Unless(\A l \in 1 .. (j - 1) : s[l] # s[j], "A112")
                 ELSE IF In(s[j], {"NOPRINT"})
                 THEN Unless(last(j), "A113")
                 ELSE Refuse(IF last(j) THEN "A110" ELSE "A111")
    IN  Then(EachAt(s, At), Unless(~(Len(s) = 1 /\ In(s[1], {"NOPRINT"})), "A114"))

OrgBoundary(s) == Len(s) >= 2 /\ ~IsEmpty(s[2])
Org(s) ==
    LET At(j) == IF j = 2 /\ IsEmpty(s[j]) THEN Accept
                 ELSE IF ~IsSimple(s[j]) THEN Refuse(IF j = 1 THEN "A245" ELSE "A020")
                 ELSE Unless(~s[j].def, "A115")
    IN  IF HasOneComma(s) THEN Accept
        ELSE Then(EachAt(s, At),
                  Unless(OrgBoundary(s) => PowerOfTwo(s[2].v) /\ s[2].v \in 2 .. 4096, "A116"))

Mnote(s) ==
    LET msg == s[Len(s)]
    IN  IF ~IsSimple(msg) THEN Refuse("A117")
        ELSE IF Len(s) = 2 /\ IsComplex(s[1]) THEN Refuse("A119")
        ELSE IF msg.x.t # "quoted" THEN Refuse("A300")
        ELSE IF Size(msg) > 1020 THEN Refuse("A117")
        ELSE IF Len(s) = 1 \/ IsEmpty(s[1]) THEN Accept
        ELSE IF Size(s[1]) + Size(msg) > 1024 THEN Refuse("A118")
        ELSE Unless(In(s[1], {"*"}) \/ (AllDigits(s[1]) /\ ~s[1].def /\ IsByte(s[1].v)), "A119")

Iseq(s) ==
    IF Len(s) = 0 \/ HasOneComma(s) THEN Accept
    ELSE IF Len(s) # 2 THEN Refuse("A013")
    ELSE IF ~AsmIsNumber(s[1]) \/ ~AsmIsNumber(s[2]) THEN Refuse("A120")
    ELSE IF s[2].v < s[1].v THEN Refuse("A121")
    ELSE Unless(s[1].v \in 1 .. 80 /\ s[2].v \in 1 .. 80, "A120")

IctlContinues(s, end) == ~(Len(s) = 2 \/ end = 80)
Ictl(s) ==
    LET begin == s[1].v
        end   == IF Len(s) > 1 THEN s[2].v ELSE 72
        cont  == IF Len(s) > 2 THEN s[3].v ELSE 16
        Form(j) == Unless(AsmIsNumber(s[j]) /\ AllDigits(s[j]), IF j = 1 THEN "A122" ELSE "A242")
    IN  IF IsEmpty(s[1]) THEN Refuse("A021")
        ELSE IF ~EachAt(s, Form).ok THEN EachAt(s, Form)
        ELSE IF begin \notin 1 .. 40 THEN Refuse("A123")
        ELSE IF end \notin 41 .. 80 THEN Refuse("A124")
        ELSE IF end < begin + 5 THEN Refuse("A125")
        ELSE IF ~IctlContinues(s, end) THEN Accept
        ELSE IF cont \notin 2 .. 40 THEN Refuse("A126")
        ELSE Unless(cont > begin, "A127")

Extern(s) ==
    Each(s, LAMBDA o : IF IsEmpty(o) THEN Refuse("A021")
                       ELSE IF IsSimple(o) THEN Unless(SymbolName(o), "A129")
                       ELSE Unless(o.w = "PART" /\ \A j \in DOMAIN o.ps : IsSimple(o.ps[j]) /\ SymbolName(o.ps[j]),
                                   "A129"))
Exitctl(s) ==
    LET At(j) == IF j = 1 THEN Unless(In(s[1], {"SOURCE", "LIBRARY", "LISTING", "PUNCH", "ADATA", "TERM", "OBJECT"}),
                                      "A130")
                 ELSE IF IsEmpty(s[j]) THEN Accept
                 ELSE IF ~IsSimple(s[j]) THEN Refuse("A020") ELSE Unless(~s[j].def, "A131")
    IN  EachAt(s, At)
Entry(s) == Each(s, LAMBDA o : Unless(IsSimple(o) /\ Size(o) > 0, "A136"))

(* the language operand of END: three texts *)
Language(o) ==
    IF ~IsComplex(o) THEN Refuse("A001")
    ELSE IF Len(o.ps) # 3 THEN Refuse("A016")
    ELSE IF o.w # "" THEN Refuse("A137")
    ELSE IF \E j \in 1 .. 3 : ~IsSimple(o.ps[j]) THEN Refuse("A248")
    ELSE IF Size(o.ps[1]) \notin 1 .. 10 THEN Refuse("A138")
    ELSE IF Size(o.ps[2]) # 4 THEN Refuse("A139")
    ELSE Unless(Size(o.ps[3]) = 5, "A140")
EndOps(s) ==
    IF Len(s) >= 1 /\ IsComplex(s[1]) THEN Refuse("A243")
    ELSE IF Len(s) = 2 /\ ~IsEmpty(s[2]) THEN Language(s[2]) ELSE Accept

DropOps(s) == IF HasOneComma(s) THEN Accept ELSE Each(s, LAMBDA o : Unless(IsSimple(o), "A141"))
Copy(s)    == Unless(IsSimple(s[1]) /\ s[1].def /\ s[1].x.t # "quoted", "A142")
Cnop(s) ==
    IF \E j \in 1 .. 2 : ~AsmIsNumber(s[j]) THEN Refuse("A143")
    ELSE IF s[1].v < 0 \/ s[1].v % 2 = 1 THEN Refuse("A144")
    ELSE IF s[2].v \notin 0 .. 4096 \/ ~PowerOfTwo(s[2].v) THEN Refuse("A145")
    ELSE Unless(s[1].v <= s[2].v - 2, "A146")

CcwBits == <<8, 24, 8, 16>>
Ccw(s) ==
    LET At(j) == IF IsEmpty(s[j]) THEN Refuse("A147")
                 ELSE IF ~AsmIsNumber(s[j]) THEN Refuse(IF j = 2 THEN "A247" ELSE "A143")
                 ELSE Unless(s[j].v \in 0 .. (2 ^ CcwBits[j] - 1), IF j = 2 THEN "M123" ELSE "M122")
    IN  EachAt(s, At)

(* SPACE, CEJECT and START *)
Expression(i, s) ==
    IF Len(s) = 0 \/ HasOneComma(s) THEN Accept
    ELSE Then(SizeOf(i, s), IF ~IsSimple(s[1]) THEN Refuse("A240")
                            ELSE Unless(~s[1].def /\ s[1].v > 0, "A148"))

CattrParameter(o) ==
    LET p == o.ps[1]
    IN  CASE o.w = "RMODE" -> Unless(RmodeIs(p, {}), "A204")
          [] o.w = "ALIGN" -> Unless(AsmIsNumber(p) /\ AllDigits(p) /\ p.x.n \in {0, 1, 2, 3, 4, 12}, "A205")
          [] o.w = "FILL"  -> Unless(AsmIsNumber(p) /\ AllDigits(p) /\ IsByte(p.v), "A206")
          [] o.w = "PART"  -> Unless(IsSimple(p) /\ SymbolName(p), "A207")
          [] OTHER         -> Unless(AsmIsNumber(p) /\ AllDigits(p) /\ p.v > 0, "A208")
Cattr(s) ==
    Each(s, LAMBDA o :
        IF IsEmpty(o) THEN Refuse("A021")
        ELSE IF IsSimple(o)
        THEN Unless(In(o, {"DEFLOAD", "EXECUTABLE", "MOVABLE", "NOLOAD", "NOTEXECUTABLE", "NOTREUS", "READONLY",
                           "REFR", "REMOVABLE", "RENT", "REUS"}), "A149")
        ELSE IF o.w \notin {"RMODE", "ALIGN", "FILL", "PART", "PRIORITY"} THEN Refuse("A149")
        ELSE IF Len(o.ps) # 1 THEN Refuse("A016")
        ELSE CattrParameter(o))

Alias(s) ==
    IF ~IsSimple(s[1]) THEN Refuse("A151")
    ELSE IF s[1].x.t = "hex" THEN Unless(s[1].x.n \in 66 .. 254, "A155")
    ELSE Unless(In(s[1], {"C'A'"}), "A151")
Ainsert(s) ==
    IF ~IsSimple(s[1]) \/ Size(s[1]) \notin 2 .. 82 THEN Refuse("A157")
    ELSE IF s[1].x.t # "quoted" THEN Refuse("A301")
    ELSE IF s[1].x.n = 0 THEN Refuse("A021")
    ELSE Unless(In(s[2], {"BACK", "FRONT"}), "A156")
Adata(s) ==
    LET At(j) == Unless(IsEmpty(s[j]) \/ AsmIsNumber(s[j]), "A158")
        l == s[5]
    IN  IF ~EachAt(SubSeq(s, 1, 4), At).ok THEN Refuse("A158")
        ELSE IF IsEmpty(l) THEN Accept
        ELSE IF ~IsSimple(l) THEN Refuse("A239")
        ELSE LET warned == IF l.x.t = "quoted" THEN <<>> ELSE <<"A300">>
                 sized  == Unless(Size(l) # 1 /\ Size(l) <= 255, "A160")
             IN  [sized EXCEPT !.codes = warned \o @]

ProcessOps(s) ==
    LET over == IsComplex(s[Len(s)]) /\ s[Len(s)].w = "OVERRIDE"
    IN  IF over THEN Then(Each(s[Len(s)].ps, ProcessOption), Each(Front(s), ProcessOption))
        ELSE Each(s, ProcessOption)

AcontrolWords == Negated({"AFPR", "LIBMAC", "RA2", "LMAC"}) \cup {"NOCOMPAT", "NOTYPECHECK", "NOCPAT", "NOTC"}
Acontrol(s) ==
    Each(s, LAMBDA o :
        IF IsEmpty(o) THEN Refuse("A021")
        ELSE IF IsSimple(o) THEN Unless(In(o, AcontrolWords), "A161")
        ELSE IF o.w \notin {"CPAT", "COMPAT", "FLAG", "TC", "TYPECHECK", "OPTABLE"} THEN Refuse("A161")
        ELSE IF Len(o.ps) = 0 THEN Refuse("A015")
        ELSE CASE o.w \in {"COMPAT", "CPAT"} -> Compat(o.ps)
               [] o.w = "FLAG"              -> Each(o.ps, AcontrolFlag)
               [] o.w = "OPTABLE"           -> IF Len(o.ps) > 2 THEN Refuse("A018") ELSE Optable(o.ps)
               [] OTHER                     -> TypeCheck(o.ps))

Body(i, s) ==
    CASE i = "XATTR"   -> Xattr(s)      [] i = "USING"   -> UsingOps(s)
      [] i = "TITLE"   -> Title(s)      [] i = "RMODE"   -> Unless(RmodeIs(s[1], {}), "A107")
      [] i = "PRINT"   -> PrintOps(s)      [] i = "PUSH"    -> StackOps(s)
      [] i = "ORG"     -> Org(s)        [] i = "MNOTE"   -> Mnote(s)
      [] i = "ICTL"    -> Ictl(s)       [] i = "EXTRN"   -> Extern(s)
      [] i = "EXITCTL" -> Exitctl(s)    [] i = "ENTRY"   -> Entry(s)
      [] i = "END"     -> EndOps(s)     [] i = "COPY"    -> Copy(s)
      [] i = "CNOP"    -> Cnop(s)       [] i = "CCW"     -> Ccw(s)
      [] i = "CATTR"   -> Cattr(s)      [] i = "ALIAS"   -> Alias(s)
      [] i = "AMODE"   -> Unless(RmodeIs(s[1], {"ANY31", "ANY64"}), "A150")
      [] i = "AINSERT" -> Ainsert(s)    [] i = "ADATA"   -> Adata(s)
      [] i = "OPSYN"   -> Unless(Len(s) # 1 \/ ~IsComplex(s[1]), "A246")
      [] i = "*PROCESS" -> ProcessOps(s) [] i = "ACONTROL" -> Acontrol(s)
      [] OTHER         -> Accept

(* check_asm_ops *)
Check(i, s) ==
    CASE i = "ISEQ"  -> Iseq(s)
      [] i = "DROP"  -> DropOps(s)
      [] i = "SPACE" -> Expression(i, s)
      [] OTHER       -> Then(SizeOf(i, s), IF SizeOf(i, s).ok THEN Body(i, s) ELSE Accept)

----------------------------------------------------------------------------
AsmInit ==
    /\ asmInstr \in Examined
    /\ asmOps = <<>>
    /\ result = Check(asmInstr, <<>>)

(* the next operand of the statement *)
Read(o) ==
    /\ Len(asmOps) < MaxOperands(asmInstr)
    /\ asmOps' = Append(asmOps, o)
    /\ result' = Check(asmInstr, asmOps')
    /\ UNCHANGED asmInstr

AsmNext == \E o \in Operand(asmInstr) : Read(o)

----------------------------------------------------------------------------
(* Properties *)

PowersFrom(e) == {2 ^ n : n \in e .. 12}

(* The numbers a statement is refused for are those outside of the ranges    *)
(* that the messages give: a boundary of ORG is a power of two from 2 to     *)
(* 4096 (A116); the byte of CNOP is even and at most two less than its       *)
(* boundary (A144 - A146); the columns of ICTL are in order, five apart, and *)
(* in their ranges (A123 - A127).  The guards are spread over nested         *)
(* conditions that look at one operand, or at the relation of two.           *)
RangesAsMessaged ==
    /\ asmInstr = "ORG" /\ Len(asmOps) \in 2 .. 3 /\ ~HasOneComma(asmOps)
       /\ (\A j \in DOMAIN asmOps : AsmIsNumber(asmOps[j]))
       => (result.ok <=> asmOps[2].v \in PowersFrom(1))
    /\ asmInstr = "CNOP" /\ Len(asmOps) = 2 /\ AsmIsNumber(asmOps[1]) /\ AsmIsNumber(asmOps[2])
       => (result.ok <=> /\ asmOps[2].v \in PowersFrom(1)
                         /\ asmOps[1].v \in 0 .. (asmOps[2].v - 2)
                         /\ asmOps[1].v % 2 = 0)
    /\ asmInstr = "ICTL" /\ Len(asmOps) = 3 /\ (\A j \in 1 .. 3 : AsmIsNumber(asmOps[j]) /\ AllDigits(asmOps[j]))
       => (result.ok <=> /\ asmOps[1].v \in 1 .. 40
                         /\ asmOps[2].v \in 41 .. 80
                         /\ asmOps[1].v + 5 <= asmOps[2].v
                         /\ asmOps[2].v = 80 \/ asmOps[3].v \in (asmOps[1].v + 1) .. 40)

(* A statement that is refused is refused with exactly one message, and one  *)
(* that is accepted with none.  The exceptions of the code: the file name of *)
(* ADATA is warned about (A300), and the pair options PUSH and RECORD of     *)
(* *PROCESS FLAG keep the message of the options they were compared with     *)
(* first.                                                                    *)
KeepsMessage ==
    \/ asmInstr = "ADATA"
    \/ asmInstr = "*PROCESS" /\ \E j \in DOMAIN asmOps : /\ IsComplex(asmOps[j])
                                                         /\ asmOps[j].w = "FLAG"
                                                         /\ \E k \in DOMAIN asmOps[j].ps : In(asmOps[j].ps[k], PushWords)
OneComplaint ==
    ~KeepsMessage => Len(result.codes) = IF result.ok THEN 0 ELSE 1

(* A lone comma stands for no operand ("    instr , comment"): a statement   *)
(* that has it is accepted exactly when the instruction may stand alone.     *)
(* CATTR is left out, which looks at the two empty operands.                 *)
CommaIsNoOperand ==
    HasOneComma(asmOps) /\ asmInstr # "CATTR" => (result.ok <=> Check(asmInstr, <<>>).ok)

(* PUSH saves each of its sources once and takes NOPRINT only after them:    *)
(* what it accepts is a selection of sources, in any order.                  *)
PushSelects ==
    asmInstr = "PUSH" /\ result.ok
    => LET sources == IF In(Last(asmOps), {"NOPRINT"}) THEN Front(asmOps) ELSE asmOps
       IN  /\ sources # <<>> /\ IsInjective(sources)
           /\ \A j \in DOMAIN sources : sources[j].x.w \in {"ACONTROL", "PRINT", "USING"}

----------------------------------------------------------------------------
=============================================================================
