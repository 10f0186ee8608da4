--------------------------- MODULE CaExpressions ----------------------------
(***************************************************************************)
(* Values of conditional assembly: the arithmetic of machine words,        *)
(* character values, the functions that convert between notations, and the *)
(* list of terms and operators that becomes an expression. Each of the     *)
(* four is a state machine of its own, with the names of its state and its *)
(* actions beginning as its section says.                                  *)
(***************************************************************************)
EXTENDS Integers, FiniteSets, SequencesExt

-----------------------------------------------------------------------------
(***************************************************************************)
(* The arithmetic operators of conditional assembly on words of a fixed    *)
(* width (ca_operator_binary.cpp, ca_operator_unary.cpp): the sums and     *)
(* products that are computed in a wider type and cut back by              *)
(* overflow_transform, and the shifts, whose amount is cut to ShiftBits.   *)
(* A computation applies operators to an accumulator one by one.           *)
(***************************************************************************)
CONSTANTS
  Width,     \* bits of a word, 32 in the code
  ShiftBits  \* bits of a shift amount that count, 6 in the code

WordWords == 2 ^ Width
WordMax == WordWords \div 2 - 1
WordMin == -(WordWords \div 2)
Numbers == WordMin .. WordMax
Amounts == 2 ^ ShiftBits

ArithmeticAssumption == {Width, ShiftBits} \subseteq Nat \ {0} /\ Amounts > Width

Arithmetic == {"+", "-", "*", "/"}
WordShifts == {"SLA", "SLL", "SRA", "SRL"}

VARIABLES
  wordBefore,  \* the accumulator before the last operator
  wordOp,      \* the last operator
  operand,     \* and its operand
  wordAcc,     \* the accumulator
  message      \* "CE013" for an overflow, "CE014" for an underflow, or "none"

WordInit ==
  /\ wordAcc \in Numbers /\ wordBefore = wordAcc
  /\ wordOp = "none" /\ operand = 0 /\ message = "none"

-----------------------------------------------------------------------------
WordUnsigned(n) == n % WordWords
WordSigned(n) == IF n > WordMax THEN n - WordWords ELSE n
WordMagnitude(n) == IF n < 0 THEN -n ELSE n

(* The division of C++, which rounds towards zero.                         *)
Quotient(x, y) ==
  LET q == WordMagnitude(x) \div WordMagnitude(y)
  IN  IF (x < 0) = (y < 0) THEN q ELSE -q

(* Computed in 64 bits.                                                    *)
Exact(o, x, y) ==
  CASE o = "+" -> x + y
    [] o = "-" -> x - y
    [] o = "*" -> x * y
    [] o = "/" -> IF y = 0 THEN 0 ELSE Quotient(x, y)
Transformed(n) == IF n \in Numbers THEN n ELSE 0

(* Defect: nothing is said of a result that is too low.                    *)
OverflowOnly(n) == IF n > WordMax THEN "CE013" ELSE "none"
OverflowMessage(n) == IF n > WordMax THEN "CE013" ELSE IF n < WordMin THEN "CE014" ELSE "none"
SignFilled(x, n) ==
  WordUnsigned(x) \div 2 ^ n + IF x < 0 THEN WordWords - 2 ^ (Width - n) ELSE 0

SignBit(x) == IF x < 0 THEN WordWords \div 2 ELSE 0
ShiftedOut(o, x) == CASE o = "SLA" -> SignBit(x) [] o = "SRA" -> WordWords - 1 [] OTHER -> 0

Left(x, n) == (WordUnsigned(x) * 2 ^ n) % WordWords
WithBit(n, b) == IF n >= b THEN n ELSE n + b
SignKept(x, n) == IF SignBit(x) = 0 THEN Left(x, n) ELSE WithBit(Left(x, n), SignBit(x))

(* shift_operands; with an amount of zero it gives back the right operand. *)
Shift(o, x, y) ==
  LET n == y % Amounts
  IN  IF n = 0 THEN y
      ELSE WordSigned(CASE n >= Width -> ShiftedOut(o, x)
                        [] n < Width /\ o = "SLA" -> SignKept(x, n)
                        [] n < Width /\ o = "SLL" -> Left(x, n)
                        [] n < Width /\ o = "SRA" -> SignFilled(x, n)
                        [] n < Width /\ o = "SRL" -> WordUnsigned(x) \div 2 ^ n)

Gives(o, y, n, m) ==
  /\ wordBefore' = wordAcc /\ wordOp' = o /\ operand' = y
  /\ wordAcc' = n /\ message' = m

Apply(o, y) ==
  \E n \in {Exact(o, wordAcc, y)} : Gives(o, y, Transformed(n), OverflowMessage(n))

ApplyShift(o, y) == Gives(o, y, Shift(o, wordAcc, y), "none")

Not == Gives("NOT", 0, -wordAcc - 1, "none")

(* The negation of the least number is undefined in C++; on the machines   *)
(* the program is built for it stays what it is, and nothing is reported.  *)
WordMinus == Gives("neg", 0, IF wordAcc = WordMin THEN WordMin ELSE -wordAcc, "none")

WordNext ==
  \/ \E o \in Arithmetic, y \in Numbers : Apply(o, y)
  \/ \E o \in WordShifts, y \in Numbers : ApplyShift(o, y)
  \/ Not
  \/ WordMinus

-----------------------------------------------------------------------------

(* A sum, difference, product or quotient is what arithmetic says it is,   *)
(* or a message says why it is zero.                                       *)
ExactOrReported ==
  wordOp \in Arithmetic /\ message = "none" =>
    CASE wordOp = "+" -> wordAcc = wordBefore + operand
      [] wordOp = "-" -> wordBefore = wordAcc + operand
      [] wordOp = "*" -> wordAcc = wordBefore * operand
      [] wordOp = "/" -> IF operand = 0 THEN wordAcc = 0
                         ELSE LET rest == wordBefore - wordAcc * operand
                              IN  /\ WordMagnitude(rest) < WordMagnitude(operand)
                                  /\ rest = 0 \/ (rest < 0) = (wordBefore < 0)

(* An arithmetic shift to the right divides, rounding down, and a logical  *)
(* one divides the word without its sign.                                  *)
RightShiftDivides ==
  operand \in 1 .. Width - 1 =>
    /\ wordOp = "SRA" => wordAcc = wordBefore \div 2 ^ operand
    /\ wordOp = "SRL" => WordUnsigned(wordAcc) = WordUnsigned(wordBefore) \div 2 ^ operand

(* A negative number stays negative under SLA, as the tests SLA_negative   *)
(* have it, and every logical shift can be taken apart into shifts by one. *)
ShiftsAddUp ==
  /\ wordOp = "SLA" /\ wordBefore < 0 /\ operand \in 1 .. Amounts - 1 => wordAcc < 0
  /\ wordOp \in {"SLL", "SRL", "SRA"} /\ operand \in 2 .. Width - 1 =>
       wordAcc = Shift(wordOp, Shift(wordOp, wordBefore, operand - 1), 1)

-----------------------------------------------------------------------------
(***************************************************************************)
(* Character values of conditional assembly: a term (dup)'text'(start,n)   *)
(* of a character expression (ca_string.cpp), the concatenation of terms   *)
(* (ca_conc), and the comparison of two values (ca_operator_binary.cpp).   *)
(* A value is built term by term; a character is a number, its place in    *)
(* EBCDIC.  A range is <<>>, <<start>> up to the end or <<start, count>>.  *)
(***************************************************************************)
CONSTANTS
  Chars,            \* the characters, a set of numbers
  StringMaxString,  \* ca_string::MAX_STR_SIZE
  MaxText,          \* bound: characters between the apostrophes
  MaxTerms          \* bound: terms of a value

Texts == UNION {[1 .. n -> Chars] : n \in 0 .. MaxText}
Dups == {-1, 0, 1, 2, StringMaxString}
Starts == -1 .. MaxText + 2
Counts == -1 .. MaxText
Ranges == {<<>>} \cup {<<s>> : s \in Starts} \cup (Starts \X Counts)

StringsAssumption == Chars \subseteq Nat /\ MaxText <= StringMaxString

VARIABLES
  text, dup, range,         \* the term evaluated last
  term,                     \* its value
  messages,                 \* the messages for it
  stringBefore, stringAcc,  \* the value without that term and with it
  stringTerms               \* number of terms

StringInit ==
  /\ text = <<>> /\ dup = 1 /\ range = <<>>
  /\ term = <<>> /\ messages = {}
  /\ stringBefore = <<>> /\ stringAcc = <<>> /\ stringTerms = 0

-----------------------------------------------------------------------------
Repeat(s, times) == FlattenSeq([k \in 1 .. times |-> s])
First(s, k) == SubSeq(s, 1, IF k < Len(s) THEN k ELSE Len(s))

(* utf8_substr; the count is as large as it gets when there is none.       *)
Substr(s, r) ==
  LET rest == SubSeq(s, r[1], Len(s))
  IN  IF Len(r) = 1 THEN rest ELSE First(rest, r[2])
OffsetValid(s, r) == r[1] <= Len(s) + 1

NoText == Len(range') = 2 /\ range'[2] = 0
BadRange == range' # <<>> /\ ~NoText /\ (range'[1] <= 0 \/ (Len(range') = 2 /\ range'[2] < 0))
Outside ==
  /\ range' # <<>> /\ ~NoText /\ ~BadRange
  /\ ~OffsetValid(text', range') \/ (Len(range') = 2 /\ Substr(text', range') = <<>>)

(* repeat_string as often as the text fits, and what fits of one more.     *)
Duplicated(s, times) ==
  IF Len(s) * times <= StringMaxString THEN Repeat(s, times)
  ELSE Repeat(s, StringMaxString \div Len(s)) \o First(s, StringMaxString % Len(s))

TooLong(s) == dup' > 0 /\ Len(s) * dup' > StringMaxString

(* ca_string::evaluate: the messages and the value of a term.              *)
Evaluate ==
  LET whole == IF range' = <<>> THEN text' ELSE Substr(text', range')
      bad == BadRange \/ Outside \/ NoText
  IN  /\ messages' = (IF dup' < 0 THEN {"CE010"} ELSE {})
                       \cup (IF BadRange THEN {"CE008"} ELSE {})
                       \cup (IF Outside THEN {"CE009"} ELSE {})
                       \cup (IF ~bad /\ TooLong(whole) THEN {"CE011"} ELSE {})
      /\ term' = IF bad \/ dup' <= 0 \/ whole = <<>> THEN <<>> ELSE Duplicated(whole, dup')
Fits(s, t) == Len(s) + Len(t) <= StringMaxString

(* ca_conc: a value that gets too long is dropped, with CE011.             *)
Concatenate ==
  /\ stringBefore' = stringAcc
  /\ stringAcc' = IF Fits(stringAcc, term') THEN stringAcc \o term' ELSE <<>>

StringTerm ==
  /\ stringTerms < MaxTerms
  /\ stringTerms' = stringTerms + 1
  /\ text' \in Texts /\ dup' \in Dups /\ range' \in Ranges
  /\ Evaluate
  /\ Concatenate

StringNext == StringTerm

-----------------------------------------------------------------------------
(* compare_string: the characters are compared as long as both have some;  *)
(* the first difference decides, but only between values of one length.    *)
Paired(l, r) == 1 .. (IF Len(l) < Len(r) THEN Len(l) ELSE Len(r))
Differences(l, r) == {k \in Paired(l, r) : l[k] # r[k]}
Deciding(l, r) ==
  CHOOSE k \in Differences(l, r) : \A j \in Differences(l, r) : k <= j

CompareString(l, r) ==
  IF Len(l) # Len(r) THEN IF Len(l) < Len(r) THEN -1 ELSE 1
  ELSE IF Differences(l, r) = {} THEN 0
  ELSE LET k == Deciding(l, r) IN IF l[k] < r[k] THEN -1 ELSE 1

EqualString(l, r) == Differences(l, r) = {} /\ Len(l) = Len(r)

-----------------------------------------------------------------------------
(* No value is longer than a character variable may be, whatever is        *)
(* repeated or put together.                                               *)
NeverTooLong == Len(term) <= StringMaxString /\ Len(stringAcc) <= StringMaxString

(* The value of a term without a message is the part of the text its range *)
(* names, repeated; with CE011 it is as much of that as there is room for. *)
TermIsPart ==
  LET from == IF range = <<>> THEN 1 ELSE range[1]
      end == IF Len(range) = 2 /\ from + range[2] - 1 < Len(text)
             THEN from + range[2] - 1 ELSE Len(text)
      size == end - from + 1
  IN  messages \subseteq {"CE011"} /\ term # <<>> =>
        /\ from >= 1
        /\ Len(term) = IF messages = {} THEN dup * size ELSE StringMaxString
        /\ \A k \in DOMAIN term : term[k] = text[from + ((k - 1) % size)]

(* A term is empty without a message only when that is what it says.       *)
NothingIsLost ==
  term = <<>> /\ messages = {} =>
    \/ dup = 0 \/ text = <<>>
    \/ Len(range) = 2 /\ range[2] = 0
    \/ Len(range) = 1 /\ range[1] = Len(text) + 1

(* LT, EQ and GT between two values are an order of their lengths and then *)
(* of their characters, EQ as equal_string decides it.                     *)
ComparisonIsOrder ==
  LET ref == CompareString(term, stringBefore) IN
  /\ ref = -CompareString(stringBefore, term)
  /\ (ref = 0) = EqualString(term, stringBefore)
  /\ Len(term) < Len(stringBefore) => ref = -1
  /\ \A c \in Chars :
       Len(term) = Len(stringBefore) =>
         CompareString(term \o <<c>>, stringBefore \o <<0>>) = IF ref # 0 THEN ref ELSE IF c = 0 THEN 0 ELSE 1

-----------------------------------------------------------------------------
(***************************************************************************)
(* The functions of conditional assembly that convert a value from one     *)
(* notation to another (ca_function.cpp).  A notation is A, a number, or a *)
(* string: B of bits, C of characters, D decimal, X hexadecimal, S any     *)
(* text and Q text with its apostrophes and ampersands doubled.  A string  *)
(* is the sequence of the values of its characters.  The code has Radix 16,*)
(* so that a character is two digits, and a word two characters here, four *)
(* in the code.  The translation between EBCDIC and UTF-8 is one to one    *)
(* and left out.                                                           *)
(***************************************************************************)
CONSTANTS
  DigitBits,          \* bits of a hexadecimal digit
  NotationMaxString,  \* ca_string::MAX_STR_SIZE
  MaxInput            \* bound: characters of a string that is given

Radix == 2 ^ DigitBits
CharCodes == Radix ^ 2
WordChars == 2
NotationWords == CharCodes ^ WordChars
WordDigits == 2 * WordChars
WordBits == WordDigits * DigitBits
DecimalDigits == 3

FunctionsAssumption ==
  /\ {DigitBits, NotationMaxString, MaxInput} \subseteq Nat \ {0}
  /\ NotationWords \div 2 - 1 \in 10 ^ (DecimalDigits - 1) .. 10 ^ DecimalDigits - 1
  /\ NotationMaxString >= WordBits

Plus == 100
NotationMinus == 101
Other == 99       \* a character that has no place in any of the notations
Apostrophe == 1   \* in a text
Ampersand == 2
NotationRefused == <<1000>>   \* in place of a string, after CE007
Failed == "refused"

Strings(chars, n) == UNION {[1 .. k -> chars] : k \in 0 .. n}

Inputs(k) ==
  CASE k = "A" -> {<<n>> : n \in -(NotationWords \div 2) .. NotationWords \div 2 - 1}
    [] k = "B" -> Strings({0, 1, Other}, MaxInput) \cup
                  [1 .. WordBits -> {0, 1}] \cup {[n \in 1 .. WordBits + 1 |-> 1]}
    [] k = "C" -> Strings({0, 1, Radix, CharCodes - 1}, MaxInput)
    [] k = "D" -> Strings({0, 1, 2, 8, Plus, NotationMinus, Other}, MaxInput)
    [] k = "X" -> Strings(0 .. Radix - 1 \cup {Other}, MaxInput)
    [] k = "S" -> Strings({0, Apostrophe, Ampersand}, MaxInput)

VARIABLES
  given,         \* the notation and the string of the first argument
  notationKind,  \* the notation of the value, or "refused" after CE007
  value          \* the string, or the number in a sequence of one

NotationInit ==
  \E k \in {"A", "B", "C", "D", "X", "S"} : \E s \in Inputs(k) :
    /\ given = <<k, s>>
    /\ notationKind = k /\ value = s

-----------------------------------------------------------------------------
NotationSigned(n) == IF n >= NotationWords \div 2 THEN n - NotationWords ELSE n
NotationUnsigned(n) == n % NotationWords
NotationValid(s, radix) == \A n \in DOMAIN s : s[n] < radix
Weigh(s, radix) == FoldLeft(LAMBDA sum, c : sum * radix + c, 0, s)
Digits(n, radix, count) ==
  [k \in 1 .. count |-> (n \div radix ^ (count - k)) % radix]
PadTo(s, n) == [k \in 1 .. ((n - (Len(s) % n)) % n) |-> 0] \o s
Padded(s, n) == PadTo(s, n)

Groups(s, n) == [k \in 1 .. Len(s) \div n |-> SubSeq(s, (k - 1) * n + 1, k * n)]

ToA(s, radix, limit) ==
  IF Len(s) > limit \/ ~NotationValid(s, radix) THEN NotationRefused
  ELSE <<NotationSigned(Weigh(s, radix))>>

B2A(s) == ToA(s, 2, WordBits)
C2A(s) == ToA(s, CharCodes, WordChars)
X2A(s) == ToA(s, Radix, WordDigits)

IsSign(c) == c \in {Plus, NotationMinus}
LeadingSigns(s) == SelectInSeq(s, LAMBDA c : ~IsSign(c)) - 1
NotationMagnitude(s) == IF IsSign(s[1]) THEN Tail(s) ELSE s
D2A(s) ==
  IF s = <<>> THEN <<0>>
  ELSE IF ~(LeadingSigns(s) \in {0, 1}) \/ Len(NotationMagnitude(s)) > DecimalDigits
            \/ ~NotationValid(NotationMagnitude(s), 10)
       THEN NotationRefused
       ELSE LET n == IF s[1] = NotationMinus THEN -Weigh(NotationMagnitude(s), 10)
                                             ELSE Weigh(NotationMagnitude(s), 10)
            IN  IF n \in -(NotationWords \div 2) .. NotationWords \div 2 - 1 THEN <<n>> ELSE NotationRefused

Decimal(n) ==
  LET count == CHOOSE k \in 1 .. DecimalDigits : n < 10 ^ k /\ (k = 1 \/ n >= 10 ^ (k - 1))
  IN  Digits(n, 10, count)
A2D(n) == IF n < 0 THEN <<NotationMinus>> \o Decimal(-n) ELSE <<Plus>> \o Decimal(n)
SIGNED(n) == IF n < 0 THEN <<NotationMinus>> \o Decimal(-n) ELSE Decimal(n)
A2B(n) == Digits(NotationUnsigned(n), 2, WordBits)
A2C(n) == Digits(NotationUnsigned(n), CharCodes, WordChars)
A2X(n) == Digits(NotationUnsigned(n), Radix, WordDigits)
BYTE(n) == IF n \in 0 .. CharCodes - 1 THEN <<n>> ELSE NotationRefused

(* Strings of any length are converted group by group.                     *)
Grouped(s, radix, n) ==
  IF ~NotationValid(s, radix) THEN NotationRefused
  ELSE LET groups == Groups(Padded(s, n), n)
       IN  [k \in DOMAIN groups |-> Weigh(groups[k], radix)]
B2C(s) == Grouped(s, 2, 2 * DigitBits)
B2X(s) == Grouped(s, 2, DigitBits)

(* The second digit of a pair is not looked at: from_chars stops before it.*)
Pair(p) == IF p[2] = Other THEN p[1] ELSE Weigh(p, Radix)
X2C(s) ==
  LET pairs == Groups(PadTo(s, 2), 2)
  IN  IF \E k \in DOMAIN pairs : pairs[k][1] = Other THEN NotationRefused
      ELSE [k \in DOMAIN pairs |-> Pair(pairs[k])]
Spread(s, radix, n) ==
  IF Len(s) * n > NotationMaxString \/ Other \in ToSet(s) THEN NotationRefused
  ELSE FlattenSeq([k \in DOMAIN s |-> Digits(s[k], radix, n)])
C2B(s) == Spread(s, 2, 2 * DigitBits)
C2X(s) == Spread(s, Radix, 2)
X2B(s) == Spread(s, 2, DigitBits)

Then(number, f(_)) == IF number = NotationRefused THEN NotationRefused ELSE f(number[1])
B2D(s) == Then(B2A(s), A2D)
C2D(s) == Then(C2A(s), A2D)
X2D(s) == Then(X2A(s), A2D)
D2B(s) == IF s = <<>> THEN <<>> ELSE Then(D2A(s), A2B)
D2C(s) == IF s = <<>> THEN NotationRefused ELSE Then(D2A(s), A2C)
D2X(s) == IF s = <<>> THEN NotationRefused ELSE Then(D2A(s), A2X)

ISBIN(s) == Len(s) <= WordBits /\ NotationValid(s, 2)
ISHEX(s) == Len(s) <= WordDigits /\ NotationValid(s, Radix)
ISDEC(s) ==
  /\ Len(s) <= DecimalDigits
  /\ NotationValid(s, 10)
  /\ Weigh(s, 10) < NotationWords \div 2

-----------------------------------------------------------------------------
Quote(c) == c \in {Apostrophe, Ampersand}
DOUBLE(s) ==
  LET t == FlattenSeq([k \in DOMAIN s |-> IF Quote(s[k]) THEN <<s[k], s[k]>> ELSE <<s[k]>>])
  IN  IF Len(t) > NotationMaxString THEN NotationRefused ELSE t

(* The characters of a text that DCVAL keeps: the second of a pair.        *)
RECURSIVE Kept(_, _)
Kept(s, k) ==
  IF k > Len(s) THEN <<>>
  ELSE IF Quote(s[k]) /\ k < Len(s) /\ s[k + 1] = s[k]
       THEN <<s[k + 1]>> \o Kept(s, k + 2)
       ELSE <<s[k]>> \o Kept(s, k + 1)
DCVAL(s) == Kept(s, 1)

-----------------------------------------------------------------------------
Becomes(k, s) ==
  /\ notationKind' = IF s = NotationRefused THEN Failed ELSE k
  /\ value' = s
  /\ UNCHANGED given

FromA ==
  /\ notationKind = "A"
  /\ \/ Becomes("B", A2B(value[1]))
     \/ Becomes("C", A2C(value[1]))
     \/ Becomes("D", A2D(value[1]))
     \/ Becomes("D", SIGNED(value[1]))
     \/ Becomes("X", A2X(value[1]))
     \/ value[1] \in 0 .. CharCodes - 1 /\ Becomes("C", BYTE(value[1]))
FromB ==
  /\ notationKind = "B"
  /\ \/ Becomes("A", B2A(value))
     \/ Becomes("C", B2C(value))
     \/ Becomes("D", B2D(value))
     \/ Becomes("X", B2X(value))
FromC ==
  /\ notationKind = "C"
  /\ \/ Becomes("A", C2A(value))
     \/ Becomes("B", C2B(value))
     \/ Becomes("D", C2D(value))
     \/ Becomes("X", C2X(value))
FromD ==
  /\ notationKind = "D"
  /\ \/ Becomes("A", D2A(value))
     \/ Becomes("B", D2B(value))
     \/ Becomes("C", D2C(value))
     \/ Becomes("X", D2X(value))
FromX ==
  /\ notationKind = "X"
  /\ \/ Becomes("A", X2A(value))
     \/ Becomes("B", X2B(value))
     \/ Becomes("C", X2C(value))
     \/ Becomes("D", X2D(value))
Quoting ==
  \/ notationKind = "S" /\ Becomes("Q", DOUBLE(value))
  \/ notationKind = "Q" /\ Becomes("S", DCVAL(value))

NotationNext ==
  \/ FromA
  \/ FromB
  \/ FromC
  \/ FromD
  \/ FromX
  \/ Quoting

-----------------------------------------------------------------------------
(* What a string of a notation says, as far as it says anything.           *)
Says(k, s) ==
  CASE k = "A" -> NotationUnsigned(s[1])
    [] k = "B" -> Weigh(s, 2)
    [] k = "C" -> Weigh(s, CharCodes)
    [] k = "X" -> Weigh(s, Radix)
    [] k = "D" -> IF s = <<>> THEN 0
                  ELSE IF s[1] = NotationMinus THEN NotationUnsigned(-Weigh(Tail(s), 10))
                  ELSE Weigh(NotationMagnitude(s), 10)

NotationWellFormed(k, s) ==
  CASE k = "B" -> NotationValid(s, 2)
    [] k = "X" -> NotationValid(s, Radix)
    [] k = "D" -> s = <<>> \/ (NotationMagnitude(s) # <<>> /\ NotationValid(NotationMagnitude(s), 10))
    [] OTHER -> TRUE

FitsAWord(k, s) ==
  /\ NotationWellFormed(k, s)
  /\ CASE k = "B" -> Len(s) <= WordBits
       [] k = "C" -> Len(s) <= WordChars
       [] k = "X" -> Len(s) <= WordDigits
       [] k = "D" -> s # <<>> /\ D2A(s) # NotationRefused
       [] OTHER -> TRUE

-----------------------------------------------------------------------------

(* However a value goes through the notations, it stays the number it was: *)
(* padding, grouping, signs and the limits of A2x, B2x, C2x, D2x and X2x   *)
(* fit together.                                                           *)
NumberIsKept ==
  given[1] # "S" /\ notationKind # Failed /\ NotationWellFormed(given[1], given[2]) =>
    Says(notationKind, value) = Says(given[1], given[2])

(* A string that fits a word is never refused on the way, whatever way.    *)
WordsAreNotRefused ==
  given[1] # "S" /\ FitsAWord(given[1], given[2]) => notationKind # Failed

(* What has a character too many is refused by the first conversion, but   *)
(* for hexadecimal strings, see BadDigitIsRefused.                         *)
BadIsRefused ==
  ~NotationWellFormed(given[1], given[2]) /\ given[1] # "X" =>
    notationKind = Failed \/ <<notationKind, value>> = given

(* ISBIN, ISDEC and ISHEX answer what the conversion would do.             *)
PredicatesAgree ==
  value # <<>> =>
    /\ notationKind = "B" => ISBIN(value) = (B2A(value) # NotationRefused)
    /\ notationKind = "X" => ISHEX(value) = (X2A(value) # NotationRefused)
    /\ notationKind = "D" => ISDEC(value) = (D2A(value) # NotationRefused /\ ~IsSign(value[1]))

(* DCVAL takes back what DOUBLE has done.                                  *)
TextIsKept == notationKind = "S" /\ given[1] = "S" => value = given[2]

-----------------------------------------------------------------------------
(***************************************************************************)
(* The list of terms and operators between the brackets of a conditional   *)
(* assembly expression, which becomes a tree when it is known what kind of *)
(* value is wanted (ca_expr_list::resolve of ca_expr_list.cpp), and the    *)
(* tables of the operators of a kind (ca_expr_policy.cpp).  "list" stands  *)
(* for an expression in brackets of its own, "AND()" for AND with one      *)
(* argument in brackets, and "(1)AND()" for that with a bracket before it. *)
(***************************************************************************)
CONSTANTS
  Tokens,  \* the tokens the list is made of
  MaxList  \* bound: tokens of the list

Relational == {"EQ", "LT"}
Bitwise == {"AND", "OR", "XOR"}
ListShifts == {"SLA", "SRL"}
Searches == {"FIND", "INDEX"}
Operators == Relational \cup Bitwise \cup ListShifts \cup Searches
               \cup {"NOT", "UPPER", "BYTE"}

Binary == [A |-> ListShifts \cup Searches \cup Bitwise,
           B |-> Relational \cup Bitwise,
           C |-> {}]
Unary == [A |-> {"NOT"}, B |-> {"NOT"}, C |-> {"UPPER", "BYTE"}]

Priority(k, op) ==
  CASE k = "A" /\ op \in Bitwise -> 1
    [] k = "A" /\ op \in ListShifts -> 2
    [] k = "A" /\ op \in Searches -> 3
    [] k = "B" /\ op = "NOT" -> 1
    [] k = "B" /\ op = "AND" -> 2
    [] k = "B" /\ op = "OR" -> 3
    [] k = "B" /\ op = "XOR" -> 4
    [] OTHER -> 0

(* The kind of value an operator takes in an expression of a kind.         *)
OperandsType(op, k) ==
  CASE k = "A" /\ op \in Searches -> "C"
    [] k = "A" /\ op \in {"NOT"} \cup Bitwise \cup ListShifts -> "A"
    [] k = "B" /\ op \in Binary.B \cup Unary.B -> "B"
    [] k = "C" /\ op = "BYTE" -> "A"
    [] k = "C" /\ op = "UPPER" -> "C"
    [] OTHER -> "undefined"

VARIABLES
  listKind,   \* the kind of value that is wanted
  bare,       \* ~binary_operators_allowed: a duplication factor
  list,       \* expr_list
  i,          \* the token being looked at
  prefer,     \* prefer_next_term
  listTerms,  \* stack of trees, each with the position it begins at
  ops,        \* stack of positions of operators
  outcome,    \* "splitting", "reading", "resolved" or the message
  errors      \* messages of the resolved tree

-----------------------------------------------------------------------------
(* A tree: the position of its operator or term, and its operands.         *)
Leaf(at) == [at |-> at, below |-> <<>>]
Node(at, below) == [at |-> at, below |-> below]

ListInit ==
  /\ listKind \in {"A", "B", "C"}
  /\ bare \in BOOLEAN /\ (bare => listKind = "A")
  /\ list \in UNION {[1 .. n -> Tokens] : n \in 0 .. MaxList}
  /\ i = 1 /\ prefer = TRUE
  /\ listTerms = <<>> /\ ops = <<>>
  /\ outcome = "splitting" /\ errors = {}

(* What unknown functions of one argument turn into.                       *)
Spaced(token) ==
  CASE token = "AND()" -> <<"AND", "list">>
    [] token = "(1)AND()" -> <<"list", "AND", "list">>
    [] OTHER -> <<token>>

Split ==
  /\ outcome = "splitting"
  /\ list' = IF listKind = "C" THEN list
             ELSE FlattenSeq([n \in DOMAIN list |-> Spaced(list[n])])
  /\ outcome' = "reading"
  /\ UNCHANGED <<listKind, bare, i, prefer, listTerms, ops, errors>>

-----------------------------------------------------------------------------
Token == list[i]
More == outcome = "reading" /\ i <= Len(list)
AtEnd == outcome = "reading" /\ i > Len(list)
ListValid == Binary[listKind] \cup Unary[listKind]

AsOperator == Token \in ListValid /\ ~(prefer /\ Token \in Binary[listKind])

ListRefused == Token \in Operators \ ListValid /\ ~prefer

ListTerm ==
  /\ More /\ ~AsOperator /\ ~ListRefused
  /\ listTerms' = Append(listTerms, [tree |-> Leaf(i), from |-> i])
  /\ prefer' = FALSE
  /\ i' = i + 1
  /\ UNCHANGED <<listKind, bare, list, ops, outcome, errors>>

Fail(code) ==
  /\ outcome' = code
  /\ UNCHANGED <<listKind, bare, list, i, prefer, listTerms, ops, errors>>

Invalid == More /\ ListRefused /\ Fail("CE002")
Precedes(at) == Priority(listKind, list[at]) <= Priority(listKind, Token)

MustReduce ==
  /\ ops # <<>>
  /\ AtEnd \/ (More /\ AsOperator /\ Token \in Binary[listKind] /\ Precedes(Last(ops)))

Operator ==
  /\ More /\ AsOperator /\ ~MustReduce
  /\ ops' = Append(ops, i)
  /\ prefer' = (Token \in Binary[listKind])
  /\ i' = i + 1
  /\ UNCHANGED <<listKind, bare, list, listTerms, outcome, errors>>

IsBinary(at) == list[at] \in Binary[listKind]
Top(n) == listTerms[Len(listTerms) + 1 - n]

InPlace(op, left, right) == left.from < op /\ op < right.from

Combined(op, left, right) == Node(op, <<left.tree, right.tree>>)

Pop(n) == SubSeq(listTerms, 1, Len(listTerms) - n)

ReduceBinary ==
  /\ MustReduce /\ IsBinary(Last(ops))
  /\ IF Len(listTerms) < 2 \/ ~InPlace(Last(ops), Top(2), Top(1)) THEN Fail("CE003")
     ELSE /\ listTerms' = Append(Pop(2), [tree |-> Combined(Last(ops), Top(2), Top(1)),
                                          from |-> Top(2).from])
          /\ ops' = Front(ops)
          /\ UNCHANGED <<listKind, bare, list, i, prefer, outcome, errors>>

ReduceUnary ==
  /\ MustReduce /\ ~IsBinary(Last(ops))
  /\ IF listTerms = <<>> \/ Top(1).from < Last(ops) THEN Fail("CE003")
     ELSE /\ listTerms' = Append(Pop(1), [tree |-> Node(Last(ops), <<Top(1).tree>>),
                                          from |-> Last(ops)])
          /\ ops' = Front(ops)
          /\ UNCHANGED <<listKind, bare, list, i, prefer, outcome, errors>>

-----------------------------------------------------------------------------
(* is_character_expression of the left side of a comparison.               *)
RECURSIVE IsCharacter(_)
IsCharacter(t) ==
  IF t.below = <<>> THEN list[t.at] = "'x'"
  ELSE Len(t.below) = 2 /\ list[t.at] \notin Searches /\ IsCharacter(t.below[1])

(* What a term is refused for.                                             *)
TermErrors(token, k) ==
  CASE token = "'x'" -> IF k # "C" THEN {"CE004"} ELSE {}
    [] token = "&v" -> IF k = "C" THEN {"CE017"} ELSE {}
    [] token = "list" -> {}
    [] token \in {"AND()", "(1)AND()"} -> {"CE004"}
    [] OTHER -> IF k = "C" THEN {"CE004"} ELSE {}

(* The kind both sides of a comparison have to be of.                      *)
Compared(t) == IF IsCharacter(t.below[1]) THEN "C" ELSE "A"

OperandKind(t, k) ==
  LET op == list[t.at]
  IN  CASE op \in Relational -> Compared(t)
        [] op \in Searches -> "C"
        [] OTHER -> OperandsType(op, k)

(* resolve_expression_tree: the messages for a tree that has to give k.    *)
RECURSIVE Errors(_, _)
Errors(t, k) ==
  LET op == list[t.at]
      wrong == CASE op \in Searches -> k \notin {"A", "B"}
                 [] Len(t.below) = 2 -> listKind # k
                 [] OTHER -> FALSE
      unknown == Len(t.below) = 2 /\ OperandKind(t, k) = "undefined"
  IN  IF t.below = <<>> THEN TermErrors(op, k)
      ELSE (IF wrong THEN {"CE004"} ELSE {})
             \cup (IF Len(t.below) = 2 /\ ~wrong /\ bare THEN {"CE005"} ELSE {})
             \cup (IF unknown THEN {"CE018"} ELSE {})
             \cup UNION {Errors(t.below[n], OperandKind(t, k)) : n \in DOMAIN t.below}
OneTerm == Len(listTerms) = 1

Finish ==
  /\ AtEnd /\ ops = <<>>
  /\ IF OneTerm
     THEN /\ outcome' = "resolved"
          /\ errors' = Errors(Top(1).tree, listKind)
          /\ UNCHANGED <<listKind, bare, list, i, prefer, listTerms, ops>>
     ELSE Fail(IF listTerms = <<>> THEN "CE003" ELSE "CE001")

ListNext ==
  \/ Split
  \/ ListTerm
  \/ Invalid
  \/ Operator
  \/ ReduceBinary
  \/ ReduceUnary
  \/ Finish

-----------------------------------------------------------------------------
(* The lists as a reader would check them.                                 *)
RECURSIVE Yield(_)
Yield(t) ==
  CASE t.below = <<>> -> <<t.at>>
    [] Len(t.below) = 1 -> <<t.at>> \o Yield(t.below[1])
    [] Len(t.below) = 2 -> Yield(t.below[1]) \o <<t.at>> \o Yield(t.below[2])

RECURSIVE Subtrees(_)
Subtrees(t) == {t} \cup UNION {Subtrees(t.below[n]) : n \in DOMAIN t.below}

(* Binary operators at the near edge of an operand, which the operator     *)
(* beside it could have taken apart.                                       *)
RECURSIVE LeftEdge(_)
LeftEdge(t) == IF Len(t.below) = 2 THEN {t.at} \cup LeftEdge(t.below[1]) ELSE {}
RECURSIVE RightEdge(_)
RightEdge(t) ==
  IF t.below = <<>> THEN {} ELSE {t.at} \cup RightEdge(Last(t.below))

(* The roles the names of the list play: an operator is binary only where  *)
(* an operand has just ended.                                              *)
RECURSIVE Roles(_, _)
Roles(n, expecting) ==
  IF n > Len(list) THEN <<>>
  ELSE LET t == list[n] IN
       IF t \in Unary[listKind] THEN <<"prefix">> \o Roles(n + 1, FALSE)
       ELSE IF t \in Binary[listKind] /\ ~expecting THEN <<"infix">> \o Roles(n + 1, TRUE)
       ELSE <<"term">> \o Roles(n + 1, FALSE)

(* prefix* term (infix prefix* term)*                                      *)
ListWellFormed(roles) ==
  /\ roles # <<>> /\ Last(roles) = "term" /\ Head(roles) # "infix"
  /\ \A n \in 1 .. Len(roles) - 1 : (roles[n] = "term") = (roles[n + 1] = "infix")

-----------------------------------------------------------------------------

(* The tree that is evaluated uses every token of the list once and reads, *)
(* from left to right, as the list does: the two stacks and the positions  *)
(* kept in them never let an operator have operands from the wrong side.   *)
ReadsAsWritten ==
  outcome = "resolved" => Yield(listTerms[1].tree) = [n \in DOMAIN list |-> n]

(* An operator takes the operands its priority gives it: nothing that      *)
(* binds weaker stands below it, and of equal ones the left comes first    *)
(* (the priorities of ca_arithmetic_policy and ca_binary_policy).          *)
PriorityDecides ==
  outcome = "resolved" =>
    \A t \in Subtrees(listTerms[1].tree) :
      LET at(set) == {Priority(listKind, list[n]) : n \in set}
          own == Priority(listKind, list[t.at])
      IN  /\ Len(t.below) = 2 => \A p \in at(RightEdge(t.below[1])) : p <= own
          /\ t.below # <<>> => \A p \in at(LeftEdge(Last(t.below))) : p < own

(* A list becomes a tree exactly when it is an expression; the name of a   *)
(* binary operator is a term wherever an expression may begin.             *)
ExpressionsAreAccepted ==
  outcome \notin {"splitting", "reading", "CE002"} =>
    (outcome = "resolved") = ListWellFormed(Roles(1, TRUE))

(* A comparison of two terms that passes without a message compares two    *)
(* strings or two numbers.                                                 *)
ComparandsAgree ==
  outcome = "resolved" /\ errors = {} =>
    \A t \in Subtrees(listTerms[1].tree) :
      list[t.at] \in Relational /\ Len(t.below) = 2
        /\ (\A n \in {1, 2} : t.below[n].below = <<>> /\ list[t.below[n].at] # "list")
      => (list[t.below[1].at] = "'x'") = (list[t.below[2].at] = "'x'")
=============================================================================
