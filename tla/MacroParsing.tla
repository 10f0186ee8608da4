---------------------------- MODULE MacroParsing ----------------------------
(***************************************************************************)
(* How the operands of the macro language are parsed: those of macro calls *)
(* and prototypes, those of conditional assembly, and the scan of the text *)
(* of a model statement.                                                   *)
(***************************************************************************)
EXTENDS Integers, SequencesExt

-----------------------------------------------------------------------------
(***************************************************************************)
(* Reading the operands of a macro call (macro_ops of parser_impl.cpp)     *)
(* into chains of text, variables and lists, over one or more lines.  What *)
(* is still to be returned to is the stack "goals"; the chains of the      *)
(* lists that are being read are the stack "chains".  A chain stands for   *)
(* the characters it is made of.                                           *)
(***************************************************************************)
CONSTANTS
  Characters,  \* of the text; "&V" is a variable, "&?" what fails to be one
  MaxText,     \* bound: length of the text
  LineEnds     \* positions that may be the first of a continuation line

MacroOrd == {"A", "L", "1"}
MacroFirst == {"A", "L"}
MacroAttrs == {"L"}
MacroVariables == {"&V", "&?"}

VARIABLES
  macroText,      \* the operand field, from its initial space on
  lines,          \* the positions at which a line begins
  macroAt,        \* input.next
  macroPhase,     \* "initial", "reading", "ended" or "done"
  macroGoals,     \* calls to return to, the innermost first
  chains,         \* chain of the operand, and of the lists in it, the innermost first
  macroSpecial,   \* next_char_special
  named,          \* op_name
  macroOperands,  \* the operands
  remarks,        \* positions that belong to a remark
  macroSays       \* the messages

MacroTexts == UNION {[1 .. n -> Characters] : n \in 1 .. MaxText}

MacroInit ==
  /\ macroText \in MacroTexts
  /\ lines \in SUBSET {p \in LineEnds : p \in 2 .. Len(macroText)}
  /\ macroAt = 1 /\ macroPhase = "initial" /\ macroGoals = <<"top">> /\ chains = <<<<>>>>
  /\ macroSpecial = TRUE /\ named = FALSE
  /\ macroOperands = <<>> /\ remarks = {} /\ macroSays = <<>>

-----------------------------------------------------------------------------
MacroChar(p) == IF p <= Len(macroText) THEN macroText[p] ELSE "eof"
MacroCh == MacroChar(macroAt)
MacroGoal(g) == macroPhase = "reading" /\ Head(macroGoals) = g

MacroPast(p, chars) ==
  CHOOSE q \in p .. Len(macroText) + 1 :
    /\ \A r \in p .. q - 1 : macroText[r] \in chars
    /\ q = Len(macroText) + 1 \/ macroText[q] \notin chars

Rest(p) == p .. Len(macroText)
ChainMoved == <<>>

(* push_operand.                                                           *)
Pushed(chain, last) ==
  IF chain = <<>> /\ last /\ macroOperands = <<>> THEN macroOperands ELSE Append(macroOperands, chain)

(* The whole rest of the field becomes a remark.                           *)
EndAt(p, chain) ==
  /\ macroOperands' = Pushed(chain, TRUE)
  /\ remarks' = remarks \cup Rest(p)
  /\ macroAt' = Len(macroText) + 1 /\ macroPhase' = "done"
  /\ macroGoals' = <<>> /\ chains' = <<>>
  /\ UNCHANGED <<macroText, lines, macroSpecial, named>>

(* A fault ends the field; of the operand in progress, what has been read  *)
(* outside of lists is kept (consume_rest).                                *)
Fault(p, code) ==
  /\ macroSays' = Append(macroSays, code)
  /\ EndAt(MacroPast(p, Characters \ {" "}), Last(chains))

-----------------------------------------------------------------------------
(* handle_initial_space.                                                   *)
Initial ==
  /\ macroPhase = "initial"
  /\ IF MacroCh # " "
       THEN /\ macroSays' = <<"S0002">>
            /\ macroAt' = Len(macroText) + 1 /\ macroPhase' = "done"
            /\ remarks' = Rest(MacroPast(1, Characters \ {" "}))
       ELSE /\ macroAt' = MacroPast(1, {" "})
            /\ macroPhase' = IF MacroPast(1, {" "}) > Len(macroText) THEN "done" ELSE "reading"
            /\ UNCHANGED <<macroSays, remarks>>
  /\ UNCHANGED <<macroText, lines, macroGoals, chains, macroSpecial, named, macroOperands>>

RemarkFollows(p) == MacroChar(p) = " " /\ p \notin lines

(* process_optional_line_remark: a remark to the end of the line.          *)
LineEnd(p) ==
  CHOOSE q \in p .. Len(macroText) + 1 :
    /\ q \in lines \cup {Len(macroText) + 1}
    /\ \A r \in p + 1 .. q - 1 : r \notin lines
MacroAfterComma(p) == IF RemarkFollows(p) THEN LineEnd(p) ELSE p

MacroBecomes(n, steps, chain) ==
  /\ macroAt' = macroAt + n
  /\ macroGoals' = steps
  /\ chains' = <<chain>> \o Tail(chains)
  /\ UNCHANGED <<macroText, lines, macroPhase, macroOperands, remarks, macroSays>>

Taken(n) == Head(chains) \o SubSeq(macroText, macroAt, macroAt + n - 1)

Takes(n, steps) == MacroBecomes(n, steps, Taken(n))
ChainsAround == chains

(* A list: a chain of its own, which goes into the chain around it.        *)
Opens(steps) ==
  /\ macroAt' = macroAt + 1
  /\ macroGoals' = IF MacroChar(macroAt + 1) = ")" THEN <<"close">> \o steps ELSE <<"operand", "list">> \o steps
  /\ chains' = <<<<"(">>>> \o ChainsAround
  /\ macroSpecial' = TRUE /\ named' = FALSE
  /\ UNCHANGED <<macroText, lines, macroPhase, macroOperands, remarks, macroSays>>

Around == IF Len(chains) = 1 THEN <<>> ELSE chains[2]

Close ==
  /\ MacroGoal("close")
  /\ IF MacroCh # ")" THEN Fault(macroAt, "S0011")
     ELSE /\ macroAt' = macroAt + 1 /\ macroGoals' = Tail(macroGoals)
          /\ chains' = <<Around \o Head(chains) \o <<")">>>> \o SubSeq(chains, 3, Len(chains))
          /\ macroSpecial' = TRUE
          /\ UNCHANGED <<macroText, lines, macroPhase, macroOperands, remarks, macroSays, named>>

MacroList ==
  /\ MacroGoal("list")
  /\ IF MacroCh # "," THEN MacroBecomes(0, <<"close">> \o Tail(macroGoals), Head(chains))
                           /\ UNCHANGED <<macroSpecial, named>>
     ELSE /\ macroAt' = MacroAfterComma(macroAt + 1)
          /\ remarks' = remarks \cup (macroAt + 1 .. MacroAfterComma(macroAt + 1) - 1)
          /\ macroGoals' = <<"operand">> \o macroGoals
          /\ chains' = <<Head(chains) \o <<",">>>> \o Tail(chains)
          /\ macroSpecial' = TRUE /\ named' = FALSE
          /\ UNCHANGED <<macroText, lines, macroPhase, macroOperands, macroSays>>

-----------------------------------------------------------------------------
Into(n, nextSpecial) ==
  Takes(n, <<"operand">> \o macroGoals) /\ macroSpecial' = nextSpecial /\ named' = FALSE

Top ==
  /\ MacroGoal("top")
  /\ CASE MacroCh \in {"eof", " "} -> EndAt(macroAt, Head(chains)) /\ UNCHANGED macroSays
       [] MacroCh = "," ->
            /\ macroOperands' = Pushed(Head(chains), FALSE)
            /\ chains' = <<ChainMoved>>
            /\ macroAt' = MacroAfterComma(macroAt + 1)
            /\ remarks' = remarks \cup (macroAt + 1 .. MacroAfterComma(macroAt + 1) - 1)
            /\ UNCHANGED <<macroText, lines, macroPhase, macroGoals, macroSpecial, named, macroSays>>
       [] MacroCh = ")" -> Fault(macroAt, "S0012")
       [] MacroCh = "(" -> Opens(macroGoals)
       [] MacroCh \in MacroFirst /\ ~(MacroCh \in MacroAttrs /\ MacroChar(macroAt + 1) = "'") ->
            LET end == MacroPast(macroAt, MacroOrd)
                keyword == MacroChar(end) = "="
                n == IF keyword THEN end + 1 - macroAt ELSE end - macroAt
            IN IF MacroChar(macroAt + n) \in {"eof", " ", ","}
                 THEN Takes(n, macroGoals) /\ UNCHANGED <<macroSpecial, named>>
                 ELSE Into(n, keyword)
       [] MacroCh \in MacroVariables \cup {"&&"} ->
            /\ Takes(0, <<"operand">> \o macroGoals)
            /\ macroSpecial' = TRUE /\ named' = TRUE
       [] OTHER -> Into(0, TRUE)

Goes(n, nextSpecial) == Takes(n, macroGoals) /\ macroSpecial' = nextSpecial /\ named' = FALSE

(* lex_macro_operand_attr.                                                 *)
MacroAttribute ==
  CASE MacroChar(macroAt + 2) \in MacroFirst \cup {"="} -> Goes(2, FALSE)
    [] MacroChar(macroAt + 2) \in MacroVariables \cup {"&&"} ->
         Takes(0, <<"attribute">> \o macroGoals) /\ macroSpecial' = TRUE /\ named' = FALSE
    [] OTHER -> Goes(1, FALSE)

InAttribute ==
  /\ MacroGoal("attribute")
  /\ CASE MacroCh \in {"eof", ",", ")", " "} ->
            MacroBecomes(0, Tail(macroGoals), Head(chains)) /\ UNCHANGED <<macroSpecial, named>>
       [] MacroCh = "&?" -> Fault(macroAt + 1, "S0008")
       [] OTHER -> Goes(1, TRUE)

Return == MacroBecomes(0, Tail(macroGoals), Head(chains)) /\ UNCHANGED <<macroSpecial, named>>

(* lex_macro_operand.                                                      *)
Operand ==
  /\ MacroGoal("operand")
  /\ CASE MacroCh \in {"eof", " ", ")", ","} -> Return
       [] MacroCh = "=" -> Goes(1, FALSE)
       [] MacroCh = "." -> Goes(1, TRUE)
       [] MacroCh = "(" -> Opens(macroGoals)
       [] MacroCh = "'" -> Takes(1, <<"string">> \o macroGoals) /\ macroSpecial' = FALSE /\ named' = FALSE
       [] MacroCh \in {"&V", "&&"} ->
            IF named /\ MacroChar(macroAt + 1) = "=" THEN Goes(2, TRUE) ELSE Goes(1, FALSE)
       [] MacroCh = "&?" -> Fault(macroAt + 1, "S0008")
       [] MacroCh \in MacroAttrs -> IF macroSpecial /\ MacroChar(macroAt + 1) = "'" THEN MacroAttribute ELSE Goes(1, FALSE)
       [] OTHER -> Goes(1, MacroCh \notin MacroOrd)
MacroOpenString == Fault(macroAt, "S0005")

(* lex_macro_operand_string.                                               *)
MacroString ==
  /\ MacroGoal("string")
  /\ CASE MacroCh = "eof" -> MacroOpenString
       [] MacroCh = "&?" -> Fault(macroAt + 1, "S0008")
       [] MacroCh = "'" /\ MacroChar(macroAt + 1) = "'" -> Takes(2, macroGoals) /\ UNCHANGED <<macroSpecial, named>>
       [] MacroCh = "'" /\ MacroChar(macroAt + 1) # "'" -> Takes(1, Tail(macroGoals)) /\ UNCHANGED <<macroSpecial, named>>
       [] OTHER -> Takes(1, macroGoals) /\ UNCHANGED <<macroSpecial, named>>

-----------------------------------------------------------------------------
MacroNext == Initial \/ Top \/ Operand \/ InAttribute \/ MacroString \/ MacroList \/ Close
-----------------------------------------------------------------------------
(* Properties                                                              *)

RECURSIVE Joined(_)
Joined(chain) == IF Len(chain) < 2 THEN FlattenSeq(chain)
                 ELSE Head(chain) \o <<",">> \o Joined(Tail(chain))

FromTo(p, q) ==
  LET kept == SelectSeq([n \in 1 .. Len(macroText) |-> n],
                        LAMBDA n : n >= p /\ n < q /\ n \notin remarks)
  IN [n \in DOMAIN kept |-> macroText[kept[n]]]

Begins == MacroPast(1, {" "})
Written == FromTo(Begins, Len(macroText) + 1)

(* No character of the field is lost, read twice or put in another         *)
(* operand: the operands with their commas, and what has been taken for    *)
(* remarks, are the field; with a fault, they are its beginning            *)
(* (macro_ops, process_macro_list).                                        *)
OperandsAreTheText ==
  macroPhase = "done" =>
    IF macroSays = <<>> THEN Joined(macroOperands) = Written ELSE IsPrefix(Joined(macroOperands), Written)

(* The chains that are in progress hold what has been read since the last  *)
(* operand, in lists of any depth.                                         *)
ChainsHoldTheRest ==
  macroPhase = "reading" =>
    FromTo(Begins, macroAt) = Joined(Append(macroOperands, FlattenSeq(Reverse(chains))))

(* A remark is told from an operand line by line: every line of a field    *)
(* begins outside of the remark of the line before, so that the operands   *)
(* after a remark are read (process_optional_line_remark).                 *)
RemarkEndsWithItsLine ==
  macroPhase = "reading" => \A p \in lines : p < macroAt => p \notin remarks

-----------------------------------------------------------------------------
(***************************************************************************)
(* Reading the operands of conditional assembly instructions (ca_args,     *)
(* ca_expr_ops, ca_branch_ops, ca_var_def_ops and lex_expr_general of      *)
(* parser_impl.cpp): expressions, lists, strings with substrings and       *)
(* duplication, functions and variables.  The calls of the recursive       *)
(* descent that are to be made or finished are the stack "goals".  A word  *)
(* is made of single letters; "F" alone is the name of a function, "N"     *)
(* stands for NOT.                                                         *)
(***************************************************************************)
CONSTANTS
  Pieces,     \* for "expression", "branch" and "definition" (some of these):
              \* what the texts are put together from
  MaxPieces,  \* bound: pieces of a text
  InString    \* ca_string_enabled is off: within a string that is put off

Digits == {"1"}
Letters == {"A", "F", "L", "N", "X"}
CaOrd == Letters \cup Digits
CaAttrs == {"L"}
SelfDef == {"X"}
Names == {"&A", "&(", "&?"}  \* a variable, a created one, and what is neither

VARIABLES
  kind,        \* the kind of operands
  caText,      \* the operand field
  caAt,        \* input.next
  caPhase,     \* "operands", "operand", "rest" or "done"
  pending,     \* the last thing read is no operand
  caGoals,     \* the calls in progress, the innermost first
  spaces,      \* for each list in progress: it has leading or trailing spaces
  caOperands,  \* "given", "constant" or "empty" for each
  silent,      \* a failure was not told
  caSays,      \* the messages
  caRest       \* where the operands ended, 0 before that

CaTexts == [k \in DOMAIN Pieces |->
              UNION {{FlattenSeq(p) : p \in [1 .. n -> Pieces[k]]} : n \in 1 .. MaxPieces}]

CaInit ==
  /\ kind \in DOMAIN Pieces /\ caText \in CaTexts[kind]
  /\ caAt = 1 /\ caPhase = "operands" /\ pending = TRUE
  /\ caGoals = <<>> /\ spaces = <<>>
  /\ caOperands = <<>> /\ silent = FALSE /\ caSays = <<>> /\ caRest = 0

-----------------------------------------------------------------------------
CaChar(p) == IF p <= Len(caText) THEN caText[p] ELSE "eof"
CaCh == CaChar(caAt)

CaPast(p, chars) ==
  CHOOSE q \in p .. Len(caText) + 1 :
    /\ \A r \in p .. q - 1 : caText[r] \in chars
    /\ q = Len(caText) + 1 \/ caText[q] \notin chars

SyntaxError(p) == IF CaChar(p) = "eof" THEN "S0003" ELSE "S0002"

CaGoal(g) == caGoals # <<>> /\ Head(caGoals) = g

CaBecomes(p, steps) ==
  /\ caAt' = p
  /\ caGoals' = steps \o Tail(caGoals)
  /\ UNCHANGED <<kind, caText, caPhase, pending, caOperands, silent, caSays, caRest>>

To(p, steps) == CaBecomes(p, steps) /\ UNCHANGED spaces
Reads(n, steps) == To(caAt + n, steps)
CaAfterComma == IF pending THEN Append(caOperands, "empty") ELSE caOperands

Ended(p) == caPhase' = "rest" /\ caRest' = p
Fallback == IF kind = "expression" THEN Append(caOperands, "constant") ELSE caOperands

(* A failure ends the operands; of an expression a constant is left.       *)
Leaves(p) ==
  /\ caAt' = p /\ caGoals' = <<>> /\ spaces' = <<>>
  /\ caOperands' = Fallback
  /\ pending' = FALSE
  /\ Ended(p)
  /\ UNCHANGED <<kind, caText>>

FailAt(p, code) == Leaves(p) /\ caSays' = Append(caSays, code) /\ UNCHANGED silent
Fail(code) == FailAt(caAt, code)
FailSilently == Leaves(caAt) /\ silent' = TRUE /\ UNCHANGED caSays

-----------------------------------------------------------------------------
Expect(goal, c, code) ==
  CaGoal(goal) /\ IF CaCh = c THEN Reads(1, <<>>) ELSE Fail(code)

Marks ==
  \/ Expect(")", ")", "S0011")
  \/ Expect("comma", ",", SyntaxError(caAt))
  \/ Expect("separator", ",", "S0002")
  \/ Expect("opening", "(", SyntaxError(caAt))
  \/ CaGoal("blanks") /\ To(CaPast(caAt, {" "}), <<>>)

NotFollows(p) == CaChar(p) = "N" /\ CaChar(p + 1) \notin CaOrd \cup {"eof"}

Expression ==
  \/ /\ CaGoal("general")
     /\ IF NotFollows(caAt) THEN To(CaPast(caAt + 1, {" "}), <<"general">>)
        ELSE Reads(0, <<"expression">>)
  \/ CaGoal("expression") /\ Reads(0, <<"product", "operator">>)
  \/ /\ CaGoal("operator")
     /\ CASE CaCh \in {"+", "-"} -> Reads(1, <<"product", "sum">>)
          [] CaCh = "." -> Reads(1, <<"signed", "concatenation">>)
          [] OTHER -> Reads(0, <<>>)
  \/ /\ CaGoal("sum")
     /\ IF CaCh \in {"+", "-"} THEN Reads(1, <<"product", "sum">>) ELSE Reads(0, <<>>)
  \/ /\ CaGoal("concatenation")
     /\ IF CaCh = "." THEN Reads(1, <<"signed", "concatenation">>) ELSE Reads(0, <<>>)
  \/ CaGoal("product") /\ Reads(0, <<"signed", "factors">>)
  \/ /\ CaGoal("factors")
     /\ IF CaCh = "*" THEN Reads(1, <<"signed", "factors">>) ELSE Reads(0, <<>>)
  \/ /\ CaGoal("signed")
     /\ IF CaCh = "+" \/ (CaCh = "-" /\ CaChar(caAt + 1) \notin Digits)
          THEN Reads(1, <<"signed">>) ELSE Reads(0, <<"term">>)

Word == CaPast(caAt, CaOrd)
IsFunction == CaCh = "F" /\ Word = caAt + 1

(* lex_attribute_reference.                                                *)
CaAttribute ==
  CASE CaChar(caAt + 2) \in Names -> Reads(2, <<"variable", "dot">>)
    [] CaChar(caAt + 2) = "*" -> FailAt(caAt + 2, "S0014")
    [] CaChar(caAt + 2) \in Letters -> To(CaPast(caAt + 2, CaOrd), <<>>)
    [] OTHER -> FailAt(caAt + 2, SyntaxError(caAt + 2))

Quoted == CaChar(caAt + 1) = "'"

Term ==
  \/ /\ CaGoal("term")
     /\ CASE CaCh \in Names -> Reads(0, <<"variable">>)
          [] CaCh \in {"-"} \cup Digits ->
               IF CaChar(caAt + 1) \in Digits \/ CaCh # "-" THEN To(CaPast(caAt + 1, Digits), <<>>)
               ELSE FailAt(caAt + 1, SyntaxError(caAt + 1))
          [] CaCh = "'" -> Reads(0, <<"group">>)
          [] CaCh = "(" -> /\ CaBecomes(CaPast(caAt + 1, {" "}), <<"expression", "more">>)
                           /\ spaces' = <<CaChar(caAt + 1) = " ">> \o spaces
          [] CaCh \in SelfDef /\ Quoted -> Reads(2, <<"simple string">>)
          [] CaCh \in CaAttrs /\ Quoted -> CaAttribute
          [] CaCh \in Letters /\ ~(CaCh \in SelfDef \cup CaAttrs /\ Quoted) ->
               To(Word, IF IsFunction /\ CaChar(Word) = "(" THEN <<"arguments">> ELSE <<>>)
          [] OTHER -> Fail(SyntaxError(caAt))
  \/ /\ CaGoal("dot")
     /\ Reads(IF CaCh = "." THEN 1 ELSE 0, <<>>)

(* lex_maybe_expression_list: more expressions, with or without spaces.    *)
CaList ==
  /\ CaGoal("more")
  /\ LET next == CaPast(caAt, {" "})
     IN IF CaChar(next) \notin {")", "eof"}
          THEN To(next, <<"expression", "more">>)
          ELSE /\ CaBecomes(next, <<")", "after list">>)
               /\ spaces' = <<Head(spaces) \/ next > caAt>> \o Tail(spaces)
SpacedList == Head(spaces)

(* A list is a duplication factor when a string or a function follows.     *)
AfterList ==
  /\ CaGoal("after list")
  /\ spaces' = Tail(spaces)
  /\ CASE ~SpacedList /\ CaCh = "'" -> CaBecomes(caAt, <<"group">>)
       [] ~SpacedList /\ IsFunction -> CaBecomes(Word, <<"called">>)
       [] OTHER -> CaBecomes(caAt, <<>>)

(* lex_subscript_ne: spaces are for one argument only.                     *)
Arguments ==
  \/ /\ CaGoal("called")
     /\ IF CaCh = "(" THEN Reads(0, <<"arguments">>) ELSE Fail(SyntaxError(caAt))
  \/ /\ CaGoal("arguments")
     /\ IF CaChar(caAt + 1) = " "
          THEN To(CaPast(caAt + 1, {" "}), <<"expression", "blanks", ")">>)
          ELSE Reads(1, <<"expression", "second">>)
  \/ /\ CaGoal("second")
     /\ CASE CaCh = " " -> To(CaPast(caAt, {" "}), <<")">>)
          [] CaCh = ")" -> Reads(1, <<>>)
          [] OTHER -> Reads(0, <<"separator", "expression", "others">>)
  \/ /\ CaGoal("others")
     /\ IF CaCh = "," THEN Reads(1, <<"expression", "others">>) ELSE Reads(0, <<")">>)

-----------------------------------------------------------------------------
(* lex_rest_of_ca_string_group.                                            *)
Group ==
  \/ /\ CaGoal("group")
     /\ IF InString THEN FailSilently ELSE Reads(1, <<"string", "substring", "next string">>)
  \/ /\ CaGoal("next string")
     /\ CASE CaCh = "(" -> Reads(1, <<"general", ")", "factored">>)
          [] CaCh = "'" -> Reads(1, <<"string", "substring", "next string">>)
          [] OTHER -> Reads(0, <<>>)
  \/ /\ CaGoal("factored")
     /\ IF CaCh = "'" THEN Reads(1, <<"string", "substring", "next string">>)
        ELSE FailSilently
  \/ /\ CaGoal("substring")
     /\ IF CaCh = "(" THEN Reads(1, <<"general", "comma", "length">>) ELSE Reads(0, <<>>)
  \/ /\ CaGoal("length")
     /\ IF CaCh = "*" THEN Reads(1, <<")">>) ELSE Reads(0, <<"general", ")">>)
CaOpenString == Fail("S0005")

CaString ==
  \/ /\ CaGoal("string")
     /\ CASE CaCh = "eof" -> CaOpenString
          [] CaCh = "'" /\ Quoted -> Reads(2, <<"string">>)
          [] CaCh = "'" /\ ~Quoted -> Reads(1, <<>>)
          [] CaCh \in Names -> Reads(0, <<"variable", "string">>)
          [] OTHER -> Reads(1, <<"string">>)
  \/ /\ CaGoal("simple string")
     /\ CASE CaCh = "eof" -> Fail("S0005")
          [] CaCh = "'" /\ Quoted -> Reads(2, <<"simple string">>)
          [] CaCh = "'" /\ ~Quoted -> Reads(1, <<>>)
          [] CaCh \in Names -> Fail("S0002")
          [] OTHER -> Reads(1, <<"simple string">>)

(* lex_variable: a name, maybe a created one, and subscripts.              *)
CaVariable ==
  \/ /\ CaGoal("variable")
     /\ CASE CaCh = "&A" -> To(CaPast(caAt + 1, CaOrd), <<"subscript">>)
          [] CaCh = "&?" -> FailAt(caAt + 1, "S0008")
          [] CaCh = "&(" -> IF CaChar(caAt + 1) \in {")", "eof"} THEN FailAt(caAt + 1, SyntaxError(caAt + 1))
                            ELSE Reads(1, <<"compound", "subscript">>)
  \/ /\ CaGoal("compound")
     /\ CASE CaCh = "eof" -> Fail("S0011")
          [] CaCh = ")" -> Reads(1, <<>>)
          [] CaCh \in Names -> Reads(0, <<"variable", "compound">>)
          [] CaCh = "&&" -> FailAt(caAt + 1, "S0008")
          [] OTHER -> Reads(1, <<"compound">>)
  \/ /\ CaGoal("subscript")
     /\ IF CaCh = "(" THEN Reads(1, <<"expression", "others">>) ELSE Reads(0, <<>>)

(* ca_branch_ops and ca_var_def_ops.                                       *)
Branch ==
  \/ /\ CaGoal("branch")
     /\ IF CaCh = "(" THEN To(CaPast(caAt + 1, {" "}), <<"expression", "elements", "target">>)
        ELSE Reads(0, <<"target">>)
  \/ /\ CaGoal("elements")
     /\ LET next == CaPast(caAt, {" "})
        IN IF CaChar(next) \in {")", "eof"} THEN To(next, <<")">>)
           ELSE To(next, <<"expression", "elements">>)
  \/ /\ CaGoal("target")
     /\ IF CaCh # "." THEN Fail(SyntaxError(caAt))
        ELSE IF CaChar(caAt + 1) \notin Letters THEN FailAt(caAt + 1, SyntaxError(caAt + 1))
        ELSE To(CaPast(caAt + 1, CaOrd), <<>>)

Definition ==
  \/ /\ CaGoal("definition")
     /\ CASE CaCh = "&(" -> Reads(0, <<"variable name", "dimension">>)
          [] CaCh = "(" -> IF CaChar(caAt + 1) \in {")", "eof"} THEN FailAt(caAt + 1, SyntaxError(caAt + 1))
                           ELSE Reads(1, <<"compound", "dimension">>)
          [] CaCh = "&A" -> To(CaPast(caAt + 1, CaOrd), <<"dimension">>)
          [] CaCh \in Letters -> To(Word, <<"dimension">>)
          [] OTHER -> FailAt(IF CaCh \in {"&?", "&&"} THEN caAt + 1 ELSE caAt, "S0008")
  \/ /\ CaGoal("variable name")
     /\ IF CaChar(caAt + 1) \in {")", "eof"} THEN FailAt(caAt + 1, SyntaxError(caAt + 1))
        ELSE Reads(1, <<"compound">>)
  \/ /\ CaGoal("dimension")
     /\ CASE CaCh # "(" -> Reads(0, <<>>)
          [] CaCh = "(" /\ CaChar(caAt + 1) \in Digits -> To(CaPast(caAt + 1, Digits), <<")">>)
          [] OTHER -> FailAt(caAt + 1, SyntaxError(caAt + 1))

-----------------------------------------------------------------------------
Start ==
  /\ caPhase = "operands" /\ pending /\ CaCh \notin {" ", "eof", ","}
  /\ caPhase' = "operand"
  /\ caGoals' = <<CASE kind = "expression" -> "general"
                    [] kind = "branch" -> "branch"
                    [] kind = "definition" -> "definition">>
  /\ UNCHANGED <<kind, caText, caAt, pending, spaces, caOperands, silent, caSays, caRest>>

Comma ==
  /\ caPhase = "operands" /\ CaCh = ","
  /\ caAt' = caAt + 1
  /\ caOperands' = CaAfterComma
  /\ pending' = TRUE
  /\ UNCHANGED <<kind, caText, caPhase, caGoals, spaces, silent, caSays, caRest>>

Unseparated ==
  /\ caPhase = "operands" /\ ~pending /\ CaCh \notin {" ", "eof", ","}
  /\ caSays' = Append(caSays, "S0002")
  /\ Ended(caAt)
  /\ UNCHANGED <<kind, caText, caAt, pending, caGoals, spaces, caOperands, silent>>

Given ==
  /\ caPhase = "operand" /\ caGoals = <<>>
  /\ caPhase' = "operands" /\ pending' = FALSE
  /\ caOperands' = Append(caOperands, "given")
  /\ UNCHANGED <<kind, caText, caAt, caGoals, spaces, silent, caSays, caRest>>

Finish ==
  /\ caPhase = "operands" /\ CaCh \in {" ", "eof"}
  /\ Ended(caAt)
  /\ caOperands' = CaAfterComma
  /\ UNCHANGED <<kind, caText, caAt, pending, caGoals, spaces, silent, caSays>>

Remark ==
  /\ caPhase = "rest"
  /\ caAt' = Len(caText) + 1 /\ caPhase' = "done"
  /\ UNCHANGED <<kind, caText, pending, caGoals, spaces, caOperands, silent, caSays, caRest>>

CaNext ==
  \/ Start \/ Comma \/ Unseparated \/ Given \/ Finish \/ Remark
  \/ Marks \/ Expression \/ Term \/ CaList \/ AfterList \/ Arguments
  \/ Group \/ CaString \/ CaVariable \/ Branch \/ Definition

-----------------------------------------------------------------------------
(* The grammar of the operands.  With apart, the expressions of a list are *)
(* separated by spaces, and a dot behind the attribute of a variable is    *)
(* not in question.                                                        *)

Without(s, n) == SubSeq(s, n + 1, Len(s))
CaBefore(s, n) == SubSeq(s, 1, n - 1)
Inner(s) == SubSeq(s, 2, Len(s) - 1)
Stripped(s) == SelectInSeq(s, LAMBDA c : c # " ")
Blank(s) == ToSet(s) \subseteq {" "}
Unblanked(s) == IF Blank(s) THEN <<>> ELSE Without(s, Stripped(s) - 1)
Bracketed(s) == Len(s) > 2 /\ s[1] = "(" /\ s[Len(s)] = ")"
IsNumber(s) == s # <<>> /\ ToSet(s) \subseteq Digits
IsWord(s) == s # <<>> /\ s[1] \in Letters /\ ToSet(s) \subseteq CaOrd
IsPlain(s) == s # <<>> /\ s[1] = "&A" /\ ToSet(Tail(s)) \subseteq CaOrd

(* The rules refer to one another, and to themselves, by their names.      *)
RECURSIVE Is(_, _, _)
IsExpression(s, apart) ==
  \/ Is("sum", s, apart)
  \/ /\ apart => \A n \in 3 .. Len(s) : s[n] \in Names => s[n - 1] # "'"
     /\ Is("concatenation", s, apart)
IsSum(s, apart) ==
  \/ Is("product", s, apart)
  \/ \E n \in 2 .. Len(s) - 1 : /\ s[n] \in {"+", "-"}
                                /\ Is("product", Without(s, n), apart) /\ Is("sum", CaBefore(s, n), apart)
IsConcatenation(s, apart) ==
  \E n \in 2 .. Len(s) - 1 :
    /\ s[n] = "." /\ Is("signed", Without(s, n), apart)
    /\ Is("product", CaBefore(s, n), apart) \/ Is("concatenation", CaBefore(s, n), apart)
IsProduct(s, apart) ==
  \/ Is("signed", s, apart)
  \/ \E n \in 2 .. Len(s) - 1 : /\ s[n] = "*" /\ Is("signed", Without(s, n), apart)
                                /\ Is("product", CaBefore(s, n), apart)

(* Text with variables in it, which end where no subscript can follow.     *)
IsNamed(s, apart) ==
  \/ IsPlain(s)
  \/ /\ Len(s) > 2 /\ s[1] = "&(" /\ s[Len(s)] = ")"
     /\ s[2] # ")" /\ Is("name text", Inner(s), apart)
IsSubscripted(s, apart) ==
  \E n \in 1 .. Len(s) - 2 : /\ IsNamed(SubSeq(s, 1, n), apart)
                             /\ Bracketed(Without(s, n))
                             /\ Is("arguments", Inner(Without(s, n)), apart)
IsText(s, rule, not, apart) ==
  \/ s = <<>>
  \/ s[1] \notin Names \cup not /\ Is(rule, Tail(s), apart)
  \/ /\ "'" \in not /\ Len(s) > 1 /\ s[1] = "'" /\ s[2] = "'"
     /\ Is(rule, Without(s, 2), apart)
  \/ \E n \in DOMAIN s :
       /\ \/ IsSubscripted(SubSeq(s, 1, n), apart)
          \/ /\ IsNamed(SubSeq(s, 1, n), apart)
             /\ n < Len(s) =>
                  s[n + 1] \notin {"("} \cup IF IsPlain(SubSeq(s, 1, n)) THEN CaOrd ELSE {}
       /\ Is(rule, Without(s, n), apart)
IsVariable(s, apart) == IsNamed(s, apart) \/ IsSubscripted(s, apart)

IsString(s, apart) ==
  Len(s) > 1 /\ s[1] = "'" /\ s[Len(s)] = "'" /\ Is("string text", Inner(s), apart)

IsArguments(s, apart) ==
  \/ Is("expression", s, apart)
  \/ \E n \in 2 .. Len(s) - 1 : /\ s[n] = "," /\ Is("expression", Without(s, n), apart)
                                /\ Is("arguments", CaBefore(s, n), apart)
IsCall(s, apart) ==
  /\ Len(s) > 3 /\ s[1] = "F" /\ Bracketed(Tail(s))
  /\ LET args == Inner(Tail(s))
         one == Reverse(Unblanked(Reverse(Unblanked(args))))
     IN Is("arguments", args, apart) \/ Is("expression", one, apart)

IsList(s, apart) ==
  LET u == Reverse(Unblanked(Reverse(Unblanked(s))))
  IN \/ Is("expression", u, apart)
     \/ \E n \in 1 .. Len(u) - 1 :
          /\ Is("expression", SubSeq(u, 1, n), apart)
          /\ apart => u[n + 1] = " "
          /\ Is("list", Without(u, n), apart)
Tight(s) == s[2] # " " /\ s[Len(s) - 1] # " "

IsNot(s) == Len(s) > 1 /\ s[1] = "N" /\ s[2] \notin CaOrd
IsGeneral(s, apart, last) ==
  LET skipped == {n \in 0 .. Len(s) :
                    /\ \A m \in 1 .. n : s[m] \in {"N", " "}
                    /\ \A m \in 1 .. n : s[m] = "N" => m = Len(s) \/ s[m + 1] \notin CaOrd
                    /\ n > 0 => s[1] = "N"
                    /\ n = Len(s) \/ (s[n + 1] # " " /\ ~IsNot(Without(s, n)))}
  IN \E n \in skipped : /\ Without(s, n) = <<"N">> => last
                        /\ Is("expression", Without(s, n), apart)

IsSubstring(s, apart) ==
  /\ Bracketed(s)
  /\ \E n \in 3 .. Len(s) - 2 : /\ s[n] = "," /\ IsGeneral(SubSeq(s, 2, n - 1), apart, FALSE)
                                /\ \/ IsGeneral(SubSeq(s, n + 1, Len(s) - 1), apart, FALSE)
                                   \/ SubSeq(s, n + 1, Len(s) - 1) = <<"*">>
IsGroup(s, apart) ==
  \/ IsString(s, apart)
  \/ \E n \in 2 .. Len(s) - 1 :
       /\ IsString(SubSeq(s, 1, n), apart)
       /\ \E m \in n + 1 .. Len(s) :
            /\ IsSubstring(SubSeq(s, n + 1, m), apart)
            /\ \/ m = Len(s)
               \/ Is("group", Without(s, m), apart)
               \/ \E k \in m + 1 .. Len(s) :
                    /\ Bracketed(SubSeq(s, m + 1, k))
                    /\ IsGeneral(SubSeq(s, m + 2, k - 1), apart, FALSE)
                    /\ Is("group", Without(s, k), apart)

IsSigned(s, apart) ==
  \/ Len(s) > 1 /\ s[1] \in {"+", "-"} /\ Is("signed", Tail(s), apart)
  \/ IsNumber(s) \/ IsWord(s) \/ IsVariable(s, apart) \/ IsCall(s, apart)
  \/ Bracketed(s) /\ Is("list", Inner(s), apart)
  \/ \E n \in 3 .. Len(s) - 1 :
       /\ Bracketed(SubSeq(s, 1, n)) /\ Tight(SubSeq(s, 1, n))
       /\ Is("list", SubSeq(s, 2, n - 1), apart)
       /\ IsCall(Without(s, n), apart) \/ (~InString /\ Is("group", Without(s, n), apart))
  \/ ~InString /\ Is("group", s, apart)
  \/ /\ Len(s) > 3 /\ s[1] \in SelfDef /\ s[2] = "'" /\ s[Len(s)] = "'"
     /\ ToSet(s) \cap Names = {}
     /\ Is("string text", SubSeq(s, 3, Len(s) - 1), apart)
  \/ s = <<"X", "'", "'">>
  \/ /\ Len(s) > 2 /\ s[1] \in CaAttrs /\ s[2] = "'"
     /\ \/ IsWord(Without(s, 2))
        \/ IsVariable(Without(s, 2), apart)
        \/ s[Len(s)] = "." /\ IsVariable(SubSeq(s, 3, Len(s) - 1), apart)

Is(rule, s, apart) ==
  CASE rule = "expression" -> IsExpression(s, apart)
    [] rule = "sum" -> IsSum(s, apart)
    [] rule = "concatenation" -> IsConcatenation(s, apart)
    [] rule = "product" -> IsProduct(s, apart)
    [] rule = "signed" -> IsSigned(s, apart)
    [] rule = "name text" -> IsText(s, rule, {")", "&&"}, apart)
    [] rule = "string text" -> IsText(s, rule, {"'"}, apart)
    [] rule = "arguments" -> IsArguments(s, apart)
    [] rule = "list" -> IsList(s, apart)
    [] rule = "group" -> IsGroup(s, apart)

IsTarget(s) == Len(s) > 1 /\ s[1] = "." /\ IsWord(Tail(s))
IsDefined(s, apart) ==
  \/ IsWord(s) \/ IsNamed(s, apart)
  \/ Bracketed(s) /\ s[2] # ")" /\ Is("name text", Inner(s), apart)

IsOperand(s, apart, last) ==
  CASE kind = "expression" -> IsGeneral(s, apart, last)
    [] kind = "branch" ->
         \/ IsTarget(s)
         \/ \E n \in 3 .. Len(s) - 1 : /\ Bracketed(SubSeq(s, 1, n))
                                       /\ Is("list", SubSeq(s, 2, n - 1), apart)
                                       /\ IsTarget(Without(s, n))
    [] kind = "definition" ->
         \/ IsDefined(s, apart)
         \/ \E n \in 1 .. Len(s) - 3 : /\ IsDefined(SubSeq(s, 1, n), apart)
                                       /\ Bracketed(Without(s, n))
                                       /\ IsNumber(Inner(Without(s, n)))

(* The ways to take s for operands.                                        *)
RECURSIVE Operands(_, _, _)
Operands(s, apart, last) ==
  (IF s = <<>> THEN {<<"empty">>} ELSE IF IsOperand(s, apart, last) THEN {<<"given">>} ELSE {})
  \cup UNION {{<<IF n = 1 THEN "empty" ELSE "given">> \o more :
                  more \in Operands(Without(s, n), apart, last)} :
              n \in {c \in DOMAIN s : /\ s[c] = ","
                                      /\ c = 1 \/ IsOperand(CaBefore(s, c), apart, FALSE)}}

-----------------------------------------------------------------------------

CaEnds == {n \in 1 .. Len(caText) + 1 : CaChar(n) \in {" ", "eof"}}
Failed == caSays # <<>> \/ silent

(* What is read without a fault are operands of the grammar, and operands  *)
(* of the grammar that end at a space are read: all of them, in the one    *)
(* way there is (ca_args).                                                 *)
ReadAsWritten ==
  caPhase = "done" =>
    /\ ~Failed => caOperands \in Operands(CaBefore(caText, caRest), FALSE, caRest = Len(caText) + 1)
    /\ \A n \in CaEnds : \A ops \in Operands(CaBefore(caText, n), TRUE, n = Len(caText) + 1) :
         ~Failed /\ caRest = n /\ caOperands = ops

(* An operand that is wrong takes none of those before it along: these are *)
(* as they would be alone, and of an expression a constant takes its       *)
(* place, so that the instruction still sees an operand (ca_expr_ops).     *)
PlacesAreKept ==
  caPhase = "done" /\ Failed =>
    \E n \in 0 .. Len(caText) :
      /\ n = 0 \/ caText[n] = ","
      /\ \E ops \in IF n = 0 THEN {<<>>}
                    ELSE IF n = 1 THEN {<<"empty">>}
                    ELSE Operands(CaBefore(caText, n), FALSE, FALSE) :
           caOperands \in {Append(ops, "given")}
                            \cup {IF kind = "expression" THEN Append(ops, "constant") ELSE ops}

(* At most one fault is told, and only two are not: a string where strings *)
(* are not read, and a duplication factor among strings with none behind   *)
(* it.                                                                     *)
ToldOnce ==
  /\ Len(caSays) + (IF silent THEN 1 ELSE 0) <= 1
  /\ silent => \/ InString
               \/ \E n \in DOMAIN caText : caText[n] = ")" /\ CaChar(n + 1) # "'"
  /\ caPhase = "done" /\ ~Failed => caRest \in CaEnds

-----------------------------------------------------------------------------
(***************************************************************************)
(* The operands of a model statement, one with variable symbols            *)
(* (parser2::try_model_ops, parsing/parser_impl.cpp): the scan up to the   *)
(* first variable symbol, the chain that is made from there, the text that *)
(* is put together when the values are known                               *)
(* (concatenation_point::evaluate_with_range_map), which is parsed again,  *)
(* and the positions in it, which are mapped back to the source            *)
(* (range_provider::adjust_model_position).                                *)
(*                                                                         *)
(* A text is a sequence of characters: "A" is ordinary, "L" an attribute,  *)
(* "W" one that takes two columns, all others are themselves.  It begins   *)
(* in the first line of the operands and goes on in continued lines.       *)
(* Subscripts of variable symbols are left out.                            *)
(***************************************************************************)
CONSTANTS
  Chars,
  MaxChars,     \* bound: characters of the operands
  Values,       \* what a variable symbol can stand for
  ModelFirst,   \* characters of the first line
  PerLine,      \* characters of a continued line
  StartColumn, ContinuedColumn,
  DefaultLimit  \* limit of a line that is not in line_limits

LayoutAssumption ==
  /\ ModelFirst \in Nat \ {0} /\ PerLine \in Nat \ {0}
  /\ StartColumn \in Nat /\ ContinuedColumn \in Nat /\ DefaultLimit \in Nat
  /\ StartColumn + ModelFirst = ContinuedColumn + PerLine

VARIABLES
  modelText,
  modelAt,
  part,          \* "before", "string", "after", "rest", "model" or "done"
  modelSpecial,  \* next_char_special
  open,          \* the last text of the chain may grow
  modelChain,    \* [kind, from, to]: a part of the text
  verdict,       \* "none", "model", "plain" or "failed"
  values         \* the value of each variable symbol in the chain

ModelOrd == {"A", "L"}
AttrArgument == {"A", "L", "&", "=", "*"}

ModelInit ==
  /\ modelText \in UNION {[1 .. n -> Chars] : n \in 1 .. MaxChars}
  /\ modelAt = 1 /\ part = "before" /\ modelSpecial = TRUE /\ open = FALSE
  /\ modelChain = <<>> /\ verdict = "none" /\ values = <<>>

-----------------------------------------------------------------------------
ModelChar(p) == IF p <= Len(modelText) THEN modelText[p] ELSE "end"
ModelCh == ModelChar(modelAt)

ModelPast(p, chars) ==
  CHOOSE q \in p .. Len(modelText) + 1 :
    /\ \A r \in p .. q - 1 : modelText[r] \in chars
    /\ q = Len(modelText) + 1 \/ modelText[q] \notin chars

Moves(p, next, isSpecial) ==
  /\ modelAt' = p /\ part' = next /\ modelSpecial' = isSpecial
  /\ UNCHANGED <<modelText, open, modelChain, verdict, values>>

ModelEnds(v) == verdict' = v /\ part' = "done" /\ UNCHANGED <<modelText, modelAt, modelSpecial, open, modelChain, values>>

Pair == ModelCh = "&" /\ ModelChar(modelAt + 1) = "&"
IsAttribute == ModelCh = "L" /\ modelSpecial /\ ModelChar(modelAt + 1) = "'" /\ ModelChar(modelAt + 2) \in AttrArgument

(* What the two scans have in common: how far a character goes, and        *)
(* whether the next one may be an attribute.                               *)
Width == IF Pair \/ IsAttribute THEN 2 ELSE 1
Special == ~(ModelCh \in ModelOrd \cup {"="})

-----------------------------------------------------------------------------

VariableAt(p, rest) ==
  LET end == ModelPast(p + 1, ModelOrd)
  IN IF end = p + 1 THEN ModelEnds("failed")
     ELSE /\ modelAt' = end /\ part' = rest /\ modelSpecial' = TRUE /\ open' = FALSE
          /\ modelChain' = (IF modelChain = <<>> /\ p > 1 THEN <<[kind |-> "text", from |-> 1, to |-> p]>>
                            ELSE modelChain)
                           \o <<[kind |-> "var", from |-> p, to |-> end]>>
          /\ UNCHANGED <<modelText, verdict, values>>

ModelBefore ==
  /\ part = "before"
  /\ CASE ModelCh \in {"end", " "} -> ModelEnds("plain")
       [] ModelCh = "&" /\ ~Pair -> VariableAt(modelAt, "after")
       [] ModelCh = "'" -> Moves(modelAt + 1, "string", TRUE)
       [] OTHER -> Moves(modelAt + Width, "before", Special)

StringBefore ==
  /\ part = "string"
  /\ CASE ModelCh = "end" -> ModelEnds("failed")
       [] ModelCh = "'" -> Moves(modelAt + 1, "before", TRUE)
       [] ModelCh = "&" /\ ~Pair -> VariableAt(modelAt, "rest")
       [] OTHER -> Moves(modelAt + IF Pair THEN 2 ELSE 1, "string", modelSpecial)

-----------------------------------------------------------------------------
(* The rest of try_model_ops and lex_rest_of_model_string: characters are  *)
(* added to the last text, dots and equals signs stand alone.              *)
Added(n) ==
  CASE ModelCh = "." -> Append(modelChain, [kind |-> "dot", from |-> modelAt, to |-> modelAt + 1])
    [] ModelCh = "=" -> Append(modelChain, [kind |-> "equals", from |-> modelAt, to |-> modelAt + 1])
    [] ModelCh \notin {".", "="} /\ open ->
         SubSeq(modelChain, 1, Len(modelChain) - 1) \o <<[Last(modelChain) EXCEPT !.to = modelAt + n]>>
    [] OTHER -> Append(modelChain, [kind |-> "text", from |-> modelAt, to |-> modelAt + n])

Opened == ModelCh \notin {".", "="} /\ ~(part = "rest" /\ ModelCh = "'")

Adds(n, next, isSpecial) ==
  /\ modelChain' = Added(n) /\ open' = Opened
  /\ modelAt' = modelAt + n /\ part' = next /\ modelSpecial' = isSpecial
  /\ UNCHANGED <<modelText, verdict, values>>

After ==
  /\ part = "after"
  /\ CASE ModelCh \in {"end", " "} -> /\ verdict' = "model" /\ part' = "model"
                                      /\ UNCHANGED <<modelText, modelAt, modelSpecial, open, modelChain, values>>
       [] ModelCh = "&" /\ ~Pair -> VariableAt(modelAt, "after")
       [] ModelCh = "'" -> Adds(1, "rest", TRUE)
       [] OTHER -> Adds(Width, "after", Special)

RestOfString ==
  /\ part = "rest"
  /\ CASE ModelCh = "end" -> ModelEnds("failed")
       [] ModelCh = "&" /\ ~Pair -> VariableAt(modelAt, "rest")
       [] ModelCh = "'" -> Adds(1, "after", TRUE)
       [] OTHER -> Adds(IF Pair THEN 2 ELSE 1, "rest", modelSpecial)

(* The statement is processed: every variable symbol has its value.        *)
Evaluate ==
  /\ part = "model"
  /\ values' \in [{n \in DOMAIN modelChain : modelChain[n].kind = "var"} -> Values]
  /\ part' = "done"
  /\ UNCHANGED <<modelText, modelAt, modelSpecial, open, modelChain, verdict>>

ModelNext == ModelBefore \/ StringBefore \/ After \/ RestOfString \/ Evaluate

-----------------------------------------------------------------------------
(* Places: columns count two for a wide character.                         *)
Columns(c) == IF c = "W" THEN 2 ELSE 1
Wide(s) == Len(s) + Len(SelectSeq(s, LAMBDA c : c = "W"))

LineOf(n) == IF n <= ModelFirst THEN 0 ELSE 1 + (n - ModelFirst - 1) \div PerLine
FirstOf(line) == IF line = 0 THEN 1 ELSE ModelFirst + (line - 1) * PerLine + 1
ColumnOf(line) == IF line = 0 THEN StartColumn ELSE ContinuedColumn

Place(n) ==
  [line |-> LineOf(n),
   column |-> ColumnOf(LineOf(n)) + Wide(SubSeq(modelText, FirstOf(LineOf(n)), n - 1))]
PlaceBehind(n) == [Place(n) EXCEPT !.column = @ + Columns(modelText[n])]

Beyond(p, q) == p.line > q.line \/ (p.line = q.line /\ p.column > q.column)

(* line_limits: the columns where lines end that are continued.            *)
Limit(line) ==
  IF FirstOf(line + 1) <= Len(modelText)
    THEN ColumnOf(line) + Wide(SubSeq(modelText, FirstOf(line), FirstOf(line + 1) - 1))
    ELSE DefaultLimit

(* evaluate_with_range_map: a dot behind a variable symbol is not seen.    *)
Shown(n) == ~(modelChain[n].kind = "dot" /\ n > 1 /\ modelChain[n - 1].kind = "var")

Piece(n) ==
  CASE modelChain[n].kind = "var" -> values[n]
    [] modelChain[n].kind # "var" /\ Shown(n) -> SubSeq(modelText, modelChain[n].from, modelChain[n].to - 1)
    [] OTHER -> <<>>
Points == {n \in DOMAIN modelChain : Shown(n)}
Offset(n) == Wide(FlattenSeq([k \in 1 .. n - 1 |-> Piece(k)]))

(* adjust_model_position: the last point that begins before a place, and   *)
(* from its beginning over as many lines as it takes.                      *)
One(end) == IF end THEN 1 ELSE 0

RECURSIVE Walk(_, _, _)
Found(column, end) ==
  Max({n \in Points : Offset(n) + One(end) <= column} \cup {Min(Points)})

Walk(line, column, end) ==
  IF column < Limit(line) + One(end) THEN [line |-> line, column |-> column]
  ELSE Walk(line + 1, (column + ContinuedColumn) - Limit(line), end)

Adjusted(column, end) ==
  LET n == Found(column, end)
      begin == Place(modelChain[n].from)
      behind == PlaceBehind(modelChain[n].to - 1)
      walked == Walk(0, (column - Offset(n)) + begin.column, end)
      place == [walked EXCEPT !.line = @ + begin.line]
  IN CASE modelChain[n].kind = "var" -> IF end THEN behind ELSE begin
       [] modelChain[n].kind # "var" /\ (Beyond(place, behind) \/ (~end /\ place = behind)) -> behind
       [] OTHER -> place

-----------------------------------------------------------------------------
(* What the text says: what follows each character, read from the left.    *)
ModelVariable(n) ==
  /\ modelText[n] = "&" /\ (n = Len(modelText) \/ modelText[n + 1] # "&")
  /\ Cardinality({m \in 1 .. n : \A k \in m .. n : modelText[k] = "&"}) % 2 = 1
InName(n) == \E m \in 1 .. n - 1 : ModelVariable(m) /\ \A k \in m + 1 .. n : modelText[k] \in ModelOrd

State ==
  LET state[n \in 0 .. Len(modelText)] ==
        IF n = 0 THEN "special"
        ELSE LET attribute == /\ state[n - 1] = "letter"
                              /\ n < Len(modelText) /\ modelText[n + 1] \in AttrArgument
             IN CASE state[n - 1] = "string" -> IF modelText[n] = "'" THEN "special" ELSE "string"
                  [] state[n - 1] # "string" /\ modelText[n] = "'" ->
                       IF attribute THEN "plain" ELSE "string"
                  [] state[n - 1] # "string" /\ modelText[n] = "L" /\ ~InName(n) ->
                       IF state[n - 1] = "special" THEN "letter" ELSE "plain"
                  [] OTHER -> IF modelText[n] \in {"A", "="} /\ ~InName(n) THEN "plain" ELSE "special"
  IN state

Blanks == {n \in DOMAIN modelText : modelText[n] = " " /\ State[n - 1] # "string"}
OperandEnd == Min(Blanks \cup {Len(modelText) + 1})
ModelVariables == {n \in 1 .. OperandEnd - 1 : ModelVariable(n)}

-----------------------------------------------------------------------------

(* Nothing of the operands is lost or taken twice by the chain, which ends *)
(* before the remark.                                                      *)
ChainIsOperands ==
  verdict = "model" =>
    /\ modelChain[1].from = 1 /\ Last(modelChain).to = OperandEnd
    /\ \A n \in 1 .. Len(modelChain) - 1 : modelChain[n].to = modelChain[n + 1].from

(* The operands are a model exactly when there is a variable symbol in     *)
(* them, and the chain has all of them, in whichever way the scan that     *)
(* looks for the first one and the scan behind it divide them.             *)
VariablesAreFound ==
  /\ verdict = "plain" => ModelVariables = {}
  /\ verdict = "model" =>
       /\ ModelVariables # {}
       /\ {modelChain[n].from : n \in {k \in DOMAIN modelChain : modelChain[k].kind = "var"}} = ModelVariables

(* What is found in the substituted text is shown where it is written: a   *)
(* character of the operands at its own place, one of a value at the       *)
(* variable symbol.                                                        *)
ShownInPlace ==
  part = "done" /\ verdict = "model" =>
    \A n \in Points : \A k \in DOMAIN Piece(n) :
      LET column == Offset(n) + Wide(SubSeq(Piece(n), 1, k - 1))
          behind == column + Columns(Piece(n)[k])
          first == IF modelChain[n].kind = "var" THEN modelChain[n].from ELSE modelChain[n].from + k - 1
          last == IF modelChain[n].kind = "var" THEN modelChain[n].to - 1 ELSE first
      IN /\ Adjusted(column, FALSE) = Place(first)
         /\ Adjusted(behind, TRUE) = PlaceBehind(last)
=============================================================================
