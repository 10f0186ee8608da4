--------------------------- MODULE MacroArguments ---------------------------
(***************************************************************************)
(* The arguments of a macro call (macro_processor.cpp), their assignment   *)
(* to the parameters of the definition (macro.cpp) and how the macro reads *)
(* them: the values of parameters and of SYSLIST with subscripts, their    *)
(* number attribute (macro_param_data.cpp, macro_param.cpp,                *)
(* system_variable.cpp).                                                   *)
(*                                                                         *)
(* An operand is a chain of strings, variable symbols and sublists, whose  *)
(* elements are chains. A sublist that is written has been recognised by   *)
(* the parser; one that is the value of a variable symbol is recognised    *)
(* here, in its characters. "L" stands for the letters of attributes,      *)
(* which make an apostrophe after them one of their own; continued bytes   *)
(* of UTF-8 are "+". Numbers up to 2^31 - 1 are not reached.               *)
(***************************************************************************)
EXTENDS Integers, Sequences, FiniteSets

CONSTANTS
  Label,        \* the parameter of the name field
  Parameters,   \* definitions: Seq([id, data]), data None if positional
  Keys,         \* the names that operands may have before "="
  Chains,       \* what they may be
  Names,        \* name fields, None if there is none
  None,
  MaxOperands,  \* bound: operands of a call
  NameLimit,    \* 63 in the code
  Limit         \* macro_argument_length_limit, 4064 in the code

MacroArgumentsAssumption ==
  /\ None \notin Keys \cup {Label} /\ Label \notin Keys
  /\ NameLimit \in Nat /\ Limit \in Nat \ {0} /\ MaxOperands \in Nat
  /\ \A p \in Parameters : \A i, j \in DOMAIN p :
       i # j /\ p[i].id # None => p[i].id # p[j].id /\ p[i].id # Label

VARIABLES
  definition, \* the parameters of the macro
  args,       \* the arguments: Seq([id, data, chain]), id None if positional
  name,       \* the argument of the name field
  diags,      \* codes of diagnostics
  call        \* [named, syslist] once the macro is entered
vars == <<definition, args, name, diags, call>>

-----------------------------------------------------------------------------
(* macro_param_data: single strings and composites. The default value is   *)
(* the empty string.                                                       *)
Single(t) == [items |-> <<>>, value |-> t]
Dummy == Single(<<>>)
IsSingle(d) == d.items = <<>>

RECURSIVE Joined(_)
Joined(items) ==
  IF Len(items) = 1 THEN items[1].value
  ELSE items[1].value \o <<",">> \o Joined(Tail(items))

(* Defect: the last component, if it is empty, leaves no comma.            *)
WithoutLast(items) ==
  LET vec == IF items = <<>> THEN <<Dummy>> ELSE items
      said == IF Len(vec) > 1 /\ vec[Len(vec)] = Dummy THEN SubSeq(vec, 1, Len(vec) - 1) ELSE vec
  IN [items |-> vec, value |-> <<"(">> \o Joined(said) \o <<")">>]

(* A composite has at least one component.                                 *)
Composite(items) ==
  LET vec == IF items = <<>> THEN <<Dummy>> ELSE items
  IN [items |-> vec, value |-> <<"(">> \o Joined(vec) \o <<")">>]

(* get_ith, number.                                                        *)
Ith(d, i) ==
  IF IsSingle(d) THEN IF i = 1 THEN d ELSE Dummy
  ELSE IF i \in DOMAIN d.items THEN d.items[i] ELSE Dummy
RECURSIVE At(_, _)
At(d, offset) == IF offset = <<>> THEN d ELSE At(Ith(d, Head(offset)), Tail(offset))

-----------------------------------------------------------------------------
(* string_to_macrodata: the sublists in a string.                          *)

AttributeConsuming(c) == c = "L"
AttributeConsumed(c) == c \in {"L", "a", "="}
(* The apostrophe at i is one of an attribute.                             *)
OfAttribute(t, i) ==
  i > 1 /\ i < Len(t) /\ AttributeConsuming(t[i - 1]) /\ AttributeConsumed(t[i + 1])

First(t, from, chars) ==
  LET found == {i \in from..Len(t) : t[i] \in chars}
  IN IF found = {} THEN 0 ELSE CHOOSE i \in found : \A j \in found : i <= j
(* The parenthesis that closes the one at i.                               *)
Closing(t, i) ==
  LET many(c, j) == Cardinality({k \in i..j : t[k] = c})
      found == {j \in i..Len(t) : many("(", j) = many(")", j)}
  IN IF found = {} THEN 0 ELSE CHOOSE j \in found : \A k \in found : j <= k

(* What ends at the apostrophe that begins at i.                           *)
AfterApostrophe(t, i) == IF OfAttribute(t, i) THEN i ELSE First(t, i + 1, {"'"})

(* find_single_macro_param: the place of the comma or parenthesis that     *)
(* ends an operand, 0 if there is none.                                    *)
RECURSIVE EndOfSingle(_, _)
EndOfSingle(t, from) ==
  LET i == First(t, from, {",", "'", "(", ")"})
      after == IF t[i] = "(" THEN Closing(t, i) ELSE AfterApostrophe(t, i)
  IN IF i = 0 THEN 0
     ELSE IF t[i] \in {",", ")"} THEN i
     ELSE IF after = 0 THEN 0 ELSE EndOfSingle(t, after + 1)

(* The comma that ends an operand is followed by another one.              *)
Pending(t, e) == t[e] = ","

(* at: where to go on, for every sublist begun; data: what they have; the  *)
(* last two are the innermost ones.                                        *)
Replaced(s, x) == [s EXCEPT ![Len(s)] = x]
Top(s) == s[Len(s)]
Pop(s) == SubSeq(s, 1, Len(s) - 1)
Added(s, x) == Replaced(s, Append(Top(s), x))

(* "(a)b" is a single operand.                                             *)
Continued(t, begin) == begin <= Len(t) /\ t[begin] \notin {",", ")"}

(* string_to_macrodata's loop.                                             *)
RECURSIVE Sublists(_, _, _, _)
Sublists(t, at, data, pending) ==
  LET begin == Top(at)
      e == EndOfSingle(t, begin)
      next == begin + 1
      items == IF pending THEN Append(Top(data), Dummy) ELSE Top(data)
      e2 == EndOfSingle(t, next)
      over(x, to) == IF Len(at) = 2 THEN (IF to = Len(t) + 1 THEN x ELSE Single(t))
                     ELSE Sublists(t, Replaced(Pop(at), to), Added(Pop(data), x), FALSE)
  IN IF begin = Len(t) + 1 THEN Single(t)
     ELSE IF t[begin] = "(" THEN Sublists(t, Append(at, next), Append(data, <<>>), FALSE)
     ELSE IF t[begin] = ")" /\ Continued(t, next)
     THEN IF e2 = 0 \/ Len(at) = 2 THEN Single(t)
          ELSE Sublists(t, Replaced(Pop(at), IF t[e2] = "," THEN e2 + 1 ELSE e2),
                 Added(Pop(data), Single(Composite(items).value \o SubSeq(t, next, e2 - 1))), Pending(t, e2))
     ELSE IF t[begin] = ")"
     THEN over(Composite(items), IF next <= Len(t) /\ t[next] = "," THEN next + 1 ELSE next)
     ELSE IF e = 0 THEN Single(t)
     ELSE Sublists(t, Replaced(at, IF t[e] = "," THEN e + 1 ELSE e),
            Added(data, Single(SubSeq(t, begin, e - 1))), Pending(t, e))

StringToMacrodata(t) ==
  IF t = <<>> THEN Dummy
  ELSE IF t[1] # "(" \/ t[Len(t)] # ")" THEN Single(t)
  ELSE Sublists(t, <<1>>, <<<<>>>>, FALSE)

-----------------------------------------------------------------------------
(* The arguments.                                                          *)

CodePoints(t) == Cardinality({i \in DOMAIN t : t[i] # "+"})

(* find_erase_point: whole pieces of so many characters are erased.        *)
ErasePoint(t) ==
  LET whole == (CodePoints(t) \div Limit) * Limit
  IN CHOOSE i \in 0..Len(t) :
       /\ CodePoints(SubSeq(t, 1, i)) = whole
       /\ i = Len(t) \/ t[i + 1] # "+"

(* concatenation_point::evaluate.                                          *)
RECURSIVE Evaluated(_), Listed(_)
Listed(list) ==
  IF list = <<>> THEN <<>>
  ELSE Evaluated(Head(list)) \o (IF Len(list) = 1 THEN <<>> ELSE <<",">> \o Listed(Tail(list)))
Evaluated(chain) ==
  IF chain = <<>> THEN <<>>
  ELSE (IF Head(chain).what = "sublist" THEN <<"(">> \o Listed(Head(chain).list) \o <<")">> ELSE Head(chain).text)
       \o Evaluated(Tail(chain))
(* concatenation_point::to_string.                                         *)
RECURSIVE AsWritten(_)
AsWritten(chain) ==
  [i \in DOMAIN chain |->
     CASE chain[i].what = "var" -> [chain[i] EXCEPT !.text = <<"&">>]
       [] chain[i].what = "str" -> chain[i]
       [] OTHER -> [chain[i] EXCEPT !.list = [j \in DOMAIN chain[i].list |-> AsWritten(chain[i].list[j])]]]
Written(chain) == Evaluated(AsWritten(chain))
Named(k) == [what |-> "str", text |-> <<k, "=">>]

(* make_evaluator: a value may be too long.                                *)
Limited(t) == IF Len(t) < Limit THEN t ELSE SubSeq(t, ErasePoint(t) + 1, Len(t))

RECURSIVE HasVariable(_)
HasVariable(chain) ==
  \E i \in DOMAIN chain :
    \/ chain[i].what = "var"
    \/ chain[i].what = "sublist" /\ \E j \in DOMAIN chain[i].list : HasVariable(chain[i].list[j])

(* is_valid_string.                                                        *)
ValidString(t) == Cardinality({i \in DOMAIN t : t[i] = "'" /\ ~OfAttribute(t, i)}) % 2 = 0

(* create_macro_data_inner: the data and the codes of diagnostics.          *)
NotValid(t, nested, chain) ==
  t # <<>> /\ (t[1] = "(" \/ (nested /\ HasVariable(chain))) /\ ~ValidString(t)
RECURSIVE Created(_, _)
Created(chain, nested) ==
  LET whole == Evaluated(chain)
      t == Limited(whole)
      parts == [i \in DOMAIN chain[1].list |-> Created(chain[1].list[i], TRUE)]
      long == IF t # whole THEN {"CE011"} ELSE {}
  IN IF chain = <<>> THEN [data |-> Dummy, diags |-> {}]
     ELSE IF Len(chain) = 1 /\ chain[1].what = "sublist"
     THEN [data |-> Composite([i \in DOMAIN parts |-> parts[i].data]),
           diags |-> UNION {parts[i].diags : i \in DOMAIN parts}]
     ELSE IF Len(chain) > 1 /\ NotValid(t, nested, chain)
     THEN [data |-> Dummy, diags |-> long \cup {"S0005"}]
     ELSE [data |-> StringToMacrodata(t), diags |-> long]

HasKeyword(k) == \E i \in DOMAIN definition : definition[i].id = k /\ definition[i].data # None

(* get_operand_args: the next operand of the statement.                    *)
PositionalOperand(chain) ==
  \E c \in {Created(chain, FALSE)} :
    /\ args' = Append(args, [id |-> None, data |-> c.data, chain |-> chain])
    /\ diags' = diags \cup c.diags
KeywordOperand(k, chain) ==
  \E c \in {Created(chain, FALSE)} :
    /\ HasKeyword(k)
    /\ args' = Append(args, [id |-> k, data |-> c.data, chain |-> chain])
    /\ diags' = diags \cup c.diags
                      \cup (IF \E i \in DOMAIN args : args[i].id = k THEN {"E011"} ELSE {})
(* A name that is none of a keyword parameter belongs to the value, in     *)
(* which variable symbols are written as such ("&").                       *)
UnknownKeyword(k, chain) ==
  /\ ~HasKeyword(k)
  /\ args' = Append(args, [id |-> None, data |-> Single(<<k, "=">> \o Written(chain)),
                          chain |-> <<Named(k)>> \o chain])
  /\ diags' = diags \cup {"W014"}
(* An operand that is not one of a macro.                                  *)
NoOperand ==
  args' = Append(args, [id |-> None, data |-> Dummy, chain |-> <<>>]) /\ UNCHANGED diags

Operand ==
  /\ call = None /\ Len(args) < MaxOperands
  /\ \/ \E c \in Chains : PositionalOperand(c)
     \/ \E c \in Chains, k \in Keys : KeywordOperand(k, c)
     \/ \E c \in Chains, k \in Keys : UnknownKeyword(k, c)
     \/ NoOperand
  /\ UNCHANGED <<definition, name, call>>

(* get_label_args.                                                         *)
LabelArgs(n) ==
  IF n = None THEN [data |-> Dummy, diags |-> {}]
  ELSE IF CodePoints(n) > NameLimit THEN [data |-> Single(<<>>), diags |-> {"CE011"}]
  ELSE [data |-> Single(n), diags |-> {}]

-----------------------------------------------------------------------------
(* macro_definition: parameters by position, the name field is the first.  *)
Positionals == SelectSeq(definition, LAMBDA p : p.data = None)
Keywords == SelectSeq(definition, LAMBDA p : p.data # None)
ParameterAt(i) == IF i = 0 THEN Label ELSE Positionals[i].id
Ids == {Label} \cup ({definition[i].id : i \in DOMAIN definition} \ {None})

PositionalArgs == SelectSeq(args, LAMBDA a : a.id = None)
Syslist == <<name>> \o [i \in DOMAIN PositionalArgs |-> PositionalArgs[i].data]

(* named_cpy.emplace: the first one remains.                               *)
KeywordArg(k) == {i \in DOMAIN args : args[i].id = k /\ \A j \in 1..(i - 1) : args[j].id # k}

PositionalData(i) == IF i < Len(Syslist) THEN Syslist[i + 1] ELSE Dummy

(* macro_definition::call.                                                 *)
DataOf(id) ==
  IF \E i \in 0..Len(Positionals) : ParameterAt(i) = id
  THEN PositionalData(CHOOSE i \in 0..Len(Positionals) : ParameterAt(i) = id)
  ELSE IF KeywordArg(id) # {} THEN args[CHOOSE i \in KeywordArg(id) : TRUE].data
  ELSE Keywords[CHOOSE i \in DOMAIN Keywords : Keywords[i].id = id].data
EnterMacro ==
  /\ call = None
  /\ call' = [named |-> [id \in Ids |-> DataOf(id)], syslist |-> Syslist]
  /\ UNCHANGED <<definition, args, name, diags>>

Done == call # None /\ UNCHANGED vars

Init ==
  /\ definition \in Parameters /\ args = <<>> /\ call = None
  /\ \E n \in Names : name = LabelArgs(n).data /\ diags = LabelArgs(n).diags
Next == Operand \/ EnterMacro \/ Done
Spec == Init /\ [][Next]_vars

-----------------------------------------------------------------------------
(* What the macro reads.                                                   *)

(* get_data of SYSLIST, with and without subscripts, and its number.       *)
SyslistIth(i) == IF i \in 0..(Len(call.syslist) - 1) THEN call.syslist[i + 1] ELSE Dummy
SyslistAt(offset) == IF offset = <<>> THEN SyslistIth(1) ELSE At(SyslistIth(Head(offset)), Tail(offset))
SyslistNumber == Len(call.syslist) - 1

-----------------------------------------------------------------------------
(* Properties.                                                             *)

RECURSIVE Parts(_)
Parts(d) == {d} \cup UNION {Parts(d.items[i]) : i \in DOMAIN d.items}
Values == {args[i].data : i \in DOMAIN args} \cup {name}

(* Every parameter of the macro has data, and no value begins in the       *)
(* middle of a character, where a long one was cut.                        *)
TypeOK ==
  /\ diags \subseteq {"S0005", "E011", "W014", "CE011"} /\ Len(args) \in 0..MaxOperands
  /\ call # None => DOMAIN call.named = Ids
  /\ \A d \in Values : d.value # <<>> => d.value[1] # "+"

(* A comma behind a sublist, when no operand follows it: ((a),). It is lost*)
(* when the sublists of a string are recognised: empty_op_pending is set   *)
(* by single operands only (macro_processor.cpp:209-227).                  *)
Opening(t, j) ==
  LET many(c, i) == Cardinality({k \in i..j : t[k] = c})
      found == {i \in 1..j : t[i] = "(" /\ many("(", i) = many(")", i)}
  IN IF found = {} THEN 0 ELSE CHOOSE i \in found : \A k \in found : k <= i
Lost(t) ==
  {i \in 3..(Len(t) - 1) :
     /\ t[i - 1] = ")" /\ t[i] = "," /\ t[i + 1] = ")"
     /\ LET o == Opening(t, i - 1) IN o > 1 /\ t[o - 1] \in {"(", ","}}
WithoutLost(t) ==
  LET kept == SelectSeq([i \in DOMAIN t |-> i], LAMBDA i : i \notin Lost(t))
  IN [n \in DOMAIN kept |-> t[kept[n]]]

(* The variable symbols of an unknown keyword are not evaluated            *)
(* (macro_processor.cpp:434-440).                                          *)
Says(a) ==
  IF a.chain # <<>> /\ \E k \in Keys : a.chain[1] = Named(k) THEN Written(a.chain) ELSE Evaluated(a.chain)

(* Recognising sublists, or a name that is none of a keyword, does not     *)
(* change what an operand says (W014: "default to positional including     *)
(* keyword"), but for the comma that is lost; a long one loses characters  *)
(* at its beginning, and a component that is not a string is empty (S0005).*)
KeepsText ==
  \A i \in DOMAIN args :
    LET t == Says(args[i])
        v == args[i].data.value
    IN /\ v = <<>> => t = <<>> \/ diags \cap {"S0005", "CE011"} # {}
       /\ v # <<>> /\ diags \cap {"S0005", "CE011"} = {} => v = t \/ (~IsSingle(args[i].data) /\ v = WithoutLost(t))
       /\ v # <<>> /\ IsSingle(args[i].data) => v = SubSeq(t, Len(t) - Len(v) + 1, Len(t))

(* An argument, or a component of it, that is passed on to another macro   *)
(* as the value of a variable symbol has the same components there, unless *)
(* the last of them is lost with its comma.                                *)
PassedOn ==
  \A d \in Values : \A part \in Parts(d) :
    \E again \in {StringToMacrodata(part.value)} :
      again = part \/ (Lost(part.value) # {} /\ again.value = WithoutLost(part.value))

(* What a comma separates: between the outermost parentheses, not within a *)
(* string, which an apostrophe of an attribute does not begin. (Within the *)
(* parentheses that follow a text apostrophes have no meaning.)            *)
Outside(t) ==
  \A i \in DOMAIN t : t[i] = "'" =>
    Cardinality({j \in 1..i : t[j] = "("}) - Cardinality({j \in 1..i : t[j] = ")"}) <= 1
RECURSIVE Scan(_, _, _, _)
Scan(t, i, depth, string) ==
  IF i > Len(t) THEN {}
  ELSE IF string THEN Scan(t, i + 1, depth, t[i] # "'")
  ELSE IF t[i] = "'" THEN Scan(t, i + 1, depth, ~OfAttribute(t, i))
  ELSE IF t[i] = "(" THEN Scan(t, i + 1, depth + 1, FALSE)
  ELSE IF t[i] = ")" THEN Scan(t, i + 1, depth - 1, FALSE)
  ELSE (IF t[i] = "," /\ depth = 1 THEN {i} ELSE {}) \cup Scan(t, i + 1, depth, FALSE)
CommasSeparate ==
  \A d \in Values : ~IsSingle(d) /\ Outside(d.value) => Len(d.items) = Cardinality(Scan(d.value, 1, 0, FALSE)) + 1

(* SYSLIST and the positional parameters are two views of the operands     *)
(* without a keyword, whatever keywords stand between them.                *)
SyslistAgrees ==
  call # None =>
    /\ SyslistNumber = Cardinality({i \in DOMAIN args : args[i].id = None})
    /\ \A i \in 0..Len(Positionals) :
         ParameterAt(i) # None => call.named[ParameterAt(i)] = SyslistAt(<<i>>)

=============================================================================
