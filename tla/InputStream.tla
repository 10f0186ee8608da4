---------------------------- MODULE InputStream ----------------------------
(***************************************************************************)
(* What the input of the assembler promises to its readers: one stream of  *)
(* lines, whatever files, COPY members and preprocessors they come from.   *)
(* AREAD takes the next line; a statement takes the next logical line, and *)
(* comments are passed over; COPY puts lines before the stream, AINSERT    *)
(* puts them at either end of those inserted since the last statement, and *)
(* AGO returns to where a statement was. A lookahead disturbs the stream   *)
(* only while lines of AREAD or AINSERT are outstanding: then it is as if  *)
(* those had not been read or inserted. OpencodeProvider implements it.    *)
(***************************************************************************)
EXTENDS Integers, Sequences

CONSTANTS
  None,
  Streams,        \* the possible streams at the start
  Records,        \* the lines that AINSERT inserts
  Included(_)     \* the lines that the COPY of a line includes

VARIABLES
  rest,     \* the stream: [id, kind, cont, last], last: ends its text
  inserted, \* how many lines at its front wait in the buffer of AINSERT
  macro,    \* a macro is being expanded
  again,    \* lines of AREAD that a lookahead reads again
  after,    \* how many lines of the stream follow them
  mark,     \* the stream from the labelled statement on
  out       \* what was read last: [what, lines]
vars == <<rest, inserted, macro, again, after, mark, out>>

From(n) == SubSeq(rest, n + 1, Len(rest))
Ids(a, b) == [k \in 1..(b - a + 1) |-> rest[a + k - 1].id]

(* The stream s, a later part of the stream, with the lines of AREAD.      *)
Restored(s) == SubSeq(s, 1, Len(s) - after) \o again \o SubSeq(s, Len(s) - after + 1, Len(s))
Forgotten == again' = <<>> /\ after' = 0

(* A logical line from a to b. Only the end of a text may cut it off.      *)
LogicalLine(a, b) ==
  /\ \A k \in a..(b - 1) : rest[k].cont
  /\ ~rest[b].cont \/ rest[b].last

(* An option that is not accepted is a comment.                            *)
Comment(l) == l.kind \in {"comment", "process"}

(* What lies before line a are comments.                                   *)
Comments(a) ==
  \E starts \in SUBSET (1..(a - 1)) :
    /\ a > 1 => 1 \in starts
    /\ \A s \in starts : Comment(rest[s]) /\
         LET later == {t \in starts \cup {a} : t > s}
         IN LogicalLine(s, (CHOOSE t \in later : \A u \in later : t <= u) - 1)

Statement ==
  \E a \in 1..Len(rest), b \in 1..Len(rest) :
    /\ ~macro /\ inserted = 0 /\ a <= b /\ Comments(a) /\ LogicalLine(a, b)
    /\ out' = [what |-> "statement", lines |-> Ids(a, b)]
    /\ \/ rest[a].kind # "ago" /\ rest' = From(b)
       \/ rest[a].kind = "copy" /\ rest' = Included(rest[a]) \o From(b)
       \/ rest[a].kind = "ago" /\ rest' \in {From(b), mark}
    /\ mark' = IF rest[a].kind = "label" /\ mark = <<>> THEN Restored(From(a - 1)) ELSE mark
    /\ macro' = (rest[a].kind = "macro")
    /\ Forgotten \/ UNCHANGED <<again, after>>
    /\ UNCHANGED inserted

(* *PROCESS: a single line.                                                *)
Option ==
  /\ ~macro /\ rest # <<>> /\ rest[1].kind = "process"
  /\ out' = [what |-> "option", lines |-> Ids(1, 1)]
  /\ rest' = From(1) /\ UNCHANGED <<inserted, macro, again, after, mark>>

Skip ==
  \E a \in 2..(Len(rest) + 1) :
    /\ ~macro /\ inserted = 0
    /\ IF a <= Len(rest) THEN Comments(a)
       ELSE \E c \in 1..Len(rest) :
              Comment(rest[c]) /\ Comments(c) /\ LogicalLine(c, Len(rest))
    /\ rest' = From(a - 1) /\ UNCHANGED <<inserted, macro, again, after, mark, out>>

Aread ==
  /\ macro
  /\ out' = [what |-> "aread", lines |-> IF rest = <<>> THEN <<>> ELSE Ids(1, 1)]
  /\ rest' = IF rest = <<>> THEN <<>> ELSE From(1)
  /\ inserted' = IF inserted = 0 THEN 0 ELSE inserted - 1
  /\ \/ Forgotten \/ UNCHANGED <<again, after>>
     \/ rest # <<>> /\ inserted = 0 /\ again' = Append(again, rest[1]) /\ after' = Len(rest) - 1
  /\ UNCHANGED <<macro, mark>>

Ainsert ==
  \E r \in Records, at \in {0, inserted} :
    /\ macro
    /\ rest' = SubSeq(rest, 1, at) \o <<r>> \o From(at)
    /\ inserted' = inserted + 1 /\ out' = None /\ UNCHANGED <<macro, again, after, mark>>

(* The next statement is read from what was inserted.                      *)
Close ==
  /\ ~macro /\ inserted > 0 /\ inserted' = 0
  /\ \E r \in {rest[inserted]} :
       rest' = [rest EXCEPT ![inserted] = [r EXCEPT !.last = TRUE]]
  /\ UNCHANGED <<macro, again, after, mark, out>>

EndMacro ==
  /\ macro /\ macro' = FALSE /\ out' = None
  /\ Forgotten \/ UNCHANGED <<again, after>>
  /\ UNCHANGED <<rest, inserted, mark>>

Forget == Forgotten /\ UNCHANGED <<rest, inserted, macro, mark, out>>

LookAhead ==
  /\ rest' = Restored(From(inserted)) /\ inserted' = 0
  /\ Forgotten /\ UNCHANGED <<macro, mark, out>>

Init == rest \in Streams /\ inserted = 0 /\ macro = FALSE /\ mark = <<>> /\ out = None
        /\ again = <<>> /\ after = 0
Next ==
  \/ Statement \/ Option \/ Skip \/ Aread \/ Ainsert \/ Close \/ EndMacro
  \/ Forget \/ LookAhead
Spec == Init /\ [][Next]_vars
=============================================================================
