---------------------------- MODULE MessageQueue ----------------------------
(***************************************************************************)
(* What a message queue of the language server promises its threads: any   *)
(* number of them push, one pops, messages come out in the order they went *)
(* in, none twice, and none is lost until the queue is terminated. Then    *)
(* nothing is accepted any more, and the reader is told so at once or,     *)
(* under the other policy, when it has received everything accepted.       *)
(***************************************************************************)
EXTENDS Sequences

CONSTANTS
  Message,
  Nothing       \* what a reader of a terminated queue gets

VARIABLES
  policy,       \* "drop_elements" or "process_elements"
  content,      \* messages accepted and not received
  closed,       \* the queue has been terminated
  got           \* what the reader has received last

Policies == {"drop_elements", "process_elements"}

Init == /\ policy \in Policies
        /\ content = <<>> /\ closed = FALSE /\ got = Nothing

Push(m) == /\ ~closed
           /\ content' = Append(content, m)
           /\ UNCHANGED <<policy, closed, got>>

Pop == /\ content # <<>>
       /\ closed => policy = "process_elements"
       /\ got' = Head(content) /\ content' = Tail(content)
       /\ UNCHANGED <<policy, closed>>

End == /\ closed
       /\ policy = "drop_elements" \/ content = <<>>
       /\ got' = Nothing
       /\ UNCHANGED <<policy, content, closed>>

Terminate == closed' = TRUE /\ UNCHANGED <<policy, content, got>>

Next == (\E m \in Message : Push(m)) \/ Pop \/ End \/ Terminate

Spec == Init /\ [][Next]_<<policy, content, closed, got>>
=============================================================================
