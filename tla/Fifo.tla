-------------------------------- MODULE Fifo --------------------------------
(***************************************************************************)
(* What a queue promises to those who use it: messages come out in the     *)
(* order in which they went in, each of them once, and there are never     *)
(* more inside than fit.  Only a reset loses any.                          *)
(***************************************************************************)
EXTENDS Integers, Sequences

CONSTANTS
  Messages,  \* what may be put into the queue
  Capacity,  \* how many of them fit
  None       \* no message

VARIABLES
  contents,  \* the messages inside, the oldest first
  out        \* the message that was taken out last

vars == <<contents, out>>

Init == contents = <<>> /\ out = None

Put(v) ==
  /\ Len(contents) < Capacity
  /\ contents' = Append(contents, v)
  /\ UNCHANGED out

Get ==
  /\ contents # <<>>
  /\ out' = Head(contents)
  /\ contents' = Tail(contents)

Clear ==
  /\ contents' = <<>>
  /\ UNCHANGED out

Next == (\E v \in Messages : Put(v)) \/ Get \/ Clear

Spec == Init /\ [][Next]_vars
=============================================================================
