-------------------------------- MODULE ByteQueue --------------------------------
(***************************************************************************)
(* What a session's SendQ promises the code that queues messages: a        *)
(* bounded queue of bytes.  A message is queued whole, behind everything   *)
(* queued before it, or not at all; it is refused only when it does not    *)
(* fit, and a refusal closes the session; bytes leave in the order they    *)
(* were queued, while the session is open.                                 *)
(***************************************************************************)
EXTENDS Integers, Sequences

CONSTANTS
  Message,    \* the messages that are queued, sequences of bytes
  Capacity    \* bytes the queue can hold

VARIABLES
  in,         \* the message handed over last
  queue,      \* the bytes queued, oldest first
  out,        \* the bytes that left the queue last
  open        \* FALSE once a message was refused

Put(m) ==
  /\ Len(queue) + Len(m) <= Capacity
  /\ in' = m /\ queue' = queue \o m
  /\ UNCHANGED <<out, open>>

Refuse(m) ==
  /\ Len(queue) + Len(m) > Capacity
  /\ in' = m /\ open' = FALSE
  /\ UNCHANGED <<queue, out>>

Take(n) ==
  /\ open
  /\ n \in 1..Len(queue)
  /\ out' = SubSeq(queue, 1, n)
  /\ queue' = SubSeq(queue, n + 1, Len(queue))
  /\ UNCHANGED <<in, open>>

Init == in = <<>> /\ queue = <<>> /\ out = <<>> /\ open = TRUE

Next == \/ \E m \in Message : Put(m) \/ Refuse(m)
        \/ \E n \in 1..Capacity : Take(n)

Spec == Init /\ [][Next]_<<in, queue, out, open>>
====
