------------------------------- MODULE PacketStream -------------------------------
(***************************************************************************)
(* What RecvPacket promises PacketProc about the bytes of one client.  The *)
(* bytes are cut into packets where their own headers say, each packet is  *)
(* handled whole, once, in the order sent and in the end.  The session is  *)
(* given up for a wrong code, for an unknown type, because the connection  *)
(* ended, or from elsewhere in the server.  Bytes are lost in one way: the *)
(* first Capacity unhandled ones, all at once.                             *)
(***************************************************************************)
EXTENDS Integers, Sequences

CONSTANTS
  Chunk,          \* what a client sends at a time, sequences of bytes
  PacketCode,     \* the first byte of a header
  HeaderSize,     \* bytes of a header, which has the payload's length second
  Capacity,       \* bytes lost at a time
  Type,           \* the types of packets the server knows
  Sound(_)        \* whether a packet's payload has a length its handler can take

VARIABLES
  stream,   \* bytes sent, not yet handled, oldest first
  last,     \* the packet handled last
  peer,     \* the connection exists
  end       \* "no", or why the session was given up; "stopped": the process ended

Send(c) == peer /\ stream' = stream \o c /\ UNCHANGED <<last, peer, end>>

Leave == peer /\ peer' = FALSE /\ UNCHANGED <<stream, last, end>>

HasHeader == Len(stream) >= HeaderSize

First == SubSeq(stream, 1, HeaderSize + stream[2])

DropFirst(n) == stream' = SubSeq(stream, n + 1, Len(stream))

(* A packet may still be handled after the session is given up, when it    *)
(* came in the same read; one of a known type stops the process then.      *)
Handle ==
  /\ end # "stopped"
  /\ HasHeader /\ stream[1] = PacketCode
  /\ Len(stream) >= HeaderSize + stream[2]
  /\ last' = First /\ DropFirst(HeaderSize + stream[2])
  /\ \/ end' = end
     \/ end' = "unknown_type" /\ end = "no" /\ stream[3] \notin Type
     \/ end' = "elsewhere" /\ end = "no" /\ stream[3] \in Type
     \/ end' = "stopped" /\ ((end # "no" /\ stream[3] \in Type) \/ ~Sound(First))
  /\ UNCHANGED peer

Lose ==
  /\ end = "no" /\ Len(stream) >= Capacity
  /\ DropFirst(Capacity)
  /\ UNCHANGED <<last, peer, end>>

GiveUp ==
  /\ end = "no"
  /\ \/ end' = "left" /\ ~peer
     \/ end' = "bad_code" /\ HasHeader /\ stream[1] # PacketCode
     \/ end' = "elsewhere"
  /\ UNCHANGED <<stream, last, peer>>

Init == stream = <<>> /\ last = <<>> /\ peer = TRUE /\ end = "no"

Next == (\E c \in Chunk : Send(c)) \/ Leave \/ Handle \/ Lose \/ GiveUp

Spec == Init /\ [][Next]_<<stream, last, peer, end>>

(* A packet that is there is handled in the end, if its bytes are not lost. *)
FairSpec == Spec /\ WF_<<stream, last, peer, end>>(end = "no" /\ (Handle \/ Lose))
====
