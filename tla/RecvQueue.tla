-------------------------------- MODULE RecvQueue --------------------------------
(***************************************************************************)
(* One session's RecvQ: RecvPacket lets recv() write straight into the     *)
(* ring, then cuts what has arrived into packets and hands them to         *)
(* PacketProc.  TCP delivers a client's bytes in order, in pieces of any   *)
(* size; nothing bounds how many it sends.                                 *)
(***************************************************************************)
EXTENDS RingBuffer

CONSTANTS
  PacketCode,   \* dfPACKET_CODE
  Chunk,        \* what a client sends at a time, as bytes
  PayloadSize,  \* for every type PacketProc knows, the bytes its handler reads
  BlockSize,    \* bytes of the serial buffer a payload is copied to
  MaxWire       \* bound: bytes sent and not taken by recv()

HeaderSize == 3    \* byCode, bySize and byType of st_PACKET_HEADER

(* A packet is shorter than the ring: at most 258 bytes against 4096.      *)
ASSUME ChunkAssumption ==
  /\ \A b \in Byte : b \in Nat /\ HeaderSize + b < Size
  /\ Chunk \subseteq Seq(Byte)

VARIABLES
  wire,      \* bytes sent, not yet taken by recv()
  last,      \* the packet PacketProc was given last
  peer,      \* the connection exists
  loop,      \* RecvPacket's loop is running
  end        \* "no" while ~isDelete, then who called Disconnect first;
             \* "stopped": the process has no defined continuation

vars == <<ring, front, rear, wire, last, peer, loop, end>>

Ending == {"no", "left", "bad_code", "unknown_type", "elsewhere", "stopped"}

ClientSend(c) ==
  /\ peer /\ Len(wire) + Len(c) <= MaxWire
  /\ wire' = wire \o c
  /\ UNCHANGED <<ring, front, rear, last, peer, loop, end>>

ClientLeave ==
  /\ peer /\ peer' = FALSE
  /\ UNCHANGED <<ring, front, rear, wire, last, loop, end>>

(* recv() puts n bytes behind rear.                                        *)
Recv(n) ==
  /\ end = "no" /\ ~loop
  /\ n \in 1..Lesser(DirectEnqueue, Len(wire))
  /\ ring' = [i \in Index |-> IF i \in rear .. rear + n - 1 THEN wire[i - rear + 1] ELSE ring[i]]
  /\ MoveRear(n)
  /\ wire' = SubSeq(wire, n + 1, Len(wire))
  /\ loop' = TRUE
  /\ UNCHANGED <<last, peer, end>>

(* recv() fails or returns 0: the connection ended, or the ring offers     *)
(* recv no room at all.                                                    *)
RecvClosed ==
  /\ end = "no" /\ ~loop
  /\ ~peer \/ (wire # <<>> /\ DirectEnqueue = 0)
  /\ end' = "left"
  /\ UNCHANGED <<ring, front, rear, wire, last, peer, loop>>

(* Disconnect by anyone else: Update for the dead and the silent, a        *)
(* broadcast of another session's handler that finds no room in this       *)
(* session's SendQ, or SendPacket.                                         *)
DisconnectElsewhere ==
  /\ end = "no" /\ ~loop
  /\ end' = "elsewhere"
  /\ UNCHANGED <<ring, front, rear, wire, last, peer, loop>>

(* Peek copies the header, or the part of it that has arrived.             *)
Header == Read(HeaderSize)
HasHeader == GetUseSize >= HeaderSize

BadCode == HasHeader /\ Header[1] # PacketCode

(* Header and payload of the first packet are there.                       *)
Complete == HasHeader /\ GetUseSize >= HeaderSize + Header[2]

(* The payload fits its block, and its handler does not throw.             *)
Sound(p) ==
  LET bySize == Len(p) - HeaderSize
  IN /\ bySize <= BlockSize
     /\ p[3] \in DOMAIN PayloadSize => bySize >= PayloadSize[p[3]]

(* PacketProc of packet p.  Handlers of a closed session find no           *)
(* character; one that answers closes it when its own SendQ is full.       *)
PacketProc(p) ==
  \/ ~Sound(p) /\ end' = "stopped"
  \/ /\ Sound(p) /\ p[3] \notin DOMAIN PayloadSize
     /\ end' = IF end = "no" THEN "unknown_type" ELSE end
  \/ /\ Sound(p) /\ p[3] \in DOMAIN PayloadSize
     /\ end' \in IF end = "no" THEN {"no", "elsewhere"} ELSE {"stopped"}

(* The loop goes on whatever PacketProc did to the session.                *)
HandlePacket ==
  /\ loop /\ ~BadCode /\ Complete
  /\ last' = Read(HeaderSize + Header[2])
  /\ MoveFront(HeaderSize + Header[2])
  /\ PacketProc(last')
  /\ loop' = (end' # "stopped")
  /\ UNCHANGED <<wire, peer>>

BadPacketCode ==
  /\ loop /\ BadCode
  /\ end' = IF end = "no" THEN "bad_code" ELSE end
  /\ loop' = FALSE
  /\ UNCHANGED <<ring, front, rear, wire, last, peer>>

RecvEnd ==
  /\ loop /\ ~BadCode /\ ~Complete
  /\ loop' = FALSE
  /\ UNCHANGED <<ring, front, rear, wire, last, peer, end>>

Init ==
  /\ RingInit /\ wire = <<>> /\ last = <<>>
  /\ peer = TRUE /\ loop = FALSE /\ end = "no"

RecvPacket == (\E n \in 1..Size : Recv(n)) \/ RecvClosed

Loop == HandlePacket \/ BadPacketCode \/ RecvEnd

Client == (\E c \in Chunk : ClientSend(c)) \/ ClientLeave

Next == Client \/ RecvPacket \/ Loop \/ DisconnectElsewhere

(* select() reports a session readable while bytes wait on its socket,     *)
(* NetworkManage then runs RecvPacket, and its loop runs to the end.       *)
Spec == Init /\ [][Next]_vars /\ WF_vars(RecvPacket) /\ WF_vars(Loop)

-----------------------------------------------------------------------------
(* The bytes sent and not handled: those in the ring, then those TCP still *)
(* holds.                                                                  *)
Unhandled == Read(GetUseSize) \o wire

(* A read puts its bytes behind those in the ring and loses none: the ring *)
(* holds the size bytes RingBuffer.h says are usable.                      *)
NothingLost == [][loop' /\ ~loop => Unhandled' = Unhandled]_vars

(* PacketProc is given every packet the client sent, whole, once, in order *)
(* and in the end, however TCP cuts the stream and wherever the ring       *)
(* wraps; recv() is never called without room, which would look like the   *)
(* client's leaving; and the only bytes lost are those of a ring read full *)
(* from its first place, all of them at once.                              *)
PS == INSTANCE PacketStream
        WITH stream <- Unhandled, Capacity <- Size, Type <- DOMAIN PayloadSize

ImplementsPacketStream == PS!FairSpec
====
