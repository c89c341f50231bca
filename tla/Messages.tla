--------------------------------- MODULE Messages ---------------------------------
(***************************************************************************)
(* What the server puts on the wire, byte by byte: RecvPacket reads header *)
(* and payload of a packet through a SerialBuffer, and the handlers reuse  *)
(* that buffer, and others from the pool, for the messages PacketCreator   *)
(* lays out.  A handler is the sequence of its calls on the buffers; a     *)
(* step executes one of them.                                              *)
(*                                                                         *)
(* A byte of a value is <<name of the value, whose it is, which byte>>, so *)
(* that two values differ wherever their bytes could.                      *)
(***************************************************************************)
EXTENDS SerialBuffer, FiniteSets, SequencesExt

CONSTANTS
  Mine, Other,     \* the character of the handler, and the others it meets
  PayloadLen,      \* lengths of the payloads clients send, a byte
  MaxCalls         \* handlers run, at most

ASSUME PayloadAssumption ==
  PayloadLen \subseteq 0..255 /\ Mine \notin Other /\ IsFiniteSet(Other) /\ MaxCalls \in Nat

(* The sizes of the C++ types: DWORD, WORD, BYTE and CHAR.                 *)
SizeOf == [id |-> 4, atkId |-> 4, defId |-> 4, tick |-> 4, x |-> 2, y |-> 2,
           dir |-> 1, hp |-> 1]

Bytes(value, who, size) == [i \in 1..size |-> <<value, who, i>>]

CodeByte == <<"0x89">>     \* dfPACKET_CODE
SizeByte(n) == <<"size", n>>
TypeByte(type) == <<"type", type>>

(* PacketCreator: the second byte it puts, and the parameters that follow. *)
MutantBySize == [type \in {"create_my", "create_other", "delete", "move_start", "move_stop",
                           "attack1", "attack2", "attack3", "damage", "echo", "sync"} |->
  CASE type \in {"create_my", "create_other"} -> 10
    [] type \in {"delete", "echo"} -> 4
    [] type \in {"sync", "damage"} -> 8
    [] OTHER -> 9]
BySize == [type \in {"create_my", "create_other", "delete", "move_start", "move_stop",
                     "attack1", "attack2", "attack3", "damage", "echo", "sync"} |->
  CASE type \in {"create_my", "create_other"} -> 10
    [] type \in {"delete", "echo"} -> 4
    [] type = "sync" -> 8
    [] OTHER -> 9]

Params == [type \in DOMAIN BySize |->
  CASE type \in {"create_my", "create_other"} -> <<"id", "dir", "x", "y", "hp">>
    [] type = "delete" -> <<"id">>
    [] type = "damage" -> <<"atkId", "defId", "hp">>
    [] type = "echo" -> <<"tick">>
    [] type = "sync" -> <<"id", "x", "y">>
    [] OTHER -> <<"id", "dir", "x", "y">>]

(* The bytes of message m, as PacketCreator puts them.                     *)
Put(m) ==
  <<CodeByte, SizeByte(BySize[m.type]), TypeByte(m.type)>>
    \o FlattenSeq([i \in DOMAIN Params[m.type] |->
         Bytes(Params[m.type][i], m.who, SizeOf[Params[m.type][i]])])

(* The layouts in Protocol.h, by which a client reads: name and bytes.     *)
Layout == [type \in DOMAIN BySize |->
  CASE type \in {"create_my", "create_other"} ->
         << <<"id", 4>>, <<"dir", 1>>, <<"x", 2>>, <<"y", 2>>, <<"hp", 1>> >>
    [] type = "delete" -> << <<"id", 4>> >>
    [] type = "damage" -> << <<"atkId", 4>>, <<"defId", 4>>, <<"hp", 1>> >>
    [] type = "echo" -> << <<"tick", 4>> >>
    [] type = "sync" -> << <<"id", 4>>, <<"x", 2>>, <<"y", 2>> >>
    [] OTHER -> << <<"id", 4>>, <<"dir", 1>>, <<"x", 2>>, <<"y", 2>> >>]

(* Message m as the protocol wants it: bySize counts what follows byType.  *)
Wire(m) ==
  LET body == FlattenSeq([i \in DOMAIN Layout[m.type] |->
                Bytes(Layout[m.type][i][1], m.who, Layout[m.type][i][2])])
  IN <<CodeByte, SizeByte(Len(body)), TypeByte(m.type)>> \o body

-----------------------------------------------------------------------------
VARIABLES
  bufs,     \* the SerialBuffers, by the name of the local variable; own is
            \* the serial of OnCharacterConnect and OnCharacterDisconnect
  todo,     \* the calls that remain of the handler under way
  loop,     \* RecvPacket's loop: "no", or "open" or "closed" as its session is
  packet,   \* the packet handled last
  got,      \* the values read from it, as bytes
  sent,     \* what the handler gave SendUniCast last, and the messages meant
  calls,    \* handlers started
  fault     \* "none", or what ended the process

vars == <<bufs, todo, loop, packet, got, sent, calls, fault>>

Msg(type, who) == [type |-> type, who |-> who]

(* The calls.  Send names the messages the buffer should hold.             *)
New(b, size) == <<[op |-> "new", buf |-> b, size |-> size]>>
ClearMsg(b) == <<[op |-> "clear", buf |-> b]>>
Send(b, msgs) == <<[op |-> "send", buf |-> b, msgs |-> msgs]>>
Get(len) == <<[op |-> "get", buf |-> "serial", len |-> len]>>
PutAll(b, msgs) == [i \in DOMAIN msgs |-> [op |-> "put", buf |-> b, msg |-> msgs[i]]]
Tell(b, msgs) == PutAll(b, msgs) \o Send(b, msgs)
ForEach(seq, Call(_)) == FlattenSeq([i \in DOMAIN seq |-> Call(seq[i])])

(* CreateOtherCharacterMsg, and MoveStartMsg for a character on the move.  *)
Creation(who, moving) ==
  <<Msg("create_other", who)>> \o (IF moving THEN <<Msg("move_start", who)>> ELSE <<>>)

(* SendSectorDeleteMsg and SendSectorCreateMsg: they meet the characters   *)
(* of a sector one after the other; those of movers are on the move.       *)
SendSectorDeleteMsg(others) ==
  New("delMsg", 32)
    \o ForEach(others, LAMBDA o :
         PutAll("delMsg", <<Msg("delete", o)>>) \o Send("msg", <<Msg("delete", Mine)>>)
           \o Send("delMsg", <<Msg("delete", o)>>) \o ClearMsg("delMsg"))

MutantSendSectorCreateMsg(others, movers, b, msgs) ==
  New("msg2", 32)
    \o ForEach(others, LAMBDA o :
         Send(b, msgs) \o Tell("msg2", Creation(o, o \in movers)))
SendSectorCreateMsg(others, movers, b, msgs) ==
  New("msg2", 32)
    \o ForEach(others, LAMBDA o :
         Send(b, msgs) \o Tell("msg2", Creation(o, o \in movers)) \o ClearMsg("msg2"))

(* SectorUpdate of a character that leaves those of one sector behind and  *)
(* meets those of another.                                                 *)
SectorUpdate(e, moving) ==
  IF ~e.crosses THEN <<>>
  ELSE New("msg", 64) \o PutAll("msg", <<Msg("delete", Mine)>>)
         \o SendSectorDeleteMsg(e.lost)
         \o ClearMsg("msg") \o PutAll("msg", Creation(Mine, moving))
         \o SendSectorCreateMsg(e.gained, e.movers, "msg", Creation(Mine, moving))

OnCharacterConnect(e) ==
  New("own", 32) \o Tell("own", <<Msg("create_my", Mine)>>)
    \o ClearMsg("own") \o PutAll("own", Creation(Mine, FALSE))
    \o SendSectorCreateMsg(e.gained, e.movers, "own", Creation(Mine, FALSE))

OnCharacterDisconnect == New("own", 32) \o Tell("own", <<Msg("delete", Mine)>>)

(* The handler's reply goes into the buffer its packet came in.            *)
Reply(type, who) == ClearMsg("serial") \o Tell("serial", <<Msg(type, who)>>)

(* A packet whose coordinates are too far off is answered by SyncMsg.      *)
Synchronise(e) == IF e.sync THEN Reply("sync", Mine) ELSE <<>>

(* byDir, curX and curY.                                                   *)
GetMove == Get(1) \o Get(2) \o Get(2)

PacketProc_MoveStart(e) ==
  GetMove \o Synchronise(e) \o SectorUpdate(e, e.moving) \o Reply("move_start", Mine)

PacketProc_MoveStop(e) ==
  GetMove \o Synchronise(e) \o SectorUpdate(e, FALSE) \o Reply("move_stop", Mine)

(* The type of the packet is compared with the types of the messages.      *)
Shown(type) ==
  CASE type = "sc_attack1" -> "attack1" [] type = "sc_attack2" -> "attack2" [] OTHER -> "attack3"

(* SendDamage writes over the attack message, once per character hit.      *)
PacketProc_Attack(e, type) ==
  GetMove \o Synchronise(e) \o Reply(Shown(type), Mine)
    \o ForEach(e.hit, LAMBDA o : Reply("damage", o))

PacketProc_Echo == Get(4) \o Reply("echo", Mine)

AttackType == {"cs_attack1", "cs_attack2", "cs_attack3"}
PacketType == AttackType \cup {"cs_move_start", "cs_move_stop", "cs_echo", "unknown"}

PacketProc(e, type) ==
  CASE type = "cs_move_start" -> PacketProc_MoveStart(e)
    [] type = "cs_move_stop" -> PacketProc_MoveStop(e)
    [] type \in AttackType -> PacketProc_Attack(e, type)
    [] type = "cs_echo" -> PacketProc_Echo
    [] OTHER -> OnCharacterDisconnect

(* What the handlers may meet.                                             *)
Lists == {l \in SeqOf(Other, Cardinality(Other)) : IsInjective(l)}

Encounter ==
  {e \in [sync : BOOLEAN, crosses : BOOLEAN, moving : BOOLEAN,
          lost : Lists, gained : Lists, movers : SUBSET Other, hit : Lists] :
     /\ ToSet(e.lost) \cap ToSet(e.gained) = {} /\ e.movers \subseteq ToSet(e.gained)
     /\ ~e.crosses => e.lost = <<>> /\ e.gained = <<>>
     /\ e.hit # <<>> => ~e.crosses /\ ~e.moving}

-----------------------------------------------------------------------------
Nothing == [bytes |-> <<>>, msgs |-> <<>>]

Idle == todo = <<>> /\ fault = "none"

(* RecvPacket takes a buffer and enters its loop, ...                      *)
RecvBegin ==
  /\ Idle /\ loop = "no" /\ loop' = "open"
  /\ bufs' = [bufs EXCEPT !["serial"] = SerialBuffer(32)]
  /\ UNCHANGED <<todo, packet, got, sent, calls, fault>>

RecvEnd ==
  /\ Idle /\ loop # "no" /\ loop' = "no"
  /\ UNCHANGED <<bufs, todo, packet, got, sent, calls, fault>>

(* ... which peeks a header, reads its three values, dequeues the payload  *)
(* into the same buffer, whatever its length, and calls PacketProc.  A     *)
(* payload longer than the block is copied past its end, and the process   *)
(* has no defined continuation.  A packet of unknown type closes the       *)
(* session; the loop goes on all the same, and a second one closes nothing.*)
(* A handler of the closed session finds no character and ends the         *)
(* process, unless its first >> does.                                      *)
Payload(n, len) == Bytes("payload", n, len)

RecvPacket(e, type, len) ==
  /\ Idle /\ loop # "no" /\ calls < MaxCalls
  /\ LET header == Filled(Clear(bufs["serial"]), <<CodeByte, SizeByte(len), TypeByte(type)>>)
         bySize == Peeked(Read(header, 1), 1)[1]
         byType == Peeked(Read(header, 2), 1)[1]
         dequeued == Filled(Clear(Read(header, 3)), Payload(calls, bySize[2]))
     IN /\ bufs' = [bufs EXCEPT !["serial"] = dequeued]
        /\ fault' = IF ~InBounds(dequeued) THEN "block_overrun"
                    ELSE IF loop = "closed" /\ type # "unknown" THEN "null_player"
                    ELSE "none"
        /\ todo' = IF fault' = "none" /\ loop = "open" THEN PacketProc(e, byType[2]) ELSE <<>>
  /\ packet' = [type |-> type, payload |-> Payload(calls, len)]
  /\ got' = <<>> /\ sent' = Nothing /\ calls' = calls + 1
  /\ loop' = IF type = "unknown" THEN "closed" ELSE loop

(* AcceptProc, Update and Disconnect.                                      *)
Called(script) ==
  /\ Idle /\ loop = "no" /\ calls < MaxCalls
  /\ todo' = script /\ sent' = Nothing /\ calls' = calls + 1
  /\ UNCHANGED <<bufs, loop, packet, got, fault>>

(* The next call of the handler.                                           *)
Executing(op) == todo # <<>> /\ fault = "none" /\ Head(todo).op = op

Becomes(buffer) == bufs' = [bufs EXCEPT ![Head(todo).buf] = buffer]

Done == todo' = Tail(todo) /\ UNCHANGED <<loop, packet, calls>>

Throw(what) == fault' = what /\ UNCHANGED <<bufs, got>>

ExecNew ==
  /\ Executing("new") /\ Becomes(SerialBuffer(Head(todo).size))
  /\ Done /\ UNCHANGED <<got, sent, fault>>

ExecClear ==
  /\ Executing("clear") /\ Becomes(Clear(bufs[Head(todo).buf]))
  /\ Done /\ UNCHANGED <<got, sent, fault>>

ExecPut ==
  /\ Executing("put")
  /\ LET b == bufs[Head(todo).buf]
         src == Put(Head(todo).msg)
     IN IF CanWrite(b, src) THEN Becomes(Write(b, src)) /\ UNCHANGED <<got, fault>>
        ELSE Throw("serial_buffer_full")
  /\ Done /\ UNCHANGED sent

ExecGet ==
  /\ Executing("get")
  /\ LET b == bufs[Head(todo).buf]
         len == Head(todo).len
     IN IF CanRead(b, len)
          THEN Becomes(Read(b, len)) /\ got' = got \o Peeked(b, len) /\ UNCHANGED fault
          ELSE Throw("no_data_in_buf")
  /\ Done /\ UNCHANGED sent

ExecSend ==
  /\ Executing("send")
  /\ sent' = [bytes |-> Contents(bufs[Head(todo).buf]), msgs |-> Head(todo).msgs]
  /\ Done /\ UNCHANGED <<bufs, got, fault>>

Init ==
  /\ bufs = [b \in {"serial", "own", "msg", "msg2", "delMsg"} |-> SerialBuffer(32)]
  /\ todo = <<>> /\ loop = "no" /\ packet = [type |-> "unknown", payload |-> <<>>]
  /\ got = <<>> /\ sent = Nothing /\ calls = 0 /\ fault = "none"

Next ==
  \/ RecvBegin \/ RecvEnd
  \/ \E e \in Encounter :
       \/ \E type \in PacketType, len \in PayloadLen : RecvPacket(e, type, len)
       \/ Called(OnCharacterConnect(e)) \/ Called(SectorUpdate(e, TRUE))
  \/ Called(OnCharacterDisconnect)
  \/ ExecNew \/ ExecClear \/ ExecPut \/ ExecGet \/ ExecSend

Spec == Init /\ [][Next]_vars

-----------------------------------------------------------------------------
(* SendUniCast is always given exactly the messages meant for the client,  *)
(* framed and laid out as Protocol.h says: no reply holds what an earlier  *)
(* packet or message left in the buffer it was put in.                     *)
WellFramed == sent.bytes = FlattenSeq([i \in DOMAIN sent.msgs |-> Wire(sent.msgs[i])])

(* A handler reads the values of the packet it was called for, from its    *)
(* first byte on; if the payload is too short it reads as far as it goes.  *)
FieldsRead == got = SubSeq(packet.payload, 1, Len(got))

(* No message throws for want of room, and no message takes a position out *)
(* of the block, although << does not look at the write position: only a   *)
(* payload does, when it is dequeued.                                      *)
RoomForAll ==
  /\ fault # "serial_buffer_full"
  /\ fault # "block_overrun" => \A b \in DOMAIN bufs : InBounds(bufs[b])
====
