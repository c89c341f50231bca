-------------------------------- MODULE MainLoop --------------------------------
(***************************************************************************)
(* wmain: the loop that runs NetworkManage, one frame of Update when one   *)
(* is due, the console and the monitor, all on the 32-bit millisecond      *)
(* counter timeGetTime(), which starts again from 0 every 49.7 days of the *)
(* machine's uptime.                                                       *)
(*                                                                         *)
(* clock is the true time since the server started, which the program      *)
(* cannot see; stampedAt, heardAt and frames record true times and counts  *)
(* for the properties and no action depends on them.                       *)
(***************************************************************************)
EXTENDS Integers, FiniteSets

CONSTANTS
  Client,
  Modulus,      \* 2^32
  Boot,         \* timeGetTime() when the server starts
  FrameMs,      \* 40
  ReportMs,     \* 1000
  RecvTimeout,  \* dfNETWORK_PACKET_RECV_TIMEOUT
  MaxPass,      \* the longest turn of the loop, in ms
  Horizon,      \* bound of clock
  MaxFrames     \* bound of frames

ASSUME TimeAssumption ==
  /\ Modulus \in Nat \ {0} /\ Boot \in 0..Modulus - 1
  /\ FrameMs \in Nat \ {0} /\ ReportMs \in Nat \ {0} /\ RecvTimeout \in Nat \ {0}
  /\ MaxPass \in Nat /\ Horizon \in Nat /\ MaxFrames \in Nat

VARIABLES
  clock,
  curTime, ownTime, startTime,    \* DWORDs
  lastRecv,     \* lastRecvTime of each character
  todo,         \* characters Update's loop has still to visit
  lost,         \* those this frame disconnects whatever the clock says
  frame,        \* frames since the last report
  controlMode, shutDown,
  pc,
  spent,        \* ms of this turn
  stampedAt, heardAt, frames

history == <<stampedAt, heardAt, frames>>
console == <<controlMode, shutDown>>
vars == <<clock, curTime, ownTime, startTime, lastRecv, todo, lost, frame, console, pc, spent, history>>

Dword == 0..Modulus - 1
timeGetTime == (Boot + clock) % Modulus
Plus(t, ms) == (t + ms) % Modulus
Minus(t, u) == (t - u) % Modulus

Players == DOMAIN lastRecv

(* Anything may take time.                                                 *)
Tick ==
  /\ pc # "exit" /\ clock < Horizon /\ spent < MaxPass
  /\ clock' = clock + 1 /\ spent' = spent + 1
  /\ UNCHANGED <<curTime, ownTime, startTime, lastRecv, todo, lost, frame, console, pc, history>>

-----------------------------------------------------------------------------
(* NetworkManage, as far as it concerns the clock.                         *)

(* CreateNewCharacter, and every handler of a packet: SetLastRecvTime.     *)
SetLastRecvTime(c) ==
  /\ pc = "network"
  /\ lastRecv' = [d \in Players \cup {c} |-> IF d = c THEN timeGetTime ELSE lastRecv[d]]
  /\ heardAt' = [heardAt EXCEPT ![c] = clock]
  /\ UNCHANGED <<clock, curTime, ownTime, startTime, todo, lost, frame, console, pc, spent, stampedAt, frames>>

MutantOnCharacterDisconnect(c) ==
  /\ lastRecv' = [d \in Players \ {c} |-> lastRecv[d]]
  /\ todo' = todo
OnCharacterDisconnect(c) ==
  /\ lastRecv' = [d \in Players \ {c} |-> lastRecv[d]]
  /\ todo' = todo \ {c}

Leave(c) ==
  /\ pc = "network" /\ c \in Players
  /\ OnCharacterDisconnect(c)
  /\ UNCHANGED <<clock, curTime, ownTime, startTime, lost, frame, console, pc, spent, history>>

-----------------------------------------------------------------------------
(* The frame.                                                              *)

(* curTime is read when NetworkManage has returned.                        *)
MutantStamp ==
  /\ pc = "network" /\ pc' = "frame"
  /\ curTime' = Minus(timeGetTime, spent) /\ stampedAt' = clock
  /\ UNCHANGED <<clock, ownTime, startTime, lastRecv, todo, lost, frame, console, spent, heardAt, frames>>
Stamp ==
  /\ pc = "network" /\ pc' = "frame"
  /\ curTime' = timeGetTime /\ stampedAt' = clock
  /\ UNCHANGED <<clock, ownTime, startTime, lastRecv, todo, lost, frame, console, spent, heardAt, frames>>

MutantFrameDue == curTime >= ownTime
FrameDue == curTime >= Plus(ownTime, FrameMs)

NoFrame ==
  /\ pc = "frame" /\ ~FrameDue
  /\ pc' = "control"
  /\ UNCHANGED <<clock, curTime, ownTime, startTime, lastRecv, todo, lost, frame, console, spent, history>>

(* Update also disconnects a character that has no hit points left, and    *)
(* one whose own SendQ has no room for the last creation message of its    *)
(* step: which ones is the game's affair, any may.                         *)
UpdateBegin ==
  /\ pc = "frame" /\ FrameDue /\ frames < MaxFrames
  /\ pc' = "update" /\ todo' = Players
  /\ lost' \in SUBSET Players
  /\ UNCHANGED <<clock, curTime, ownTime, startTime, lastRecv, frame, console, spent, history>>

MutantSilent(c) == Minus(ownTime, lastRecv[c]) >= RecvTimeout
Silent(c) == Minus(curTime, lastRecv[c]) >= RecvTimeout

UpdateVisit(c) ==
  /\ pc = "update" /\ c \in todo
  /\ \/ (c \in lost \/ Silent(c)) /\ OnCharacterDisconnect(c)
     \/ c \notin lost /\ ~Silent(c) /\ todo' = todo \ {c} /\ UNCHANGED lastRecv
  /\ UNCHANGED <<clock, curTime, ownTime, startTime, lost, frame, console, pc, spent, history>>

(* One frame more, however many are due.                                   *)
MutantNextFrame == ownTime' = curTime
NextFrame == ownTime' = Plus(ownTime, FrameMs)

UpdateEnd ==
  /\ pc = "update" /\ todo = {}
  /\ NextFrame
  /\ frame' = frame + 1 /\ frames' = frames + 1
  /\ pc' = "control" /\ lost' = {}
  /\ UNCHANGED <<clock, curTime, startTime, lastRecv, todo, console, spent, stampedAt, heardAt>>

-----------------------------------------------------------------------------
(* ServerControl and Monitoring.                                           *)

Key == {"none", "u", "l", "q"}

ServerControl(key) ==
  /\ pc = "control" /\ pc' = "monitor"
  /\ controlMode' = IF key = "u" THEN TRUE ELSE IF key = "l" THEN FALSE ELSE controlMode
  /\ shutDown' = (shutDown \/ (key = "q" /\ controlMode))
  /\ UNCHANGED <<clock, curTime, ownTime, startTime, lastRecv, todo, lost, frame, spent, history>>

Monitoring ==
  /\ pc = "monitor"
  /\ pc' = IF shutDown THEN "exit" ELSE "network"
  /\ spent' = 0
  /\ IF curTime >= Plus(startTime, ReportMs)
       THEN frame' = 0 /\ startTime' = Plus(startTime, ReportMs)
       ELSE UNCHANGED <<frame, startTime>>
  /\ UNCHANGED <<clock, curTime, ownTime, lastRecv, todo, lost, console, history>>

-----------------------------------------------------------------------------
Init ==
  /\ clock = 0 /\ curTime = 0 /\ ownTime = Boot /\ startTime = Boot
  /\ lastRecv = [c \in {} |-> 0] /\ todo = {} /\ lost = {} /\ frame = 0
  /\ controlMode = FALSE /\ shutDown = FALSE
  /\ pc = "network" /\ spent = 0
  /\ stampedAt = 0 /\ heardAt = [c \in Client |-> 0] /\ frames = 0

Next ==
  \/ Tick \/ Stamp \/ NoFrame \/ UpdateBegin \/ UpdateEnd \/ Monitoring
  \/ \E c \in Client : SetLastRecvTime(c) \/ Leave(c) \/ UpdateVisit(c)
  \/ \E key \in Key : ServerControl(key)

Spec == Init /\ [][Next]_vars

-----------------------------------------------------------------------------
(* Every variable holds a value of its kind; the counters stay DWORDs.     *)
TypeOK ==
  /\ clock \in 0..Horizon /\ spent \in 0..MaxPass
  /\ curTime \in Dword /\ ownTime \in Dword /\ startTime \in Dword
  /\ Players \subseteq Client /\ lastRecv \in [Players -> Dword]
  /\ todo \subseteq Players /\ lost \subseteq Client /\ frame \in 0..frames
  /\ controlMode \in BOOLEAN /\ shutDown \in BOOLEAN
  /\ pc \in {"network", "frame", "update", "control", "monitor", "exit"}
  /\ stampedAt \in 0..clock /\ heardAt \in [Client -> 0..clock] /\ frames \in Nat

(* Update disconnects nobody for silence who was heard from less than      *)
(* RecvTimeout ago: not when timeGetTime() starts again from 0 in between, *)
(* and not when the client was heard from in the same turn, after a frame  *)
(* became due.  Whoever is disconnected sooner has no hit points left or   *)
(* no room in its SendQ.                                                   *)
NeverKickedEarly ==
  [][\A c \in Client : pc = "update" /\ c \in Players \ (Players' \cup lost)
       => clock - heardAt[c] >= RecvTimeout]_vars

(* The counter is not yet within a frame of its wrap.                      *)
BeforeWrap == Boot + clock + FrameMs < Modulus

(* A silent client is gone after the timeout, one frame and two turns of   *)
(* the loop, also when the server has fallen behind with its frames.       *)
SilenceBounded ==
  BeforeWrap => \A c \in Players : clock - heardAt[c] < RecvTimeout + FrameMs + 2 * MaxPass

(* The speeds of Defines.h are for 25 frames a second: Update never runs   *)
(* ahead of the clock, also while it catches up frame by frame.  It does   *)
(* in the last frame before the wrap, where ownTime + 40 has wrapped and   *)
(* curTime has not.                                                        *)
NeverAhead == BeforeWrap => FrameMs * frames <= clock

(* No frame is lost either, as long as a turn takes no longer than a frame.*)
NoFrameLost ==
  BeforeWrap /\ MaxPass <= FrameMs => clock - FrameMs * frames < FrameMs + 2 * MaxPass
====
