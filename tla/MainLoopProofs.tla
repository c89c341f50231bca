----------------------------- MODULE MainLoopProofs -----------------------------
(***************************************************************************)
(* What the loop promises for every clock, frame length and timeout.       *)
(***************************************************************************)
EXTENDS MainLoop, TLAPS

(* The counter's value at true time t.                                     *)
At(t) == (Boot + t) % Modulus

-----------------------------------------------------------------------------
(* Arithmetic of a counter that wraps.                                     *)

(* Every remainder is a DWORD.                                             *)
LEMMA ModRange == \A a \in Int : a % Modulus \in Dword
BY TimeAssumption DEF Dword

(* Within one turn of the counter the remainder is the number itself.      *)
LEMMA ModSmall == \A a \in 0..Modulus - 1 : a % Modulus = a
BY TimeAssumption

(* The unsigned difference of two readings never exceeds the time between  *)
(* them, however often the counter wrapped.                                *)
LEMMA ModDiff ==
  ASSUME NEW a \in Nat, NEW b \in Nat, b <= a
  PROVE  ((a % Modulus) - (b % Modulus)) % Modulus <= a - b
<1>. DEFINE M == Modulus  x == (a % M) - (b % M)  k == (a \div M) - (b \div M)
<1>1. M \in Nat /\ M > 0 /\ k \in Int
  BY TimeAssumption
<1>2. a = M * (a \div M) + (a % M) /\ b = M * (b \div M) + (b % M)
  <2>1. \A n, m \in Nat : m > 0 => n = m * (n \div m) + (n % m)
    BY Z3
  <2>. HIDE DEF M
  <2>. QED  BY <1>1, <2>1
<1>3. a % M \in 0..M - 1 /\ b % M \in 0..M - 1
  BY <1>1
<1>4. a - b = M * k + x
  BY <1>1, <1>2, <1>3
<1>5. x \in Int /\ -M < x /\ x < M
  BY <1>1, <1>3
<1>6. x % M = IF x >= 0 THEN x ELSE x + M
  BY <1>1, <1>5
<1>7. CASE x >= 0
  <2>1. M * k >= 0
    <3>1. M * k > -M
      BY <1>1, <1>4, <1>5
    <3>2. k >= 0
      BY <1>1, <3>1
    <3>. QED  BY <1>1, <3>2
  <2>. QED  BY <1>1, <1>4, <1>5, <1>6, <1>7, <2>1
<1>8. CASE x < 0
  <2>1. M * k >= M
    <3>1. M * k > 0
      BY <1>1, <1>4, <1>5, <1>8
    <3>2. k >= 1
      BY <1>1, <3>1
    <3>. QED  BY <1>1, <3>2
  <2>. QED  BY <1>1, <1>4, <1>5, <1>6, <1>8, <2>1
<1>. QED  BY <1>5, <1>7, <1>8

-----------------------------------------------------------------------------
(* Timeouts.                                                               *)

(* Every character's lastRecvTime is the counter at the time it was heard  *)
(* from, and during Update curTime is a later reading.                     *)
Stamps ==
  /\ \A c \in Players : lastRecv[c] = At(heardAt[c])
  /\ pc \in {"frame", "update"} =>
       curTime = At(stampedAt) /\ \A c \in Players : heardAt[c] <= stampedAt

Inv == TypeOK /\ Stamps

(* Nobody has been heard from yet.                                         *)
LEMMA InvInit == Init => Inv
<1>. SUFFICES ASSUME Init PROVE Inv
  OBVIOUS
<1>1. Players = {} /\ lastRecv \in [Players -> Dword]
  BY DEF Init, Players
<1>2. Boot \in Dword /\ 0 \in Dword
  BY TimeAssumption DEF Dword
<1>3. heardAt \in [Client -> 0..clock] /\ stampedAt \in 0..clock /\ frame \in 0..frames
  BY DEF Init
<1>4. clock \in 0..Horizon /\ spent \in 0..MaxPass
  BY TimeAssumption DEF Init
<1>5. TypeOK
  BY <1>1, <1>2, <1>3, <1>4 DEF Init, TypeOK
<1>6. Stamps
  BY <1>1 DEF Init, Stamps
<1>. QED  BY <1>5, <1>6 DEF Inv

(* No action leaves the types: every DWORD is assigned a remainder.        *)
LEMMA TypeStep == TypeOK /\ [Next]_vars => TypeOK'
<1>. SUFFICES ASSUME TypeOK, [Next]_vars PROVE TypeOK'
  OBVIOUS
<1>. USE TimeAssumption, ModRange DEF TypeOK, Players, history, console
<1>1. \A t \in Int, ms \in Int : Plus(t, ms) \in Dword
  BY DEF Plus
<1>2. timeGetTime \in Dword
  BY DEF timeGetTime
<1>3. CASE Tick
  BY <1>3 DEF Tick
<1>4. CASE Stamp
  BY <1>2, <1>4 DEF Stamp
<1>5. CASE NoFrame
  BY <1>5 DEF NoFrame
<1>6. CASE UpdateBegin
  BY <1>6 DEF UpdateBegin
<1>7. CASE UpdateEnd
  BY <1>1, <1>7 DEF UpdateEnd, NextFrame, Dword
<1>8. CASE Monitoring
  BY <1>1, <1>8 DEF Monitoring, Dword
<1>9. ASSUME NEW c \in Client, SetLastRecvTime(c) PROVE TypeOK'
  BY <1>2, <1>9 DEF SetLastRecvTime
<1>10. ASSUME NEW c \in Client, Leave(c) PROVE TypeOK'
  BY <1>10 DEF Leave, OnCharacterDisconnect
<1>11. ASSUME NEW c \in Client, UpdateVisit(c) PROVE TypeOK'
  BY <1>11 DEF UpdateVisit, OnCharacterDisconnect
<1>12. ASSUME NEW key \in Key, ServerControl(key) PROVE TypeOK'
  BY <1>12 DEF ServerControl
<1>13. CASE UNCHANGED vars
  BY <1>13 DEF vars
<1>. QED
  BY <1>3, <1>4, <1>5, <1>6, <1>7, <1>8, <1>9, <1>10, <1>11, <1>12, <1>13 DEF Next

(* Readings are stored as they are taken, and kept.                        *)
LEMMA StampsStep == Inv /\ [Next]_vars => Stamps'
<1>. SUFFICES ASSUME TypeOK, Stamps, [Next]_vars PROVE Stamps'
  BY DEF Inv
<1>. USE DEF TypeOK, Players, history, console, Stamps
<1>1. timeGetTime = At(clock)
  BY DEF timeGetTime, At
<1>3. CASE Tick
  BY <1>3 DEF Tick
<1>4. CASE Stamp
  BY <1>1, <1>4 DEF Stamp
<1>5. CASE NoFrame
  BY <1>5 DEF NoFrame
<1>6. CASE UpdateBegin
  BY <1>6 DEF UpdateBegin
<1>7. CASE UpdateEnd
  BY <1>7 DEF UpdateEnd
<1>8. CASE Monitoring
  BY <1>8 DEF Monitoring
<1>9. ASSUME NEW c \in Client, SetLastRecvTime(c) PROVE Stamps'
  BY <1>1, <1>9 DEF SetLastRecvTime
<1>10. ASSUME NEW c \in Client, Leave(c) PROVE Stamps'
  BY <1>10 DEF Leave, OnCharacterDisconnect
<1>11. ASSUME NEW c \in Client, UpdateVisit(c) PROVE Stamps'
  BY <1>11 DEF UpdateVisit, OnCharacterDisconnect
<1>12. ASSUME NEW key \in Key, ServerControl(key) PROVE Stamps'
  BY <1>12 DEF ServerControl
<1>13. CASE UNCHANGED vars
  BY <1>13 DEF vars
<1>. QED
  BY <1>3, <1>4, <1>5, <1>6, <1>7, <1>8, <1>9, <1>10, <1>11, <1>12, <1>13 DEF Next

(* Types and readings, for every wrap of the counter.                      *)
THEOREM TimesInvariant == Spec => []Inv
<1>1. Inv /\ [Next]_vars => Inv'
  BY TypeStep, StampsStep DEF Inv
<1>. QED  BY <1>1, InvInit, PTL DEF Spec

(* Every variable keeps its type, and the DWORDs stay DWORDs.              *)
THEOREM TypeCorrect == Spec => []TypeOK
BY TimesInvariant, PTL DEF Inv

(* Update only disconnects who was silent for the whole timeout, for every *)
(* width of the counter and every time at which it wraps.                  *)
THEOREM NobodyKickedEarly == Spec => NeverKickedEarly
<1>1. ASSUME Inv, [Next]_vars,
             NEW c \in Client, pc = "update", c \in Players \ (Players' \cup lost)
      PROVE  clock - heardAt[c] >= RecvTimeout
  <2>1. Silent(c)
    BY <1>1 DEF Next, vars, Tick, SetLastRecvTime, Leave, Stamp, NoFrame, UpdateBegin, UpdateVisit,
         OnCharacterDisconnect, UpdateEnd, ServerControl, Monitoring, Players
  <2>2. /\ stampedAt \in Nat /\ heardAt[c] \in Nat /\ heardAt[c] <= stampedAt /\ stampedAt <= clock
        /\ clock \in Nat /\ Boot \in Nat
        /\ curTime = At(stampedAt) /\ lastRecv[c] = At(heardAt[c])
    BY <1>1, TimeAssumption DEF Inv, TypeOK, Stamps
  <2>3. (At(stampedAt) - At(heardAt[c])) % Modulus <= (Boot + stampedAt) - (Boot + heardAt[c])
    BY <2>2, ModDiff DEF At
  <2>4. (At(stampedAt) - At(heardAt[c])) % Modulus \in Int
    <3>1. At(stampedAt) \in Int /\ At(heardAt[c]) \in Int
      BY <2>2, ModRange, TimeAssumption DEF At, Dword
    <3>. QED  BY <3>1, ModRange DEF Dword
  <2>5. (At(stampedAt) - At(heardAt[c])) % Modulus >= RecvTimeout
    BY <2>1, <2>2 DEF Silent, Minus
  <2>. QED  BY <2>2, <2>3, <2>4, <2>5, TimeAssumption
<1>2. Inv /\ [Next]_vars => [\A c \in Client : pc = "update" /\ c \in Players \ (Players' \cup lost)
                               => clock - heardAt[c] >= RecvTimeout]_vars
  BY <1>1
<1>. QED  BY <1>2, TimesInvariant, PTL DEF Spec, NeverKickedEarly

-----------------------------------------------------------------------------
(* Before the counter wraps.                                               *)

(* The true time up to which frames have been run.                         *)
Done == FrameMs * frames

(* ownTime and curTime are true times.                                     *)
Unwrapped ==
  /\ ownTime = Boot + Done
  /\ pc \in {"frame", "update"} => curTime = Boot + stampedAt
  /\ pc = "update" => Done + FrameMs <= stampedAt
  /\ Done <= stampedAt

(* How long ago a client was heard from, in the course of a turn.  Update  *)
(* saw each of them within the timeout at a time that Done has not passed. *)
Heeded ==
  \A c \in Players :
    /\ Done - heardAt[c] < RecvTimeout
    /\ pc \in {"frame", "update"} =>
         clock - heardAt[c] < RecvTimeout + FrameMs + MaxPass + spent
    /\ pc = "update" /\ c \notin todo => stampedAt - heardAt[c] < RecvTimeout
    /\ pc \notin {"frame", "update"} =>
         stampedAt - heardAt[c] < RecvTimeout + FrameMs

(* How far the clock has gone since curTime was read.                      *)
Gap ==
  /\ pc \in {"network", "exit"} => clock - stampedAt <= MaxPass + spent
  /\ pc \notin {"network", "exit"} => clock - stampedAt <= spent

(* How far frames have fallen behind.                                      *)
Lag ==
  /\ pc \in {"network", "frame", "update", "exit"} => clock - Done < FrameMs + MaxPass + spent
  /\ pc \in {"control", "monitor"} => clock - Done < FrameMs + spent

Timely == Inv /\ Unwrapped /\ Heeded /\ Gap

(* What the DWORDs of a state say about true times.                        *)
LEMMA Readings ==
  ASSUME BeforeWrap, Timely
  PROVE  /\ Done \in Nat
         /\ timeGetTime = Boot + clock
         /\ Plus(ownTime, FrameMs) = Boot + Done + FrameMs
         /\ pc = "frame" => (FrameDue <=> stampedAt >= Done + FrameMs)
         /\ pc = "update" => \A c \in Players : Silent(c) <=> stampedAt - heardAt[c] >= RecvTimeout
<1>. USE TimeAssumption DEF Timely, Inv, TypeOK
<1>1. Done \in Nat
  BY DEF Done
<1>2. \A t \in 0..clock : At(t) = Boot + t
  BY ModSmall DEF BeforeWrap, At
<1>3. timeGetTime = Boot + clock
  BY <1>2 DEF timeGetTime, At
<1>4. Done <= stampedAt /\ ownTime = Boot + Done /\ stampedAt \in 0..clock
  BY DEF Unwrapped
<1>5. Plus(ownTime, FrameMs) = Boot + Done + FrameMs
  <2>1. Boot + Done + FrameMs \in 0..Modulus - 1
    BY <1>1, <1>4 DEF BeforeWrap
  <2>. QED  BY <1>4, <2>1, ModSmall DEF Plus
<1>6. pc = "frame" => (FrameDue <=> stampedAt >= Done + FrameMs)
  BY <1>1, <1>4, <1>5 DEF FrameDue, Unwrapped
<1>7. ASSUME pc = "update", NEW c \in Players
      PROVE  Silent(c) <=> stampedAt - heardAt[c] >= RecvTimeout
  <2>1. heardAt[c] \in 0..stampedAt /\ lastRecv[c] = Boot + heardAt[c] /\ curTime = Boot + stampedAt
    BY <1>2, <1>4, <1>7 DEF Stamps, Unwrapped
  <2>2. curTime - lastRecv[c] = stampedAt - heardAt[c] /\ stampedAt - heardAt[c] \in 0..Modulus - 1
    BY <1>4, <2>1 DEF BeforeWrap
  <2>. QED  BY <2>2, ModSmall DEF Silent, Minus
<1>. QED  BY <1>1, <1>3, <1>5, <1>6, <1>7

(* The steps of Timely and of Lag, action by action.                       *)
LEMMA TimelyStep ==
  ASSUME BeforeWrap
  PROVE  Timely /\ [Next]_vars => Unwrapped' /\ Heeded' /\ Gap' /\ (MaxPass <= FrameMs /\ Lag => Lag')
<1>. DEFINE Goal == Unwrapped' /\ Heeded' /\ Gap' /\ (MaxPass <= FrameMs /\ Lag => Lag')
<1>. SUFFICES ASSUME Timely, [Next]_vars PROVE Goal
  OBVIOUS
<1>0. Inv'
  BY TypeStep, StampsStep DEF Timely, Inv
<1>1. /\ TypeOK /\ TypeOK' /\ Stamps /\ Unwrapped /\ Heeded /\ Gap
      /\ Done \in Nat
      /\ timeGetTime = Boot + clock
      /\ Plus(ownTime, FrameMs) = Boot + Done + FrameMs
      /\ pc = "frame" => (FrameDue <=> stampedAt >= Done + FrameMs)
      /\ pc = "update" => \A c \in Players : Silent(c) <=> stampedAt - heardAt[c] >= RecvTimeout
  BY <1>0, Readings DEF Timely, Inv
<1>2. frames' = frames => Done' = Done
  BY DEF Done
<1>. USE <1>1, <1>2, TimeAssumption
     DEF TypeOK, Players, history, console, Unwrapped, Heeded, Gap, Lag
<1>3. CASE Tick
  BY <1>3 DEF Tick
<1>4. CASE Stamp
  BY <1>4 DEF Stamp
<1>5. CASE NoFrame
  BY <1>5 DEF NoFrame
<1>6. CASE UpdateBegin
  BY <1>6 DEF UpdateBegin
<1>7. CASE UpdateEnd
  <2>1. Done' = Done + FrameMs
    BY <1>7 DEF UpdateEnd, Done
  <2>. QED  BY <1>7, <2>1 DEF UpdateEnd, NextFrame
<1>8. CASE Monitoring
  BY <1>8 DEF Monitoring
<1>9. ASSUME NEW c \in Client, SetLastRecvTime(c) PROVE Goal
  BY <1>9 DEF SetLastRecvTime
<1>10. ASSUME NEW c \in Client, Leave(c) PROVE Goal
  BY <1>10 DEF Leave, OnCharacterDisconnect
<1>11. ASSUME NEW c \in Client, UpdateVisit(c) PROVE Goal
  BY <1>11 DEF UpdateVisit, OnCharacterDisconnect
<1>12. ASSUME NEW key \in Key, ServerControl(key) PROVE Goal
  BY <1>12 DEF ServerControl
<1>13. CASE UNCHANGED vars
  BY <1>13 DEF vars
<1>. QED
  BY <1>3, <1>4, <1>5, <1>6, <1>7, <1>8, <1>9, <1>10, <1>11, <1>12, <1>13 DEF Next

(* No time has passed and no frame has been run.                           *)
LEMMA TimelyInit == Init => Timely /\ Lag
<1>. SUFFICES ASSUME Init PROVE Timely /\ Lag
  OBVIOUS
<1>1. Inv /\ Players = {} /\ Done = 0
  BY InvInit, TimeAssumption DEF Init, Players, Done
<1>. QED
  BY <1>1, TimeAssumption DEF Init, Timely, Unwrapped, Heeded, Gap, Lag

(* True time does not go back: what is before the wrap now always was.     *)
LEMMA WrapStays == TypeOK /\ [Next]_vars /\ BeforeWrap' => BeforeWrap
<1>. SUFFICES ASSUME TypeOK, [Next]_vars, BeforeWrap' PROVE BeforeWrap
  OBVIOUS
<1>1. clock' = clock \/ clock' = clock + 1
  BY DEF Next, vars, Tick, Stamp, NoFrame, UpdateBegin, UpdateEnd, Monitoring,
         SetLastRecvTime, Leave, UpdateVisit, ServerControl
<1>. QED
  BY <1>1, TimeAssumption DEF BeforeWrap, TypeOK

(* Timely, and Lag when turns are short, until the wrap.                   *)
Timed == Inv /\ (BeforeWrap => Timely /\ (MaxPass <= FrameMs => Lag))

(* Timed is an invariant.                                                  *)
THEOREM TimedInvariant == Spec => []Timed
<1>1. Init => Timed
  BY TimelyInit DEF Timed, Timely
<1>2. Timed /\ [Next]_vars => Timed'
  <2>. SUFFICES ASSUME Timed, [Next]_vars PROVE Timed'
    OBVIOUS
  <2>1. Inv'
    BY TypeStep, StampsStep DEF Timed, Inv
  <2>2. ASSUME BeforeWrap' PROVE Timely' /\ (MaxPass <= FrameMs => Lag')
    <3>1. BeforeWrap
      BY <2>2, WrapStays DEF Timed, Inv
    <3>2. Timely /\ (MaxPass <= FrameMs => Lag)
      BY <3>1 DEF Timed
    <3>. QED  BY <2>1, <3>1, <3>2, TimelyStep DEF Timely
  <2>. QED  BY <2>1, <2>2 DEF Timed
<1>. QED  BY <1>1, <1>2, PTL DEF Spec

(* Update never runs ahead of the clock.                                   *)
THEOREM FramesNeverAhead == Spec => []NeverAhead
<1>1. Timed => NeverAhead
  <2>. SUFFICES ASSUME BeforeWrap, Timely PROVE FrameMs * frames <= clock
    BY DEF Timed, NeverAhead
  <2>. QED  BY Readings, TimeAssumption DEF Timely, Inv, TypeOK, Unwrapped, Done
<1>. QED  BY <1>1, TimedInvariant, PTL

(* A silent client is disconnected in bounded time, however far Update has *)
(* fallen behind.                                                          *)
THEOREM SilentKickedInTime == Spec => []SilenceBounded
<1>1. Timed => SilenceBounded
  <2>. SUFFICES ASSUME Timely, NEW c \in Players
                PROVE  clock - heardAt[c] < RecvTimeout + FrameMs + 2 * MaxPass
    BY DEF Timed, SilenceBounded
  <2>1. c \in Client /\ clock \in Nat /\ heardAt[c] \in Nat /\ stampedAt \in Nat /\ spent \in 0..MaxPass
    BY DEF Timely, Inv, TypeOK
  <2>2. CASE pc \in {"frame", "update"}
    BY <2>1, <2>2, TimeAssumption DEF Timely, Heeded
  <2>3. CASE pc \notin {"frame", "update"}
    BY <2>1, <2>3, TimeAssumption DEF Timely, Heeded, Gap
  <2>. QED  BY <2>2, <2>3
<1>. QED  BY <1>1, TimedInvariant, PTL

(* No frame is lost while turns are no longer than frames.                 *)
THEOREM FramesKeepUp == Spec => []NoFrameLost
<1>1. Timed => NoFrameLost
  <2>. SUFFICES ASSUME BeforeWrap, Timely, Lag
                PROVE  clock - FrameMs * frames < FrameMs + 2 * MaxPass
    BY DEF Timed, NoFrameLost
  <2>1. Done \in Nat /\ clock \in Nat /\ spent \in 0..MaxPass
        /\ pc \in {"network", "frame", "update", "control", "monitor", "exit"}
    BY Readings DEF Timely, Inv, TypeOK
  <2>2. clock - Done < FrameMs + 2 * MaxPass
    BY <2>1, TimeAssumption DEF Lag
  <2>. QED  BY <2>2 DEF Done
<1>. QED  BY <1>1, TimedInvariant, PTL
====
