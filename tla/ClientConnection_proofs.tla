------------------------ MODULE ClientConnection_proofs ------------------------
(***************************************************************************)
(* Proofs about ClientConnection, for every number of attempts.            *)
(*                                                                         *)
(* ReconnectingIsDriven is inductive next to the types.  KickIsFinal is    *)
(* not: a frame, a packet or a focus change could wake the client up.      *)
(* KickedIsReset says why none does: the kick forgot the room and its      *)
(* file, left no request to be answered, and put the player before the     *)
(* login scene.  That reconnecting is driven tells why it ends, too: only  *)
(* a controller that is not active starts counting again.                  *)
(***************************************************************************)
EXTENDS ClientConnection, TLAPS

KickedIsReset ==
  kicked => /\ connection_state = "DISCONNECTED"
            /\ ~is_active /\ ~retry_timer
            /\ ~resume_session /\ pending_requests = {}
            /\ scene = "login"

StateInv == StatesOK /\ ReconnectingIsDriven /\ KickedIsReset

IInv == AttemptsOK /\ FlagsOK /\ StateInv

USE DEF retryVars, roomVars, deviceVars, StatesOK, ReconnectingIsDriven, Paused, KickedIsReset,
        StateInv, IsConnected, Route

\* The program starts, and starts again, with the invariant.
LEMMA InitInv == Init => IInv
<1>1. Init => AttemptsOK
  BY MaxAttemptsAssumption DEF MaxAttemptsAssumption, Init, AttemptsOK
<1>2. Init => FlagsOK
  BY DEF Init, FlagsOK
<1>3. Init => StateInv
  BY DEF Init
<1> QED BY <1>1, <1>2, <1>3 DEF IInv

\* The count of attempts stays within its cap: the loop gives up instead of counting on.
LEMMA AttemptsStep ==
  ASSUME AttemptsOK, [Next]_vars
  PROVE  AttemptsOK'
<1> USE MaxAttemptsAssumption DEF MaxAttemptsAssumption, AttemptsOK
<1>1. schedule_next => AttemptsOK'
  BY DEF schedule_next, reconnect_failed, stop_reconnecting
<1>2. stop_reconnecting => AttemptsOK'
  BY DEF stop_reconnecting
<1>3. ASSUME NEW r, start_reconnecting(r)
      PROVE  AttemptsOK'
  BY <1>3 DEF start_reconnecting
<1>4. CASE Frame
  BY <1>1, <1>2, <1>3, <1>4 DEF Frame, FrameOpens, FrameClosed
<1>5. CASE FrameSilence \/ RetryTimer \/ SocketOpens \/ SocketCloses
  BY <1>5 DEF FrameSilence, RetryTimer, SocketOpens, SocketCloses
<1>6. CASE Player
  BY <1>2, <1>3, <1>6
     DEF Player, Login, Disconnect, EnterRoom, LeaveRoom, ManualReconnect, FocusOut, FocusIn,
         Restart
<1>7. CASE Packet \/ StartRecovery
  BY <1>2, <1>7
     DEF Packet, Handshake, GetProfile, RoomList, RoomJoined, RoomJoinFails, Resumed,
         ResumeFails, Kicked, LoginOK, LoginFails, StartRecovery, reconnect_failed
<1>8. CASE UNCHANGED vars
  BY <1>8 DEF vars
<1> QED BY <1>4, <1>5, <1>6, <1>7, <1>8 DEF Next

\* The flags stay Booleans.
LEMMA FlagsStep ==
  ASSUME FlagsOK, [Next]_vars
  PROVE  FlagsOK'
<1> USE DEF FlagsOK
<1>1. CASE FrameOpens
  BY <1>1, ZenonT(60) DEF FrameOpens, request, stop_reconnecting
<1>2. CASE FrameClosed
  BY <1>2, ZenonT(60)
     DEF FrameClosed, start_reconnecting, reset_state, schedule_next, reconnect_failed,
         stop_reconnecting
<1>3. CASE FrameSilence
  BY <1>3, ZenonT(60) DEF FrameSilence
<1>4. CASE RetryTimer
  BY <1>4, ZenonT(60) DEF RetryTimer, connect_to_server
<1>5. CASE SocketOpens
  BY <1>5, ZenonT(60) DEF SocketOpens
<1>6. CASE SocketCloses
  BY <1>6, ZenonT(60) DEF SocketCloses
<1>7. CASE Disconnect
  BY <1>7, ZenonT(60) DEF Disconnect, reset_state
<1>8. CASE EnterRoom
  BY <1>8, ZenonT(60) DEF EnterRoom
<1>9. CASE LeaveRoom
  BY <1>9, ZenonT(60) DEF LeaveRoom
<1>10. CASE ManualReconnect
  BY <1>10, ZenonT(60) DEF ManualReconnect, connect_to_server
<1>11. CASE FocusOut
  BY <1>11, ZenonT(60) DEF FocusOut, stop_reconnecting
<1>12. CASE FocusIn
  BY <1>12, ZenonT(60) DEF FocusIn, start_reconnecting
<1>13. CASE Restart
  BY <1>13, ZenonT(60) DEF Restart, stop_reconnecting
<1>14. CASE StartRecovery
  BY <1>14, ZenonT(60) DEF StartRecovery, reconnect_failed, stop_reconnecting, reset_state
<1>15. CASE Handshake
  BY <1>15, ZenonT(60) DEF Handshake
<1>16. CASE GetProfile
  BY <1>16, ZenonT(60) DEF GetProfile
<1>17. CASE RoomList
  BY <1>17, ZenonT(60) DEF RoomList
<1>18. CASE RoomJoined
  BY <1>18, ZenonT(60) DEF RoomJoined
<1>19. CASE RoomJoinFails
  BY <1>19, ZenonT(60) DEF RoomJoinFails
<1>20. CASE Resumed
  BY <1>20, ZenonT(60) DEF Resumed
<1>21. CASE ResumeFails
  BY <1>21, ZenonT(60) DEF ResumeFails, reconnect_failed, stop_reconnecting, reset_state
<1>22. CASE Kicked
  BY <1>22, ZenonT(60) DEF Kicked, stop_reconnecting, reset_state
<1>23. ASSUME NEW named \in BOOLEAN, Login(named)
      PROVE  FlagsOK'
  BY <1>23, ZenonT(60) DEF Login, connect_to_server
<1>24. ASSUME NEW route \in Route, LoginOK(route)
      PROVE  FlagsOK'
  BY <1>24, ZenonT(60) DEF LoginOK
<1>25. ASSUME NEW route \in Route, LoginFails(route)
      PROVE  FlagsOK'
  BY <1>25, ZenonT(60) DEF LoginFails, reconnect_failed, stop_reconnecting, reset_state
<1>26. CASE UNCHANGED vars
  BY <1>26, ZenonT(60) DEF vars
<1> QED
  BY <1>1, <1>2, <1>3, <1>4, <1>5, <1>6, <1>7, <1>8, <1>9, <1>10, <1>11, <1>12, <1>13, <1>14,
     <1>15, <1>16, <1>17, <1>18, <1>19, <1>20, <1>21, <1>22, <1>23, <1>24, <1>25, <1>26
     DEF Next, Frame, Player, Packet

\* The frames: _process, the timers and the socket.
LEMMA FrameStep ==
  ASSUME StateInv, Frame \/ FrameSilence \/ RetryTimer \/ SocketOpens \/ SocketCloses
  PROVE  StateInv'
<1>1. CASE FrameOpens
  BY <1>1 DEF FrameOpens, request, stop_reconnecting
<1>2. CASE FrameClosed
  <2>1. CASE IsConnected /\ current_room
    BY <1>2, <2>1 DEF FrameClosed, start_reconnecting
  <2>2. CASE IsConnected /\ ~current_room
    BY <1>2, <2>2 DEF FrameClosed, reset_state
  <2>3. CASE connection_state = "RECONNECTING"
    BY <1>2, <2>3
       DEF FrameClosed, schedule_next, reconnect_failed, stop_reconnecting, reset_state
  <2>4. CASE connection_state = "CONNECTING"
    BY <1>2, <2>4 DEF FrameClosed
  <2> QED BY <1>2, <2>1, <2>2, <2>3, <2>4 DEF FrameClosed
<1>3. CASE FrameSilence
  BY <1>3 DEF FrameSilence
<1>4. CASE RetryTimer
  BY <1>4 DEF RetryTimer, connect_to_server
<1>5. CASE SocketOpens
  BY <1>5 DEF SocketOpens
<1>6. CASE SocketCloses
  BY <1>6 DEF SocketCloses
<1> QED BY <1>1, <1>2, <1>3, <1>4, <1>5, <1>6 DEF Frame

\* What the player and the device do.
LEMMA PlayerStep ==
  ASSUME StateInv, Player
  PROVE  StateInv'
<1>1. CASE \E named \in BOOLEAN : Login(named)
  <2>1. StatesOK'
    BY <1>1 DEF Login, request, connect_to_server
  <2>2. ReconnectingIsDriven'
    BY <1>1 DEF Login, request, connect_to_server
  <2>3. KickedIsReset'
    BY <1>1 DEF Login, request, connect_to_server
  <2> QED BY <2>1, <2>2, <2>3
<1>2. CASE Disconnect
  BY <1>2 DEF Disconnect, reset_state
<1>3. CASE EnterRoom
  BY <1>3 DEF EnterRoom, request
<1>4. CASE LeaveRoom
  BY <1>4 DEF LeaveRoom, request, LobbyRequests
<1>5. CASE ManualReconnect
  BY <1>5 DEF ManualReconnect, connect_to_server
<1>6. CASE FocusOut
  BY <1>6 DEF FocusOut, stop_reconnecting
<1>7. CASE FocusIn
  <2>1. StatesOK'
    BY <1>7 DEF FocusIn, Reactivates, start_reconnecting
  <2>2. ReconnectingIsDriven'
    BY <1>7 DEF FocusIn, Reactivates, start_reconnecting
  <2>3. KickedIsReset'
    BY <1>7 DEF FocusIn, Reactivates, start_reconnecting
  <2> QED BY <2>1, <2>2, <2>3
<1>8. CASE Restart
  BY <1>8 DEF Restart, stop_reconnecting
<1> QED BY <1>1, <1>2, <1>3, <1>4, <1>5, <1>6, <1>7, <1>8 DEF Player

\* What the server sends, and the recovery sequence that it drives.
LEMMA PacketStep ==
  ASSUME StateInv, Packet \/ StartRecovery
  PROVE  StateInv'
<1>1. CASE Handshake
  BY <1>1 DEF Handshake, Receive, OnConnected, LobbyRequests
<1>2. CASE GetProfile
  BY <1>2 DEF GetProfile, Receive, AfterProfile, LastStep
<1>3. CASE RoomList
  BY <1>3 DEF RoomList, Receive
<1>4. CASE RoomJoined
  BY <1>4 DEF RoomJoined, Receive
<1>5. CASE RoomJoinFails
  BY <1>5 DEF RoomJoinFails, Receive
<1>6. CASE Resumed
  BY <1>6 DEF Resumed, Receive
<1>7. CASE ResumeFails
  BY <1>7 DEF ResumeFails, Receive, reconnect_failed, stop_reconnecting, reset_state
<1>8. CASE Kicked
  BY <1>8 DEF Kicked, stop_reconnecting, reset_state
<1>9. ASSUME NEW route \in Route, LoginOK(route)
      PROVE  StateInv'
  BY <1>9 DEF LoginOK, Receive, AfterProfile, LastStep, LobbyRequests
<1>10. ASSUME NEW route \in Route, LoginFails(route)
       PROVE  StateInv'
  BY <1>10 DEF LoginFails, Receive, reconnect_failed, stop_reconnecting, reset_state
<1>11. CASE StartRecovery
  <2>1. StatesOK'
    BY <1>11 DEF StartRecovery, reconnect_failed, stop_reconnecting, reset_state
  <2>2. ReconnectingIsDriven'
    BY <1>11 DEF StartRecovery, reconnect_failed, stop_reconnecting, reset_state
  <2>3. KickedIsReset'
    BY <1>11 DEF StartRecovery, reconnect_failed, stop_reconnecting, reset_state
  <2> QED BY <2>1, <2>2, <2>3
<1> QED BY <1>1, <1>2, <1>3, <1>4, <1>5, <1>6, <1>7, <1>8, <1>9, <1>10, <1>11 DEF Packet

\* A step of something else.
LEMMA StutterStep ==
  ASSUME StateInv, UNCHANGED vars
  PROVE  StateInv'
BY DEF vars

\* IInv is inductive.
LEMMA Invariance == Spec => []IInv
<1>1. Init => IInv
  BY InitInv
<1>2. IInv /\ [Next]_vars => IInv'
  BY AttemptsStep, FlagsStep, FrameStep, PlayerStep, PacketStep, StutterStep DEF Next, IInv
<1> QED BY <1>1, <1>2, PTL DEF Spec

\* The client's variables keep their types: the count of attempts never passes its cap, whatever
\* timers, frames and reconnections interleave.
THEOREM TypeCorrect == Spec => []TypeOK
<1>1. IInv => TypeOK
  BY DEF TypeOK, IInv
<1> QED BY <1>1, Invariance, PTL

\* A reconnecting client that is not paused always has its retry loop running.
THEOREM ReconnectingDriven == Spec => []ReconnectingIsDriven
<1>1. IInv => ReconnectingIsDriven
  BY DEF IInv
<1> QED BY <1>1, Invariance, PTL

\* A kicked client stays disconnected until the player logs in again.
THEOREM KickFinal == Spec => []KickIsFinal
<1>1. IInv => KickIsFinal
  BY DEF KickIsFinal, IInv
<1> QED BY <1>1, Invariance, PTL

-----------------------------------------------------------------------------
(* Why reconnecting comes to an end *)

Retrying == connection_state = "RECONNECTING" /\ ~Paused

\* While the client is reconnecting the count of attempts never falls, and every frame that
\* finds the socket closed raises it.
RetriesRunOut ==
  [][Retrying /\ Retrying' => /\ current_attempt' >= current_attempt
                              /\ FrameClosed => current_attempt' > current_attempt]_vars

\* Of the steps that touch the count, those that reset it end the reconnecting, or pause it.
LEMMA RetriesStep ==
  ASSUME IInv, [Next]_vars, Retrying, Retrying'
  PROVE  /\ current_attempt' >= current_attempt
         /\ FrameClosed => current_attempt' > current_attempt
<1> DEFINE Kept == current_attempt' >= current_attempt
<1>0. /\ current_attempt \in Nat /\ MaxAttempts \in Nat
      /\ connection_state = "RECONNECTING" /\ connection_state' = "RECONNECTING"
  BY MaxAttemptsAssumption DEF MaxAttemptsAssumption, IInv, AttemptsOK, Retrying
<1>1. is_active /\ ~(mobile' /\ background')
  BY DEF IInv, Retrying
<1>2. ~reset_state
  BY <1>0 DEF reset_state
<1>3. ASSUME FrameClosed PROVE current_attempt' > current_attempt
  <2>1. schedule_next
    BY <1>0, <1>3 DEF FrameClosed
  <2> QED BY <1>0, <1>2, <2>1 DEF schedule_next, reconnect_failed
<1>4. ASSUME FrameOpens \/ FrameSilence \/ RetryTimer \/ SocketOpens \/ SocketCloses PROVE Kept
  BY <1>0, <1>4 DEF FrameOpens, FrameSilence, RetryTimer, SocketOpens, SocketCloses
<1>5. ASSUME FocusOut PROVE Kept
  BY <1>0, <1>1, <1>5 DEF FocusOut
<1>6. ASSUME FocusIn PROVE Kept
  BY <1>0, <1>1, <1>6 DEF FocusIn, start_reconnecting
<1>7. ~Restart
  BY <1>0 DEF Restart
<1>8. ASSUME \/ \E named \in BOOLEAN : Login(named)
             \/ Disconnect \/ EnterRoom \/ LeaveRoom \/ ManualReconnect
      PROVE  Kept
  <2>1. UNCHANGED current_attempt
    BY <1>8, Zenon DEF Login, Disconnect, EnterRoom, LeaveRoom, ManualReconnect
  <2> QED BY <1>0, <2>1
<1>9. ASSUME StartRecovery PROVE Kept
  BY <1>0, <1>2, <1>9 DEF StartRecovery, reconnect_failed
<1>10. ASSUME \/ Handshake \/ GetProfile \/ RoomList \/ RoomJoined \/ RoomJoinFails \/ Resumed
       PROVE  Kept
  BY <1>0, <1>10 DEF Handshake, GetProfile, RoomList, RoomJoined, RoomJoinFails, Resumed
<1>11. ~ResumeFails /\ ~Kicked
  BY <1>2 DEF ResumeFails, Kicked, reconnect_failed
<1>12. ASSUME NEW route \in Route, LoginOK(route) \/ LoginFails(route) PROVE Kept
  BY <1>0, <1>2, <1>12 DEF LoginOK, LoginFails, reconnect_failed
<1>13. ASSUME UNCHANGED vars PROVE Kept
  BY <1>0, <1>13 DEF vars
<1>14. FrameClosed => Kept
  BY <1>0, <1>3, AttemptsStep DEF IInv, AttemptsOK
<1>15. Kept
  <2> HIDE DEF Kept
  <2> QED BY <1>4, <1>5, <1>6, <1>7, <1>8, <1>9, <1>10, <1>11, <1>12, <1>13, <1>14
          DEF Next, Frame, Player, Packet
<1> QED BY <1>3, <1>15

\* A client that reconnects uses its attempts up (reconnect_controller.gd): no manual
\* reconnection, late answer or focus change gives it new ones, except a pause.  With the cap
\* of TypeCorrect, this is what ReconnectingEnds needs besides frames that are drawn.
THEOREM AttemptsRunOut == Spec => RetriesRunOut
<1>1. IInv /\ [Next]_vars =>
        [Retrying /\ Retrying' => /\ current_attempt' >= current_attempt
                                  /\ FrameClosed => current_attempt' > current_attempt]_vars
  BY RetriesStep
<1> QED BY <1>1, Invariance, PTL DEF Spec, RetriesRunOut
=============================================================================
