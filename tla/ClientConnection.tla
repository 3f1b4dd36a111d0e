--------------------------- MODULE ClientConnection ---------------------------
(***************************************************************************)
(* The connection of a game client: NetworkManager                         *)
(* (client/utils/network/network_manager.gd), its ReconnectController      *)
(* (reconnect_controller.gd) and SessionRecovery (session_recovery.gd),    *)
(* and the parts of the scenes and of the overlay (connection_monitor.gd)  *)
(* that connect, log in, enter and leave rooms.                            *)
(*                                                                         *)
(* Everything runs on the engine's main thread, one callback at a time: a  *)
(* frame (_process), a packet, a timer, a notification, a button.  The     *)
(* server, the network and the player choose the order.  Time is left out: *)
(* a running timer may fire at any moment, and frames go on meanwhile.     *)
(***************************************************************************)
EXTENDS Integers, FiniteSets

CONSTANT MaxAttempts   \* 8

ASSUME MaxAttemptsAssumption == MaxAttempts \in Nat \ {0}

VARIABLES
  connection_state, recovery_state,
  current_room,      \* whether it is set
  resume_session,    \* whether the file user://resume_session.json exists
  player_name,       \* whether it is a name that was logged in with
  socket,            \* the ready state of the WebSocketPeer
  pending_requests,  \* routes of the requests the server has yet to answer on this socket
  is_active, current_attempt, retry_timer,  \* of ReconnectController
  starting,          \* the 0.05 s timer that starts the recovery sequence is running
  listeners,         \* SessionRecovery's handlers of message_received, by the route awaited;
                     \* two that await the same route are one here
  scene,             \* "login", "logging_in" (it waits for the connection), "lobby", "room"
  mobile, background,
  kicked             \* history: kicked since the player last logged in

retryVars  == <<is_active, current_attempt, retry_timer>>
roomVars   == <<current_room, resume_session>>
deviceVars == <<mobile, background>>
vars == <<connection_state, recovery_state, roomVars, player_name, socket, pending_requests,
          retryVars, starting, listeners, scene, deviceVars, kicked>>

Route == {"Handshake", "User.Auth", "User.GuestLogin", "User.GetProfile", "Room.List",
          "Room.Join", "Room.Resume"}

AttemptsOK == current_attempt \in 0 .. MaxAttempts

StatesOK ==
  /\ connection_state \in {"DISCONNECTED", "CONNECTING", "CONNECTED", "RECONNECTING", "RESUMING"}
  /\ recovery_state \in {"NORMAL", "LOST", "RECONNECTING", "REAUTHENTICATING", "RESYNCING"}
  /\ socket \in {"CLOSED", "CONNECTING", "OPEN", "CLOSING"}
  /\ pending_requests \subseteq Route
  /\ listeners \subseteq {"User.Auth", "User.GetProfile", "Room.Resume", "Room.List"}
  /\ scene \in {"login", "logging_in", "lobby", "room"}

FlagsOK ==
  /\ current_room \in BOOLEAN /\ resume_session \in BOOLEAN /\ player_name \in BOOLEAN
  /\ is_active \in BOOLEAN /\ retry_timer \in BOOLEAN /\ starting \in BOOLEAN
  /\ mobile \in BOOLEAN /\ background \in BOOLEAN /\ kicked \in BOOLEAN

TypeOK == AttemptsOK /\ StatesOK /\ FlagsOK

\* The program as it starts, on a device that may hold the file of an earlier run.
Init ==
  /\ connection_state = "DISCONNECTED" /\ recovery_state = "NORMAL"
  /\ current_room = FALSE /\ player_name = FALSE
  /\ socket = "CLOSED" /\ pending_requests = {}
  /\ is_active = FALSE /\ current_attempt = 0 /\ retry_timer = FALSE
  /\ starting = FALSE /\ listeners = {}
  /\ scene = "login"
  /\ background = FALSE /\ kicked = FALSE
  /\ resume_session \in BOOLEAN /\ mobile \in BOOLEAN

IsConnected == connection_state \in {"CONNECTED", "RESUMING"}   \* is_connected_to_host

-----------------------------------------------------------------------------
(* NetworkManager's helpers *)

\* Slip: the file of the room that is given up is kept.
reset_state_KeepsFile ==
  /\ connection_state' = "DISCONNECTED" /\ recovery_state' = "NORMAL"
  /\ current_room' = FALSE /\ UNCHANGED resume_session
  /\ pending_requests' = {}

\* The player's name stays.
reset_state ==
  /\ connection_state' = "DISCONNECTED" /\ recovery_state' = "NORMAL"
  /\ current_room' = FALSE /\ resume_session' = FALSE
  /\ pending_requests' = {}

\* A new socket; requests of the old one will not be answered.
connect_to_server(state) ==
  /\ connection_state' = IF state = "RECONNECTING" THEN "RECONNECTING" ELSE "CONNECTING"
  /\ socket' = "CONNECTING"
  /\ pending_requests' = {}

\* A packet is put on an open socket only.
request(routes) ==
  pending_requests' = IF socket = "OPEN" THEN pending_requests \cup routes ELSE pending_requests

stop_reconnecting == is_active' = FALSE /\ current_attempt' = 0 /\ retry_timer' = FALSE

\* _on_reconnect_failed: FAILED is overwritten by the reset that follows.
reconnect_failed == stop_reconnecting /\ reset_state

-----------------------------------------------------------------------------
(* ReconnectController *)

\* Slip: the loop gives up without a word.
schedule_next_Silent ==
  IF current_attempt >= MaxAttempts
  THEN /\ is_active' = FALSE
       /\ UNCHANGED <<current_attempt, retry_timer, connection_state, recovery_state, roomVars,
                      pending_requests>>
  ELSE /\ current_attempt' = current_attempt + 1 /\ retry_timer' = TRUE
       /\ recovery_state' = "RECONNECTING"
       /\ UNCHANGED <<is_active, connection_state, roomVars, pending_requests>>

\* Slip: one attempt too many.
schedule_next_OneMore ==
  IF current_attempt > MaxAttempts THEN reconnect_failed
  ELSE /\ current_attempt' = current_attempt + 1 /\ retry_timer' = TRUE
       /\ recovery_state' = "RECONNECTING"
       /\ UNCHANGED <<is_active, connection_state, roomVars, pending_requests>>

\* _schedule_next_attempt of an active controller, and what its signals call.
schedule_next ==
  IF current_attempt >= MaxAttempts THEN reconnect_failed
  ELSE /\ current_attempt' = current_attempt + 1 /\ retry_timer' = TRUE
       /\ recovery_state' = "RECONNECTING"
       /\ UNCHANGED <<is_active, connection_state, roomVars, pending_requests>>

\* start_reconnecting, with the recovery state it is called in.
start_reconnecting(recovery) ==
  IF is_active THEN recovery_state' = recovery /\ UNCHANGED retryVars
  ELSE /\ is_active' = TRUE /\ current_attempt' = 1 /\ retry_timer' = TRUE
       /\ recovery_state' = "RECONNECTING"

RetryTimer ==
  /\ retry_timer
  /\ retry_timer' = FALSE
  /\ connect_to_server(connection_state)
  /\ UNCHANGED <<recovery_state, roomVars, player_name, is_active, current_attempt, starting,
                 listeners, scene, deviceVars, kicked>>

-----------------------------------------------------------------------------
(* The network *)

SocketOpens ==
  /\ socket = "CONNECTING" /\ socket' = "OPEN"
  /\ UNCHANGED <<connection_state, recovery_state, roomVars, player_name, pending_requests,
                 retryVars, starting, listeners, scene, deviceVars, kicked>>

\* An attempt fails, the connection is lost, or a close completes.
SocketCloses ==
  /\ socket # "CLOSED" /\ socket' = "CLOSED"
  /\ UNCHANGED <<connection_state, recovery_state, roomVars, player_name, pending_requests,
                 retryVars, starting, listeners, scene, deviceVars, kicked>>

-----------------------------------------------------------------------------
(* _process *)

FrameOpens ==
  /\ socket = "OPEN"
  /\ \/ /\ connection_state = "CONNECTING" /\ connection_state' = "CONNECTED"
        /\ UNCHANGED retryVars
     \/ /\ connection_state = "RECONNECTING" /\ connection_state' = "RESUMING"
        /\ stop_reconnecting
  /\ request({"Handshake"})
  /\ UNCHANGED <<recovery_state, roomVars, player_name, socket, starting, listeners, scene,
                 deviceVars, kicked>>

\* Nothing was received for 30 s.
FrameSilence ==
  /\ socket = "OPEN" /\ socket' = "CLOSING"
  /\ UNCHANGED <<connection_state, recovery_state, roomVars, player_name, pending_requests,
                 retryVars, starting, listeners, scene, deviceVars, kicked>>

FrameClosed ==
  /\ socket = "CLOSED"
  /\ \/ /\ IsConnected /\ current_room
        /\ connection_state' = "RECONNECTING"
        /\ start_reconnecting("LOST")
        /\ UNCHANGED <<roomVars, pending_requests>>
     \/ IsConnected /\ ~current_room /\ reset_state /\ UNCHANGED retryVars
     \/ connection_state = "RECONNECTING" /\ is_active /\ schedule_next
     \/ /\ connection_state = "CONNECTING" /\ connection_state' = "DISCONNECTED"
        /\ UNCHANGED <<recovery_state, roomVars, pending_requests, retryVars>>
  /\ UNCHANGED <<player_name, socket, starting, listeners, scene, deviceVars, kicked>>

-----------------------------------------------------------------------------
(* The player and the device *)

\* The program is closed, or crashes, and starts again: only the file survives.
Restart ==
  /\ connection_state' = "DISCONNECTED" /\ recovery_state' = "NORMAL"
  /\ current_room' = FALSE /\ player_name' = FALSE
  /\ socket' = "CLOSED" /\ pending_requests' = {}
  /\ stop_reconnecting
  /\ starting' = FALSE /\ listeners' = {}
  /\ scene' = "login"
  /\ background' = FALSE /\ kicked' = FALSE
  /\ UNCHANGED <<resume_session, mobile>>

\* On a mobile device or in a browser the connection is closed for as long as the
\* application is in the background.
FocusOut ==
  /\ ~background /\ background' = TRUE
  /\ IF mobile /\ IsConnected
     THEN /\ connection_state' = "RECONNECTING"
          /\ socket' = IF socket = "CLOSED" THEN "CLOSED" ELSE "CLOSING"
          /\ stop_reconnecting
     ELSE UNCHANGED <<connection_state, socket, retryVars>>
  /\ UNCHANGED <<recovery_state, roomVars, player_name, pending_requests, starting, listeners,
                 scene, mobile, kicked>>

Reactivates ==
  IF mobile THEN connection_state = "RECONNECTING"
  ELSE resume_session /\ (socket = "CLOSED" \/ connection_state = "DISCONNECTED")

FocusIn ==
  /\ background /\ background' = FALSE
  /\ IF Reactivates
     THEN connection_state' = "RECONNECTING" /\ start_reconnecting(recovery_state)
     ELSE UNCHANGED <<connection_state, recovery_state, retryVars>>
  /\ UNCHANGED <<roomVars, player_name, socket, pending_requests, starting, listeners, scene,
                 mobile, kicked>>

\* The login button, or the guest button, which gives no name.
Login(named) ==
  /\ scene = "login" /\ ~background
  /\ player_name' = (player_name \/ named)
  /\ kicked' = FALSE
  /\ \/ /\ IsConnected
        /\ request({IF named THEN "User.Auth" ELSE "User.GuestLogin"})
        /\ UNCHANGED <<connection_state, socket, scene>>
     \/ /\ ~IsConnected
        /\ connect_to_server(connection_state)
        /\ scene' = "logging_in"
  /\ UNCHANGED <<recovery_state, roomVars, retryVars, starting, listeners, deviceVars>>

\* disconnect_from_server: the logout button, or a login that has waited for 10 s.
Disconnect ==
  /\ scene \in {"logging_in", "lobby"}
  /\ scene' = "login"
  /\ socket' = IF socket = "CLOSED" THEN "CLOSED" ELSE "CLOSING"
  /\ reset_state
  /\ UNCHANGED <<player_name, retryVars, starting, listeners, deviceVars, kicked>>

\* What the lobby asks for when it is entered, and on every connection made while it is open.
LobbyRequests == {"User.GetProfile", "Room.List"}

\* Room.Join, or Room.Create, which gives up a room that is left over.
EnterRoom ==
  /\ scene = "lobby" /\ ~background
  /\ request({"Room.Join"})
  /\ current_room' \in {current_room, FALSE}
  /\ UNCHANGED <<connection_state, recovery_state, resume_session, player_name, socket, retryVars,
                 starting, listeners, scene, deviceVars, kicked>>

\* leave_room: the file stays.
LeaveRoom ==
  /\ scene = "room" /\ ~background
  /\ scene' = "lobby" /\ current_room' = FALSE
  /\ request(LobbyRequests)
  /\ UNCHANGED <<connection_state, recovery_state, resume_session, player_name, socket, retryVars,
                 starting, listeners, deviceVars, kicked>>

\* Slip: the button takes the attempt over from the controller.
ManualReconnect_TakesOver ==
  /\ connection_state = "RECONNECTING" /\ scene \in {"lobby", "room"} /\ ~background
  /\ connect_to_server("RECONNECTING")
  /\ stop_reconnecting
  /\ UNCHANGED <<recovery_state, roomVars, player_name, starting, listeners, scene, deviceVars,
                 kicked>>

\* The overlay's button.  The state RESUMING that it sets is overwritten by the connection it
\* asks for, and the controller goes on.
ManualReconnect ==
  /\ connection_state = "RECONNECTING" /\ scene \in {"lobby", "room"} /\ ~background
  /\ connect_to_server("RESUMING")
  /\ UNCHANGED <<recovery_state, roomVars, player_name, retryVars, starting, listeners, scene,
                 deviceVars, kicked>>

-----------------------------------------------------------------------------
(* SessionRecovery.  Each step connects a handler to message_received and  *)
(* sends a request; the handler runs the next step and leaves.  A handler  *)
(* whose answer does not come stays connected.                             *)

\* _execute_re_auth connects its handler and then fails, because NetworkManager has no
\* player_password: the request is not sent.
StartRecovery ==
  /\ starting /\ starting' = FALSE
  /\ \/ /\ player_name
        /\ recovery_state' = "REAUTHENTICATING"
        /\ listeners' = listeners \cup {"User.Auth"}
        /\ UNCHANGED <<connection_state, roomVars, pending_requests, retryVars>>
     \/ ~player_name /\ reconnect_failed /\ UNCHANGED listeners
  /\ UNCHANGED <<player_name, socket, scene, deviceVars, kicked>>

\* _execute_resync_quest: the room is resumed, or the lobby refreshed.
LastStep == IF resume_session /\ current_room THEN "Room.Resume" ELSE "Room.List"

\* _execute_resync_inventory assigns GlobalPlayerData an array of another type, and a member it
\* does not have: a release build passes over both, a debug build ends the function there.
AfterProfile == {{LastStep}, {}}

-----------------------------------------------------------------------------
(* Packets from the server *)

Receive(route) ==
  socket = "OPEN" /\ route \in pending_requests

\* The lobby refreshes itself; a login that was waiting goes on.
OnConnected ==
  CASE scene = "lobby"      -> {LobbyRequests}
    [] scene = "logging_in" -> {{"User.Auth"}, {"User.GuestLogin"}}
    [] OTHER                -> {{}}

Handshake ==
  /\ Receive("Handshake")
  /\ \E routes \in OnConnected : pending_requests' = (pending_requests \ {"Handshake"}) \cup routes
  /\ scene' = IF scene = "logging_in" THEN "login" ELSE scene
  /\ starting' = (starting \/ connection_state = "RESUMING")
  /\ UNCHANGED <<connection_state, recovery_state, roomVars, player_name, socket, retryVars,
                 listeners, deviceVars, kicked>>

\* An accepted login.  A handler of SessionRecovery that waits for it fetches the profile; one
\* that waits for the profile finds it in the reply.
LoginOK(route) ==
  /\ route \in {"User.Auth", "User.GuestLogin"} /\ Receive(route)
  /\ player_name' = TRUE
  /\ scene' = IF scene = "login" THEN "lobby" ELSE scene
  /\ LET fired == IF route = "User.Auth" THEN listeners \cap {"User.Auth", "User.GetProfile"}
                  ELSE {}
         fetch == IF "User.Auth" \in fired THEN {"User.GetProfile"} ELSE {}
         enter == IF scene = "login" THEN LobbyRequests ELSE {}
     IN  /\ \E last \in IF "User.GetProfile" \in fired THEN AfterProfile ELSE {{}} :
              /\ listeners' = (listeners \ fired) \cup fetch \cup last
              /\ pending_requests' = (pending_requests \ {route}) \cup fetch \cup last \cup enter
         /\ recovery_state' = IF "User.Auth" \in fired THEN "RESYNCING" ELSE recovery_state
  /\ UNCHANGED <<connection_state, roomVars, socket, retryVars, starting, deviceVars, kicked>>

\* A refused login leaves an empty name; a recovery that waits for it has failed.
LoginFails(route) ==
  /\ route \in {"User.Auth", "User.GuestLogin"} /\ Receive(route)
  /\ player_name' = FALSE
  /\ IF route = "User.Auth" /\ "User.Auth" \in listeners
     THEN reconnect_failed /\ listeners' = listeners \ {"User.Auth"}
     ELSE /\ pending_requests' = pending_requests \ {route}
          /\ UNCHANGED <<connection_state, recovery_state, roomVars, retryVars, listeners>>
  /\ UNCHANGED <<socket, starting, scene, deviceVars, kicked>>

GetProfile ==
  /\ Receive("User.GetProfile")
  /\ \E last \in IF "User.GetProfile" \in listeners THEN AfterProfile ELSE {{}} :
       /\ listeners' = (listeners \ {"User.GetProfile"}) \cup last
       /\ pending_requests' = (pending_requests \ {"User.GetProfile"}) \cup last
  /\ UNCHANGED <<connection_state, recovery_state, roomVars, player_name, socket, retryVars,
                 starting, scene, deviceVars, kicked>>

\* The rooms come as an array, and SessionRecovery's handler takes a dictionary: it is never run, and
\* recovery_state stays as it is.
RoomList ==
  /\ Receive("Room.List")
  /\ pending_requests' = pending_requests \ {"Room.List"}
  /\ UNCHANGED <<connection_state, recovery_state, roomVars, player_name, socket, retryVars, starting,
                 listeners, scene, deviceVars, kicked>>

\* Room.Join or Room.Create: the reply carries a resume token, which is saved.
RoomJoined ==
  /\ Receive("Room.Join")
  /\ pending_requests' = pending_requests \ {"Room.Join"}
  /\ current_room' = TRUE /\ resume_session' = TRUE
  /\ scene' = IF scene = "lobby" THEN "room" ELSE scene
  /\ UNCHANGED <<connection_state, recovery_state, player_name, socket, retryVars, starting,
                 listeners, deviceVars, kicked>>

RoomJoinFails ==
  /\ Receive("Room.Join")
  /\ pending_requests' = pending_requests \ {"Room.Join"}
  /\ UNCHANGED <<connection_state, recovery_state, roomVars, player_name, socket, retryVars,
                 starting, listeners, scene, deviceVars, kicked>>

\* The room is back, and a handler of SessionRecovery that waits for it is done.
Resumed ==
  /\ Receive("Room.Resume")
  /\ pending_requests' = pending_requests \ {"Room.Resume"}
  /\ connection_state' = "CONNECTED" /\ current_room' = TRUE
  /\ listeners' = listeners \ {"Room.Resume"}
  /\ recovery_state' = IF "Room.Resume" \in listeners THEN "NORMAL" ELSE recovery_state
  /\ scene' = IF scene = "lobby" THEN "room" ELSE scene
  /\ UNCHANGED <<resume_session, player_name, socket, retryVars, starting, deviceVars, kicked>>

\* A refusal is not passed on to message_received: the lobby fallback of the handler never runs.
ResumeFails ==
  /\ Receive("Room.Resume")
  /\ reconnect_failed
  /\ UNCHANGED <<player_name, socket, starting, listeners, scene, deviceVars, kicked>>

\* The session is logged in elsewhere: onKicked, or a KICK packet.
Kicked ==
  /\ socket = "OPEN" /\ scene \in {"lobby", "room"}
  /\ stop_reconnecting
  /\ socket' = "CLOSING"
  /\ reset_state
  /\ scene' = "login" /\ kicked' = TRUE
  /\ UNCHANGED <<player_name, starting, listeners, deviceVars>>

-----------------------------------------------------------------------------
Frame == FrameOpens \/ FrameClosed

Packet ==
  \/ Handshake \/ GetProfile \/ RoomList \/ RoomJoined \/ RoomJoinFails
  \/ Resumed \/ ResumeFails \/ Kicked
  \/ \E route \in Route : LoginOK(route) \/ LoginFails(route)

Player ==
  \/ \E named \in BOOLEAN : Login(named)
  \/ Disconnect \/ EnterRoom \/ LeaveRoom \/ ManualReconnect
  \/ FocusOut \/ FocusIn \/ Restart

Next ==
  \/ Frame \/ FrameSilence \/ RetryTimer \/ StartRecovery
  \/ SocketOpens \/ SocketCloses
  \/ Packet \/ Player

Spec == Init /\ [][Next]_vars

\* The engine draws frames, and an attempt to connect or to close ends; neither the server nor
\* the player has to do anything.
FairSpec ==
  Spec /\ WF_vars(Frame) /\ WF_vars(socket \in {"CONNECTING", "CLOSING"} /\ SocketCloses)

-----------------------------------------------------------------------------
(* Properties *)

\* In the background a mobile client waits for the player to come back.
Paused == mobile /\ background

\* A client that is reconnecting, and not paused, has its retry loop running: no order of
\* losses, focus changes, manual reconnections and kicks leaves it waiting for nothing.
ReconnectingIsDriven ==
  connection_state = "RECONNECTING" /\ ~Paused => is_active

\* A kicked client does not come back by itself and fight the session that replaced it: no
\* timer, frame or focus change connects it until the player logs in.
KickIsFinal ==
  kicked => connection_state = "DISCONNECTED" /\ ~is_active /\ ~retry_timer

\* Reconnecting ends: in a connection, or given up, or paused.
ReconnectingEnds ==
  connection_state = "RECONNECTING" ~> connection_state # "RECONNECTING" \/ Paused

\* README.md:196: attempts back off, so the next one is not scheduled while the timer of the
\* last one runs.
BacksOff ==
  [][current_attempt' > current_attempt => ~retry_timer]_vars
=============================================================================
