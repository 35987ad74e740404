------------------------------ MODULE Speaker -------------------------------
(***************************************************************************)
(* The tasks of the speaker together: app_main (ESP32/main/master.c)       *)
(* starts the Wi-Fi station and the TCP server, and the tasks of           *)
(* TcpServer, the TCP/IP task and the event task of WifiLink share two     *)
(* cores.  FreeRTOS runs the ready tasks of the highest priorities:        *)
(* prcess_character has 23, listen_tcp_server, audio_thread and the event  *)
(* task have 20, the TCP/IP task has 18.  A loop of the program that waits *)
(* by spinning never leaves its core to a task of lower priority, so a     *)
(* task is only sure to run while the tasks that spin above it leave it a  *)
(* core.  Steps may interleave in any order; only fairness depends on it.  *)
(***************************************************************************)
EXTENDS WifiLink, TcpServer

CONSTANT CORES

ASSUME CoresAssumption == CORES \in Nat \ {0}

speakerVars == <<wifi, tcp>>

SpeakerInit == WifiInit /\ TcpInit

\* app_main: the station first, then the server.
app_main ==
  \/ wifi_init_sta /\ UNCHANGED tcp
  \/ link # "off" /\ StartServer /\ UNCHANGED wifi

\* What peers send reaches the speaker only while it has an address; a peer
\* that gives up meanwhile does so unnoticed, and recv waits on.
Network ==
  /\ link = "ip" /\ UNCHANGED wifi
  /\ Knock \/ Hangup \/ \E t \in Threads : Receive(t)

TcpIpTask == link = "ip" /\ Answer /\ UNCHANGED wifi
EventTask == event_handler /\ UNCHANGED tcp
Radio == (GetAddress \/ Lose) /\ UNCHANGED tcp
Listener == listen_tcp_server /\ UNCHANGED wifi
Thread(t) == audio_thread(t) /\ UNCHANGED wifi
Player == prcess_character /\ UNCHANGED wifi

SpeakerNext ==
  \/ app_main \/ Network \/ TcpIpTask \/ EventTask \/ Radio \/ Listener \/ Player
  \/ \E t \in Threads : Thread(t)

-----------------------------------------------------------------------------
\* Players that wait for a block.
SpinningPlayers == IF ring = 0 THEN players ELSE 0

\* The audio_threads that wait for room in a ring that has no player.
SpinningThreads == IF players = 0 THEN {t \in Threads : at[t] = "full"} ELSE {}

\* All tasks that spin; the listener does in error_handle.
Spinning ==
  SpinningPlayers + Cardinality(SpinningThreads) + (IF server = "error" THEN 1 ELSE 0)

\* A task that does not spin blocks before long, and tasks of one priority
\* take turns: the listener and the audio_threads run unless players take all
\* cores.  Where they call lwIP, though, they send a request to the TCP/IP task
\* and wait for its answer (lwIP is built without core locking), so that task
\* has to get a core: in socket, bind, listen and accept (all but "create"), in
\* the recv that takes the peer's close, and in the close after one that fails.
ListenerRuns == (IF server = "create" THEN SpinningPlayers ELSE Spinning) < CORES

ThreadRuns(t) == (IF at[t] = "recv" THEN Spinning ELSE SpinningPlayers) < CORES

\* The event task is pinned to one core, which a spinning player may have
\* taken, and its handlers wait for the TCP/IP task.
Fairness ==
  /\ WF_speakerVars(Listener /\ ListenerRuns)
  /\ \A t \in Threads : WF_speakerVars(Thread(t) /\ ThreadRuns(t))
  /\ WF_speakerVars(TcpIpTask /\ Spinning < CORES)
  /\ WF_speakerVars(EventTask /\ SpinningPlayers = 0 /\ Spinning < CORES)

SpeakerSpec == SpeakerInit /\ [][SpeakerNext]_speakerVars /\ Fairness

-----------------------------------------------------------------------------
(***************************************************************************)
(* Properties                                                              *)
(***************************************************************************)

\* The variables of the tasks keep their types.
SpeakerTypeOK == WifiTypeOK /\ TcpTypeOK

\* A client that connects is accepted or refused while the link is up, unless
\* as many tasks spin as there are cores (tcp_perf.c:131-137, 164,
\* master.c:60): a player on an empty ring beside a second player, or beside
\* the listener in error_handle after one failed accept, and the speaker is
\* deaf from then on.
ClientIsAnswered ==
  visitor = "knocking" ~> visitor = "none" \/ link # "ip" \/ Spinning >= CORES

\* A connection that breaks gives its descriptor back, also one that the peer
\* had closed before, unless it has gone astray (ServedByOne), its task waits
\* for room in the ring, where another writer may always be quicker, or as many
\* tasks spin as there are cores: close waits for the TCP/IP task
\* (tcp_perf.c:153-156, 158, 164, 169).
BrokenIsReleased ==
  \A fd \in Fds :
    sock[fd] = "reset" ~> \/ sock[fd] # "reset" \/ astray
                          \/ \E t \in Threads : mine[t] = fd /\ at[t] = "full"
                          \/ Spinning >= CORES

\* Whenever the link is lost the station tries to join again, whatever other
\* events are queued before it (tcp_perf.c:64-71), unless a player spins or
\* the cores are taken.
TriesAgain ==
  link = "idle" ~> link = "trying" \/ SpinningPlayers > 0 \/ Spinning >= CORES
=============================================================================
