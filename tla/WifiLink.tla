------------------------------ MODULE WifiLink ------------------------------
(***************************************************************************)
(* The speaker as a Wi-Fi station, ESP32/main/tcp_perf.c:62-94 and         *)
(* 229-250.  The driver posts an event at each change of the link; the     *)
(* event task hands them to event_handler one by one, in order, possibly   *)
(* long after the link has changed again.  The driver never tries to join  *)
(* by itself: only event_handler makes it try again.                       *)
(***************************************************************************)
EXTENDS Naturals, Sequences

VARIABLES
  link,         \* the driver: "off", "idle", "trying" or "ip" (with an address)
  events,       \* the system event queue
  connected     \* WIFI_CONNECTED_BIT of tcp_event_group

wifi == <<link, events, connected>>

\* The driver moves the link and posts an event.  Joining and being given an
\* address are one step: event_handler does nothing upon the first.
Move(from, to, e) ==
  /\ link = from
  /\ link' = to
  /\ events' = Append(events, e)
  /\ UNCHANGED connected

WifiInit == link = "off" /\ events = <<>> /\ connected = FALSE

wifi_init_sta == Move("off", "idle", "STA_START")

GetAddress == Move("trying", "ip", "STA_GOT_IP")

Lose == \E from \in {"trying", "ip"} : Move(from, "idle", "STA_DISCONNECTED")

\* Mutant: only the first attempt to join is made.
RetriesOnce == {"STA_START"}

\* The events upon which event_handler calls esp_wifi_connect.
Retries == {"STA_START", "STA_DISCONNECTED"}

\* Mutant: xEventGroupSetBits and xEventGroupClearBits are swapped.
BitSwapped(e) ==
  CASE e = "STA_GOT_IP" -> FALSE
    [] e = "STA_DISCONNECTED" -> TRUE
    [] OTHER -> connected

\* What an event makes of the bit.
BitAfter(e) ==
  CASE e = "STA_GOT_IP" -> TRUE
    [] e = "STA_DISCONNECTED" -> FALSE
    [] OTHER -> connected

event_handler ==
  /\ events # <<>>
  /\ events' = Tail(events)
  /\ link' = IF Head(events) \in Retries THEN "trying" ELSE link
  /\ connected' = BitAfter(Head(events))

WifiTypeOK ==
  /\ link \in {"off", "idle", "trying", "ip"}
  /\ events \in Seq({"STA_START", "STA_GOT_IP", "STA_DISCONNECTED"})
  /\ connected \in BOOLEAN

\* Once the event task has caught up, a station that is up has its bit set,
\* whatever happened while its events were queued (tcp_perf.c:48, 66-78).
SignalledWhenUp == events = <<>> /\ link = "ip" => connected
=============================================================================
