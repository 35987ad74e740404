---------------------------- MODULE SpeakerProofs ---------------------------
(***************************************************************************)
(* Proofs about the Wi-Fi station and the TCP server of Speaker, for every *)
(* number of descriptors, tasks, players and blocks.  They use no fairness:*)
(* they hold whichever tasks get a core.                                   *)
(*                                                                         *)
(* The link and the queue of its events are in one of a few shapes (Link-  *)
(* Shape), since the driver posts nothing while it waits for event_handler *)
(* to make it join.  A descriptor changes hands from accept to a new task  *)
(* through `client': this is safe as long as only one new task at a time   *)
(* has not read it yet, and none while the next is about to be created     *)
(* (OneHandOver).                                                          *)
(***************************************************************************)
EXTENDS Speaker, FiniteSetTheorems, SequenceTheorems, TLAPS

\* The queue never holds more than two events, and is empty while the driver
\* tries to join.
LinkShape ==
  \/ link \in {"off", "trying"} /\ events = <<>>
  \/ link = "ip" /\ events = <<>> /\ connected
  \/ link = "ip" /\ events = <<"STA_GOT_IP">>
  \/ /\ link = "idle"
     /\ events \in {<<"STA_START">>, <<"STA_DISCONNECTED">>, <<"STA_GOT_IP", "STA_DISCONNECTED">>}

WifiInv == WifiTypeOK /\ LinkShape

\* Only one task at a time has yet to read `client', and none while the
\* listener is about to create the next.
OneHandOver ==
  /\ \A t, u \in Threads : at[t] = "start" /\ at[u] = "start" => t = u
  /\ server = "create" => client # NoFd /\ \A t \in Threads : at[t] # "start"

\* A task that does not serve a connection has no descriptor.
NewHasNone == \A t \in Threads : at[t] \in {"none", "start"} => mine[t] = NoFd

\* ServedByOne without cardinalities.
Exact ==
  \A fd \in Fds : IF sock[fd] = "free" THEN Holders(fd) = {} ELSE \E h : Holders(fd) = {h}

TcpInv == TcpTypeOK /\ NewHasNone /\ (~astray => OneHandOver /\ Exact)

-----------------------------------------------------------------------------
\* The least element of a set of natural numbers belongs to it: the lowest
\* free descriptor is free.
LEMMA MinIsMember ==
  ASSUME NEW S \in SUBSET Nat, S # {}
  PROVE  Min(S) \in S
<1>1. PICK x \in S : \A y \in S : <<y, x>> \notin OpToRel(<, Nat)
  BY NatLessThanWellFounded, WFMin
<1>2. \A y \in S : x <= y
  <2> SUFFICES ASSUME NEW y \in S, y < x PROVE FALSE
    OBVIOUS
  <2>1. <<y, x>> \in OpToRel(<, Nat)
    BY DEF OpToRel
  <2>2. QED
    BY <1>1, <2>1
<1>3. QED
  BY <1>2 DEF Min

-----------------------------------------------------------------------------
(***************************************************************************)
(* The Wi-Fi station.                                                      *)
(***************************************************************************)

\* Every change of the link, and every event that is handled, leads from one
\* of the shapes to another (tcp_perf.c:62-94).
LEMMA WifiStep ==
  ASSUME WifiInv, wifi_init_sta \/ GetAddress \/ Lose \/ event_handler
  PROVE  WifiInv'
<1> DEFINE S == "STA_START"
           G == "STA_GOT_IP"
           D == "STA_DISCONNECTED"
<1>1. CASE wifi_init_sta
  <2>1. events = <<>> /\ link' = "idle" /\ events' = Append(events, S) /\ connected' = connected
    BY <1>1 DEF WifiInv, LinkShape, wifi_init_sta, Move
  <2>2. events' = <<S>>
    BY <2>1
  <2>3. QED
    BY <2>1, <2>2 DEF WifiInv, WifiTypeOK, LinkShape
<1>2. CASE GetAddress
  <2>1. events = <<>> /\ link' = "ip" /\ events' = Append(events, G) /\ connected' = connected
    BY <1>2 DEF WifiInv, LinkShape, GetAddress, Move
  <2>2. events' = <<G>>
    BY <2>1
  <2>3. QED
    BY <2>1, <2>2 DEF WifiInv, WifiTypeOK, LinkShape
<1>3. CASE Lose
  <2>1. /\ events = <<>> \/ events = <<G>>
        /\ link' = "idle" /\ events' = Append(events, D) /\ connected' = connected
    BY <1>3 DEF WifiInv, LinkShape, Lose, Move
  <2>2. events' = <<D>> \/ events' = <<G, D>>
    <3>1. CASE events = <<>>
      BY <2>1, <3>1
    <3>2. CASE events = <<G>>
      <4> DEFINE two == Append(<<G>>, D)
      <4>1. <<G>> \in Seq({G, D}) /\ Len(<<G>>) = 1 /\ <<G>>[1] = G
        OBVIOUS
      <4>2. two \in Seq({G, D}) /\ Len(two) = 2 /\ two[1] = G /\ two[2] = D
        BY <4>1, AppendProperties
      <4>3. <<G, D>> \in Seq({G, D}) /\ Len(<<G, D>>) = 2 /\ <<G, D>>[1] = G /\ <<G, D>>[2] = D
        OBVIOUS
      <4> HIDE DEF two
      <4>4. \A i \in 1 .. 2 : two[i] = <<G, D>>[i]
        BY <4>2, <4>3
      <4>5. two = <<G, D>>
        BY <4>2, <4>3, <4>4, SeqEqual
      <4>6. QED
        BY <2>1, <3>2, <4>5 DEF two
    <3>3. QED
      BY <2>1, <3>1, <3>2
  <2>3. QED
    BY <2>1, <2>2 DEF WifiInv, WifiTypeOK, LinkShape
<1>4. CASE event_handler
  <2>1. /\ events # <<>> /\ events' = Tail(events)
        /\ link' = IF Head(events) \in {S, D} THEN "trying" ELSE link
        /\ connected' = BitAfter(Head(events))
    BY <1>4 DEF event_handler, Retries
  <2>2. CASE link = "ip" /\ events = <<G>>
    <3>1. Head(events) = G /\ events' = <<>> /\ link' = "ip"
      BY <2>1, <2>2
    <3>2. connected' = TRUE
      BY <2>1, <3>1 DEF BitAfter
    <3>3. QED
      BY <3>1, <3>2 DEF WifiInv, WifiTypeOK, LinkShape
  <2>3. CASE link = "idle" /\ (events = <<S>> \/ events = <<D>>)
    <3>1. Head(events) \in {S, D} /\ events' = <<>> /\ link' = "trying"
      BY <2>1, <2>3
    <3>2. connected' \in BOOLEAN
      BY <2>1, <3>1 DEF BitAfter, WifiInv, WifiTypeOK
    <3>3. QED
      BY <3>1, <3>2 DEF WifiInv, WifiTypeOK, LinkShape
  <2>4. CASE link = "idle" /\ events = <<G, D>>
    <3>1. Head(events) = G /\ events' = <<D>> /\ link' = "idle"
      BY <2>1, <2>4
    <3>2. connected' = TRUE
      BY <2>1, <3>1 DEF BitAfter
    <3>3. QED
      BY <3>1, <3>2 DEF WifiInv, WifiTypeOK, LinkShape
  <2>5. QED
    BY <2>1, <2>2, <2>3, <2>4 DEF WifiInv, LinkShape
<1>5. QED
  BY <1>1, <1>2, <1>3, <1>4

-----------------------------------------------------------------------------
(***************************************************************************)
(* The TCP server: the types.                                              *)
(***************************************************************************)

\* A step that changes none of the variables of the descriptors keeps who
\* holds them.
LEMMA SameHolders ==
  ASSUME TcpInv, TcpTypeOK', UNCHANGED <<client, at, mine, astray>>,
         server' = server \/ (server # "create" /\ server' # "create"),
         \A fd \in Fds : sock'[fd] = "free" <=> sock[fd] = "free"
  PROVE  TcpInv'
<1>1. NewHasNone'
  BY DEF TcpInv, NewHasNone
<1>2. ASSUME ~astray PROVE OneHandOver' /\ Exact'
  <2>1. OneHandOver'
    BY <1>2 DEF TcpInv, OneHandOver
  <2>2. \A fd \in Fds : Holders(fd)' = Holders(fd)
    BY DEF Holders
  <2>3. QED
    BY <1>2, <2>1, <2>2 DEF TcpInv, Exact
<1>3. QED
  BY <1>1, <1>2 DEF TcpInv

\* A task that goes from one point of its loop to another keeps its descriptor.
LEMMA SameTask ==
  ASSUME TcpInv, TcpTypeOK', UNCHANGED <<client, mine, astray, server, sock>>,
         NEW t \in Threads, at[t] \in {"recv", "full"},
         NEW to \in {"recv", "full"}, at' = [at EXCEPT ![t] = to]
  PROVE  TcpInv'
<1>1. \A u \in Threads : /\ at'[u] = "start" <=> at[u] = "start"
                         /\ at'[u] = "none" <=> at[u] = "none"
  BY DEF TcpInv, TcpTypeOK
<1>2. NewHasNone'
  BY <1>1 DEF TcpInv, NewHasNone
<1>3. ASSUME ~astray PROVE OneHandOver' /\ Exact'
  <2>1. OneHandOver'
    BY <1>1, <1>3 DEF TcpInv, OneHandOver
  <2>2. \A fd \in Fds : Holders(fd)' = Holders(fd)
    BY <1>1 DEF Holders
  <2>3. QED
    BY <1>3, <2>1, <2>2 DEF TcpInv, Exact
<1>4. QED
  BY <1>2, <1>3 DEF TcpInv

\* The types of the variables that only the tasks of the connections change.
LEMMA ThreadTypes ==
  ASSUME TcpTypeOK, NEW t \in Threads,
         audio_thread(t) \/ Receive(t)
  PROVE  TcpTypeOK'
<1> USE ServerAssumption DEF TcpTypeOK, Fds, NoFd
<1>0. astray' \in BOOLEAN
  BY Zenon DEF audio_thread, Write, ReadClient, ReceiveNothing, Exit, Receive, listener
<1>1. ASSUME NEW n, Test(t, n)
      PROVE  /\ render_status' \in [Threads -> {0, 1}] /\ players' \in 0 .. MaxPlayers
             /\ counter' \in {"exact", "drifted"}
  BY <1>1 DEF Test
<1>2. ASSUME NEW from, Write(t, from) PROVE TcpTypeOK'
  BY <1>0, <1>1, <1>2 DEF Write, Room, Goto, listener
<1>3. CASE ReadClient(t)
  BY <1>0, <1>3 DEF ReadClient, Goto, listener
<1>4. CASE Receive(t)
  <2>1. CASE ~Room /\ Goto(t, "recv", "full")
                   /\ UNCHANGED <<listener, sock, mine, render_status, stock, players>>
    BY <1>0, <2>1 DEF Goto, listener, stock
  <2>2. QED
    BY <1>2, <1>4, <2>1 DEF Receive
<1>5. CASE ReceiveNothing(t)
  <2>1. sock' \in [Fds -> {"free", "open", "eof", "ended", "reset"}]
    BY <1>5 DEF ReceiveNothing
  <2>2. QED
    BY <1>0, <1>1, <1>5, <2>1 DEF ReceiveNothing, listener
<1>6. CASE Exit(t)
  BY <1>0, <1>6 DEF Exit, Closed, Goto, listener, stock
<1>7. QED
  BY <1>2, <1>3, <1>4, <1>5, <1>6 DEF audio_thread

\* The types of the variables that the listener, the players and the peers
\* change.
LEMMA ServerTypes ==
  ASSUME TcpTypeOK,
         \/ StartServer \/ Listen \/ Accept \/ CreateThread
         \/ prcess_character \/ Knock \/ Answer \/ Hangup
  PROVE  TcpTypeOK'
<1> USE ServerAssumption DEF TcpTypeOK
<1>0. astray' \in BOOLEAN
  BY Zenon DEF StartServer, Listen, Accept, CreateThread, prcess_character, Knock, Answer,
               Hangup, listener
<1>1. CASE StartServer
  BY <1>0, <1>1 DEF StartServer, threads, stock
<1>2. CASE Listen
  BY <1>0, <1>2 DEF Listen, threads, stock
<1>3. CASE Accept
  <2> DEFINE free == {fd \in Fds : sock[fd] = "free"}
  <2>1. ASSUME free # {} PROVE Min(free) \in Fds
    <3>1. free \in SUBSET Nat
      BY DEF Fds
    <3>2. Min(free) \in free
      BY <2>1, <3>1, MinIsMember
    <3>3. QED
      BY <3>2
  <2>2. /\ client' \in Fds \cup {NoFd} /\ sock' \in [Fds -> {"free", "open", "eof", "ended", "reset"}]
        /\ server' \in {"create", "error"}
    <3>1. CASE /\ free # {} /\ server' = "create" /\ client' = Min(free)
               /\ sock' = [sock EXCEPT ![Min(free)] = "open"]
      BY <2>1, <3>1
    <3>2. CASE server' = "error" /\ client' = NoFd /\ UNCHANGED sock
      BY <3>2
    <3>3. QED
      BY <1>3, <3>1, <3>2 DEF Accept
  <2>3. QED
    BY <1>0, <1>3, <2>2 DEF Accept, threads, stock
<1>4. CASE CreateThread
  <2>1. \/ at' = [at EXCEPT ![Min({t \in Threads : at[t] = "none"})] = "start"]
        \/ at' = at
    BY <1>4 DEF CreateThread
  <2>2. at' \in [Threads -> {"none", "start", "recv", "full"}] /\ server' = "accept"
    BY <1>4, <2>1 DEF CreateThread, AfterCreate
  <2>3. QED
    BY <1>0, <1>4, <2>2 DEF CreateThread, stock
<1>5. CASE prcess_character
  BY <1>0, <1>5 DEF prcess_character, listener, threads, stock
<1>6. CASE Knock \/ Answer
  BY <1>0, <1>6 DEF Knock, Answer, threads, stock
<1>7. CASE Hangup
  BY <1>0, <1>7 DEF Hangup, listener, threads, stock
<1>8. QED
  BY <1>1, <1>2, <1>3, <1>4, <1>5, <1>6, <1>7

-----------------------------------------------------------------------------
(***************************************************************************)
(* The TCP server: who holds a descriptor.                                 *)
(***************************************************************************)

\* accept gives the listener a descriptor that nobody holds, or none
\* (tcp_perf.c:131).
LEMMA AcceptKeeps == ASSUME TcpInv, Accept PROVE TcpInv'
<1> DEFINE free == {fd \in Fds : sock[fd] = "free"}
<1>1. TcpTypeOK'
  BY ServerTypes DEF TcpInv
<1>2. server = "accept" /\ UNCHANGED <<at, mine>>
  BY DEF Accept, threads
<1>3. NewHasNone'
  BY <1>2 DEF TcpInv, NewHasNone
<1>4. ASSUME ~astray' PROVE OneHandOver' /\ Exact'
  <2>1. ~astray /\ \A t \in Threads : at[t] # "start"
    BY <1>4 DEF Accept
  <2>2. Exact /\ OneHandOver
    BY <2>1 DEF TcpInv
  <2>3. \A fd \in Fds : Holders(fd) = {t \in Threads : mine[t] = fd}
    BY <1>2, <2>1 DEF Holders
  <2>4. CASE /\ free # {} /\ server' = "create" /\ client' = Min(free)
             /\ sock' = [sock EXCEPT ![Min(free)] = "open"]
    <3> DEFINE new == Min(free)
    <3>1. new \in Fds /\ sock[new] = "free" /\ new # NoFd /\ NoFd = 0
      <4>1. new \in free
        BY <2>4, MinIsMember DEF Fds
      <4>2. QED
        BY <4>1 DEF Fds, NoFd
    <3> HIDE DEF new
    <3>2. client' = new /\ sock' = [sock EXCEPT ![new] = "open"]
      BY <2>4 DEF new
    <3>3. \A fd \in Fds : Holders(fd)' = {t \in Threads : mine[t] = fd}
                                          \cup (IF new = fd THEN {0} ELSE {})
      BY <1>2, <2>1, <2>4, <3>2 DEF Holders
    <3>4. ASSUME NEW fd \in Fds
          PROVE  IF sock'[fd] = "free" THEN Holders(fd)' = {} ELSE \E h : Holders(fd)' = {h}
      <4>1. CASE fd = new
        <5>1. Holders(fd)' = {0}
          BY <2>2, <2>3, <3>1, <3>3, <4>1 DEF Exact
        <5>2. sock'[fd] = "open"
          BY <3>1, <3>2, <4>1 DEF TcpInv, TcpTypeOK
        <5>3. QED
          BY <5>1, <5>2
      <4>2. CASE fd # new
        <5>1. Holders(fd)' = Holders(fd)
          BY <2>3, <3>3, <4>2
        <5>2. sock'[fd] = sock[fd]
          BY <3>1, <3>2, <4>2 DEF TcpInv, TcpTypeOK
        <5>3. QED
          BY <2>2, <5>1, <5>2 DEF Exact
      <4>3. QED
        BY <4>1, <4>2
    <3>5. OneHandOver'
      BY <1>2, <2>1, <3>1, <3>2 DEF OneHandOver, NoFd
    <3>6. QED
      BY <3>4, <3>5 DEF Exact
  <2>5. CASE server' = "error" /\ client' = NoFd /\ UNCHANGED sock
    <3>1. \A fd \in Fds : Holders(fd)' = Holders(fd)
      BY <1>2, <2>1, <2>3, <2>5 DEF Holders
    <3>2. QED
      BY <1>2, <2>1, <2>2, <2>5, <3>1 DEF OneHandOver, Exact
  <2>6. QED
    BY <2>4, <2>5 DEF Accept
<1>5. QED
  BY <1>1, <1>3, <1>4 DEF TcpInv

\* The new task takes the descriptor over from the listener (tcp_perf.c:139).
LEMMA CreateKeeps == ASSUME TcpInv, CreateThread PROVE TcpInv'
<1> DEFINE idle == {t \in Threads : at[t] = "none"}
<1>1. TcpTypeOK'
  BY ServerTypes DEF TcpInv
<1>2. /\ server = "create" /\ server' = "accept" /\ UNCHANGED <<client, sock, mine>>
      /\ \/ (\E t \in Threads : at[t] = "none") /\ at' = [at EXCEPT ![Min(idle)] = "start"]
                                                /\ astray' = astray
         \/ astray' = TRUE /\ at' = at
  BY DEF CreateThread, AfterCreate
<1>3. CASE astray' = TRUE /\ at' = at
  BY <1>1, <1>2, <1>3 DEF TcpInv, NewHasNone
<1>4. CASE (\E t \in Threads : at[t] = "none") /\ at' = [at EXCEPT ![Min(idle)] = "start"]
                                               /\ astray' = astray
  <2> DEFINE new == Min(idle)
  <2>1. new \in Threads /\ at[new] = "none" /\ mine[new] = NoFd
    <3>1. idle # {} /\ idle \in SUBSET Nat
      BY <1>4 DEF Threads
    <3>2. new \in idle
      BY <3>1, MinIsMember
    <3>3. QED
      BY <3>2 DEF TcpInv, NewHasNone
  <2> HIDE DEF new
  <2>2. /\ at' = [at EXCEPT ![new] = "start"]
        /\ at'[new] = "start" /\ \A t \in Threads : t # new => at'[t] = at[t]
    BY <1>4, <2>1 DEF new, TcpInv, TcpTypeOK
  <2>3. NewHasNone'
    BY <1>2, <2>1, <2>2 DEF TcpInv, NewHasNone
  <2>4. ASSUME ~astray PROVE OneHandOver' /\ Exact'
    <3>1. Exact /\ client # NoFd /\ \A t \in Threads : at[t] # "start"
      BY <1>2, <2>4 DEF TcpInv, OneHandOver
    <3>2. OneHandOver'
      BY <1>2, <2>2, <3>1 DEF OneHandOver
    <3>3. ASSUME NEW fd \in Fds
          PROVE  IF sock'[fd] = "free" THEN Holders(fd)' = {} ELSE \E h : Holders(fd)' = {h}
      <4>1. /\ Holders(fd) = {t \in Threads : mine[t] = fd} \cup (IF client = fd THEN {0} ELSE {})
            /\ Holders(fd)' = {t \in Threads : IF t = new THEN client = fd ELSE mine[t] = fd}
        <5>1. \A t \in Threads : at'[t] = "start" <=> t = new
          BY <2>2, <3>1
        <5>2. QED
          BY <1>2, <3>1, <5>1 DEF Holders
      <4>2. CASE client = fd
        <5>1. Holders(fd) = {0} /\ sock[fd] # "free"
          BY <3>1, <4>1, <4>2 DEF Exact
        <5>2. 0 \notin Threads
          BY DEF Threads
        <5>3. Holders(fd)' = {new}
          BY <2>1, <4>1, <4>2, <5>1, <5>2
        <5>4. QED
          BY <1>2, <5>1, <5>3
      <4>3. CASE client # fd
        <5>1. fd # NoFd
          BY DEF Fds, NoFd
        <5>2. Holders(fd)' = Holders(fd)
          BY <2>1, <4>1, <4>3, <5>1
        <5>3. QED
          BY <1>2, <3>1, <5>2 DEF Exact
      <4>4. QED
        BY <4>2, <4>3
    <3>4. QED
      BY <3>2, <3>3 DEF Exact
  <2>5. QED
    BY <1>1, <1>4, <2>3, <2>4 DEF TcpInv
<1>5. QED
  BY <1>2, <1>3, <1>4

\* A new task reads `client' (tcp_perf.c:146), and is the only one that does.
LEMMA ReadClientKeeps ==
  ASSUME TcpInv, NEW t \in Threads, ReadClient(t)
  PROVE  TcpInv'
<1>1. TcpTypeOK'
  BY ThreadTypes DEF TcpInv, audio_thread
<1>2. /\ at[t] = "start" /\ at' = [at EXCEPT ![t] = "recv"]
      /\ mine' = [mine EXCEPT ![t] = client]
      /\ UNCHANGED <<server, client, astray, sock>>
  BY DEF ReadClient, Goto, listener
<1>3. /\ at'[t] = "recv" /\ mine'[t] = client
      /\ \A u \in Threads : u # t => at'[u] = at[u] /\ mine'[u] = mine[u]
  BY <1>2 DEF TcpInv, TcpTypeOK
<1>4. NewHasNone'
  BY <1>3 DEF TcpInv, NewHasNone
<1>5. ASSUME ~astray PROVE OneHandOver' /\ Exact'
  <2>1. Exact /\ OneHandOver
    BY <1>5 DEF TcpInv
  <2>2. \A fd \in Fds : Holders(fd)' = Holders(fd)
    <3>1. \A u \in Threads : /\ at'[u] # "start"
                             /\ mine'[u] = IF at[u] = "start" THEN client ELSE mine[u]
      BY <1>2, <1>3, <2>1 DEF OneHandOver
    <3>2. QED
      BY <1>2, <3>1 DEF Holders
  <2>3. QED
    BY <1>2, <1>3, <2>1, <2>2 DEF OneHandOver, Exact
<1>6. QED
  BY <1>1, <1>2, <1>4, <1>5 DEF TcpInv

\* A task that ends closes the descriptor that it alone holds (tcp_perf.c:153-155).
LEMMA ExitKeeps ==
  ASSUME TcpInv, NEW t \in Threads, Exit(t)
  PROVE  TcpInv'
<1>1. TcpTypeOK'
  BY ThreadTypes DEF TcpInv, audio_thread
<1>2. /\ at[t] = "recv" /\ at' = [at EXCEPT ![t] = "none"]
      /\ mine' = [mine EXCEPT ![t] = NoFd] /\ sock' = Closed(mine[t])
      /\ UNCHANGED <<server, client, astray>>
  BY DEF Exit, Goto, listener
<1>3. /\ at'[t] = "none" /\ mine'[t] = NoFd
      /\ \A u \in Threads : u # t => at'[u] = at[u] /\ mine'[u] = mine[u]
  BY <1>2 DEF TcpInv, TcpTypeOK
<1>4. NewHasNone'
  BY <1>3 DEF TcpInv, NewHasNone
<1>5. ASSUME ~astray PROVE OneHandOver' /\ Exact'
  <2>1. Exact /\ OneHandOver
    BY <1>5 DEF TcpInv
  <2>2. OneHandOver'
    BY <1>2, <1>3, <2>1 DEF OneHandOver
  <2>3. ASSUME NEW fd \in Fds
        PROVE  IF sock'[fd] = "free" THEN Holders(fd)' = {} ELSE \E h : Holders(fd)' = {h}
    <3>1. fd # NoFd
      BY DEF Fds, NoFd
    <3>2. Holders(fd)' = Holders(fd) \ (IF mine[t] = fd THEN {t} ELSE {})
      <4>1. t \in Threads /\ t # 0
        BY DEF Threads
      <4>2. QED
        BY <1>2, <1>3, <3>1, <4>1 DEF Holders
    <3>3. CASE mine[t] = fd
      <4>1. t \in Holders(fd)
        BY <1>2, <3>3 DEF Holders
      <4>2. Holders(fd) = {t}
        BY <2>1, <4>1 DEF Exact
      <4>3. Holders(fd)' = {}
        BY <3>2, <3>3, <4>2
      <4>4. sock'[fd] = "free"
        BY <1>2, <3>1, <3>3 DEF Closed, TcpInv, TcpTypeOK
      <4>5. QED
        BY <4>3, <4>4
    <3>4. CASE mine[t] # fd
      <4>1. Holders(fd)' = Holders(fd)
        BY <3>2, <3>4
      <4>2. sock'[fd] = sock[fd]
        BY <1>2, <3>4 DEF Closed, TcpInv, TcpTypeOK
      <4>3. QED
        BY <2>1, <4>1, <4>2 DEF Exact
    <3>5. QED
      BY <3>3, <3>4
  <2>4. QED
    BY <2>2, <2>3 DEF Exact
<1>6. QED
  BY <1>1, <1>2, <1>4, <1>5 DEF TcpInv

\* Every step of the server, of its tasks and of the peers keeps the invariant.
LEMMA TcpStep ==
  ASSUME TcpInv,
         \/ StartServer \/ listen_tcp_server \/ prcess_character
         \/ Knock \/ Answer \/ Hangup
         \/ \E t \in Threads : audio_thread(t) \/ Receive(t)
  PROVE  TcpInv'
<1>1. CASE StartServer \/ Listen
  BY <1>1, SameHolders, ServerTypes DEF TcpInv, StartServer, Listen, threads
<1>2. CASE prcess_character \/ Knock \/ Answer
  BY <1>2, SameHolders, ServerTypes DEF TcpInv, prcess_character, Knock, Answer, listener, threads
<1>3. CASE Hangup
  <2>1. \A fd \in Fds : sock'[fd] = "free" <=> sock[fd] = "free"
    BY <1>3 DEF Hangup, TcpInv, TcpTypeOK
  <2>2. QED
    BY <1>3, <2>1, SameHolders, ServerTypes DEF TcpInv, Hangup, listener, threads
<1>4. ASSUME NEW t \in Threads, Write(t, "full") \/ Receive(t) PROVE TcpInv'
  <2>1. /\ at[t] \in {"recv", "full"} /\ UNCHANGED <<client, mine, astray, server, sock>>
        /\ at' = [at EXCEPT ![t] = "recv"] \/ at' = [at EXCEPT ![t] = "full"]
    BY <1>4 DEF Write, Receive, Goto, listener
  <2>2. TcpTypeOK'
    BY <1>4, ThreadTypes DEF TcpInv, audio_thread
  <2>3. QED
    BY <2>1, <2>2, SameTask
<1>5. ASSUME NEW t \in Threads, ReceiveNothing(t) PROVE TcpInv'
  <2>1. TcpTypeOK'
    BY <1>5, ThreadTypes DEF TcpInv, audio_thread
  <2>2. \A fd \in Fds : sock'[fd] = "free" <=> sock[fd] = "free"
    BY <1>5 DEF ReceiveNothing, Status, TcpInv, TcpTypeOK
  <2>3. QED
    BY <1>5, <2>1, <2>2, SameHolders DEF ReceiveNothing, listener
<1>6. QED
  BY <1>1, <1>2, <1>3, <1>4, <1>5, AcceptKeeps, CreateKeeps, ReadClientKeeps, ExitKeeps
     DEF listen_tcp_server, audio_thread

-----------------------------------------------------------------------------
(***************************************************************************)
(* The speaker.                                                            *)
(***************************************************************************)

\* Both parts keep their invariants, whichever task runs.
LEMMA SpeakerInvariance == SpeakerSpec => [](WifiInv /\ TcpInv)
<1>1. SpeakerInit => WifiInv /\ TcpInv
  <2> SUFFICES ASSUME SpeakerInit PROVE WifiInv /\ TcpInv
    OBVIOUS
  <2>0. connected \in BOOLEAN /\ astray \in BOOLEAN
    BY Zenon DEF SpeakerInit, WifiInit, TcpInit
  <2>1. WifiInv
    BY <2>0 DEF SpeakerInit, WifiInit, WifiInv, WifiTypeOK, LinkShape
  <2>2. TcpTypeOK
    BY <2>0, ServerAssumption DEF SpeakerInit, TcpInit, TcpTypeOK
  <2>3. NewHasNone /\ OneHandOver
    BY DEF SpeakerInit, TcpInit, NewHasNone, OneHandOver
  <2>4. Exact
    BY DEF SpeakerInit, TcpInit, Exact, Holders, Fds, NoFd
  <2>5. QED
    BY <2>1, <2>2, <2>3, <2>4 DEF TcpInv
<1>2. WifiInv /\ TcpInv /\ [SpeakerNext]_speakerVars => WifiInv' /\ TcpInv'
  <2> SUFFICES ASSUME WifiInv, TcpInv, [SpeakerNext]_speakerVars PROVE WifiInv' /\ TcpInv'
    OBVIOUS
  <2>1. ASSUME UNCHANGED wifi PROVE WifiInv'
    BY <2>1 DEF wifi, WifiInv, WifiTypeOK, LinkShape
  <2>2. ASSUME UNCHANGED tcp PROVE TcpInv'
    <3>1. TcpTypeOK'
      BY <2>2, Zenon DEF tcp, listener, threads, stock, TcpInv, TcpTypeOK
    <3>2. QED
      BY <2>2, <3>1, SameHolders DEF tcp, listener, threads
  <2>3. QED
    BY <2>1, <2>2, WifiStep, TcpStep
       DEF SpeakerNext, speakerVars, app_main, Network, TcpIpTask, EventTask, Radio, Listener,
           Thread, Player
<1>3. QED
  BY <1>1, <1>2, PTL DEF SpeakerSpec

\* Every variable of the server and of the station keeps its type.
THEOREM SpeakerTypes == SpeakerSpec => []SpeakerTypeOK
<1>1. WifiInv /\ TcpInv => SpeakerTypeOK
  BY DEF WifiInv, TcpInv, SpeakerTypeOK
<1>2. QED
  BY <1>1, SpeakerInvariance, PTL

\* Once the event task has caught up, a station that is up has its bit set,
\* however often the link was lost meanwhile (tcp_perf.c:62-94).
THEOREM UpIsSignalled == SpeakerSpec => []SignalledWhenUp
<1>1. WifiInv => SignalledWhenUp
  BY DEF WifiInv, LinkShape, SignalledWhenUp
<1>2. QED
  BY <1>1, SpeakerInvariance, PTL

\* However far the event task falls behind, at most two events wait for it:
\* the driver posts none between losing the link and the handler's call of
\* esp_wifi_connect (tcp_perf.c:66-71), so the queue cannot overflow.
THEOREM FewEvents == SpeakerSpec => [](Len(events) <= 2)
<1>1. WifiInv => Len(events) <= 2
  <2>1. /\ Len(<<>>) = 0 /\ Len(<<"STA_START">>) = 1 /\ Len(<<"STA_DISCONNECTED">>) = 1
        /\ Len(<<"STA_GOT_IP">>) = 1 /\ Len(<<"STA_GOT_IP", "STA_DISCONNECTED">>) = 2
    OBVIOUS
  <2>2. WifiInv => \/ events = <<>> \/ events = <<"STA_GOT_IP">> \/ events = <<"STA_START">>
                   \/ events = <<"STA_DISCONNECTED">>
                   \/ events = <<"STA_GOT_IP", "STA_DISCONNECTED">>
    BY DEF WifiInv, LinkShape
  <2>3. WifiInv => Len(events) = 0 \/ Len(events) = 1 \/ Len(events) = 2
    BY <2>1, <2>2, Zenon
  <2>4. 0 <= 2 /\ 1 <= 2 /\ 2 <= 2
    OBVIOUS
  <2>5. QED
    BY <2>3, <2>4, Zenon
<1>2. QED
  BY <1>1, SpeakerInvariance, PTL

\* For every number of descriptors and tasks, each accepted connection belongs
\* to exactly one task as long as accept does not run again before a new task
\* has read `client' and every task could be created (tcp_perf.c:131-156).
THEOREM OneTaskPerConnection == SpeakerSpec => []ServedByOne
<1>1. TcpInv => ServedByOne
  BY FS_EmptySet, FS_Singleton DEF TcpInv, Exact, ServedByOne
<1>2. QED
  BY <1>1, SpeakerInvariance, PTL

=============================================================================
