----------------------------- MODULE TcpServer ------------------------------
(***************************************************************************)
(* The TCP server of ESP32/main/tcp_perf.c: listen_tcp_server accepts      *)
(* connections and creates an audio_thread for each, giving it the address *)
(* of its own local variable `client'; each audio_thread may create a      *)
(* prcess_character, which never ends.  All of them share the one ring.    *)
(*                                                                         *)
(* A connection is known by its descriptor.  The ring is only its number   *)
(* of B_PREPARED blocks, the length of the queue of BlockRing that         *)
(* DataBuffer implements for one writer and one reader; of the chunks only *)
(* those that complete a block are steps: the others change nothing that   *)
(* is visible here.                                                        *)
(***************************************************************************)
EXTENDS Naturals, Sequences, FiniteSets, FiniteSetsExt

CONSTANTS
  MAX_SOCKETS,        \* descriptors left for clients (lwIP has 10 in all)
  NUMBER_OF_BUFFER,   \* blocks of the ring
  MaxThreads,         \* bound: audio_thread tasks alive at a time
  MaxPlayers          \* bound: prcess_character tasks

ASSUME ServerAssumption ==
  /\ {MAX_SOCKETS, MaxThreads, MaxPlayers} \subseteq Nat \ {0}
  /\ NUMBER_OF_BUFFER \in Nat /\ NUMBER_OF_BUFFER >= 3

Fds == 1 .. MAX_SOCKETS
NoFd == 0                     \* the -1 of a failed accept
Threads == 1 .. MaxThreads

VARIABLES
  server,         \* where listen_tcp_server is
  visitor,        \* the next client: "none", "knocking" or "waiting" for accept
  client,         \* the listener's local variable, which new tasks read by address
  sock,           \* each descriptor, as the network left it
  at,             \* where each audio_thread is
  mine,           \* its own `client'
  render_status,
  ring,           \* blocks that are B_PREPARED
  counter,        \* whether buffer_used is that number: "exact" or "drifted"
  players,        \* number of prcess_character tasks
  astray          \* history: `client' changed before a new task had read it, or
                  \* the task could not be created

listener == <<server, visitor, client, astray>>
threads == <<at, mine, render_status>>
stock == <<ring, counter>>
tcp == <<listener, sock, threads, stock, players>>

\* What recv finds behind a descriptor.
Status(fd) == IF fd = NoFd THEN "free" ELSE sock[fd]

getBufferPercent(n) == (n * 100) \div NUMBER_OF_BUFFER

TcpInit ==
  /\ server = "off" /\ visitor = "none" /\ client = NoFd
  /\ astray = FALSE
  /\ sock = [fd \in Fds |-> "free"]
  /\ at = [t \in Threads |-> "none"]
  /\ mine = [t \in Threads |-> NoFd]
  /\ render_status = [t \in Threads |-> 0]
  /\ ring = 0 /\ counter = "exact" /\ players = 0

-----------------------------------------------------------------------------
\* app_main creates the task, and does not look at the result.
StartServer ==
  /\ server = "off"
  /\ server' \in {"socket", "none"}
  /\ UNCHANGED <<visitor, client, astray, sock, threads, stock, players>>

\* socket, bind and listen; whichever fails, error_handle never returns.
Listen ==
  /\ \E s \in {<<"socket", "bind">>, <<"bind", "listen">>, <<"listen", "accept">>} :
       server = s[1] /\ server' \in {s[2], "error"}
  /\ UNCHANGED <<visitor, client, astray, sock, threads, stock, players>>

\* accept fails for a client that has reset the connection meanwhile, and
\* when no descriptor is free; the server socket is then closed for good.
Accept ==
  /\ server = "accept" /\ visitor = "waiting" /\ visitor' = "none"
  /\ LET free == {fd \in Fds : sock[fd] = "free"}
     IN  \/ /\ free # {}
            /\ server' = "create" /\ client' = Min(free)
            /\ sock' = [sock EXCEPT ![Min(free)] = "open"]
         \/ server' = "error" /\ client' = NoFd /\ UNCHANGED sock
  /\ astray' = (astray \/ \E t \in Threads : at[t] = "start")
  /\ UNCHANGED <<threads, stock, players>>

\* Mutant: one client is accepted, and no other.
AfterCreateEnds == "none"

\* The loop goes back to accept.
AfterCreate == "accept"

\* xTaskCreate(&audio_thread, ..., &client): nobody looks at the result.
CreateThread ==
  /\ server = "create" /\ server' = AfterCreate
  /\ \/ /\ \E t \in Threads : at[t] = "none"
        /\ at' = [at EXCEPT ![Min({t \in Threads : at[t] = "none"})] = "start"]
        /\ UNCHANGED astray
     \/ astray' = TRUE /\ UNCHANGED at
  /\ UNCHANGED <<visitor, client, sock, mine, render_status, stock, players>>

listen_tcp_server == Listen \/ Accept \/ CreateThread

-----------------------------------------------------------------------------
Goto(t, from, to) == at[t] = from /\ at' = [at EXCEPT ![t] = to]

\* From here on the task counts blocks, and so may others: each can lose the
\* update of another.
ReadClient(t) ==
  /\ Goto(t, "start", "recv")
  /\ mine' = [mine EXCEPT ![t] = client]
  /\ counter' = IF \E u \in Threads \ {t} : at[u] \in {"recv", "full"} THEN "drifted" ELSE counter
  /\ UNCHANGED <<listener, sock, render_status, ring, players>>

\* What buffer_used may be with n blocks in the ring: anything once updates
\* can have been lost.
BufferUsed(n) == IF counter = "exact" THEN {n} ELSE 0 .. NUMBER_OF_BUFFER

\* The test for the start of playback.  render_status is the task's own: each
\* connection that finds the ring more than half full starts a player, and
\* believes that it has.  A player counts blocks as well.
Test(t, n) ==
  \/ /\ render_status[t] = 0 /\ \E u \in BufferUsed(n) : getBufferPercent(u) > 50
     /\ render_status' = [render_status EXCEPT ![t] = 1]
     /\ players' \in {players, players + 1} /\ players' <= MaxPlayers
     /\ counter' = IF players' > 0 THEN "drifted" ELSE counter
  \/ /\ render_status[t] = 1 \/ \E u \in BufferUsed(n) : getBufferPercent(u) <= 50
     /\ UNCHANGED <<render_status, players, counter>>

\* Mutant: the writer does not wait for a free block.
NoRoom == ring <= NUMBER_OF_BUFFER

\* The next block is B_UNPREPARED.
Room == ring < NUMBER_OF_BUFFER

\* buffer_write_data and the test behind it.
Write(t, from) ==
  /\ Room /\ ring' = ring + 1
  /\ Goto(t, from, "recv")
  /\ Test(t, ring')
  /\ UNCHANGED <<listener, sock, mine>>

\* recv returns a chunk.  When the ring is full the task spins in
\* buffer_write_data.
Receive(t) ==
  /\ Status(mine[t]) = "open"
  /\ \/ Write(t, "recv")
     \/ /\ ~Room /\ Goto(t, "recv", "full")
        /\ UNCHANGED <<listener, sock, mine, render_status, stock, players>>

\* recv asks lwIP's task to take the peer's close, and returns 0, once.  The
\* loop goes on; the next recv blocks until the connection breaks.
ReceiveNothing(t) ==
  /\ Status(mine[t]) = "eof" /\ at[t] = "recv"
  /\ sock' = [sock EXCEPT ![mine[t]] = "ended"]
  /\ Test(t, ring)
  /\ UNCHANGED <<listener, at, mine, ring>>

\* Mutant: a connection that breaks is not told from one without data.
NeverBroken == {}

\* The states of a connection in which recv returns -1.
Broken == {"reset", "free"}

\* Mutant: the task ends without closing its descriptor.
NotClosed(fd) == sock

\* What close leaves behind.
Closed(fd) == IF fd = NoFd THEN sock ELSE [sock EXCEPT ![fd] = "free"]

\* recv fails: close(client), vTaskDelete(NULL).  close returns when lwIP's
\* task has deleted the connection, which is when the step is taken; until then
\* the task holds its descriptor as it does in recv.
Exit(t) ==
  /\ Status(mine[t]) \in Broken
  /\ Goto(t, "recv", "none")
  /\ sock' = Closed(mine[t])
  /\ mine' = [mine EXCEPT ![t] = NoFd]
  /\ render_status' = [render_status EXCEPT ![t] = 0]
  /\ UNCHANGED <<listener, stock, players>>

audio_thread(t) == Write(t, "full") \/ ReadClient(t) \/ ReceiveNothing(t) \/ Exit(t)

\* A player takes a block; it spins in buffer_read_data while there is none.
prcess_character ==
  /\ players > 0 /\ ring > 0 /\ ring' = ring - 1
  /\ UNCHANGED <<listener, sock, threads, counter, players>>

-----------------------------------------------------------------------------
\* A client's first segment arrives.
Knock ==
  /\ visitor = "none" /\ visitor' = "knocking"
  /\ UNCHANGED <<server, client, astray, sock, threads, stock, players>>

\* The TCP/IP task completes the connection, or refuses it when nobody listens.
Answer ==
  /\ visitor = "knocking"
  /\ visitor' = IF server \in {"accept", "create"} THEN "waiting" ELSE "none"
  /\ UNCHANGED <<server, client, astray, sock, threads, stock, players>>

\* A peer closes its connection, or the connection breaks, perhaps later.
Hangup ==
  /\ \E fd \in Fds :
       \/ sock[fd] = "open" /\ sock' = [sock EXCEPT ![fd] = "eof"]
       \/ sock[fd] \in {"open", "eof", "ended"} /\ sock' = [sock EXCEPT ![fd] = "reset"]
  /\ UNCHANGED <<listener, threads, stock, players>>

-----------------------------------------------------------------------------
TcpTypeOK ==
  /\ server \in {"off", "none", "socket", "bind", "listen", "accept", "create", "error"}
  /\ visitor \in {"none", "knocking", "waiting"}
  /\ client \in Fds \cup {NoFd}
  /\ sock \in [Fds -> {"free", "open", "eof", "ended", "reset"}]
  /\ at \in [Threads -> {"none", "start", "recv", "full"}]
  /\ mine \in [Threads -> Fds \cup {NoFd}]
  /\ render_status \in [Threads -> {0, 1}]
  /\ ring \in 0 .. NUMBER_OF_BUFFER
  /\ counter \in {"exact", "drifted"}
  /\ players \in 0 .. MaxPlayers
  /\ astray \in BOOLEAN

\* The tasks that a descriptor belongs to, the listener (0) included until it
\* has passed it on.
Holders(fd) ==
  {t \in Threads : IF at[t] = "start" THEN client = fd ELSE mine[t] = fd}
    \cup (IF server = "create" /\ client = fd THEN {0} ELSE {})

\* Each descriptor that accept has returned belongs to exactly one task until
\* that task closes it, so that nobody reads or closes another's connection
\* and none is left without a reader: unless accept ran again before a new
\* task had read `client' through its pointer (tcp_perf.c:131, 139, 146), or
\* a task could not be created.
ServedByOne ==
  ~astray =>
    \A fd \in Fds : Cardinality(Holders(fd)) = (IF sock[fd] = "free" THEN 0 ELSE 1)
=============================================================================
