------------------------------ MODULE Receiver ------------------------------
(***************************************************************************)
(* One connection of the speaker, ESP32/main/tcp_perf.c:145-226: the task  *)
(* audio_thread receives chunks and writes them into the block ring, and   *)
(* once the ring is more than half full it creates prcess_character, which *)
(* reads frames (command, length, payload) out of it.  The ring is the one *)
(* of DataBuffer, step by step.                                            *)
(*                                                                         *)
(* A word (sizeof(TCP_COMMAND) = sizeof(DWORD) = 4 bytes) is one byte of   *)
(* DataBuffer here: every read of prcess_character and LENGTH_OF_BUFFER    *)
(* are multiples of 4 bytes.  What the sender puts on the wire is Stream,  *)
(* a sequence of words, each with its role and its value.                  *)
(***************************************************************************)
EXTENDS DataBuffer, Sequences, FiniteSets

CONSTANTS
  Stream,           \* the words the sender transmits
  MaxRecv,          \* sizeof(buffer) of audio_thread (1024 bytes)
  HeaderLength,     \* sizeof(WAVEFORMATEX)
  CreateMayFail     \* whether xTaskCreate may run out of memory

ASSUME ReceiverAssumption ==
  /\ NUMBER_OF_BUFFER >= 3
  /\ MaxRecv \in 1 .. LENGTH_OF_BUFFER
  /\ HeaderLength \in Nat
  /\ CreateMayFail \in BOOLEAN
  /\ MaxSent = Len(Stream)

\* The word at position p of the stream, if there is one, has this role.
Has(p, role) == p \in 1 .. Len(Stream) => Stream[p].role = role

\* The sender transmits frames, one behind the other: a word that announces a
\* header or data is followed by a length, and that many words later by the
\* next command; a header has its length.  The stream may end anywhere.
ASSUME StreamAssumption ==
  /\ Has(1, "command")
  /\ \A p \in 1 .. Len(Stream) :
       LET v == Stream[p].value
       IN  /\ Stream[p].role = "command" =>
                 IF v \in {"SEND_HEADER", "SEND_DATA"} THEN Has(p + 1, "length")
                                                      ELSE Has(p + 1, "command")
           /\ Stream[p].role = "length" => v \in Nat /\ Has(p + v + 1, "command")
           /\ p > 1 /\ Stream[p].role = "length" /\ Stream[p - 1].role = "command"
                /\ Stream[p - 1].value = "SEND_HEADER" => v = HeaderLength

VARIABLES
  socket,           \* the connection, as the peer left it
  at,               \* where audio_thread is
  render_status,
  player,           \* the task prcess_character
  phase,            \* what its outstanding read is for
  tcp_command,
  word,             \* the word that its last read of one word stored, by position
  misread           \* history: "header data error" was logged

audio == <<socket, at, render_status>>
process == <<player, phase, tcp_command, word, misread>>
allVars == <<vars, audio, process>>

\* What prcess_character finds in the variable it read a word into: the word
\* at that position of the stream, or any value when it is not one of its
\* role (payload taken for a command, or memory that was never received).
Holds(role, v) ==
  word \in 1 .. Len(Stream) /\ Stream[word].role = role => v = Stream[word].value

-----------------------------------------------------------------------------
ReceiverInit ==
  /\ Init
  /\ socket = "open" /\ at = "recv" /\ render_status = 0
  /\ player = "none" /\ phase = "none" /\ tcp_command = "UN_KNOW" /\ word = 0
  /\ misread = FALSE

\* The peer closes the connection, or the connection breaks, perhaps after
\* the peer has closed it.
PeerEnds ==
  /\ \/ socket = "open" /\ socket' \in {"eof", "reset"}
     \/ socket \in {"eof", "ended"} /\ socket' = "reset"
  /\ UNCHANGED <<vars, at, render_status, process>>

\* Mutant: more is asked of recv than the buffer holds.
ChunksTooLong == 1 .. MaxRecv + 1

Chunks == 1 .. MaxRecv

\* Mutant: the error is logged, and the loop goes on.
GoesOn == "recv"

AfterError == "exit"

\* recv returns a chunk, 0 after the peer has closed, or -1.  Only -1 is
\* told apart; a chunk of 0 bytes is passed to buffer_write_data like others.
\* lwIP reports the peer's close once: when it has been taken ("ended") the
\* next recv, which has no timeout, blocks until the connection breaks (and
\* may then return 0 once more before it returns -1).
Recv ==
  /\ at = "recv"
  /\ \/ /\ socket = "open" /\ at' = "written"
        /\ \E n \in Chunks : Call("writer", n)
        /\ UNCHANGED socket
     \/ /\ socket = "eof" /\ socket' = "ended" /\ at' = "written"
        /\ Call("writer", 0)
     \/ /\ socket = "reset" /\ at' = AfterError
        /\ UNCHANGED <<vars, socket>>
  /\ UNCHANGED <<render_status, process>>

\* Mutant: the player is created when the ring is completely full.
StartsWhenFull == getBufferPercent >= 100 /\ render_status = 0

Starts == getBufferPercent > 50 /\ render_status = 0

\* After buffer_write_data has returned.  Nobody looks at what xTaskCreate
\* returns.
StartPlayer ==
  /\ at = "written" /\ pc["writer"] = "return"
  /\ at' = "recv"
  /\ IF Starts
     THEN /\ render_status' = 1
          /\ player' \in (IF CreateMayFail THEN {"running", "failed"} ELSE {"running"})
     ELSE UNCHANGED <<render_status, player>>
  /\ UNCHANGED <<vars, socket, phase, tcp_command, word, misread>>

CloseClient ==
  /\ at = "exit"
  /\ at' = "deleted"
  /\ socket' = "closed"
  /\ UNCHANGED <<vars, render_status, process>>

WriterStep == Step("writer") /\ UNCHANGED <<audio, process>>

audio_thread == Recv \/ WriterStep \/ StartPlayer \/ CloseClient

-----------------------------------------------------------------------------
\* A step of buffer_read_data.  A copy stores the first word in the caller's
\* variable when that is what the call reads.
ReaderStep ==
  /\ Step("reader")
  /\ word' = IF pc["reader"] \in {"copy", "fill"} /\ phase \in {"command", "length"}
             THEN buffer[index["reader"]][used[index["reader"]]] ELSE word
  /\ UNCHANGED <<audio, player, phase, tcp_command, misread>>

Read(what, n) == Call("reader", n) /\ phase' = what

\* buffer_read_data has returned (or the task has just started).
Begin == player = "running" /\ pc["reader"] = "return" /\ UNCHANGED <<audio, player, word>>

\* Mutant: the task plays one frame and does not loop.
FirstFrame == {"none"}

\* What the next command is read after.
FrameEnds == {"none", "payload"}

ReadCommand ==
  /\ Begin /\ phase \in FrameEnds
  /\ Read("command", 1)
  /\ UNCHANGED <<tcp_command, misread>>

\* The switch over the command.  The answer to an unknown one, and to UN_KNOW
\* and SEND_ACK, is to read the next word as a command.
Switch ==
  /\ Begin /\ phase = "command"
  /\ \E c \in {"UN_KNOW", "SEND_HEADER", "SEND_DATA", "SEND_ACK"} :
       /\ Holds("command", c)
       /\ tcp_command' = c
       /\ IF c \in {"SEND_HEADER", "SEND_DATA"} THEN Read("length", 1) ELSE Read("command", 1)
  /\ UNCHANGED misread

\* Mutant: the length is taken to count its own word.
LengthLessOne(n) == n - 1

PayloadLength(n) == n

\* A wrong header length is logged and used all the same.
ReadPayload ==
  /\ Begin /\ phase = "length"
  /\ \E n \in 0 .. MaxSize :
       /\ Holds("length", n)
       /\ misread' = (misread \/ (tcp_command = "SEND_HEADER" /\ n # HeaderLength))
       /\ Read("payload", PayloadLength(n))
  /\ UNCHANGED tcp_command

prcess_character == ReaderStep \/ ReadCommand \/ Switch \/ ReadPayload

-----------------------------------------------------------------------------
ReceiverNext == PeerEnds \/ audio_thread \/ prcess_character

ReceiverSpec == ReceiverInit /\ [][ReceiverNext]_allVars

\* The two tasks keep running (see DataBuffer); the peer may do nothing.
ReceiverFairSpec ==
  /\ ReceiverSpec
  /\ WF_allVars(WriterStep \/ StartPlayer \/ CloseClient)
  /\ WF_allVars(Recv /\ socket # "open")
  /\ WF_allVars(prcess_character)

-----------------------------------------------------------------------------
(***************************************************************************)
(* Properties                                                              *)
(***************************************************************************)

\* The variables that tcp_perf.c adds keep their types, and a chunk fits into
\* the buffer of audio_thread.
ReceiverTypeOK ==
  /\ socket \in {"open", "eof", "ended", "reset", "closed"}
  /\ at \in {"recv", "written", "exit", "deleted"}
  /\ render_status \in {0, 1}
  /\ player \in {"none", "running", "failed"}
  /\ phase \in {"none", "command", "length", "payload"}
  /\ tcp_command \in {"UN_KNOW", "SEND_HEADER", "SEND_DATA", "SEND_ACK"}
  /\ word \in 0 .. MaxSent
  /\ misread \in BOOLEAN
  /\ size["writer"] <= MaxRecv

\* The test for the start of playback (tcp_perf.c:159) comes only after
\* buffer_write_data has returned.  The writer must therefore never wait for
\* a free block while there is no player yet: it would wait for ever, with
\* the connection open.  With chunks of at most one block and at least three
\* blocks that is so.
StartedBeforeFull ==
  pc["writer"] = "test" /\ state[index["writer"]] = "B_PREPARED" => render_status = 1

\* What the test for the start of playback reads is exactly the number of full
\* blocks, although the counter is one of which updates get lost as soon as
\* both tasks run (data_buffer.c:53, 82, tcp_perf.c:159).
LevelIsExact ==
  at = "written" /\ pc["writer"] = "return" /\ render_status = 0
    => buffer_used = Cardinality({b \in Slots : state[b] = "B_PREPARED"})

\* Until a reset of `used' goes astray, the player never takes one kind of
\* word for another: what it uses as a command or a length is one, and the
\* header has its length (tcp_perf.c:184-216).
ParserInSync ==
  ~clobbered =>
    /\ ~misread
    /\ player = "running" /\ pc["reader"] = "return" /\ phase \in {"command", "length"}
         => word \in 1 .. MaxSent /\ Stream[word].role = phase

\* A connection that breaks is closed and its task deleted, whatever the ring
\* and the player are doing, unless the player could not be created
\* (tcp_perf.c:153-156, 164, 168-171).
ResetIsClosed == socket = "reset" ~> at = "deleted" \/ player = "failed"

\* Once there is a player, each full block is played (tcp_perf.c:159-164).
StartedBlocksDrain ==
  \A b \in Slots : player = "running" /\ state[b] = "B_PREPARED" ~> state[b] = "B_UNPREPARED"

\* The check at tcp_perf.c:192-193 is never hit by a sender that sends each
\* header with its length.
HeaderIsRead == ~misread

\* A connection that the peer closes is closed here as well and its task
\* ends; tcp_perf.c:154 logs "socket client %d close in get command".  The
\* code takes the 0 that recv returns once for data and calls recv again.
EofIsClosed == socket = "eof" ~> at = "deleted"
=============================================================================
