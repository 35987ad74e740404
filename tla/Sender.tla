------------------------------- MODULE Sender -------------------------------
(***************************************************************************)
(* The PC side, WIN32/build/TestPA/TestPA.cpp: PortAudio calls             *)
(* recordCallback for every recorded buffer; the callback assembles a      *)
(* SEND_DATA frame in the single buffer audio_data and raises data_state;  *)
(* the thread threadFunctionSendData polls data_state, sends the buffer    *)
(* and lowers it.  Nothing makes either wait for the other.                *)
(*                                                                         *)
(* A frame is its number.  Command, length and size are the same in every  *)
(* frame, so only the payload is kept: audio_data is Pieces pieces, each   *)
(* labelled with the frame it was recorded for, copied one by one.         *)
(***************************************************************************)
EXTENDS Integers, Sequences, FiniteSets

CONSTANTS
  Pieces,         \* into how many pieces the memcpy and send of a payload are cut
  MaxFrames       \* bound: the number of recorded buffers

ASSUME SenderAssumption == Pieces \in Nat \ {0} /\ MaxFrames \in Nat

VARIABLES
  main,           \* where main is
  conn,           \* the socket: "none", "connected" or "broken"
  audio_data, data_state, threadSyncFlag,
  frame,          \* the number of the frame that is, or was last, recorded
  cb,             \* recordCallback: -1, or the number of pieces it has copied
  thread,         \* where the sending thread is
  outgoing,       \* the pieces that the current send has read
  wire,           \* history: the frames sent, as sequences of labels
  announced,      \* history: the frames for which "data overwrite" was printed
  failed          \* history: the frames whose send failed, of which nobody knows

stream == <<frame, cb, announced>>
sending == <<outgoing, wire, failed>>
vars == <<main, conn, audio_data, data_state, threadSyncFlag, stream, thread, sending>>

Init ==
  /\ main = "connect" /\ conn = "none"
  /\ audio_data = [p \in 1 .. Pieces |-> 0] /\ data_state = 0 /\ threadSyncFlag = 0
  /\ frame = 0 /\ cb = -1
  /\ thread = "none" /\ outgoing = <<>>
  /\ wire = <<>> /\ announced = {} /\ failed = {}

-----------------------------------------------------------------------------
\* A failed connect is reported and main goes on.
connectSocket ==
  /\ main = "connect" /\ main' = "open"
  /\ conn' \in {"connected", "broken"}
  /\ UNCHANGED <<audio_data, data_state, threadSyncFlag, stream, thread, sending>>

\* Pa_Initialize, the choice of the device, Pa_OpenStream and Pa_StartStream:
\* any failure leads to the end, otherwise the callback is live.
StartStream ==
  /\ main = "open" /\ main' \in {"stream", "done"}
  /\ UNCHANGED <<conn, audio_data, data_state, threadSyncFlag, stream, thread, sending>>

\* The thread is created suspended, the flag raised and the thread resumed.
\* When there is no thread the error is lost in the loop below.
startThread ==
  /\ main = "stream"
  /\ \/ /\ main' = "wait" /\ threadSyncFlag' = 1 /\ thread' = "start"
     \/ /\ main' = "loop" /\ UNCHANGED <<threadSyncFlag, thread>>
  /\ UNCHANGED <<conn, audio_data, data_state, stream, sending>>

ThreadIsUp ==
  /\ main = "wait" /\ threadSyncFlag = 0
  /\ main' = "loop"
  /\ UNCHANGED <<conn, audio_data, data_state, threadSyncFlag, stream, thread, sending>>

\* Pa_IsStreamActive: the stream ends by itself, between two callbacks.
StreamEnds ==
  /\ main = "loop" /\ cb = -1
  /\ main' = "done"
  /\ UNCHANGED <<conn, audio_data, data_state, threadSyncFlag, stream, thread, sending>>

-----------------------------------------------------------------------------
\* recordCallback up to line 154: an unsent frame is announced, and then
\* overwritten.
Callback ==
  /\ main \in {"stream", "wait", "loop"} /\ cb = -1 /\ frame < MaxFrames
  /\ frame' = frame + 1 /\ cb' = 0
  /\ announced' = IF data_state = 1 THEN announced \cup {frame'} ELSE announced
  /\ UNCHANGED <<main, conn, audio_data, data_state, threadSyncFlag, thread, sending>>

CallbackCopy ==
  /\ cb \in 0 .. Pieces - 1
  /\ audio_data' = [audio_data EXCEPT ![cb + 1] = frame]
  /\ cb' = cb + 1
  /\ UNCHANGED <<main, conn, data_state, threadSyncFlag, frame, announced, thread, sending>>

CallbackDone ==
  /\ cb = Pieces /\ cb' = -1
  /\ data_state' = 1
  /\ UNCHANGED <<main, conn, audio_data, threadSyncFlag, frame, announced, thread, sending>>

-----------------------------------------------------------------------------
\* Mutant: the new thread does not report.
ReportsNothing == UNCHANGED threadSyncFlag

Reports == threadSyncFlag' = 0

ThreadStarts ==
  /\ thread = "start" /\ thread' = "poll"
  /\ Reports
  /\ UNCHANGED <<main, conn, audio_data, data_state, stream, sending>>

\* Mutant: the state is lowered before the frame is sent.
LowersFirst == data_state' = 0

KeepsState == UNCHANGED data_state

Poll ==
  /\ thread = "poll" /\ data_state = 1
  /\ thread' = "send" /\ KeepsState
  /\ UNCHANGED <<main, conn, audio_data, threadSyncFlag, stream, sending>>

\* send reads the buffer, as fast as the peer takes the data; a broken
\* connection makes it fail, which nobody looks at.
SendPiece ==
  /\ thread = "send" /\ Len(outgoing) < Pieces
  /\ outgoing' = Append(outgoing, audio_data[Len(outgoing) + 1])
  /\ UNCHANGED <<main, conn, audio_data, data_state, threadSyncFlag, stream, thread, wire, failed>>

SendReturns ==
  /\ thread = "send" /\ Len(outgoing) = Pieces
  /\ thread' = "lower" /\ outgoing' = <<>>
  /\ IF conn = "connected"
     THEN wire' = Append(wire, outgoing) /\ UNCHANGED failed
     ELSE failed' = failed \cup {outgoing[p] : p \in 1 .. Pieces} /\ UNCHANGED wire
  /\ UNCHANGED <<main, conn, audio_data, data_state, threadSyncFlag, stream>>

\* Mutant: the thread sends one frame and ends.
SendsOne == "stopped"

AfterSend == "poll"

Lower ==
  /\ thread = "lower" /\ thread' = AfterSend
  /\ data_state' = 0
  /\ UNCHANGED <<main, conn, audio_data, threadSyncFlag, stream, sending>>

ConnectionBreaks ==
  /\ conn = "connected" /\ conn' = "broken"
  /\ UNCHANGED <<main, audio_data, data_state, threadSyncFlag, stream, thread, sending>>

mainThread == connectSocket \/ StartStream \/ startThread \/ ThreadIsUp \/ StreamEnds
recordCallback == Callback \/ CallbackCopy \/ CallbackDone
send == SendPiece \/ SendReturns
threadFunctionSendData == ThreadStarts \/ Poll \/ send \/ Lower

Next == mainThread \/ recordCallback \/ threadFunctionSendData \/ ConnectionBreaks

Spec == Init /\ [][Next]_vars

\* The thread polls without pause and above normal priority; the callback,
\* once called, runs to its end; main is woken every 10 ms.  Recording may
\* go on or not.  send blocks as long as the peer does not read, and only on a
\* broken connection is it sure to return.
FairSpec ==
  /\ Spec
  /\ WF_vars(ThreadStarts \/ Poll \/ Lower)
  /\ WF_vars(send /\ conn = "broken")
  /\ WF_vars(CallbackCopy \/ CallbackDone)
  /\ WF_vars(ThreadIsUp)

-----------------------------------------------------------------------------
(***************************************************************************)
(* Properties                                                              *)
(***************************************************************************)
Sent(k) == \E i \in 1 .. Len(wire) : \E p \in 1 .. Pieces : wire[i][p] = k

\* When a frame on the wire is a mixture of two recorded ones, the overwriting
\* has been announced (TestPA.cpp:151-154, 243-247).
TornIsAnnounced ==
  \A i \in 1 .. Len(wire) : \A p \in 1 .. Pieces :
    wire[i][p] # wire[i][1] => wire[i][p] \in announced \/ wire[i][1] \in announced

\* A recorded frame that is never sent was announced: it was itself recorded
\* while an earlier one was waiting, or the next one was.  Only a failing
\* send loses frames in silence (TestPA.cpp:151-166, 243-247).
LostIsAnnounced ==
  \A k \in 1 .. frame - 1 :
    Sent(k) \/ k \in announced \/ k + 1 \in announced \/ k \in failed

\* Unless a send blocks for ever, a frame that waits is picked up as long as
\* the thread exists, however many more are recorded behind it
\* (TestPA.cpp:242-248).
FrameIsPickedUp ==
  []<>(thread # "send") => (data_state = 1 /\ thread # "none" ~> data_state = 0)

\* main gets past the start of the thread (TestPA.cpp:230).
ThreadStartIsSeen == main = "wait" ~> main = "loop"
=============================================================================
