----------------------------- MODULE AudioPlayer ----------------------------
(***************************************************************************)
(* The buffered player: audio_stream_consumer (components/audio_player)    *)
(* writes what is received into the FIFO of SpiRamFifo and creates the     *)
(* task render_audio (components/audio_render), which reads the FIFO in    *)
(* fixed pieces until one comes up short, empties it and deletes itself.   *)
(* What render_samples does with a piece is left out.                      *)
(***************************************************************************)
EXTENDS SpiRamFifo

CONSTANTS
  RenderLength,     \* sizeof(render_buffer), 1024 in the program
  CreateMayFail     \* whether xTaskCreate may run out of memory

\* A chunk fits on top of any level that does not start the decoder (the
\* percentage is rounded down, so half the FIFO would be a little too much).
ASSUME PlayerAssumption ==
  /\ RenderLength \in Nat \ {0}
  /\ \A f \in 0 .. SPIRAMSIZE : (f * 100) \div SPIRAMSIZE <= 50 => f + MaxLen <= SPIRAMSIZE
  /\ CreateMayFail \in BOOLEAN

VARIABLES
  command, decoder_command,
  decoder_status, player_status,
  consumer,         \* where the task that calls audio_stream_consumer is
  render,           \* where the task render_audio is
  refused           \* history: xTaskCreate has failed

task == <<consumer, render, refused>>
player == <<command, decoder_command, decoder_status, player_status, task>>
playerVars == <<vars, player>>

PlayerInit ==
  /\ Init
  /\ command = "CMD_NONE" /\ decoder_command = "CMD_NONE"
  /\ decoder_status = "UNINITIALIZED" /\ player_status = "UNINITIALIZED"
  /\ consumer = "idle" /\ render = "none"
  /\ refused = FALSE

-----------------------------------------------------------------------------
audio_player_stop ==
  /\ command' = "CMD_STOP"
  /\ UNCHANGED <<vars, decoder_command, decoder_status, player_status, task>>

\* audio_player_init, audio_player_start and audio_player_destroy; what they
\* set is only handed out by get_player_status.
SetStatus ==
  /\ player_status' \in {"INITIALIZED", "RUNNING", "UNINITIALIZED"}
  /\ UNCHANGED <<vars, command, decoder_command, decoder_status, task>>

ConsumeStopped ==
  /\ consumer = "idle" /\ command = "CMD_STOP"
  /\ decoder_command' = "CMD_STOP"
  /\ command' = "CMD_NONE"
  /\ UNCHANGED <<vars, decoder_status, player_status, task>>

Consume ==
  /\ consumer = "idle" /\ command # "CMD_STOP"
  /\ consumer' = "write"
  /\ \E n \in 0 .. MaxLen : Write(n)
  /\ UNCHANGED <<command, decoder_command, decoder_status, player_status, render, refused>>

ConsumerWrites == WriteStep /\ UNCHANGED player

\* Mutant: a full FIFO is required before playing.
StartsWhenFull == decoder_status # "RUNNING" /\ (fifoFill * 100) \div SPIRAMSIZE > 100

\* Mutant: a decoder that has ended is started again.
StartsAgain == render \in {"none", "deleted"}

Starts == decoder_status # "RUNNING" /\ (fifoFill * 100) \div SPIRAMSIZE > 50

\* After the write: spiRamFifoFill takes the mutex, and more than half a FIFO
\* of data starts the decoder.
StartDecoder ==
  /\ consumer = "write" /\ wpc = "return" /\ mux = "free"
  /\ consumer' = "idle"
  /\ IF Starts
     THEN \/ /\ decoder_status' = "RUNNING"
             /\ render' = "start"
             /\ UNCHANGED refused
          \/ /\ CreateMayFail
             /\ refused' = TRUE
             /\ UNCHANGED <<decoder_status, render>>
     ELSE UNCHANGED <<decoder_status, render, refused>>
  /\ UNCHANGED <<vars, command, decoder_command, player_status>>

audio_stream_consumer == ConsumeStopped \/ Consume \/ ConsumerWrites \/ StartDecoder

-----------------------------------------------------------------------------
RGotoTask(from, to) ==
  /\ render = from /\ render' = to
  /\ UNCHANGED <<command, decoder_command, decoder_status, player_status, consumer, refused>>

DecoderReads == ReadStep /\ UNCHANGED player

DecoderStart == RGotoTask("start", "reading") /\ Read(RenderLength)

\* A full piece is played and the next one read; a short one is the end.
DecoderPlay ==
  /\ rpc = "return"
  /\ \/ m >= RenderLength /\ RGotoTask("reading", "reading") /\ Read(RenderLength)
     \/ m < RenderLength /\ RGotoTask("reading", "end") /\ UNCHANGED vars

DecoderReset == RGotoTask("end", "reset") /\ Reset

DecoderDelete == rpc = "return" /\ RGotoTask("reset", "deleted") /\ UNCHANGED vars

render_audio == DecoderReads \/ DecoderStart \/ DecoderPlay \/ DecoderReset \/ DecoderDelete

-----------------------------------------------------------------------------
PlayerNext == audio_player_stop \/ SetStatus \/ audio_stream_consumer \/ render_audio

PlayerSpec == PlayerInit /\ [][PlayerNext]_playerVars

\* Both tasks keep running unless they are blocked; nobody has to call.
PlayerFairSpec ==
  /\ PlayerSpec
  /\ WF_playerVars(ConsumerWrites \/ StartDecoder)
  /\ WF_playerVars(render_audio)

-----------------------------------------------------------------------------
(***************************************************************************)
(* Properties                                                              *)
(***************************************************************************)

\* spiRamFifoReset waits for semCanRead with the mutex held
\* (spiram_fifo.c:75): had an earlier reset taken it, the decoder would hang
\* and the consumer behind it.  In the player the token is always there.
ResetFindsToken == rpc = "drain" => semCanRead = 1

\* The consumer looks at the fill level only after its write has returned
\* (audio_player.c:44-56), so it must not block on a full FIFO that nobody
\* reads.  It does so only when the decoder could not be created.
StartsBeforeFull == wpc = "full" /\ decoder_status # "RUNNING" => refused

\* A consumer that blocks on a full FIFO while there is a decoder goes on,
\* even if the decoder is just then taking the FIFO's end for the end of the
\* stream and about to reset the FIFO (spiram_fifo.c:74, 106, 132).
ConsumerWakes == wpc = "full" /\ render \in {"start", "reading", "end"} ~> wpc # "full"

\* audio_player.c:32: audio_stream_consumer "starts decoder task if
\* necessary", so it never stays blocked for want of one.
DecoderIsStarted ==
  wpc = "full" /\ render = "deleted" ~> wpc # "full" \/ render # "deleted"
=============================================================================
