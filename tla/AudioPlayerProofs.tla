------------------------- MODULE AudioPlayerProofs --------------------------
(***************************************************************************)
(* Proofs about the buffered player, for every size of the FIFO, of the    *)
(* chunks and of the pieces.  What SpiRamFifoProofs proves of the FIFO     *)
(* holds in the player as well, whose two tasks only call its functions.   *)
(*                                                                         *)
(* Decoder follows the one life of the task render_audio: its single reset *)
(* is the only one that takes semCanRead.  Room says that, as long as the  *)
(* decoder could always be created, what is left of a write fits into the  *)
(* FIFO until there is a decoder: nobody resets the FIFO before that, so a *)
(* piece is no longer than what the caller has left.                       *)
(***************************************************************************)
EXTENDS AudioPlayer, SpiRamFifoProofs

Decoder ==
  /\ decoder_status = "RUNNING" <=> render # "none"
  /\ render \in {"none", "start", "reading", "end", "reset", "deleted"}
  /\ render \in {"none", "start", "end", "deleted"} => rpc = "return"
  /\ render = "reset" => rpc \in {"drain", "return"}
  /\ rpc = "drain" => render = "reset"
  /\ render \notin {"reset", "deleted"} \/ rpc = "drain" => semCanRead = 1

Room ==
  /\ consumer \in {"idle", "write"} /\ (consumer = "idle" => wpc = "return")
  /\ decoder_status # "RUNNING" /\ ~refused =>
       /\ wpc # "full"
       /\ consumer = "idle" => (fifoFill * 100) \div SPIRAMSIZE <= 50
       /\ wpc # "return" => fifoFill + buffLen <= SPIRAMSIZE
       /\ wpc \in {"cut", "locked"} => wn <= buffLen
       /\ wpc = "cut" => SPIRAMSIZE - fifoWpos < wn

-----------------------------------------------------------------------------
\* The two tasks of the player change the FIFO by its functions alone.
LEMMA FifoSteps ==
  ASSUME [PlayerNext]_playerVars
  PROVE  \/ UNCHANGED vars \/ WriteStep \/ \E n \in 0 .. MaxLen : Write(n)
         \/ ReadStep \/ Reset \/ \E n \in Nat : Read(n)
<1>1. RenderLength \in Nat
  BY PlayerAssumption
<1>2. CASE audio_player_stop \/ SetStatus \/ UNCHANGED playerVars
  BY <1>2 DEF audio_player_stop, SetStatus, playerVars
<1>3. CASE audio_stream_consumer
  BY <1>3 DEF audio_stream_consumer, ConsumeStopped, Consume, ConsumerWrites, StartDecoder
<1>4. CASE render_audio
  BY <1>1, <1>4 DEF render_audio, DecoderReads, DecoderStart, DecoderPlay, DecoderReset, DecoderDelete
<1>5. QED
  BY <1>2, <1>3, <1>4 DEF PlayerNext

\* What is proved of the FIFO holds in the player.
LEMMA FifoInvariance == PlayerSpec => []IInv
<1>1. PlayerInit => IInv
  BY InitIInv DEF PlayerInit
<1>2. IInv /\ [PlayerNext]_playerVars => IInv'
  BY FifoSteps, StutterIInv, WriterIInv, ReaderIInv
<1>3. QED
  BY <1>1, <1>2, PTL DEF PlayerSpec

\* The writing task does not touch what the reading one is at, and never
\* takes semCanRead.
LEMMA WriterLeaves ==
  ASSUME IInv, WriteStep \/ \E n \in 0 .. MaxLen : Write(n)
  PROVE  rpc' = rpc /\ (semCanRead = 1 => semCanRead' = 1)
BY DEF WriteStep, WriteSize, WriteCut, WriteLocked, WriteWait, WriteGive, Write, reader, sems

\* The decoder goes through its life once.
LEMMA DecoderStep == IInv /\ Decoder /\ [PlayerNext]_playerVars => Decoder'
<1> SUFFICES ASSUME IInv, Decoder, [PlayerNext]_playerVars PROVE Decoder'
  OBVIOUS
<1>1. CASE audio_player_stop \/ SetStatus \/ ConsumeStopped \/ UNCHANGED playerVars
  BY <1>1 DEF audio_player_stop, SetStatus, ConsumeStopped, playerVars, player, task,
              vars, sems, reader, Decoder
<1>2. CASE Consume \/ ConsumerWrites
  <2>1. UNCHANGED <<decoder_status, render>>
    BY <1>2 DEF Consume, ConsumerWrites, player, task
  <2>2. rpc' = rpc /\ (semCanRead = 1 => semCanRead' = 1)
    BY <1>2, WriterLeaves DEF Consume, ConsumerWrites
  <2>3. QED
    BY <2>1, <2>2 DEF Decoder
<1>3. CASE StartDecoder
  <2>1. UNCHANGED <<rpc, semCanRead>>
    BY <1>3 DEF StartDecoder, vars, sems, reader
  <2>2. \/ UNCHANGED <<decoder_status, render>>
        \/ decoder_status # "RUNNING" /\ decoder_status' = "RUNNING" /\ render' = "start"
    BY <1>3 DEF StartDecoder, Starts
  <2>3. QED
    BY <2>1, <2>2 DEF Decoder
<1>4. CASE DecoderReads
  <2>1. UNCHANGED <<decoder_status, render>> /\ rpc # "return"
    BY <1>4 DEF DecoderReads, ReadStep, ReadTest, ReadClamp, ReadLocked, ReadGive, ResetTake,
                RGoto, player, task
  <2>2. CASE rpc = "drain"
    <3>1. rpc' = "return"
      BY <1>4, <2>2 DEF DecoderReads, ReadStep, ReadTest, ReadClamp, ReadLocked, ReadGive, ResetTake, RGoto
    <3>2. QED
      BY <2>1, <2>2, <3>1 DEF Decoder
  <2>3. CASE rpc # "drain"
    <3>1. rpc' # "drain" /\ semCanRead' = semCanRead
      BY <1>4, <2>3 DEF DecoderReads, ReadStep, ReadTest, ReadClamp, ReadLocked, ReadGive, ResetTake,
                        RGoto, sems
    <3>2. QED
      BY <2>1, <2>3, <3>1 DEF Decoder
  <2>4. QED
    BY <2>2, <2>3
<1>5. CASE DecoderStart \/ DecoderPlay
  <2>1. /\ render \in {"start", "reading"} /\ decoder_status' = decoder_status
        /\ semCanRead' = semCanRead /\ rpc = "return"
        /\ \/ render' = "reading" /\ rpc' \in {"test", "return"}
           \/ render' = "end" /\ rpc' = "return"
    BY <1>5 DEF DecoderStart, DecoderPlay, RGotoTask, Read, RGoto, vars, sems, reader
  <2>2. QED
    BY <2>1 DEF Decoder
<1>6. CASE DecoderReset
  <2>1. /\ render = "end" /\ render' = "reset" /\ rpc' = "drain" /\ semCanRead' = semCanRead
        /\ decoder_status' = decoder_status
    BY <1>6 DEF DecoderReset, RGotoTask, Reset, RGoto
  <2>2. QED
    BY <2>1 DEF Decoder
<1>7. CASE DecoderDelete
  <2>1. /\ render = "reset" /\ render' = "deleted" /\ rpc = "return" /\ rpc' = rpc
        /\ decoder_status' = decoder_status
    BY <1>7 DEF DecoderDelete, RGotoTask, vars, reader
  <2>2. QED
    BY <2>1 DEF Decoder
<1>8. QED
  BY <1>1, <1>2, <1>3, <1>4, <1>5, <1>6, <1>7 DEF PlayerNext, audio_stream_consumer, render_audio

\* A write that was begun below the level that starts the decoder finds room.
LEMMA RoomStep == IInv /\ Decoder /\ Room /\ [PlayerNext]_playerVars => Room'
<1> SUFFICES ASSUME IInv, Decoder, Room, [PlayerNext]_playerVars PROVE Room'
  OBVIOUS
<1>0. /\ fifoFill \in 0 .. SPIRAMSIZE /\ SPIRAMSIZE \in Nat \ {0} /\ buffLen \in Int /\ wn \in Nat
      /\ MaxLen \in Nat /\ SPIREADSIZE \in Nat /\ fifoWpos \in Nat
  BY FifoAssumption DEF IInv, TypeOK, Cells
<1>1. CASE audio_player_stop \/ SetStatus \/ ConsumeStopped \/ UNCHANGED playerVars
  <2>1. UNCHANGED <<decoder_status, consumer, fifoFill, fifoWpos, wpc, buffLen, wn>>
    BY <1>1 DEF audio_player_stop, SetStatus, ConsumeStopped, playerVars, player, task,
                vars, fifo, writer
  <2>2. refused' = refused
    BY <1>1, Zenon DEF audio_player_stop, SetStatus, ConsumeStopped, playerVars, player, task
  <2>3. QED
    BY <2>1, <2>2 DEF Room
<1>2. CASE Consume
  <2>1. PICK n \in 0 .. MaxLen : Write(n)
    BY <1>2 DEF Consume
  <2>2. /\ consumer = "idle" /\ consumer' = "write" /\ decoder_status' = decoder_status
        /\ fifoFill' = fifoFill /\ buffLen' = n
        /\ wpc' = IF n > 0 THEN "size" ELSE "return"
    BY <1>2, <2>1 DEF Consume, Write, WGoto, fifo
  <2>3. refused' = refused
    BY <1>2, Zenon DEF Consume
  <2>4. ASSUME (fifoFill * 100) \div SPIRAMSIZE <= 50 PROVE fifoFill + n <= SPIRAMSIZE
    <3>1. fifoFill + MaxLen <= SPIRAMSIZE
      BY <1>0, <2>4, PlayerAssumption
    <3>2. QED
      BY <1>0, <3>1
  <2>5. QED
    BY <2>2, <2>3, <2>4 DEF Room
<1>3. CASE ConsumerWrites
  <2>1. UNCHANGED <<decoder_status, consumer>> /\ WriteStep /\ wpc # "return"
    BY <1>3 DEF ConsumerWrites, player, task, WriteStep, WriteSize, WriteCut, WriteLocked, WriteWait, WriteGive, WGoto
  <2>2. refused' = refused
    BY <1>3, Zenon DEF ConsumerWrites, player, task
  <2>3. consumer = "write"
    BY <2>1 DEF Room
  <2>4. ASSUME wpc # "full", fifoFill + buffLen <= SPIRAMSIZE,
               wpc \in {"cut", "locked"} => wn <= buffLen,
               wpc = "cut" => SPIRAMSIZE - fifoWpos < wn
        PROVE  /\ wpc' # "full" /\ fifoFill' + buffLen' <= SPIRAMSIZE
               /\ wpc' \in {"cut", "locked"} => wn' <= buffLen'
               /\ wpc' = "cut" => SPIRAMSIZE - fifoWpos' < wn'
    <3>1. CASE WriteGive \/ WriteWait
      BY <2>4, <3>1 DEF WriteGive, WriteWait, WGoto, fifo
    <3>2. CASE WriteSize
      <4>1. wn' = Min({buffLen, SPIREADSIZE}) /\ UNCHANGED <<fifoFill, fifoWpos, buffLen>>
            /\ wpc' = IF wn' > SPIRAMSIZE - fifoWpos THEN "cut" ELSE "locked"
        BY <3>2 DEF WriteSize, WGoto, PastEnd, fifo
      <4>2. wn' <= buffLen /\ wn' \in Int
        BY <1>0, <4>1, MinOfTwo
      <4>3. QED
        BY <1>0, <2>4, <4>1, <4>2
    <3>3. CASE WriteCut
      <4>1. /\ wpc = "cut" /\ wpc' = "locked" /\ wn' = SPIRAMSIZE - fifoWpos
            /\ UNCHANGED <<fifoFill, fifoWpos, buffLen>>
        BY <3>3 DEF WriteCut, WGoto, fifo
      <4>2. QED
        BY <1>0, <2>4, <4>1
    <3>4. CASE WriteLocked
      <4>1. wpc = "locked" /\ wn <= buffLen
        BY <2>4, <3>4 DEF WriteLocked, WGoto
      <4>2. ~Full
        BY <1>0, <2>4, <4>1 DEF Full
      <4>3. wpc' = "give" /\ buffLen' = buffLen - wn /\ fifoFill' = fifoFill + wn
        BY <3>4, <4>2 DEF WriteLocked, WGoto
      <4>4. QED
        BY <1>0, <2>4, <4>3
    <3>5. QED
      BY <2>1, <3>1, <3>2, <3>3, <3>4 DEF WriteStep
  <2>5. QED
    BY <2>1, <2>2, <2>3, <2>4 DEF Room
<1>4. CASE StartDecoder
  <2>1. consumer' = "idle" /\ wpc = "return" /\ UNCHANGED <<wpc, fifoFill, buffLen>>
    BY <1>4 DEF StartDecoder, vars, fifo, writer
  <2>2. decoder_status' = "RUNNING" \/ refused' \/ (decoder_status' = decoder_status /\ ~Starts)
    BY <1>4, Zenon DEF StartDecoder
  <2>3. ~Starts /\ decoder_status # "RUNNING" => (fifoFill * 100) \div SPIRAMSIZE <= 50
    <3>1. (fifoFill * 100) \div SPIRAMSIZE \in Int
      BY <1>0
    <3>2. QED
      BY <3>1 DEF Starts
  <2>4. QED
    BY <2>1, <2>2, <2>3 DEF Room
<1>5. CASE render_audio
  <2>1. UNCHANGED <<decoder_status, consumer, wpc>>
    BY <1>5 DEF render_audio, DecoderReads, DecoderStart, DecoderPlay, DecoderReset, DecoderDelete,
                RGotoTask, ReadStep, ReadTest, ReadClamp, ReadLocked, ReadGive, ResetTake, Read, Reset,
                player, task, vars, writer
  <2>2. decoder_status = "RUNNING"
    BY <1>5 DEF render_audio, DecoderReads, DecoderStart, DecoderPlay, DecoderReset, DecoderDelete,
                RGotoTask, ReadStep, ReadTest, ReadClamp, ReadLocked, ReadGive, ResetTake, RGoto, Decoder
  <2>3. QED
    BY <2>1, <2>2 DEF Room
<1>6. QED
  BY <1>1, <1>2, <1>3, <1>4, <1>5 DEF PlayerNext, audio_stream_consumer

\* Both hold from the start.
LEMMA PlayerInvariance == PlayerSpec => [](IInv /\ Decoder /\ Room)
<1>1. PlayerInit => Decoder
  BY DEF PlayerInit, Init, Decoder
<1>2. PlayerInit => Room
  <2>1. (0 * 100) \div SPIRAMSIZE <= 50
    BY FifoAssumption
  <2>2. QED
    BY <2>1 DEF PlayerInit, Init, Room
<1>3. QED
  BY <1>1, <1>2, FifoInvariance, DecoderStep, RoomStep, PTL DEF PlayerSpec

\* The reset of the FIFO never waits for semCanRead with the mutex held, so
\* neither task of the player hangs there (spiram_fifo.c:75).
THEOREM ResetNeverHangs == PlayerSpec => []ResetFindsToken
<1>1. Decoder => ResetFindsToken
  BY DEF Decoder, ResetFindsToken
<1>2. QED
  BY <1>1, PlayerInvariance, PTL

\* The consumer blocks on a full FIFO only if there is a decoder, or its
\* creation has failed (audio_player.c:44-56).
THEOREM ConsumerBlocksOnlyWithDecoder == PlayerSpec => []StartsBeforeFull
<1>1. Room => StartsBeforeFull
  BY DEF Room, StartsBeforeFull
<1>2. QED
  BY <1>1, PlayerInvariance, PTL

=============================================================================
