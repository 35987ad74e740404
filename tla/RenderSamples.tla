---------------------------- MODULE RenderSamples ---------------------------
(***************************************************************************)
(* render_samples of ESP32/components/audio_render: the task that calls it *)
(* pushes frames, converted for the built-in DAC, into the DMA buffers of  *)
(* the I2S driver, while the hardware plays these buffers round and round. *)
(* The driver's interrupt handler puts each buffer that has been played    *)
(* into a queue, from which i2s_push_sample takes the next one to fill.    *)
(* (renderer_status is never STOPPED, so the loop's test for it is left    *)
(* out.)                                                                   *)
(*                                                                         *)
(* Sample k of the stream has the value k - Half, the k-th above the least *)
(* of its type, so that the DAC has to be given k.  The value 0 is what    *)
(* the buffers hold at first.  Memory behind the caller's data is taken    *)
(* to hold the smallest value, which becomes 0 as well.                    *)
(***************************************************************************)
EXTENDS Integers, Sequences

CONSTANTS
  Half,           \* half the number of values of a short (2^15 in the program)
  dma_buf_count,  \* 32 in the program
  dma_buf_len,    \* frames per DMA buffer (64 in the program)
  Formats,        \* the contents of wfx: rate, depth, channels
  MaxFrames,      \* bound: the frames in one call
  MaxSamples      \* bound: the samples of all calls

ASSUME RenderAssumption ==
  /\ Half \in Nat \ {0} /\ MaxSamples \in 0 .. 2 * Half - 1
  /\ dma_buf_count \in Nat \ {0, 1} /\ dma_buf_len \in Nat \ {0}
  /\ MaxFrames \in Nat
  /\ \A f \in Formats : /\ f.nSamplesPerSec \in Nat
                        /\ f.wBitsPerSample \in Nat
                        /\ f.nChannels \in Nat

Buffers == 0 .. dma_buf_count - 1
NULL == -1

VARIABLES
  sample_rate,        \* renderer_instance->sample_rate
  pc,                 \* "idle", in the "loop" of render_samples, or "trap"
  nChannels,          \* buf_desc->nChannels
  num_samples, i,
  ptr_l,              \* the offset of the left sample in buf, in samples
  buf_len, first,     \* buf: its length in samples, the number of its first
  dma, queue, curr_ptr, rw_pos,   \* p_i2s_obj[i2s_num]->tx
  playing, at,        \* the buffer, and the frame in it, that comes next
  heard,              \* history: the last sample of the stream that was heard
  ordered,            \* history: the samples heard were 1, 2, 3...
  late,               \* history: a buffer was played before it was refilled
  astray              \* history: the hardware was restarted out of step

call == <<pc, nChannels, num_samples, i, ptr_l, buf_len, first>>
tx == <<dma, queue, curr_ptr, rw_pos>>
hardware == <<playing, at, heard, ordered, late>>
vars == <<sample_rate, call, tx, hardware, astray>>

-----------------------------------------------------------------------------
short(x) == ((x + Half) % (2 * Half)) - Half
uint16_t(x) == x % (2 * Half)

\* Mutant: the bits of the signed sample are sent as they are.
ToDacUnshifted(left) == uint16_t(left)

\* The range -32768..32767 is shifted to 0..65535, in a variable of type short.
ToDac(left) == uint16_t(short(left + Half))

Sample(offset) == (IF offset < buf_len THEN first + offset ELSE 0) - Half

\* A mono buffer has its left sample played on both sides.
FrameAt(ptr) ==
  <<ToDac(Sample(ptr)), ToDac(Sample(IF nChannels = 1 THEN ptr ELSE ptr + 1))>>

Init ==
  /\ sample_rate = 44100
  /\ pc = "idle" /\ nChannels = 2
  /\ num_samples = 0 /\ i = 0 /\ ptr_l = 0 /\ buf_len = 0 /\ first = 1
  /\ dma = [b \in Buffers |-> [k \in 1 .. dma_buf_len |-> <<0, 0>>]]
  /\ queue = <<>> /\ curr_ptr = NULL /\ rw_pos = 0
  /\ playing = 0 /\ at = 1
  /\ heard = 0 /\ ordered = TRUE /\ late = FALSE /\ astray = FALSE

\* uint8_t buf_bytes_per_sample
BytesPerSample(f) == (f.wBitsPerSample \div 8) % 256

\* The beginning of render_samples, for a buffer of whole frames.  The two
\* divisions come before the test for a supported depth.  A new sample rate
\* restarts the hardware at the first buffer and leaves the queue as it is
\* (rates are ones that the clock divider can produce).
Call(f, frames) ==
  LET samples == frames * f.nChannels
      changed == sample_rate # f.nSamplesPerSec
  IN  /\ pc = "idle"
      /\ first + buf_len + samples <= MaxSamples + 1
      /\ sample_rate' = f.nSamplesPerSec
      /\ playing' = IF changed THEN 0 ELSE playing
      /\ at' = IF changed THEN 1 ELSE at
      /\ astray' = (astray \/ (changed /\ (playing # 0 \/ at # 1)))
      /\ \/ /\ BytesPerSample(f) = 0 \/ f.nChannels = 0
            /\ pc' = "trap"
            /\ UNCHANGED <<nChannels, num_samples, i, ptr_l, buf_len, first>>
         \/ /\ BytesPerSample(f) # 0 /\ f.nChannels # 0
            /\ f.wBitsPerSample # 16
            /\ UNCHANGED call
         \/ /\ f.wBitsPerSample = 16 /\ f.nChannels # 0
            /\ pc' = "loop" /\ nChannels' = f.nChannels
            /\ num_samples' = frames /\ i' = 0 /\ ptr_l' = 0
            /\ buf_len' = samples /\ first' = first + buf_len
      /\ UNCHANGED <<tx, heard, ordered, late>>

\* i2s_push_sample of the frame at ptr_l into the current buffer, or into the
\* oldest one of the queue when there is none or it is full.
i2s_push_sample ==
  LET fresh == curr_ptr = NULL \/ rw_pos = dma_buf_len
      b == IF fresh THEN Head(queue) ELSE curr_ptr
      pos == IF fresh THEN 1 ELSE rw_pos + 1
  IN  /\ fresh => queue # <<>>
      /\ dma' = [dma EXCEPT ![b][pos] = FrameAt(ptr_l)]
      /\ curr_ptr' = b /\ rw_pos' = pos
      /\ queue' = IF fresh THEN Tail(queue) ELSE queue

Advance ==
  /\ i' = i + 1 /\ ptr_l' = ptr_l + 2
  /\ UNCHANGED <<pc, nChannels, num_samples, buf_len, first>>

\* Mutant: a frame that could not be pushed is not tried again.
PushedOrGivenUp ==
  i2s_push_sample \/ (queue = <<>> /\ rw_pos \in {0, dma_buf_len} /\ UNCHANGED tx)

\* When no buffer becomes free within 20 ms nothing changes: i is counted
\* down and up again.
Pushed == i2s_push_sample

\* One turn of the loop.
Push ==
  /\ pc = "loop" /\ i < num_samples
  /\ Pushed /\ Advance
  /\ UNCHANGED <<sample_rate, hardware, astray>>

Return ==
  /\ pc = "loop" /\ i >= num_samples
  /\ pc' = "idle"
  /\ UNCHANGED <<sample_rate, nChannels, num_samples, i, ptr_l, buf_len, first, tx, hardware, astray>>

-----------------------------------------------------------------------------
\* The hardware plays a frame.
Hear(f) ==
  /\ ordered' = (ordered /\ (f = <<0, 0>> \/ f = <<heard + 1, heard + 2>>))
  /\ heard' = IF f = <<heard + 1, heard + 2>> THEN heard + 2 ELSE heard

PlayFrame ==
  /\ at < dma_buf_len
  /\ at' = at + 1
  /\ Hear(dma[playing][at])
  /\ UNCHANGED <<sample_rate, call, tx, playing, late, astray>>

\* Mutant: nothing is dropped from a queue that is full.
InterruptKeeps(b) == queue' = Append(queue, b)

\* Mutant: it is the buffer just played that is dropped.
InterruptDropsNewest(b) ==
  queue' = IF Len(queue) = dma_buf_count - 1 THEN queue ELSE Append(queue, b)

\* Mutant: the buffer is only dropped, not put in.
InterruptForgets(b) ==
  queue' = IF Len(queue) = dma_buf_count - 1 THEN Tail(queue) ELSE queue

\* The interrupt at the end of a buffer; the queue has room for all but one.
i2s_intr_handler_default(b) ==
  queue' = Append(IF Len(queue) = dma_buf_count - 1 THEN Tail(queue) ELSE queue, b)

\* The buffers that are free, and the one that is being filled.
Unready ==
  {queue[k] : k \in 1 .. Len(queue)} \cup (IF rw_pos < dma_buf_len THEN {curr_ptr} ELSE {})

PlayLast ==
  /\ at = dma_buf_len
  /\ at' = 1 /\ playing' = (playing + 1) % dma_buf_count
  /\ Hear(dma[playing][at])
  /\ i2s_intr_handler_default(playing)
  /\ late' = (late \/ (curr_ptr # NULL /\ playing' \in Unready))
  /\ UNCHANGED <<sample_rate, call, dma, curr_ptr, rw_pos, astray>>

Play == PlayFrame \/ PlayLast
render_samples == Push \/ Return \/ \E f \in Formats, n \in 0 .. MaxFrames : Call(f, n)

Next == render_samples \/ Play

Spec == Init /\ [][Next]_vars

\* The task and the hardware keep running; nobody has to call render_samples.
FairSpec == Spec /\ WF_vars(Push \/ Return) /\ WF_vars(Play)

-----------------------------------------------------------------------------
(***************************************************************************)
(* Properties                                                              *)
(***************************************************************************)

\* Every variable keeps its type; in particular the queue never holds more
\* than it was created for (i2s.c:479) and rw_pos stays inside its buffer.
TypeOK ==
  /\ sample_rate \in Nat
  /\ pc \in {"idle", "loop", "trap"}
  /\ nChannels \in Nat /\ num_samples \in Nat /\ i \in 0 .. num_samples
  /\ ptr_l \in Nat /\ buf_len \in Nat /\ first \in Nat
  /\ dma \in [Buffers -> [1 .. dma_buf_len -> Seq(0 .. 2 * Half - 1)]]
  /\ queue \in Seq(Buffers) /\ Len(queue) < dma_buf_count
  /\ curr_ptr \in Buffers \cup {NULL} /\ rw_pos \in 0 .. dma_buf_len
  /\ playing \in Buffers /\ at \in 1 .. dma_buf_len
  /\ heard \in Nat /\ ordered \in BOOLEAN /\ late \in BOOLEAN /\ astray \in BOOLEAN

\* What is heard is the stream, each sample once, in order and on its side,
\* shifted to the DAC's range: the retry neither drops nor repeats a frame
\* (audio_render.c:178-231).  It takes a buffer that is played before it has
\* been refilled, or a change of the rate in mid-buffer, to break that.
HeardInOrder == ~late /\ ~astray => ordered

\* The queue holds the buffers that were played last, in the order in which
\* the hardware will come to them again, although the handler drops from its
\* front what i2s_push_sample would have taken (audio_render.c:196).
QueueIsRecent ==
  ~astray => \A k \in 1 .. Len(queue) :
    queue[k] = (playing + dma_buf_count - Len(queue) + k - 1) % dma_buf_count

\* What the handler takes for an underflow is one: before it appends, it finds
\* the queue full exactly when the hardware goes on to a buffer that nobody has
\* begun to refill (i2s.c:361-362, "All buffers are empty").  A buffer that is
\* reached partly refilled goes unnoticed.
FullMeansUnderflow ==
  [][~astray' /\ playing' # playing =>
       (Len(queue) = dma_buf_count - 1 <=> \E k \in 1 .. Len(queue) : queue[k] = playing')]_vars

\* A call of render_samples returns, although its retry has no limit.
RenderReturns == pc = "loop" ~> pc = "idle"

\* wav.h:9 has nChannels count the channels "(i.e. mono, stereo...)", and
\* audio_render.c:172 provides for one: the samples of a call are all there
\* is to play, so the left pointer stays inside the buffer.
ReadsStayInBuffer == pc = "loop" /\ i < num_samples => ptr_l < buf_len
=============================================================================
