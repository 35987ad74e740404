------------------------- MODULE RenderSamplesProofs ------------------------
(***************************************************************************)
(* Proofs about render_samples and the DMA buffers, for every number and   *)
(* length of the buffers and every range of the samples.                   *)
(*                                                                         *)
(* Seen from the buffer that is being played, the queue holds the buffers  *)
(* that are furthest ahead (Queued), and the one that is being filled is   *)
(* right before them (Current).  How long ago a frame in one of the        *)
(* buffers before it was pushed follows from that distance (Behind), and   *)
(* with it the sample that it must hold (Streamed).                        *)
(***************************************************************************)
EXTENDS RenderSamples, SequenceTheorems, TLAPS

-----------------------------------------------------------------------------
\* Going round at most once, in either direction.
LEMMA Around ==
  ASSUME NEW n \in Nat \ {0}, NEW x \in Int, -n <= x, x < 2 * n
  PROVE  /\ x < 0 => x % n = x + n
         /\ 0 <= x /\ x < n => x % n = x
         /\ n <= x => x % n = x - n
<1>1. x < 0 => x % n = x + n
  OBVIOUS
<1>2. 0 <= x /\ x < n => x % n = x
  OBVIOUS
<1>3. n <= x => x % n = x - n
  OBVIOUS
<1>4. QED
  BY <1>1, <1>2, <1>3

\* The shift into the range of the DAC, with its intermediate variable of type
\* short, takes the k-th smallest sample to k (audio_render.c:188-194).
LEMMA ToDacFacts ==
  /\ \A x \in Int : ToDac(x) \in 0 .. 2 * Half - 1
  /\ \A k \in 0 .. 2 * Half - 1 : ToDac(k - Half) = k
<1> DEFINE n == 2 * Half
<1>1. Half \in Nat \ {0} /\ n \in Nat \ {0} /\ n = 2 * Half
  BY RenderAssumption
<1>2. ASSUME NEW x \in Int PROVE ToDac(x) \in 0 .. n - 1
  <2>1. short(x + Half) \in Int
    BY <1>1 DEF short
  <2>2. QED
    BY <1>1, <2>1 DEF ToDac, uint16_t
<1>3. ASSUME NEW k \in 0 .. n - 1 PROVE ToDac(k - Half) = k
  <2>1. k \in Int /\ 0 <= k /\ k < n /\ (k - Half) + Half = k
    BY <1>1
  <2>2. short(k) = ((k + Half) % n) - Half /\ ToDac(k - Half) = short(k) % n
    BY <2>1 DEF short, ToDac, uint16_t
  <2> HIDE DEF n
  <2>3. /\ k < Half => (k + Half) % n = k + Half
        /\ k >= Half => (k + Half) % n = k + Half - n
    <3>1. /\ k + Half \in Int /\ -n <= k + Half /\ k + Half < 2 * n /\ 0 <= k + Half
          /\ k < Half => k + Half < n
          /\ k >= Half => n <= k + Half
      BY <1>1, <2>1
    <3>2. /\ 0 <= k + Half /\ k + Half < n => (k + Half) % n = k + Half
          /\ n <= k + Half => (k + Half) % n = (k + Half) - n
      BY <1>1, <3>1, Around
    <3>3. QED
      BY <1>1, <2>1, <3>1, <3>2
  <2>4. /\ k < Half => short(k) = k
        /\ k >= Half => short(k) = k - n
    BY <1>1, <2>1, <2>2, <2>3
  <2>5. \A x \in Int : /\ 0 <= x /\ x < n => x % n = x
                       /\ -n <= x /\ x < 0 => x % n = x + n
    <3>1. ASSUME NEW x \in Int, 0 <= x, x < n PROVE x % n = x
      BY <1>1, <3>1, Around
    <3>2. ASSUME NEW x \in Int, -n <= x, x < 0 PROVE x % n = x + n
      <4>1. x < 2 * n
        BY <1>1, <3>2
      <4>2. QED
        BY <1>1, <3>2, <4>1, Around
    <3>3. QED
      BY <3>1, <3>2
  <2>6. CASE k < Half
    BY <2>1, <2>2, <2>4, <2>5, <2>6
  <2>7. CASE k >= Half
    <3>1. k - n \in Int /\ -n <= k - n /\ k - n < 0 /\ (k - n) + n = k
      BY <1>1, <2>1
    <3>2. (k - n) % n = (k - n) + n
      BY <2>5, <3>1
    <3>3. QED
      BY <2>2, <2>4, <2>7, <3>1, <3>2
  <2>8. QED
    BY <1>1, <2>1, <2>6, <2>7
<1>4. QED
  BY <1>2, <1>3

\* The types that the steps below need, one by one.
LEMMA Types ==
  ASSUME TypeOK
  PROVE  /\ dma_buf_count \in Nat /\ dma_buf_count > 1 /\ dma_buf_len \in Nat /\ dma_buf_len > 0
         /\ \A b \in Buffers : b \in Nat /\ b < dma_buf_count /\ b # NULL
         /\ queue \in Seq(Buffers) /\ Len(queue) \in Nat /\ Len(queue) < dma_buf_count
         /\ \A k \in 1 .. Len(queue) : queue[k] \in Buffers
         /\ playing \in Buffers /\ at \in Nat /\ 0 < at /\ at <= dma_buf_len
         /\ rw_pos \in Nat /\ rw_pos <= dma_buf_len
         /\ curr_ptr = NULL \/ curr_ptr \in Buffers
<1>1. /\ dma_buf_count \in Nat /\ dma_buf_count > 1 /\ dma_buf_len \in Nat /\ dma_buf_len > 0
  BY RenderAssumption
<1>2. \A b \in Buffers : b \in Nat /\ b < dma_buf_count /\ b # NULL
  BY <1>1 DEF Buffers, NULL
<1>3. queue \in Seq(Buffers) /\ Len(queue) \in Nat /\ \A k \in 1 .. Len(queue) : queue[k] \in Buffers
  BY DEF TypeOK
<1>4. QED
  BY <1>1, <1>2, <1>3 DEF TypeOK

\* The buffer and the place in it that i2s_push_sample fills, and the queue
\* that it leaves.
Fresh == curr_ptr = NULL \/ rw_pos = dma_buf_len
Target == IF Fresh THEN Head(queue) ELSE curr_ptr
Place == IF Fresh THEN 1 ELSE rw_pos + 1

\* What i2s_push_sample does, one by one.
LEMMA PushFacts ==
  ASSUME TypeOK, i2s_push_sample
  PROVE  /\ Target \in Buffers /\ Place \in 1 .. dma_buf_len
         /\ dma' = [dma EXCEPT ![Target] = [@ EXCEPT ![Place] = FrameAt(ptr_l)]]
         /\ curr_ptr' = Target /\ rw_pos' = Place
         /\ IF Fresh THEN /\ Len(queue) > 0 /\ Target = queue[1] /\ queue' \in Seq(Buffers)
                          /\ Len(queue') = Len(queue) - 1
                          /\ \A k \in 1 .. Len(queue') : queue'[k] = queue[k + 1]
                     ELSE queue' = queue
<1>1. /\ Fresh => queue # <<>>
      /\ dma' = [dma EXCEPT ![Target][Place] = FrameAt(ptr_l)]
      /\ curr_ptr' = Target /\ rw_pos' = Place
      /\ queue' = IF Fresh THEN Tail(queue) ELSE queue
  BY DEF i2s_push_sample, Fresh, Target, Place
<1>2. CASE Fresh
  <2>1. queue \in Seq(Buffers) /\ queue # <<>> /\ queue' = Tail(queue) /\ Target = Head(queue)
    BY <1>1, <1>2 DEF TypeOK, Target
  <2>2. /\ Head(queue) = queue[1] /\ Head(queue) \in Buffers
        /\ Tail(queue) \in Seq(Buffers) /\ Len(Tail(queue)) = Len(queue) - 1
        /\ \A k \in 1 .. Len(Tail(queue)) : Tail(queue)[k] = queue[k + 1]
    BY <2>1, HeadTailProperties
  <2>3. Len(queue) > 0
    BY <2>1, EmptySeq, LenProperties
  <2>4. Place = 1 /\ 1 \in 1 .. dma_buf_len
    BY <1>2, Types DEF Place
  <2>5. QED
    BY <1>1, <1>2, <2>1, <2>2, <2>3, <2>4
<1>3. CASE ~Fresh
  <2>1. Target = curr_ptr /\ Place = rw_pos + 1
    BY <1>3 DEF Target, Place
  <2>2. curr_ptr \in Buffers /\ rw_pos + 1 \in 1 .. dma_buf_len
    BY <1>3, Types DEF Fresh
  <2>3. QED
    BY <1>1, <1>3, <2>1, <2>2
<1>4. QED
  BY <1>2, <1>3

\* The queue that the interrupt at the end of a buffer leaves.
LEMMA InterruptFacts ==
  ASSUME TypeOK, PlayLast
  PROVE  /\ queue' \in Seq(Buffers)
         /\ playing' = IF playing = dma_buf_count - 1 THEN 0 ELSE playing + 1
         /\ IF Len(queue) = dma_buf_count - 1
            THEN /\ Len(queue') = Len(queue)
                 /\ \A k \in 1 .. Len(queue) - 1 : queue'[k] = queue[k + 1]
                 /\ queue'[Len(queue)] = playing
            ELSE /\ Len(queue') = Len(queue) + 1
                 /\ \A k \in 1 .. Len(queue) : queue'[k] = queue[k]
                 /\ queue'[Len(queue) + 1] = playing
<1> DEFINE n == Len(queue)
           full == n = dma_buf_count - 1
           rest == IF full THEN Tail(queue) ELSE queue
<1>1. queue' = Append(rest, playing) /\ playing' = (playing + 1) % dma_buf_count
  BY DEF PlayLast, i2s_intr_handler_default
<1>2. playing' = IF playing = dma_buf_count - 1 THEN 0 ELSE playing + 1
  <2> DEFINE y == playing + 1
  <2>1. dma_buf_count \in Nat \ {0} /\ y \in Int /\ -dma_buf_count <= y /\ y < 2 * dma_buf_count /\ ~(y < 0)
    BY Types
  <2> HIDE DEF y
  <2>2. /\ 0 <= y /\ y < dma_buf_count => y % dma_buf_count = y
        /\ dma_buf_count <= y => y % dma_buf_count = y - dma_buf_count
    BY <2>1, Around
  <2>3. QED
    BY <1>1, <2>2, Types DEF y
<1>3. playing \in Buffers /\ queue \in Seq(Buffers) /\ n \in Nat /\ dma_buf_count \in Nat /\ dma_buf_count > 1
  BY Types
<1>4. CASE full
  <2>1. queue # <<>>
    BY <1>3, <1>4, EmptySeq
  <2>2. /\ Tail(queue) \in Seq(Buffers) /\ Len(Tail(queue)) = n - 1
        /\ \A k \in 1 .. n - 1 : Tail(queue)[k] = queue[k + 1]
    BY <1>3, <2>1, HeadTailProperties
  <2>3. queue' = Append(Tail(queue), playing)
    BY <1>1, <1>4
  <2>4. /\ queue' \in Seq(Buffers) /\ Len(queue') = (n - 1) + 1
        /\ \A k \in 1 .. n - 1 : queue'[k] = Tail(queue)[k]
        /\ queue'[(n - 1) + 1] = playing
    BY <1>3, <2>2, <2>3, AppendProperties
  <2>5. (n - 1) + 1 = n
    BY <1>3
  <2>6. QED
    BY <1>2, <1>4, <2>2, <2>4, <2>5
<1>5. CASE ~full
  <2>1. queue' = Append(queue, playing)
    BY <1>1, <1>5
  <2>2. QED
    BY <1>2, <1>3, <1>5, <2>1, AppendProperties
<1>6. QED
  BY <1>4, <1>5

-----------------------------------------------------------------------------
\* The frame that is pushed has its two samples in the range of the DAC.
LEMMA FrameType == ASSUME TypeOK PROVE FrameAt(ptr_l) \in Seq(0 .. 2 * Half - 1)
<1>1. \A p \in Nat : Sample(p) \in Int
  BY RenderAssumption DEF TypeOK, Sample
<1>2. ptr_l \in Nat /\ ptr_l + 1 \in Nat
  BY DEF TypeOK
<1>3. \A p \in Nat : ToDac(Sample(p)) \in 0 .. 2 * Half - 1
  BY <1>1, ToDacFacts
<1>4. QED
  BY <1>2, <1>3 DEF FrameAt

\* Every step keeps the types.
LEMMA TypeStep == TypeOK /\ [Next]_vars => TypeOK'
<1> SUFFICES ASSUME TypeOK, [Next]_vars PROVE TypeOK'
  OBVIOUS
<1>1. CASE Push
  <2>1. /\ pc = "loop" /\ i < num_samples /\ i' = i + 1 /\ ptr_l' = ptr_l + 2
        /\ UNCHANGED <<pc, nChannels, num_samples, buf_len, first, sample_rate, playing, at, heard>>
        /\ i2s_push_sample
    BY <1>1 DEF Push, Pushed, Advance, hardware
  <2>2. ordered' \in BOOLEAN /\ late' \in BOOLEAN /\ astray' \in BOOLEAN
    BY <1>1, Zenon DEF Push, hardware, TypeOK
  <2>3. i' \in 0 .. num_samples /\ ptr_l' \in Nat
    BY <2>1 DEF TypeOK
  <2>4. dma' \in [Buffers -> [1 .. dma_buf_len -> Seq(0 .. 2 * Half - 1)]]
    <3> DEFINE Row == [1 .. dma_buf_len -> Seq(0 .. 2 * Half - 1)]
               row == [dma[Target] EXCEPT ![Place] = FrameAt(ptr_l)]
    <3>1. /\ Target \in Buffers /\ Place \in 1 .. dma_buf_len /\ dma \in [Buffers -> Row]
          /\ dma' = [dma EXCEPT ![Target] = row]
      BY <2>1, PushFacts DEF TypeOK
    <3>2. row \in Row
      BY <3>1, FrameType
    <3> HIDE DEF row, Row
    <3>3. dma' \in [Buffers -> Row]
      BY <3>1, <3>2
    <3>4. QED
      BY <3>3 DEF Row
  <2>5. queue' \in Seq(Buffers) /\ Len(queue') < dma_buf_count
    BY <2>1, PushFacts, Types
  <2>6. curr_ptr' \in Buffers \cup {NULL} /\ rw_pos' \in 0 .. dma_buf_len
    BY <2>1, PushFacts, Types
  <2>7. QED
    BY <2>1, <2>2, <2>3, <2>4, <2>5, <2>6 DEF TypeOK
<1>2. CASE Return
  <2>1. ordered' \in BOOLEAN /\ late' \in BOOLEAN /\ astray' \in BOOLEAN
    BY <1>2, Zenon DEF Return, hardware, TypeOK
  <2>2. QED
    BY <1>2, <2>1 DEF Return, hardware, tx, TypeOK
<1>3. ASSUME NEW f \in Formats, NEW n \in 0 .. MaxFrames, Call(f, n) PROVE TypeOK'
  <2>1. ordered' \in BOOLEAN /\ late' \in BOOLEAN /\ astray' \in BOOLEAN
    BY <1>3, Zenon DEF Call, TypeOK
  <2>2. n \in Nat /\ f.nChannels \in Nat /\ f.nSamplesPerSec \in Nat /\ n * f.nChannels \in Nat
    BY RenderAssumption
  <2>3. sample_rate' \in Nat /\ heard' \in Nat /\ UNCHANGED tx
    BY <1>3, <2>2 DEF Call, TypeOK
  <2>4. playing' \in Buffers /\ at' \in 1 .. dma_buf_len
    <3>1. 0 \in Buffers /\ 1 \in 1 .. dma_buf_len
      BY Types DEF Buffers
    <3>2. QED
      BY <1>3, <3>1 DEF Call, TypeOK
  <2>5. /\ pc' \in {"idle", "loop", "trap"} /\ nChannels' \in Nat /\ num_samples' \in Nat
        /\ i' \in 0 .. num_samples' /\ ptr_l' \in Nat /\ buf_len' \in Nat /\ first' \in Nat
    <3>1. CASE UNCHANGED <<nChannels, num_samples, i, ptr_l, buf_len, first>> /\ pc' \in {"trap", pc}
      BY <3>1 DEF TypeOK
    <3>2. CASE /\ pc' = "loop" /\ nChannels' = f.nChannels
               /\ num_samples' = n /\ i' = 0 /\ ptr_l' = 0
               /\ buf_len' = n * f.nChannels /\ first' = first + buf_len
      BY <2>2, <3>2 DEF TypeOK
    <3>3. QED
      BY <1>3, <3>1, <3>2 DEF Call, call
  <2>6. QED
    BY <2>1, <2>3, <2>4, <2>5 DEF TypeOK, tx
<1>4. CASE PlayFrame
  <2>1. ordered' \in BOOLEAN /\ late' \in BOOLEAN /\ astray' \in BOOLEAN
    BY <1>4, Zenon DEF PlayFrame, Hear, TypeOK
  <2>2. heard' \in Nat /\ at' \in 1 .. dma_buf_len
    BY <1>4, Types DEF PlayFrame, Hear, TypeOK
  <2>3. UNCHANGED <<sample_rate, call, tx, playing>>
    BY <1>4 DEF PlayFrame
  <2>4. QED
    BY <2>1, <2>2, <2>3 DEF TypeOK, call, tx
<1>5. CASE PlayLast
  <2>1. ordered' \in BOOLEAN /\ late' \in BOOLEAN /\ astray' \in BOOLEAN
    BY <1>5, Zenon DEF PlayLast, Hear, TypeOK
  <2>2. heard' \in Nat /\ at' \in 1 .. dma_buf_len
    BY <1>5, Types DEF PlayLast, Hear, TypeOK
  <2>3. playing' \in Buffers /\ queue' \in Seq(Buffers) /\ Len(queue') < dma_buf_count
    <3>1. /\ playing \in Nat /\ playing < dma_buf_count /\ dma_buf_count \in Nat /\ dma_buf_count > 1
          /\ Len(queue) \in Nat /\ Len(queue) < dma_buf_count
      BY Types
    <3>2. /\ queue' \in Seq(Buffers)
          /\ playing' = IF playing = dma_buf_count - 1 THEN 0 ELSE playing + 1
          /\ IF Len(queue) = dma_buf_count - 1 THEN Len(queue') = Len(queue)
                                              ELSE Len(queue') = Len(queue) + 1
      BY <1>5, InterruptFacts
    <3>3. playing' \in Buffers
      BY <3>1, <3>2 DEF Buffers
    <3>4. Len(queue') < dma_buf_count
      BY <3>1, <3>2
    <3>5. QED
      BY <3>2, <3>3, <3>4
  <2>4. UNCHANGED <<sample_rate, call, dma, curr_ptr, rw_pos>>
    BY <1>5 DEF PlayLast
  <2>5. QED
    BY <2>1, <2>2, <2>3, <2>4 DEF TypeOK, call
<1>6. CASE UNCHANGED vars
  <2>1. ordered' \in BOOLEAN /\ late' \in BOOLEAN /\ astray' \in BOOLEAN
    BY <1>6, Zenon DEF vars, hardware, TypeOK
  <2>2. QED
    BY <1>6, <2>1 DEF vars, call, tx, hardware, TypeOK
<1>7. QED
  BY <1>1, <1>2, <1>3, <1>4, <1>5, <1>6 DEF Next, render_samples, Play

\* For every number and length of the DMA buffers, every variable keeps its
\* type: the queue never holds more than it was created for, and no frame is
\* stored outside of its buffer (audio_render.c:196, i2s.c:479).
THEOREM TypeCorrect == Spec => []TypeOK
<1>1. Init => TypeOK
  <2> SUFFICES ASSUME Init PROVE TypeOK
    OBVIOUS
  <2>1. ordered \in BOOLEAN /\ late \in BOOLEAN /\ astray \in BOOLEAN
    <3>1. ordered = TRUE /\ late = FALSE /\ astray = FALSE
      BY DEF Init
    <3>2. QED
      BY <3>1, Zenon
  <2>2. 0 \in 0 .. 2 * Half - 1 /\ 0 \in Buffers /\ 1 \in 1 .. dma_buf_len
    BY RenderAssumption DEF Buffers
  <2>3. <<0, 0>> \in Seq(0 .. 2 * Half - 1)
    BY <2>2
  <2>4. dma \in [Buffers -> [1 .. dma_buf_len -> Seq(0 .. 2 * Half - 1)]]
    BY <2>3 DEF Init
  <2>5. queue \in Seq(Buffers) /\ Len(queue) < dma_buf_count
    BY RenderAssumption DEF Init
  <2>6. QED
    BY <2>1, <2>2, <2>4, <2>5, RenderAssumption DEF Init, TypeOK
<1>2. QED
  BY <1>1, TypeStep, PTL DEF Spec

-----------------------------------------------------------------------------
\* How many buffers after p the hardware comes to b.
Ahead(p, b) == IF b >= p THEN b - p ELSE b - p + dma_buf_count

\* The queue holds the buffers that are furthest ahead, in order.
Queued ==
  ~astray => \A k \in 1 .. Len(queue) : Ahead(playing, queue[k]) = dma_buf_count - Len(queue) + k - 1

\* A buffer that is being filled holds at least one frame.
Filling == IF curr_ptr = NULL THEN rw_pos = 0 ELSE rw_pos > 0

\* It comes right before the buffers in the queue, and is full when it is played.
Current ==
  ~astray /\ ~late /\ curr_ptr # NULL =>
    /\ Ahead(playing, curr_ptr) = dma_buf_count - Len(queue) - 1
    /\ playing = curr_ptr => rw_pos = dma_buf_len

QInv == TypeOK /\ Queued /\ Filling /\ Current

\* Distances are below the number of buffers and tell the buffers apart.
LEMMA AheadFacts ==
  ASSUME NEW p \in Buffers, NEW b \in Buffers
  PROVE  /\ Ahead(p, b) \in Nat /\ Ahead(p, b) < dma_buf_count
         /\ Ahead(p, b) = 0 <=> b = p
         /\ \A c \in Buffers : Ahead(p, c) = Ahead(p, b) => c = b
BY RenderAssumption DEF Ahead, Buffers

\* When the hardware goes on to the next buffer, every other one is nearer by
\* one, and the one it leaves is now the furthest.
LEMMA AheadNext ==
  ASSUME TypeOK, PlayLast
  PROVE  /\ playing' \in Buffers /\ Ahead(playing, playing') = 1
         /\ Ahead(playing', playing) = dma_buf_count - 1
         /\ \A b \in Buffers : b # playing => Ahead(playing', b) = Ahead(playing, b) - 1
<1>1. /\ playing' = IF playing = dma_buf_count - 1 THEN 0 ELSE playing + 1
      /\ playing \in Nat /\ playing < dma_buf_count /\ dma_buf_count \in Nat /\ dma_buf_count > 1
      /\ \A b \in Buffers : b \in Nat /\ b < dma_buf_count
  BY InterruptFacts, Types
<1>2. CASE playing = dma_buf_count - 1
  BY <1>1, <1>2 DEF Ahead, Buffers
<1>3. CASE playing # dma_buf_count - 1
  BY <1>1, <1>3 DEF Ahead, Buffers
<1>4. QED
  BY <1>2, <1>3

\* A call that leaves the hardware in step leaves it where it is.
LEMMA CallFacts ==
  ASSUME NEW f \in Formats, NEW n \in 0 .. MaxFrames, Call(f, n), ~astray'
  PROVE  UNCHANGED <<playing, at>> /\ ~astray
<1>1. ~astray /\ ~(sample_rate # f.nSamplesPerSec /\ (playing # 0 \/ at # 1))
  BY Zenon DEF Call
<1>2. /\ playing' = IF sample_rate # f.nSamplesPerSec THEN 0 ELSE playing
      /\ at' = IF sample_rate # f.nSamplesPerSec THEN 1 ELSE at
  BY DEF Call
<1>3. CASE sample_rate = f.nSamplesPerSec
  BY <1>1, <1>2, <1>3
<1>4. CASE sample_rate # f.nSamplesPerSec
  BY <1>1, <1>2, <1>4
<1>5. QED
  BY <1>3, <1>4

\* A push keeps the queue and the current buffer in step.
LEMMA PushQueue == ASSUME QInv, Push PROVE Queued' /\ Filling' /\ Current'
<1>1. TypeOK /\ i2s_push_sample /\ UNCHANGED <<playing>>
  BY DEF QInv, Push, Pushed, hardware
<1>2. UNCHANGED <<late, astray>>
  BY DEF Push, hardware
<1>3. /\ Target \in Buffers /\ Place \in 1 .. dma_buf_len /\ curr_ptr' = Target /\ rw_pos' = Place
      /\ dma_buf_count \in Nat /\ Len(queue) \in Nat /\ Len(queue) < dma_buf_count
      /\ playing \in Buffers /\ dma_buf_len \in Nat
  BY <1>1, PushFacts, Types
<1>4. Filling'
  BY <1>3, Types DEF Filling, QInv
<1>5. CASE Fresh
  <2>1. /\ Len(queue) > 0 /\ Target = queue[1] /\ Len(queue') = Len(queue) - 1 /\ Place = 1
        /\ \A k \in 1 .. Len(queue') : queue'[k] = queue[k + 1]
    BY <1>1, <1>5, PushFacts DEF Place
  <2>2. ASSUME ~astray'
        PROVE  /\ \A k \in 1 .. Len(queue') :
                    Ahead(playing, queue'[k]) = dma_buf_count - Len(queue') + k - 1
               /\ Ahead(playing, Target) = dma_buf_count - Len(queue)
    <3>1. \A k \in 1 .. Len(queue) : Ahead(playing, queue[k]) = dma_buf_count - Len(queue) + k - 1
      BY <1>2, <2>2 DEF QInv, Queued
    <3>2. Ahead(playing, queue[1]) = dma_buf_count - Len(queue) + 1 - 1
      BY <1>3, <2>1, <3>1
    <3>3. ASSUME NEW k \in 1 .. Len(queue')
          PROVE  Ahead(playing, queue'[k]) = dma_buf_count - Len(queue') + k - 1
      <4>1. k + 1 \in 1 .. Len(queue)
        BY <1>3, <2>1
      <4>2. Ahead(playing, queue[k + 1]) = dma_buf_count - Len(queue) + (k + 1) - 1
        BY <3>1, <4>1
      <4>3. queue'[k] = queue[k + 1]
        BY <2>1
      <4>4. QED
        BY <1>3, <2>1, <4>2, <4>3
    <3>4. QED
      BY <1>3, <2>1, <3>2, <3>3
  <2>3. Queued'
    BY <1>1, <2>2 DEF Queued
  <2>4. Current'
    <3>1. SUFFICES ASSUME ~astray'
                   PROVE  /\ Ahead(playing, Target) = dma_buf_count - Len(queue') - 1
                          /\ playing # Target
      BY <1>1, <1>3 DEF Current
    <3>2. Ahead(playing, Target) = dma_buf_count - Len(queue) /\ Ahead(playing, Target) > 0
      BY <1>3, <2>2, <3>1
    <3>3. QED
      BY <1>3, <2>1, <3>2, AheadFacts
  <2>5. QED
    BY <1>4, <2>3, <2>4
<1>6. CASE ~Fresh
  <2>1. queue' = queue /\ curr_ptr' = curr_ptr /\ curr_ptr # NULL /\ rw_pos # dma_buf_len
    BY <1>1, <1>3, <1>6, PushFacts DEF Fresh, Target
  <2>2. Queued'
    BY <1>1, <1>2, <2>1 DEF QInv, Queued
  <2>3. Current'
    BY <1>1, <1>2, <2>1 DEF QInv, Current
  <2>4. QED
    BY <1>4, <2>2, <2>3
<1>7. QED
  BY <1>5, <1>6

\* So does the interrupt at the end of a buffer.
LEMMA PlayLastQueue ==
  ASSUME QInv, PlayLast
  PROVE  /\ Queued' /\ Filling' /\ Current'
         /\ ~astray /\ ~late' /\ curr_ptr # NULL => Ahead(playing, curr_ptr) > 0
<1> DEFINE n == Len(queue)
<1>1. /\ TypeOK /\ UNCHANGED <<curr_ptr, rw_pos>>
      /\ playing \in Buffers /\ playing' \in Buffers /\ Ahead(playing, playing') = 1
      /\ Ahead(playing', playing) = dma_buf_count - 1
      /\ \A b \in Buffers : b # playing => Ahead(playing', b) = Ahead(playing, b) - 1
  BY AheadNext, Types DEF QInv, PlayLast
<1>2. /\ n \in Nat /\ n < dma_buf_count /\ dma_buf_count \in Nat /\ dma_buf_count > 1
      /\ \A k \in 1 .. n : queue[k] \in Buffers
      /\ curr_ptr # NULL => curr_ptr \in Buffers
      /\ rw_pos \in Nat /\ rw_pos <= dma_buf_len /\ dma_buf_len \in Nat
  BY <1>1, Types
<1>3. UNCHANGED astray
  BY DEF PlayLast
<1>4. late' <=> late \/ (curr_ptr # NULL /\ playing' \in Unready)
  BY Zenon DEF PlayLast
<1>5. ASSUME ~astray
      PROVE  \A k \in 1 .. n : Ahead(playing, queue[k]) = dma_buf_count - n + k - 1
  BY <1>5 DEF QInv, Queued
<1>6. ASSUME ~astray, NEW k \in 1 .. n, n # dma_buf_count - 1 \/ k # 1
      PROVE  Ahead(playing', queue[k]) = dma_buf_count - n + k - 2
  <2>1. Ahead(playing, queue[k]) = dma_buf_count - n + k - 1 /\ queue[k] \in Buffers
    BY <1>2, <1>5, <1>6
  <2>2. Ahead(playing, queue[k]) > 0
    BY <1>2, <2>1
  <2>3. queue[k] # playing
    BY <1>1, <2>1, <2>2, AheadFacts
  <2>4. QED
    BY <1>1, <1>2, <2>1, <2>3
<1>7. Queued'
  <2> SUFFICES ASSUME ~astray, NEW k \in 1 .. Len(queue')
               PROVE  Ahead(playing', queue'[k]) = dma_buf_count - Len(queue') + k - 1
    BY <1>3 DEF Queued
  <2>1. CASE n = dma_buf_count - 1
    <3>1. /\ Len(queue') = n /\ queue'[n] = playing
          /\ \A j \in 1 .. n - 1 : queue'[j] = queue[j + 1]
      BY <1>1, <2>1, InterruptFacts
    <3>2. CASE k = n
      BY <1>1, <1>2, <3>1, <3>2
    <3>3. CASE k # n
      <4>1. k \in 1 .. n - 1 /\ k + 1 \in 1 .. n /\ k + 1 # 1
        BY <1>2, <3>1, <3>3
      <4>2. Ahead(playing', queue[k + 1]) = dma_buf_count - n + (k + 1) - 2
        BY <1>6, <4>1
      <4>3. QED
        BY <1>2, <3>1, <4>1, <4>2
    <3>4. QED
      BY <3>2, <3>3
  <2>2. CASE n # dma_buf_count - 1
    <3>1. /\ Len(queue') = n + 1 /\ queue'[n + 1] = playing
          /\ \A j \in 1 .. n : queue'[j] = queue[j]
      BY <1>1, <2>2, InterruptFacts
    <3>2. CASE k = n + 1
      BY <1>1, <1>2, <3>1, <3>2
    <3>3. CASE k # n + 1
      <4>1. k \in 1 .. n
        BY <1>2, <3>1, <3>3
      <4>2. Ahead(playing', queue[k]) = dma_buf_count - n + k - 2
        BY <1>6, <2>2, <4>1
      <4>3. QED
        BY <1>2, <3>1, <4>1, <4>2
    <3>4. QED
      BY <3>2, <3>3
  <2>3. QED
    BY <2>1, <2>2
<1>8. Filling'
  BY <1>1 DEF QInv, Filling
<1>9. ASSUME ~astray, ~late, curr_ptr # NULL
      PROVE  /\ Ahead(playing, curr_ptr) = dma_buf_count - n - 1
             /\ curr_ptr \in Buffers
  BY <1>2, <1>9 DEF QInv, Current
<1>10. ASSUME ~astray, ~late', curr_ptr # NULL
       PROVE  n < dma_buf_count - 1 /\ Ahead(playing, curr_ptr) > 0 /\ (playing' = curr_ptr => rw_pos = dma_buf_len)
  <2>1. ~late /\ playing' \notin Unready
    BY <1>4, <1>10
  <2>2. Ahead(playing, curr_ptr) = dma_buf_count - n - 1 /\ curr_ptr \in Buffers
    BY <1>9, <1>10, <2>1
  <2>3. n # dma_buf_count - 1
    <3>1. SUFFICES ASSUME n = dma_buf_count - 1 PROVE FALSE
      OBVIOUS
    <3>2. 1 \in 1 .. n
      BY <1>2, <3>1
    <3>3. queue[1] \in Buffers /\ Ahead(playing, queue[1]) = dma_buf_count - n + 1 - 1
      BY <1>2, <1>5, <1>10, <3>2
    <3>4. Ahead(playing, queue[1]) = 1
      BY <1>2, <3>1, <3>3
    <3>5. queue[1] = playing'
      BY <1>1, <3>3, <3>4, AheadFacts
    <3>6. queue[1] \in Unready
      BY <3>2 DEF Unready
    <3>7. QED
      BY <2>1, <3>5, <3>6
  <2>4. playing' = curr_ptr => rw_pos = dma_buf_len
    BY <1>2, <2>1 DEF Unready
  <2>5. QED
    BY <1>2, <2>2, <2>3, <2>4
<1>11. Current'
  <2>1. SUFFICES ASSUME ~astray, ~late', curr_ptr # NULL
                 PROVE  /\ Ahead(playing', curr_ptr) = dma_buf_count - Len(queue') - 1
                        /\ playing' = curr_ptr => rw_pos = dma_buf_len
    BY <1>1, <1>3 DEF Current
  <2>2. ~late
    BY <1>4, <2>1
  <2>3. Ahead(playing, curr_ptr) = dma_buf_count - n - 1 /\ curr_ptr \in Buffers
    BY <1>9, <2>1, <2>2
  <2>4. /\ n < dma_buf_count - 1 /\ Ahead(playing, curr_ptr) > 0
        /\ playing' = curr_ptr => rw_pos = dma_buf_len
    BY <1>10, <2>1
  <2>5. Len(queue') = n + 1
    BY <1>1, <1>2, <2>4, InterruptFacts
  <2>6. curr_ptr # playing
    BY <1>1, <2>3, <2>4, AheadFacts
  <2>7. Ahead(playing', curr_ptr) = Ahead(playing, curr_ptr) - 1
    BY <1>1, <2>3, <2>6
  <2>8. QED
    BY <1>2, <2>3, <2>4, <2>5, <2>7
<1>12. QED
  BY <1>7, <1>8, <1>10, <1>11

\* Every step keeps the queue and the current buffer in step with the hardware.
LEMMA QStep == QInv /\ [Next]_vars => QInv'
<1> SUFFICES ASSUME QInv, [Next]_vars PROVE QInv'
  OBVIOUS
<1>1. TypeOK'
  BY TypeStep DEF QInv
<1>2. CASE Push
  BY <1>1, <1>2, PushQueue DEF QInv
<1>3. CASE PlayLast
  BY <1>1, <1>3, PlayLastQueue DEF QInv
<1>4. ASSUME UNCHANGED <<queue, curr_ptr, rw_pos>>, UNCHANGED late,
             ~astray' => ~astray /\ UNCHANGED playing
      PROVE  QInv'
  <2>1. Queued' /\ Current'
    <3>1. CASE astray'
      BY <3>1 DEF Queued, Current
    <3>2. CASE ~astray'
      BY <1>4, <3>2 DEF QInv, Queued, Current
    <3>3. QED
      BY <3>1, <3>2
  <2>2. Filling'
    BY <1>4 DEF QInv, Filling
  <2>3. QED
    BY <1>1, <2>1, <2>2 DEF QInv
<1>5. CASE Return
  BY <1>4, <1>5 DEF Return, tx, hardware
<1>6. ASSUME NEW f \in Formats, NEW n \in 0 .. MaxFrames, Call(f, n) PROVE QInv'
  <2>1. UNCHANGED <<queue, curr_ptr, rw_pos>> /\ UNCHANGED late
    BY <1>6 DEF Call, tx
  <2>2. ~astray' => ~astray /\ UNCHANGED playing
    BY <1>6, CallFacts
  <2>3. QED
    BY <1>4, <2>1, <2>2
<1>7. CASE PlayFrame
  BY <1>4, <1>7 DEF PlayFrame, tx
<1>8. CASE UNCHANGED vars
  BY <1>4, <1>8 DEF vars, tx, hardware
<1>9. QED
  BY <1>2, <1>3, <1>5, <1>6, <1>7, <1>8 DEF Next, render_samples, Play

\* The invariant of the queue holds throughout.
LEMMA QueueInvariance == Spec => []QInv
<1>1. Init => Queued /\ Filling /\ Current
  <2>1. Init => Queued
    BY RenderAssumption DEF Init, Queued
  <2>2. Init => Filling /\ Current
    BY DEF Init, Filling, Current
  <2>3. QED
    BY <2>1, <2>2
<1>2. QED
  BY <1>1, TypeCorrect, QStep, PTL DEF Spec, QInv

\* The queue holds the buffers that were played last, in the order in which
\* the hardware comes to them again, however often the handler has dropped its
\* oldest entry (audio_render.c:196, i2s.c:479).
THEOREM QueueFollowsHardware == Spec => []QueueIsRecent
<1>1. QInv => QueueIsRecent
  <2> SUFFICES ASSUME QInv, ~astray, NEW k \in 1 .. Len(queue)
               PROVE  queue[k] = (playing + dma_buf_count - Len(queue) + k - 1) % dma_buf_count
    BY DEF QueueIsRecent
  <2>1. /\ Ahead(playing, queue[k]) = dma_buf_count - Len(queue) + k - 1
        /\ queue[k] \in Nat /\ queue[k] < dma_buf_count /\ playing \in Nat /\ playing < dma_buf_count
        /\ dma_buf_count \in Nat \ {0} /\ Len(queue) \in Nat
    BY Types DEF QInv, Queued
  <2> DEFINE x == playing + dma_buf_count - Len(queue) + k - 1
  <2>2. /\ x \in Int /\ -dma_buf_count <= x /\ x < 2 * dma_buf_count /\ 0 <= x
        /\ queue[k] = x \/ queue[k] = x - dma_buf_count
    BY <2>1 DEF Ahead
  <2> HIDE DEF x
  <2>3. /\ 0 <= x /\ x < dma_buf_count => x % dma_buf_count = x
        /\ dma_buf_count <= x => x % dma_buf_count = x - dma_buf_count
    BY <2>1, <2>2, Around
  <2>4. x % dma_buf_count = queue[k]
    BY <2>1, <2>2, <2>3
  <2>5. QED
    BY <2>4 DEF x
<1>2. QED
  BY <1>1, QueueInvariance, PTL

\* The handler finds the queue full exactly when the hardware goes on to a
\* buffer that nobody has begun to refill, for every number of buffers: such a
\* buffer is in the queue, the next one of all buffers but the one that has
\* just been played, and it is there only if all others are (i2s.c:361-362).
THEOREM FullQueueIsUnderflow == Spec => FullMeansUnderflow
<1> DEFINE n == Len(queue)
           Found == \E k \in 1 .. n : queue[k] = playing'
           A == ~astray' /\ playing' # playing => (n = dma_buf_count - 1 <=> Found)
<1>1. QInv /\ [Next]_vars => [A]_vars
  <2> SUFFICES ASSUME QInv, [Next]_vars, ~astray', playing' # playing
               PROVE  n = dma_buf_count - 1 <=> Found
    OBVIOUS
  <2>1. ~Push /\ ~Return /\ ~PlayFrame /\ ~UNCHANGED vars
    BY DEF Push, Return, PlayFrame, vars, hardware
  <2>2. \A f \in Formats, m \in 0 .. MaxFrames : ~Call(f, m)
    BY CallFacts
  <2>3. PlayLast
    BY <2>1, <2>2 DEF Next, render_samples, Play
  <2>4. ~astray
    BY <2>3, Zenon DEF PlayLast
  <2>5. /\ playing \in Buffers /\ playing' \in Buffers /\ Ahead(playing, playing') = 1
        /\ n \in Nat /\ n < dma_buf_count /\ dma_buf_count \in Nat /\ dma_buf_count > 1
        /\ \A k \in 1 .. n : queue[k] \in Buffers
    BY <2>3, AheadNext, Types DEF QInv
  <2>6. \A k \in 1 .. n : Ahead(playing, queue[k]) = dma_buf_count - n + k - 1
    BY <2>4 DEF QInv, Queued
  <2>7. ASSUME n = dma_buf_count - 1 PROVE Found
    <3>1. 1 \in 1 .. n /\ Ahead(playing, queue[1]) = 1
      BY <2>5, <2>6, <2>7
    <3>2. queue[1] = playing'
      BY <2>5, <3>1, AheadFacts
    <3>3. QED
      BY <3>1, <3>2
  <2>8. ASSUME NEW k \in 1 .. n, queue[k] = playing' PROVE n = dma_buf_count - 1
    <3>1. dma_buf_count - n + k - 1 = 1
      BY <2>5, <2>6, <2>8
    <3>2. QED
      BY <2>5, <3>1
  <2>9. QED
    BY <2>7, <2>8
<1>2. QED
  BY <1>1, QueueInvariance, PTL DEF Spec, FullMeansUnderflow

-----------------------------------------------------------------------------
\* The streams for which the left pointer stays inside the caller's buffer.
StereoOnly == \A f \in Formats : f.wBitsPerSample = 16 /\ f.nChannels # 0 => f.nChannels = 2

\* Where the loop is in the stream: each frame takes two samples of the buffer.
Caller ==
  /\ pc # "loop" => ptr_l = buf_len
  /\ pc = "loop" => nChannels = 2
  /\ ptr_l = 2 * i /\ buf_len = 2 * num_samples
  /\ first + buf_len <= MaxSamples + 1
  /\ \E e \in Nat : first = 2 * e + 1

\* The number of the last sample that was pushed.
Fed == first + ptr_l - 1

\* The length of d buffers.
Frames(d) == dma_buf_len * d

\* How many frames ago frame k of buffer b was pushed, the last one being one
\* ago, when the hardware is at buffer p and r frames of buffer c are filled.
Behind(p, c, r, b, k) == Frames(Ahead(p, c) - Ahead(p, b)) + r + 1 - k

\* What a frame holds after which the stream has come to sample s + 2.
Content(s) == IF s >= 0 THEN <<s + 1, s + 2>> ELSE <<0, 0>>

\* Before the first push the buffers are silent.
Silent ==
  curr_ptr = NULL => /\ Fed = 0 /\ heard = 0
                     /\ \A b \in Buffers, k \in 1 .. dma_buf_len : dma[b][k] = <<0, 0>>

\* From the buffer that is played to the one that is filled, the buffers hold
\* the end of the stream.
Streamed ==
  ~astray /\ ~late /\ curr_ptr # NULL =>
    \A b \in Buffers, k \in 1 .. dma_buf_len :
      Ahead(playing, b) <= Ahead(playing, curr_ptr) /\ (b = curr_ptr => k <= rw_pos)
        => dma[b][k] = Content(Fed - 2 * Behind(playing, curr_ptr, rw_pos, b, k))

\* What was heard is the stream up to the frame that comes next.
HeardSoFar ==
  ~astray /\ ~late /\ curr_ptr # NULL =>
    LET s == Fed - 2 * Behind(playing, curr_ptr, rw_pos, playing, at)
    IN  heard = IF s >= 0 THEN s ELSE 0

HInv == QInv /\ Caller /\ Silent /\ Streamed /\ HeardSoFar /\ HeardInOrder

\* The length of some buffers in frames.
LEMMA FramesFacts ==
  /\ Frames(0) = 0
  /\ \A d \in Nat : /\ Frames(d) \in Nat /\ Frames(d + 1) = Frames(d) + dma_buf_len
                    /\ d > 0 => Frames(d) >= dma_buf_len
<1>1. dma_buf_len \in Nat
  BY RenderAssumption
<1>2. Frames(0) = 0
  BY <1>1 DEF Frames
<1>3. \A d \in Nat : Frames(d) \in Nat /\ Frames(d + 1) = Frames(d) + dma_buf_len
  BY <1>1 DEF Frames
<1>4. ASSUME NEW d \in Nat, d > 0 PROVE Frames(d) >= dma_buf_len
  <2>1. d - 1 \in Nat /\ (d - 1) + 1 = d
    BY <1>4
  <2>2. Frames(d - 1) \in Nat /\ Frames(d) = Frames(d - 1) + dma_buf_len
    BY <1>3, <2>1
  <2>3. QED
    BY <1>1, <2>2
<1>5. QED
  BY <1>2, <1>3, <1>4

\* The loop of one call keeps its place in the stream, and the next call goes
\* on where it ended.
LEMMA CallerStep ==
  ASSUME StereoOnly, TypeOK, Caller, [Next]_vars
  PROVE  /\ Caller'
         /\ Push => Fed' = Fed + 2
         /\ ~Push => Fed' = Fed
<1>1. /\ first \in Nat /\ ptr_l \in Nat /\ buf_len \in Nat /\ num_samples \in Nat
      /\ i \in Nat /\ i <= num_samples /\ MaxSamples \in Nat
  BY RenderAssumption DEF TypeOK
<1>2. PICK e \in Nat : first = 2 * e + 1
  BY DEF Caller
<1>3. CASE Push
  <2>1. /\ pc' = "loop" /\ pc = "loop" /\ i' = i + 1 /\ ptr_l' = ptr_l + 2
        /\ UNCHANGED <<nChannels, num_samples, buf_len, first>>
    BY <1>3 DEF Push, Advance
  <2>2. Fed' = Fed + 2
    BY <1>1, <2>1 DEF Fed
  <2>3. Caller'
    BY <1>1, <2>1 DEF Caller
  <2>4. QED
    BY <1>3, <2>2, <2>3
<1>4. CASE Return
  <2>1. /\ pc' = "idle" /\ pc = "loop" /\ i >= num_samples
        /\ UNCHANGED <<nChannels, num_samples, i, ptr_l, buf_len, first>>
    BY <1>4 DEF Return
  <2>2. ptr_l = buf_len
    BY <1>1, <2>1 DEF Caller
  <2>3. Caller'
    BY <2>1, <2>2 DEF Caller
  <2>4. Fed' = Fed
    BY <2>1 DEF Fed
  <2>5. ~Push
    BY <2>1 DEF Push, Advance
  <2>6. QED
    BY <2>3, <2>4, <2>5
<1>5. ASSUME NEW f \in Formats, NEW n \in 0 .. MaxFrames, Call(f, n)
      PROVE  Caller' /\ Fed' = Fed /\ ~Push
  <2>1. pc = "idle" /\ ptr_l = buf_len
    BY <1>5 DEF Call, Caller
  <2>2. CASE UNCHANGED <<nChannels, num_samples, i, ptr_l, buf_len, first>> /\ pc' # "loop"
    BY <2>1, <2>2 DEF Caller, Fed, Push
  <2>3. CASE /\ f.wBitsPerSample = 16 /\ f.nChannels # 0
             /\ pc' = "loop" /\ nChannels' = f.nChannels
             /\ num_samples' = n /\ i' = 0 /\ ptr_l' = 0
             /\ buf_len' = n * f.nChannels /\ first' = first + buf_len
             /\ first + buf_len + n * f.nChannels <= MaxSamples + 1
    <3>1. f.nChannels = 2 /\ n \in Nat
      BY <2>3, RenderAssumption DEF StereoOnly
    <3>2. n * f.nChannels = 2 * n
      BY <3>1
    <3>3. first' = 2 * (e + num_samples) + 1 /\ e + num_samples \in Nat
      BY <1>1, <1>2, <2>3 DEF Caller
    <3>4. Caller'
      BY <1>1, <2>3, <3>1, <3>2, <3>3 DEF Caller
    <3>5. Fed' = Fed
      BY <1>1, <2>1, <2>3 DEF Fed
    <3>6. QED
      BY <2>1, <3>4, <3>5 DEF Push
  <2>4. QED
    BY <1>5, <2>1, <2>2, <2>3 DEF Call, call
<1>6. CASE UNCHANGED <<pc, nChannels, num_samples, i, ptr_l, buf_len, first>>
  <2>1. Caller'
    BY <1>6 DEF Caller
  <2>2. Fed' = Fed
    BY <1>6 DEF Fed
  <2>3. ~Push
    BY <1>1, <1>6 DEF Push, Advance
  <2>4. QED
    BY <2>1, <2>2, <2>3
<1>7. PlayFrame \/ PlayLast \/ UNCHANGED vars => UNCHANGED <<pc, nChannels, num_samples, i, ptr_l, buf_len, first>>
  BY DEF PlayFrame, PlayLast, vars, call
<1>8. QED
  BY <1>3, <1>4, <1>5, <1>6, <1>7 DEF Next, render_samples, Play

\* The frame that is pushed holds the two samples that come next.
LEMMA FrameIsNext ==
  ASSUME TypeOK, Caller, Push
  PROVE  FrameAt(ptr_l) = <<Fed + 1, Fed + 2>> /\ Fed \in Nat
<1>1. /\ first \in Nat /\ ptr_l \in Nat /\ buf_len \in Nat /\ num_samples \in Nat
      /\ i \in Nat /\ i < num_samples /\ nChannels = 2
      /\ Half \in Nat /\ MaxSamples \in Nat /\ MaxSamples < 2 * Half
  BY RenderAssumption DEF TypeOK, Push, Caller
<1>2. ptr_l = 2 * i /\ buf_len = 2 * num_samples /\ first + buf_len <= MaxSamples + 1 /\ first > 0
  BY <1>1 DEF Caller
<1>3. /\ ptr_l + 1 < buf_len /\ ptr_l < buf_len
      /\ first + ptr_l \in 0 .. 2 * Half - 1 /\ first + (ptr_l + 1) \in 0 .. 2 * Half - 1
  BY <1>1, <1>2
<1>4. Sample(ptr_l) = (first + ptr_l) - Half /\ Sample(ptr_l + 1) = (first + (ptr_l + 1)) - Half
  BY <1>1, <1>3 DEF Sample
<1>5. ToDac(Sample(ptr_l)) = first + ptr_l /\ ToDac(Sample(ptr_l + 1)) = first + (ptr_l + 1)
  BY <1>3, <1>4, ToDacFacts
<1>6. Fed \in Nat /\ Fed + 1 = first + ptr_l /\ Fed + 2 = first + (ptr_l + 1)
  BY <1>1, <1>2 DEF Fed
<1>7. FrameAt(ptr_l) = <<ToDac(Sample(ptr_l)), ToDac(Sample(ptr_l + 1))>>
  BY <1>1 DEF FrameAt
<1>8. QED
  BY <1>5, <1>6, <1>7

\* The samples that were pushed are whole frames.
LEMMA FedIsEven ==
  ASSUME TypeOK, Caller
  PROVE  Fed \in Nat /\ \A x \in Int : Fed - 2 * x < 0 => Fed - 2 * x <= -2
<1>1. PICK e \in Nat : first = 2 * e + 1
  BY DEF Caller
<1>2. ptr_l = 2 * i /\ i \in Nat
  BY DEF TypeOK, Caller
<1>3. Fed = 2 * (e + i)
  BY <1>1, <1>2 DEF Fed
<1>4. QED
  BY <1>2, <1>3

\* Hearing the frame that the stream has come to, or silence before its
\* beginning, keeps the order.
LEMMA HearFacts ==
  ASSUME NEW s \in Int, s < 0 => s <= -2, heard = IF s >= 0 THEN s ELSE 0, Hear(Content(s))
  PROVE  /\ heard' = IF s + 2 >= 0 THEN s + 2 ELSE 0
         /\ ordered => ordered'
<1>1. CASE s >= 0
  <2>1. Content(s) = <<heard + 1, heard + 2>> /\ heard = s
    BY <1>1 DEF Content
  <2>2. ordered => ordered'
    BY <2>1, Zenon DEF Hear
  <2>3. heard' = heard + 2
    BY <2>1 DEF Hear
  <2>4. QED
    BY <1>1, <2>1, <2>2, <2>3
<1>2. CASE s < 0
  <2>1. Content(s) = <<0, 0>> /\ heard = 0 /\ s + 2 <= 0
    BY <1>2 DEF Content
  <2>2. ordered => ordered'
    BY <2>1, Zenon DEF Hear
  <2>3. heard' = 0
    <3>1. <<0, 0>> # <<heard + 1, heard + 2>>
      BY <2>1
    <3>2. QED
      BY <2>1, <3>1 DEF Hear
  <2>4. QED
    BY <1>2, <2>1, <2>2, <2>3
<1>3. QED
  BY <1>1, <1>2

\* The distance in frames is an integer as long as the buffer comes before the
\* one that is filled.
LEMMA BehindType ==
  ASSUME NEW p \in Buffers, NEW c \in Buffers, NEW b \in Buffers, NEW r \in Nat, NEW k \in Nat,
         Ahead(p, b) <= Ahead(p, c)
  PROVE  /\ Ahead(p, c) - Ahead(p, b) \in Nat
         /\ Frames(Ahead(p, c) - Ahead(p, b)) \in Nat
         /\ Behind(p, c, r, b, k) \in Int
<1>1. Ahead(p, c) \in Nat /\ Ahead(p, b) \in Nat
  BY AheadFacts
<1>2. Ahead(p, c) - Ahead(p, b) \in Nat
  BY <1>1
<1>3. Frames(Ahead(p, c) - Ahead(p, b)) \in Nat
  BY <1>2, FramesFacts
<1>4. QED
  BY <1>2, <1>3 DEF Behind

\* A push adds the next frame to the stream and leaves the rest of it in place.
LEMMA PushStream ==
  ASSUME HInv, Push, NEW fed, fed = Fed + 2, ~astray, ~late
  PROVE  /\ \A b \in Buffers, k \in 1 .. dma_buf_len :
              Ahead(playing, b) <= Ahead(playing, Target) /\ (b = Target => k <= Place)
                => dma'[b][k] = Content(fed - 2 * Behind(playing, Target, Place, b, k))
         /\ LET s == fed - 2 * Behind(playing, Target, Place, playing, at)
            IN  heard = IF s >= 0 THEN s ELSE 0
<1> DEFINE T == Target
           c == curr_ptr
           p == playing
<1>1. TypeOK /\ Caller /\ i2s_push_sample /\ QInv
  BY DEF HInv, QInv, Push, Pushed
<1>2. /\ T \in Buffers /\ Place \in 1 .. dma_buf_len
      /\ dma' = [dma EXCEPT ![T] = [@ EXCEPT ![Place] = <<Fed + 1, Fed + 2>>]]
      /\ Fed \in Nat
  BY <1>1, PushFacts, FrameIsNext
<1>3. /\ p \in Buffers /\ at \in Nat /\ 0 < at /\ at <= dma_buf_len /\ dma_buf_len \in Nat
      /\ rw_pos \in Nat /\ rw_pos <= dma_buf_len /\ Len(queue) \in Nat /\ Len(queue) < dma_buf_count
      /\ dma_buf_count \in Nat /\ at \in 1 .. dma_buf_len
      /\ dma \in [Buffers -> [1 .. dma_buf_len -> Seq(0 .. 2 * Half - 1)]]
      /\ c # NULL => c \in Buffers
  BY <1>1, Types DEF TypeOK
<1>4. /\ dma'[T][Place] = <<Fed + 1, Fed + 2>>
      /\ \A b \in Buffers, k \in 1 .. dma_buf_len : b # T \/ k # Place => dma'[b][k] = dma[b][k]
  BY <1>2, <1>3
<1>5. Ahead(p, T) \in Nat /\ Ahead(p, p) = 0
  BY <1>2, <1>3, AheadFacts
<1>6. Behind(p, T, Place, T, Place) = 1
  BY <1>2, <1>5, FramesFacts DEF Behind
<1>7. Content(fed - 2 * Behind(p, T, Place, T, Place)) = <<Fed + 1, Fed + 2>>
  BY <1>2, <1>6 DEF Content
<1>8. Fresh => Ahead(p, T) = dma_buf_count - Len(queue) /\ Ahead(p, T) > 0 /\ Place = 1
  <2> SUFFICES ASSUME Fresh PROVE Ahead(p, T) = dma_buf_count - Len(queue) /\ Ahead(p, T) > 0 /\ Place = 1
    OBVIOUS
  <2>1. Len(queue) > 0 /\ T = queue[1] /\ Place = 1
    BY <1>1, PushFacts DEF Place
  <2>2. 1 \in 1 .. Len(queue)
    BY <1>3, <2>1
  <2>3. Ahead(p, queue[1]) = dma_buf_count - Len(queue) + 1 - 1
    BY <1>1, <2>2 DEF QInv, Queued
  <2>4. QED
    BY <1>3, <2>1, <2>3
<1>9. CASE c = NULL
  <2>1. /\ Fed = 0 /\ heard = 0 /\ \A b \in Buffers, k \in 1 .. dma_buf_len : dma[b][k] = <<0, 0>>
    BY <1>9 DEF HInv, Silent
  <2>2. Fresh /\ Place = 1 /\ Ahead(p, T) > 0
    BY <1>8, <1>9 DEF Fresh
  <2>3. ASSUME NEW b \in Buffers, NEW k \in 1 .. dma_buf_len, Ahead(p, b) < Ahead(p, T)
        PROVE  /\ Behind(p, T, Place, b, k) \in Int
               /\ Behind(p, T, Place, b, k) >= 2
    <3>1. Ahead(p, b) \in Nat
      BY <1>3, AheadFacts
    <3> DEFINE d == Ahead(p, T) - Ahead(p, b)
    <3>2. d \in Nat /\ d > 0
      BY <1>5, <2>3, <3>1
    <3> HIDE DEF d
    <3>3. Frames(d) \in Nat /\ Frames(d) >= dma_buf_len
      BY <3>2, FramesFacts
    <3>4. Behind(p, T, Place, b, k) = Frames(d) + 1 + 1 - k
      BY <2>2 DEF Behind, d
    <3>5. QED
      BY <1>3, <3>3, <3>4
  <2>4. ASSUME NEW b \in Buffers, NEW k \in 1 .. dma_buf_len,
               Ahead(p, b) <= Ahead(p, T), b = T => k <= Place
        PROVE  dma'[b][k] = Content(fed - 2 * Behind(p, T, Place, b, k))
    <3>1. CASE b = T
      <4>1. k = Place
        BY <2>2, <2>4, <3>1
      <4>2. QED
        BY <1>4, <1>7, <3>1, <4>1
    <3>2. CASE b # T
      <4>1. Ahead(p, b) < Ahead(p, T)
        BY <1>2, <1>3, <1>5, <2>4, <3>2, AheadFacts
      <4>2. fed - 2 * Behind(p, T, Place, b, k) < 0
        BY <2>1, <2>3, <4>1
      <4>3. Content(fed - 2 * Behind(p, T, Place, b, k)) = <<0, 0>>
        <5> DEFINE s == fed - 2 * Behind(p, T, Place, b, k)
        <5>1. s \in Int /\ s < 0
          BY <1>2, <2>3, <4>1, <4>2
        <5> HIDE DEF s
        <5>2. Content(s) = <<0, 0>>
          BY <5>1 DEF Content
        <5>3. QED
          BY <5>2 DEF s
      <4>4. QED
        BY <1>4, <2>1, <3>2, <4>3
    <3>3. QED
      BY <3>1, <3>2
  <2>5. Behind(p, T, Place, p, at) \in Int /\ Behind(p, T, Place, p, at) >= 2
    BY <1>3, <1>5, <2>2, <2>3
  <2>6. QED
    BY <2>1, <2>4, <2>5
<1>10. CASE c # NULL
  <2>1. /\ c \in Buffers /\ Ahead(p, c) = dma_buf_count - Len(queue) - 1
        /\ p = c => rw_pos = dma_buf_len
        /\ Ahead(p, c) \in Nat
    BY <1>1, <1>3, <1>10, AheadFacts DEF QInv, Current
  <2>2. /\ Fresh => Ahead(p, T) = Ahead(p, c) + 1 /\ Place = 1 /\ rw_pos = dma_buf_len
        /\ ~Fresh => T = c /\ Place = rw_pos + 1
    <3>1. Fresh => rw_pos = dma_buf_len
      BY <1>10 DEF Fresh
    <3>2. ~Fresh => T = c /\ Place = rw_pos + 1
      BY DEF Target, Place
    <3>3. QED
      BY <1>3, <1>8, <2>1, <3>1, <3>2
  <2>3. ASSUME NEW b \in Buffers, NEW k \in 1 .. dma_buf_len, Ahead(p, b) <= Ahead(p, c)
        PROVE  /\ Behind(p, c, rw_pos, b, k) \in Int
               /\ Behind(p, T, Place, b, k) = Behind(p, c, rw_pos, b, k) + 1
    <3>1. Ahead(p, b) \in Nat /\ k \in Nat
      BY <1>3, AheadFacts
    <3> DEFINE d == Ahead(p, c) - Ahead(p, b)
    <3>2. d \in Nat
      BY <2>1, <2>3, <3>1
    <3>3. Fresh => Ahead(p, T) - Ahead(p, b) = d + 1
      BY <2>1, <2>2, <3>1
    <3>4. ~Fresh => Ahead(p, T) - Ahead(p, b) = d
      BY <2>2
    <3>5. Behind(p, c, rw_pos, b, k) = Frames(d) + rw_pos + 1 - k
      BY DEF Behind
    <3> HIDE DEF d
    <3>6. Frames(d) \in Nat /\ Frames(d + 1) = Frames(d) + dma_buf_len
      BY <3>2, FramesFacts
    <3>7. CASE Fresh
      <4>1. Behind(p, T, Place, b, k) = Frames(d + 1) + 1 + 1 - k
        BY <2>2, <3>3, <3>7 DEF Behind
      <4>2. QED
        BY <1>3, <2>2, <3>1, <3>5, <3>6, <3>7, <4>1
    <3>8. CASE ~Fresh
      <4>1. Behind(p, T, Place, b, k) = Frames(d) + (rw_pos + 1) + 1 - k
        BY <2>2, <3>4, <3>8 DEF Behind
      <4>2. QED
        BY <1>3, <3>1, <3>5, <3>6, <4>1
    <3>9. QED
      BY <3>7, <3>8
  <2>4. ASSUME NEW b \in Buffers, NEW k \in 1 .. dma_buf_len, Ahead(p, b) <= Ahead(p, c)
        PROVE  /\ Fed - 2 * Behind(p, c, rw_pos, b, k) \in Int
               /\ fed - 2 * Behind(p, T, Place, b, k) = Fed - 2 * Behind(p, c, rw_pos, b, k)
    BY <1>2, <2>3, <2>4
  <2>5. ASSUME NEW b \in Buffers, NEW k \in 1 .. dma_buf_len,
               Ahead(p, b) <= Ahead(p, T), b = T => k <= Place
        PROVE  dma'[b][k] = Content(fed - 2 * Behind(p, T, Place, b, k))
    <3>1. CASE b = T /\ k = Place
      BY <1>4, <1>7, <3>1
    <3>2. CASE ~(b = T /\ k = Place)
      <4>1. Ahead(p, b) \in Nat
        BY <1>3, AheadFacts
      <4>2. Ahead(p, b) <= Ahead(p, c) /\ (b = c => k <= rw_pos)
        <5>1. CASE Fresh
          <6>1. Place = 1 /\ b # T
            BY <2>2, <2>5, <3>2, <5>1
          <6>2. Ahead(p, b) # Ahead(p, T)
            BY <1>2, <1>3, <6>1, AheadFacts
          <6>3. QED
            BY <1>3, <1>5, <2>1, <2>2, <2>5, <4>1, <5>1, <6>2
        <5>2. CASE ~Fresh
          BY <1>3, <2>2, <2>5, <3>2, <5>2
        <5>3. QED
          BY <5>1, <5>2
      <4>3. dma[b][k] = Content(Fed - 2 * Behind(p, c, rw_pos, b, k))
        BY <1>10, <4>2 DEF HInv, Streamed
      <4>4. QED
        BY <1>4, <2>4, <3>2, <4>2, <4>3
    <3>3. QED
      BY <3>1, <3>2
  <2>6. LET s == Fed - 2 * Behind(p, c, rw_pos, p, at) IN heard = IF s >= 0 THEN s ELSE 0
    BY <1>10 DEF HInv, HeardSoFar
  <2>7. fed - 2 * Behind(p, T, Place, p, at) = Fed - 2 * Behind(p, c, rw_pos, p, at)
    BY <1>3, <1>5, <2>1, <2>4
  <2>8. QED
    BY <2>5, <2>6, <2>7
<1>11. QED
  BY <1>9, <1>10

\* What the hardware plays is silence before the first push, and then the next
\* frame of the stream.
LEMMA PlayHears ==
  ASSUME HInv, Hear(dma[playing][at])
  PROVE  /\ curr_ptr = NULL => heard' = 0 /\ (ordered => ordered')
         /\ ~astray /\ ~late /\ curr_ptr # NULL =>
              LET s == Fed - 2 * Behind(playing, curr_ptr, rw_pos, playing, at)
              IN  /\ s \in Int
                  /\ heard' = IF s + 2 >= 0 THEN s + 2 ELSE 0
                  /\ ordered => ordered'
<1>1. /\ TypeOK /\ Caller /\ QInv /\ playing \in Buffers /\ at \in 1 .. dma_buf_len /\ at \in Nat /\ rw_pos \in Nat
      /\ at <= dma_buf_len /\ curr_ptr # NULL => curr_ptr \in Buffers
  BY Types DEF HInv, QInv, TypeOK
<1>2. ASSUME curr_ptr = NULL PROVE heard' = 0 /\ (ordered => ordered')
  <2> DEFINE s == -2
  <2>1. heard = 0 /\ dma[playing][at] = <<0, 0>>
    BY <1>1, <1>2 DEF HInv, Silent
  <2>2. Content(s) = <<0, 0>>
    BY DEF Content
  <2>3. /\ s \in Int
        /\ s < 0 => s <= -2
        /\ heard = IF s >= 0 THEN s ELSE 0
        /\ s + 2 = 0
    BY <2>1
  <2>4. Hear(Content(s))
    BY <2>1, <2>2
  <2> HIDE DEF s
  <2>5. heard' = (IF s + 2 >= 0 THEN s + 2 ELSE 0) /\ (ordered => ordered')
    BY <2>3, <2>4, HearFacts
  <2>6. QED
    BY <2>3, <2>5
<1>3. ASSUME ~astray, ~late, curr_ptr # NULL
      PROVE  LET s == Fed - 2 * Behind(playing, curr_ptr, rw_pos, playing, at)
             IN  /\ s \in Int
                 /\ heard' = IF s + 2 >= 0 THEN s + 2 ELSE 0
                 /\ ordered => ordered'
  <2> DEFINE x == Behind(playing, curr_ptr, rw_pos, playing, at)
             s == Fed - 2 * x
  <2>1. /\ curr_ptr \in Buffers /\ Ahead(playing, playing) = 0 /\ Ahead(playing, curr_ptr) \in Nat
        /\ Ahead(playing, playing) <= Ahead(playing, curr_ptr)
    BY <1>1, <1>3, AheadFacts
  <2>2. x \in Int
    BY <1>1, <2>1, BehindType
  <2>3. playing = curr_ptr => at <= rw_pos
    BY <1>1, <1>3 DEF QInv, Current
  <2>4. dma[playing][at] = Content(s)
    BY <1>1, <1>3, <2>1, <2>3 DEF HInv, Streamed
  <2>5. heard = IF s >= 0 THEN s ELSE 0
    BY <1>3 DEF HInv, HeardSoFar
  <2>6. s < 0 => s <= -2
    <3> HIDE DEF x
    <3>1. Fed \in Nat /\ (Fed - 2 * x < 0 => Fed - 2 * x <= -2)
      BY <1>1, <2>2, FedIsEven
    <3>2. QED
      BY <2>2, <3>1
  <2>7. Hear(Content(s))
    BY <2>4
  <2>8. s \in Int
    <3> HIDE DEF x
    <3>1. QED
      BY <1>1, <2>2, FedIsEven
  <2> HIDE DEF s
  <2>9. heard' = (IF s + 2 >= 0 THEN s + 2 ELSE 0) /\ (ordered => ordered')
    BY <2>5, <2>6, <2>7, <2>8, HearFacts
  <2>10. QED
    BY <2>8, <2>9 DEF s
<1>4. QED
  BY <1>2, <1>3

\* The end of a buffer brings every frame of the stream nearer by one buffer,
\* and the hardware to the first frame of the next one.
LEMMA PlayLastStream ==
  ASSUME HInv, PlayLast, ~astray, ~late', curr_ptr # NULL
  PROVE  /\ \A b \in Buffers, k \in 1 .. dma_buf_len :
              Ahead(playing', b) <= Ahead(playing', curr_ptr) /\ (b = curr_ptr => k <= rw_pos)
                => dma[b][k] = Content(Fed - 2 * Behind(playing', curr_ptr, rw_pos, b, k))
         /\ LET s == Fed - 2 * Behind(playing', curr_ptr, rw_pos, playing', 1)
            IN  heard' = IF s >= 0 THEN s ELSE 0
<1> DEFINE p == playing
           q == playing'
           c == curr_ptr
<1>1. /\ TypeOK /\ QInv /\ Caller /\ at = dma_buf_len /\ Hear(dma[p][at])
      /\ dma_buf_len \in Nat /\ rw_pos \in Nat /\ dma_buf_count \in Nat
  BY Types DEF HInv, QInv, PlayLast
<1>2. ~late
  BY Zenon DEF PlayLast
<1>3. c \in Buffers /\ p \in Buffers /\ Ahead(p, c) > 0
  BY <1>1, Types, PlayLastQueue
<1>4. /\ q \in Buffers /\ Ahead(p, q) = 1 /\ Ahead(q, p) = dma_buf_count - 1
      /\ \A b \in Buffers : b # p => Ahead(q, b) = Ahead(p, b) - 1
  BY <1>1, AheadNext
<1>5. /\ Ahead(p, c) \in Nat /\ Ahead(p, c) < dma_buf_count /\ c # p /\ Ahead(q, c) = Ahead(p, c) - 1
      /\ Ahead(q, q) = 0 /\ Ahead(p, p) = 0
  <2>1. Ahead(p, c) \in Nat /\ Ahead(p, c) < dma_buf_count /\ Ahead(p, p) = 0
    BY <1>3, AheadFacts
  <2>2. c # p
    BY <1>3, <2>1
  <2>3. Ahead(q, q) = 0
    BY <1>4, AheadFacts
  <2>4. QED
    BY <1>3, <1>4, <2>1, <2>2, <2>3
<1>6. ASSUME NEW b \in Buffers, NEW k \in 1 .. dma_buf_len,
             Ahead(q, b) <= Ahead(q, c), b = c => k <= rw_pos
      PROVE  dma[b][k] = Content(Fed - 2 * Behind(q, c, rw_pos, b, k))
  <2>1. b # p
    BY <1>1, <1>4, <1>5, <1>6
  <2>2. Ahead(q, b) = Ahead(p, b) - 1 /\ Ahead(p, b) \in Nat
    BY <1>3, <1>4, <2>1, AheadFacts
  <2>3. Ahead(p, b) <= Ahead(p, c) /\ Ahead(q, c) - Ahead(q, b) = Ahead(p, c) - Ahead(p, b)
    BY <1>5, <1>6, <2>2
  <2>4. Behind(q, c, rw_pos, b, k) = Behind(p, c, rw_pos, b, k)
    BY <2>3 DEF Behind
  <2>5. dma[b][k] = Content(Fed - 2 * Behind(p, c, rw_pos, b, k))
    BY <1>2, <1>6, <2>3 DEF HInv, Streamed
  <2>6. QED
    BY <2>4, <2>5
<1>7. LET s == Fed - 2 * Behind(q, c, rw_pos, q, 1) IN heard' = IF s >= 0 THEN s ELSE 0
  <2> DEFINE d == Ahead(p, c) - 1
  <2>1. d \in Nat /\ d + 1 = Ahead(p, c) - Ahead(p, p) /\ d = Ahead(q, c) - Ahead(q, q)
    BY <1>3, <1>5
  <2> HIDE DEF d
  <2>2. Frames(d) \in Nat /\ Frames(d + 1) = Frames(d) + dma_buf_len
    BY <2>1, FramesFacts
  <2>3. /\ Behind(p, c, rw_pos, p, at) = Frames(d + 1) + rw_pos + 1 - dma_buf_len
        /\ Behind(q, c, rw_pos, q, 1) = Frames(d) + rw_pos + 1 - 1
    BY <1>1, <2>1 DEF Behind
  <2>4. Behind(p, c, rw_pos, p, at) = Frames(d) + rw_pos + 1 /\ Behind(q, c, rw_pos, q, 1) = Frames(d) + rw_pos
    BY <1>1, <2>2, <2>3
  <2>5. LET s == Fed - 2 * Behind(p, c, rw_pos, p, at)
        IN  s \in Int /\ heard' = IF s + 2 >= 0 THEN s + 2 ELSE 0
    BY <1>1, <1>2, PlayHears
  <2>6. (Fed - 2 * Behind(p, c, rw_pos, p, at)) + 2 = Fed - 2 * Behind(q, c, rw_pos, q, 1)
    <3>1. Fed \in Nat
      BY <1>1, FedIsEven
    <3>2. QED
      BY <1>1, <2>2, <2>4, <3>1
  <2>7. QED
    BY <2>5, <2>6
<1>8. QED
  BY <1>6, <1>7

\* Every step keeps the stream in the buffers and what is heard in order.
LEMMA HStep == ASSUME StereoOnly PROVE HInv /\ [Next]_vars => HInv'
<1> SUFFICES ASSUME HInv, [Next]_vars PROVE HInv'
  OBVIOUS
<1>1. QInv /\ QInv' /\ TypeOK /\ Caller
  BY QStep DEF HInv, QInv
<1>2. Caller' /\ (Push => Fed' = Fed + 2) /\ (~Push => Fed' = Fed)
  BY <1>1, CallerStep
<1>3. CASE Push
  <2>1. /\ Fed' = Fed + 2 /\ curr_ptr' = Target /\ rw_pos' = Place /\ Target \in Buffers
        /\ UNCHANGED <<playing, at, heard>>
    BY <1>1, <1>2, <1>3, PushFacts DEF Push, Pushed, hardware
  <2>2. UNCHANGED <<ordered, late, astray>>
    BY <1>3 DEF Push, hardware
  <2>3. curr_ptr' # NULL
    BY <1>1, <2>1, Types
  <2>4. Silent'
    BY <2>3 DEF Silent
  <2>5. HeardInOrder'
    BY <2>2, Zenon DEF HInv, HeardInOrder
  <2>6. Streamed' /\ HeardSoFar'
    <3>1. CASE ~astray /\ ~late
      <4>1. /\ \A b \in Buffers, k \in 1 .. dma_buf_len :
                 Ahead(playing, b) <= Ahead(playing, Target) /\ (b = Target => k <= Place)
                   => dma'[b][k] = Content(Fed' - 2 * Behind(playing, Target, Place, b, k))
            /\ LET s == Fed' - 2 * Behind(playing, Target, Place, playing, at)
               IN  heard = IF s >= 0 THEN s ELSE 0
        BY <1>3, <2>1, <3>1, PushStream
      <4>2. Streamed'
        BY <2>1, <4>1 DEF Streamed
      <4>3. HeardSoFar'
        BY <2>1, <4>1 DEF HeardSoFar
      <4>4. QED
        BY <4>2, <4>3
    <3>2. CASE astray \/ late
      BY <2>2, <3>2 DEF Streamed, HeardSoFar
    <3>3. QED
      BY <3>1, <3>2
  <2>7. QED
    BY <1>1, <1>2, <2>4, <2>5, <2>6 DEF HInv
<1>4. ASSUME UNCHANGED <<dma, curr_ptr, rw_pos, heard>>, UNCHANGED ordered, UNCHANGED late, Fed' = Fed,
             ~astray' => ~astray /\ UNCHANGED <<playing, at>>
      PROVE  HInv'
  <2>1. Silent'
    BY <1>4 DEF HInv, Silent
  <2>2. HeardInOrder'
    BY <1>4, Zenon DEF HInv, HeardInOrder
  <2>3. Streamed' /\ HeardSoFar'
    <3>1. CASE astray'
      BY <3>1 DEF Streamed, HeardSoFar
    <3>2. CASE ~astray'
      BY <1>4, <3>2 DEF HInv, Streamed, HeardSoFar
    <3>3. QED
      BY <3>1, <3>2
  <2>4. QED
    BY <1>1, <1>2, <2>1, <2>2, <2>3 DEF HInv
<1>5. CASE Return
  <2>1. ~Push
    BY <1>1, <1>5 DEF Return, Push, Advance, TypeOK
  <2>2. QED
    BY <1>2, <1>4, <1>5, <2>1 DEF Return, tx, hardware
<1>6. ASSUME NEW f \in Formats, NEW n \in 0 .. MaxFrames, Call(f, n) PROVE HInv'
  <2>1. ~Push
    BY <1>6 DEF Call, Push
  <2>2. UNCHANGED <<dma, curr_ptr, rw_pos, heard>> /\ UNCHANGED ordered /\ UNCHANGED late
    BY <1>6 DEF Call, tx
  <2>3. ~astray' => ~astray /\ UNCHANGED <<playing, at>>
    BY <1>6, CallFacts
  <2>4. QED
    BY <1>2, <1>4, <2>1, <2>2, <2>3
<1>7. CASE UNCHANGED vars
  <2>1. ~Push
    BY <1>1, <1>7 DEF Push, Advance, vars, call, TypeOK
  <2>2. QED
    BY <1>2, <1>4, <1>7, <2>1 DEF vars, tx, hardware
<1>8. ASSUME Play, Hear(dma[playing][at]), UNCHANGED <<call, dma, curr_ptr, rw_pos>>,
             UNCHANGED astray, ~late' => ~late
      PROVE  Fed' = Fed /\ Silent' /\ HeardInOrder'
  <2>1. Fed' = Fed
    BY <1>8 DEF call, Fed
  <2>2. Silent'
    BY <1>8, <2>1, PlayHears DEF HInv, Silent
  <2>3. ASSUME ~late', ~astray' PROVE ordered'
    <3>1. ~late /\ ~astray /\ ordered
      BY <1>8, <2>3 DEF HInv, HeardInOrder
    <3>2. QED
      BY <1>8, <3>1, PlayHears
  <2>4. HeardInOrder'
    BY <2>3 DEF HeardInOrder
  <2>5. QED
    BY <2>1, <2>2, <2>4
<1>9. CASE PlayFrame
  <2>1. /\ at < dma_buf_len /\ at' = at + 1 /\ Hear(dma[playing][at])
        /\ UNCHANGED <<call, dma, curr_ptr, rw_pos, playing>>
    BY <1>9 DEF PlayFrame, tx
  <2>2. UNCHANGED late /\ UNCHANGED astray
    BY <1>9 DEF PlayFrame
  <2>3. Fed' = Fed /\ Silent' /\ HeardInOrder'
    BY <1>8, <1>9, <2>1, <2>2 DEF Play
  <2>4. Streamed'
    BY <2>1, <2>2, <2>3 DEF HInv, Streamed
  <2>5. HeardSoFar'
    <3>1. SUFFICES ASSUME ~astray, ~late, curr_ptr # NULL
                   PROVE  LET s == Fed - 2 * Behind(playing, curr_ptr, rw_pos, playing, at + 1)
                          IN  heard' = IF s >= 0 THEN s ELSE 0
      BY <2>1, <2>2, <2>3 DEF HeardSoFar
    <3> DEFINE x == Behind(playing, curr_ptr, rw_pos, playing, at)
    <3>2. LET s == Fed - 2 * x IN s \in Int /\ heard' = IF s + 2 >= 0 THEN s + 2 ELSE 0
      BY <2>1, <3>1, PlayHears
    <3>3. playing \in Buffers /\ curr_ptr \in Buffers /\ at \in Nat /\ rw_pos \in Nat
      BY <1>1, <3>1, Types
    <3>4. Ahead(playing, playing) <= Ahead(playing, curr_ptr)
      BY <3>3, AheadFacts
    <3>5. /\ x \in Int /\ Frames(Ahead(playing, curr_ptr) - Ahead(playing, playing)) \in Nat
      BY <3>3, <3>4, BehindType
    <3>6. Behind(playing, curr_ptr, rw_pos, playing, at + 1) = x - 1
      BY <3>3, <3>5 DEF Behind
    <3>7. Fed \in Nat
      BY <1>1, FedIsEven
    <3> HIDE DEF x
    <3>8. (Fed - 2 * x) + 2 = Fed - 2 * (x - 1)
      BY <3>5, <3>7
    <3>9. QED
      BY <3>2, <3>6, <3>8
  <2>6. QED
    BY <1>1, <1>2, <2>3, <2>4, <2>5 DEF HInv
<1>10. CASE PlayLast
  <2>1. /\ at' = 1 /\ Hear(dma[playing][at]) /\ UNCHANGED <<call, dma, curr_ptr, rw_pos>>
    BY <1>10 DEF PlayLast
  <2>2. UNCHANGED astray
    BY <1>10 DEF PlayLast
  <2>3. ~late' => ~late
    BY <1>10, Zenon DEF PlayLast
  <2>4. Fed' = Fed /\ Silent' /\ HeardInOrder'
    BY <1>8, <1>10, <2>1, <2>2, <2>3 DEF Play
  <2>5. Streamed' /\ HeardSoFar'
    <3>1. CASE ~astray /\ ~late' /\ curr_ptr # NULL
      BY <1>10, <2>1, <2>4, <3>1, PlayLastStream DEF Streamed, HeardSoFar
    <3>2. CASE astray \/ late' \/ curr_ptr = NULL
      BY <2>1, <2>2, <3>2 DEF Streamed, HeardSoFar
    <3>3. QED
      BY <3>1, <3>2
  <2>6. QED
    BY <1>1, <1>2, <2>4, <2>5 DEF HInv
<1>11. QED
  BY <1>3, <1>5, <1>6, <1>7, <1>9, <1>10 DEF Next, render_samples, Play

\* For every number and length of the buffers, and as long as the streams are
\* stereo, what is heard is the stream, each sample once and in order, unless a
\* buffer was late or the rate was changed in mid-buffer: neither the retry of
\* a frame nor the hand-over of a buffer loses or repeats one
\* (audio_render.c:178-231).
THEOREM StereoIsHeardInOrder == StereoOnly /\ Spec => []HeardInOrder
<1> SUFFICES ASSUME StereoOnly PROVE Spec => []HeardInOrder
  OBVIOUS
<1>1. Init => Caller /\ Silent /\ Streamed /\ HeardSoFar /\ HeardInOrder
  <2> SUFFICES ASSUME Init PROVE Caller /\ Silent /\ Streamed /\ HeardSoFar /\ HeardInOrder
    OBVIOUS
  <2>1. Caller
    <3>1. first = 2 * 0 + 1 /\ 0 \in Nat
      BY DEF Init
    <3>2. first + buf_len <= MaxSamples + 1
      BY RenderAssumption DEF Init
    <3>3. QED
      BY <3>1, <3>2 DEF Init, Caller
  <2>2. Silent
    BY DEF Init, Silent, Fed
  <2>3. Streamed /\ HeardSoFar
    BY DEF Init, Streamed, HeardSoFar
  <2>4. HeardInOrder
    BY DEF Init, HeardInOrder
  <2>5. QED
    BY <2>1, <2>2, <2>3, <2>4
<1>2. HInv /\ [Next]_vars => HInv'
  BY HStep
<1>3. HInv => HeardInOrder
  BY DEF HInv
<1>4. QED
  BY <1>1, <1>2, <1>3, QueueInvariance, PTL DEF Spec, HInv

=============================================================================
