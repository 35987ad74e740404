-------------------------- MODULE SpiRamFifoProofs --------------------------
(***************************************************************************)
(* Proofs about the byte FIFO of SpiRamFifo, for every size of the memory  *)
(* and of the pieces.                                                      *)
(*                                                                         *)
(* To the invariants that are checked, the inductive one adds what a task  *)
(* knows between two sections under the mutex.  A piece that the writer    *)
(* sized before it took the mutex still fits into the memory, because only *)
(* a reset changes fifoWpos in between, and resets it to 0; it need not be *)
(* as short as what the caller has, and nothing rests on it.  What a read  *)
(* still wants is in the FIFO, because the writer only adds to it and the  *)
(* reading task itself is the one that resets.                             *)
(***************************************************************************)
EXTENDS SpiRamFifo, SequenceTheorems, TLAPS

\* fifoFill is the distance between the positions, without the modulo.
Distance ==
  fifoWpos = IF fifoRpos + fifoFill < SPIRAMSIZE THEN fifoRpos + fifoFill
             ELSE fifoRpos + fifoFill - SPIRAMSIZE

WriterKnows ==
  /\ wpc \in {"size", "cut", "locked", "full"} => buffLen > 0
  /\ wpc = "locked" => 0 < wn /\ fifoWpos + wn <= SPIRAMSIZE

ReaderKnows ==
  /\ rpc \in {"test", "locked"} => len > 0
  /\ rpc \in {"locked", "give"} => len <= fifoFill
  /\ rpc # "underrun" /\ fifoUdrCnt = 0

IInv == TypeOK /\ Distance /\ WriterKnows /\ ReaderKnows

-----------------------------------------------------------------------------
\* Going round the memory at most once (spiram_fifo.c:101, 139).
LEMMA Around ==
  ASSUME NEW x \in Nat, x < 2 * SPIRAMSIZE
  PROVE  x % SPIRAMSIZE = IF x < SPIRAMSIZE THEN x ELSE x - SPIRAMSIZE
BY FifoAssumption

\* The size of a piece that is read is one of the three limits and exceeds
\* none (spiram_fifo.c:87-89).
LEMMA MinOfThree ==
  ASSUME NEW a \in Int, NEW b \in Int, NEW c \in Int
  PROVE  /\ Min({a, b, c}) \in {a, b, c}
         /\ Min({a, b, c}) <= a /\ Min({a, b, c}) <= b /\ Min({a, b, c}) <= c
<1> DEFINE S == {a, b, c}
<1>1. \E x \in S : \A y \in S : x <= y
  <2>1. CASE a <= b /\ a <= c
    BY <2>1
  <2>2. CASE b <= a /\ b <= c
    BY <2>2
  <2>3. CASE c <= a /\ c <= b
    BY <2>3
  <2>4. QED
    BY <2>1, <2>2, <2>3
<1> HIDE DEF S
<1>2. Min(S) \in S /\ \A y \in S : Min(S) <= y
  BY <1>1 DEF Min
<1>3. QED
  BY <1>2 DEF S

\* The smaller of two numbers, to which a piece that is written is sized at
\* first (spiram_fifo.c:116-119).
LEMMA MinOfTwo ==
  ASSUME NEW a \in Int, NEW b \in Int
  PROVE  Min({a, b}) = IF a <= b THEN a ELSE b
<1> DEFINE S == {a, b}
<1>1. \E x \in S : \A y \in S : x <= y
  OBVIOUS
<1> HIDE DEF S
<1>2. Min(S) \in S /\ \A y \in S : Min(S) <= y
  BY <1>1 DEF Min
<1>3. QED
  BY <1>2 DEF S

\* Both tasks start outside of their functions, with an empty FIFO.
LEMMA InitIInv == Init => IInv
BY FifoAssumption DEF Init, IInv, TypeOK, Distance, WriterKnows, ReaderKnows, Cells

\* A piece has at least one byte, and at most what the caller still has, what
\* one transfer takes and what is left up to the end of the memory.
LEMMA PieceFacts ==
  ASSUME NEW left \in Nat, left > 0, NEW pos \in Cells
  PROVE  LET n == Min({left, SPIREADSIZE, SPIRAMSIZE - pos})
         IN  n \in Nat /\ 0 < n /\ n <= left /\ pos + n <= SPIRAMSIZE
<1> DEFINE n == Min({left, SPIREADSIZE, SPIRAMSIZE - pos})
<1>1. pos \in Nat /\ pos < SPIRAMSIZE /\ SPIRAMSIZE \in Nat
  BY FifoAssumption DEF Cells
<1>2. SPIREADSIZE \in Nat /\ SPIREADSIZE > 0 /\ SPIRAMSIZE - pos \in Nat /\ SPIRAMSIZE - pos > 0
  BY <1>1, FifoAssumption
<1>3. n \in {left, SPIREADSIZE, SPIRAMSIZE - pos} /\ n <= left /\ n <= SPIRAMSIZE - pos
  <2> DEFINE end == SPIRAMSIZE - pos
  <2>1. left \in Int /\ SPIREADSIZE \in Int /\ end \in Int
    BY <1>2
  <2> HIDE DEF end
  <2>2. /\ Min({left, SPIREADSIZE, end}) \in {left, SPIREADSIZE, end}
        /\ Min({left, SPIREADSIZE, end}) <= left /\ Min({left, SPIREADSIZE, end}) <= end
    BY <2>1, MinOfThree
  <2>3. QED
    BY <2>2 DEF end
<1> HIDE DEF n
<1>4. n \in Nat /\ 0 < n
  BY <1>2, <1>3
<1>5. n \in Nat /\ 0 < n /\ n <= left /\ pos + n <= SPIRAMSIZE
  BY <1>1, <1>3, <1>4
<1>6. QED
  BY <1>5 DEF n

\* A step of spiRamFifoWrite keeps the inductive invariant.
LEMMA WriterIInv ==
  ASSUME IInv, WriteStep \/ \E n \in 0 .. MaxLen : Write(n)
  PROVE  IInv'
<1> USE FifoAssumption
<1>1. ASSUME NEW n \in 0 .. MaxLen, Write(n) PROVE IInv'
  BY <1>1 DEF IInv, TypeOK, Distance, WriterKnows, ReaderKnows, Write, WGoto, fifo, sems, reader
<1>2. CASE WriteSize
  <2>1. wn' = Min({buffLen, SPIREADSIZE}) /\ wpc = "size"
        /\ wpc' = IF wn' > SPIRAMSIZE - fifoWpos THEN "cut" ELSE "locked"
    BY <1>2 DEF WriteSize, WGoto, PastEnd
  <2>2. wn' \in Nat /\ 0 < wn'
    BY <2>1, MinOfTwo DEF IInv, TypeOK, WriterKnows
  <2>3. wpc' = "locked" => fifoWpos + wn' <= SPIRAMSIZE
    BY <2>1, <2>2 DEF IInv, TypeOK, Cells
  <2>4. UNCHANGED <<fifo, sems, buffLen, reader, sent, out>>
    BY <1>2 DEF WriteSize
  <2>5. QED
    BY <2>1, <2>2, <2>3, <2>4 DEF IInv, TypeOK, Distance, WriterKnows, ReaderKnows, fifo, sems, reader
<1>3. CASE WriteCut
  <2>1. wn' \in Nat /\ 0 < wn' /\ fifoWpos + wn' <= SPIRAMSIZE
    BY <1>3 DEF IInv, TypeOK, Cells, WriteCut
  <2>2. QED
    BY <1>3, <2>1 DEF IInv, TypeOK, Distance, WriterKnows, ReaderKnows, WriteCut, WGoto,
                      fifo, sems, reader
<1>4. CASE WriteLocked
  <2>1. CASE Full
    BY <1>4, <2>1 DEF IInv, TypeOK, Distance, WriterKnows, ReaderKnows, WriteLocked, WGoto,
                      sems, reader
  <2>2. CASE ~Full
    <3>1. /\ wpc = "locked" /\ wpc' = "give"
          /\ ram' = [c \in Cells |-> IF c - fifoWpos \in 0 .. wn - 1
                                     THEN sent + 1 + c - fifoWpos ELSE ram[c]]
          /\ buffLen' = buffLen - wn
          /\ fifoFill' = fifoFill + wn
          /\ fifoWpos' = IF fifoWpos + wn >= SPIRAMSIZE THEN 0 ELSE fifoWpos + wn
          /\ sent' = sent + wn
          /\ UNCHANGED <<fifoRpos, fifoOvfCnt, fifoUdrCnt, semCanRead, semCanWrite, mux,
                         wn, rpc, len, m>>
      BY <1>4, <2>2 DEF WriteLocked, WGoto, sems, reader
    <3>2. /\ fifoRpos \in Nat /\ fifoRpos < SPIRAMSIZE /\ fifoWpos \in Nat
          /\ fifoFill \in Nat /\ fifoFill <= SPIRAMSIZE
          /\ 0 < wn /\ fifoWpos + wn <= SPIRAMSIZE
          /\ wn \in Nat /\ buffLen \in Int /\ sent \in Nat /\ fifoFill + wn <= SPIRAMSIZE
      BY <2>2, <3>1 DEF IInv, TypeOK, Cells, WriterKnows, Full
    <3>3. ram' \in [Cells -> Nat]
      <4>1. ASSUME NEW c \in Cells
            PROVE  (IF c - fifoWpos \in 0 .. wn - 1 THEN sent + 1 + c - fifoWpos ELSE ram[c]) \in Nat
        BY <3>2 DEF IInv, TypeOK, Cells
      <4>2. QED
        BY <3>1, <4>1
    <3>4. fifoWpos' \in Cells /\ Distance'
      BY <3>1, <3>2 DEF IInv, Distance, Cells
    <3>5. TypeOK'
      BY <3>1, <3>2, <3>3, <3>4 DEF IInv, TypeOK
    <3>6. WriterKnows' /\ ReaderKnows'
      BY <3>1, <3>2 DEF IInv, TypeOK, WriterKnows, ReaderKnows
    <3>7. QED
      BY <3>4, <3>5, <3>6 DEF IInv
  <2>3. QED
    BY <2>1, <2>2
<1>5. CASE WriteWait
  BY <1>5 DEF IInv, TypeOK, Distance, WriterKnows, ReaderKnows, WriteWait, WGoto, fifo, reader
<1>6. CASE WriteGive
  BY <1>6 DEF IInv, TypeOK, Distance, WriterKnows, ReaderKnows, WriteGive, WGoto, fifo, reader
<1>7. QED
  BY <1>1, <1>2, <1>3, <1>4, <1>5, <1>6 DEF WriteStep

\* A step of spiRamFifoRead keeps the inductive invariant, and so does a reset.
LEMMA ReaderIInv ==
  ASSUME IInv, ReadStep \/ Reset \/ \E n \in Nat : Read(n)
  PROVE  IInv'
<1> USE FifoAssumption
<1>1. ASSUME NEW n \in Nat, Read(n) PROVE IInv'
  BY <1>1 DEF IInv, TypeOK, Distance, WriterKnows, ReaderKnows, Read, RGoto, fifo, sems, writer
<1>2. CASE ReadTest
  BY <1>2 DEF IInv, TypeOK, Distance, WriterKnows, ReaderKnows, ReadTest, Short, RGoto,
              fifo, sems, writer
<1>3. CASE ReadClamp
  BY <1>3 DEF IInv, TypeOK, Distance, WriterKnows, ReaderKnows, ReadClamp, RGoto,
              fifo, sems, writer
<1>4. CASE ReadLocked
  <2> DEFINE n == Min({len, SPIREADSIZE, SPIRAMSIZE - fifoRpos})
  <2>1. n \in Nat /\ 0 < n /\ n <= len /\ fifoRpos + n <= SPIRAMSIZE
    <3>1. rpc = "locked"
      BY <1>4 DEF ReadLocked, RGoto
    <3>2. QED
      BY <3>1, PieceFacts DEF IInv, TypeOK, ReaderKnows
  <2>2. /\ rpc = "locked"
        /\ IF fifoFill < n
           THEN rpc' = "underrun"
           ELSE /\ rpc' = "give" /\ len' = len - n /\ fifoFill' = fifoFill - n
                /\ fifoRpos' = IF fifoRpos + n >= SPIRAMSIZE THEN 0 ELSE fifoRpos + n
                /\ UNCHANGED <<ram, fifoWpos, fifoOvfCnt, fifoUdrCnt>>
        /\ UNCHANGED <<semCanRead, semCanWrite, mux, wpc, buffLen, wn, m, sent>>
    BY <1>4 DEF ReadLocked, RGoto, sems, writer
  <2> HIDE DEF n
  <2>3. /\ fifoRpos \in Nat /\ fifoRpos < SPIRAMSIZE /\ fifoWpos \in Nat /\ len \in Nat
        /\ fifoFill \in Nat /\ fifoFill <= SPIRAMSIZE /\ len <= fifoFill
    BY <2>2 DEF IInv, TypeOK, Cells, ReaderKnows
  <2>4. /\ rpc' = "give" /\ len' = len - n /\ fifoFill' = fifoFill - n
        /\ fifoRpos' = IF fifoRpos + n >= SPIRAMSIZE THEN 0 ELSE fifoRpos + n
        /\ UNCHANGED <<ram, fifoWpos, fifoOvfCnt, fifoUdrCnt>>
    BY <2>1, <2>2, <2>3
  <2>5. fifoRpos' \in Cells /\ Distance'
    BY <2>1, <2>3, <2>4 DEF IInv, Distance, Cells
  <2>6. TypeOK'
    BY <2>1, <2>2, <2>3, <2>4, <2>5 DEF IInv, TypeOK
  <2>7. WriterKnows' /\ ReaderKnows'
    BY <2>1, <2>2, <2>3, <2>4 DEF IInv, WriterKnows, ReaderKnows
  <2>8. QED
    BY <2>5, <2>6, <2>7 DEF IInv
<1>5. CASE ReadGive
  BY <1>5 DEF IInv, TypeOK, Distance, WriterKnows, ReaderKnows, ReadGive, TellsWriter, RGoto,
              fifo, writer
<1>6. CASE ResetTake
  BY <1>6 DEF IInv, TypeOK, Distance, WriterKnows, ReaderKnows, ResetTake, RGoto, fifo, writer
<1>7. CASE Reset
  <2>1. wpc' = "locked" => fifoWpos' + wn' <= SPIRAMSIZE
    BY <1>7 DEF IInv, TypeOK, Cells, WriterKnows, Reset, writer
  <2>2. QED
    BY <1>7, <2>1 DEF IInv, TypeOK, Distance, WriterKnows, ReaderKnows, Reset,
                      ResetTellsWriter, RGoto, Cells, writer
<1>8. QED
  BY <1>1, <1>2, <1>3, <1>4, <1>5, <1>6, <1>7 DEF ReadStep

\* What changes nothing keeps it as well.
LEMMA StutterIInv == IInv /\ UNCHANGED vars => IInv'
BY DEF IInv, TypeOK, Distance, WriterKnows, ReaderKnows, vars, fifo, sems, writer, reader

\* The inductive invariant holds in every state of every behaviour.
LEMMA Invariance == Spec => []IInv
<1>1. IInv /\ [Next]_vars => IInv'
  BY StutterIInv, WriterIInv, ReaderIInv, FifoAssumption DEF Next, spiRamFifoWrite, spiRamFifoRead
<1>2. QED
  BY InitIInv, <1>1, PTL DEF Spec

\* The positions stay inside the memory and fifoFill between 0 and its size,
\* whatever the two tasks do.
THEOREM TypeCorrect == Spec => []TypeOK
<1>1. IInv => TypeOK
  BY DEF IInv
<1>2. QED
  BY <1>1, Invariance, PTL

\* fifoFill is the distance between the positions at all times, across pieces
\* that were sized before a reset (spiram_fifo.c:67-72, 116-141).
THEOREM FillAgrees == Spec => []FillIsDistance
<1>1. IInv => FillIsDistance
  <2> SUFFICES ASSUME IInv PROVE FillIsDistance
    OBVIOUS
  <2> DEFINE x == fifoRpos + fifoFill
  <2>1. /\ SPIRAMSIZE \in Nat /\ fifoRpos \in Nat /\ fifoRpos < SPIRAMSIZE
        /\ fifoFill \in Nat /\ fifoFill <= SPIRAMSIZE
    BY FifoAssumption DEF IInv, TypeOK, Cells
  <2>2. x \in Nat /\ x < 2 * SPIRAMSIZE
    BY <2>1
  <2>3. fifoWpos = IF x < SPIRAMSIZE THEN x ELSE x - SPIRAMSIZE
    BY <2>1 DEF IInv, Distance
  <2> HIDE DEF x
  <2>4. x % SPIRAMSIZE = fifoWpos
    BY <2>2, <2>3, Around
  <2>5. QED
    BY <2>4 DEF x, FillIsDistance
<1>2. QED
  BY <1>1, Invariance, PTL

\* No piece runs past the end of the memory (spiram_fifo.c:89, 122-124, 136).
THEOREM PiecesAreBounded == Spec => []PiecesFit
<1>1. IInv => PiecesFit
  BY DEF IInv, WriterKnows, PiecesFit
<1>2. QED
  BY <1>1, Invariance, PTL

\* With one reading task the branch that waits for the writer is dead code
\* (spiram_fifo.c:91-96).
THEOREM ReadsAreCovered == Spec => []NoUnderrun
<1>1. IInv => NoUnderrun
  BY DEF IInv, ReaderKnows, NoUnderrun
<1>2. QED
  BY <1>1, Invariance, PTL

-----------------------------------------------------------------------------
(***************************************************************************)
(* The refinement of ByteFifo.  Only three steps touch the memory or the   *)
(* positions: a piece is written behind the bytes that are there, taken    *)
(* from their front, or all are dropped by a reset.                        *)
(***************************************************************************)

\* A function on 1 .. n is a sequence of length n.
LEMMA FunctionIsSeq ==
  ASSUME NEW S, NEW n \in Nat, NEW f \in [1 .. n -> S]
  PROVE  f \in Seq(S) /\ Len(f) = n
<1>1. f \in Seq(S)
  BY SeqDef
<1>2. QED
  BY <1>1, LenProperties

\* The cell of the i-th byte of the queue.
Cell(i) == IF fifoRpos + i - 1 < SPIRAMSIZE THEN fifoRpos + i - 1
           ELSE fifoRpos + i - 1 - SPIRAMSIZE

\* What is known of the queue: its length and where each byte is.
QueueShape ==
  /\ Contents \in Seq(Nat) /\ Len(Contents) = fifoFill
  /\ \A i \in 1 .. fifoFill : Contents[i] = ram[Cell(i)] /\ Cell(i) \in Cells

\* The queue that Contents makes of the memory has this shape whenever the
\* variables have their types.
LEMMA QueueFacts == IInv => QueueShape
<1> SUFFICES ASSUME IInv PROVE QueueShape
  OBVIOUS
<1>1. /\ SPIRAMSIZE \in Nat /\ fifoRpos \in Nat /\ fifoRpos < SPIRAMSIZE
      /\ fifoFill \in Nat /\ fifoFill <= SPIRAMSIZE /\ ram \in [Cells -> Nat]
  BY FifoAssumption DEF IInv, TypeOK, Cells
<1>2. ASSUME NEW i \in 1 .. fifoFill
      PROVE  Contents[i] = ram[Cell(i)] /\ Cell(i) \in Cells
  <2> DEFINE x == fifoRpos + i - 1
  <2>1. x \in Nat /\ x < 2 * SPIRAMSIZE
    BY <1>1
  <2>2. Contents[i] = ram[x % SPIRAMSIZE]
    BY DEF Contents
  <2>3. Cell(i) = IF x < SPIRAMSIZE THEN x ELSE x - SPIRAMSIZE
    BY <1>1 DEF Cell
  <2> HIDE DEF x
  <2>4. x % SPIRAMSIZE = Cell(i)
    <3>1. x % SPIRAMSIZE = IF x < SPIRAMSIZE THEN x ELSE x - SPIRAMSIZE
      BY <2>1, Around
    <3>2. QED
      BY <2>3, <3>1
  <2>5. Cell(i) \in Cells
    BY <1>1, <2>1, <2>3 DEF Cells
  <2>6. QED
    BY <2>2, <2>4, <2>5
<1>3. Contents \in [1 .. fifoFill -> Nat]
  <2>1. \A i \in 1 .. fifoFill : Contents[i] \in Nat
    BY <1>1, <1>2
  <2>2. QED
    BY <2>1 DEF Contents
<1>4. QED
  BY <1>1, <1>2, <1>3, FunctionIsSeq DEF QueueShape

\* A piece that is written is put behind the bytes that are there: its cells
\* are those after the last byte, and none of them holds one.
LEMMA PutsPiece ==
  ASSUME IInv, QueueShape, QueueShape', WriteLocked, ~Full
  PROVE  wn \in 1 .. SPIRAMSIZE /\ Queue!Put(wn)
<1> DEFINE S == SPIRAMSIZE
           piece == [i \in 1 .. wn |-> sent + i]
<1>1. /\ ram' = [c \in Cells |-> IF c - fifoWpos \in 0 .. wn - 1
                                 THEN sent + 1 + c - fifoWpos ELSE ram[c]]
      /\ fifoFill' = fifoFill + wn /\ fifoRpos' = fifoRpos
      /\ sent' = sent + wn /\ out' = out /\ wpc = "locked"
  BY DEF WriteLocked, WGoto
<1>2. /\ S \in Nat /\ fifoRpos \in Nat /\ fifoRpos < S /\ fifoWpos \in Nat
      /\ fifoFill \in Nat /\ wn \in Nat /\ 0 < wn /\ fifoWpos + wn <= S
      /\ sent \in Nat /\ fifoFill + wn <= S
  BY <1>1, FifoAssumption DEF IInv, TypeOK, Cells, WriterKnows, Full
<1>3. fifoWpos = IF fifoRpos + fifoFill < S THEN fifoRpos + fifoFill ELSE fifoRpos + fifoFill - S
  BY <1>2 DEF IInv, Distance
<1>4. piece \in Seq(Nat) /\ Len(piece) = wn /\ \A i \in 1 .. wn : piece[i] = sent + i
  <2>1. piece \in [1 .. wn -> Nat]
    BY <1>2
  <2>2. QED
    BY <1>2, <2>1, FunctionIsSeq
<1> HIDE DEF piece
<1>5. /\ Contents \in Seq(Nat) /\ Len(Contents) = fifoFill
      /\ \A i \in 1 .. fifoFill : Contents[i] = ram[Cell(i)] /\ Cell(i) \in Cells
      /\ Contents' \in Seq(Nat) /\ Len(Contents') = fifoFill + wn
      /\ \A i \in 1 .. fifoFill + wn : Contents'[i] = ram'[Cell(i)] /\ Cell(i) \in Cells
  BY <1>1 DEF QueueShape, Cell
<1>6. ASSUME NEW i \in 1 .. fifoFill + wn
      PROVE  Contents'[i] = IF i <= fifoFill THEN Contents[i] ELSE piece[i - fifoFill]
  <2>1. i \in Nat /\ 1 <= i /\ i <= fifoFill + wn
    BY <1>2
  <2>2. Cell(i) \in Cells /\ Contents'[i] = IF Cell(i) - fifoWpos \in 0 .. wn - 1
                                            THEN sent + 1 + Cell(i) - fifoWpos ELSE ram[Cell(i)]
    BY <1>1, <1>5
  <2>3. Cell(i) = IF fifoRpos + i - 1 < S THEN fifoRpos + i - 1 ELSE fifoRpos + i - 1 - S
    BY DEF Cell
  <2>4. CASE i <= fifoFill
    <3>1. Cell(i) - fifoWpos \notin 0 .. wn - 1
      BY <1>2, <1>3, <2>1, <2>3, <2>4
    <3>2. i \in 1 .. fifoFill
      BY <1>2, <2>1, <2>4
    <3>3. QED
      BY <1>5, <2>2, <2>4, <3>1, <3>2
  <2>5. CASE ~(i <= fifoFill)
    <3>1. Cell(i) = fifoWpos + (i - fifoFill) - 1
      BY <1>2, <1>3, <2>1, <2>3, <2>5
    <3>2. Contents'[i] = sent + (i - fifoFill) /\ i - fifoFill \in 1 .. wn
      BY <1>2, <2>1, <2>2, <2>5, <3>1
    <3>3. QED
      BY <1>4, <2>5, <3>2
  <2>6. QED
    BY <2>4, <2>5
<1>7. Contents' = Contents \o piece
  <2> DEFINE longer == Contents \o piece
  <2>1. /\ longer \in Seq(Nat) /\ Len(longer) = fifoFill + wn
        /\ \A i \in 1 .. fifoFill + wn :
             longer[i] = IF i <= fifoFill THEN Contents[i] ELSE piece[i - fifoFill]
    BY <1>4, <1>5, ConcatProperties
  <2> HIDE DEF longer
  <2>2. Contents' = longer
    BY <1>5, <1>6, <2>1, SeqEqual
  <2>3. QED
    BY <2>2 DEF longer
<1>8. QED
  BY <1>1, <1>2, <1>5, <1>7 DEF Queue!Put, piece

\* A piece that is read is the front of what is there: it does not go round
\* the end of the memory.
LEMMA GetsPiece ==
  ASSUME IInv, QueueShape, QueueShape', ReadLocked
  PROVE  \E n \in 1 .. Len(Contents) : Queue!Get(n)
<1> DEFINE S == SPIRAMSIZE
           n == Min({len, SPIREADSIZE, SPIRAMSIZE - fifoRpos})
<1>1. n \in Nat /\ 0 < n /\ n <= len /\ fifoRpos + n <= S
  <2>1. rpc = "locked"
    BY DEF ReadLocked, RGoto
  <2>2. QED
    BY <2>1, PieceFacts DEF IInv, TypeOK, ReaderKnows
<1>2. /\ rpc = "locked"
      /\ ~(fifoFill < n) => /\ out' = [i \in 1 .. n |-> ram[fifoRpos + i - 1]]
                            /\ fifoFill' = fifoFill - n
                            /\ fifoRpos' = IF fifoRpos + n >= S THEN 0 ELSE fifoRpos + n
                            /\ ram' = ram
      /\ sent' = sent
  BY DEF ReadLocked, RGoto
<1> HIDE DEF n
<1>3. /\ S \in Nat /\ fifoRpos \in Nat /\ fifoRpos < S /\ fifoFill \in Nat /\ fifoFill <= S
      /\ len \in Nat /\ len <= fifoFill
  BY <1>2, FifoAssumption DEF IInv, TypeOK, Cells, ReaderKnows
<1>4. /\ out' = [i \in 1 .. n |-> ram[fifoRpos + i - 1]] /\ fifoFill' = fifoFill - n
      /\ fifoRpos' = IF fifoRpos + n >= S THEN 0 ELSE fifoRpos + n
      /\ ram' = ram /\ n <= fifoFill
  BY <1>1, <1>2, <1>3
<1>5. /\ Contents \in Seq(Nat) /\ Len(Contents) = fifoFill
      /\ \A i \in 1 .. fifoFill : Contents[i] = ram[Cell(i)] /\ Contents[i] \in Nat
  <2>1. Contents \in Seq(Nat) /\ Len(Contents) = fifoFill
    BY DEF QueueShape
  <2>2. Contents \in [1 .. fifoFill -> Nat]
    BY <2>1, LenProperties
  <2>3. QED
    BY <2>1, <2>2 DEF QueueShape
<1>6. /\ Contents' \in Seq(Nat) /\ Len(Contents') = fifoFill - n
      /\ \A i \in 1 .. fifoFill - n : Contents'[i] = ram[Cell(i)']
  BY <1>4 DEF QueueShape
<1>7. out' = SubSeq(Contents, 1, n)
  <2> DEFINE front == SubSeq(Contents, 1, n)
  <2>1. \A i \in 1 .. n : Contents[i] = ram[fifoRpos + i - 1] /\ Contents[i] \in Nat
    <3> SUFFICES ASSUME NEW i \in 1 .. n
                 PROVE  Contents[i] = ram[fifoRpos + i - 1] /\ Contents[i] \in Nat
      OBVIOUS
    <3>1. i \in 1 .. fifoFill /\ fifoRpos + i - 1 < S
      BY <1>1, <1>3, <1>4
    <3>2. Cell(i) = fifoRpos + i - 1
      BY <3>1 DEF Cell
    <3>3. QED
      BY <1>5, <3>1, <3>2
  <2>2. /\ front \in Seq(Nat) /\ Len(front) = n
        /\ \A i \in 1 .. n : front[i] = Contents[i]
    <3>1. 1 \in Int /\ n \in Int /\ n - 1 + 1 = n /\ 1 <= n
      BY <1>1
    <3>2. /\ front \in Seq(Nat) /\ Len(front) = n
          /\ \A i \in 1 .. n : front[i] = Contents[1 + i - 1]
      BY <2>1, <3>1, SubSeqProperties
    <3>3. \A i \in 1 .. n : 1 + i - 1 = i
      BY <1>1
    <3>4. QED
      BY <3>2, <3>3
  <2>3. out' \in Seq(Nat) /\ Len(out') = n /\ \A i \in 1 .. n : out'[i] = Contents[i]
    <3>1. out' \in [1 .. n -> Nat] /\ \A i \in 1 .. n : out'[i] = Contents[i]
      BY <1>4, <2>1
    <3>2. QED
      BY <1>1, <3>1, FunctionIsSeq
  <2> HIDE DEF front
  <2>4. out' = front
    BY <2>2, <2>3, SeqEqual
  <2>5. QED
    BY <2>4 DEF front
<1>8. Contents' = SubSeq(Contents, n + 1, fifoFill)
  <2> DEFINE rest == SubSeq(Contents, n + 1, fifoFill)
             last == fifoFill - n
  <2>1. /\ rest \in Seq(Nat) /\ Len(rest) = last
        /\ \A i \in 1 .. last : rest[i] = Contents[n + i]
    <3>1. /\ n + 1 \in Int /\ fifoFill \in Int /\ fifoFill - (n + 1) + 1 = last
          /\ n + 1 <= fifoFill \/ last = 0
      BY <1>1, <1>3, <1>4
    <3>2. \A i \in n + 1 .. fifoFill : Contents[i] \in Nat
      <4>1. \A i \in n + 1 .. fifoFill : i \in 1 .. fifoFill
        BY <1>1, <1>3
      <4>2. QED
        BY <1>5, <4>1
    <3>3. /\ rest \in Seq(Nat) /\ Len(rest) = IF n + 1 <= fifoFill THEN fifoFill - (n + 1) + 1 ELSE 0
          /\ \A i \in 1 .. fifoFill - (n + 1) + 1 : rest[i] = Contents[n + 1 + i - 1]
      BY <3>1, <3>2, SubSeqProperties
    <3>4. Len(rest) = last
      BY <1>1, <1>3, <3>1, <3>3
    <3>5. \A i \in 1 .. last : n + 1 + i - 1 = n + i
      BY <1>1
    <3>6. QED
      BY <3>1, <3>3, <3>4, <3>5
  <2> HIDE DEF rest
  <2>2. ASSUME NEW i \in 1 .. last PROVE Contents'[i] = Contents[n + i]
    <3>1. i \in Nat /\ 1 <= i /\ n + i <= fifoFill /\ n + i \in 1 .. fifoFill
      BY <1>1, <1>3, <1>4
    <3>2. /\ Cell(i)' = IF fifoRpos' + i - 1 < S THEN fifoRpos' + i - 1 ELSE fifoRpos' + i - 1 - S
          /\ Cell(n + i) = IF fifoRpos + (n + i) - 1 < S THEN fifoRpos + (n + i) - 1
                           ELSE fifoRpos + (n + i) - 1 - S
      BY DEF Cell
    <3>3. Cell(i)' = Cell(n + i)
      BY <1>1, <1>3, <1>4, <3>1, <3>2
    <3>4. QED
      BY <1>5, <1>6, <3>1, <3>3
  <2>3. Contents' = rest
    BY <1>6, <2>1, <2>2, SeqEqual
  <2>4. QED
    BY <2>3 DEF rest
<1>9. n \in 1 .. Len(Contents) /\ Queue!Get(n)
  BY <1>1, <1>2, <1>3, <1>4, <1>5, <1>7, <1>8 DEF Queue!Get
<1>10. QED
  BY <1>9

\* A step of either task is a step of the queue, or leaves it alone.
LEMMA StepRefines ==
  ASSUME IInv, QueueShape, QueueShape', Next
  PROVE  Queue!Next \/ UNCHANGED <<Contents, sent, out>>
<1>1. CASE WriteLocked /\ ~Full
  BY <1>1, PutsPiece DEF Queue!Next
<1>2. CASE WriteLocked /\ Full
  BY <1>2 DEF WriteLocked, Contents
<1>3. CASE ReadLocked
  BY <1>3, GetsPiece DEF Queue!Next
<1>4. CASE Reset
  <2>1. Contents' = <<>> /\ sent' = sent /\ out' = out
    <3>1. fifoFill' = 0 /\ sent' = sent /\ out' = out
      BY <1>4 DEF Reset
    <3>2. Contents' \in Seq(Nat) /\ Len(Contents') = 0
      BY <3>1 DEF QueueShape
    <3>3. QED
      BY <3>1, <3>2, EmptySeq
  <2>2. QED
    BY <2>1 DEF Queue!Next, Queue!Clear
<1>5. CASE WriteSize \/ WriteCut \/ WriteWait \/ WriteGive \/ \E n \in 0 .. MaxLen : Write(n)
  BY <1>5 DEF WriteSize, WriteCut, WriteWait, WriteGive, Write, Contents, fifo
<1>6. CASE ReadTest \/ ReadClamp \/ ReadGive \/ ResetTake \/ \E n \in 0 .. MaxLen : Read(n)
  BY <1>6 DEF ReadTest, ReadClamp, ReadGive, ResetTake, Read, Contents, fifo
<1>7. QED
  BY <1>1, <1>2, <1>3, <1>4, <1>5, <1>6
     DEF Next, spiRamFifoWrite, spiRamFifoRead, WriteStep, ReadStep

\* For every size of the memory and of the pieces the FIFO implements the
\* queue of bytes: they come out in the order in which they went in, none is
\* lost or repeated, and only a reset drops any (spiram_fifo.c:67-146).
THEOREM QueueIsImplemented == Spec => ImplementsQueue
<1>1. Init => Queue!Init
  BY DEF Init, Queue!Init, Contents
<1>2. IInv /\ QueueShape /\ QueueShape' /\ [Next]_vars
        => [Queue!Next]_<<Contents, sent, out>>
  <2> SUFFICES ASSUME IInv, QueueShape, QueueShape', [Next]_vars
               PROVE  Queue!Next \/ UNCHANGED <<Contents, sent, out>>
    OBVIOUS
  <2>1. CASE UNCHANGED vars
    BY <2>1 DEF vars, fifo, Contents
  <2>2. CASE Next
    BY <2>2, StepRefines
  <2>3. QED
    BY <2>1, <2>2
<1>3. QED
  BY <1>1, <1>2, Invariance, QueueFacts, PTL DEF Spec, ImplementsQueue, Queue!Spec

=============================================================================
