----------------------------- MODULE SpiRamFifo -----------------------------
(***************************************************************************)
(* ESP32/components/fifo/spiram_fifo.c: a byte FIFO in (fake) SPI RAM for  *)
(* one writing and one reading task, with a mutex and two binary           *)
(* semaphores.  What a task does between taking and giving the mutex is    *)
(* one step: others see only fifoFill without the mutex, and each section  *)
(* stores it once.  spiRamFifoReset alone blocks while it holds the mutex. *)
(* The loads of fifoFill outside the mutex (lines 82 and 83) and those of  *)
(* fifoWpos (122 and 123) are steps of their own.  A compiler may join the *)
(* two of a pair; the steps can be taken without one in between.           *)
(*                                                                         *)
(* A byte is its position in the stream that was written.  A reset between *)
(* lines 122 and 123 makes the piece as long as the memory: what then goes *)
(* in from behind the caller's data counts as written, and buffLen ends    *)
(* below 0.                                                                *)
(***************************************************************************)
EXTENDS Integers, Sequences, FiniteSetsExt

CONSTANTS
  SPIRAMSIZE,     \* 128000 in the program
  SPIREADSIZE,    \* 64 in the program
  MaxLen,         \* bound: the largest len of a call
  MaxSent         \* bound: the bytes the writer is given

ASSUME FifoAssumption ==
  /\ SPIRAMSIZE \in Nat \ {0}
  /\ SPIREADSIZE \in Nat \ {0}
  /\ MaxLen \in Nat
  /\ MaxSent \in Nat

Cells == 0 .. SPIRAMSIZE - 1

VARIABLES
  ram,                        \* fakespiram
  fifoRpos, fifoWpos, fifoFill,
  fifoOvfCnt, fifoUdrCnt,
  semCanRead, semCanWrite,    \* 1: given, 0: taken
  mux,                        \* "free", or "held" across a blocking call
  wpc, buffLen, wn,           \* spiRamFifoWrite: where it is, what is left, n
  rpc, len, m,                \* spiRamFifoRead: where it is, what is left, m
  sent,                       \* history: bytes written
  out                         \* history: the bytes of the last spiRamRead

fifo == <<ram, fifoRpos, fifoWpos, fifoFill, fifoOvfCnt, fifoUdrCnt>>
sems == <<semCanRead, semCanWrite, mux>>
writer == <<wpc, buffLen, wn>>
reader == <<rpc, len, m>>
vars == <<fifo, sems, writer, reader, sent, out>>

Contents == [i \in 1 .. fifoFill |-> ram[(fifoRpos + i - 1) % SPIRAMSIZE]]

-----------------------------------------------------------------------------
\* vSemaphoreCreateBinary creates a semaphore that can be taken at once.
Init ==
  /\ ram = [c \in Cells |-> 0]
  /\ fifoRpos = 0 /\ fifoWpos = 0 /\ fifoFill = 0
  /\ fifoOvfCnt = 0 /\ fifoUdrCnt = 0
  /\ semCanRead = 1 /\ semCanWrite = 1 /\ mux = "free"
  /\ wpc = "return" /\ buffLen = 0 /\ wn = 0
  /\ rpc = "return" /\ len = 0 /\ m = 0
  /\ sent = 0 /\ out = <<>>

-----------------------------------------------------------------------------
WGoto(from, to) == wpc = from /\ wpc' = to

Write(n) ==
  /\ WGoto("return", IF n > 0 THEN "size" ELSE "return")
  /\ sent + n <= MaxSent
  /\ buffLen' = n
  /\ UNCHANGED <<fifo, sems, wn, reader, sent, out>>

\* Mutant: a piece may run past the end of the memory.
NeverPastEnd(n) == FALSE

PastEnd(n) == n > SPIRAMSIZE - fifoWpos

\* The piece is sized, before the mutex is taken, ...
WriteSize ==
  LET n == Min({buffLen, SPIREADSIZE})
  IN  /\ WGoto("size", IF PastEnd(n) THEN "cut" ELSE "locked")
      /\ wn' = n
      /\ UNCHANGED <<fifo, sems, buffLen, reader, sent, out>>

\* ... and cut at the end of the memory, for which fifoWpos is looked up again.
WriteCut ==
  /\ WGoto("cut", "locked")
  /\ wn' = SPIRAMSIZE - fifoWpos
  /\ UNCHANGED <<fifo, sems, buffLen, reader, sent, out>>

\* Mutant: one byte too many fits.
Overfull == SPIRAMSIZE + 1 - fifoFill < wn

Full == SPIRAMSIZE - fifoFill < wn

\* The section under the mutex: the piece is written, or the FIFO is full.
WriteLocked ==
  /\ mux = "free"
  /\ IF Full
     THEN /\ WGoto("locked", "full")
          /\ fifoOvfCnt' = fifoOvfCnt + 1
          /\ UNCHANGED <<ram, fifoRpos, fifoWpos, fifoFill, fifoUdrCnt, buffLen, sent>>
     ELSE /\ WGoto("locked", "give")
          /\ ram' = [c \in Cells |-> IF c - fifoWpos \in 0 .. wn - 1
                                     THEN sent + 1 + c - fifoWpos ELSE ram[c]]
          /\ buffLen' = buffLen - wn
          /\ fifoFill' = fifoFill + wn
          /\ fifoWpos' = IF fifoWpos + wn >= SPIRAMSIZE THEN 0 ELSE fifoWpos + wn
          /\ sent' = sent + wn
          /\ UNCHANGED <<fifoRpos, fifoOvfCnt, fifoUdrCnt>>
  /\ UNCHANGED <<sems, wn, reader, out>>

WriteWait ==
  /\ WGoto("full", "size")
  /\ semCanWrite = 1 /\ semCanWrite' = 0
  /\ UNCHANGED <<fifo, semCanRead, mux, buffLen, wn, reader, sent, out>>

WriteGive ==
  /\ WGoto("give", IF buffLen > 0 THEN "size" ELSE "return")
  /\ semCanRead' = 1
  /\ UNCHANGED <<fifo, semCanWrite, mux, buffLen, wn, reader, sent, out>>

WriteStep == WriteSize \/ WriteCut \/ WriteLocked \/ WriteWait \/ WriteGive

-----------------------------------------------------------------------------
RGoto(from, to) == rpc = from /\ rpc' = to

Read(n) ==
  /\ RGoto("return", IF n > 0 THEN "test" ELSE "return")
  /\ len' = n /\ m' = 0
  /\ UNCHANGED <<fifo, sems, writer, sent, out>>

\* Mutant: the call is not cut down to what is there.
NeverShort == FALSE

Short == len > fifoFill

\* The call is cut down to what the FIFO holds, ...
ReadTest ==
  /\ RGoto("test", IF Short THEN "clamp" ELSE "locked")
  /\ m' = len
  /\ UNCHANGED <<fifo, sems, writer, len, sent, out>>

\* ... which it looks up again.
ReadClamp ==
  /\ RGoto("clamp", IF fifoFill > 0 THEN "locked" ELSE "return")
  /\ len' = fifoFill /\ m' = fifoFill
  /\ UNCHANGED <<fifo, sems, writer, sent, out>>

\* The section under the mutex.  NoUnderrun shows that the branch that waits
\* for data is never taken, so nothing follows "underrun" here.
ReadLocked ==
  LET n == Min({len, SPIREADSIZE, SPIRAMSIZE - fifoRpos})
  IN  /\ mux = "free"
      /\ IF fifoFill < n
         THEN /\ RGoto("locked", "underrun")
              /\ fifoUdrCnt' = fifoUdrCnt + 1
              /\ UNCHANGED <<ram, fifoRpos, fifoWpos, fifoFill, fifoOvfCnt, len, out>>
         ELSE /\ RGoto("locked", "give")
              /\ out' = [i \in 1 .. n |-> ram[fifoRpos + i - 1]]
              /\ len' = len - n
              /\ fifoFill' = fifoFill - n
              /\ fifoRpos' = IF fifoRpos + n >= SPIRAMSIZE THEN 0 ELSE fifoRpos + n
              /\ UNCHANGED <<ram, fifoWpos, fifoOvfCnt, fifoUdrCnt>>
      /\ UNCHANGED <<sems, writer, m, sent>>

\* Mutant: the writer is not told that there is room.
TellsNobody == UNCHANGED semCanWrite

TellsWriter == semCanWrite' = 1

ReadGive ==
  /\ RGoto("give", IF len > 0 THEN "locked" ELSE "return")
  /\ TellsWriter
  /\ UNCHANGED <<fifo, semCanRead, mux, writer, len, m, sent, out>>

\* Mutant: a writer that waits for room is not told about the reset.
ResetTellsNobody == UNCHANGED semCanWrite

ResetTellsWriter == semCanWrite' = 1

\* spiRamFifoReset, up to the point where it blocks with the mutex held.
Reset ==
  /\ RGoto("return", "drain")
  /\ mux = "free" /\ mux' = "held"
  /\ fifoRpos' = 0 /\ fifoWpos' = 0 /\ fifoFill' = 0
  /\ fifoOvfCnt' = 0 /\ fifoUdrCnt' = 0
  /\ ResetTellsWriter
  /\ UNCHANGED <<ram, semCanRead, writer, len, m, sent, out>>

ResetTake ==
  /\ RGoto("drain", "return")
  /\ semCanRead = 1 /\ semCanRead' = 0
  /\ mux' = "free"
  /\ UNCHANGED <<fifo, semCanWrite, writer, len, m, sent, out>>

ReadStep == ReadTest \/ ReadClamp \/ ReadLocked \/ ReadGive \/ ResetTake

-----------------------------------------------------------------------------
spiRamFifoWrite == WriteStep \/ \E n \in 0 .. MaxLen : Write(n)
spiRamFifoRead == ReadStep \/ \E n \in 0 .. MaxLen : Read(n)

Next == spiRamFifoWrite \/ spiRamFifoRead \/ Reset

Spec == Init /\ [][Next]_vars

\* A task that is not blocked keeps running, and the reading task keeps
\* asking for data.
FairSpec ==
  /\ Spec
  /\ WF_vars(WriteStep)
  /\ WF_vars(ReadStep)
  /\ WF_vars(\E n \in 1 .. MaxLen : Read(n))

-----------------------------------------------------------------------------
(***************************************************************************)
(* Properties                                                              *)
(***************************************************************************)

\* Every variable keeps its type; in particular both positions stay inside
\* the memory and fifoFill between 0 and SPIRAMSIZE.
TypeOK ==
  /\ ram \in [Cells -> Nat]
  /\ fifoRpos \in Cells /\ fifoWpos \in Cells
  /\ fifoFill \in 0 .. SPIRAMSIZE
  /\ fifoOvfCnt \in Nat /\ fifoUdrCnt \in Nat
  /\ semCanRead \in {0, 1} /\ semCanWrite \in {0, 1} /\ mux \in {"free", "held"}
  /\ wpc \in {"return", "size", "cut", "locked", "full", "give"}
  /\ buffLen \in Int /\ wn \in Nat
  /\ rpc \in {"return", "test", "clamp", "locked", "underrun", "give", "drain"}
  /\ len \in Nat /\ m \in Nat
  /\ sent \in Nat

\* fifoFill is the distance between the two positions at all times, although
\* a piece is sized from two loads of fifoWpos before the mutex is taken and a
\* reset may come after either (spiram_fifo.c:116-141, 67-72).
FillIsDistance == (fifoRpos + fifoFill) % SPIRAMSIZE = fifoWpos

\* A piece never runs past the end of the memory, even if it was sized, or
\* half sized, before a reset (spiram_fifo.c:89, 122-124, 136).
PiecesFit == wpc = "locked" => fifoWpos + wn <= SPIRAMSIZE

\* With one reading task the FIFO never holds less than a read that is under
\* way still wants: the branch that waits for the writer (spiram_fifo.c:91-96)
\* is dead.
NoUnderrun ==
  /\ rpc \in {"locked", "give"} => len <= fifoFill
  /\ fifoUdrCnt = 0

\* The FIFO implements the abstract queue: bytes come out in the order in
\* which they went in, none lost or repeated, except that a reset drops what
\* is in it (spiram_fifo.c:67-146).
Queue == INSTANCE ByteFifo WITH queue <- Contents, Capacity <- SPIRAMSIZE
ImplementsQueue == Queue!Spec

\* A writer that found the FIFO full is woken: no wake-up is lost between the
\* test under the mutex and the wait on the semaphore (spiram_fifo.c:127-132).
FullWriterWakes == wpc = "full" ~> wpc # "full"
=============================================================================
