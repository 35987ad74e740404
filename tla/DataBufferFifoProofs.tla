------------------------ MODULE DataBufferFifoProofs ------------------------
(***************************************************************************)
(* The proof that the block ring of DataBuffer is a FIFO of bytes, for     *)
(* every number and length of blocks and every size of the calls, as long  *)
(* as no task resets a `used' that the other still needs.                  *)
(*                                                                         *)
(* `used' is the position in its block of the one task that the flag gives *)
(* the block to; what a task has copied but not yet added to it is known   *)
(* from where the task is (Off).  Counted in this way, the writer is ahead *)
(* of the reader by exactly the full blocks (Positions), each full block   *)
(* holds the bytes of its place in the stream (Filled), and the writer's   *)
(* block those of its beginning (Filling).                                 *)
(***************************************************************************)
EXTENDS DataBufferProofs

\* How far task t is in its block.
Off(t) ==
  IF state[index[t]] # Own(t) THEN 0
  ELSE IF pc[t] = "load" THEN used[index[t]] + size[t]
  ELSE IF pc[t] = "store" THEN reg[t] + size[t]
  ELSE IF pc[t] = "hand" THEN LENGTH_OF_BUFFER
  ELSE used[index[t]]

\* The number of stream bytes in k blocks.
Bytes(k) == LENGTH_OF_BUFFER * k

\* How many blocks the reader has before block b.
Dist(b) == IF b >= index["reader"] THEN b - index["reader"]
           ELSE b - index["reader"] + NUMBER_OF_BUFFER

\* The number of bytes before the reader's block.
Base == moved["reader"] - Off("reader")

\* `used' is 0 in a block that no task is in, and in one just entered.
Resets ==
  /\ \A b \in Slots : b # index["reader"] /\ b # index["writer"] => used[b] = 0
  /\ \A t \in Tasks : pc[t] = "enter" /\ state[index[t]] = Own(t) => used[index[t]] = 0

\* The bytes up to the end of the block are among those asked for.
Requests ==
  \A t \in Tasks :
    /\ pc[t] = "remain" => LENGTH_OF_BUFFER - used[index[t]] <= size[t]
    /\ pc[t] = "fill" => reg[t] = LENGTH_OF_BUFFER - used[index[t]] /\ reg[t] <= size[t]

Positions == moved["writer"] - Off("writer") = Base + Bytes(FullBlocks)

Filled ==
  \A b \in Slots, i \in Offsets :
    state[b] = "B_PREPARED" => buffer[b][i] = Base + Bytes(Dist(b)) + 1 + i

Filling ==
  \A i \in Offsets :
    state[index["writer"]] = "B_UNPREPARED" /\ i < Off("writer")
      => buffer[index["writer"]][i] = moved["writer"] - Off("writer") + 1 + i

InStep == Resets /\ Requests /\ Positions /\ Filled /\ Filling /\ inOrder
FifoInv == ~clobbered => InStep

-----------------------------------------------------------------------------
\* Arithmetic of whole blocks.
LEMMA BytesFacts ==
  /\ Bytes(0) = 0
  /\ \A k \in Int : Bytes(k) \in Int /\ Bytes(k + 1) = Bytes(k) + LENGTH_OF_BUFFER
  /\ \A k \in Nat : Bytes(k) >= 0 /\ (k > 0 => Bytes(k) >= LENGTH_OF_BUFFER)
<1>1. LENGTH_OF_BUFFER \in Nat /\ LENGTH_OF_BUFFER > 0
  BY BufferAssumption
<1>2. \A k \in Nat : Bytes(k) >= 0
  BY <1>1 DEF Bytes
<1>3. \A k \in Int : Bytes(k) \in Int /\ Bytes(k + 1) = Bytes(k) + LENGTH_OF_BUFFER
  BY <1>1 DEF Bytes
<1>4. ASSUME NEW k \in Nat, k > 0 PROVE Bytes(k) >= LENGTH_OF_BUFFER
  <2>1. k - 1 \in Nat /\ (k - 1) + 1 = k
    BY <1>4
  <2>2. Bytes(k) = Bytes(k - 1) + LENGTH_OF_BUFFER /\ Bytes(k - 1) >= 0 /\ Bytes(k - 1) \in Int
    BY <1>2, <1>3, <2>1
  <2>3. QED
    BY <1>1, <2>2
<1>5. QED
  BY <1>1, <1>2, <1>3, <1>4 DEF Bytes

\* The types that the steps below need, one by one.
LEMMA Types ==
  ASSUME IInv
  PROVE  /\ index["reader"] \in Slots /\ index["writer"] \in Slots
         /\ \A b \in Slots : b \in Nat /\ b < NUMBER_OF_BUFFER
         /\ \A i \in Offsets : i \in Nat /\ i < LENGTH_OF_BUFFER
         /\ \A t \in Tasks : index[t] \in Slots /\ used[index[t]] \in Nat /\ size[t] \in Int
                             /\ reg[t] \in Int /\ moved[t] \in Nat
                             /\ used[index[t]] < LENGTH_OF_BUFFER
         /\ state \in [Slots -> {"B_PREPARED", "B_UNPREPARED"}]
         /\ used \in [Slots -> Offsets]
         /\ NUMBER_OF_BUFFER \in Nat /\ LENGTH_OF_BUFFER \in Nat
<1>1. /\ state \in [Slots -> {"B_PREPARED", "B_UNPREPARED"}] /\ used \in [Slots -> Offsets]
      /\ index \in [Tasks -> Slots] /\ size \in [Tasks -> Int] /\ reg \in [Tasks -> Int]
      /\ moved \in [Tasks -> Nat]
  BY DEF IInv, TypeOK
<1>2. /\ \A b \in Slots : b \in Nat /\ b < NUMBER_OF_BUFFER
      /\ \A i \in Offsets : i \in Nat /\ i < LENGTH_OF_BUFFER
  BY BufferAssumption DEF Slots, Offsets
<1>3. "reader" \in Tasks /\ "writer" \in Tasks
  BY DEF Tasks
<1>4. QED
  BY <1>1, <1>2, <1>3, BufferAssumption

\* A task is never past the end of its block.
LEMMA OffFacts ==
  ASSUME IInv, NEW t \in Tasks
  PROVE  Off(t) \in Nat /\ Off(t) <= LENGTH_OF_BUFFER
BY Types DEF Off, IInv, Bounds

\* A step that leaves flags, indices, bytes and positions alone keeps the
\* relation between them.
LEMMA Quiet ==
  ASSUME InStep, UNCHANGED <<state, index, buffer, moved>>,
         \A t \in Tasks : Off(t)' = Off(t)
  PROVE  Positions' /\ Filled' /\ Filling'
<1>1. "reader" \in Tasks /\ "writer" \in Tasks
  BY DEF Tasks
<1>2. Base' = Base /\ FullBlocks' = FullBlocks /\ Off("writer")' = Off("writer")
  BY <1>1 DEF Base, FullBlocks
<1>3. \A b \in Slots : Dist(b)' = Dist(b)
  BY DEF Dist
<1>4. Positions'
  BY <1>2 DEF InStep, Positions
<1>5. Filled'
  BY <1>2, <1>3 DEF InStep, Filled
<1>6. Filling'
  BY <1>2 DEF InStep, Filling
<1>7. QED
  BY <1>4, <1>5, <1>6

\* What a step of t leaves alone of the other task.
Apart(t) ==
  LET u == Other(t)
  IN  pc'[u] = pc[u] /\ size'[u] = size[u] /\ reg'[u] = reg[u] /\ index'[u] = index[u]

\* Every step of a task leaves the local variables of the other alone.
LEMMA StepApart ==
  ASSUME IInv, NEW t \in Tasks, Step(t) \/ \E n \in Nat : Call(t, n)
  PROVE  Apart(t)
<1>1. /\ index \in [Tasks -> Slots] /\ pc \in [Tasks -> PCs]
      /\ size \in [Tasks -> Int] /\ reg \in [Tasks -> Int]
  BY DEF IInv, TypeOK
<1>2. Other(t) \in Tasks /\ Other(t) # t
  BY OwnFacts
<1>3. QED
  BY <1>1, <1>2 DEF Apart, Step, Call, Test, Copy, Load, Store, Remain, Fill, Hand, Enter,
                    CountLoad, CountStore, Goto

\* The steps that move neither bytes nor blocks and leave `used' alone.
LEMMA LocalSteps ==
  ASSUME IInv, InStep, NEW t \in Tasks,
         \/ \E n \in Nat : Call(t, n)
         \/ Test(t) \/ Load(t) \/ Remain(t) \/ CountLoad(t) \/ CountStore(t)
  PROVE  InStep'
<1> USE OwnFacts
<1>1. UNCHANGED <<state, used, index, buffer, moved>>
  BY DEF Call, Test, Load, Remain, CountLoad, CountStore, shared, history
<1>2. Apart(t)
  BY StepApart DEF Step
<1>3. /\ pc \in [Tasks -> PCs] /\ size \in [Tasks -> Int] /\ reg \in [Tasks -> Int]
  BY DEF IInv, TypeOK
<1>4. inOrder'
  BY Zenon DEF Call, Test, Load, Remain, CountLoad, CountStore, history, InStep
<1>5. Off(t)' = Off(t) /\ Off(Other(t))' = Off(Other(t))
  <2>1. Off(Other(t))' = Off(Other(t))
    BY <1>1, <1>2 DEF Off, Apart
  <2>2. Off(t)' = Off(t)
    <3>1. CASE \E n \in Nat : Call(t, n)
      BY <1>1, <1>3, <3>1 DEF Off, Call, Goto
    <3>2. CASE Test(t)
      BY <1>1, <1>3, <3>2 DEF Off, Test, Goto
    <3>3. CASE Load(t)
      BY <1>1, <1>3, <3>3 DEF Off, Load, Goto
    <3>4. CASE Remain(t)
      BY <1>1, <1>3, <3>4 DEF Off, Remain, Goto
    <3>5. CASE CountLoad(t) \/ CountStore(t)
      BY <1>1, <1>3, <3>5 DEF Off, CountLoad, CountStore, Goto
    <3>6. QED
      BY <3>1, <3>2, <3>3, <3>4, <3>5
  <2>3. QED
    BY <2>1, <2>2
<1>6. Positions' /\ Filled' /\ Filling'
  BY <1>1, <1>5, Quiet
<1>7. Resets'
  <2>1. pc'[t] # "enter"
    BY <1>3 DEF Call, Test, Load, Remain, CountLoad, CountStore, Goto
  <2>2. \A u \in Tasks : pc'[u] = "enter" => pc[u] = "enter"
    BY <1>2, <2>1 DEF Apart
  <2>3. QED
    BY <1>1, <2>2 DEF InStep, Resets
<1>8. Requests'
  <2>1. \A u \in Tasks : used[index[u]] \in Int /\ size[u] \in Int
    BY Types
  <2>2. /\ pc'[t] = "remain" => LENGTH_OF_BUFFER - used[index[t]] <= size'[t]
        /\ pc'[t] = "fill" => /\ reg'[t] = LENGTH_OF_BUFFER - used[index[t]]
                              /\ reg'[t] <= size'[t]
    <3>1. CASE Test(t)
      BY <1>3, <2>1, <3>1, BufferAssumption DEF Test, Fits, Goto
    <3>2. CASE Remain(t)
      BY <1>3, <2>1, <3>2 DEF Remain, UpToEnd, Goto, InStep, Requests
    <3>3. CASE (\E n \in Nat : Call(t, n)) \/ Load(t) \/ CountLoad(t) \/ CountStore(t)
      BY <1>3, <3>3 DEF Call, Load, CountLoad, CountStore, Goto
    <3>4. QED
      BY <3>1, <3>2, <3>3
  <2>3. QED
    BY <1>1, <1>2, <2>2 DEF InStep, Requests, Apart
<1>9. QED
  BY <1>4, <1>6, <1>7, <1>8 DEF InStep

\* The task that the flag does not give a block to is not in it, so that the
\* store of `used' (data_buffer.c:40, 69) is nothing to it.
LEMMA StoreStep ==
  ASSUME IInv, InStep, NEW t \in Tasks, Store(t)
  PROVE  InStep'
<1> USE OwnFacts
<1>1. /\ pc[t] = "store" /\ pc' = [pc EXCEPT ![t] = "return"]
      /\ used' = [used EXCEPT ![index[t]] = reg[t] + size[t]]
      /\ UNCHANGED <<state, index, buffer, moved, size, reg>>
  BY DEF Store, Goto, history
<1>2. Apart(t) /\ state[index[t]] = Own(t)
  BY <1>1, StepApart DEF Step, IInv, Owns, InSection
<1>3. pc \in [Tasks -> PCs] /\ used \in [Slots -> Offsets] /\ index[t] \in Slots
      /\ index[Other(t)] \in Slots
  BY Types DEF IInv, TypeOK
<1>4. inOrder'
  BY Zenon DEF Store, history, InStep
<1>5. /\ pc'[t] = "return" /\ used'[index[t]] = reg[t] + size[t]
      /\ \A b \in Slots : b # index[t] => used'[b] = used[b]
  BY <1>1, <1>3
<1>6. \A u \in Tasks : u # t /\ state[index[u]] = Own(u) => used'[index[u]] = used[index[u]]
  BY <1>2, <1>3, <1>5
<1>7. \A u \in Tasks : Off(u)' = Off(u)
  <2>1. Off(t)' = Off(t)
    BY <1>1, <1>2, <1>5 DEF Off
  <2>2. Off(Other(t))' = Off(Other(t))
    BY <1>1, <1>2, <1>6 DEF Off, Apart
  <2>3. QED
    BY <2>1, <2>2
<1>8. Positions' /\ Filled' /\ Filling'
  BY <1>1, <1>7, Quiet
<1>9. Resets'
  <2>1. \A b \in Slots : b # index["reader"] /\ b # index["writer"] => b # index[t]
    BY DEF Tasks
  <2>2. ASSUME NEW u \in Tasks, pc'[u] = "enter", state[index[u]] = Own(u)
        PROVE  used'[index[u]] = 0
    <3>1. u # t /\ pc[u] = "enter"
      BY <1>2, <1>5, <2>2 DEF Apart
    <3>2. QED
      BY <1>6, <2>2, <3>1 DEF InStep, Resets
  <2>3. QED
    BY <1>1, <1>5, <2>1, <2>2 DEF InStep, Resets
<1>10. Requests'
  <2>1. ASSUME NEW u \in Tasks, pc'[u] \in {"remain", "fill"}
        PROVE  u # t /\ pc[u] = pc'[u] /\ used'[index[u]] = used[index[u]]
    <3>1. u # t /\ pc[u] = pc'[u]
      BY <1>2, <1>5, <2>1 DEF Apart
    <3>2. state[index[u]] = Own(u)
      BY <2>1, <3>1 DEF IInv, Owns, InSection
    <3>3. QED
      BY <1>6, <3>1, <3>2
  <2>2. QED
    BY <1>1, <2>1 DEF InStep, Requests
<1>11. QED
  BY <1>4, <1>8, <1>9, <1>10 DEF InStep

\* A reset on entering a block (data_buffer.c:52, 81) is harmless when `used'
\* is 0 already, or the other task is about to overwrite it.
LEMMA EnterStep ==
  ASSUME IInv, InStep, NEW t \in Tasks, Enter(t), ~clobbered'
  PROVE  InStep'
<1> USE OwnFacts
<1>1. /\ pc[t] = "enter" /\ pc' = [pc EXCEPT ![t] = "cload"]
      /\ used' = [used EXCEPT ![index[t]] = 0]
      /\ UNCHANGED <<state, index, buffer, moved, size, reg>>
  BY DEF Enter, Goto
<1>2. used[index[t]] = 0 \/ pc[Other(t)] \in {"store", "hand"}
  BY DEF Enter
<1>3. Apart(t)
  BY StepApart DEF Step
<1>4. pc \in [Tasks -> PCs] /\ used \in [Slots -> Offsets] /\ index[t] \in Slots
      /\ index[Other(t)] \in Slots
  BY Types DEF IInv, TypeOK
<1>5. inOrder'
  BY Zenon DEF Enter, InStep
<1>6. /\ pc'[t] = "cload" /\ used'[index[t]] = 0
      /\ \A b \in Slots : b # index[t] => used'[b] = used[b]
  BY <1>1, <1>4
<1>7. ASSUME NEW u \in Tasks, u # t, pc[u] \notin {"store", "hand"}
      PROVE  used'[index[u]] = used[index[u]]
  <2>1. used[index[t]] = 0
    BY <1>2, <1>7
  <2>2. QED
    BY <1>4, <1>6, <1>7, <2>1
<1>8. \A u \in Tasks : Off(u)' = Off(u)
  <2>1. Off(t)' = Off(t)
    BY <1>1, <1>6 DEF Off, InStep, Resets
  <2>2. Off(Other(t))' = Off(Other(t))
    BY <1>1, <1>3, <1>7 DEF Off, Apart
  <2>3. QED
    BY <2>1, <2>2
<1>9. Positions' /\ Filled' /\ Filling'
  BY <1>1, <1>8, Quiet
<1>10. Resets'
  <2>1. \A b \in Slots : b # index["reader"] /\ b # index["writer"] => b # index[t]
    BY DEF Tasks
  <2>2. ASSUME NEW u \in Tasks, pc'[u] = "enter", state[index[u]] = Own(u)
        PROVE  used'[index[u]] = 0
    <3>1. u # t /\ pc[u] = "enter"
      BY <1>3, <1>6, <2>2 DEF Apart
    <3>2. QED
      BY <1>7, <2>2, <3>1 DEF InStep, Resets
  <2>3. QED
    BY <1>1, <1>6, <2>1, <2>2 DEF InStep, Resets
<1>11. Requests'
  <2>1. ASSUME NEW u \in Tasks, pc'[u] \in {"remain", "fill"}
        PROVE  u # t /\ pc[u] = pc'[u] /\ used'[index[u]] = used[index[u]]
    <3>1. u # t /\ pc[u] = pc'[u] /\ pc[u] \notin {"store", "hand"}
      BY <1>3, <1>6, <2>1 DEF Apart
    <3>2. QED
      BY <1>7, <3>1
  <2>2. QED
    BY <1>1, <2>1 DEF InStep, Requests
<1>12. QED
  BY <1>5, <1>9, <1>10, <1>11 DEF InStep

\* A memcpy by the writer puts the next bytes of the stream behind those that
\* its block holds (data_buffer.c:39, 44).
LEMMA WriterCopies ==
  ASSUME IInv, InStep, NEW len \in Nat, len <= size["writer"], Memcpy("writer", len),
         state[index["writer"]] = "B_UNPREPARED", Off("writer") = used[index["writer"]],
         UNCHANGED <<state, index, used>>,
         Off("writer")' = Off("writer") + len, Off("reader")' = Off("reader")
  PROVE  Positions' /\ Filled' /\ Filling' /\ inOrder'
<1> DEFINE w == index["writer"]
           off == used[w]
           W == moved["writer"]
<1>1. /\ "writer" \in Tasks /\ "reader" \in Tasks /\ w \in Slots
      /\ off \in Nat /\ off < LENGTH_OF_BUFFER /\ W \in Nat /\ size["writer"] \in Int
      /\ moved \in [Tasks -> Nat] /\ buffer \in [Slots -> [Offsets -> Nat]]
  BY Types DEF Tasks, IInv, TypeOK
<1>2. /\ buffer' = [buffer EXCEPT ![w] =
                     [i \in Offsets |-> IF i < off \/ i >= off + len THEN buffer[w][i]
                                        ELSE IF i < off + len THEN W + 1 + i - off ELSE 0]]
      /\ moved' = [moved EXCEPT !["writer"] = @ + len]
  <2>1. (IF len < size["writer"] THEN len ELSE size["writer"]) = len
    <3>1. ~(len < size["writer"]) => size["writer"] = len
      BY <1>1
    <3>2. QED
      BY <3>1
  <2>2. QED
    BY <2>1 DEF Memcpy
<1>3. /\ moved'["writer"] = W + len /\ moved'["reader"] = moved["reader"]
      /\ \A b \in Slots : b # w => buffer'[b] = buffer[b]
      /\ \A i \in Offsets : buffer'[w][i] = IF i < off \/ i >= off + len THEN buffer[w][i]
                                            ELSE IF i < off + len THEN W + 1 + i - off ELSE 0
  BY <1>1, <1>2
<1>4. Base' = Base /\ FullBlocks' = FullBlocks /\ \A b \in Slots : Dist(b)' = Dist(b)
  BY <1>3 DEF Base, FullBlocks, Dist
<1>5. moved'["writer"] - Off("writer")' = W - Off("writer") /\ Off("writer") = off
  BY <1>1, <1>3
<1>6. Positions'
  BY <1>4, <1>5 DEF InStep, Positions
<1>7. Filled'
  BY <1>3, <1>4 DEF InStep, Filled
<1>8. Filling'
  <2> SUFFICES ASSUME NEW i \in Offsets, i < off + len
               PROVE  buffer'[w][i] = W - off + 1 + i
    BY <1>5 DEF Filling
  <2>1. i \in Nat
    BY Types
  <2>2. CASE i < off
    <3>1. buffer[w][i] = W - off + 1 + i
      BY <1>5, <2>2 DEF InStep, Filling
    <3>2. QED
      BY <1>3, <2>2, <3>1
  <2>3. CASE ~(i < off)
    BY <1>1, <1>3, <2>1, <2>3
  <2>4. QED
    BY <2>2, <2>3
<1>9. inOrder'
  BY Zenon DEF Memcpy, InStep
<1>10. QED
  BY <1>6, <1>7, <1>8, <1>9

\* A memcpy by the reader takes the next bytes of the stream (data_buffer.c:68,
\* 73).
LEMMA ReaderCopies ==
  ASSUME IInv, InStep, NEW len \in Nat, Memcpy("reader", len),
         state[index["reader"]] = "B_PREPARED", Off("reader") = used[index["reader"]],
         used[index["reader"]] + len <= LENGTH_OF_BUFFER,
         UNCHANGED <<state, index, used>>,
         Off("reader")' = Off("reader") + len, Off("writer")' = Off("writer")
  PROVE  Positions' /\ Filled' /\ Filling' /\ inOrder'
<1> DEFINE r == index["reader"]
           off == used[r]
           R == moved["reader"]
<1>1. /\ "writer" \in Tasks /\ "reader" \in Tasks /\ r \in Slots /\ r \in Nat
      /\ off \in Nat /\ off < LENGTH_OF_BUFFER /\ R \in Nat
      /\ moved \in [Tasks -> Nat] /\ LENGTH_OF_BUFFER \in Nat
  BY Types DEF Tasks, IInv, TypeOK
<1>2. /\ inOrder' = (inOrder /\ \A i \in 0 .. len - 1 : buffer[r][off + i] = R + 1 + i)
      /\ buffer' = buffer
  BY Zenon DEF Memcpy
<1>3. moved'["reader"] = R + len /\ moved'["writer"] = moved["writer"]
  BY <1>1 DEF Memcpy
<1>4. Base' = Base /\ FullBlocks' = FullBlocks /\ \A b \in Slots : Dist(b)' = Dist(b)
  BY <1>1, <1>3 DEF Base, FullBlocks, Dist
<1>5. Positions'
  BY <1>3, <1>4 DEF InStep, Positions
<1>6. Filled'
  BY <1>2, <1>4 DEF InStep, Filled
<1>7. Filling'
  BY <1>2, <1>3 DEF InStep, Filling
<1>8. ASSUME NEW i \in 0 .. len - 1 PROVE buffer[r][off + i] = R + 1 + i
  <2>1. off + i \in Offsets /\ i \in Nat
    BY <1>1 DEF Offsets
  <2>2. Dist(r) = 0 /\ Bytes(Dist(r)) = 0
    BY <1>1, BytesFacts DEF Dist
  <2>3. buffer[r][off + i] = Base + Bytes(Dist(r)) + 1 + (off + i) /\ Base = R - off
    BY <1>1, <2>1 DEF InStep, Filled, Base
  <2>4. QED
    BY <1>1, <2>1, <2>2, <2>3
<1>9. inOrder'
  BY <1>2, <1>8, Zenon DEF InStep
<1>10. QED
  BY <1>5, <1>6, <1>7, <1>9

\* The copies of both tasks, up to the size of the call or to the end of the
\* block.
LEMMA CopySteps ==
  ASSUME IInv, InStep, NEW t \in Tasks, Copy(t) \/ Fill(t)
  PROVE  InStep'
<1> USE OwnFacts
<1> DEFINE len == IF pc[t] = "copy" THEN size[t] ELSE reg[t]
<1>1. /\ pc[t] \in {"copy", "fill"}
      /\ pc' = [pc EXCEPT ![t] = IF pc[t] = "copy" THEN "load" ELSE "hand"]
      /\ UNCHANGED <<state, used, index, size, reg>> /\ Memcpy(t, len)
  BY DEF Copy, Fill, Goto
<1>2. Apart(t) /\ state[index[t]] = Own(t)
  BY <1>1, StepApart DEF Step, IInv, Owns, InSection
<1>3. /\ pc \in [Tasks -> PCs] /\ used[index[t]] \in Nat /\ size[t] \in Int /\ reg[t] \in Int
      /\ LENGTH_OF_BUFFER \in Nat
  BY Types DEF IInv, TypeOK
<1>4. pc'[t] = IF pc[t] = "copy" THEN "load" ELSE "hand"
  BY <1>1, <1>3
<1>5. len \in Nat /\ len <= size[t] /\ used[index[t]] + len <= LENGTH_OF_BUFFER
  <2>1. CASE pc[t] = "copy"
    BY <1>3, <2>1 DEF IInv, Bounds
  <2>2. CASE pc[t] = "fill"
    BY <1>3, <2>2 DEF IInv, Bounds, InStep, Requests
  <2>3. QED
    BY <1>1, <2>1, <2>2
<1>6. Off(t) = used[index[t]] /\ Off(t)' = Off(t) + len
  <2>1. Off(t) = used[index[t]]
    BY <1>1, <1>2 DEF Off
  <2>2. CASE pc[t] = "copy"
    BY <1>1, <1>2, <1>4, <2>1, <2>2 DEF Off
  <2>3. CASE pc[t] = "fill"
    <3>1. reg[t] = LENGTH_OF_BUFFER - used[index[t]]
      BY <2>3 DEF InStep, Requests
    <3>2. Off(t)' = LENGTH_OF_BUFFER
      BY <1>1, <1>2, <1>4, <2>3 DEF Off
    <3>3. QED
      BY <1>3, <2>1, <2>3, <3>1, <3>2
  <2>4. QED
    BY <1>1, <2>1, <2>2, <2>3
<1>7. Off(Other(t))' = Off(Other(t))
  BY <1>1, <1>2 DEF Off, Apart
<1> HIDE DEF len
<1>8. Positions' /\ Filled' /\ Filling' /\ inOrder'
  <2>1. CASE t = "writer"
    <3>1. Other(t) = "reader" /\ Own(t) = "B_UNPREPARED"
      BY <2>1 DEF Other, Own
    <3>2. QED
      BY <1>1, <1>2, <1>5, <1>6, <1>7, <2>1, <3>1, WriterCopies
  <2>2. CASE t = "reader"
    <3>1. Other(t) = "writer" /\ Own(t) = "B_PREPARED"
      BY <2>2 DEF Other, Own
    <3>2. QED
      BY <1>1, <1>2, <1>5, <1>6, <1>7, <2>2, <3>1, ReaderCopies
  <2>3. QED
    BY <2>1, <2>2 DEF Tasks
<1>9. Resets'
  <2>1. \A u \in Tasks : pc'[u] = "enter" => pc[u] = "enter"
    BY <1>2, <1>4 DEF Apart
  <2>2. QED
    BY <1>1, <2>1 DEF InStep, Resets
<1>10. Requests'
  <2>1. \A u \in Tasks : pc'[u] \in {"remain", "fill"} => pc[u] = pc'[u]
    BY <1>2, <1>4 DEF Apart
  <2>2. QED
    BY <1>1, <2>1 DEF InStep, Requests
<1>11. QED
  BY <1>8, <1>9, <1>10 DEF InStep

\* What handing a block over does to the positions in the blocks: the task
\* begins a new one, or waits for it, and the other stays where it is.
LEMMA HandPositions ==
  ASSUME IInv, QueueShape, InStep, NEW t \in Tasks, Hand(t)
  PROVE  /\ Off(t) = LENGTH_OF_BUFFER /\ Off(t)' = 0 /\ Off(Other(t))' = Off(Other(t))
         /\ Resets' /\ Requests'
<1> USE OwnFacts
<1> DEFINE b == index[t]
           c == Advance(index[t])
           u == Other(t)
<1>1. /\ pc[t] = "hand" /\ pc' = [pc EXCEPT ![t] = "enter"]
      /\ used' = [used EXCEPT ![b] = 0] /\ state' = [state EXCEPT ![b] = Own(u)]
      /\ index' = [index EXCEPT ![t] = c]
  BY DEF Hand, HandsBlock, Goto
<1>2. Apart(t) /\ state[b] = Own(t)
  BY <1>1, StepApart DEF Step, IInv, Owns, InSection
<1>3. /\ pc \in [Tasks -> PCs] /\ used \in [Slots -> Offsets] /\ index \in [Tasks -> Slots]
      /\ state \in [Slots -> {"B_PREPARED", "B_UNPREPARED"}]
      /\ b \in Slots /\ c \in Slots /\ index[u] \in Slots
  <2>1. index \in [Tasks -> Slots]
    BY DEF IInv, TypeOK
  <2>2. b \in Slots /\ index[u] \in Slots
    BY <2>1
  <2>3. QED
    BY <2>1, <2>2, AdvanceFacts DEF IInv, TypeOK
<1>4. /\ pc'[t] = "enter" /\ index'[t] = c /\ index'[u] = index[u] /\ pc'[u] = pc[u]
      /\ used'[b] = 0 /\ state'[b] = Own(u)
      /\ \A a \in Slots : a # b => used'[a] = used[a] /\ state'[a] = state[a]
  BY <1>1, <1>2, <1>3 DEF Apart
<1>5. index[u] = b => state[index[u]] # Own(u) /\ ~InSection(u)
  BY <1>2 DEF IInv, Owns
<1>6. ASSUME state'[c] = Own(t) PROVE used'[c] = 0 /\ c # b /\ c # index[u]
  <2>1. c # b /\ state[c] = Own(t)
    BY <1>3, <1>4, <1>6
  <2>2. c # index[u]
    <3>1. ASSUME c = index[u] PROVE FALSE
      <4>1. index["reader"] # index["writer"]
        BY <2>1, <3>1 DEF Tasks, Other
      <4>2. state[index[u]] = Own(u)
        <5>1. state[index["reader"]] = "B_PREPARED"
          BY <1>3, <4>1 DEF QueueShape, Tasks
        <5>2. ~Between(index["writer"])
          BY Types, <4>1 DEF Between
        <5>3. state[index["writer"]] # "B_PREPARED"
          BY <4>1, <5>2, Types DEF IInv, RingContiguous
        <5>4. state[index["writer"]] = "B_UNPREPARED"
          BY <5>3, Types
        <5>5. QED
          BY <5>1, <5>4 DEF Tasks, Other, Own
      <4>3. QED
        BY <2>1, <3>1, <4>2
    <3>2. QED
      BY <3>1
  <2>3. c # index["reader"] /\ c # index["writer"]
    BY <2>1, <2>2 DEF Tasks, Other
  <2>4. used[c] = 0
    BY <1>3, <2>3 DEF InStep, Resets
  <2>5. QED
    BY <1>3, <1>4, <2>1, <2>2, <2>4
<1>7. Off(t) = LENGTH_OF_BUFFER /\ Off(t)' = 0
  BY <1>1, <1>2, <1>4, <1>6 DEF Off
<1>8. Off(u)' = Off(u)
  <2>1. CASE index[u] = b
    <3>1. Off(u) = 0
      BY <1>5, <2>1 DEF Off
    <3>2. Off(u)' = 0
      BY <1>4, <1>5, <2>1 DEF Off, InSection
    <3>3. QED
      BY <3>1, <3>2
  <2>2. CASE index[u] # b
    BY <1>2, <1>3, <1>4, <2>2 DEF Off, Apart
  <2>3. QED
    BY <2>1, <2>2
<1>9. Resets'
  <2>1. ASSUME NEW a \in Slots, a # index'["reader"], a # index'["writer"] PROVE used'[a] = 0
    <3>1. a # c /\ a # index[u]
      BY <1>4, <2>1 DEF Tasks, Other
    <3>2. CASE a = b
      BY <1>4, <3>2
    <3>3. CASE a # b
      <4>1. a # index["reader"] /\ a # index["writer"]
        BY <3>1, <3>3 DEF Tasks, Other
      <4>2. QED
        BY <1>4, <3>3, <4>1 DEF InStep, Resets
    <3>4. QED
      BY <3>2, <3>3
  <2>2. ASSUME NEW v \in Tasks, pc'[v] = "enter", state'[index'[v]] = Own(v)
        PROVE  used'[index'[v]] = 0
    <3>1. CASE v = t
      BY <1>4, <1>6, <2>2, <3>1
    <3>2. CASE v = u /\ index[u] = b
      BY <1>4, <3>2
    <3>3. CASE v = u /\ index[u] # b
      BY <1>3, <1>4, <2>2, <3>3 DEF InStep, Resets
    <3>4. QED
      BY <3>1, <3>2, <3>3
  <2>3. QED
    BY <2>1, <2>2 DEF Resets
<1>10. Requests'
  <2>1. ASSUME NEW v \in Tasks, pc'[v] \in {"remain", "fill"}
        PROVE  /\ pc[v] = pc'[v] /\ size'[v] = size[v] /\ reg'[v] = reg[v]
               /\ used'[index'[v]] = used[index[v]]
    <3>1. v = u /\ InSection(v)
      BY <1>4, <2>1 DEF InSection
    <3>2. index[u] # b
      BY <1>5, <3>1
    <3>3. QED
      BY <1>2, <1>3, <1>4, <3>1, <3>2 DEF Apart
  <2>2. QED
    BY <2>1 DEF InStep, Requests
<1>11. QED
  BY <1>7, <1>8, <1>9, <1>10

\* The block that the writer hands over holds the next bytes of the stream.
LEMMA WriterHandStep ==
  ASSUME IInv, QueueShape, InStep, Hand("writer")
  PROVE  InStep'
<1> DEFINE r == index["reader"]
           w == index["writer"]
           L == LENGTH_OF_BUFFER
           N == NUMBER_OF_BUFFER
           W == moved["writer"]
           F == FullBlocks
<1>1. /\ state[w] = "B_UNPREPARED" /\ state' = [state EXCEPT ![w] = "B_PREPARED"]
      /\ index'["reader"] = r /\ F < N /\ FullBlocks' = F + 1
      /\ w = IF r + F < N THEN r + F ELSE r + F - N
  BY WriterHands
<1>2. /\ Off("writer") = L /\ Off("writer")' = 0 /\ Off("reader")' = Off("reader")
      /\ Resets' /\ Requests'
  <2>1. "writer" \in Tasks /\ Other("writer") = "reader"
    BY DEF Tasks, Other
  <2>2. QED
    BY <2>1, HandPositions
<1>3. buffer' = buffer /\ moved' = moved
  BY DEF Hand, history
<1>4. inOrder'
  BY Zenon DEF Hand, history, InStep
<1>5. /\ r \in Nat /\ w \in Nat /\ w \in Slots /\ r < N /\ w < N /\ N \in Nat /\ L \in Nat
      /\ W \in Nat /\ F \in Nat /\ state \in [Slots -> {"B_PREPARED", "B_UNPREPARED"}]
  BY Types DEF QueueShape, Tasks
<1>6. Base \in Int /\ Bytes(F) \in Int /\ Bytes(F + 1) = Bytes(F) + L
  <2>1. "reader" \in Tasks
    BY DEF Tasks
  <2>2. Base \in Int
    BY <2>1, Types, OffFacts DEF Base
  <2>3. QED
    BY <1>5, <2>2, BytesFacts
<1>7. Base' = Base /\ \A b \in Slots : Dist(b)' = Dist(b)
  BY <1>1, <1>2, <1>3 DEF Base, Dist
<1>8. W - L = Base + Bytes(F)
  BY <1>2 DEF InStep, Positions
<1>9. Positions'
  <2>1. W - 0 = Base + Bytes(F + 1)
    BY <1>5, <1>6, <1>8
  <2>2. QED
    BY <1>1, <1>2, <1>3, <1>7, <2>1 DEF Positions
<1>10. Filled'
  <2> SUFFICES ASSUME NEW b \in Slots, NEW i \in Offsets, state'[b] = "B_PREPARED"
               PROVE  buffer[b][i] = Base + Bytes(Dist(b)) + 1 + i
    BY <1>3, <1>7 DEF Filled
  <2>1. CASE b = w
    <3>1. Dist(w) = F
      BY <1>1, <1>5 DEF Dist
    <3>2. buffer[w][i] = W - L + 1 + i
      BY <1>1, <1>2, Types DEF InStep, Filling
    <3>3. QED
      BY <1>8, <2>1, <3>1, <3>2
  <2>2. CASE b # w
    <3>1. state[b] = "B_PREPARED"
      BY <1>1, <1>5, <2>2
    <3>2. QED
      BY <3>1 DEF InStep, Filled
  <2>3. QED
    BY <2>1, <2>2
<1>11. Filling'
  BY <1>2, Types DEF Filling
<1>12. QED
  BY <1>2, <1>4, <1>9, <1>10, <1>11 DEF InStep

\* The reader hands back the first of the full blocks, and all others are one
\* block nearer.
LEMMA ReaderHandStep ==
  ASSUME IInv, QueueShape, QueueShape', InStep, Hand("reader")
  PROVE  InStep'
<1> DEFINE r == index["reader"]
           w == index["writer"]
           L == LENGTH_OF_BUFFER
           N == NUMBER_OF_BUFFER
           F == FullBlocks
<1>1. /\ state[r] = "B_PREPARED" /\ state' = [state EXCEPT ![r] = "B_UNPREPARED"]
      /\ index'["reader"] = Advance(r) /\ index'["writer"] = w
      /\ F > 0 /\ FullBlocks' = F - 1
  BY ReaderHands
<1>2. /\ Off("reader") = L /\ Off("reader")' = 0 /\ Off("writer")' = Off("writer")
      /\ Resets' /\ Requests'
  <2>1. "reader" \in Tasks /\ Other("reader") = "writer"
    BY DEF Tasks, Other
  <2>2. QED
    BY <2>1, HandPositions
<1>3. buffer' = buffer /\ moved' = moved
  BY DEF Hand, history
<1>4. inOrder'
  BY Zenon DEF Hand, history, InStep
<1>5. /\ r \in Nat /\ r \in Slots /\ r < N /\ N \in Nat /\ L \in Nat /\ w \in Slots
      /\ moved["reader"] \in Nat /\ moved["writer"] \in Nat
      /\ F \in Nat /\ state \in [Slots -> {"B_PREPARED", "B_UNPREPARED"}]
      /\ Off("writer") \in Nat
  <2>1. "reader" \in Tasks /\ "writer" \in Tasks
    BY DEF Tasks
  <2>2. QED
    BY <2>1, Types, OffFacts DEF QueueShape
<1>6. Base = moved["reader"] - L /\ Base' = moved["reader"] /\ Base' = Base + L /\ Base \in Int
  <2>1. Base = moved["reader"] - L /\ Base' = moved["reader"] - 0
    BY <1>2, <1>3 DEF Base
  <2>2. QED
    BY <1>5, <2>1
<1>7. Positions'
  <2>1. F - 1 \in Int /\ (F - 1) + 1 = F
    BY <1>5
  <2>2. Bytes(F) = Bytes(F - 1) + L /\ Bytes(F - 1) \in Int
    BY <2>1, BytesFacts
  <2>3. moved["writer"] - Off("writer") = Base + Bytes(F)
    BY DEF InStep, Positions
  <2>4. moved["writer"] - Off("writer") = Base' + Bytes(F - 1)
    BY <1>5, <1>6, <2>2, <2>3
  <2>5. QED
    BY <1>1, <1>2, <1>3, <2>4 DEF Positions
<1>8. Filled'
  <2> SUFFICES ASSUME NEW b \in Slots, NEW i \in Offsets, state'[b] = "B_PREPARED"
               PROVE  buffer[b][i] = Base' + Bytes(Dist(b)') + 1 + i
    BY <1>3 DEF Filled
  <2>1. b # r /\ state[b] = "B_PREPARED" /\ b \in Nat /\ b < N /\ i \in Nat
    BY <1>1, <1>5, Types
  <2>2. Dist(b) = Dist(b)' + 1 /\ Dist(b)' \in Int
    <3>1. Advance(r) = IF r = N - 1 THEN 0 ELSE r + 1
      BY <1>5, AdvanceFacts
    <3>2. /\ Dist(b)' = IF b >= Advance(r) THEN b - Advance(r) ELSE b - Advance(r) + N
          /\ Dist(b) = IF b >= r THEN b - r ELSE b - r + N
      BY <1>1 DEF Dist
    <3>3. QED
      BY <1>5, <2>1, <3>1, <3>2
  <2>3. Bytes(Dist(b)) = Bytes(Dist(b)') + L /\ Bytes(Dist(b)') \in Int
    BY <2>2, BytesFacts
  <2>4. buffer[b][i] = Base + Bytes(Dist(b)) + 1 + i
    BY <2>1 DEF InStep, Filled
  <2>5. \A x, y, p, q \in Int : p = q + L /\ y = x + L => x + p + 1 + i = y + q + 1 + i
    BY <1>5, <2>1
  <2>6. Bytes(Dist(b)) \in Int /\ Base' \in Int
    BY <1>5, <1>6, <2>3
  <2>7. Base + Bytes(Dist(b)) + 1 + i = Base' + Bytes(Dist(b)') + 1 + i
    <3> DEFINE p == Bytes(Dist(b))  q == Bytes(Dist(b)')  x == Base  y == Base'
    <3>1. x \in Int /\ y \in Int /\ p \in Int /\ q \in Int /\ p = q + L /\ y = x + L
      BY <1>6, <2>3, <2>6
    <3> HIDE DEF p, q, x, y
    <3>2. x + p + 1 + i = y + q + 1 + i
      BY <2>5, <3>1
    <3>3. QED
      BY <3>2 DEF p, q, x, y
  <2>8. QED
    BY <2>4, <2>7
<1>9. Filling'
  <2> SUFFICES ASSUME NEW i \in Offsets, i < Off("writer")
               PROVE  buffer[w][i] = moved["writer"] - Off("writer") + 1 + i
    BY <1>1, <1>2, <1>3 DEF Filling
  <2>1. Off("writer") # 0
    BY <1>5, Types
  <2>2. state[w] = "B_UNPREPARED"
    BY <2>1 DEF Off, Own
  <2>3. QED
    BY <2>2 DEF InStep, Filling
<1>10. QED
  BY <1>2, <1>4, <1>7, <1>8, <1>9 DEF InStep

-----------------------------------------------------------------------------
\* Every step of either function, and every call, keeps the relation until a
\* reset goes astray.
LEMMA StepFifo ==
  ASSUME IInv, QueueShape, QueueShape', FifoInv,
         NEW t \in Tasks, Step(t) \/ \E n \in Nat : Call(t, n)
  PROVE  FifoInv'
<1> SUFFICES ASSUME ~clobbered' PROVE InStep'
  BY DEF FifoInv
<1>1. ~clobbered
  BY Zenon DEF Step, Call, Test, Copy, Load, Store, Remain, Fill, Hand, Enter,
               CountLoad, CountStore, history
<1>2. InStep
  BY <1>1 DEF FifoInv
<1>3. CASE Hand(t)
  BY <1>2, <1>3, WriterHandStep, ReaderHandStep DEF Tasks
<1>4. CASE Store(t)
  BY <1>2, <1>4, StoreStep
<1>5. CASE Enter(t)
  BY <1>2, <1>5, EnterStep
<1>6. CASE Copy(t) \/ Fill(t)
  BY <1>2, <1>6, CopySteps
<1>7. QED
  BY <1>2, <1>3, <1>4, <1>5, <1>6, LocalSteps DEF Step

\* What changes nothing keeps it as well.
LEMMA StutterFifo == FifoInv /\ UNCHANGED vars => FifoInv'
<1> SUFFICES ASSUME FifoInv, UNCHANGED vars, ~clobbered' PROVE InStep'
  BY DEF FifoInv
<1>1. InStep
  BY DEF FifoInv, vars, history
<1>2. Resets' /\ Requests' /\ inOrder'
  BY <1>1 DEF InStep, Resets, Requests, vars, shared, history
<1>3. Positions' /\ Filled' /\ Filling'
  BY <1>1, Quiet DEF Off, vars, shared, history
<1>4. QED
  BY <1>2, <1>3 DEF InStep

\* The initial state satisfies it: nothing has been written.
LEMMA InitFifo == Init => FifoInv
<1> SUFFICES ASSUME Init PROVE InStep
  BY DEF FifoInv
<1>1. Resets /\ Requests
  BY DEF Init, Resets, Requests
<1>2. /\ index["reader"] = 0 /\ index["writer"] = 0 /\ 0 \in Slots
      /\ moved["reader"] = 0 /\ moved["writer"] = 0
  BY BufferAssumption DEF Init, Tasks, Slots
<1>3. \A b \in Slots : state[b] = "B_UNPREPARED" /\ used[b] = 0
  BY DEF Init
<1>4. Off("reader") = 0 /\ Off("writer") = 0 /\ FullBlocks = 0
  BY <1>2, <1>3 DEF Init, Off, Own, FullBlocks, Tasks
<1>5. Positions
  BY <1>2, <1>4, BytesFacts DEF Positions, Base
<1>6. Filled
  BY <1>3 DEF Filled
<1>7. Filling
  BY <1>4, BufferAssumption DEF Filling, Offsets
<1>8. inOrder
  BY Zenon DEF Init
<1>9. QED
  BY <1>1, <1>5, <1>6, <1>7, <1>8 DEF InStep

\* What the two tasks know of the stream holds until a reset goes astray.
LEMMA FifoInvariance == Spec => []FifoInv
<1>1. IInv /\ QueueShape /\ QueueShape' /\ FifoInv /\ [Next]_vars => FifoInv'
  BY NextSteps, StepFifo, StutterFifo
<1>2. QED
  BY <1>1, InitFifo, Invariance, QueueFacts, PTL DEF Spec

\* The positions and the contents of the blocks together make the ring a FIFO.
LEMMA FifoFacts == IInv /\ QueueShape /\ FifoInv => FifoUnlessClobbered
<1> SUFFICES ASSUME IInv, QueueShape, InStep
             PROVE  inOrder /\ moved["reader"] <= moved["writer"]
  BY DEF FifoInv, FifoUnlessClobbered
<1> DEFINE R == moved["reader"]
           W == moved["writer"]
<1>1. "reader" \in Tasks /\ "writer" \in Tasks
  BY DEF Tasks
<1>2. /\ Off("reader") \in Nat /\ Off("reader") <= LENGTH_OF_BUFFER /\ Off("writer") \in Nat
      /\ R \in Nat /\ W \in Nat /\ LENGTH_OF_BUFFER \in Nat /\ FullBlocks \in Nat
  BY <1>1, Types, OffFacts DEF QueueShape
<1>3. W - Off("writer") = R - Off("reader") + Bytes(FullBlocks)
  BY DEF InStep, Positions, Base
<1>4. R <= W
  <2>1. CASE FullBlocks = 0
    <3>1. state[index["reader"]] # "B_PREPARED"
      BY <2>1, Types DEF FullBlocks
    <3>2. Off("reader") = 0 /\ Bytes(FullBlocks) = 0
      BY <2>1, <3>1, BytesFacts DEF Off, Own
    <3>3. QED
      BY <1>2, <1>3, <3>2
  <2>2. CASE FullBlocks > 0
    <3>1. Bytes(FullBlocks) >= LENGTH_OF_BUFFER /\ Bytes(FullBlocks) \in Int
      BY <1>2, <2>2, BytesFacts
    <3>2. QED
      BY <1>2, <1>3, <3>1
  <2>3. QED
    BY <1>2, <2>1, <2>2
<1>5. QED
  BY <1>4 DEF InStep

\* For every number and length of blocks and every size of the calls, the
\* bytes that the reader copies out are those that the writer copied in, in
\* their order and without a gap, unless line 52 or 81 of data_buffer.c has
\* reset a `used' that was still needed.
THEOREM StreamIsFifo == Spec => []FifoUnlessClobbered
BY FifoFacts, FifoInvariance, Invariance, QueueFacts, PTL

\* Until such a reset no memcpy takes more than the caller asked for or holds
\* (data_buffer.c:43, 72).
THEOREM CopiesMatchRequests == Spec => []CopiesWithinRequest
<1>1. FifoInv => CopiesWithinRequest
  BY DEF FifoInv, InStep, Requests, CopiesWithinRequest
<1>2. QED
  BY <1>1, FifoInvariance, PTL

=============================================================================
