----------------------------- MODULE DataBuffer -----------------------------
(***************************************************************************)
(* The ring of blocks in ESP32/main/data_buffer.c, through which the task  *)
(* that receives from the socket (audio_thread, the writer) passes bytes   *)
(* to the task that parses and plays them (prcess_character, the reader).  *)
(* There is no lock: each block has a state flag on which the two tasks    *)
(* busy-wait, and one counter `used' that serves as the writer's fill      *)
(* level while the block is B_UNPREPARED and as the reader's offset while  *)
(* it is B_PREPARED.                                                       *)
(*                                                                         *)
(* buffer_write_data and buffer_read_data are mirror images, statement for *)
(* statement, so each step is written once for a task t.  The tasks run on *)
(* two cores: every load and every store of a variable that both touch is  *)
(* a step of its own, while accesses to what only one touches (the index,  *)
(* `size', the pointers) are folded into the neighbouring step.  The exit  *)
(* from a busy-wait is folded into the test behind it, since nobody but    *)
(* the waiting task can change the flag back; and the last reset of `used' *)
(* into the store of the flag that follows, since until then the other     *)
(* task does not look at it.                                               *)
(*                                                                         *)
(* A byte is represented by its position in the stream that the writer     *)
(* was given: 1, 2, 3...  The value 0 stands for a byte that is not part   *)
(* of the stream (initial memory, or memory past the caller's data).       *)
(***************************************************************************)
EXTENDS Integers

CONSTANTS
  NUMBER_OF_BUFFER,   \* data_buffer.h:11 (5 in the program)
  LENGTH_OF_BUFFER,   \* data_buffer.h:12 (5120 in the program)
  MaxSize,            \* bound: the largest `size' of a call
  MaxSent             \* bound: the number of bytes the writer is given

ASSUME BufferAssumption ==
  /\ NUMBER_OF_BUFFER \in Nat \ {0}
  /\ LENGTH_OF_BUFFER \in Nat \ {0}
  /\ MaxSize \in Nat
  /\ MaxSent \in Nat

Tasks == {"writer", "reader"}
Other(t) == IF t = "writer" THEN "reader" ELSE "writer"
Slots == 0 .. NUMBER_OF_BUFFER - 1
Offsets == 0 .. LENGTH_OF_BUFFER - 1

VARIABLES
  state,        \* data_buffer[b].data_buffer_state
  used,         \* data_buffer[b].used
  buffer,       \* data_buffer[b].buffer
  buffer_used,
  index,        \* current_write_buffer and current_read_buffer
  pc,           \* where the task is in its function
  size,         \* its `size'
  reg,          \* what it last loaded from `used' or `buffer_used'; `remain'
  asked,        \* the `size' of the reader's last call
  data_read,    \* the reader's `data_read'
  ret,          \* the value the reader's last call returned
  moved,        \* history: stream bytes copied in, bytes copied out
  inOrder,      \* history: the bytes copied out were 1, 2, 3...
  clobbered     \* history: a task reset a `used' that the other still needed

shared == <<state, used, buffer, buffer_used>>
result == <<asked, data_read, ret>>
history == <<moved, inOrder, clobbered>>
vars == <<shared, index, pc, size, reg, result, history>>

PCs == {"return", "test", "copy", "load", "store", "remain", "fill",
        "hand", "enter", "cload", "cstore"}

\* The flag for which a task waits, and which gives it the block.
Own(t) == IF t = "writer" THEN "B_UNPREPARED" ELSE "B_PREPARED"

Advance(i) == (i + 1) % NUMBER_OF_BUFFER

getBufferPercent == (buffer_used * 100) \div NUMBER_OF_BUFFER

Goto(t, from, to) == pc[t] = from /\ pc' = [pc EXCEPT ![t] = to]

\* memcpy of `len' bytes between the caller's data and the task's block, at
\* the offset that `used' has now.
Memcpy(t, len) ==
  LET off == used[index[t]]
      given == IF len < size[t] THEN len ELSE size[t]
  IN  IF t = "writer"
      THEN /\ buffer' = [buffer EXCEPT ![index[t]] =
                 [i \in Offsets |-> IF i < off \/ i >= off + len THEN @[i]
                                    ELSE IF i < off + given THEN moved[t] + 1 + i - off
                                    ELSE 0]]
           /\ moved' = [moved EXCEPT ![t] = @ + given]
           /\ UNCHANGED inOrder
      ELSE /\ inOrder' = (inOrder /\ \A i \in 0 .. len - 1 :
                            buffer[index[t]][off + i] = moved[t] + 1 + i)
           /\ moved' = [moved EXCEPT ![t] = @ + len]
           /\ UNCHANGED buffer

-----------------------------------------------------------------------------
\* The static variables, and init_data_buffer.
Init ==
  /\ state = [b \in Slots |-> "B_UNPREPARED"]
  /\ used = [b \in Slots |-> 0]
  /\ buffer = [b \in Slots |-> [i \in Offsets |-> 0]]
  /\ buffer_used = 0
  /\ index = [t \in Tasks |-> 0]
  /\ pc = [t \in Tasks |-> "return"]
  /\ size = [t \in Tasks |-> 0]
  /\ reg = [t \in Tasks |-> 0]
  /\ asked = 0 /\ data_read = 0 /\ ret = 0
  /\ moved = [t \in Tasks |-> 0]
  /\ inOrder = TRUE /\ clobbered = FALSE

Call(t, n) ==
  /\ Goto(t, "return", IF n > 0 THEN "test" ELSE "return")
  /\ size' = [size EXCEPT ![t] = n]
  /\ IF t = "writer" THEN moved[t] + n <= MaxSent /\ UNCHANGED result
                     ELSE asked' = n /\ data_read' = 0 /\ ret' = 0
  /\ UNCHANGED <<shared, index, reg, history>>

\* Mutant: the busy-wait is dropped.
NoWait(t) == TRUE

Ready(t) == state[index[t]] = Own(t)

\* Mutant: a chunk that ends with the block is taken to fit into it.
FitsExactly(t) == size[t] <= LENGTH_OF_BUFFER - used[index[t]]

Fits(t) == size[t] < LENGTH_OF_BUFFER - used[index[t]]

Test(t) ==
  /\ Ready(t)
  /\ Goto(t, "test", IF Fits(t) THEN "copy" ELSE "remain")
  /\ UNCHANGED <<shared, index, size, reg, result, history>>

\* All that is left of the call fits into the block, and does not end it.
Copy(t) ==
  /\ Goto(t, "copy", "load")
  /\ Memcpy(t, size[t])
  /\ UNCHANGED <<state, used, buffer_used, index, size, reg, result, clobbered>>

Load(t) ==
  /\ Goto(t, "load", "store")
  /\ reg' = [reg EXCEPT ![t] = used[index[t]]]
  /\ UNCHANGED <<shared, index, size, result, history>>

Store(t) ==
  /\ Goto(t, "store", "return")
  /\ used' = [used EXCEPT ![index[t]] = reg[t] + size[t]]
  /\ ret' = IF t = "reader" THEN data_read + size[t] ELSE ret
  /\ UNCHANGED <<state, buffer, buffer_used, index, size, reg, asked, data_read, history>>

\* Mutant: the whole chunk is copied, not what the block has room for.
WholeChunk(t) == size[t]

UpToEnd(t) == LENGTH_OF_BUFFER - used[index[t]]

\* Otherwise `remain' bytes are copied, up to the end of the block...
Remain(t) ==
  /\ Goto(t, "remain", "fill")
  /\ reg' = [reg EXCEPT ![t] = UpToEnd(t)]
  /\ UNCHANGED <<shared, index, size, result, history>>

Fill(t) ==
  /\ Goto(t, "fill", "hand")
  /\ Memcpy(t, reg[t])
  /\ UNCHANGED <<state, used, buffer_used, index, size, reg, result, clobbered>>

\* Mutant: the reader moves on without handing the block back.
KeepsBlock(t) == [state EXCEPT ![index[t]] = "B_PREPARED"]

\* Mutant: the flag is set after the index has moved on.
HandsNextBlock(t) == [state EXCEPT ![Advance(index[t])] = Own(Other(t))]

HandsBlock(t) == [state EXCEPT ![index[t]] = Own(Other(t))]

\* ...the block is handed to the other task, and the index moves on.
Hand(t) ==
  /\ Goto(t, "hand", "enter")
  /\ used' = [used EXCEPT ![index[t]] = 0]
  /\ state' = HandsBlock(t)
  /\ index' = [index EXCEPT ![t] = Advance(@)]
  /\ size' = [size EXCEPT ![t] = @ - reg[t]]
  /\ data_read' = IF t = "reader" THEN data_read + reg[t] ELSE data_read
  /\ UNCHANGED <<buffer, buffer_used, reg, asked, ret, history>>

\* The task resets `used' of the block it moves to, whether or not the other
\* is still working in it.  The other no longer needs the value when it is
\* about to overwrite it (40, 69) or to hand the block over (45, 74).
Enter(t) ==
  /\ Goto(t, "enter", "cload")
  /\ used' = [used EXCEPT ![index[t]] = 0]
  /\ clobbered' = (clobbered \/ ( /\ used[index[t]] # 0
                                  /\ pc[Other(t)] \notin {"store", "hand"} ))
  /\ UNCHANGED <<state, buffer, buffer_used, index, size, reg, result, moved, inOrder>>

CountLoad(t) ==
  /\ Goto(t, "cload", "cstore")
  /\ reg' = [reg EXCEPT ![t] = buffer_used]
  /\ UNCHANGED <<shared, index, size, result, history>>

\* Mutant: the writer's count is missing.
CountsDown(t) == IF t = "writer" THEN reg[t] ELSE reg[t] - 1

Counts(t) == IF t = "writer" THEN reg[t] + 1 ELSE reg[t] - 1

\* A call that ends with a block leaves the loop; the reader's returns 0.
CountStore(t) ==
  /\ Goto(t, "cstore", IF size[t] > 0 THEN "test" ELSE "return")
  /\ buffer_used' = Counts(t)
  /\ UNCHANGED <<state, used, buffer, index, size, reg, result, history>>

Step(t) ==
  \/ Test(t) \/ Copy(t) \/ Load(t) \/ Store(t)
  \/ Remain(t) \/ Fill(t) \/ Hand(t) \/ Enter(t) \/ CountLoad(t) \/ CountStore(t)

buffer_write_data == Step("writer") \/ \E n \in 0 .. MaxSize : Call("writer", n)
buffer_read_data == Step("reader") \/ \E n \in 0 .. MaxSize : Call("reader", n)

Next == buffer_write_data \/ buffer_read_data

Spec == Init /\ [][Next]_vars

\* A busy-waiting task stays runnable, neither task is pinned to a core and
\* there are two cores, so each keeps taking steps.  The reader's loop never
\* stops asking for the next command; the network may stop delivering.
Fairness ==
  /\ \A t \in Tasks : WF_vars(Step(t))
  /\ WF_vars(\E n \in 1 .. MaxSize : Call("reader", n))

FairSpec == Spec /\ Fairness

-----------------------------------------------------------------------------
(***************************************************************************)
(* Properties                                                              *)
(***************************************************************************)

\* Every variable keeps its type; in particular `used' stays below
\* LENGTH_OF_BUFFER whatever the two tasks do to it (data_buffer.c:38-52, 67-81).
TypeOK ==
  /\ state \in [Slots -> {"B_PREPARED", "B_UNPREPARED"}]
  /\ used \in [Slots -> Offsets]
  /\ buffer \in [Slots -> [Offsets -> Nat]]
  /\ buffer_used \in Int
  /\ index \in [Tasks -> Slots]
  /\ pc \in [Tasks -> PCs]
  /\ size \in [Tasks -> Int]
  /\ reg \in [Tasks -> Int]
  /\ asked \in Nat /\ data_read \in Nat /\ ret \in Nat
  /\ moved \in [Tasks -> Nat]
  /\ inOrder \in BOOLEAN /\ clobbered \in BOOLEAN

\* The blocks from the read index up to the write index, going round.
Between(b) ==
  IF index["reader"] <= index["writer"]
  THEN index["reader"] <= b /\ b < index["writer"]
  ELSE index["reader"] <= b \/ b < index["writer"]

\* The flags and the two private indices agree: the B_PREPARED blocks are
\* exactly those from current_read_buffer up to current_write_buffer, or all
\* or none of them when the indices are equal.  Neither task ever reads the
\* other's index: the flags alone keep the two in step (data_buffer.c:37-51,
\* 66-80).
RingContiguous ==
  IF index["reader"] = index["writer"]
  THEN \A b, c \in Slots : state[b] = state[c]
  ELSE \A b \in Slots : state[b] = "B_PREPARED" <=> Between(b)

\* The number of full blocks, from the two indices and the flag of one block.
FullBlocks ==
  LET r == index["reader"]
      w == index["writer"]
  IN  IF state[r] # "B_PREPARED" THEN 0
      ELSE IF r < w THEN w - r ELSE w - r + NUMBER_OF_BUFFER

InRingOrder == [k \in 1 .. FullBlocks |-> (index["reader"] + k - 1) % NUMBER_OF_BUFFER]

\* The flags, the indices and the busy-waits together implement a queue of
\* blocks, on two cores and without a lock (data_buffer.c:31-51, 60-80).
Ring == INSTANCE BlockRing WITH Blocks <- Slots, full <- InRingOrder
ImplementsRing == Ring!Spec

\* The two busy-waits (data_buffer.c:37 and 66) never wait for each other:
\* the writer stuck on a full ring and the reader stuck on an empty one.
NoMutualSpin ==
  ~ \A t \in Tasks : pc[t] = "test" /\ state[index[t]] # Own(t)

\* The two tasks are never both past their busy-wait in the same block, so
\* no memcpy reads bytes that another memcpy is writing (data_buffer.c:37-46,
\* 66-75).
InSection(t) == pc[t] \in {"copy", "load", "store", "remain", "fill", "hand"}
NoSharedBlock ==
  InSection("writer") /\ InSection("reader") => index["writer"] # index["reader"]

\* Each of the four memcpy calls stays inside its block (data_buffer.c:39,
\* 44, 68, 73), although offset and length come from different loads of a
\* counter that the other task may reset in between.
CopiesStayInBlock ==
  \A t \in Tasks :
    /\ pc[t] = "copy" => used[index[t]] + size[t] <= LENGTH_OF_BUFFER
    /\ pc[t] = "fill" => used[index[t]] + reg[t] <= LENGTH_OF_BUFFER

\* What the reader is given is a prefix of what the writer was given, as long
\* as neither task has reset a `used' that the other still needed: lines 52
\* and 81 of data_buffer.c are the only ones that can corrupt the stream.
FifoUnlessClobbered == ~clobbered => inOrder /\ moved["reader"] <= moved["writer"]

\* As long as no such reset has happened, a read never copies more bytes
\* into the caller's variable than were asked for, and a write never takes
\* more bytes from the caller's buffer than it holds (data_buffer.c:43, 72).
CopiesWithinRequest ==
  ~clobbered => \A t \in Tasks : pc[t] = "fill" => reg[t] <= size[t]

\* A call of buffer_write_data returns: a full ring is eventually drained by
\* the reader's loop (data_buffer.c:37).
WriteCompletes == pc["writer"] # "return" ~> pc["writer"] = "return"

\* Every filled block is eventually handed back (data_buffer.c:75).
BlocksDrain == \A b \in Slots : state[b] = "B_PREPARED" ~> state[b] = "B_UNPREPARED"

\* tcp_perf.c:190, 195, 207 and 215 take a return value other than the number
\* of bytes asked for as an error of the read.
ReturnsWhatWasAsked == pc["reader"] = "return" => ret = asked
=============================================================================
