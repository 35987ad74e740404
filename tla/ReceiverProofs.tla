--------------------------- MODULE ReceiverProofs ---------------------------
(***************************************************************************)
(* Proofs about one connection of the speaker, for every size of the ring  *)
(* and of the chunks and every stream of frames.  What is proved of the    *)
(* ring in DataBufferProofs and DataBufferFifoProofs is used here: the two *)
(* tasks do nothing to it but call its functions.                          *)
(*                                                                         *)
(* Control says which task exists and runs when; Supply bounds what the    *)
(* writer has left by what was received; Stock describes the ring before   *)
(* there is a player, when only the writer moves: it fills the blocks from *)
(* the first one, and a chunk completes at most one of them.  InSync ties  *)
(* what the player reads to the frames of the stream.                      *)
(***************************************************************************)
EXTENDS Receiver, DataBufferFifoProofs, FiniteSetTheorems

\* The bytes of its call that task t has not copied yet.
Left(t) ==
  IF pc[t] \in {"return", "load", "store"} THEN 0
  ELSE IF pc[t] = "hand" THEN size[t] - reg[t] ELSE size[t]

Control ==
  /\ socket \in {"open", "eof", "ended", "reset", "closed"}
  /\ at \in {"recv", "written", "exit", "deleted"}
  /\ render_status \in {0, 1}
  /\ player \in {"none", "running", "failed"}
  /\ phase \in {"none", "command", "length", "payload"}
  /\ tcp_command \in {"UN_KNOW", "SEND_HEADER", "SEND_DATA", "SEND_ACK"}
  /\ misread \in BOOLEAN
  /\ render_status = 0 <=> player = "none"
  /\ at # "written" => pc["writer"] = "return"
  /\ player = "none" => pc["reader"] = "return" /\ phase = "none"

Supply ==
  /\ size["writer"] <= MaxRecv
  /\ pc["writer"] \in {"fill", "hand"} => reg["writer"] > 0
  /\ moved["writer"] <= MaxSent /\ moved["writer"] + Left("writer") <= MaxSent
  /\ \A b \in Slots, k \in Offsets : buffer[b][k] <= MaxSent
  /\ word \in 0 .. MaxSent

\* The writer fills the blocks from the first one.
Stocked ==
  LET w == index["writer"]
      handing == pc["writer"] \in {"enter", "cload", "cstore"}
  IN  /\ index["reader"] = 0
      /\ \A b \in Slots : state[b] = "B_PREPARED" <=> b < w
      /\ buffer_used = IF handing THEN w - 1 ELSE w
      /\ pc["writer"] = "cstore" => reg["writer"] = w - 1

\* The ring was at most half full before this chunk, and either the chunk has
\* not completed a block yet, or what is left of it does not complete another.
Level ==
  LET w == index["writer"]
  IN  \/ 100 * w < 51 * NUMBER_OF_BUFFER
      \/ /\ 100 * (w - 1) < 51 * NUMBER_OF_BUFFER
         /\ at = "written"
         /\ \/ /\ pc["writer"] \in {"enter", "cload", "cstore"}
               /\ size["writer"] < LENGTH_OF_BUFFER
               /\ pc["writer"] # "enter" => used[w] = 0
            \/ pc["writer"] = "test" /\ used[w] + size["writer"] < LENGTH_OF_BUFFER
            \/ pc["writer"] \in {"copy", "load", "store", "return"}

Stock == player = "none" => Stocked /\ Level

\* The position in the stream that the player's read ends at.
End == moved["reader"] + Left("reader")

\* Each read of the player ends where the part of the frame ends that it is
\* for; a word that has been read is the one at that position.
Tracks ==
  /\ ~misread
  /\ Left("reader") \in Nat
  /\ phase = "none" => pc["reader"] = "return" /\ moved["reader"] = 0
  /\ phase \in {"command", "length"} =>
       /\ Has(End, phase) /\ End > 0 /\ Left("reader") <= 1
       /\ Left("reader") = 0 => word = End
  /\ phase = "length" =>
       /\ End - 1 \in 1 .. MaxSent /\ Stream[End - 1].role = "command"
       /\ Stream[End - 1].value = tcp_command
  /\ phase = "payload" => Has(End + 1, "command")

InSync == ~clobbered => Tracks

-----------------------------------------------------------------------------
\* The two tasks of a connection change the ring by its functions alone.
LEMMA RingSteps ==
  ASSUME [ReceiverNext]_allVars
  PROVE  UNCHANGED vars \/ \E t \in Tasks : Step(t) \/ \E n \in Nat : Call(t, n)
<1> USE ReceiverAssumption, BufferAssumption
<1>1. CASE Recv
  BY <1>1 DEF Recv, Chunks, Tasks
<1>2. CASE ReaderStep \/ WriterStep
  BY <1>2 DEF ReaderStep, WriterStep, Tasks
<1>3. CASE ReadCommand \/ Switch \/ ReadPayload
  BY <1>3 DEF ReadCommand, Switch, ReadPayload, Read, PayloadLength, Tasks
<1>4. CASE PeerEnds \/ StartPlayer \/ CloseClient \/ UNCHANGED allVars
  BY <1>4 DEF PeerEnds, StartPlayer, CloseClient, allVars
<1>5. QED
  BY <1>1, <1>2, <1>3, <1>4 DEF ReceiverNext, audio_thread, prcess_character

\* What is proved of the ring holds in each connection.
LEMMA RingInvariance == ReceiverSpec => []IInv /\ []FifoInv
<1>1. ReceiverInit => IInv /\ FifoInv
  BY InitIInv, InitFifo DEF ReceiverInit
<1>2. IInv /\ [ReceiverNext]_allVars => IInv'
  <2> SUFFICES ASSUME IInv, [ReceiverNext]_allVars PROVE IInv'
    OBVIOUS
  <2>1. CASE UNCHANGED vars
    BY <2>1 DEF IInv, TypeOK, RingContiguous, Between, Owns, Bounds, InSection,
                vars, shared, result, history
  <2>2. QED
    BY <2>1, RingSteps, StepIInv
<1>3. IInv /\ QueueShape /\ QueueShape' /\ FifoInv /\ [ReceiverNext]_allVars => FifoInv'
  BY RingSteps, StepFifo, StutterFifo
<1>4. QED
  BY <1>1, <1>2, <1>3, QueueFacts, PTL DEF ReceiverSpec

\* Where the two tasks are, and that there is no reading before the player.
LEMMA ControlStep == IInv /\ Control /\ [ReceiverNext]_allVars => Control'
<1> SUFFICES ASSUME IInv, Control, [ReceiverNext]_allVars PROVE Control'
  OBVIOUS
<1>0. pc \in [Tasks -> PCs] /\ "writer" \in Tasks /\ "reader" \in Tasks /\ "writer" # "reader"
  BY DEF IInv, TypeOK, Tasks
<1>1. CASE PeerEnds
  BY <1>1 DEF PeerEnds, Control, process, vars
<1>2. CASE Recv
  <2>1. pc'["reader"] = pc["reader"]
    BY <1>0, <1>2 DEF Recv, Call, Goto, vars
  <2>2. at' # "written" => pc' = pc
    BY <1>2 DEF Recv, vars
  <2>3. at' \in {"recv", "written", "exit", "deleted"}
    BY <1>2 DEF Recv, AfterError
  <2>4. /\ at = "recv" /\ UNCHANGED <<render_status, process>>
        /\ socket' \in {"open", "eof", "ended", "reset", "closed"}
    BY <1>2 DEF Recv, Control
  <2>5. QED
    BY <2>1, <2>2, <2>3, <2>4 DEF Control, process
<1>3. CASE WriterStep
  <2>1. pc'["reader"] = pc["reader"] /\ pc["writer"] # "return"
    <3>1. Apart("writer")
      BY <1>0, <1>3, StepApart DEF WriterStep
    <3>2. pc["writer"] # "return"
      BY <1>3 DEF WriterStep, Step, Test, Copy, Load, Store, Remain, Fill, Hand, Enter,
                  CountLoad, CountStore, Goto
    <3>3. QED
      BY <3>1, <3>2 DEF Apart, Other
  <2>2. QED
    BY <1>3, <2>1 DEF WriterStep, Control, audio, process
<1>4. CASE StartPlayer
  <2>1. misread' \in BOOLEAN
    BY <1>4, Zenon DEF StartPlayer, Control
  <2>2. pc' = pc
    BY <1>4 DEF StartPlayer, vars
  <2>3. render_status' = 0 <=> player' = "none"
    BY <1>4 DEF StartPlayer, Starts, Control
  <2>4. player' \in {"none", "running", "failed"} /\ render_status' \in {0, 1}
    BY <1>4 DEF StartPlayer, Control
  <2>5. player' = "none" => player = "none"
    BY <1>4 DEF StartPlayer
  <2>6. QED
    BY <1>4, <2>1, <2>2, <2>3, <2>4, <2>5 DEF StartPlayer, Control
<1>5. CASE CloseClient
  BY <1>5 DEF CloseClient, Control, process, vars
<1>6. CASE ReaderStep
  <2>1. pc'["writer"] = pc["writer"] /\ pc["reader"] # "return"
    <3>1. Apart("reader")
      BY <1>0, <1>6, StepApart DEF ReaderStep
    <3>2. pc["reader"] # "return"
      BY <1>6 DEF ReaderStep, Step, Test, Copy, Load, Store, Remain, Fill, Hand, Enter,
                  CountLoad, CountStore, Goto
    <3>3. QED
      BY <3>1, <3>2 DEF Apart, Other
  <2>2. QED
    BY <1>6, <2>1 DEF ReaderStep, Control, audio
<1>7. CASE ReadCommand \/ Switch \/ ReadPayload
  <2>1. misread' \in BOOLEAN
    BY <1>7, Zenon DEF ReadCommand, Switch, ReadPayload, Control
  <2>2. player = "running" /\ player' = player /\ UNCHANGED audio
    BY <1>7 DEF ReadCommand, Switch, ReadPayload, Begin
  <2>3. pc'["writer"] = pc["writer"]
    BY <1>0, <1>7 DEF ReadCommand, Switch, ReadPayload, Read, Call, Goto
  <2>4. phase' \in {"none", "command", "length", "payload"}
    BY <1>7 DEF ReadCommand, Switch, ReadPayload, Read
  <2>5. tcp_command' \in {"UN_KNOW", "SEND_HEADER", "SEND_DATA", "SEND_ACK"}
    BY <1>7 DEF ReadCommand, Switch, ReadPayload, Control
  <2>6. QED
    BY <2>1, <2>2, <2>3, <2>4, <2>5 DEF Control, audio
<1>8. CASE UNCHANGED allVars
  BY <1>8 DEF allVars, audio, process, vars, Control
<1>9. QED
  BY <1>1, <1>2, <1>3, <1>4, <1>5, <1>6, <1>7, <1>8
     DEF ReceiverNext, audio_thread, prcess_character

-----------------------------------------------------------------------------
\* A memcpy of the writer stores stream positions that were received.
LEMMA WriterStores ==
  ASSUME IInv, Supply, NEW len \in Nat, Memcpy("writer", len), size["writer"] > 0,
         moved["writer"] + size["writer"] <= MaxSent
  PROVE  /\ moved'["writer"] = moved["writer"] + IF len < size["writer"] THEN len ELSE size["writer"]
         /\ \A b \in Slots, k \in Offsets : buffer'[b][k] <= MaxSent
<1> DEFINE w == index["writer"]
           off == used[w]
           given == IF len < size["writer"] THEN len ELSE size["writer"]
           new == [i \in Offsets |-> IF i < off \/ i >= off + len THEN buffer[w][i]
                                     ELSE IF i < off + given THEN moved["writer"] + 1 + i - off
                                     ELSE 0]
<1>1. /\ buffer' = [buffer EXCEPT ![w] = new]
      /\ moved' = [moved EXCEPT !["writer"] = @ + given]
  BY DEF Memcpy
<1>2. /\ w \in Slots /\ off \in Int /\ given \in Int /\ moved["writer"] \in Int
      /\ size["writer"] \in Int /\ given <= size["writer"] /\ MaxSent \in Nat
  BY Types, BufferAssumption DEF Tasks
<1>3. moved \in [Tasks -> Nat] /\ buffer \in [Slots -> [Offsets -> Nat]] /\ "writer" \in Tasks
  BY DEF IInv, TypeOK, Tasks
<1>4. ASSUME NEW b \in Slots, NEW k \in Offsets PROVE buffer'[b][k] <= MaxSent
  <2>1. CASE b # w
    BY <1>1, <1>3, <2>1 DEF Supply
  <2>2. CASE b = w
    <3>1. buffer'[b][k] = IF k < off \/ k >= off + len THEN buffer[w][k]
                          ELSE IF k < off + given THEN moved["writer"] + 1 + k - off ELSE 0
      BY <1>1, <1>2, <1>3, <2>2
    <3>2. buffer[w][k] <= MaxSent /\ k \in Int
      BY <1>2, Types DEF Supply
    <3>3. k < off + given => moved["writer"] + 1 + k - off <= MaxSent
      BY <1>2, <3>2
    <3>4. QED
      BY <1>2, <3>1, <3>2, <3>3
  <2>3. QED
    BY <2>1, <2>2
<1>5. QED
  BY <1>1, <1>3, <1>4

\* Every step of the writer keeps within what was received.
LEMMA SupplyOfWriter ==
  ASSUME IInv, Supply, Step("writer"), word' = word
  PROVE  Supply'
<1> DEFINE t == "writer"
<1>0. /\ t \in Tasks /\ pc \in [Tasks -> PCs] /\ size \in [Tasks -> Int] /\ reg \in [Tasks -> Int]
      /\ size[t] \in Int /\ reg[t] \in Int /\ moved[t] \in Nat /\ used[index[t]] \in Nat
      /\ used[index[t]] < LENGTH_OF_BUFFER /\ LENGTH_OF_BUFFER \in Nat /\ MaxSent \in Nat
      /\ MaxRecv \in Nat
  BY Types, BufferAssumption, ReceiverAssumption DEF IInv, TypeOK, Tasks
<1>1. CASE Test(t) \/ CountLoad(t) \/ CountStore(t) \/ Enter(t)
  <2>1. UNCHANGED <<buffer, moved, size>>
    BY <1>1 DEF Test, CountLoad, CountStore, Enter, shared, history
  <2>2. pc'[t] \notin {"fill", "hand"} /\ (Left(t)' <= Left(t) \/ Left(t)' = 0)
    BY <1>0, <1>1, <2>1 DEF Test, CountLoad, CountStore, Enter, Goto, Left
  <2>3. Left(t) \in Int /\ Left(t)' \in Int
    BY <1>0, <1>1, <2>1 DEF Left, Test, CountLoad, CountStore, Enter, Goto
  <2>4. QED
    BY <1>0, <2>1, <2>2, <2>3 DEF Supply
<1>2. CASE Load(t) \/ Store(t)
  <2>1. UNCHANGED <<buffer, moved, size>>
    BY <1>2 DEF Load, Store, shared, history
  <2>2. pc'[t] \notin {"fill", "hand"} /\ Left(t)' = 0
    BY <1>0, <1>2 DEF Load, Store, Goto, Left
  <2>3. QED
    BY <1>0, <2>1, <2>2 DEF Supply
<1>3. CASE Remain(t)
  <2>1. UNCHANGED <<buffer, moved, size>>
    BY <1>3 DEF Remain, shared, history
  <2>2. pc'[t] = "fill" /\ reg'[t] > 0 /\ Left(t)' = size[t] /\ Left(t) = size[t]
    BY <1>0, <1>3, <2>1 DEF Remain, UpToEnd, Goto, Left
  <2>3. QED
    BY <2>1, <2>2 DEF Supply
<1>4. CASE Copy(t)
  <2>1. pc[t] = "copy" /\ pc'[t] = "load" /\ size' = size /\ Left(t) = size[t] /\ Left(t)' = 0
    BY <1>0, <1>4 DEF Copy, Goto, Left
  <2>2. size[t] > 0 /\ size[t] \in Nat
    BY <1>0, <2>1 DEF IInv, Bounds
  <2>3. /\ moved'[t] = moved[t] + size[t]
        /\ \A b \in Slots, k \in Offsets : buffer'[b][k] <= MaxSent
    BY <1>0, <1>4, <2>1, <2>2, WriterStores DEF Copy, Supply
  <2>4. QED
    BY <1>0, <2>1, <2>3 DEF Supply
<1>5. CASE Fill(t)
  <2>1. /\ pc[t] = "fill" /\ pc'[t] = "hand" /\ size' = size /\ reg' = reg
        /\ Left(t) = size[t] /\ Left(t)' = size[t] - reg[t]
    BY <1>0, <1>5 DEF Fill, Goto, Left
  <2>2. size[t] > 0 /\ reg[t] \in Nat
    BY <1>0, <2>1 DEF IInv, Bounds
  <2>3. /\ moved'[t] = moved[t] + IF reg[t] < size[t] THEN reg[t] ELSE size[t]
        /\ \A b \in Slots, k \in Offsets : buffer'[b][k] <= MaxSent
    BY <1>0, <1>5, <2>1, <2>2, WriterStores DEF Fill, Supply
  <2>4. moved'[t] <= MaxSent /\ moved'[t] + Left(t)' <= MaxSent
    BY <1>0, <2>1, <2>2, <2>3 DEF Supply
  <2>5. QED
    BY <1>0, <2>1, <2>3, <2>4 DEF Supply
<1>6. CASE Hand(t)
  <2>1. /\ UNCHANGED <<buffer, moved>> /\ pc'[t] = "enter" /\ size'[t] = size[t] - reg[t]
        /\ Left(t) = size[t] - reg[t] /\ Left(t)' = size[t] - reg[t] /\ reg[t] > 0
    BY <1>0, <1>6 DEF Hand, Goto, Left, history, Supply
  <2>2. QED
    BY <1>0, <2>1 DEF Supply
<1>7. QED
  BY <1>1, <1>2, <1>3, <1>4, <1>5, <1>6 DEF Step

\* A connection keeps within what was received.
LEMMA SupplyStep == IInv /\ Control /\ Supply /\ [ReceiverNext]_allVars => Supply'
<1> SUFFICES ASSUME IInv, Control, Supply, [ReceiverNext]_allVars PROVE Supply'
  OBVIOUS
<1>0. /\ "writer" \in Tasks /\ "reader" \in Tasks /\ pc \in [Tasks -> PCs]
      /\ size \in [Tasks -> Int] /\ moved \in [Tasks -> Nat]
      /\ buffer \in [Slots -> [Offsets -> Nat]] /\ index \in [Tasks -> Slots]
      /\ used \in [Slots -> Offsets] /\ MaxRecv \in Nat /\ MaxSent \in Nat
  BY BufferAssumption, ReceiverAssumption DEF IInv, TypeOK, Tasks
<1>1. CASE UNCHANGED vars /\ word' = word
  BY <1>1 DEF Supply, Left, vars, shared, history
<1>2. ASSUME NEW n \in 0 .. MaxRecv, Call("writer", n), word' = word PROVE Supply'
  <2>1. /\ pc'["writer"] = IF n > 0 THEN "test" ELSE "return"
        /\ size'["writer"] = n /\ moved["writer"] + n <= MaxSent
        /\ UNCHANGED <<buffer, moved>>
    BY <1>0, <1>2 DEF Call, Goto, shared, history
  <2>2. Left("writer")' <= n /\ Left("writer")' \in Int
    BY <1>0, <1>2, <2>1 DEF Left
  <2>3. pc'["writer"] \notin {"fill", "hand"} /\ n <= MaxRecv /\ n \in Nat
    BY <1>0, <2>1
  <2>4. moved["writer"] + Left("writer")' <= MaxSent
    BY <1>0, <2>1, <2>2, <2>3
  <2>5. QED
    BY <1>2, <2>1, <2>3, <2>4 DEF Supply
<1>3. ASSUME Step("reader") \/ \E n \in Nat : Call("reader", n), word' \in 0 .. MaxSent
      PROVE  Supply'
  <2>1. Apart("reader")
    BY <1>0, <1>3, StepApart
  <2>2. pc'["writer"] = pc["writer"] /\ size'["writer"] = size["writer"] /\ reg'["writer"] = reg["writer"]
    BY <2>1 DEF Apart, Other
  <2>3. buffer' = buffer
    BY <1>3 DEF Step, Test, Copy, Load, Store, Remain, Fill, Hand, Enter, CountLoad, CountStore,
                Memcpy, Call, shared
  <2>4. moved'["writer"] = moved["writer"]
    BY <1>0, <1>3 DEF Step, Test, Copy, Load, Store, Remain, Fill, Hand, Enter, CountLoad, CountStore,
                Memcpy, Call, history
  <2>5. Left("writer")' = Left("writer")
    BY <2>2 DEF Left
  <2>6. QED
    BY <1>3, <2>2, <2>3, <2>4, <2>5 DEF Supply
<1>4. CASE Recv
  <2>1. word' = word /\ (UNCHANGED vars \/ \E n \in 0 .. MaxRecv : Call("writer", n))
    BY <1>0, <1>4 DEF Recv, Chunks, process
  <2>2. QED
    BY <1>1, <1>2, <2>1
<1>5. CASE WriterStep
  BY <1>5, SupplyOfWriter DEF WriterStep, process
<1>6. CASE ReaderStep
  <2>1. word' \in 0 .. MaxSent
    <3>1. buffer[index["reader"]][used[index["reader"]]] \in 0 .. MaxSent
      BY <1>0 DEF Supply
    <3>2. QED
      BY <1>6, <3>1 DEF ReaderStep, Supply
  <2>2. QED
    BY <1>3, <1>6, <2>1 DEF ReaderStep
<1>7. CASE ReadCommand \/ Switch \/ ReadPayload
  <2>1. word' = word
    BY <1>7 DEF ReadCommand, Switch, ReadPayload, Begin
  <2>2. \E n \in Nat : Call("reader", n)
    BY <1>7, BufferAssumption DEF ReadCommand, Switch, ReadPayload, Read, PayloadLength
  <2>3. QED
    BY <1>3, <2>1, <2>2 DEF Supply
<1>8. CASE PeerEnds \/ StartPlayer \/ CloseClient \/ UNCHANGED allVars
  <2>1. UNCHANGED vars /\ word' = word
    BY <1>8 DEF PeerEnds, StartPlayer, CloseClient, allVars, process
  <2>2. QED
    BY <1>1, <2>1
<1>9. QED
  BY <1>4, <1>5, <1>6, <1>7, <1>8 DEF ReceiverNext, audio_thread, prcess_character

-----------------------------------------------------------------------------
\* The percentage is rounded down, so 50 stands for less than 51.
LEMMA AtMostHalf ==
  ASSUME NEW a \in Nat, NEW n \in Nat \ {0}, ~(a \div n > 50)
  PROVE  a < 51 * n
<1> DEFINE q == a \div n
           r == a % n
<1>1. q \in Int /\ r \in Int /\ a = n * q + r /\ r < n
  OBVIOUS
<1>2. q <= 50
  BY <1>1
<1> HIDE DEF q, r
<1>3. n * q <= n * 50
  BY <1>1, <1>2
<1>4. QED
  BY <1>1, <1>3

\* A ring that was at most half full is not full after one more block.
LEMMA RoomForOneMore ==
  ASSUME NEW w \in Slots, 100 * w < 51 * NUMBER_OF_BUFFER
  PROVE  w + 1 < NUMBER_OF_BUFFER /\ Advance(w) = w + 1
<1>1. w + 1 < NUMBER_OF_BUFFER
  BY BufferAssumption, ReceiverAssumption DEF Slots
<1>2. QED
  BY <1>1, AdvanceFacts, BufferAssumption DEF Slots

\* Every step of the writer keeps to this before there is a player.
LEMMA StockOfWriter ==
  ASSUME IInv, Supply, Stocked, Level, at = "written", at' = at, Step("writer")
  PROVE  Stocked' /\ Level'
<1> DEFINE t == "writer"
           w == index["writer"]
           N == NUMBER_OF_BUFFER
           L == LENGTH_OF_BUFFER
<1>0. /\ t \in Tasks /\ "reader" \in Tasks /\ pc \in [Tasks -> PCs] /\ size \in [Tasks -> Int]
      /\ reg \in [Tasks -> Int] /\ w \in Slots /\ w \in Nat /\ N \in Nat /\ L \in Nat
      /\ index \in [Tasks -> Slots] /\ used \in [Slots -> Offsets]
      /\ state \in [Slots -> {"B_PREPARED", "B_UNPREPARED"}]
      /\ size[t] \in Int /\ reg[t] \in Int /\ used[w] \in Nat /\ buffer_used \in Int
      /\ MaxRecv <= L /\ MaxRecv \in Nat
  BY Types, BufferAssumption, ReceiverAssumption DEF IInv, TypeOK, Tasks
<1>1. CASE Test(t)
  <2>1. /\ UNCHANGED <<state, used, buffer_used, index, size, reg>>
        /\ pc[t] = "test" /\ pc'[t] = IF Fits(t) THEN "copy" ELSE "remain"
    BY <1>0, <1>1 DEF Test, Goto, shared
  <2>2. used[w] + size[t] < L => Fits(t)
    BY <1>0 DEF Fits
  <2>3. Level'
    BY <2>1, <2>2 DEF Level
  <2>4. QED
    BY <2>1, <2>3 DEF Stocked
<1>2. CASE Copy(t) \/ Load(t) \/ Store(t)
  <2>1. /\ UNCHANGED <<state, buffer_used, index>>
        /\ pc[t] \in {"copy", "load", "store"} /\ pc'[t] \in {"load", "store", "return"}
    BY <1>0, <1>2 DEF Copy, Load, Store, Goto, shared
  <2>2. Level'
    BY <2>1 DEF Level
  <2>3. QED
    BY <2>1, <2>2 DEF Stocked
<1>3. CASE Remain(t) \/ Fill(t)
  <2>1. /\ UNCHANGED <<state, buffer_used, index>>
        /\ pc[t] \in {"remain", "fill"} /\ pc'[t] \in {"fill", "hand"}
    BY <1>0, <1>3 DEF Remain, Fill, Goto, shared
  <2>2. Level'
    BY <2>1 DEF Level
  <2>3. QED
    BY <2>1, <2>2 DEF Stocked
<1>4. CASE Hand(t)
  <2>1. /\ pc[t] = "hand" /\ pc'[t] = "enter" /\ buffer_used' = buffer_used
        /\ index'[t] = Advance(w) /\ index'["reader"] = index["reader"]
        /\ size'[t] = size[t] - reg[t] /\ reg[t] > 0 /\ size[t] <= MaxRecv
        /\ \A b \in Slots : state'[b] = IF b = w THEN "B_PREPARED" ELSE state[b]
    BY <1>0, <1>4 DEF Hand, HandsBlock, Goto, Supply, Own, Other
  <2>2. 100 * w < 51 * N
    BY <2>1 DEF Level
  <2>3. index'[t] = w + 1 /\ w + 1 < N
    BY <1>0, <2>1, <2>2, RoomForOneMore
  <2>4. size'[t] < L /\ (w + 1) - 1 = w
    BY <1>0, <2>1
  <2>5. Level'
    BY <2>1, <2>2, <2>3, <2>4 DEF Level
  <2>6. \A b \in Slots : state'[b] = "B_PREPARED" <=> b < w + 1
    BY <1>0, <2>1, Types DEF Stocked
  <2>7. Stocked'
    BY <2>1, <2>3, <2>4, <2>6 DEF Stocked
  <2>8. QED
    BY <2>5, <2>7
<1>5. CASE Enter(t) \/ CountLoad(t)
  <2>1. /\ UNCHANGED <<state, buffer_used, index, size>>
        /\ pc[t] \in {"enter", "cload"} /\ pc'[t] \in {"cload", "cstore"}
        /\ pc[t] = "enter" => pc'[t] = "cload" /\ used'[w] = 0
        /\ pc[t] = "cload" => reg'[t] = buffer_used /\ used' = used
    BY <1>0, <1>5 DEF Enter, CountLoad, Goto, shared
  <2>2. Level'
    BY <2>1 DEF Level
  <2>3. QED
    BY <2>1, <2>2 DEF Stocked
<1>6. CASE CountStore(t)
  <2>1. /\ UNCHANGED <<state, used, index, size>>
        /\ pc[t] = "cstore" /\ pc'[t] = IF size[t] > 0 THEN "test" ELSE "return"
        /\ buffer_used' = reg[t] + 1 /\ reg[t] = w - 1
    BY <1>0, <1>6 DEF CountStore, Counts, Goto, shared, Stocked
  <2>2. buffer_used' = w
    BY <1>0, <2>1
  <2>3. Level'
    BY <1>0, <2>1 DEF Level
  <2>4. QED
    BY <2>1, <2>2, <2>3 DEF Stocked
<1>7. QED
  BY <1>1, <1>2, <1>3, <1>4, <1>5, <1>6 DEF Step

\* Before there is a player, the ring fills block by block and the test for
\* the start of playback comes in time.
LEMMA StockStep == IInv /\ Control /\ Supply /\ Stock /\ [ReceiverNext]_allVars => Stock'
<1> SUFFICES ASSUME IInv, Control, Supply, Stock, [ReceiverNext]_allVars, player' = "none"
             PROVE  Stocked' /\ Level'
  BY DEF Stock
<1>0. "writer" \in Tasks /\ "reader" \in Tasks /\ pc \in [Tasks -> PCs]
  BY DEF IInv, TypeOK, Tasks
<1>1. player = "none" /\ pc["reader"] = "return"
  BY DEF ReceiverNext, PeerEnds, audio_thread, Recv, WriterStep, StartPlayer, CloseClient,
         prcess_character, ReaderStep, ReadCommand, Switch, ReadPayload, Begin, process, allVars, Control
<1>2. Stocked /\ Level
  BY <1>1 DEF Stock
<1>3. CASE Recv
  <2>1. at = "recv" /\ 100 * index["writer"] < 51 * NUMBER_OF_BUFFER /\ pc["writer"] = "return"
    BY <1>2, <1>3 DEF Recv, Level, Control
  <2>2. UNCHANGED <<state, index, buffer_used>>
    BY <1>3 DEF Recv, Call, vars, shared
  <2>3. pc'["writer"] \in {"test", "return"}
    BY <1>0, <1>3, <2>1 DEF Recv, Call, Goto, vars
  <2>4. QED
    BY <1>2, <2>1, <2>2, <2>3 DEF Stocked, Level
<1>4. CASE WriterStep
  <2>1. Step("writer") /\ at' = at
    BY <1>4 DEF WriterStep, audio
  <2>2. pc["writer"] # "return"
    BY <2>1 DEF Step, Test, Copy, Load, Store, Remain, Fill, Hand, Enter, CountLoad, CountStore, Goto
  <2>3. at = "written"
    BY <2>2 DEF Control
  <2>4. QED
    BY <1>2, <2>1, <2>3, StockOfWriter
<1>5. CASE StartPlayer
  <2> DEFINE w == index["writer"]
  <2>1. UNCHANGED vars /\ pc["writer"] = "return" /\ ~Starts
    BY <1>5, Zenon DEF StartPlayer
  <2>2. render_status = 0 /\ buffer_used = w
    BY <1>1, <1>2, <2>1 DEF Control, Stocked
  <2>3. ~((w * 100) \div NUMBER_OF_BUFFER > 50)
    BY <2>1, <2>2 DEF Starts, getBufferPercent
  <2>4. w \in Nat /\ w * 100 \in Nat /\ w * 100 = 100 * w
    BY Types
  <2>5. 100 * w < 51 * NUMBER_OF_BUFFER
    BY <2>3, <2>4, AtMostHalf, BufferAssumption
  <2>6. QED
    BY <1>2, <2>1, <2>5 DEF Stocked, Level, vars, shared
<1>6. CASE PeerEnds \/ CloseClient \/ UNCHANGED allVars
  <2>1. UNCHANGED vars /\ (at' = at \/ at = "exit")
    BY <1>6 DEF PeerEnds, CloseClient, allVars, audio
  <2>2. QED
    BY <1>2, <2>1 DEF Stocked, Level, vars, shared
<1>7. CASE ReaderStep
  BY <1>1, <1>7 DEF ReaderStep, Step, Test, Copy, Load, Store, Remain, Fill, Hand, Enter,
                    CountLoad, CountStore, Goto
<1>8. CASE ReadCommand \/ Switch \/ ReadPayload
  BY <1>1, <1>8 DEF ReadCommand, Switch, ReadPayload, Begin
<1>9. QED
  BY <1>3, <1>4, <1>5, <1>6, <1>7, <1>8 DEF ReceiverNext, audio_thread, prcess_character

\* All of this holds at the start of a connection.
LEMMA InitConnection == ReceiverInit => Control /\ Supply /\ Stock
<1> SUFFICES ASSUME ReceiverInit PROVE Control /\ Supply /\ Stock
  OBVIOUS
<1>0. /\ "writer" \in Tasks /\ "reader" \in Tasks
      /\ NUMBER_OF_BUFFER \in Nat \ {0} /\ MaxRecv \in Nat /\ MaxSent \in Nat
  BY BufferAssumption, ReceiverAssumption DEF Tasks
<1>1. /\ pc["writer"] = "return" /\ pc["reader"] = "return" /\ size["writer"] = 0
      /\ moved["writer"] = 0 /\ index["writer"] = 0 /\ index["reader"] = 0 /\ buffer_used = 0
      /\ \A b \in Slots : state[b] = "B_UNPREPARED"
      /\ \A b \in Slots, k \in Offsets : buffer[b][k] = 0
  BY <1>0 DEF ReceiverInit, Init
<1>2. misread \in BOOLEAN
  BY Zenon DEF ReceiverInit
<1>3. Control
  BY <1>1, <1>2 DEF ReceiverInit, Control
<1>4. Supply
  BY <1>0, <1>1 DEF ReceiverInit, Supply, Left
<1>5. Stock
  BY <1>0, <1>1 DEF Stock, Stocked, Level, Slots
<1>6. QED
  BY <1>3, <1>4, <1>5

\* The inductive invariants of a connection, together.
LEMMA ConnectionInvariance == ReceiverSpec => [](IInv /\ Control /\ Supply /\ Stock)
BY InitConnection, RingInvariance, ControlStep, SupplyStep, StockStep, PTL DEF ReceiverSpec

\* For every size of the ring and of the chunks and every stream of frames,
\* the variables of tcp_perf.c keep their types, no chunk is larger than the
\* buffer of audio_thread, and the player's words are words of the stream or
\* initial memory.
THEOREM ReceiverTypes == ReceiverSpec => []ReceiverTypeOK
<1>1. Control /\ Supply => ReceiverTypeOK
  BY DEF Control, Supply, ReceiverTypeOK
<1>2. QED
  BY <1>1, ConnectionInvariance, PTL

\* With three blocks or more and chunks of at most a block, the writer never
\* waits for a free block while there is no player yet (tcp_perf.c:153-162).
THEOREM PlayerStartsInTime == ReceiverSpec => []StartedBeforeFull
<1>1. IInv /\ Control /\ Stock => StartedBeforeFull
  <2> SUFFICES ASSUME IInv, Control, Stock, state[index["writer"]] = "B_PREPARED"
               PROVE  render_status = 1
    BY DEF StartedBeforeFull
  <2>1. index["writer"] \in Slots /\ ~(index["writer"] < index["writer"])
    BY Types
  <2>2. player # "none"
    BY <2>1 DEF Stock, Stocked
  <2>3. QED
    BY <2>2 DEF Control
<1>2. QED
  BY <1>1, ConnectionInvariance, PTL

\* The level that decides on the start of playback is the number of full
\* blocks: the counter has lost no update yet (tcp_perf.c:159).
THEOREM LevelIsExactBeforePlay == ReceiverSpec => []LevelIsExact
<1>1. IInv /\ Control /\ Stock => LevelIsExact
  <2> SUFFICES ASSUME IInv, Control, Stock, pc["writer"] = "return", render_status = 0
               PROVE  buffer_used = Cardinality({b \in Slots : state[b] = "B_PREPARED"})
    BY DEF LevelIsExact
  <2> DEFINE w == index["writer"]
  <2>1. Stocked
    BY DEF Control, Stock
  <2>2. buffer_used = w /\ \A b \in Slots : state[b] = "B_PREPARED" <=> b < w
    BY <2>1 DEF Stocked
  <2>3. w \in Nat /\ w < NUMBER_OF_BUFFER /\ NUMBER_OF_BUFFER \in Nat
    BY Types
  <2>4. {b \in Slots : state[b] = "B_PREPARED"} = 0 .. w - 1
    BY <2>2, <2>3 DEF Slots
  <2>5. Cardinality(0 .. w - 1) = w
    <3>1. Cardinality(0 .. w - 1) = IF 0 > w - 1 THEN 0 ELSE (w - 1) - 0 + 1
      <4>1. 0 \in Int /\ w - 1 \in Int
        BY <2>3
      <4>2. QED
        BY <4>1, FS_Interval
    <3>2. QED
      BY <2>3, <3>1
  <2>6. QED
    BY <2>2, <2>4, <2>5
<1>2. QED
  BY <1>1, ConnectionInvariance, PTL

-----------------------------------------------------------------------------
\* What the player's memcpy reads first is the next byte of the stream.
LEMMA FirstByte ==
  ASSUME IInv, InStep, pc["reader"] \in {"copy", "fill"}
  PROVE  buffer[index["reader"]][used[index["reader"]]] = moved["reader"] + 1
<1> DEFINE r == index["reader"]
           u == used[r]
<1>1. "reader" \in Tasks /\ r \in Slots /\ u \in Nat /\ r \in Nat /\ moved["reader"] \in Nat
      /\ u \in Offsets
  BY Types DEF Tasks
<1>2. state[r] = "B_PREPARED"
  BY <1>1 DEF IInv, Owns, InSection, Own
<1>3. Off("reader") = u
  BY <1>2 DEF Off, Own
<1>4. Dist(r) = 0 /\ Bytes(Dist(r)) = 0
  BY <1>1, BytesFacts DEF Dist
<1>5. buffer[r][u] = Base + Bytes(Dist(r)) + 1 + u
  BY <1>1, <1>2 DEF InStep, Filled
<1>6. buffer[r][u] = (moved["reader"] - u) + 0 + 1 + u
  BY <1>3, <1>4, <1>5 DEF Base
<1>7. QED
  BY <1>1, <1>6

\* A step of buffer_read_data does not move the end of the read; only the two
\* memcpy calls bring it nearer.
LEMMA ReaderProgress ==
  ASSUME IInv, InStep, Left("reader") \in Nat, Step("reader")
  PROVE  /\ End' = End /\ Left("reader")' \in Nat
         /\ IF pc["reader"] \in {"copy", "fill"} THEN Left("reader")' < Left("reader")
                                               ELSE Left("reader")' = Left("reader")
<1> DEFINE t == "reader"
<1>0. /\ t \in Tasks /\ t # "writer" /\ pc \in [Tasks -> PCs] /\ size \in [Tasks -> Int]
      /\ reg \in [Tasks -> Int] /\ moved \in [Tasks -> Nat]
      /\ size[t] \in Int /\ reg[t] \in Int /\ moved[t] \in Nat /\ used[index[t]] \in Nat
      /\ used[index[t]] < LENGTH_OF_BUFFER /\ LENGTH_OF_BUFFER \in Nat
  BY Types DEF IInv, TypeOK, Tasks
<1>1. CASE Test(t) \/ Load(t) \/ Store(t) \/ Remain(t) \/ Hand(t) \/ Enter(t) \/ CountLoad(t)
  <2>1. moved' = moved /\ pc[t] \notin {"copy", "fill"}
    BY <1>1 DEF Test, Load, Store, Remain, Hand, Enter, CountLoad, Goto, history
  <2>2. Left(t)' = Left(t)
    BY <1>0, <1>1 DEF Test, Load, Store, Remain, Hand, Enter, CountLoad, Goto, Left
  <2>3. QED
    BY <2>1, <2>2 DEF End
<1>2. CASE CountStore(t)
  <2>1. moved' = moved /\ pc[t] = "cstore" /\ size' = size
        /\ pc'[t] = IF size[t] > 0 THEN "test" ELSE "return"
    BY <1>0, <1>2 DEF CountStore, Goto, history
  <2>2. Left(t)' = Left(t)
    BY <1>0, <2>1 DEF Left
  <2>3. QED
    BY <2>1, <2>2 DEF End
<1>3. CASE Copy(t)
  <2>1. /\ pc[t] = "copy" /\ pc'[t] = "load" /\ moved'[t] = moved[t] + size[t]
    BY <1>0, <1>3 DEF Copy, Goto, Memcpy
  <2>2. Left(t) = size[t] /\ Left(t)' = 0 /\ size[t] > 0
    BY <1>0, <2>1 DEF Left, IInv, Bounds
  <2>3. QED
    BY <1>0, <2>1, <2>2 DEF End
<1>4. CASE Fill(t)
  <2>1. /\ pc[t] = "fill" /\ pc'[t] = "hand" /\ moved'[t] = moved[t] + reg[t]
        /\ size' = size /\ reg' = reg
    BY <1>0, <1>4 DEF Fill, Goto, Memcpy
  <2>2. Left(t) = size[t] /\ Left(t)' = size[t] - reg[t]
    BY <2>1 DEF Left
  <2>3. reg[t] = LENGTH_OF_BUFFER - used[index[t]] /\ reg[t] <= size[t]
    BY <1>0, <2>1 DEF InStep, Requests
  <2>4. QED
    BY <1>0, <2>1, <2>2, <2>3 DEF End
<1>5. QED
  BY <1>1, <1>2, <1>3, <1>4 DEF Step

\* A call of buffer_read_data for n words.
LEMMA ReaderCalls ==
  ASSUME IInv, NEW n \in Nat, Call("reader", n)
  PROVE  /\ pc["reader"] = "return" /\ Left("reader") = 0 /\ End = moved["reader"]
         /\ Left("reader")' = n /\ End' = End + n /\ clobbered' = clobbered
         /\ moved' = moved /\ moved["reader"] \in Nat
<1>0. /\ "reader" \in Tasks /\ pc \in [Tasks -> PCs] /\ size \in [Tasks -> Int]
      /\ moved["reader"] \in Nat
  BY Types DEF IInv, TypeOK, Tasks
<1>1. /\ pc["reader"] = "return" /\ pc'["reader"] = IF n > 0 THEN "test" ELSE "return"
      /\ size'["reader"] = n /\ moved' = moved
  BY <1>0 DEF Call, Goto, history
<1>2. clobbered' = clobbered
  BY Zenon DEF Call, history
<1>3. Left("reader") = 0 /\ Left("reader")' = n
  BY <1>1 DEF Left
<1>4. QED
  BY <1>0, <1>1, <1>2, <1>3 DEF End

\* The player stays in step with the frames until a reset goes astray.
LEMMA SyncStep ==
  ASSUME IInv, QueueShape, FifoInv, Control, Supply, InSync, [ReceiverNext]_allVars
  PROVE  InSync'
<1> SUFFICES ASSUME ~clobbered' PROVE Tracks'
  BY DEF InSync
<1>0. MaxSent \in Nat /\ Len(Stream) = MaxSent /\ "reader" \in Tasks /\ "writer" \in Tasks
      /\ moved \in [Tasks -> Nat]
  BY BufferAssumption, ReceiverAssumption DEF Tasks, IInv, TypeOK
<1>1. ~clobbered
  <2>1. ASSUME NEW t \in Tasks, Step(t) \/ \E n \in Nat : Call(t, n) PROVE ~clobbered
    BY <2>1, Zenon DEF Step, Call, Test, Copy, Load, Store, Remain, Fill, Hand, Enter,
                       CountLoad, CountStore, history
  <2>2. CASE UNCHANGED vars
    BY <2>2, Zenon DEF vars, history
  <2>3. QED
    BY <2>1, <2>2, RingSteps
<1>2. Tracks /\ InStep
  BY <1>1 DEF InSync, FifoInv
<1>3. ASSUME UNCHANGED <<phase, tcp_command, word, misread>>,
             pc'["reader"] = pc["reader"], moved'["reader"] = moved["reader"],
             Left("reader")' = Left("reader")
      PROVE  Tracks'
  <2>1. End' = End
    BY <1>3 DEF End
  <2>2. QED
    BY <1>2, <1>3, <2>1 DEF Tracks, Has
<1>4. ASSUME Step("writer") \/ \E n \in Nat : Call("writer", n)
      PROVE  /\ pc'["reader"] = pc["reader"] /\ moved'["reader"] = moved["reader"]
             /\ Left("reader")' = Left("reader")
  <2>1. Apart("writer")
    BY <1>0, <1>4, StepApart
  <2>2. moved'["reader"] = moved["reader"]
    BY <1>0, <1>4 DEF Step, Test, Copy, Load, Store, Remain, Fill, Hand, Enter, CountLoad, CountStore,
                      Memcpy, Call, history
  <2>3. QED
    BY <2>1, <2>2 DEF Apart, Other, Left
<1>5. CASE Recv \/ WriterStep
  <2>1. UNCHANGED <<phase, tcp_command, word, misread>>
    BY <1>5 DEF Recv, WriterStep, process
  <2>2. UNCHANGED vars \/ Step("writer") \/ \E n \in Nat : Call("writer", n)
    BY <1>5, ReceiverAssumption, BufferAssumption DEF Recv, Chunks, WriterStep
  <2>3. QED
    BY <1>3, <1>4, <2>1, <2>2 DEF vars, history, Left
<1>6. CASE PeerEnds \/ StartPlayer \/ CloseClient \/ UNCHANGED allVars
  <2>1. UNCHANGED <<phase, tcp_command, word, misread>> /\ UNCHANGED vars
    BY <1>6 DEF PeerEnds, StartPlayer, CloseClient, allVars, process
  <2>2. QED
    BY <1>3, <2>1 DEF vars, history, Left
<1>7. CASE ReaderStep
  <2>1. /\ End' = End /\ Left("reader")' \in Nat
        /\ IF pc["reader"] \in {"copy", "fill"} THEN Left("reader")' < Left("reader")
                                              ELSE Left("reader")' = Left("reader")
    BY <1>2, <1>7, ReaderProgress DEF ReaderStep, Tracks
  <2>2. UNCHANGED <<phase, tcp_command, misread>>
    BY <1>7 DEF ReaderStep
  <2>3. phase # "none"
    BY <1>2, <1>7 DEF ReaderStep, Tracks, Step, Test, Copy, Load, Store, Remain, Fill, Hand, Enter,
                      CountLoad, CountStore, Goto
  <2>4. moved["reader"] \in Nat /\ Left("reader") \in Nat
    BY <1>0, <1>2 DEF Tracks
  <2>5. ASSUME phase \in {"command", "length"}
        PROVE  Left("reader")' <= 1 /\ (Left("reader")' = 0 => word' = End)
    <3>1. CASE pc["reader"] \in {"copy", "fill"}
      <4>1. word' = moved["reader"] + 1
        BY <1>2, <1>7, <2>5, <3>1, FirstByte DEF ReaderStep
      <4>2. Left("reader") = 1
        BY <1>2, <2>1, <2>4, <2>5, <3>1 DEF Tracks
      <4>3. QED
        BY <2>1, <2>4, <3>1, <4>1, <4>2 DEF End
    <3>2. CASE pc["reader"] \notin {"copy", "fill"}
      <4>1. word' = word
        BY <1>7, <3>2 DEF ReaderStep
      <4>2. QED
        BY <1>2, <2>1, <2>5, <3>2, <4>1 DEF Tracks
    <3>3. QED
      BY <3>1, <3>2
  <2>6. QED
    BY <1>2, <2>1, <2>2, <2>3, <2>5 DEF Tracks, Has
<1>8. CASE ReadCommand
  <2>1. Call("reader", 1) /\ phase' = "command" /\ phase \in {"none", "payload"}
        /\ misread' = misread /\ tcp_command' = tcp_command
    BY <1>8 DEF ReadCommand, Read, FrameEnds
  <2>2. /\ Left("reader") = 0 /\ End = moved["reader"] /\ Left("reader")' = 1 /\ End' = End + 1
        /\ moved["reader"] \in Nat
    BY <2>1, ReaderCalls
  <2>3. Has(End + 1, "command")
    <3>1. CASE phase = "none"
      <4>1. End + 1 = 1
        BY <1>2, <2>2, <3>1 DEF Tracks
      <4>2. QED
        BY <4>1, StreamAssumption
    <3>2. CASE phase = "payload"
      BY <1>2, <3>2 DEF Tracks
    <3>3. QED
      BY <2>1, <3>1, <3>2
  <2>4. End' > 0 /\ Left("reader")' \in Nat /\ Left("reader")' <= 1 /\ Left("reader")' # 0
    BY <2>2
  <2>5. QED
    BY <1>2, <2>1, <2>2, <2>3, <2>4 DEF Tracks, Has
<1>9. ASSUME phase \in {"command", "length"}, pc["reader"] = "return"
      PROVE  /\ word = End /\ word = moved["reader"] /\ word \in 1 .. Len(Stream)
             /\ Stream[word].role = phase
  <2>1. Left("reader") = 0 /\ moved["reader"] \in Nat /\ moved["writer"] \in Nat
    BY <1>0, <1>9 DEF Left
  <2>2. word = End /\ End = moved["reader"] /\ End > 0 /\ Has(End, phase)
    BY <1>2, <1>9, <2>1 DEF Tracks, End
  <2>3. moved["reader"] <= moved["writer"] /\ moved["writer"] <= MaxSent
    BY <1>1, FifoFacts DEF FifoUnlessClobbered, Supply
  <2>4. End \in 1 .. Len(Stream)
    BY <1>0, <2>1, <2>2, <2>3
  <2>5. QED
    BY <2>2, <2>4 DEF Has
<1>10. CASE Switch
  <2>1. pc["reader"] = "return" /\ phase = "command" /\ misread' = misread
    BY <1>10 DEF Switch, Begin
  <2>2. PICK c \in {"UN_KNOW", "SEND_HEADER", "SEND_DATA", "SEND_ACK"} :
          /\ Holds("command", c) /\ tcp_command' = c
          /\ IF c \in {"SEND_HEADER", "SEND_DATA"} THEN Read("length", 1) ELSE Read("command", 1)
    BY <1>10 DEF Switch
  <2>3. /\ word = End /\ word \in 1 .. Len(Stream) /\ Stream[word].role = "command"
        /\ Stream[word].value = c
    BY <1>9, <2>1, <2>2 DEF Holds
  <2>4. Call("reader", 1)
        /\ phase' = IF c \in {"SEND_HEADER", "SEND_DATA"} THEN "length" ELSE "command"
    BY <2>2 DEF Read
  <2>5. /\ Left("reader")' = 1 /\ End' = word + 1
    BY <2>3, <2>4, ReaderCalls
  <2>6. Has(word + 1, phase')
    BY <2>3, <2>4, StreamAssumption
  <2>7. /\ End' > 0 /\ End' - 1 = word /\ word \in 1 .. MaxSent
        /\ Left("reader")' \in Nat /\ Left("reader")' <= 1 /\ Left("reader")' # 0
    BY <1>0, <2>3, <2>5
  <2>8. QED
    BY <1>2, <2>1, <2>2, <2>3, <2>4, <2>5, <2>6, <2>7 DEF Tracks, Has
<1>11. CASE ReadPayload
  <2>1. pc["reader"] = "return" /\ phase = "length"
    BY <1>11 DEF ReadPayload, Begin
  <2>2. PICK n \in 0 .. MaxSize :
          /\ Holds("length", n) /\ Read("payload", n)
          /\ misread' = (misread \/ (tcp_command = "SEND_HEADER" /\ n # HeaderLength))
    BY <1>11, Zenon DEF ReadPayload, PayloadLength
  <2>3. /\ word = End /\ word \in 1 .. Len(Stream) /\ Stream[word].role = "length"
        /\ Stream[word].value = n /\ n \in Nat
    BY <1>9, <2>1, <2>2, BufferAssumption DEF Holds
  <2>4. word - 1 \in 1 .. MaxSent /\ Stream[word - 1].role = "command"
        /\ Stream[word - 1].value = tcp_command
    BY <1>2, <2>1, <2>3 DEF Tracks
  <2>5. word > 1
    BY <1>0, <2>3, <2>4
  <2>6. tcp_command = "SEND_HEADER" => n = HeaderLength
    BY <2>3, <2>4, <2>5, StreamAssumption
  <2>7. ~misread'
    BY <1>2, <2>2, <2>6, Zenon DEF Tracks
  <2>8. Call("reader", n) /\ phase' = "payload"
    BY <2>2 DEF Read
  <2>9. Left("reader")' = n /\ End' = word + n
    BY <2>3, <2>8, ReaderCalls
  <2>10. Has(word + n + 1, "command")
    BY <2>3, StreamAssumption
  <2>11. QED
    BY <2>3, <2>7, <2>8, <2>9, <2>10 DEF Tracks, Has
<1>12. QED
  BY <1>5, <1>6, <1>7, <1>8, <1>10, <1>11 DEF ReceiverNext, audio_thread, prcess_character

\* For every size of the ring, of the chunks and of the reads and every stream
\* of frames, the player takes commands for commands and lengths for lengths,
\* unless line 52 or 81 of data_buffer.c has reset a `used' that was needed.
THEOREM PlayerStaysInSync == ReceiverSpec => []ParserInSync
<1>1. ReceiverInit => InSync
  <2> SUFFICES ASSUME ReceiverInit PROVE Tracks
    BY DEF InSync
  <2>1. pc["reader"] = "return" /\ moved["reader"] = 0 /\ phase = "none"
    BY DEF ReceiverInit, Init, Tasks
  <2>2. ~misread
    BY Zenon DEF ReceiverInit
  <2>3. QED
    BY <2>1, <2>2 DEF Tracks, Left
<1>2. IInv /\ QueueShape /\ FifoInv /\ Supply /\ InSync => ParserInSync
  <2> SUFFICES ASSUME IInv, QueueShape, FifoInv, Supply, Tracks, ~clobbered
               PROVE  /\ ~misread
                      /\ player = "running" /\ pc["reader"] = "return" /\ phase \in {"command", "length"}
                           => word \in 1 .. MaxSent /\ Stream[word].role = phase
    BY DEF InSync, ParserInSync
  <2>1. ASSUME phase \in {"command", "length"}, pc["reader"] = "return"
        PROVE  word \in 1 .. MaxSent /\ Stream[word].role = phase
    <3>1. Left("reader") = 0 /\ moved["reader"] \in Nat /\ moved["writer"] \in Nat /\ MaxSent \in Nat
      BY <2>1, Types, BufferAssumption DEF Left, Tasks
    <3>2. word = moved["reader"] /\ word > 0 /\ Has(word, phase)
      BY <2>1, <3>1 DEF Tracks, End
    <3>3. moved["reader"] <= moved["writer"] /\ moved["writer"] <= MaxSent
      BY FifoFacts DEF FifoUnlessClobbered, Supply
    <3>4. word \in 1 .. MaxSent
      BY <3>1, <3>2, <3>3
    <3>5. QED
      BY <3>2, <3>4, ReceiverAssumption DEF Has
  <2>2. QED
    BY <2>1 DEF Tracks
<1>3. IInv /\ QueueShape /\ FifoInv /\ Control /\ Supply /\ InSync /\ [ReceiverNext]_allVars => InSync'
  BY SyncStep
<1>4. QED
  BY <1>1, <1>2, <1>3, ConnectionInvariance, RingInvariance, QueueFacts, PTL DEF ReceiverSpec

=============================================================================
