-------------------------- MODULE DataBufferProofs --------------------------
(***************************************************************************)
(* Proofs about the block ring of DataBuffer, for every number and length  *)
(* of blocks and every size of the calls.                                  *)
(*                                                                         *)
(* None of the invariants is inductive by itself.  What makes them so is   *)
(* that a task past its busy-wait finds its own flag on its block (Owns),  *)
(* and what each point of the two functions knows about `used', `size' and *)
(* the loaded value, in spite of the resets by the other task (Bounds): a  *)
(* reset only makes `used' smaller, which keeps every upper bound.         *)
(***************************************************************************)
EXTENDS DataBuffer, SequenceTheorems, TLAPS

Owns == \A t \in Tasks : InSection(t) => state[index[t]] = Own(t)

Bounds ==
  \A t \in Tasks :
    /\ pc[t] \in {"test", "copy", "load", "store", "remain", "fill"} => size[t] > 0
    /\ pc[t] \in {"copy", "load"} => used[index[t]] + size[t] < LENGTH_OF_BUFFER
    /\ pc[t] = "store" => reg[t] >= 0 /\ reg[t] + size[t] < LENGTH_OF_BUFFER
    /\ pc[t] \in {"fill", "hand"} => reg[t] >= 0
    /\ pc[t] = "fill" => used[index[t]] + reg[t] <= LENGTH_OF_BUFFER

IInv == TypeOK /\ RingContiguous /\ Owns /\ Bounds

-----------------------------------------------------------------------------
\* The index moves on by one and from the last block to the first
\* (data_buffer.c:49-50, 78-79).
LEMMA AdvanceFacts ==
  ASSUME NEW i \in Slots
  PROVE  /\ Advance(i) \in Slots
         /\ Advance(i) = IF i = NUMBER_OF_BUFFER - 1 THEN 0 ELSE i + 1
BY BufferAssumption DEF Slots, Advance

\* The two tasks wait for different flags.
LEMMA OwnFacts ==
  /\ \A t \in Tasks : Other(t) \in Tasks /\ Other(t) # t /\ Own(Other(t)) # Own(t)
  /\ \A t \in Tasks : Own(t) \in {"B_PREPARED", "B_UNPREPARED"}
  /\ \A t, u \in Tasks : u # t => u = Other(t)
BY DEF Tasks, Other, Own

\* The initial state of init_data_buffer satisfies the inductive invariant.
LEMMA InitIInv == Init => IInv
<1> SUFFICES ASSUME Init PROVE IInv
  OBVIOUS
<1> USE BufferAssumption
<1>1. TypeOK
  <2>1. inOrder \in BOOLEAN /\ clobbered \in BOOLEAN
    BY Zenon DEF Init
  <2>2. buffer \in [Slots -> [Offsets -> Nat]] /\ used \in [Slots -> Offsets]
    BY DEF Init, Offsets
  <2>3. index \in [Tasks -> Slots] /\ pc \in [Tasks -> PCs]
    BY DEF Init, Slots, PCs
  <2>4. QED
    BY <2>1, <2>2, <2>3 DEF Init, TypeOK
<1>2. RingContiguous
  BY DEF Init, RingContiguous, Tasks, Slots
<1>3. Owns
  BY DEF Init, Owns, InSection
<1>4. Bounds
  BY DEF Init, Bounds
<1>5. QED
  BY <1>1, <1>2, <1>3, <1>4 DEF IInv

\* A memcpy whose length fits behind `used' keeps the types of what it
\* changes.
LEMMA MemcpyType ==
  ASSUME TypeOK, NEW t \in Tasks, NEW len \in Nat, size[t] > 0, Memcpy(t, len)
  PROVE  /\ buffer' \in [Slots -> [Offsets -> Nat]]
         /\ moved' \in [Tasks -> Nat]
         /\ inOrder' \in BOOLEAN
<1> DEFINE off == used[index[t]]
           given == IF len < size[t] THEN len ELSE size[t]
<1>1. off \in Offsets /\ given \in Nat /\ moved[t] \in Nat /\ index[t] \in Slots
      /\ buffer[index[t]] \in [Offsets -> Nat]
  BY DEF TypeOK
<1>2. moved' \in [Tasks -> Nat]
  <2>1. moved' = [moved EXCEPT ![t] = @ + IF t = "writer" THEN given ELSE len]
    BY DEF Memcpy
  <2>2. QED
    BY <1>1, <2>1 DEF TypeOK
<1>3. CASE t = "writer"
  <2> DEFINE new == [i \in Offsets |-> IF i < off \/ i >= off + len THEN buffer[index[t]][i]
                                       ELSE IF i < off + given THEN moved[t] + 1 + i - off
                                       ELSE 0]
  <2>1. new \in [Offsets -> Nat]
    <3>1. ASSUME NEW i \in Offsets PROVE new[i] \in Nat
      <4>1. i \in Int /\ off \in Int /\ size[t] \in Int /\ buffer[index[t]][i] \in Nat
        BY <1>1, BufferAssumption DEF Offsets, TypeOK
      <4>2. ~(i < off) => moved[t] + 1 + i - off \in Nat
        BY <1>1, <4>1
      <4>3. QED
        BY <4>1, <4>2
    <3>2. QED
      BY <3>1
  <2>2. buffer' = [buffer EXCEPT ![index[t]] = new] /\ inOrder' = inOrder
    BY <1>3 DEF Memcpy
  <2>3. inOrder' \in BOOLEAN
    BY <2>2, Zenon DEF TypeOK
  <2>4. QED
    BY <1>1, <1>2, <2>1, <2>2, <2>3 DEF TypeOK
<1>4. CASE t # "writer"
  <2>1. buffer' = buffer
    BY <1>4 DEF Memcpy
  <2>2. inOrder' = (inOrder /\ \A i \in 0 .. len - 1 :
                      buffer[index[t]][off + i] = moved[t] + 1 + i)
    BY <1>4, Zenon DEF Memcpy
  <2>3. inOrder' \in BOOLEAN
    BY <2>2, Zenon
  <2>4. QED
    BY <1>2, <2>1, <2>3 DEF TypeOK
<1>5. QED
  BY <1>3, <1>4

\* The actions of the two tasks are steps of the functions, and calls.
LEMMA NextSteps == Next => \E t \in Tasks : Step(t) \/ \E n \in Nat : Call(t, n)
BY BufferAssumption DEF Next, buffer_write_data, buffer_read_data, Tasks

\* Every step of either function, and every call, keeps the inductive
\* invariant.
LEMMA StepIInv ==
  ASSUME IInv, NEW t \in Tasks, Step(t) \/ \E n \in Nat : Call(t, n)
  PROVE  IInv'
<1> USE BufferAssumption, OwnFacts
<1>0. TypeOK /\ RingContiguous /\ Owns /\ Bounds
  BY DEF IInv
<1>1. CASE \E n \in Nat : Call(t, n)
  <2> PICK n \in Nat : Call(t, n)
    BY <1>1
  <2>1. TypeOK'
    BY <1>0 DEF Call, Goto, TypeOK, PCs, shared, result, history
  <2>2. Owns' /\ Bounds'
    BY <1>0 DEF Call, Goto, TypeOK, Owns, Bounds, InSection, shared, history
  <2>3. QED
    BY <1>0, <2>1, <2>2 DEF Call, RingContiguous, Between, IInv, shared
<1>2. CASE Test(t)
  <2>1. TypeOK'
    BY <1>0, <1>2 DEF Test, Ready, Fits, Goto, TypeOK, PCs, shared, result, history
  <2>2. Owns' /\ Bounds'
    BY <1>0, <1>2 DEF Test, Ready, Fits, Goto, TypeOK, Owns, Bounds, InSection, Offsets, shared, history
  <2>3. RingContiguous'
    BY <1>0, <1>2 DEF Test, RingContiguous, Between, shared
  <2>4. QED
    BY <2>1, <2>2, <2>3 DEF IInv
<1>3. CASE Copy(t)
  <2>1. TypeOK'
    <3>1. pc[t] = "copy" /\ size[t] \in Nat /\ size[t] > 0
      BY <1>0, <1>3 DEF Copy, Goto, TypeOK, Bounds
    <3>2. buffer' \in [Slots -> [Offsets -> Nat]] /\ moved' \in [Tasks -> Nat]
          /\ inOrder' \in BOOLEAN
      BY <1>0, <1>3, <3>1, MemcpyType DEF Copy
    <3>3. clobbered' \in BOOLEAN
      BY <1>0, <1>3, Zenon DEF Copy, TypeOK
    <3>4. QED
      BY <1>0, <1>3, <3>2, <3>3 DEF Copy, Goto, TypeOK, PCs, result
  <2>2. Owns'
    BY <1>0, <1>3 DEF Copy, Goto, TypeOK, Owns, InSection
  <2>3. Bounds'
    BY <1>0, <1>3 DEF Copy, Goto, TypeOK, Bounds
  <2>4. QED
    BY <1>0, <1>3, <2>1, <2>2, <2>3 DEF Copy, RingContiguous, Between, IInv
<1>4. CASE Load(t)
  <2>1. TypeOK'
    BY <1>0, <1>4 DEF Load, Goto, TypeOK, PCs, Offsets, shared, result, history
  <2>2. Owns'
    BY <1>0, <1>4 DEF Load, Goto, TypeOK, Owns, InSection, shared
  <2>3. Bounds'
    BY <1>0, <1>4 DEF Load, Goto, TypeOK, Bounds, Offsets, shared
  <2>4. QED
    BY <1>0, <1>4, <2>1, <2>2, <2>3 DEF Load, RingContiguous, Between, IInv, shared
<1>5. CASE Store(t)
  <2>1. pc[t] = "store" /\ reg[t] + size[t] \in Offsets /\ size[t] \in Nat
    BY <1>0, <1>5 DEF Store, Goto, TypeOK, Bounds, Offsets
  <2>2. TypeOK'
    BY <1>0, <1>5, <2>1 DEF Store, Goto, TypeOK, PCs, history
  <2>3. Owns'
    BY <1>0, <1>5 DEF Store, Goto, TypeOK, Owns, InSection
  <2>4. ASSUME NEW u \in Tasks, u # t, InSection(u) PROVE used'[index[u]] = used[index[u]]
    BY <1>0, <1>5, <2>1, <2>4 DEF Store, TypeOK, Owns, InSection
  <2>5. Bounds'
    BY <1>0, <1>5, <2>1, <2>4 DEF Store, Goto, TypeOK, Bounds, InSection
  <2>6. QED
    BY <1>0, <1>5, <2>2, <2>3, <2>5 DEF Store, RingContiguous, Between, IInv
<1>6. CASE Remain(t)
  <2>1. TypeOK'
    <3>1. LENGTH_OF_BUFFER - used[index[t]] \in Int
      BY <1>0 DEF TypeOK, Offsets
    <3>2. QED
      BY <1>0, <1>6, <3>1 DEF Remain, UpToEnd, Goto, TypeOK, PCs, shared, result, history
  <2>2. Owns'
    BY <1>0, <1>6 DEF Remain, UpToEnd, Goto, TypeOK, Owns, InSection, shared
  <2>3. Bounds'
    BY <1>0, <1>6 DEF Remain, UpToEnd, Goto, TypeOK, Bounds, Offsets, shared
  <2>4. QED
    BY <1>0, <1>6, <2>1, <2>2, <2>3 DEF Remain, RingContiguous, Between, IInv, shared
<1>7. CASE Fill(t)
  <2>1. TypeOK'
    <3>1. pc[t] = "fill" /\ reg[t] \in Nat /\ size[t] > 0
      BY <1>0, <1>7 DEF Fill, Goto, TypeOK, Bounds
    <3>2. buffer' \in [Slots -> [Offsets -> Nat]] /\ moved' \in [Tasks -> Nat]
          /\ inOrder' \in BOOLEAN
      BY <1>0, <1>7, <3>1, MemcpyType DEF Fill
    <3>3. clobbered' \in BOOLEAN
      BY <1>0, <1>7, Zenon DEF Fill, TypeOK
    <3>4. QED
      BY <1>0, <1>7, <3>2, <3>3 DEF Fill, Goto, TypeOK, PCs, result
  <2>2. Owns'
    BY <1>0, <1>7 DEF Fill, Goto, TypeOK, Owns, InSection
  <2>3. Bounds'
    BY <1>0, <1>7 DEF Fill, Goto, TypeOK, Bounds
  <2>4. QED
    BY <1>0, <1>7, <2>1, <2>2, <2>3 DEF Fill, RingContiguous, Between, IInv
<1>8. CASE Hand(t)
  <2>1. /\ pc[t] = "hand" /\ reg[t] \in Nat /\ state[index[t]] = Own(t)
        /\ index[t] \in Slots /\ Advance(index[t]) \in Slots
        /\ Advance(index[t]) = IF index[t] = NUMBER_OF_BUFFER - 1 THEN 0 ELSE index[t] + 1
    BY <1>0, <1>8, AdvanceFacts DEF Hand, HandsBlock, Goto, TypeOK, Bounds, Owns, InSection
  <2>2. TypeOK'
    <3>1. 0 \in Offsets /\ data_read + reg[t] \in Nat
      BY <1>0, <2>1 DEF Offsets, TypeOK
    <3>2. used' \in [Slots -> Offsets] /\ state' \in [Slots -> {"B_PREPARED", "B_UNPREPARED"}]
      BY <1>0, <1>8, <2>1, <3>1 DEF Hand, HandsBlock, TypeOK
    <3>3. index' \in [Tasks -> Slots] /\ size' \in [Tasks -> Int] /\ data_read' \in Nat
      BY <1>0, <1>8, <2>1, <3>1 DEF Hand, HandsBlock, TypeOK
    <3>4. QED
      BY <1>0, <1>8, <3>2, <3>3 DEF Hand, HandsBlock, Goto, TypeOK, PCs, history
  <2>3. ASSUME NEW u \in Tasks, u # t, InSection(u) PROVE index[u] # index[t]
    BY <1>0, <2>1, <2>3 DEF Owns
  <2>4. Owns'
    BY <1>0, <1>8, <2>1, <2>3 DEF Hand, HandsBlock, Goto, TypeOK, Owns, InSection
  <2>5. Bounds'
    BY <1>0, <1>8, <2>1, <2>3 DEF Hand, HandsBlock, Goto, TypeOK, Bounds, InSection
  <2>6. RingContiguous'
    <3> DEFINE r == index["reader"]
               w == index["writer"]
    <3>1. r \in Slots /\ w \in Slots /\ \A b \in Slots : b \in Int /\ 0 <= b /\ b < NUMBER_OF_BUFFER
      BY <1>0 DEF TypeOK, Tasks, Slots
    <3>2. CASE t = "writer"
      <4>1. index'["reader"] = r /\ index'["writer"] = Advance(w)
        BY <1>0, <1>8, <3>2 DEF Hand, HandsBlock, TypeOK, Tasks
      <4>2. \A b \in Slots : state'[b] = IF b = w THEN "B_PREPARED" ELSE state[b]
        BY <1>0, <1>8, <3>2 DEF Hand, HandsBlock, TypeOK, Own, Other
      <4>3. state[w] = "B_UNPREPARED"
        BY <2>1, <3>2 DEF Own
      <4>4. CASE r = w
        <5>1. \A b \in Slots : state'[b] = "B_PREPARED" <=> b = w
          BY <1>0, <3>1, <4>2, <4>3, <4>4 DEF RingContiguous
        <5>2. QED
          BY <2>1, <3>1, <3>2, <4>1, <4>4, <5>1 DEF RingContiguous, Between
      <4>5. CASE r # w
        <5>1. \A b \in Slots : state'[b] = "B_PREPARED" <=> Between(b) \/ b = w
          BY <1>0, <4>2, <4>5 DEF RingContiguous
        <5>2. CASE Advance(w) = r
          <6>1. \A b \in Slots : Between(b) \/ b = w
            BY <2>1, <3>1, <3>2, <4>5, <5>2 DEF Between
          <6>2. QED
            BY <4>1, <5>1, <5>2, <6>1 DEF RingContiguous
        <5>3. CASE Advance(w) # r
          <6>1. \A b \in Slots : Between(b)' <=> Between(b) \/ b = w
            BY <2>1, <3>1, <3>2, <4>1, <4>5, <5>3 DEF Between
          <6>2. QED
            BY <4>1, <5>1, <5>3, <6>1 DEF RingContiguous
        <5>4. QED
          BY <5>2, <5>3
      <4>6. QED
        BY <4>4, <4>5
    <3>3. CASE t = "reader"
      <4>1. index'["writer"] = w /\ index'["reader"] = Advance(r)
        BY <1>0, <1>8, <3>3 DEF Hand, HandsBlock, TypeOK, Tasks
      <4>2. \A b \in Slots : state'[b] = IF b = r THEN "B_UNPREPARED" ELSE state[b]
        BY <1>0, <1>8, <3>3 DEF Hand, HandsBlock, TypeOK, Own, Other
      <4>3. state[r] = "B_PREPARED"
        BY <2>1, <3>3 DEF Own
      <4>4. CASE r = w
        <5>1. \A b \in Slots : state'[b] = "B_PREPARED" <=> b # r
          BY <1>0, <3>1, <4>2, <4>3, <4>4 DEF RingContiguous
        <5>2. CASE Advance(r) = r
          <6>1. \A b \in Slots : b = r
            BY <2>1, <3>1, <3>3, <5>2
          <6>2. QED
            BY <4>1, <4>4, <5>2, <6>1 DEF RingContiguous
        <5>3. CASE Advance(r) # r
          <6>1. \A b \in Slots : Between(b)' <=> b # r
            BY <2>1, <3>1, <3>3, <4>1, <4>4, <5>3 DEF Between
          <6>2. QED
            BY <4>1, <4>4, <5>1, <5>3, <6>1 DEF RingContiguous
        <5>4. QED
          BY <5>2, <5>3
      <4>5. CASE r # w
        <5>1. \A b \in Slots : state'[b] = "B_PREPARED" <=> Between(b) /\ b # r
          BY <1>0, <4>2, <4>5 DEF RingContiguous
        <5>2. CASE Advance(r) = w
          <6>1. \A b \in Slots : ~(Between(b) /\ b # r)
            BY <2>1, <3>1, <3>3, <4>5, <5>2 DEF Between
          <6>2. QED
            BY <2>2, <4>1, <5>1, <5>2, <6>1 DEF RingContiguous, TypeOK
        <5>3. CASE Advance(r) # w
          <6>1. \A b \in Slots : Between(b)' <=> Between(b) /\ b # r
            BY <2>1, <3>1, <3>3, <4>1, <4>5, <5>3 DEF Between
          <6>2. QED
            BY <4>1, <5>1, <5>3, <6>1 DEF RingContiguous
        <5>4. QED
          BY <5>2, <5>3
      <4>6. QED
        BY <4>4, <4>5
    <3>4. QED
      BY <3>2, <3>3 DEF Tasks
  <2>7. QED
    BY <2>2, <2>4, <2>5, <2>6 DEF IInv
<1>9. CASE Enter(t)
  <2>1. TypeOK'
    <3>1. clobbered' \in BOOLEAN
      BY <1>9, Zenon DEF Enter
    <3>2. inOrder' \in BOOLEAN
      BY <1>0, <1>9, Zenon DEF Enter, TypeOK
    <3>3. used' \in [Slots -> Offsets]
      BY <1>0, <1>9 DEF Enter, TypeOK, Offsets
    <3>4. QED
      BY <1>0, <1>9, <3>1, <3>2, <3>3 DEF Enter, Goto, TypeOK, PCs, result
  <2>2. Owns'
    BY <1>0, <1>9 DEF Enter, Goto, TypeOK, Owns, InSection
  <2>3. Bounds'
    BY <1>0, <1>9 DEF Enter, Goto, TypeOK, Bounds, Offsets
  <2>4. QED
    BY <1>0, <1>9, <2>1, <2>2, <2>3 DEF Enter, RingContiguous, Between, IInv
<1>10. CASE CountLoad(t)
  <2>1. TypeOK'
    BY <1>0, <1>10 DEF CountLoad, Goto, TypeOK, PCs, shared, result, history
  <2>2. Owns' /\ Bounds'
    BY <1>0, <1>10 DEF CountLoad, Goto, TypeOK, Owns, Bounds, InSection, Offsets, shared, history
  <2>3. RingContiguous'
    BY <1>0, <1>10 DEF CountLoad, RingContiguous, Between, shared
  <2>4. QED
    BY <2>1, <2>2, <2>3 DEF IInv
<1>11. CASE CountStore(t)
  <2>1. TypeOK'
    BY <1>0, <1>11 DEF CountStore, Counts, Goto, TypeOK, PCs, shared, result, history
  <2>2. Owns' /\ Bounds'
    BY <1>0, <1>11 DEF CountStore, Counts, Goto, TypeOK, Owns, Bounds, InSection, Offsets, shared, history
  <2>3. RingContiguous'
    BY <1>0, <1>11 DEF CountStore, RingContiguous, Between, shared
  <2>4. QED
    BY <2>1, <2>2, <2>3 DEF IInv
<1>12. QED
  BY <1>1, <1>2, <1>3, <1>4, <1>5, <1>6, <1>7, <1>8, <1>9, <1>10, <1>11 DEF Step

-----------------------------------------------------------------------------
\* IInv is an invariant of the two functions.
THEOREM Invariance == Spec => []IInv
<1>1. IInv /\ UNCHANGED vars => IInv'
  BY DEF vars, shared, result, history, IInv, TypeOK, RingContiguous, Between,
         Owns, Bounds, InSection
<1>2. IInv /\ [Next]_vars => IInv'
  BY <1>1, StepIInv, NextSteps
<1>3. QED
  BY InitIInv, <1>2, PTL DEF Spec

\* For every number and length of blocks, each variable keeps its type; in
\* particular no interleaving takes a `used' to the end of its block.
THEOREM TypeCorrect == Spec => []TypeOK
<1>1. IInv => TypeOK
  BY DEF IInv
<1>2. QED
  BY <1>1, Invariance, PTL

\* For every number of blocks the flags describe the segment between the two
\* private indices.
THEOREM RingStaysContiguous == Spec => []RingContiguous
<1>1. IInv => RingContiguous
  BY DEF IInv
<1>2. QED
  BY <1>1, Invariance, PTL

\* The two tasks never work in the same block: the flags, without a lock,
\* give mutual exclusion per block.
THEOREM BlocksAreExclusive == Spec => []NoSharedBlock
<1>1. IInv => NoSharedBlock
  BY OwnFacts DEF IInv, Owns, NoSharedBlock, Tasks, Own
<1>2. QED
  BY <1>1, Invariance, PTL

\* The busy-waits of the two functions never wait for each other.
THEOREM TasksNeverDeadlock == Spec => []NoMutualSpin
<1>1. IInv => NoMutualSpin
  <2> SUFFICES ASSUME IInv, \A t \in Tasks : pc[t] = "test" /\ state[index[t]] # Own(t)
               PROVE  FALSE
    BY DEF NoMutualSpin
  <2> DEFINE r == index["reader"]
             w == index["writer"]
  <2>1. r \in Slots /\ w \in Slots /\ r \in Int /\ w \in Int
    BY BufferAssumption DEF IInv, TypeOK, Tasks, Slots
  <2>2. state[w] = "B_PREPARED" /\ state[r] = "B_UNPREPARED"
    BY <2>1 DEF IInv, TypeOK, Tasks, Own
  <2>3. QED
    BY <2>1, <2>2 DEF IInv, RingContiguous, Between
<1>2. QED
  BY <1>1, Invariance, PTL

\* No memcpy of the two functions leaves its block, whatever the other task
\* does to `used' between the test, the length and the offset.
THEOREM CopiesAreBounded == Spec => []CopiesStayInBlock
<1>1. IInv => CopiesStayInBlock
  BY BufferAssumption DEF IInv, TypeOK, Bounds, CopiesStayInBlock, Offsets
<1>2. QED
  BY <1>1, Invariance, PTL

-----------------------------------------------------------------------------
(***************************************************************************)
(* The refinement of BlockRing.  Only Hand changes a flag or an index: by  *)
(* RingContiguous and Owns it appends the writer's block to the queue of   *)
(* full blocks, or takes the reader's block from its front.                *)
(***************************************************************************)

\* Going round the ring at most once.
LEMMA Around ==
  ASSUME NEW x \in Nat, x < 2 * NUMBER_OF_BUFFER
  PROVE  x % NUMBER_OF_BUFFER = IF x < NUMBER_OF_BUFFER THEN x ELSE x - NUMBER_OF_BUFFER
BY BufferAssumption

\* A function on 1 .. n is a sequence of length n.
LEMMA FunctionIsSeq ==
  ASSUME NEW S, NEW n \in Nat, NEW f \in [1 .. n -> S]
  PROVE  f \in Seq(S) /\ Len(f) = n
<1>1. f \in Seq(S)
  BY SeqDef
<1>2. QED
  BY <1>1, LenProperties

\* What is known of the queue: its length, its elements, and that it is empty
\* only when the two indices are equal.
QueueShape ==
  /\ FullBlocks \in 0 .. NUMBER_OF_BUFFER
  /\ InRingOrder \in Seq(Slots) /\ Len(InRingOrder) = FullBlocks
  /\ \A k \in 1 .. FullBlocks :
       InRingOrder[k] = IF index["reader"] + k - 1 < NUMBER_OF_BUFFER
                        THEN index["reader"] + k - 1
                        ELSE index["reader"] + k - 1 - NUMBER_OF_BUFFER
  /\ state[index["reader"]] # "B_PREPARED" => index["reader"] = index["writer"]

\* The queue that InRingOrder makes of flags and indices has this shape
\* whenever they agree (data_buffer.c:31-51, 60-80).
LEMMA QueueFacts == IInv => QueueShape
<1> SUFFICES ASSUME IInv PROVE QueueShape
  OBVIOUS
<1> USE BufferAssumption
<1> DEFINE r == index["reader"]
           w == index["writer"]
<1>1. r \in Slots /\ w \in Slots /\ r \in Nat /\ w \in Nat
      /\ r < NUMBER_OF_BUFFER /\ w < NUMBER_OF_BUFFER
  <2>1. r \in Slots /\ w \in Slots
    BY DEF IInv, TypeOK, Tasks
  <2>2. QED
    BY <2>1 DEF Slots
<1>2. FullBlocks \in 0 .. NUMBER_OF_BUFFER
  BY <1>1 DEF FullBlocks
<1>3. ASSUME NEW k \in 1 .. FullBlocks
      PROVE  /\ InRingOrder[k] = IF r + k - 1 < NUMBER_OF_BUFFER
                                 THEN r + k - 1 ELSE r + k - 1 - NUMBER_OF_BUFFER
             /\ InRingOrder[k] \in Slots
  <2>1. r + k - 1 \in Nat /\ r + k - 1 < 2 * NUMBER_OF_BUFFER
    BY <1>1, <1>2
  <2>2. InRingOrder[k] = (r + k - 1) % NUMBER_OF_BUFFER
    BY DEF InRingOrder
  <2>3. QED
    BY <1>1, <1>2, <2>1, <2>2, Around DEF Slots
<1>4. InRingOrder \in [1 .. FullBlocks -> Slots]
  BY <1>3 DEF InRingOrder
<1>5. state[r] # "B_PREPARED" => r = w
  BY <1>1 DEF IInv, RingContiguous, Between
<1>6. QED
  BY <1>2, <1>3, <1>4, <1>5, FunctionIsSeq DEF QueueShape

\* The writer hands its block over: one more is full, and the block was the
\* first after the full ones (data_buffer.c:46-51).
LEMMA WriterHands ==
  ASSUME IInv, QueueShape, Hand("writer")
  PROVE  LET r == index["reader"]
             w == index["writer"]
         IN  /\ state[w] = "B_UNPREPARED" /\ state' = [state EXCEPT ![w] = "B_PREPARED"]
             /\ index'["reader"] = r /\ index'["writer"] = Advance(w)
             /\ FullBlocks < NUMBER_OF_BUFFER /\ FullBlocks' = FullBlocks + 1
             /\ w = IF r + FullBlocks < NUMBER_OF_BUFFER THEN r + FullBlocks
                    ELSE r + FullBlocks - NUMBER_OF_BUFFER
<1> USE BufferAssumption
<1> DEFINE r == index["reader"]
           w == index["writer"]
           N == NUMBER_OF_BUFFER
<1>1. r \in Nat /\ w \in Nat /\ r < N /\ w < N /\ r \in Slots /\ w \in Slots
  <2>1. r \in Slots /\ w \in Slots
    BY DEF IInv, TypeOK, Tasks
  <2>2. QED
    BY <2>1 DEF Slots
<1>2. state \in [Slots -> {"B_PREPARED", "B_UNPREPARED"}] /\ index \in [Tasks -> Slots]
  BY DEF IInv, TypeOK
<1>3. /\ state[w] = "B_UNPREPARED" /\ state' = [state EXCEPT ![w] = "B_PREPARED"]
      /\ index'["reader"] = r /\ index'["writer"] = Advance(w)
  BY <1>2 DEF IInv, Owns, Hand, Goto, HandsBlock, InSection, Own, Other, Tasks
<1>4. Advance(w) = IF w = N - 1 THEN 0 ELSE w + 1
  BY <1>1, AdvanceFacts
<1>5. /\ FullBlocks = IF state[r] # "B_PREPARED" THEN 0
                      ELSE IF r < w THEN w - r ELSE w - r + N
      /\ FullBlocks' = IF state'[r] # "B_PREPARED" THEN 0
                       ELSE IF r < Advance(w) THEN Advance(w) - r ELSE Advance(w) - r + N
  BY <1>3 DEF FullBlocks
<1>6. /\ FullBlocks < N /\ FullBlocks' = FullBlocks + 1
      /\ w = IF r + FullBlocks < N THEN r + FullBlocks ELSE r + FullBlocks - N
  <2>1. CASE r = w
    <3>1. state[r] # "B_PREPARED" /\ state'[r] = "B_PREPARED"
      BY <1>1, <1>2, <1>3, <2>1
    <3>2. QED
      BY <1>1, <1>4, <1>5, <2>1, <3>1
  <2>2. CASE r # w
    <3>1. state[r] = "B_PREPARED" /\ state'[r] = "B_PREPARED"
      BY <1>1, <1>2, <1>3, <2>2 DEF QueueShape
    <3>2. QED
      BY <1>1, <1>4, <1>5, <2>2, <3>1
  <2>3. QED
    BY <2>1, <2>2
<1>7. QED
  BY <1>3, <1>6

\* The reader hands its block back: one less is full (data_buffer.c:75-80).
LEMMA ReaderHands ==
  ASSUME IInv, QueueShape', Hand("reader")
  PROVE  LET r == index["reader"]
             w == index["writer"]
         IN  /\ state[r] = "B_PREPARED" /\ state' = [state EXCEPT ![r] = "B_UNPREPARED"]
             /\ index'["reader"] = Advance(r) /\ index'["writer"] = w
             /\ FullBlocks > 0 /\ FullBlocks' = FullBlocks - 1
<1> USE BufferAssumption
<1> DEFINE r == index["reader"]
           w == index["writer"]
           N == NUMBER_OF_BUFFER
<1>1. r \in Nat /\ w \in Nat /\ r < N /\ w < N /\ r \in Slots /\ w \in Slots
  <2>1. r \in Slots /\ w \in Slots
    BY DEF IInv, TypeOK, Tasks
  <2>2. QED
    BY <2>1 DEF Slots
<1>2. state \in [Slots -> {"B_PREPARED", "B_UNPREPARED"}] /\ index \in [Tasks -> Slots]
  BY DEF IInv, TypeOK
<1>3. /\ state[r] = "B_PREPARED" /\ state' = [state EXCEPT ![r] = "B_UNPREPARED"]
      /\ index'["reader"] = Advance(r) /\ index'["writer"] = w
  BY <1>2 DEF IInv, Owns, Hand, Goto, HandsBlock, InSection, Own, Other, Tasks
<1>4. Advance(r) = IF r = N - 1 THEN 0 ELSE r + 1
  BY <1>1, AdvanceFacts
<1>5. /\ FullBlocks = IF r < w THEN w - r ELSE w - r + N
      /\ FullBlocks' = IF state'[Advance(r)] # "B_PREPARED" THEN 0
                       ELSE IF Advance(r) < w THEN w - Advance(r)
                       ELSE w - Advance(r) + N
  BY <1>3 DEF FullBlocks
<1>6. FullBlocks > 0 /\ FullBlocks' = FullBlocks - 1
  <2>1. CASE Advance(r) = w
    <3>1. state'[w] # "B_PREPARED"
      <4>1. CASE r = w
        BY <1>1, <1>2, <1>3, <4>1
      <4>2. CASE r # w
        BY <1>1, <1>2, <1>3, <4>2 DEF IInv, RingContiguous, Between
      <4>3. QED
        BY <4>1, <4>2
    <3>2. FullBlocks' = 0
      BY <1>5, <2>1, <3>1
    <3>3. FullBlocks = 1
      BY <1>1, <1>4, <1>5, <2>1
    <3>4. QED
      BY <3>2, <3>3
  <2>2. CASE Advance(r) # w
    <3>1. state'[Advance(r)] = "B_PREPARED"
      <4>1. Advance(r) \in Slots /\ state' \in [Slots -> {"B_PREPARED", "B_UNPREPARED"}]
        BY <1>1, <1>2, <1>3, AdvanceFacts
      <4>2. state'[index'["reader"]] # "B_PREPARED" => index'["reader"] = index'["writer"]
        BY DEF QueueShape
      <4>3. QED
        BY <1>3, <2>2, <4>1, <4>2
    <3>2. QED
      BY <1>1, <1>4, <1>5, <2>2, <3>1
  <2>3. QED
    BY <2>1, <2>2
<1>7. QED
  BY <1>3, <1>6

\* A step of either task is a step of the queue, or leaves it alone.
LEMMA StepRefines ==
  ASSUME IInv, QueueShape, QueueShape', NEW t \in Tasks,
         Step(t) \/ \E n \in Nat : Call(t, n)
  PROVE  Ring!Put \/ Ring!Take \/ UNCHANGED InRingOrder
<1> USE BufferAssumption
<1> DEFINE r == index["reader"]
           w == index["writer"]
           N == NUMBER_OF_BUFFER
<1>1. CASE ~Hand(t)
  <2>1. state' = state /\ index' = index
    BY <1>1 DEF Step, Call, Test, Copy, Load, Store, Remain, Fill, Enter, CountLoad,
                CountStore, shared
  <2>2. QED
    BY <2>1 DEF InRingOrder, FullBlocks
<1>2. r \in Nat /\ w \in Nat /\ r < N /\ w < N /\ r \in Slots /\ w \in Slots
  <2>1. r \in Slots /\ w \in Slots
    BY DEF IInv, TypeOK, Tasks
  <2>2. QED
    BY <2>1 DEF Slots
<1>3. /\ InRingOrder \in Seq(Slots) /\ InRingOrder' \in Seq(Slots)
      /\ Len(InRingOrder) = FullBlocks /\ Len(InRingOrder') = FullBlocks'
      /\ FullBlocks \in Nat /\ FullBlocks <= N
  BY DEF QueueShape
<1>4. /\ \A k \in 1 .. FullBlocks :
           InRingOrder[k] = IF r + k - 1 < N THEN r + k - 1 ELSE r + k - 1 - N
      /\ \A k \in 1 .. FullBlocks' :
           InRingOrder'[k] = IF index'["reader"] + k - 1 < N
                             THEN index'["reader"] + k - 1
                             ELSE index'["reader"] + k - 1 - N
  BY DEF QueueShape
<1>5. CASE Hand(t) /\ t = "writer"
  <2>1. /\ index'["reader"] = r
        /\ FullBlocks' = FullBlocks + 1 /\ FullBlocks < N
        /\ w = IF r + FullBlocks < N THEN r + FullBlocks ELSE r + FullBlocks - N
    BY <1>5, WriterHands
  <2>2. \A k \in 1 .. FullBlocks + 1 :
          InRingOrder'[k] = IF r + k - 1 < N THEN r + k - 1 ELSE r + k - 1 - N
    <3>1. \A k \in 1 .. FullBlocks + 1 : k \in 1 .. FullBlocks'
      BY <2>1
    <3>2. QED
      BY <1>4, <2>1, <3>1
  <2>3. \A k \in 1 .. FullBlocks : InRingOrder'[k] = InRingOrder[k]
    <3>1. \A k \in 1 .. FullBlocks : k \in 1 .. FullBlocks + 1
      BY <1>3
    <3>2. QED
      BY <1>4, <2>2, <3>1
  <2>4. \A k \in 1 .. FullBlocks : InRingOrder[k] # w
    <3> SUFFICES ASSUME NEW k \in 1 .. FullBlocks PROVE InRingOrder[k] # w
      OBVIOUS
    <3>1. k \in Nat /\ 1 <= k /\ k <= FullBlocks
      BY <1>3
    <3>2. InRingOrder[k] = IF r + k - 1 < N THEN r + k - 1 ELSE r + k - 1 - N
      BY <1>4
    <3>3. QED
      BY <1>2, <1>3, <2>1, <3>1, <3>2
  <2>5. InRingOrder'[FullBlocks + 1] = w
    BY <1>2, <1>3, <2>1, <2>2
  <2>6. InRingOrder' = Append(InRingOrder, w)
    <3> DEFINE longer == Append(InRingOrder, w)
    <3>1. /\ longer \in Seq(Slots) /\ Len(longer) = FullBlocks + 1
          /\ \A k \in 1 .. FullBlocks : longer[k] = InRingOrder[k]
          /\ longer[FullBlocks + 1] = w
      BY <1>2, <1>3, AppendProperties
    <3> HIDE DEF longer
    <3>2. \A k \in 1 .. FullBlocks + 1 : longer[k] = InRingOrder'[k]
      <4>1. \A k \in 1 .. FullBlocks + 1 : k \in 1 .. FullBlocks \/ k = FullBlocks + 1
        BY <1>3
      <4>2. QED
        BY <2>3, <2>5, <3>1, <4>1
    <3>3. InRingOrder' = longer
      BY <1>3, <2>1, <3>1, <3>2, SeqEqual
    <3>4. QED
      BY <3>3 DEF longer
  <2>7. w \notin Ring!Range(InRingOrder)
    BY <1>3, <2>4, LenProperties DEF Ring!Range
  <2>8. QED
    BY <1>2, <2>6, <2>7 DEF Ring!Put
<1>6. CASE Hand(t) /\ t = "reader"
  <2>1. index'["reader"] = Advance(r) /\ FullBlocks' = FullBlocks - 1 /\ FullBlocks > 0
    BY <1>6, ReaderHands
  <2>2. Advance(r) = IF r = N - 1 THEN 0 ELSE r + 1
    BY <1>2, AdvanceFacts
  <2>3. \A k \in 1 .. FullBlocks - 1 : InRingOrder'[k] = InRingOrder[k + 1]
    <3> SUFFICES ASSUME NEW k \in 1 .. FullBlocks - 1
                 PROVE  InRingOrder'[k] = InRingOrder[k + 1]
      OBVIOUS
    <3>1. k \in 1 .. FullBlocks' /\ k + 1 \in 1 .. FullBlocks /\ k \in Nat /\ k < N
      BY <1>3, <2>1
    <3>2. /\ InRingOrder[k + 1] = IF r + k < N THEN r + k ELSE r + k - N
          /\ InRingOrder'[k] = IF Advance(r) + k - 1 < N THEN Advance(r) + k - 1
                                ELSE Advance(r) + k - 1 - N
      <4>1. r + (k + 1) - 1 = r + k
        BY <1>2, <3>1
      <4>2. QED
        BY <1>4, <2>1, <3>1, <4>1
    <3>3. QED
      BY <1>2, <2>2, <3>1, <3>2
  <2>4. InRingOrder # <<>>
    BY <1>3, <2>1, EmptySeq
  <2>5. InRingOrder' = Tail(InRingOrder)
    <3> DEFINE rest == Tail(InRingOrder)
    <3>1. /\ rest \in Seq(Slots) /\ Len(rest) = FullBlocks - 1
          /\ \A k \in 1 .. FullBlocks - 1 : rest[k] = InRingOrder[k + 1]
      BY <1>3, <2>4, HeadTailProperties
    <3> HIDE DEF rest
    <3>2. InRingOrder' = rest
      BY <1>3, <2>1, <2>3, <3>1, SeqEqual
    <3>3. QED
      BY <3>2 DEF rest
  <2>6. QED
    BY <2>4, <2>5 DEF Ring!Take
<1>7. QED
  BY <1>1, <1>5, <1>6 DEF Tasks

\* For every number and length of blocks the ring implements the queue of full
\* blocks: they change hands in the order in which they were filled, none is
\* skipped, and none is filled again before it has been handed back
\* (data_buffer.c:31-51, 60-80).
THEOREM RingIsImplemented == Spec => ImplementsRing
<1>1. Init => Ring!Init
  BY BufferAssumption DEF Init, Ring!Init, InRingOrder, FullBlocks, Slots, Tasks
<1>2. IInv /\ QueueShape /\ QueueShape' /\ [Next]_vars
        => [Ring!Put \/ Ring!Take]_InRingOrder
  <2> SUFFICES ASSUME IInv, QueueShape, QueueShape', [Next]_vars
               PROVE  Ring!Put \/ Ring!Take \/ UNCHANGED InRingOrder
    OBVIOUS
  <2>1. CASE UNCHANGED vars
    BY <2>1 DEF vars, shared, InRingOrder, FullBlocks
  <2>2. CASE Next
    BY <2>2, StepRefines, NextSteps
  <2>3. QED
    BY <2>1, <2>2
<1>3. QED
  BY <1>1, <1>2, Invariance, QueueFacts, PTL DEF Spec, ImplementsRing, Ring!Spec

=============================================================================
