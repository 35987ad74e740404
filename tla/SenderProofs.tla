---------------------------- MODULE SenderProofs ----------------------------
(***************************************************************************)
(* Proofs about the PC sender, for every number of frames and of pieces    *)
(* that a frame is copied in.                                              *)
(*                                                                         *)
(* data_state is raised only at the end of a callback, so a callback that  *)
(* runs while it is raised began while it was raised, and was announced    *)
(* (Announces).  The thread sends only while it is raised (Sending).  From *)
(* the time it begins to send, every frame that gets into the buffer is    *)
(* therefore an announced one, and at most one value that it meets is not  *)
(* (OneUnannounced).  A frame that was not announced is in the buffer      *)
(* alone until it has been sent (NotLost).                                 *)
(***************************************************************************)
EXTENDS Sender, SequenceTheorems, TLAPS

Types ==
  /\ frame \in Nat /\ cb \in -1 .. Pieces /\ data_state \in {0, 1}
  /\ audio_data \in [1 .. Pieces -> Int]
  /\ outgoing \in Seq(Int) /\ Len(outgoing) <= Pieces
  /\ wire \in Seq(Seq(Int))
  /\ thread \in {"none", "start", "poll", "send", "lower"}
  /\ main \in {"connect", "open", "stream"} => thread = "none"

\* audio_data holds the last frame, up to where the callback is.
Held == \A p \in 1 .. Pieces : audio_data[p] = IF cb = -1 \/ p <= cb THEN frame ELSE frame - 1

Announces == cb >= 0 /\ data_state = 1 => frame \in announced

Sending ==
  /\ thread \in {"send", "lower"} => data_state = 1
  /\ thread # "send" => outgoing = <<>>

\* What the current send has read or may still read.
Seen == {outgoing[p] : p \in 1 .. Len(outgoing)} \cup {audio_data[p] : p \in 1 .. Pieces}

OneUnannounced ==
  thread = "send" => \A x, y \in Seen : x \in announced \/ y \in announced \/ x = y

NotLost ==
  cb = -1 /\ frame \notin announced =>
    /\ thread = "send" => \A p \in 1 .. Len(outgoing) : outgoing[p] = frame
    /\ thread = "lower" \/ (data_state = 0 /\ frame > 0) => Sent(frame) \/ frame \in failed

SInv == Types /\ Held /\ Announces /\ Sending /\ OneUnannounced /\ NotLost

-----------------------------------------------------------------------------
\* main starts with nothing recorded and nothing sent.
LEMMA InitSInv == Init => SInv /\ TornIsAnnounced /\ LostIsAnnounced
<1> SUFFICES ASSUME Init PROVE SInv /\ TornIsAnnounced /\ LostIsAnnounced
  OBVIOUS
<1> USE SenderAssumption
<1>1. <<>> \in Seq(Int) /\ <<>> \in Seq(Seq(Int)) /\ Len(<<>>) = 0
  OBVIOUS
<1>2. Types
  BY <1>1 DEF Init, Types
<1>3. Held /\ Announces /\ Sending /\ OneUnannounced /\ NotLost
  BY DEF Init, Held, Announces, Sending, OneUnannounced, NotLost
<1>4. TornIsAnnounced /\ LostIsAnnounced
  BY <1>1 DEF Init, TornIsAnnounced, LostIsAnnounced
<1>5. QED
  BY <1>2, <1>3, <1>4 DEF SInv

\* What neither records nor sends: main, the start of the thread, a broken
\* connection.
Aside ==
  /\ UNCHANGED <<audio_data, data_state, frame, cb, announced, outgoing, wire, failed>>
  /\ \/ thread' = thread
     \/ thread \in {"none", "start"} /\ thread' \in {"start", "poll"}
  /\ main' \in {"connect", "open", "stream"} => thread' = "none"

\* The steps of main and of a new thread are of that kind.
LEMMA AsideSteps ==
  ASSUME SInv, mainThread \/ ThreadStarts \/ ConnectionBreaks \/ UNCHANGED vars
  PROVE  Aside
<1> USE DEF SInv, Types, Aside, stream, sending
<1>1. CASE connectSocket \/ StartStream \/ ThreadIsUp \/ StreamEnds
  BY <1>1 DEF connectSocket, StartStream, ThreadIsUp, StreamEnds
<1>2. CASE startThread
  BY <1>2 DEF startThread
<1>3. CASE ThreadStarts
  BY <1>3 DEF ThreadStarts
<1>4. CASE ConnectionBreaks
  BY <1>4 DEF ConnectionBreaks
<1>5. CASE UNCHANGED vars
  BY <1>5 DEF vars
<1>6. QED
  BY <1>1, <1>2, <1>3, <1>4, <1>5 DEF mainThread

\* They keep everything.
LEMMA AsideKeeps ==
  ASSUME SInv, Aside
  PROVE  /\ SInv'
         /\ TornIsAnnounced => TornIsAnnounced'
         /\ LostIsAnnounced => LostIsAnnounced'
<1>1. UNCHANGED <<audio_data, data_state, frame, cb, announced, outgoing, wire, failed>>
  BY DEF Aside
<1>2. thread' = thread \/ (thread \notin {"send", "lower"} /\ thread' \in {"start", "poll"})
  BY DEF Aside
<1>3. Types'
  BY <1>1, <1>2 DEF SInv, Types, Aside
<1>4. Held' /\ Announces' /\ Sending'
  BY <1>1, <1>2 DEF SInv, Held, Announces, Sending
<1>5. OneUnannounced' /\ NotLost'
  BY <1>1, <1>2 DEF SInv, OneUnannounced, Seen, NotLost, Sent
<1>6. QED
  BY <1>1, <1>3, <1>4, <1>5 DEF SInv, TornIsAnnounced, LostIsAnnounced, Sent

\* The three parts of recordCallback.
LEMMA CallbackKeeps ==
  ASSUME SInv, recordCallback
  PROVE  /\ SInv'
         /\ TornIsAnnounced => TornIsAnnounced'
         /\ LostIsAnnounced => LostIsAnnounced'
<1> USE SenderAssumption
<1>0. /\ frame \in Nat /\ cb \in -1 .. Pieces /\ data_state \in {0, 1} /\ Pieces \in Nat
      /\ audio_data \in [1 .. Pieces -> Int]
  BY DEF SInv, Types
<1>1. UNCHANGED <<main, thread, outgoing, wire, failed>> /\ announced \subseteq announced'
  BY DEF recordCallback, Callback, CallbackCopy, CallbackDone, sending
<1>2. TornIsAnnounced => TornIsAnnounced'
  BY <1>1 DEF TornIsAnnounced
<1>3. \A k : Sent(k)' <=> Sent(k)
  BY <1>1 DEF Sent
<1>4. CASE Callback
  <2>1. /\ cb = -1 /\ cb' = 0 /\ frame' = frame + 1 /\ audio_data' = audio_data
        /\ data_state' = data_state /\ (data_state = 1 => frame' \in announced')
    BY <1>4 DEF Callback
  <2>2. Types'
    BY <1>0, <1>1, <2>1 DEF SInv, Types
  <2>3. Held'
    BY <1>0, <2>1 DEF SInv, Held
  <2>4. Announces' /\ Sending' /\ NotLost'
    BY <1>1, <2>1 DEF SInv, Announces, Sending, NotLost
  <2>5. OneUnannounced'
    <3>1. Seen' = Seen
      BY <1>1, <2>1 DEF Seen
    <3>2. QED
      BY <1>1, <3>1 DEF SInv, OneUnannounced
  <2>6. LostIsAnnounced => LostIsAnnounced'
    <3> SUFFICES ASSUME LostIsAnnounced, NEW k \in 1 .. frame
                 PROVE  Sent(k) \/ k \in announced' \/ k + 1 \in announced' \/ k \in failed
      BY <1>0, <1>1, <1>3, <2>1 DEF LostIsAnnounced
    <3>1. CASE k \in 1 .. frame - 1
      BY <1>1, <3>1 DEF LostIsAnnounced
    <3>2. CASE k = frame
      <4>1. CASE data_state = 1
        BY <2>1, <3>2, <4>1
      <4>2. CASE data_state = 0
        <5>1. frame > 0
          BY <1>0, <3>2
        <5>2. QED
          BY <1>1, <2>1, <3>2, <4>2, <5>1 DEF SInv, NotLost
      <4>3. QED
        BY <1>0, <4>1, <4>2
    <3>3. QED
      BY <1>0, <3>1, <3>2
  <2>7. QED
    BY <1>2, <2>2, <2>3, <2>4, <2>5, <2>6 DEF SInv
<1>5. CASE CallbackCopy
  <2>1. /\ cb \in 0 .. Pieces - 1 /\ cb' = cb + 1 /\ audio_data' = [audio_data EXCEPT ![cb + 1] = frame]
        /\ UNCHANGED <<frame, announced, data_state>>
    BY <1>5 DEF CallbackCopy
  <2>2. cb + 1 \in 1 .. Pieces /\ cb \in Nat /\ cb' \in -1 .. Pieces /\ cb' # -1
    BY <1>0, <2>1
  <2>3. Types'
    BY <1>0, <1>1, <2>1, <2>2 DEF SInv, Types
  <2>4. Held'
    BY <1>0, <2>1, <2>2 DEF SInv, Held
  <2>5. Announces' /\ Sending' /\ NotLost'
    BY <1>1, <2>1, <2>2 DEF SInv, Announces, Sending, NotLost
  <2>6. OneUnannounced'
    <3> SUFFICES ASSUME thread = "send", NEW x \in Seen', NEW y \in Seen'
                 PROVE  x \in announced \/ y \in announced \/ x = y
      BY <1>1, <2>1 DEF OneUnannounced
    <3>1. frame \in announced
      BY <2>1, <2>2 DEF SInv, Sending, Announces
    <3>2. Seen' \subseteq Seen \cup {frame}
      BY <1>0, <1>1, <2>1, <2>2 DEF Seen
    <3>3. QED
      BY <3>1, <3>2 DEF SInv, OneUnannounced
  <2>7. LostIsAnnounced => LostIsAnnounced'
    BY <1>1, <1>3, <2>1 DEF LostIsAnnounced
  <2>8. QED
    BY <1>2, <2>3, <2>4, <2>5, <2>6, <2>7 DEF SInv
<1>6. CASE CallbackDone
  <2>1. /\ cb = Pieces /\ cb' = -1 /\ data_state' = 1
        /\ UNCHANGED <<audio_data, frame, announced>>
    BY <1>6 DEF CallbackDone
  <2>2. Types'
    BY <1>0, <1>1, <2>1 DEF SInv, Types
  <2>3. Held'
    BY <1>0, <2>1 DEF SInv, Held
  <2>4. Announces' /\ Sending'
    BY <1>1, <2>1 DEF SInv, Announces, Sending
  <2>5. NotLost'
    <3>1. thread \in {"send", "lower"} => frame \in announced
      BY <1>0, <2>1 DEF SInv, Sending, Announces
    <3>2. QED
      BY <1>1, <2>1, <3>1 DEF NotLost
  <2>6. OneUnannounced'
    BY <1>1, <2>1 DEF SInv, OneUnannounced, Seen
  <2>7. LostIsAnnounced => LostIsAnnounced'
    BY <1>1, <1>3, <2>1 DEF LostIsAnnounced
  <2>8. QED
    BY <1>2, <2>2, <2>3, <2>4, <2>5, <2>6, <2>7 DEF SInv
<1>7. QED
  BY <1>4, <1>5, <1>6 DEF recordCallback

\* A frame that has been sent stays sent.
LEMMA WireGrows ==
  ASSUME wire \in Seq(Seq(Int)), NEW f \in Seq(Int), wire' = Append(wire, f)
  PROVE  /\ \A k : Sent(k) => Sent(k)'
         /\ \A k : (\E p \in 1 .. Pieces : f[p] = k) => Sent(k)'
         /\ Len(wire') = Len(wire) + 1 /\ wire'[Len(wire) + 1] = f
         /\ wire' \in Seq(Seq(Int)) /\ \A i \in 1 .. Len(wire) : wire'[i] = wire[i]
         /\ Len(wire) \in Nat
<1>1. /\ Len(wire') = Len(wire) + 1 /\ wire'[Len(wire) + 1] = f
      /\ wire' \in Seq(Seq(Int)) /\ \A i \in 1 .. Len(wire) : wire'[i] = wire[i]
  BY AppendProperties
<1>2. Len(wire) \in Nat
  OBVIOUS
<1>3. \A i \in 1 .. Len(wire) : i \in 1 .. Len(wire')
  BY <1>1, <1>2
<1>4. Len(wire) + 1 \in 1 .. Len(wire')
  BY <1>1, <1>2
<1>5. \A k : Sent(k) => Sent(k)'
  BY <1>1, <1>3 DEF Sent
<1>6. \A k : (\E p \in 1 .. Pieces : f[p] = k) => Sent(k)'
  BY <1>1, <1>4 DEF Sent
<1>7. QED
  BY <1>1, <1>2, <1>5, <1>6

\* The turn of the loop in threadFunctionSendData.
LEMMA ThreadKeeps ==
  ASSUME SInv, Poll \/ SendPiece \/ SendReturns \/ Lower
  PROVE  /\ SInv'
         /\ TornIsAnnounced => TornIsAnnounced'
         /\ LostIsAnnounced => LostIsAnnounced'
<1> USE SenderAssumption
<1>0. /\ frame \in Nat /\ cb \in -1 .. Pieces /\ data_state \in {0, 1} /\ Pieces \in Nat \ {0}
      /\ audio_data \in [1 .. Pieces -> Int] /\ outgoing \in Seq(Int) /\ Len(outgoing) \in Nat
      /\ Len(outgoing) <= Pieces /\ wire \in Seq(Seq(Int))
  BY DEF SInv, Types
<1>1. UNCHANGED <<main, audio_data, frame, cb, announced>>
  BY DEF Poll, SendPiece, SendReturns, Lower, stream
<1>2. CASE Poll
  <2>1. thread = "poll" /\ thread' = "send" /\ data_state = 1 /\ data_state' = data_state
        /\ UNCHANGED <<outgoing, wire, failed>>
    BY <1>2 DEF Poll, KeepsState, sending
  <2>2. outgoing = <<>> /\ Len(outgoing) = 0
    BY <2>1 DEF SInv, Sending
  <2>3. Types'
    BY <1>1, <2>1 DEF SInv, Types
  <2>4. Held' /\ Announces' /\ Sending'
    BY <1>1, <2>1 DEF SInv, Held, Announces, Sending
  <2>5. OneUnannounced'
    <3> SUFFICES ASSUME NEW x \in Seen, NEW y \in Seen
                 PROVE  x \in announced \/ y \in announced \/ x = y
      BY <1>1, <2>1 DEF OneUnannounced, Seen
    <3>1. PICK p \in 1 .. Pieces, q \in 1 .. Pieces : x = audio_data[p] /\ y = audio_data[q]
      BY <2>2 DEF Seen
    <3>2. CASE cb = -1
      BY <3>1, <3>2 DEF SInv, Held
    <3>3. CASE cb # -1
      <4>1. frame \in announced
        BY <1>0, <2>1, <3>3 DEF SInv, Announces
      <4>2. x \in {frame, frame - 1} /\ y \in {frame, frame - 1}
        BY <3>1 DEF SInv, Held
      <4>3. QED
        BY <4>1, <4>2
    <3>4. QED
      BY <3>2, <3>3
  <2>6. NotLost'
    BY <1>1, <2>1, <2>2 DEF NotLost
  <2>7. QED
    BY <1>1, <2>1, <2>3, <2>4, <2>5, <2>6 DEF SInv, TornIsAnnounced, LostIsAnnounced, Sent
<1>3. CASE SendPiece
  <2> DEFINE n == Len(outgoing)
  <2>1. /\ thread = "send" /\ n < Pieces /\ outgoing' = Append(outgoing, audio_data[n + 1])
        /\ UNCHANGED <<data_state, thread, wire, failed>>
    BY <1>3 DEF SendPiece
  <2>2. n + 1 \in 1 .. Pieces /\ audio_data[n + 1] \in Int
    BY <1>0, <2>1
  <2>3. /\ outgoing' \in Seq(Int) /\ Len(outgoing') = n + 1 /\ outgoing'[n + 1] = audio_data[n + 1]
        /\ \A p \in 1 .. n : outgoing'[p] = outgoing[p]
    BY <1>0, <2>1, <2>2, AppendProperties
  <2>4. \A p \in 1 .. Len(outgoing') : p = n + 1 \/ p \in 1 .. n
    BY <1>0, <2>3
  <2>5. Types'
    BY <1>0, <1>1, <2>1, <2>3 DEF SInv, Types
  <2>6. Held' /\ Announces' /\ Sending'
    BY <1>1, <2>1 DEF SInv, Held, Announces, Sending
  <2>7. OneUnannounced'
    <3>1. Seen' \subseteq Seen
      BY <1>1, <2>2, <2>3, <2>4 DEF Seen
    <3>2. QED
      BY <1>1, <2>1, <3>1 DEF SInv, OneUnannounced
  <2>8. NotLost'
    <3> SUFFICES ASSUME cb = -1, frame \notin announced
                 PROVE  /\ \A p \in 1 .. Len(outgoing') : outgoing'[p] = frame
                        /\ data_state = 0 /\ frame > 0 => Sent(frame) \/ frame \in failed
      BY <1>1, <2>1 DEF NotLost, Sent
    <3>1. audio_data[n + 1] = frame
      BY <2>2 DEF SInv, Held
    <3>2. \A p \in 1 .. n : outgoing[p] = frame
      BY <2>1 DEF SInv, NotLost
    <3>3. QED
      BY <2>1, <2>3, <2>4, <3>1, <3>2 DEF SInv, Sending
  <2>9. QED
    BY <1>1, <2>1, <2>5, <2>6, <2>7, <2>8 DEF SInv, TornIsAnnounced, LostIsAnnounced, Sent
<1>4. CASE SendReturns
  <2>1. /\ thread = "send" /\ Len(outgoing) = Pieces /\ thread' = "lower" /\ outgoing' = <<>>
        /\ data_state' = data_state
        /\ \/ wire' = Append(wire, outgoing) /\ failed' = failed
           \/ failed' = failed \cup {outgoing[p] : p \in 1 .. Pieces} /\ wire' = wire
    BY <1>4 DEF SendReturns
  <2>2. failed \subseteq failed' /\ \A k : Sent(k) => Sent(k)'
    BY <1>0, <2>1, WireGrows DEF Sent
  <2>3. \A k : (\E p \in 1 .. Pieces : outgoing[p] = k) => Sent(k)' \/ k \in failed'
    BY <1>0, <2>1, WireGrows
  <2>4. Types'
    <3>1. <<>> \in Seq(Int) /\ Len(<<>>) = 0
      OBVIOUS
    <3>2. wire' \in Seq(Seq(Int))
      BY <1>0, <2>1, WireGrows
    <3>3. QED
      BY <1>0, <1>1, <2>1, <3>1, <3>2 DEF SInv, Types
  <2>5. Held' /\ Announces' /\ Sending' /\ OneUnannounced'
    BY <1>1, <2>1 DEF SInv, Held, Announces, Sending, OneUnannounced
  <2>6. NotLost'
    <3> SUFFICES ASSUME cb = -1, frame \notin announced PROVE Sent(frame)' \/ frame \in failed'
      BY <1>1, <2>1 DEF NotLost
    <3>1. 1 \in 1 .. Pieces /\ 1 \in 1 .. Len(outgoing)
      BY <1>0, <2>1
    <3>2. outgoing[1] = frame
      BY <2>1, <3>1 DEF SInv, NotLost
    <3>3. QED
      BY <1>1, <2>3, <3>1, <3>2 DEF Sent
  <2>7. TornIsAnnounced => TornIsAnnounced'
    <3>1. CASE wire' = wire
      BY <1>1, <3>1 DEF TornIsAnnounced
    <3>2. CASE wire' = Append(wire, outgoing)
      <4> SUFFICES ASSUME TornIsAnnounced, NEW i \in 1 .. Len(wire'), NEW p \in 1 .. Pieces,
                          wire'[i][p] # wire'[i][1]
                   PROVE  wire'[i][p] \in announced \/ wire'[i][1] \in announced
        BY <1>1 DEF TornIsAnnounced
      <4>1. /\ Len(wire') = Len(wire) + 1 /\ wire'[Len(wire) + 1] = outgoing /\ Len(wire) \in Nat
            /\ \A j \in 1 .. Len(wire) : wire'[j] = wire[j]
        BY <1>0, <3>2, WireGrows
      <4>2. CASE i \in 1 .. Len(wire)
        BY <4>1, <4>2 DEF TornIsAnnounced
      <4>3. CASE i = Len(wire) + 1
        <5>1. 1 \in 1 .. Len(outgoing) /\ p \in 1 .. Len(outgoing)
          BY <1>0, <2>1
        <5>2. outgoing[p] \in Seen /\ outgoing[1] \in Seen
          BY <5>1 DEF Seen
        <5>3. QED
          BY <2>1, <4>1, <4>3, <5>2 DEF SInv, OneUnannounced
      <4>4. QED
        BY <4>1, <4>2, <4>3
    <3>3. QED
      BY <2>1, <3>1, <3>2
  <2>8. LostIsAnnounced => LostIsAnnounced'
    BY <1>1, <2>2 DEF LostIsAnnounced
  <2>9. QED
    BY <2>4, <2>5, <2>6, <2>7, <2>8 DEF SInv
<1>5. CASE Lower
  <2>1. thread = "lower" /\ thread' = "poll" /\ data_state' = 0 /\ UNCHANGED <<outgoing, wire, failed>>
    BY <1>5 DEF Lower, AfterSend, sending
  <2>2. Types'
    BY <1>1, <2>1 DEF SInv, Types
  <2>3. Held' /\ Announces' /\ Sending' /\ OneUnannounced'
    BY <1>1, <2>1 DEF SInv, Held, Announces, Sending, OneUnannounced
  <2>4. NotLost'
    BY <1>1, <2>1 DEF SInv, NotLost, Sent
  <2>5. QED
    BY <1>1, <2>1, <2>2, <2>3, <2>4 DEF SInv, TornIsAnnounced, LostIsAnnounced, Sent
<1>6. QED
  BY <1>2, <1>3, <1>4, <1>5

\* The inductive invariant, with the two properties that it supports.
LEMMA Invariance == Spec => [](SInv /\ TornIsAnnounced /\ LostIsAnnounced)
<1>1. SInv /\ TornIsAnnounced /\ LostIsAnnounced /\ [Next]_vars
        => (SInv /\ TornIsAnnounced /\ LostIsAnnounced)'
  BY AsideSteps, AsideKeeps, CallbackKeeps, ThreadKeeps DEF Next, threadFunctionSendData, send
<1>2. QED
  BY <1>1, InitSInv, PTL DEF Spec

\* For every number of frames and of pieces, a frame on the wire that mixes two
\* recorded ones was announced by "data overwrite" (TestPA.cpp:151-154).
THEOREM TornFramesAreAnnounced == Spec => []TornIsAnnounced
BY Invariance, PTL

\* Every frame that is recorded before the last one was sent, or announced as
\* overwritten or overwriting, or failed in a send that nobody looked at
\* (TestPA.cpp:151-166, 243-247).
THEOREM LostFramesAreAnnounced == Spec => []LostIsAnnounced
BY Invariance, PTL

=============================================================================
