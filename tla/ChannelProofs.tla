--------------------------- MODULE ChannelProofs ---------------------------
(***************************************************************************)
(* Proofs about Channel for every Cap >= 2, every set of messages, every   *)
(* bound and any threads, as long as at most one thread sends and at most  *)
(* one receives (SPSC).                                                    *)
(***************************************************************************)
EXTENDS Channel, SequenceTheorems, TLAPS

\* The index arithmetic of sendFn and recvFn without a modulus.
LEMMA NextIndexWraps ==
  ASSUME NEW i \in Slot
  PROVE  NextIndex(i) = IF i + 1 = Cap THEN 0 ELSE i + 1
<1>1. CASE i + 1 = Cap
  BY <1>1, ChannelAssumption DEF NextIndex, Slot
<1>2. CASE i + 1 < Cap
  BY <1>2, ChannelAssumption DEF NextIndex, Slot
<1>. QED  BY <1>1, <1>2, ChannelAssumption DEF Slot

\* A case split of the next-state relation, one case per step of the code.
LEMMA StepCases ==
  ASSUME [Next]_vars
  PROVE  \/ \E t \in Senders : \/ \E m \in Message : SendBegin(t, m)
                               \/ SendLoadClosed(t) \/ SendLoadHead(t)
                               \/ SendLoadTail(t) \/ SendWrite(t) \/ SendPublish(t)
         \/ \E t \in Receivers : \/ RecvBegin(t) \/ RecvLoadHead(t) \/ RecvLoadTail(t)
                                 \/ RecvLoadClosed(t) \/ RecvRead(t) \/ RecvRelease(t)
         \/ UNCHANGED vars
BY DEF Next, Sending, Receiving

-----------------------------------------------------------------------------
(* Types *)

Typed == TypeOK /\ SendsMessages

LEMMA TypedInit == Init => Typed
BY ChannelAssumption
   DEF Init, Typed, TypeOK, SendsMessages, Slot, Threads, SendStep, RecvStep

LEMMA TypedStep == Typed /\ [Next]_vars => Typed'
<1>. SUFFICES ASSUME Typed, [Next]_vars PROVE Typed'
  OBVIOUS
<1>. USE ChannelAssumption
     DEF Typed, TypeOK, SendsMessages, Goto, ring, locals, history, SendStep, RecvStep, Threads
<1>1. ASSUME NEW t \in Senders, NEW m \in Message, SendBegin(t, m) PROVE Typed'
  BY <1>1 DEF SendBegin
<1>2. ASSUME NEW t \in Senders, SendLoadClosed(t) PROVE Typed'
  BY <1>2 DEF SendLoadClosed
<1>3. ASSUME NEW t \in Senders, SendLoadHead(t) PROVE Typed'
  BY <1>3 DEF SendLoadHead
<1>4. ASSUME NEW t \in Senders, SendLoadTail(t) PROVE Typed'
  BY <1>4 DEF SendLoadTail
<1>5. ASSUME NEW t \in Senders, SendWrite(t) PROVE Typed'
  BY <1>5 DEF SendWrite
<1>6. ASSUME NEW t \in Senders, SendPublish(t) PROVE Typed'
  <2>1. NextIndex(ltail[t]) \in Slot
    BY NextIndexWraps DEF Slot
  <2>. QED  BY <1>6, <2>1 DEF SendPublish
<1>7. ASSUME NEW t \in Receivers, RecvBegin(t) PROVE Typed'
  BY <1>7 DEF RecvBegin
<1>8. ASSUME NEW t \in Receivers, RecvLoadHead(t) PROVE Typed'
  BY <1>8 DEF RecvLoadHead
<1>9. ASSUME NEW t \in Receivers, RecvLoadTail(t) PROVE Typed'
  BY <1>9 DEF RecvLoadTail
<1>10. ASSUME NEW t \in Receivers, RecvLoadClosed(t) PROVE Typed'
  BY <1>10 DEF RecvLoadClosed
<1>11. ASSUME NEW t \in Receivers, RecvRead(t) PROVE Typed'
  BY <1>11 DEF RecvRead
<1>12. ASSUME NEW t \in Receivers, RecvRelease(t) PROVE Typed'
  <2>1. NextIndex(lhead[t]) \in Slot
    BY NextIndexWraps DEF Slot
  <2>. QED  BY <1>12, <2>1 DEF RecvRelease
<1>13. CASE UNCHANGED vars
  BY <1>13 DEF vars
<1>. QED
  BY <1>1, <1>2, <1>3, <1>4, <1>5, <1>6, <1>7, <1>8, <1>9, <1>10, <1>11, <1>12,
     <1>13, StepCases

\* Every variable keeps its type, whatever the threads do and however many
\* they are: an index stored in the ring is always a slot.
THEOREM TypeCorrect == Spec => []TypeOK
<1>1. Typed => TypeOK
  BY DEF Typed
<1>. QED  BY TypedInit, TypedStep, <1>1, PTL DEF Spec

-----------------------------------------------------------------------------
(* The ring *)

\* The number of messages between two indices lies within the ring, and is
\* zero exactly when they are equal.
LEMMA DistanceRange ==
  ASSUME TypeOK, NEW i \in Slot
  PROVE  Distance(i) \in 0 .. Cap - 1 /\ (Distance(i) = 0 <=> i = tail)
BY ChannelAssumption DEF TypeOK, Distance, Slot

\* IsFull with a loaded head is the test that Cap - 1 messages lie after it.
LEMMA FullDistance ==
  ASSUME TypeOK, NEW i \in Slot
  PROVE  IsFull(tail, i) <=> Distance(i) = Cap - 1
<1>1. NextIndex(tail) = IF tail + 1 = Cap THEN 0 ELSE tail + 1
  BY NextIndexWraps DEF TypeOK
<1>. QED  BY <1>1, ChannelAssumption DEF TypeOK, Distance, Slot, IsFull

\* Publishing moves the tail one place away from every index it does not fill
\* the ring from, and the slot it filled is the last one before the new tail.
LEMMA PublishDistance ==
  ASSUME TypeOK, Distance(head) < Cap - 1, tail' = NextIndex(tail), head' = head
  PROVE  /\ Distance(head)' = Distance(head) + 1
         /\ SlotAfterHead(Distance(head)) = tail
         /\ \A k \in Slot : SlotAfterHead(k)' = SlotAfterHead(k)
<1>. USE ChannelAssumption DEF TypeOK, Slot
<1>1. NextIndex(tail) = IF tail + 1 = Cap THEN 0 ELSE tail + 1
  BY NextIndexWraps
<1>2. Distance(head)' = Distance(head) + 1
  BY <1>1 DEF Distance
<1>3. SlotAfterHead(Distance(head)) = tail
  BY DEF Distance, SlotAfterHead
<1>4. ASSUME NEW k \in Slot PROVE SlotAfterHead(k)' = SlotAfterHead(k)
  BY DEF SlotAfterHead
<1>. QED  BY <1>2, <1>3, <1>4

\* Releasing moves the head one place towards the tail.
LEMMA ReleaseDistance ==
  ASSUME TypeOK, head # tail, head' = NextIndex(head), tail' = tail
  PROVE  /\ Distance(head)' = Distance(head) - 1
         /\ SlotAfterHead(0) = head
         /\ \A k \in 0 .. Cap - 2 : SlotAfterHead(k)' = SlotAfterHead(k + 1)
<1>. USE ChannelAssumption DEF TypeOK, Slot
<1>1. NextIndex(head) = IF head + 1 = Cap THEN 0 ELSE head + 1
  BY NextIndexWraps
<1>2. Distance(head)' = Distance(head) - 1
  BY <1>1 DEF Distance
<1>3. SlotAfterHead(0) = head
  BY DEF SlotAfterHead
<1>4. ASSUME NEW k \in 0 .. Cap - 2 PROVE SlotAfterHead(k)' = SlotAfterHead(k + 1)
  BY <1>1 DEF SlotAfterHead
<1>. QED  BY <1>2, <1>3, <1>4

\* The free slot at the tail holds none of the unreceived messages.
LEMMA TailIsFree ==
  ASSUME TypeOK, NEW k \in Slot, k < Distance(head)
  PROVE  SlotAfterHead(k) \in Slot /\ SlotAfterHead(k) # tail
BY ChannelAssumption DEF TypeOK, Distance, Slot, SlotAfterHead
-----------------------------------------------------------------------------
(* One sender, one receiver *)

\* Steps that leave the ring and the history alone keep what the slots hold.
LEMMA RingUnchanged ==
  ASSUME FifoOrder, Contents, UNCHANGED <<buf, head, tail, sent, rcvd>>
  PROVE  FifoOrder' /\ Contents'
BY DEF FifoOrder, Contents, Occupancy, Distance, SlotAfterHead

\* A step of the sender keeps the inductive invariant.
LEMMA SendKeepsRing ==
  ASSUME SPSC, TypeOK, RingInv, SendsMessages', NEW t \in Senders,
         \/ \E m \in Message : SendBegin(t, m)
         \/ SendLoadClosed(t) \/ SendLoadHead(t) \/ SendLoadTail(t)
         \/ SendWrite(t) \/ SendPublish(t)
  PROVE  RingInv'
<1>. USE ChannelAssumption
     DEF TypeOK, SPSC, Threads, Goto, ring, locals, history, SendStep, RecvStep
<1>1. ASSUME NEW m \in Message, SendBegin(t, m) PROVE RingInv'
  BY <1>1, RingUnchanged DEF SendBegin, RingInv, Distance, SenderView, ReceiverView
<1>2. CASE SendLoadClosed(t)
  BY <1>2, RingUnchanged DEF SendLoadClosed, RingInv, Distance, SenderView, ReceiverView
<1>3. CASE SendLoadHead(t)
  BY <1>3, RingUnchanged DEF SendLoadHead, RingInv, Distance, SenderView, ReceiverView, Slot
<1>4. CASE SendLoadTail(t)
  <2>1. \/ IsFull(tail, lhead[t]) /\ pc' = [pc EXCEPT ![t] = "s_closed"]
        \/ Distance(lhead[t]) < Cap - 1 /\ pc' = [pc EXCEPT ![t] = "s_write"]
    BY <1>4, FullDistance, DistanceRange DEF SendLoadTail
  <2>2. Distance(head) <= Distance(lhead[t])
    BY <1>4 DEF SendLoadTail, RingInv, SenderView
  <2>3. Distance(head) \in Nat /\ Distance(lhead[t]) \in Nat
    BY DistanceRange
  <2>. QED
    BY <1>4, <2>1, <2>2, <2>3, RingUnchanged
       DEF SendLoadTail, RingInv, Distance, SenderView, ReceiverView
<1>5. CASE SendWrite(t)
  <2>1. ltail[t] = tail /\ pc[t] = "s_write" /\ tail \in Slot
    BY <1>5 DEF SendWrite, RingInv, SenderView
  <2>2. buf' = [buf EXCEPT ![tail] = lval[t]] /\ UNCHANGED <<head, tail, lhead, ltail, lval, sent, rcvd>>
    BY <1>5, <2>1 DEF SendWrite
  <2>3. FifoOrder'
    BY <2>2 DEF RingInv, FifoOrder
  <2>4. Contents'
    BY <2>2, TailIsFree DEF RingInv, Contents, Occupancy, Distance, SlotAfterHead, Slot
  <2>5. ASSUME NEW s \in Senders PROVE SenderView(s)'
    BY <1>5, <2>1, <2>2 DEF SendWrite, RingInv, SenderView, Distance
  <2>6. ASSUME NEW r \in Receivers PROVE ReceiverView(r)'
    BY <1>5, <2>1, <2>2 DEF SendWrite, RingInv, ReceiverView
  <2>. QED  BY <2>3, <2>4, <2>5, <2>6 DEF RingInv
<1>6. CASE SendPublish(t)
  <2>1. /\ ltail[t] = tail /\ pc[t] = "s_publish" /\ lval[t] \in Message
        /\ Distance(head) < Cap - 1 /\ buf[tail] = lval[t]
    BY <1>6 DEF SendPublish, RingInv, SenderView, SendsMessages
  <2>2. /\ tail' = NextIndex(tail) /\ sent' = Append(sent, lval[t])
        /\ UNCHANGED <<buf, head, lhead, ltail, lval, rcvd>>
        /\ pc' = [pc EXCEPT ![t] = "idle"]
    BY <1>6, <2>1 DEF SendPublish
  <2>3. /\ Distance(head)' = Distance(head) + 1
        /\ SlotAfterHead(Distance(head)) = tail
        /\ \A k \in Slot : SlotAfterHead(k)' = SlotAfterHead(k)
    BY <2>1, <2>2, PublishDistance
  <2>4. Distance(head) \in 0 .. Cap - 1
    BY DistanceRange
  <2>5. Len(sent') = Len(sent) + 1 /\ sent'[Len(sent) + 1] = lval[t]
        /\ \A i \in 1 .. Len(sent) : sent'[i] = sent[i]
    BY <2>1, <2>2
  <2>6. FifoOrder'
    BY <2>2, <2>5 DEF RingInv, FifoOrder
  <2>7. Contents'
    <3>1. Len(sent)' = Len(rcvd)' + Occupancy'
      BY <2>2, <2>3, <2>4, <2>5 DEF RingInv, Contents, Occupancy
    <3>2. ASSUME NEW k \in 0 .. Cap - 1, k < Occupancy'
          PROVE  buf'[SlotAfterHead(k)'] = sent'[Len(rcvd)' + 1 + k]
      <4>1. CASE k < Occupancy
        <5>1. buf[SlotAfterHead(k)] = sent[Len(rcvd) + 1 + k]
          BY <4>1 DEF RingInv, Contents
        <5>2. Len(rcvd) + 1 + k \in 1 .. Len(sent)
          BY <4>1, <2>4 DEF RingInv, Contents, Occupancy
        <5>. QED  BY <5>1, <5>2, <2>2, <2>3, <2>5 DEF Slot
      <4>2. CASE k = Occupancy
        <5>1. k \in Slot /\ SlotAfterHead(k)' = tail
          BY <4>2, <2>3, <2>4 DEF Occupancy, Slot
        <5>2. buf'[tail] = lval[t]
          BY <2>1, <2>2
        <5>3. Len(rcvd)' + 1 + k = Len(sent) + 1
          BY <4>2, <2>2, <2>4 DEF RingInv, Contents, Occupancy
        <5>. QED  BY <5>1, <5>2, <5>3, <2>5
      <4>. QED  BY <3>2, <4>1, <4>2, <2>3, <2>4 DEF Occupancy
    <3>. QED  BY <3>1, <3>2 DEF Contents
  <2>8. ASSUME NEW s \in Senders PROVE SenderView(s)'
    BY <2>2 DEF SenderView
  <2>9. ASSUME NEW r \in Receivers PROVE ReceiverView(r)'
    <3>1. head' # tail'
      BY <2>1, <2>2, NextIndexWraps DEF Distance, Slot
    <3>. QED  BY <2>2, <3>1 DEF RingInv, ReceiverView
  <2>. QED  BY <2>6, <2>7, <2>8, <2>9 DEF RingInv
<1>. QED
  BY <1>1, <1>2, <1>3, <1>4, <1>5, <1>6

\* A step of the receiver keeps the inductive invariant.
LEMMA RecvKeepsRing ==
  ASSUME SPSC, TypeOK, RingInv, SendsMessages', NEW t \in Receivers,
         \/ RecvBegin(t) \/ RecvLoadHead(t) \/ RecvLoadTail(t)
         \/ RecvLoadClosed(t) \/ RecvRead(t) \/ RecvRelease(t)
  PROVE  RingInv'
<1>. USE ChannelAssumption
     DEF TypeOK, SPSC, Threads, Goto, ring, locals, history, SendStep, RecvStep
<1>1. CASE RecvBegin(t)
  BY <1>1, RingUnchanged DEF RecvBegin, RingInv, Distance, SenderView, ReceiverView
<1>2. CASE RecvLoadHead(t)
  BY <1>2, RingUnchanged DEF RecvLoadHead, RingInv, Distance, SenderView, ReceiverView
<1>3. CASE RecvLoadTail(t)
  BY <1>3, RingUnchanged
     DEF RecvLoadTail, IsEmpty, RingInv, Distance, SenderView, ReceiverView
<1>4. CASE RecvLoadClosed(t)
  BY <1>4, RingUnchanged DEF RecvLoadClosed, RingInv, Distance, SenderView, ReceiverView
<1>5. CASE RecvRead(t)
  BY <1>5, RingUnchanged DEF RecvRead, RingInv, Distance, SenderView, ReceiverView
<1>6. CASE RecvRelease(t)
  <2>1. /\ lhead[t] = head /\ head # tail /\ lval[t] = buf[head]
        /\ pc[t] = "r_release"
    BY <1>6 DEF RecvRelease, RingInv, ReceiverView
  <2>2. /\ head' = NextIndex(head) /\ rcvd' = Append(rcvd, lval[t])
        /\ UNCHANGED <<buf, tail, lhead, ltail, lval, sent>>
        /\ pc' = [pc EXCEPT ![t] = "idle"]
    BY <1>6, <2>1 DEF RecvRelease
  <2>3. /\ Distance(head)' = Distance(head) - 1
        /\ SlotAfterHead(0) = head
        /\ \A k \in 0 .. Cap - 2 : SlotAfterHead(k)' = SlotAfterHead(k + 1)
    BY <2>1, <2>2, ReleaseDistance
  <2>4. Distance(head) \in 1 .. Cap - 1
    BY <2>1, DistanceRange
  <2>5. Len(rcvd') = Len(rcvd) + 1 /\ rcvd'[Len(rcvd) + 1] = lval[t]
        /\ \A i \in 1 .. Len(rcvd) : rcvd'[i] = rcvd[i]
    BY <2>2
  <2>6. lval[t] = sent[Len(rcvd) + 1]
    <3>1. 0 \in 0 .. Cap - 1 /\ 0 < Occupancy
      BY <2>4 DEF Occupancy
    <3>2. buf[SlotAfterHead(0)] = sent[Len(rcvd) + 1 + 0]
      BY <3>1 DEF RingInv, Contents
    <3>. QED  BY <2>1, <2>3, <3>2
  <2>7. FifoOrder'
    BY <2>2, <2>4, <2>5, <2>6 DEF RingInv, FifoOrder, Contents, Occupancy
  <2>8. Contents'
    <3>1. Len(sent)' = Len(rcvd)' + Occupancy'
      BY <2>2, <2>3, <2>4, <2>5 DEF RingInv, Contents, Occupancy
    <3>2. ASSUME NEW k \in 0 .. Cap - 1, k < Occupancy'
          PROVE  buf'[SlotAfterHead(k)'] = sent'[Len(rcvd)' + 1 + k]
      <4>1. k \in 0 .. Cap - 2 /\ k + 1 \in 0 .. Cap - 1 /\ k + 1 < Occupancy
        BY <3>2, <2>3, <2>4 DEF Occupancy
      <4>2. buf[SlotAfterHead(k + 1)] = sent[Len(rcvd) + 1 + (k + 1)]
        BY <4>1 DEF RingInv, Contents
      <4>. QED  BY <4>1, <4>2, <2>2, <2>3, <2>5
    <3>. QED  BY <3>1, <3>2 DEF Contents
  <2>9. ASSUME NEW s \in Senders PROVE SenderView(s)'
    <3>1. Distance(lhead[s])' = Distance(lhead[s]) /\ Distance(lhead[s]) \in Nat
      BY <2>2, DistanceRange DEF Distance
    <3>. QED  BY <2>2, <2>3, <2>4, <3>1 DEF RingInv, SenderView
  <2>10. ASSUME NEW r \in Receivers PROVE ReceiverView(r)'
    BY <2>2 DEF ReceiverView
  <2>. QED  BY <2>7, <2>8, <2>9, <2>10 DEF RingInv
<1>. QED
  BY <1>1, <1>2, <1>3, <1>4, <1>5, <1>6

\* The inductive invariant of the channel holds in every reachable state.
THEOREM RingInvariant ==
  ASSUME SPSC
  PROVE  Spec => [](TypeOK /\ RingInv)
<1>1. Init => Typed /\ RingInv
  <2>1. Init => FifoOrder /\ Contents
    BY ChannelAssumption DEF Init, FifoOrder, Contents, Occupancy, Distance
  <2>2. Init => \A t \in Threads : pc[t] = "idle"
    BY DEF Init
  <2>3. Init => /\ \A s \in Senders : SenderView(s)
                /\ \A r \in Receivers : ReceiverView(r)
    BY <2>2 DEF SenderView, ReceiverView, Threads
  <2>. QED  BY <2>1, <2>3, TypedInit DEF Typed, RingInv
<1>2. (Typed /\ RingInv) /\ [Next]_vars => (Typed /\ RingInv)'
  <2>. SUFFICES ASSUME Typed, RingInv, [Next]_vars PROVE Typed' /\ RingInv'
    OBVIOUS
  <2>1. Typed'
    BY TypedStep
  <2>2. TypeOK /\ SendsMessages'
    BY <2>1 DEF Typed
  <2>3. CASE UNCHANGED vars
    <3>1. FifoOrder' /\ Contents'
      BY <2>3, RingUnchanged DEF vars, ring, history, RingInv
    <3>2. ASSUME NEW s \in Senders PROVE SenderView(s)'
      BY <2>3 DEF vars, ring, locals, RingInv, SenderView, Distance
    <3>3. ASSUME NEW r \in Receivers PROVE ReceiverView(r)'
      BY <2>3 DEF vars, ring, locals, RingInv, ReceiverView
    <3>. QED  BY <2>1, <2>2, <3>1, <3>2, <3>3 DEF RingInv
  <2>4. ASSUME NEW t \in Senders,
               \/ \E m \in Message : SendBegin(t, m)
               \/ SendLoadClosed(t) \/ SendLoadHead(t) \/ SendLoadTail(t)
               \/ SendWrite(t) \/ SendPublish(t)
        PROVE  RingInv'
    BY <2>2, <2>4, SendKeepsRing
  <2>5. ASSUME NEW t \in Receivers,
               \/ RecvBegin(t) \/ RecvLoadHead(t) \/ RecvLoadTail(t)
               \/ RecvLoadClosed(t) \/ RecvRead(t) \/ RecvRelease(t)
        PROVE  RingInv'
    BY <2>2, <2>5, RecvKeepsRing
  <2>. QED  BY <2>1, <2>3, <2>4, <2>5, StepCases
<1>. QED  BY <1>1, <1>2, PTL DEF Spec, Typed

\* Receives return the messages sent, in order, each once: no interleaving of
\* the unlocked steps of sendFn and recvFn loses or repeats one.
THEOREM FifoOrderHolds ==
  ASSUME SPSC
  PROVE  Spec => []FifoOrder
<1>1. RingInv => FifoOrder
  BY DEF RingInv
<1>. QED  BY <1>1, RingInvariant, PTL

\* The plain accesses to buf never meet in one slot.
THEOREM NoSlotRaceHolds ==
  ASSUME SPSC
  PROVE  Spec => []NoSlotRace
<1>1. RingInv => NoSlotRace
  BY DEF RingInv, NoSlotRace, SenderView, ReceiverView
<1>. QED  BY <1>1, RingInvariant, PTL
-----------------------------------------------------------------------------
(* Refinement *)

\* What remains of a sequence after its first n elements.
LEMMA Suffix ==
  ASSUME NEW S, NEW s \in Seq(S), NEW n \in Nat, n <= Len(s)
  PROVE  /\ SubSeq(s, n + 1, Len(s)) \in Seq(S)
         /\ Len(SubSeq(s, n + 1, Len(s))) = Len(s) - n
         /\ \A i \in 1 .. Len(s) - n : SubSeq(s, n + 1, Len(s))[i] = s[n + i]
OBVIOUS

\* Appending to a sequence appends to every suffix of it.
LEMMA SuffixAppend ==
  ASSUME NEW S, NEW s \in Seq(S), NEW n \in Nat, n <= Len(s), NEW m \in S
  PROVE  SubSeq(Append(s, m), n + 1, Len(s) + 1) = Append(SubSeq(s, n + 1, Len(s)), m)
<1>. DEFINE old == SubSeq(s, n + 1, Len(s))
            new == SubSeq(Append(s, m), n + 1, Len(s) + 1)
<1>1. Append(s, m) \in Seq(S) /\ Len(Append(s, m)) = Len(s) + 1
  BY AppendProperties
<1>2. /\ new \in Seq(S) /\ Len(new) = Len(s) + 1 - n
      /\ \A i \in 1 .. Len(s) + 1 - n : new[i] = Append(s, m)[n + i]
  BY <1>1
<1>3. /\ old \in Seq(S) /\ Len(old) = Len(s) - n
      /\ \A i \in 1 .. Len(s) - n : old[i] = s[n + i]
  BY Suffix
<1>4. Append(old, m) \in Seq(S) /\ Len(Append(old, m)) = Len(s) - n + 1
  BY <1>3, AppendProperties
<1>5. ASSUME NEW i \in 1 .. Len(s) + 1 - n PROVE new[i] = Append(old, m)[i]
  <2>1. CASE i = Len(s) + 1 - n
    BY <2>1, <1>2, <1>3, AppendProperties
  <2>2. CASE i \in 1 .. Len(s) - n
    BY <2>2, <1>2, <1>3, AppendProperties
  <2>. QED  BY <2>1, <2>2
<1>6. Len(new) = Len(Append(old, m)) /\ Len(new) = Len(s) + 1 - n
  BY <1>2, <1>4
<1>. HIDE DEF old, new
<1>7. \A i \in 1 .. Len(new) : new[i] = Append(old, m)[i]
  BY <1>5, <1>6
<1>8. new = Append(old, m)
  BY <1>2, <1>4, <1>6, <1>7, SeqEqual
<1>. QED  BY <1>8 DEF old, new

\* Dropping one element more takes the tail of the suffix.
LEMMA SuffixTail ==
  ASSUME NEW S, NEW s \in Seq(S), NEW n \in Nat, n < Len(s)
  PROVE  /\ SubSeq(s, n + 1, Len(s)) # <<>>
         /\ Head(SubSeq(s, n + 1, Len(s))) = s[n + 1]
         /\ SubSeq(s, n + 2, Len(s)) = Tail(SubSeq(s, n + 1, Len(s)))
<1>. DEFINE old == SubSeq(s, n + 1, Len(s))
            new == SubSeq(s, n + 2, Len(s))
<1>1. /\ old \in Seq(S) /\ Len(old) = Len(s) - n
      /\ \A i \in 1 .. Len(s) - n : old[i] = s[n + i]
  OBVIOUS
<1>2. /\ new \in Seq(S) /\ Len(new) = Len(s) - (n + 1)
      /\ \A i \in 1 .. Len(s) - (n + 1) : new[i] = s[n + 1 + i]
  OBVIOUS
<1>. HIDE DEF old, new
<1>3. old # <<>> /\ Head(old) = s[n + 1]
  BY <1>1
<1>4. /\ Tail(old) \in Seq(S) /\ Len(Tail(old)) = Len(s) - (n + 1)
      /\ \A i \in 1 .. Len(s) - (n + 1) : Tail(old)[i] = s[n + 1 + i]
  BY <1>1, <1>3, HeadTailProperties
<1>5. new = Tail(old)
  BY <1>2, <1>4, SeqEqual
<1>. QED  BY <1>3, <1>5 DEF old, new

\* With one sender and one receiver the channel is a bounded FIFO of Cap - 1
\* messages: every step of the code is an atomic Put, an atomic Take or no
\* change of the abstract queue.
THEOREM ChannelImplementsFifo ==
  ASSUME SPSC
  PROVE  Spec => ImplementsFifo
<1>. USE ChannelAssumption
<1>1. Init => Fifo!Init
  BY DEF Init, Fifo!Init, Unreceived, LastReceived
<1>2. TypeOK /\ RingInv /\ [Next]_vars => [Fifo!Next]_(Fifo!fifoVars)
  <2>. SUFFICES ASSUME TypeOK, RingInv, [Next]_vars
                PROVE  [Fifo!Next]_(Fifo!fifoVars)
    OBVIOUS
  <2>1. sent \in Seq(Message) /\ rcvd \in Seq(Message \cup {Nil})
    BY DEF TypeOK
  <2>2. /\ Len(rcvd) \in Nat /\ Len(rcvd) <= Len(sent)
        /\ Len(Unreceived) = Len(sent) - Len(rcvd)
    BY <2>1, Suffix DEF RingInv, FifoOrder, Unreceived
  <2>3. Distance(head) \in 0 .. Cap - 1 /\ Len(Unreceived) = Distance(head)
    BY <2>1, <2>2, DistanceRange DEF TypeOK, RingInv, Contents, Occupancy
  <2>4. CASE UNCHANGED <<sent, rcvd>>
    BY <2>4 DEF Unreceived, LastReceived, Fifo!fifoVars
  <2>5. ASSUME NEW t \in Senders, SendPublish(t) PROVE Fifo!Put(lval[t])
    <3>1. /\ sent' = Append(sent, lval[t]) /\ rcvd' = rcvd
          /\ lval[t] \in Message /\ Distance(head) < Cap - 1
      BY <2>5 DEF SendPublish, Goto, RingInv, SendsMessages, SenderView, SendStep,
                  Threads, TypeOK, history
    <3>2. Len(sent') = Len(sent) + 1
      BY <3>1, <2>1
    <3>3. Unreceived' = Append(Unreceived, lval[t])
      <4>1. SubSeq(Append(sent, lval[t]), Len(rcvd) + 1, Len(sent) + 1)
              = Append(SubSeq(sent, Len(rcvd) + 1, Len(sent)), lval[t])
        BY <3>1, <2>1, <2>2, SuffixAppend
      <4>. QED  BY <3>1, <3>2, <4>1 DEF Unreceived
    <3>4. LastReceived' = LastReceived
      BY <3>1 DEF LastReceived
    <3>. QED  BY <2>3, <3>1, <3>3, <3>4 DEF Fifo!Put
  <2>6. ASSUME NEW t \in Receivers, RecvRelease(t) PROVE Fifo!Take
    <3>1. /\ rcvd' = Append(rcvd, lval[t]) /\ sent' = sent
          /\ lval[t] = buf[head] /\ head # tail /\ lval[t] \in Message \cup {Nil}
      BY <2>6 DEF RecvRelease, Goto, RingInv, ReceiverView, Threads, TypeOK, history
    <3>2. 0 < Distance(head) /\ Len(rcvd) < Len(sent)
      BY <2>2, <2>3, <3>1, DistanceRange DEF TypeOK
    <3>3. lval[t] = sent[Len(rcvd) + 1]
      <4>1. SlotAfterHead(0) = head /\ 0 \in 0 .. Cap - 1
        BY DEF SlotAfterHead, TypeOK, Slot
      <4>2. buf[SlotAfterHead(0)] = sent[Len(rcvd) + 1 + 0]
        BY <3>2, <4>1 DEF RingInv, Contents, Occupancy
      <4>. QED  BY <2>2, <3>1, <4>1, <4>2
    <3>4. LastReceived' = lval[t] /\ Len(rcvd') = Len(rcvd) + 1
      BY <2>1, <3>1 DEF LastReceived
    <3>5. /\ Unreceived # <<>> /\ Head(Unreceived) = sent[Len(rcvd) + 1]
          /\ Unreceived' = Tail(Unreceived)
      <4>1. /\ Unreceived # <<>> /\ Head(Unreceived) = sent[Len(rcvd) + 1]
            /\ SubSeq(sent, Len(rcvd) + 2, Len(sent)) = Tail(Unreceived)
        BY <2>1, <2>2, <3>2, SuffixTail DEF Unreceived
      <4>2. Len(rcvd') + 1 = Len(rcvd) + 2
        BY <2>2, <3>4
      <4>. QED  BY <3>1, <4>1, <4>2 DEF Unreceived
    <3>. QED  BY <3>3, <3>4, <3>5 DEF Fifo!Take
  <2>7. CASE Next /\ ~ UNCHANGED <<sent, rcvd>>
    <3>1. \/ \E t \in Senders : SendPublish(t)
          \/ \E t \in Receivers : RecvRelease(t)
      BY <2>7 DEF Next, Sending, Receiving, SendBegin, SendLoadClosed, SendLoadHead,
                  SendLoadTail, SendWrite, RecvBegin, RecvLoadHead, RecvLoadTail,
                  RecvLoadClosed, RecvRead, history
    <3>2. ASSUME NEW t \in Senders, SendPublish(t) PROVE Fifo!Next
      <4>1. lval[t] \in Message
        BY <3>2 DEF SendPublish, Goto, RingInv, SendsMessages, SendStep, Threads
      <4>. QED  BY <2>5, <3>2, <4>1 DEF Fifo!Next
    <3>. QED  BY <3>1, <3>2, <2>6 DEF Fifo!Next
  <2>. QED  BY <2>4, <2>7 DEF vars, history
<1>. QED  BY <1>1, <1>2, RingInvariant, PTL DEF Spec, ImplementsFifo, Fifo!Spec
=============================================================================
