------------------------------ MODULE Channel ------------------------------
(***************************************************************************)
(* One channel of src/stdlib/thread.zig: a ring of Cap slots, an index     *)
(* `head` of the next message to receive and an index `tail` of the next   *)
(* free slot.  There is no lock and no compare-and-swap: sendFn and recvFn *)
(* are loops of single atomic loads and stores, so every load, every store *)
(* and the plain access to the slot is a step of its own here, and steps   *)
(* of different threads interleave.  A thread that finds the ring full     *)
(* (sendFn) or empty (recvFn) yields and starts its loop again.            *)
(*                                                                         *)
(* A thread may both send and receive, one call at a time, as the tests of *)
(* the module do.  `sent` and `rcvd` are history: the messages in the order*)
(* their sends published them and in the order receives returned them.     *)
(***************************************************************************)
EXTENDS Naturals, Sequences

CONSTANTS Senders,   \* threads that may call thread.send on the channel
          Receivers, \* threads that may call thread.recv on it
          Message,   \* the values sent
          Nil,       \* the value nil that fills a new ring
          Cap,       \* CHANNEL_CAP
          MaxSends   \* bound: sends that may begin

ASSUME ChannelAssumption == /\ Cap \in Nat
                            /\ Cap >= 2
                            /\ MaxSends \in Nat
                            /\ Nil \notin Message

Threads == Senders \cup Receivers

\* At most one thread sends and at most one receives (they may be the same).
SPSC == /\ \A s, t \in Senders : s = t
        /\ \A s, t \in Receivers : s = t

Slot == 0 .. Cap - 1

VARIABLES buf,    \* ChannelObj.buf
          head,   \* ChannelObj.head
          tail,   \* ChannelObj.tail
          closed, \* ChannelObj.closed: no code ever stores anything but 0
          pc,     \* the step of sendFn or recvFn each thread is at
          lhead,  \* each thread's local `head`
          ltail,  \* each sender's local `tail`
          lval,   \* each thread's local `val`
          begun,  \* how many sends have begun
          sent,   \* history of published messages
          rcvd    \* history of returned messages

ring == <<buf, head, tail, closed>>
locals == <<lhead, ltail, lval>>
history == <<begun, sent, rcvd>>
vars == <<ring, pc, locals, history>>

SendStep == {"s_closed", "s_head", "s_tail", "s_write", "s_publish"}
RecvStep == {"r_head", "r_tail", "r_closed", "r_read", "r_release"}

TypeOK == /\ buf \in [Slot -> Message \cup {Nil}]
          /\ head \in Slot
          /\ tail \in Slot
          /\ closed = 0
          /\ pc \in [Threads -> {"idle"} \cup SendStep \cup RecvStep]
          /\ lhead \in [Threads -> Slot]
          /\ ltail \in [Threads -> Slot]
          /\ lval \in [Threads -> Message \cup {Nil}]
          /\ begun \in Nat
          /\ sent \in Seq(Message)
          /\ rcvd \in Seq(Message \cup {Nil})

Goto(t, from, to) == pc[t] = from /\ pc' = [pc EXCEPT ![t] = to]

\* Faulty variant: the index wraps one slot late.
NextIndexWrapsLate(i) == (i + 1) % (Cap + 1)
NextIndex(i) == (i + 1) % Cap

\* Messages between index i and the tail, going round the ring.
Distance(i) == IF tail >= i THEN tail - i ELSE tail + Cap - i

\* How many messages the indices say the ring holds.
Occupancy == Distance(head)

\* The slot k places after the head.
SlotAfterHead(k) == IF head + k < Cap THEN head + k ELSE head + k - Cap

-----------------------------------------------------------------------------
(* channelFn *)
Init == /\ buf = [i \in Slot |-> Nil]
        /\ head = 0
        /\ tail = 0
        /\ closed = 0
        /\ pc = [t \in Threads |-> "idle"]
        /\ lhead = [t \in Threads |-> 0]
        /\ ltail = [t \in Threads |-> 0]
        /\ lval = [t \in Threads |-> Nil]
        /\ begun = 0
        /\ sent = <<>>
        /\ rcvd = <<>>

-----------------------------------------------------------------------------
(* sendFn *)

SendBegin(t, m) == /\ begun < MaxSends
                   /\ Goto(t, "idle", "s_closed")
                   /\ lval' = [lval EXCEPT ![t] = m]
                   /\ begun' = begun + 1
                   /\ UNCHANGED <<ring, lhead, ltail, sent, rcvd>>

\* A closed channel would end the call with false; nothing can close one.
SendLoadClosed(t) == /\ closed = 0
                     /\ Goto(t, "s_closed", "s_head")
                     /\ UNCHANGED <<ring, locals, history>>

SendLoadHead(t) == /\ Goto(t, "s_head", "s_tail")
                   /\ lhead' = [lhead EXCEPT ![t] = head]
                   /\ UNCHANGED <<ring, ltail, lval, history>>

\* Faulty variants: no test at all; the test an empty ring passes; a retry
\* that keeps the head it loaded before.
IsFullNever(i, h) == FALSE
IsFullWhenEmpty(i, h) == i = h
IsFull(i, h) == NextIndex(i) = h

SendLoadTailKeepingHead(t) == /\ ltail' = [ltail EXCEPT ![t] = tail]
                              /\ IF IsFull(tail, lhead[t])
                                   THEN Goto(t, "s_tail", "s_tail")
                                   ELSE Goto(t, "s_tail", "s_write")
                              /\ UNCHANGED <<ring, lhead, lval, history>>

SendLoadTail(t) == /\ ltail' = [ltail EXCEPT ![t] = tail]
                   /\ IF IsFull(tail, lhead[t])
                        THEN Goto(t, "s_tail", "s_closed")
                        ELSE Goto(t, "s_tail", "s_write")
                   /\ UNCHANGED <<ring, lhead, lval, history>>

SendWrite(t) == /\ Goto(t, "s_write", "s_publish")
                /\ buf' = [buf EXCEPT ![ltail[t]] = lval[t]]
                /\ UNCHANGED <<head, tail, closed, locals, history>>

SendPublish(t) == /\ Goto(t, "s_publish", "idle")
                  /\ tail' = NextIndex(ltail[t])
                  /\ sent' = Append(sent, lval[t])
                  /\ UNCHANGED <<buf, head, closed, locals, begun, rcvd>>

Sending(t) == \/ SendLoadClosed(t) \/ SendLoadHead(t) \/ SendLoadTail(t)
              \/ SendWrite(t) \/ SendPublish(t)

-----------------------------------------------------------------------------
(* recvFn *)

RecvBegin(t) == /\ Goto(t, "idle", "r_head")
                /\ UNCHANGED <<ring, locals, history>>

RecvLoadHead(t) == /\ Goto(t, "r_head", "r_tail")
                   /\ lhead' = [lhead EXCEPT ![t] = head]
                   /\ UNCHANGED <<ring, ltail, lval, history>>

\* Faulty variant: holds the newest message back.
IsEmptyOneEarly(i, h) == i = NextIndex(h) \/ i = h
IsEmpty(i, h) == i = h

RecvLoadTail(t) == /\ IF IsEmpty(tail, lhead[t])
                        THEN Goto(t, "r_tail", "r_closed")
                        ELSE Goto(t, "r_tail", "r_read")
                   /\ UNCHANGED <<ring, locals, history>>

RecvLoadClosed(t) == /\ closed = 0
                     /\ Goto(t, "r_closed", "r_head")
                     /\ UNCHANGED <<ring, locals, history>>

RecvRead(t) == /\ Goto(t, "r_read", "r_release")
               /\ lval' = [lval EXCEPT ![t] = buf[lhead[t]]]
               /\ UNCHANGED <<ring, lhead, ltail, history>>

\* Faulty variant: the head is not advanced past the message returned.
RecvReleaseInPlace(t) == /\ Goto(t, "r_release", "idle")
                         /\ head' = lhead[t]
                         /\ rcvd' = Append(rcvd, lval[t])
                         /\ UNCHANGED <<buf, tail, closed, locals, begun, sent>>

RecvRelease(t) == /\ Goto(t, "r_release", "idle")
                  /\ head' = NextIndex(lhead[t])
                  /\ rcvd' = Append(rcvd, lval[t])
                  /\ UNCHANGED <<buf, tail, closed, locals, begun, sent>>

Receiving(t) == \/ RecvLoadHead(t) \/ RecvLoadTail(t) \/ RecvLoadClosed(t)
                \/ RecvRead(t) \/ RecvRelease(t)

-----------------------------------------------------------------------------
Next == \/ \E t \in Senders : (\E m \in Message : SendBegin(t, m)) \/ Sending(t)
        \/ \E t \in Receivers : RecvBegin(t) \/ Receiving(t)

Spec == Init /\ [][Next]_vars

\* The operating system keeps scheduling a thread that is inside a call; no
\* thread is obliged to make another call.
FairSpec == /\ Spec
            /\ \A t \in Senders : WF_vars(Sending(t))
            /\ \A t \in Receivers : WF_vars(Receiving(t))

-----------------------------------------------------------------------------
(* Properties *)

\* Receives return the messages sent, each once, in the order the sends
\* published them: nothing is lost, repeated, reordered or made up by the
\* unlocked index arithmetic of sendFn and recvFn.
FifoOrder == /\ Len(rcvd) <= Len(sent)
             /\ \A i \in 1 .. Len(rcvd) : rcvd[i] = sent[i]

\* buf is read and written without atomics: a sender about to store into a
\* slot and a receiver about to load one are never at the same slot.
NoSlotRace == \A s \in Senders, r \in Receivers :
                 ~ (pc[s] = "s_write" /\ pc[r] = "r_read" /\ ltail[s] = lhead[r])

\* The inductive strengthening.  The indices count the unreceived messages,
\* the slots between them hold those messages in order, and what each thread
\* has loaded is still good enough for the step it is at: a sender's head may
\* be stale, but only in the direction that makes the ring look fuller.
SenderView(s) ==
  /\ pc[s] = "s_tail" => Distance(head) <= Distance(lhead[s])
  /\ pc[s] \in {"s_write", "s_publish"} =>
       ltail[s] = tail /\ Distance(head) < Cap - 1
  /\ pc[s] = "s_publish" => buf[tail] = lval[s]

ReceiverView(r) ==
  /\ pc[r] \in {"r_tail", "r_read", "r_release"} => lhead[r] = head
  /\ pc[r] \in {"r_read", "r_release"} => head # tail
  /\ pc[r] = "r_release" => lval[r] = buf[head]

Contents ==
  /\ Len(sent) = Len(rcvd) + Occupancy
  /\ \A k \in 0 .. Cap - 1 :
       k < Occupancy => buf[SlotAfterHead(k)] = sent[Len(rcvd) + 1 + k]

SendsMessages == \A s \in Threads : pc[s] \in SendStep => lval[s] \in Message

RingInv == /\ SendsMessages
           /\ FifoOrder
           /\ Contents
           /\ \A s \in Senders : SenderView(s)
           /\ \A r \in Receivers : ReceiverView(r)

\* The channel implements a bounded FIFO of Cap - 1 messages: a publishing
\* store is the abstract Put, a releasing store the abstract Take, and every
\* other step of sendFn and recvFn is invisible.
Unreceived == SubSeq(sent, Len(rcvd) + 1, Len(sent))
LastReceived == IF rcvd = <<>> THEN Nil ELSE rcvd[Len(rcvd)]

Fifo == INSTANCE BoundedFifo WITH Bound <- Cap - 1, NoValue <- Nil,
                                  queue <- Unreceived, taken <- LastReceived

ImplementsFifo == Fifo!Spec

\* A thread.recv that is running while the ring holds a message returns, even
\* if it found the ring empty before and is on its way round the loop.
RecvCompletes == \A r \in Receivers :
                   (pc[r] \in RecvStep /\ head # tail) ~> (pc[r] = "idle")

\* A thread.send that is running while the ring has room returns.
SendCompletes == \A s \in Senders :
                   (pc[s] \in SendStep /\ Occupancy < Cap - 1) ~> (pc[s] = "idle")

\* A blocked send and a blocked receive of two threads never wait for each
\* other: with both inside their loops, one of the calls returns.
NeverBothSpin == \A s \in Senders, r \in Receivers :
   (pc[s] \in SendStep /\ pc[r] \in RecvStep) ~> (pc[s] = "idle" \/ pc[r] = "idle")

\* SPEC.md: thread.recv returns "the value sent through the channel, or nil if
\* channel is closed and empty"; the channel is never closed.
ReceivesOnlySentValues == \A i \in 1 .. Len(rcvd) : rcvd[i] # Nil
=============================================================================
