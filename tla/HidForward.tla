----------------------------- MODULE HidForward -----------------------------
(***************************************************************************)
(* The HID pass-through daemon (ttbox_hid_forward, HidRuntime): one        *)
(* HidForwarder reads reports from hidraw in one thread and writes them to *)
(* the gadget in another, over SpscQueue, a ring without locks.  Each      *)
(* access of the two threads to the ring is a step.                        *)
(***************************************************************************)
EXTENDS Integers, Sequences

CONSTANTS N,            \* slots of the ring
          Kind,         \* "mouse" or "keyboard"
          Layouts,      \* lengths and first bytes of the reports the device sends
          Nothing,      \* a slot nothing whole was written to
          MaxHidReports, \* bound: reports the device sends
          MaxFaults     \* bound: failing calls

ASSUME HidAssumption == N \in Nat /\ N > 1

VARIABLES main,       \* the daemon's main thread
          running,    \* HidForwarder::running_
          rx, tx,     \* where the two threads are
          head, tail, slotSeq, data,   \* SpscQueue
          rep, taken, \* the report each thread holds
          maxDepth,   \* stats_.max_queue_depth
          accepted, delivered,  \* history: reports pushed, popped
          sent, faults          \* bounds

ring == <<head, tail, slotSeq, data>>
hidVars == <<main, running, rx, tx, ring, rep, taken, maxDepth, accepted, delivered, sent, faults>>

Slot(pos) == pos % N
HidReport(n, layout) == [n |-> n, layout |-> layout]

HidInit == /\ main = "start" /\ running = FALSE
        /\ rx = "none" /\ tx = "none"
        /\ head = 0 /\ tail = 0
        /\ slotSeq = [i \in 0..(N - 1) |-> i]
        /\ data = [i \in 0..(N - 1) |-> Nothing]
        /\ rep = Nothing /\ taken = Nothing
        /\ maxDepth = 0 /\ accepted = <<>> /\ delivered = <<>>
        /\ sent = 0 /\ faults = 0

Fault == faults < MaxFaults /\ faults' = faults + 1

-----------------------------------------------------------------------------
(* The daemon *)

\* HidRuntime::start: both devices open, then both threads are created.
Start == /\ main = "start"
         /\ main' = "run" /\ running' = TRUE /\ rx' = "open" /\ tx' = "open"
         /\ UNCHANGED <<ring, rep, taken, maxDepth, accepted, delivered, sent, faults>>

\* No device, or one that does not open: the daemon exits with an error.
StartFails == /\ main = "start" /\ Fault
              /\ main' = "failed"
              /\ UNCHANGED <<running, rx, tx, ring, rep, taken, maxDepth, accepted, delivered, sent>>

\* SIGTERM, then HidForwarder::stop.  A forwarder that has stopped itself is
\* not joined, and destroying it ends the process.
Stop == /\ main = "run"
        /\ main' = IF running THEN "join" ELSE "aborted"
        /\ running' = FALSE
        /\ UNCHANGED <<rx, tx, ring, rep, taken, maxDepth, accepted, delivered, sent, faults>>

Join == /\ main = "join" /\ rx = "ended" /\ tx = "ended"
        /\ main' = "exited"
        /\ UNCHANGED <<running, rx, tx, ring, rep, taken, maxDepth, accepted, delivered, sent, faults>>

Alive == main \notin {"failed", "aborted", "exited"}

-----------------------------------------------------------------------------
(* The receiving thread: rx_loop and try_push *)

RxGoes(next) == rx' = next /\ UNCHANGED <<main, tx, taken, delivered>>

RxOpen == /\ Alive /\ rx = "open"
          /\ RxGoes("poll")
          /\ UNCHANGED <<running, ring, rep, maxDepth, accepted, sent, faults>>

\* The device has gone since start() tried it.
RxOpenFails == /\ Alive /\ rx = "open" /\ Fault
               /\ RxGoes("ended") /\ running' = FALSE
               /\ UNCHANGED <<ring, rep, maxDepth, accepted, sent>>

RxSeesStop == /\ Alive /\ rx = "poll" /\ ~running
              /\ RxGoes("ended")
              /\ UNCHANGED <<running, ring, rep, maxDepth, accepted, sent, faults>>

RxRead == /\ Alive /\ rx = "poll" /\ running /\ sent < MaxHidReports
          /\ \E l \in Layouts : rep' = HidReport(sent + 1, l)
          /\ sent' = sent + 1
          /\ RxGoes("push")
          /\ UNCHANGED <<running, ring, maxDepth, accepted, faults>>

\* poll or read fails, the device was unplugged: the thread ends, the other
\* one and the status go on.
RxReadFails == /\ Alive /\ rx = "poll" /\ running /\ Fault
               /\ RxGoes("ended")
               /\ UNCHANGED <<running, ring, rep, maxDepth, accepted, sent>>

\* Mutant: the sequence number of the slot is not looked at.
RxPushBlind == /\ Alive /\ rx = "push"
               /\ RxGoes("copy")
               /\ data' = [data EXCEPT ![Slot(head)] = Nothing]
               /\ UNCHANGED <<running, head, tail, slotSeq, rep, maxDepth, accepted, sent, faults>>

\* A full ring drops the new report.
RxPush == /\ Alive /\ rx = "push"
          /\ RxGoes(IF slotSeq[Slot(head)] = head THEN "copy" ELSE "depth")
          /\ data' = IF slotSeq[Slot(head)] = head THEN [data EXCEPT ![Slot(head)] = Nothing] ELSE data
          /\ UNCHANGED <<running, head, tail, slotSeq, rep, maxDepth, accepted, sent, faults>>

RxCopy == /\ Alive /\ rx = "copy"
          /\ data' = [data EXCEPT ![Slot(head)] = rep]
          /\ RxGoes("publish")
          /\ UNCHANGED <<running, head, tail, slotSeq, rep, maxDepth, accepted, sent, faults>>

RxPublish == /\ Alive /\ rx = "publish"
             /\ slotSeq' = [slotSeq EXCEPT ![Slot(head)] = head + 1]
             /\ accepted' = Append(accepted, rep)
             /\ RxGoes("advance")
             /\ UNCHANGED <<running, head, tail, data, rep, maxDepth, sent, faults>>

RxAdvance == /\ Alive /\ rx = "advance"
             /\ head' = head + 1
             /\ RxGoes("depth")
             /\ UNCHANGED <<running, tail, slotSeq, data, rep, maxDepth, accepted, sent, faults>>

\* size() reads the other thread's tail.
RxDepth == /\ Alive /\ rx = "depth"
           /\ maxDepth' = IF head - tail > maxDepth THEN head - tail ELSE maxDepth
           /\ RxGoes("poll")
           /\ UNCHANGED <<running, ring, rep, accepted, sent, faults>>

-----------------------------------------------------------------------------
(* The sending thread: tx_loop, try_pop and reencode *)

TxGoes(next) == tx' = next /\ UNCHANGED <<main, rx, rep, maxDepth, accepted, sent>>

TxOpen == /\ Alive /\ tx = "open"
          /\ TxGoes("loop")
          /\ UNCHANGED <<running, ring, taken, delivered, faults>>

TxOpenFails == /\ Alive /\ tx = "open" /\ Fault
               /\ TxGoes("ended") /\ running' = FALSE
               /\ UNCHANGED <<ring, taken, delivered>>

TxSeesStop == /\ Alive /\ tx = "loop" /\ ~running
              /\ TxGoes("ended")
              /\ UNCHANGED <<running, ring, taken, delivered, faults>>

TxTake == /\ Alive /\ tx = "loop" /\ running
          /\ slotSeq[Slot(tail)] = tail + 1
          /\ TxGoes("copy")
          /\ UNCHANGED <<running, ring, taken, delivered, faults>>

TxCopy == /\ Alive /\ tx = "copy"
          /\ taken' = data[Slot(tail)]
          /\ TxGoes("release")
          /\ UNCHANGED <<running, ring, delivered, faults>>

TxRelease == /\ Alive /\ tx = "release"
             /\ slotSeq' = [slotSeq EXCEPT ![Slot(tail)] = tail + N]
             /\ delivered' = Append(delivered, taken)
             /\ TxGoes("advance")
             /\ UNCHANGED <<running, head, tail, data, taken, faults>>

TxAdvance == /\ Alive /\ tx = "advance"
             /\ tail' = tail + 1
             /\ TxGoes("write")
             /\ UNCHANGED <<running, head, slotSeq, data, taken, delivered, faults>>

\* reencode: the length of what the gadget gets, 0 when the report is dropped.
\* A mouse report that begins with 2 is taken to have the id of the gadget's
\* own reports and passes as it is, also when 2 is the right button of a mouse
\* without ids; one without ids is widened to 9 bytes.  A keyboard's report
\* loses its id.
EncodedSize(r) ==
    IF Kind = "mouse"
    THEN CASE r.first \in {3, 4} -> 0
           [] r.first = 2       -> IF r.size > 16 THEN 0 ELSE r.size
           [] OTHER             -> IF r.size >= 3 THEN 9 ELSE 0
    ELSE LET skipped == IF r.size >= 9 /\ r.first # 0 THEN 1 ELSE 0
         IN IF r.size - skipped >= 8 THEN 8 ELSE 0

Encodes(r) == EncodedSize(r) > 0

\* The host may be absent or slow: the report is dropped, never retried.
TxWrite == /\ Alive /\ tx = "write"
           /\ \/ ~Encodes(taken.layout) /\ UNCHANGED faults
              \/ Encodes(taken.layout) /\ (UNCHANGED faults \/ Fault)
           /\ TxGoes("loop")
           /\ UNCHANGED <<running, ring, taken, delivered>>

-----------------------------------------------------------------------------
RxStep == \/ RxOpen \/ RxOpenFails \/ RxSeesStop \/ RxRead \/ RxReadFails
          \/ RxPush \/ RxCopy \/ RxPublish \/ RxAdvance \/ RxDepth
TxStep == \/ TxOpen \/ TxOpenFails \/ TxSeesStop \/ TxTake \/ TxCopy
          \/ TxRelease \/ TxAdvance \/ TxWrite
HidNext == Start \/ StartFails \/ Stop \/ Join \/ RxStep \/ TxStep

HidSpec == HidInit /\ [][HidNext]_hidVars

-----------------------------------------------------------------------------
(* The sending thread gets the accepted reports whole, in order and once,
   whatever the two threads do to the ring at the same time (SpscQueue.hpp). *)
InOrderOnce ==
    /\ Len(delivered) <= Len(accepted)
    /\ \A i \in 1..Len(delivered) : delivered[i] = accepted[i]

(* A report is refused only when the ring is full: the slot the receiving
   thread is about to try is free whenever fewer than N reports are inside. *)
RefusedOnlyWhenFull ==
    rx = "push" /\ Len(accepted) - Len(delivered) < N => slotSeq[Slot(head)] = head

(* An accepted report that is still inside can be taken: the sending thread
   never waits for a slot that is already published. *)
InsideIsTakeable ==
    tx = "loop" /\ Len(delivered) < Len(accepted) => slotSeq[Slot(tail)] = tail + 1

RingDelivers == InOrderOnce /\ RefusedOnlyWhenFull /\ InsideIsTakeable

(* What the two threads do to the ring, access by access, is a bounded
   queue of N reports: a read offers a report, the store that publishes the
   slot accepts it, the one that frees the slot takes it, and the rest of
   try_push and try_pop changes nothing the other side can tell. *)
Inside == SubSeq(accepted, Len(delivered) + 1, Len(accepted))
Offered == IF rx \in {"push", "copy", "publish"} THEN <<rep>> ELSE <<>>
LastTaken == IF delivered = <<>> THEN Nothing ELSE delivered[Len(delivered)]

Queue == INSTANCE BoundedQueue
           WITH Items <- [n : Nat, layout : Layouts], Size <- N, None <- Nothing,
                queue <- Inside, offer <- Offered, last <- LastTaken

(* The ring behaves as that queue, and delivers what it holds. *)
RingIsAQueue == Queue!Spec /\ []RingDelivers
=============================================================================
