---------------------------- MODULE InterruptRing ----------------------------
(***************************************************************************)
(* The ring of interrupt transfers that a reader of an IN endpoint keeps   *)
(* in flight (usbproxy/device-libusb.cpp).  The reader creates it, takes   *)
(* its reports and destroys it; the thread that pumps libusb's events runs *)
(* one completion callback at a time.  Only the number of the reports that *)
(* wait is kept.                                                           *)
(***************************************************************************)
EXTENDS Integers, FiniteSets

CONSTANTS
  Depth,    \* INT_RING_DEPTH, the transfers of the ring
  RingMax   \* INT_RING_QUEUE_MAX

Transfers == 1 .. Depth
ASSUME RingAssumption == Depth \in Nat \ {0, 1} /\ RingMax \in Nat \ {0}

VARIABLES
  reader,     \* "new", "submit", "count", "next", "destroy", "cancel", "wait", and at the end "freed" or "leaked"
  turn,       \* the transfer the reader is at
  xfer,       \* "idle", "flying", "done" (its callback is due), or in the callback
  cancelled,  \* the transfers libusb was asked to cancel
  cb,         \* the callback that runs: its transfer (0: none), its step and its status
  waiting,    \* pending.size()
  stopping, stalled, inflight, fatal,   \* of the ring
  gone        \* the device is unplugged

rvars == <<reader, turn, xfer, cancelled, cb, waiting, stopping, stalled, inflight, fatal, gone>>

NoCallback == [of |-> 0, at |-> "none", status |-> "none"]
Ended == {"freed", "leaked"}
Statuses == {"completed", "empty", "stall", "no_device", "cancelled", "error"}

RingInit ==
  /\ reader = "new" /\ turn = 1 /\ xfer = [t \in Transfers |-> "idle"]
  /\ cancelled = {} /\ cb = NoCallback /\ waiting = 0
  /\ stopping = FALSE /\ stalled = FALSE /\ inflight = 0 /\ fatal = "none" /\ gone = FALSE
-----------------------------------------------------------------------------
(* The device, and libusb's answer to a submission.                        *)
Vanish ==
  /\ ~gone /\ gone' = TRUE
  /\ UNCHANGED <<reader, turn, xfer, cancelled, cb, waiting, stopping, stalled, inflight, fatal>>

Accepted(t) == ~gone /\ xfer' = [xfer EXCEPT ![t] = "flying"] /\ cancelled' = cancelled \ {t}
Error == IF gone THEN "no_device" ELSE "other"
Outcomes(t) ==
  IF gone THEN {"no_device"}
  ELSE IF t \in cancelled THEN {"cancelled", "completed"}
  ELSE {"completed", "empty", "stall", "error"}

(* A transfer ends, and the pump calls the callback; not two at a time.    *)
Complete(t) ==
  /\ xfer[t] = "flying" /\ cb = NoCallback
  /\ xfer' = [xfer EXCEPT ![t] = "done"]
  /\ \E s \in Outcomes(t) : cb' = [of |-> t, at |-> "begin", status |-> s]
  /\ UNCHANGED <<reader, turn, cancelled, waiting, stopping, stalled, inflight, fatal, gone>>
-----------------------------------------------------------------------------
(* interrupt_transfer_cb.  A queue at its limit loses its oldest report.   *)
CbGoes(s) == cb' = [cb EXCEPT !.at = s]

CbBegins ==
  /\ cb.at = "begin" /\ CbGoes("test")
  /\ waiting' = IF cb.status = "completed" /\ waiting < RingMax THEN waiting + 1 ELSE waiting
  /\ fatal' = IF cb.status = "no_device" THEN "no_device" ELSE fatal
  /\ stalled' = (stalled \/ cb.status = "stall")
  /\ UNCHANGED <<reader, turn, xfer, cancelled, stopping, inflight, gone>>

CbTests ==
  /\ cb.at = "test" /\ CbGoes(IF stopping THEN "retire" ELSE "submit")
  /\ UNCHANGED <<reader, turn, xfer, cancelled, waiting, stopping, stalled, inflight, fatal, gone>>

(* Mutant: a failed resubmission is only logged.                           *)
FailsQuietly == fatal' = fatal

Fails == fatal' = Error

CbSubmits ==
  /\ cb.at = "submit"
  /\ \/ Accepted(cb.of) /\ cb' = NoCallback /\ UNCHANGED fatal
     \/ Fails /\ CbGoes("retire") /\ UNCHANGED <<xfer, cancelled>>
  /\ UNCHANGED <<reader, turn, waiting, stopping, stalled, inflight, gone>>

CbRetires ==
  /\ cb.at = "retire" /\ CbGoes("tail")
  /\ inflight' = inflight - 1 /\ xfer' = [xfer EXCEPT ![cb.of] = "idle"]
  /\ UNCHANGED <<reader, turn, cancelled, waiting, stopping, stalled, fatal, gone>>

(* It reads the ring once more, and wakes the reader.                      *)
CbEnds ==
  /\ cb.at = "tail" /\ cb' = NoCallback
  /\ UNCHANGED <<reader, turn, xfer, cancelled, waiting, stopping, stalled, inflight, fatal, gone>>
-----------------------------------------------------------------------------
(* The reader.  interrupt_ring_create counts a transfer after it has       *)
(* submitted it, and goes on with those it could submit.                   *)
ReaderGoes(r) == reader' = r /\ turn' = 1

Create ==
  /\ reader = "new" /\ ReaderGoes("submit")
  /\ UNCHANGED <<xfer, cancelled, cb, waiting, stopping, stalled, inflight, fatal, gone>>

Submit ==
  /\ reader = "submit"
  /\ \/ Accepted(turn) /\ reader' = "count" /\ UNCHANGED <<turn, fatal>>
     \/ fatal' = Error /\ ReaderGoes("next") /\ UNCHANGED <<xfer, cancelled>>
  /\ UNCHANGED <<cb, waiting, stopping, stalled, inflight, gone>>

Count ==
  /\ reader = "count" /\ inflight' = inflight + 1
  /\ IF turn < Depth THEN reader' = "submit" /\ turn' = turn + 1 ELSE ReaderGoes("next")
  /\ UNCHANGED <<xfer, cancelled, cb, waiting, stopping, stalled, fatal, gone>>

(* interrupt_ring_next: a halt is cleared here, then the oldest report is  *)
(* taken; without one there is an error or, after a while, a timeout, and  *)
(* the reader looks at its flags and asks again.                           *)
TakeReport ==
  /\ reader = "next"
  /\ stalled' = FALSE
  /\ waiting' = IF waiting > 0 THEN waiting - 1 ELSE 0
  /\ UNCHANGED <<reader, turn, xfer, cancelled, cb, stopping, inflight, fatal, gone>>

(* It leaves its loop when it is told to, when the device is gone, or      *)
(* after twenty errors.                                                    *)
Leave ==
  /\ reader = "next" /\ ReaderGoes("destroy")
  /\ UNCHANGED <<xfer, cancelled, cb, waiting, stopping, stalled, inflight, fatal, gone>>

(* interrupt_ring_destroy.                                                 *)
Destroy ==
  /\ reader = "destroy" /\ stopping' = TRUE /\ ReaderGoes("cancel")
  /\ UNCHANGED <<xfer, cancelled, cb, waiting, stalled, inflight, fatal, gone>>

Cancel ==
  /\ reader = "cancel"
  /\ cancelled' = IF xfer[turn] = "flying" THEN cancelled \cup {turn} ELSE cancelled
  /\ IF turn < Depth THEN turn' = turn + 1 /\ UNCHANGED reader ELSE ReaderGoes("wait")
  /\ UNCHANGED <<xfer, cb, waiting, stopping, stalled, inflight, fatal, gone>>

Drained == inflight <= 0

(* 300 ms at most; a ring with transfers in flight is not freed.           *)
Finish ==
  /\ reader = "wait" /\ ReaderGoes(IF Drained THEN "freed" ELSE "leaked")
  /\ UNCHANGED <<xfer, cancelled, cb, waiting, stopping, stalled, inflight, fatal, gone>>
-----------------------------------------------------------------------------
RingNext ==
  \/ Vanish \/ \E t \in Transfers : Complete(t)
  \/ CbBegins \/ CbTests \/ CbSubmits \/ CbRetires \/ CbEnds
  \/ Create \/ Submit \/ Count \/ TakeReport \/ Leave \/ Destroy \/ Cancel \/ Finish
RingSpec == RingInit /\ [][RingNext]_rvars
-----------------------------------------------------------------------------
Submitted == {t \in Transfers : xfer[t] # "idle"}

(* A ring that has nothing in flight any more tells its reader, in         *)
(* whatever order submissions fail, callbacks run and the device goes: the *)
(* reader never waits for reports that cannot come.                        *)
RingNeverSilent == reader = "next" /\ Submitted = {} => fatal # "none"

(* A ring is freed when no transfer of it is in flight or in its callback, *)
(* and inflight is then exactly 0, although a callback may run between the *)
(* submission of a transfer and its being counted, or resubmit a transfer  *)
(* after its cancellation.                                                 *)
FreedIsRetired == reader = "freed" => Submitted = {} /\ inflight = 0

(* The reader is neither left waiting nor ahead of the callbacks.          *)
RingIsSound == RingNeverSilent /\ FreedIsRetired
=============================================================================
