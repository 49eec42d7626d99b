---------------------------- MODULE V4L2Capture ----------------------------
(***************************************************************************)
(* The capture of one session: a ring of buffers that go round between the *)
(* video driver and the capture thread, and LatestFrame, the one frame the *)
(* consumers (inference workers and the preview) can take.  A FrameBuffer  *)
(* is a shared_ptr: it lives as long as LatestFrame or a consumer refers   *)
(* to it, and its pixels are those of its buffer.  The driver is external. *)
(* open() and close() bracket every session, so nothing of a ring is left  *)
(* for the next; the threads that use it are those of a FramePipeline.     *)
(***************************************************************************)
EXTENDS Integers, Sequences, FiniteSets, Functions

CONSTANTS
  NumBuffers,   \* Params::num_buffers
  Consumers,    \* threads that take frames
  NoFrame,      \* the null pointer
  MaxSeq,       \* bound: frames of one session
  MaxFaults     \* bound: failures of poll

ASSUME CaptureAssumption == NumBuffers \in Nat

VARIABLES
  capPc,        \* the capture thread: "off", "top", "poll", "gone"
  queue,        \* buffers the driver may write, in the order it will
  done,         \* frames the driver has filled and poll() reports
  seq,          \* buf.sequence of the next one
  captured,     \* Impl::captured
  pending,      \* Impl::pending
  latest,       \* LatestFrame::current_
  held,         \* the frame each consumer refers to
  faults

ring == <<queue, done, captured, pending>>
capture == <<capPc, ring, seq, latest, held, faults>>

Buffers == 0 .. NumBuffers - 1
NoHold  == [c \in Consumers |-> NoFrame]

CaptureInit ==
  /\ capPc = "off" /\ queue = << >> /\ done = << >> /\ seq = 0
  /\ captured = {} /\ pending = << >> /\ latest = NoFrame
  /\ held = NoHold /\ faults = 0

(* start: every buffer is handed to the driver and the thread begins.      *)
StartCapture ==
  /\ capPc = "off"
  /\ capPc' = "top"
  /\ queue' = [i \in 1 .. NumBuffers |-> i - 1]
  /\ UNCHANGED <<done, seq, captured, pending, latest, faults>>

(* stop, after the thread was joined, and close.                           *)
CloseCapture ==
  /\ capPc = "gone"
  /\ capPc' = "off"
  /\ queue' = << >> /\ done' = << >> /\ seq' = 0
  /\ captured' = {} /\ pending' = << >> /\ latest' = NoFrame
  /\ UNCHANGED <<held, faults>>
-----------------------------------------------------------------------------
(* The driver writes the next buffer of its queue.                         *)
Fill ==
  /\ capPc # "off" /\ queue # << >> /\ seq < MaxSeq
  /\ done' = Append(done, [buffer |-> Head(queue), seq |-> seq])
  /\ queue' = Tail(queue)
  /\ seq' = seq + 1
  /\ UNCHANGED <<capPc, captured, pending, latest, held, faults>>

Alive(f) == latest = f \/ \E c \in Consumers : held[c] = f

(* The entries of the list at these positions, in the order of the list.   *)
EntriesAt(positions) ==
  [n \in 1 .. Cardinality(positions) |->
     pending[CHOOSE i \in positions : Cardinality({j \in positions : j <= i}) = n]]

(* release_ready_buffers: an entry whose frame nobody refers to any more   *)
(* goes back to the driver.  A dead frame stays dead, so looking at every  *)
(* entry at once finds what looking at them in turn finds.                 *)
Ready == EntriesAt({i \in DOMAIN pending : ~Alive(pending[i].frame)})
Kept  == EntriesAt({i \in DOMAIN pending : Alive(pending[i].frame)})

Returned == [i \in DOMAIN Ready |-> Ready[i].buffer]

(* Mutant: what was returned stays listed.                                 *)
ReleasesAgain(stopping) ==
  /\ capPc = "top"
  /\ IF stopping
     THEN capPc' = "gone" /\ UNCHANGED ring
     ELSE /\ capPc' = "poll"
          /\ queue' = queue \o Returned
          /\ captured' = captured \ Range(Returned)
          /\ UNCHANGED <<done, pending>>
  /\ UNCHANGED <<seq, latest, held, faults>>

LoopTop(stopping) ==
  /\ capPc = "top"
  /\ IF stopping
     THEN capPc' = "gone" /\ UNCHANGED ring
     ELSE /\ capPc' = "poll"
          /\ queue' = queue \o Returned
          /\ captured' = captured \ Range(Returned)
          /\ pending' = Kept
          /\ UNCHANGED done
  /\ UNCHANGED <<seq, latest, held, faults>>

(* poll times out only when there is no frame.                             *)
PollTimeout ==
  /\ capPc = "poll" /\ done = << >>
  /\ capPc' = "top"
  /\ UNCHANGED <<ring, seq, latest, held, faults>>

(* poll fails, and the thread leaves its loop with running_ still true; or *)
(* it is interrupted, or DQBUF fails, and the loop begins again.           *)
PollFails ==
  /\ capPc = "poll" /\ faults < MaxFaults
  /\ faults' = faults + 1
  /\ capPc' \in {"gone", "top"}
  /\ UNCHANGED <<ring, seq, latest, held>>

(* What is noted for the frame that is replaced is the index of the buffer *)
(* just taken from the driver, not its own.                                *)
Superseded(new) ==
  IF latest = NoFrame THEN << >>
  ELSE <<[buffer |-> new.buffer, frame |-> latest]>>

(* DQBUF, LatestFrame::publish and a release; the local `old` still refers *)
(* to the frame that is replaced, so that entry waits for the next turn.   *)
Capture ==
  /\ capPc = "poll" /\ done # << >>
  /\ LET new == Head(done)
     IN  /\ captured' = (captured \cup {new.buffer}) \ Range(Returned)
         /\ pending' = Kept \o Superseded(new)
         /\ latest' = new
  /\ done' = Tail(done) /\ queue' = queue \o Returned
  /\ capPc' = "top"
  /\ UNCHANGED <<seq, held, faults>>
-----------------------------------------------------------------------------
(* LatestFrame::get, and the end of the reference.                         *)
Take(c) == held' = [held EXCEPT ![c] = latest]
Drop(c) == held' = [held EXCEPT ![c] = NoFrame]
-----------------------------------------------------------------------------
(* A buffer is with the driver, filled, or captured, and never twice: no   *)
(* QBUF of a buffer the driver has, no buffer lost to both sides.          *)
Places == queue \o [i \in DOMAIN done |-> done[i].buffer]
BuffersAccounted ==
  capPc # "off" => /\ Cardinality(Range(Places)) = Len(Places)
                   /\ Range(Places) \cup captured = Buffers
                   /\ Range(Places) \cap captured = {}

(* "An old frame is not returned early while a consumer uses it"           *)
(* (V4L2Capture.hpp): the driver has no buffer whose pixels a consumer is  *)
(* reading.                                                                *)
FrameKept ==
  \A c \in Consumers :
     held[c] # NoFrame => held[c].buffer \notin Range(Places)
=============================================================================
