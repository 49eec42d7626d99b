--------------------------- MODULE FramePipeline ---------------------------
(***************************************************************************)
(* One runtime from capture to aim: the capture thread of V4L2Capture, the *)
(* inference workers that take a frame each in turn, the mailbox with one  *)
(* slot per worker, the aim thread that takes the newest task, and the     *)
(* preview.  CoreRuntime starts and stops them in a fixed order, joining   *)
(* each before the next, and replaces the workers alone when a model is    *)
(* switched.  A worker shares nothing with another but LatestFrame.        *)
(***************************************************************************)
EXTENDS V4L2Capture

CONSTANTS NumWorkers,   \* worker_cores
          MaxSessions,  \* bound: starts
          MaxReloads    \* bound: reloads of the workers

Workers       == 0 .. NumWorkers - 1
PreviewThread == -1
AimThread     == -2
CaptureThread == -3
Threads == Workers \cup {PreviewThread, AimThread}

(* Those that take frames.                                                 *)
ASSUME PipelineAssumption == NumWorkers \in Nat /\ Consumers = Workers \cup {PreviewThread}

VARIABLES
  pc,           \* of the workers, the aim thread and the preview
  lastSeq,      \* InferenceWorker::last_seq_
  frame,        \* the sequence a worker infers
  slots,        \* AimTargetMailbox::slots_
  best, scan,   \* take_latest: best so far, next slot to look at
  lastFrame,    \* last_frame of AimThread::loop
  plan,         \* threads CoreRuntime has still to join, in order
  then,         \* what follows: "run", "close" or "reload"
  session, reloads,
  source        \* history: the session of the task last taken

control  == <<plan, then, session, reloads>>
workers  == <<lastSeq, frame>>
aim      == <<best, scan, lastFrame, source>>
vars     == <<capture, pc, workers, slots, aim, control>>

NoTask == [seq |-> 0, session |-> 0]
Cleared == [w \in Workers |-> NoTask]
Zero    == [w \in Workers |-> 0]

Init ==
  /\ CaptureInit
  /\ pc = [t \in Threads |-> "off"]
  /\ lastSeq = Zero /\ frame = Zero /\ slots = Cleared
  /\ best = NoTask /\ scan = 0 /\ lastFrame = 0 /\ source = 0
  /\ plan = << >> /\ then = "run" /\ session = 0 /\ reloads = 0

Stopping(t) == plan # << >> /\ Head(plan) = t
Up == capPc # "off" /\ then = "run"
-----------------------------------------------------------------------------
(* CoreRuntime::start.  The mailbox is cleared first.  When the workers    *)
(* fail to start, the capture that runs already is stopped.                *)
WorkerOrder == [i \in 1 .. NumWorkers |-> i - 1]
StopOrder   == <<PreviewThread, AimThread>> \o WorkerOrder \o <<CaptureThread>>

Begin ==
  /\ capPc = "off" /\ session < MaxSessions
  /\ session' = session + 1
  /\ StartCapture
  /\ lastSeq' = Zero /\ frame' = Zero
  /\ best' = NoTask /\ scan' = 0 /\ lastFrame' = 0 /\ source' = 0
  /\ \/ /\ pc' = [t \in Threads |-> "top"]
        /\ UNCHANGED <<plan, then>>
     \/ /\ plan' = <<CaptureThread>> /\ then' = "close"
        /\ UNCHANGED pc
  /\ UNCHANGED <<held, reloads>>

(* Mutant: what the last session left in the mailbox stays.                *)
StartUncleared == Begin /\ UNCHANGED slots

Start == Begin /\ slots' = Cleared

(* CoreRuntime::stop: each thread is told to stop and joined in turn.      *)
Leave(order, next) ==
  /\ Up
  /\ plan' = order /\ then' = next
  /\ UNCHANGED <<capture, pc, workers, slots, aim, session>>

(* Mutant: the capture is stopped before those who use its frames.         *)
StopCaptureFirst ==
  Leave(<<CaptureThread, PreviewThread, AimThread>> \o WorkerOrder, "close")
  /\ UNCHANGED reloads

Stop == Leave(StopOrder, "close") /\ UNCHANGED reloads

(* reload_workers: the workers leave, the others go on.                    *)
Reload ==
  /\ reloads < MaxReloads /\ reloads' = reloads + 1
  /\ Leave(WorkerOrder, "reload")

Join ==
  /\ plan # << >> /\ Head(plan) # CaptureThread /\ pc[Head(plan)] = "gone"
  /\ pc' = [pc EXCEPT ![Head(plan)] = "off"]
  /\ plan' = Tail(plan)
  /\ UNCHANGED <<capture, workers, slots, aim, then, session, reloads>>

JoinCapture ==
  /\ Stopping(CaptureThread) /\ CloseCapture
  /\ plan' = Tail(plan)
  /\ then' = IF Tail(plan) = << >> THEN "run" ELSE then
  /\ UNCHANGED <<pc, workers, slots, aim, session, reloads>>

(* The new workers start, or else the old ones again, or else the runtime  *)
(* is stopped.                                                             *)
Reloaded ==
  /\ then = "reload" /\ plan = << >>
  /\ slots' = Cleared
  /\ \/ /\ pc' = [t \in Threads |-> IF t \in Workers THEN "top" ELSE pc[t]]
        /\ lastSeq' = Zero /\ frame' = Zero /\ then' = "run"
        /\ UNCHANGED plan
     \/ /\ plan' = <<PreviewThread, AimThread, CaptureThread>> /\ then' = "close"
        /\ UNCHANGED <<pc, workers>>
  /\ UNCHANGED <<capture, best, scan, lastFrame, source, session, reloads>>
-----------------------------------------------------------------------------
(* InferenceWorker::loop.                                                  *)
Go(t, label) == pc' = [pc EXCEPT ![t] = label]
NewFrame(w) == latest # NoFrame /\ latest.seq # lastSeq[w]

(* Mutant: wait_new has no timeout and misses the stop.                    *)
QuitOnFrame(t) == /\ pc[t] = "top" /\ Stopping(t)
                  /\ t \in Workers => NewFrame(t)
                  /\ Go(t, "gone")
                  /\ UNCHANGED <<capture, workers, slots, aim, control>>

Quit(t) == /\ pc[t] = "top" /\ Stopping(t)
           /\ Go(t, "gone")
           /\ UNCHANGED <<capture, workers, slots, aim, control>>

(* wait_new returns a frame other than the last one, or times out, after   *)
(* which the loop looks at its flag again.  A frame is of one worker.      *)
Claim(w) ==
  /\ pc[w] = "top" /\ ~Stopping(w) /\ NewFrame(w)
  /\ lastSeq' = [lastSeq EXCEPT ![w] = latest.seq]
  /\ IF latest.seq % NumWorkers = w
     THEN Take(w) /\ Go(w, "preprocess")
     ELSE UNCHANGED <<held, pc>>
  /\ UNCHANGED <<capPc, ring, seq, latest, faults, frame, slots, aim, control>>

(* The reference to the frame ends with the preprocessing, and so does the *)
(* turn when it fails.                                                     *)
Preprocess(w) ==
  /\ pc[w] = "preprocess"
  /\ Drop(w)
  /\ \/ frame' = [frame EXCEPT ![w] = held[w].seq] /\ Go(w, "infer")
     \/ Go(w, "top") /\ UNCHANGED frame
  /\ UNCHANGED <<capPc, ring, seq, latest, faults, lastSeq, slots, aim, control>>

(* Inference, decoding and the offer to the mailbox.                       *)
Infer(w) ==
  /\ pc[w] = "infer"
  /\ Go(w, "top")
  /\ \/ slots' = [slots EXCEPT ![w] = [seq |-> frame[w], session |-> session]]
     \/ UNCHANGED slots
  /\ frame' = [frame EXCEPT ![w] = 0]
  /\ UNCHANGED <<capture, lastSeq, aim, control>>
-----------------------------------------------------------------------------
(* AimThread::loop: take_latest looks at the slots one after the other,    *)
(* while the workers go on offering.                                       *)
Scan ==
  /\ pc[AimThread] = "top" /\ ~Stopping(AimThread)
  /\ Go(AimThread, "scan")
  /\ best' = [seq |-> lastFrame, session |-> source] /\ scan' = 0
  /\ UNCHANGED <<capture, workers, slots, lastFrame, source, control>>

Newer == slots[scan].seq > best.seq
Look ==
  /\ pc[AimThread] = "scan" /\ scan < NumWorkers
  /\ best' = IF Newer THEN slots[scan] ELSE best
  /\ scan' = scan + 1
  /\ UNCHANGED <<capture, pc, workers, slots, lastFrame, source, control>>

Aim ==
  /\ pc[AimThread] = "scan" /\ scan = NumWorkers
  /\ lastFrame' = best.seq /\ source' = best.session
  /\ best' = NoTask /\ scan' = 0
  /\ Go(AimThread, "top")
  /\ UNCHANGED <<capture, workers, slots, control>>

(* PreviewModule::loop.                                                    *)
Preview ==
  /\ \/ /\ pc[PreviewThread] = "top" /\ ~Stopping(PreviewThread) /\ latest # NoFrame
        /\ Take(PreviewThread) /\ Go(PreviewThread, "encode")
     \/ /\ pc[PreviewThread] = "encode"
        /\ Drop(PreviewThread) /\ Go(PreviewThread, "top")
  /\ UNCHANGED <<capPc, ring, seq, latest, faults, workers, slots, aim, control>>
-----------------------------------------------------------------------------
CaptureThreadStep == LoopTop(Stopping(CaptureThread)) \/ PollTimeout \/ Capture
CaptureStep ==
  /\ CaptureThreadStep \/ Fill \/ PollFails
  /\ UNCHANGED <<pc, workers, slots, aim, control>>

WorkerStep(w) == Claim(w) \/ Preprocess(w) \/ Infer(w)
AimStep == Scan \/ Look \/ Aim
CoreStep == Join \/ JoinCapture \/ Reloaded

Next ==
  \/ Start \/ Stop \/ Reload \/ CoreStep
  \/ CaptureStep \/ AimStep \/ Preview
  \/ \E t \in Threads : Quit(t)
  \/ \E w \in Workers : WorkerStep(w)

Spec == Init /\ [][Next]_vars

(* Every thread is scheduled: none of them waits without a timeout, and    *)
(* the calls of a worker return.  The driver may stop delivering.          *)
Fairness ==
  /\ WF_vars(CaptureThreadStep /\ UNCHANGED <<pc, workers, slots, aim, control>>)
  /\ WF_vars(AimStep) /\ WF_vars(Preview) /\ WF_vars(CoreStep)
  /\ \A t \in Threads : WF_vars(Quit(t))
  /\ \A w \in Workers : WF_vars(WorkerStep(w))

FairSpec == Spec /\ Fairness
-----------------------------------------------------------------------------
(* Whoever reads a frame has left before the capture unmaps its buffers.   *)
NoUseAfterClose == capPc = "off" => held = NoHold

(* A task of the last session never reaches the aim thread of this one,    *)
(* whose frames are numbered from 0 again.                                 *)
SourceIsSession == lastFrame # 0 => source = session

(* A stop comes to its end: every thread looks at its flag again.          *)
StopEnds == (then = "close") ~> (capPc = "off")
=============================================================================
