------------------------ MODULE FramePipelineProofs ------------------------
(***************************************************************************)
(* What the path of a frame promises.  Of the threads of FramePipeline,    *)
(* for any number of workers, buffers, frames, sessions and reloads: none  *)
(* reads a frame when the capture unmaps its buffers, the aim thread gets  *)
(* no task of another session, and no buffer of the capture's ring is lost *)
(* or queued twice.  Of one worker's memories (InferenceEngine), for any   *)
(* number of outputs, frames and sizes: what an inference reads is the     *)
(* frame it is for.  Of the decoding (DetectionDecode), for every input:   *)
(* which decoder a model gets, what the NMS keeps, and where a box is.     *)
(***************************************************************************)
EXTENDS FramePipeline, InferenceEngine, SequenceTheorems, FiniteSetTheorems, WellFoundedInduction, TLAPS

CONSTANTS FieldLimit, BinsMin, BinsMax, Step   \* of DetectionDecode

(* A thread refers to a frame only between taking it and dropping it.      *)
PipelineTyped ==
  /\ pc \in [Threads -> {"off", "top", "preprocess", "infer", "encode", "scan", "gone"}]
  /\ plan \in Seq(Threads \cup {CaptureThread}) /\ then \in {"run", "close", "reload"}
  /\ held = [c \in Consumers |-> held[c]]
  /\ slots = [w \in Workers |-> slots[w]] /\ scan \in 0 .. NumWorkers
HeldSound == \A c \in Consumers : held[c] # NoFrame => pc[c] \in {"preprocess", "encode"}

(* Every thread that is there runs, or CoreRuntime has still to join it;   *)
(* the capture is joined last.                                             *)
Planned(t) == \E i \in 1 .. Len(plan) : plan[i] = t
PlanSound ==
  /\ then = "run" => plan = << >>
  /\ then = "close" => Len(plan) > 0 /\ plan[Len(plan)] = CaptureThread
                       /\ \A i \in 1 .. Len(plan) - 1 : plan[i] # CaptureThread
  /\ then = "reload" => \A i \in 1 .. Len(plan) : plan[i] \in Workers
  /\ capPc = "off" => then = "run"
JoinedSound ==
  \A t \in Threads : pc[t] # "off" =>
    Planned(t) \/ (capPc # "off" /\ (then = "run" \/ (then = "reload" /\ t \notin Workers)))

(* Whatever task is about is of the session that runs.                     *)
OfSession(task) == task.seq # 0 => task.session = session
TasksSound == /\ \A w \in Workers : OfSession(slots[w])
              /\ OfSession(best) /\ SourceIsSession

PipelineInv == PipelineTyped /\ HeldSound /\ PlanSound /\ JoinedSound /\ TasksSound
-----------------------------------------------------------------------------
LEMMA ThreadsAre ==
  /\ NumWorkers \in Nat /\ Workers \subseteq Nat /\ Consumers = Workers \cup {-1}
  /\ Threads = Workers \cup {-1, -2} /\ PreviewThread = -1 /\ AimThread = -2 /\ CaptureThread = -3
  /\ CaptureThread \notin Threads /\ PreviewThread \notin Workers /\ AimThread \notin Workers
  /\ Consumers \subseteq Threads /\ AimThread \notin Consumers
  BY PipelineAssumption DEF Workers, Threads, PreviewThread, AimThread, CaptureThread

LEMMA OrdersAre ==
  /\ WorkerOrder \in Seq(Threads \cup {CaptureThread}) /\ Len(WorkerOrder) = NumWorkers
  /\ \A i \in 1 .. NumWorkers : WorkerOrder[i] = i - 1 /\ WorkerOrder[i] \in Workers
  /\ \A w \in Workers : w + 1 \in 1 .. NumWorkers /\ WorkerOrder[w + 1] = w
<1>1. \A i \in 1 .. NumWorkers : i - 1 \in Workers /\ i - 1 \in Threads
  BY ThreadsAre DEF Workers
<1>2. WorkerOrder \in Seq(Threads \cup {CaptureThread}) /\ Len(WorkerOrder) = NumWorkers
  BY <1>1, ThreadsAre DEF WorkerOrder
<1>3. \A i \in 1 .. NumWorkers : WorkerOrder[i] = i - 1
  BY DEF WorkerOrder
<1>4. ASSUME NEW w \in Workers PROVE w + 1 \in 1 .. NumWorkers /\ WorkerOrder[w + 1] = w
  <2>1. w + 1 \in 1 .. NumWorkers /\ w + 1 - 1 = w
    BY ThreadsAre DEF Workers
  <2> DEFINE i == w + 1
  <2>2. i \in 1 .. NumWorkers /\ i - 1 = w
    BY <2>1, ThreadsAre DEF Workers
  <2> HIDE DEF i
  <2>3. WorkerOrder[i] = w
    BY <2>2, <1>3
  <2> QED BY <2>1, <2>3 DEF i
<1> QED BY <1>1, <1>2, <1>3, <1>4

LEMMA StopOrderIs ==
  /\ StopOrder \in Seq(Threads \cup {CaptureThread}) /\ Len(StopOrder) = NumWorkers + 3
  /\ StopOrder[1] = PreviewThread /\ StopOrder[2] = AimThread
  /\ \A i \in 1 .. NumWorkers : StopOrder[i + 2] = WorkerOrder[i]
  /\ StopOrder[NumWorkers + 3] = CaptureThread
<1> DEFINE T == Threads \cup {CaptureThread}
           first == <<PreviewThread, AimThread>>
           final == <<CaptureThread>>
           two == first \o WorkerOrder
<1>1. first \in Seq(T) /\ Len(first) = 2 /\ first[1] = PreviewThread /\ first[2] = AimThread
  BY ThreadsAre
<1>2. final \in Seq(T) /\ Len(final) = 1 /\ final[1] = CaptureThread
  OBVIOUS
<1>3. WorkerOrder \in Seq(T) /\ Len(WorkerOrder) = NumWorkers /\ NumWorkers \in Nat
  BY OrdersAre, ThreadsAre
<1>6. StopOrder = two \o final
  BY DEF StopOrder
<1> HIDE DEF T, first, final
<1>4. /\ two \in Seq(T) /\ Len(two) = NumWorkers + 2
      /\ \A i \in 1 .. NumWorkers + 2 : two[i] = IF i <= 2 THEN first[i] ELSE WorkerOrder[i - 2]
  <2>1. /\ first \o WorkerOrder \in Seq(T)
        /\ Len(first \o WorkerOrder) = Len(first) + Len(WorkerOrder)
        /\ \A i \in 1 .. Len(first) + Len(WorkerOrder) :
             (first \o WorkerOrder)[i] = IF i <= Len(first) THEN first[i] ELSE WorkerOrder[i - Len(first)]
    BY <1>1, <1>3, ConcatProperties, Zenon
  <2>2. Len(first) + Len(WorkerOrder) = NumWorkers + 2
    BY <1>1, <1>3
  <2> QED BY <1>1, <1>3, <2>1, <2>2
<1> HIDE DEF two
<1>5. /\ two \o final \in Seq(T) /\ Len(two \o final) = NumWorkers + 3
      /\ \A i \in 1 .. NumWorkers + 3 : (two \o final)[i] = IF i <= NumWorkers + 2 THEN two[i] ELSE final[i - (NumWorkers + 2)]
  <2>1. /\ two \o final \in Seq(T)
        /\ Len(two \o final) = Len(two) + Len(final)
        /\ \A i \in 1 .. Len(two) + Len(final) :
             (two \o final)[i] = IF i <= Len(two) THEN two[i] ELSE final[i - Len(two)]
    BY <1>2, <1>4, ConcatProperties, Zenon
  <2>2. Len(two) + Len(final) = NumWorkers + 3
    BY <1>2, <1>3, <1>4
  <2> QED BY <1>2, <1>4, <2>1, <2>2
<1> DEFINE order == two \o final
<1> HIDE DEF order
<1>7. /\ order[1] = first[1] /\ order[2] = first[2] /\ order[NumWorkers + 3] = final[1]
  BY <1>3, <1>4, <1>5 DEF order
<1>8. ASSUME NEW i \in 1 .. NumWorkers PROVE order[i + 2] = WorkerOrder[i]
  <2>1. i + 2 \in 1 .. NumWorkers + 3 /\ i + 2 <= NumWorkers + 2 /\ ~(i + 2 <= 2) /\ i + 2 - 2 = i
    BY <1>3
  <2>2. order[i + 2] = two[i + 2]
    BY <2>1, <1>5 DEF order
  <2>3. two[i + 2] = WorkerOrder[i + 2 - 2]
    BY <2>1, <1>4, <1>3
  <2> QED BY <2>1, <2>2, <2>3
<1> QED BY <1>1, <1>2, <1>3, <1>5, <1>6, <1>7, <1>8 DEF T, order

LEMMA PipelineInitInv == Init => PipelineInv
<1> SUFFICES ASSUME Init PROVE PipelineInv
  OBVIOUS
<1> USE ThreadsAre DEF Init, CaptureInit
<1>1. PipelineTyped
  BY DEF PipelineTyped, NoHold, Cleared
<1>2. HeldSound /\ PlanSound /\ JoinedSound
  BY DEF HeldSound, PlanSound, JoinedSound, NoHold
<1>3. TasksSound
  BY DEF TasksSound, OfSession, Cleared, NoTask, SourceIsSession
<1> QED BY <1>1, <1>2, <1>3 DEF PipelineInv

(* Which threads a stop, and which a reload, waits for.                    *)
LEMMA EveryoneIsJoined ==
  /\ \A t \in Threads : \E i \in 1 .. Len(StopOrder) : StopOrder[i] = t
  /\ \A w \in Workers : \E i \in 1 .. Len(WorkerOrder) : WorkerOrder[i] = w
  /\ \A i \in 1 .. Len(StopOrder) - 1 : StopOrder[i] # CaptureThread
<1>1. ASSUME NEW w \in Workers
      PROVE  /\ \E i \in 1 .. Len(WorkerOrder) : WorkerOrder[i] = w
             /\ \E i \in 1 .. Len(StopOrder) : StopOrder[i] = w
  <2>1. w + 1 \in 1 .. Len(WorkerOrder) /\ WorkerOrder[w + 1] = w
    BY OrdersAre
  <2>2. StopOrder[w + 1 + 2] = w
    BY <2>1, OrdersAre, StopOrderIs
  <2>3. w + 1 + 2 \in 1 .. Len(StopOrder)
    BY OrdersAre, StopOrderIs, ThreadsAre
  <2> QED BY <2>1, <2>2, <2>3
<1>2. \E i \in 1 .. Len(StopOrder) : StopOrder[i] = PreviewThread
  BY StopOrderIs, ThreadsAre
<1>3. \E i \in 1 .. Len(StopOrder) : StopOrder[i] = AimThread
  BY StopOrderIs, ThreadsAre
<1>4. ASSUME NEW i \in 1 .. NumWorkers + 2 PROVE StopOrder[i] \in Threads
  <2>1. CASE i \in {1, 2}
    BY <2>1, StopOrderIs, ThreadsAre
  <2>2. CASE i \notin {1, 2}
    <3>1. i - 2 \in 1 .. NumWorkers /\ i - 2 + 2 = i
      BY <2>2, ThreadsAre
    <3>2. StopOrder[i] = WorkerOrder[i - 2]
      BY <3>1, StopOrderIs
    <3> QED BY <3>1, <3>2, OrdersAre, ThreadsAre
  <2> QED BY <2>1, <2>2
<1>5. Len(StopOrder) - 1 = NumWorkers + 2
  BY StopOrderIs, ThreadsAre
<1>6. \A t \in Threads : t \in Workers \/ t = PreviewThread \/ t = AimThread
  BY ThreadsAre
<1> QED BY <1>1, <1>2, <1>3, <1>4, <1>5, <1>6, ThreadsAre

(* A runtime whose capture is off has no thread left.                      *)
LEMMA ClosedIsQuiet ==
  ASSUME PipelineInv, capPc = "off"
  PROVE  then = "run" /\ plan = << >> /\ \A t \in Threads : pc[t] = "off"
<1>1. then = "run" /\ plan = << >>
  BY DEF PipelineInv, PlanSound
<1>2. \A t \in Threads : ~Planned(t)
  BY <1>1 DEF Planned
<1> QED BY <1>1, <1>2 DEF PipelineInv, JoinedSound

LEMMA NobodyHolds ==
  ASSUME PipelineInv, capPc = "off"
  PROVE  held = NoHold
<1>1. \A c \in Consumers : held[c] = NoFrame
  BY ClosedIsQuiet, ThreadsAre DEF PipelineInv, HeldSound
<1> QED BY <1>1 DEF PipelineInv, PipelineTyped, NoHold

-----------------------------------------------------------------------------
(* A thread that goes on within its loop.                                  *)
LEMMA GoesOn ==
  ASSUME PipelineInv, NEW t \in Threads, pc[t] # "off",
         NEW label \in {"top", "preprocess", "infer", "encode", "scan", "gone"}, Go(t, label),
         UNCHANGED <<capPc, plan, then>>
  PROVE  /\ pc' \in [Threads -> {"off", "top", "preprocess", "infer", "encode", "scan", "gone"}]
         /\ PlanSound' /\ JoinedSound'
<1>1. pc \in [Threads -> {"off", "top", "preprocess", "infer", "encode", "scan", "gone"}]
  BY DEF PipelineInv, PipelineTyped
<1>2. pc' \in [Threads -> {"off", "top", "preprocess", "infer", "encode", "scan", "gone"}]
  BY <1>1 DEF Go
<1>3. \A u \in Threads : pc'[u] # "off" => pc[u] # "off"
  BY <1>1 DEF Go
<1>4. PlanSound'
  BY DEF PipelineInv, PlanSound
<1>5. \A u \in Threads : Planned(u)' <=> Planned(u)
  BY DEF Planned
<1>6. JoinedSound'
  BY <1>3, <1>5 DEF PipelineInv, JoinedSound
<1> QED BY <1>2, <1>4, <1>6

(* The frames held stay with the threads that read them.                   *)
LEMMA HoldsOn ==
  ASSUME PipelineInv, NEW t \in Threads, NEW label, Go(t, label),
         \/ UNCHANGED held /\ pc[t] \notin {"preprocess", "encode"}
         \/ t \in Consumers /\ Drop(t)
         \/ t \in Consumers /\ Take(t) /\ label \in {"preprocess", "encode"}
  PROVE  held' = [c \in Consumers |-> held'[c]] /\ HeldSound'
<1>1. pc \in [Threads -> {"off", "top", "preprocess", "infer", "encode", "scan", "gone"}]
      /\ held = [c \in Consumers |-> held[c]] /\ HeldSound
  BY DEF PipelineInv, PipelineTyped
<1>2. held' = [c \in Consumers |-> held'[c]]
  BY <1>1 DEF Drop, Take
<1>3. ASSUME NEW c \in Consumers, held'[c] # NoFrame PROVE pc'[c] \in {"preprocess", "encode"}
  BY <1>1, <1>3, ThreadsAre DEF HeldSound, Go, Drop, Take
<1> QED BY <1>2, <1>3 DEF HeldSound

(* The tasks that are about, left alone.                                   *)
LEMMA TasksStay ==
  ASSUME PipelineInv, UNCHANGED <<slots, aim, session>>
  PROVE  /\ slots' = [w \in Workers |-> slots'[w]] /\ scan' \in 0 .. NumWorkers
         /\ TasksSound'
<1>1. slots' = [w \in Workers |-> slots'[w]] /\ scan' \in 0 .. NumWorkers
  BY DEF PipelineInv, PipelineTyped, aim
<1>2. TasksSound'
  BY DEF PipelineInv, TasksSound, OfSession, SourceIsSession, aim
<1> QED BY <1>1, <1>2

LEMMA PlanStays ==
  ASSUME PipelineInv, UNCHANGED <<plan, then>>
  PROVE  plan' \in Seq(Threads \cup {CaptureThread}) /\ then' \in {"run", "close", "reload"}
  BY DEF PipelineInv, PipelineTyped

(* What a step of one thread keeps.                                        *)
LEMMA StepOfOne ==
  ASSUME PipelineInv, NEW t \in Threads, pc[t] # "off",
         NEW label \in {"top", "preprocess", "infer", "encode", "scan", "gone"}, Go(t, label),
         UNCHANGED <<capPc, plan, then>>,
         \/ UNCHANGED held /\ pc[t] \notin {"preprocess", "encode"}
         \/ t \in Consumers /\ Drop(t)
         \/ t \in Consumers /\ Take(t) /\ label \in {"preprocess", "encode"},
         slots' = [w \in Workers |-> slots'[w]], scan' \in 0 .. NumWorkers, TasksSound'
  PROVE  PipelineInv'
<1>1. held' = [c \in Consumers |-> held'[c]] /\ HeldSound'
  BY HoldsOn
<1>2. /\ pc' \in [Threads -> {"off", "top", "preprocess", "infer", "encode", "scan", "gone"}]
      /\ PlanSound' /\ JoinedSound'
  BY GoesOn
<1>3. PipelineTyped'
  BY <1>1, <1>2, PlanStays DEF PipelineTyped
<1> QED BY <1>1, <1>2, <1>3 DEF PipelineInv
-----------------------------------------------------------------------------
(* Each step of the next-state relation keeps PipelineInv.                 *)
LEMMA StartInv ==
  ASSUME PipelineInv, Start
  PROVE  PipelineInv'
<1>1. capPc = "off" /\ capPc' = "top"
  BY DEF Start, Begin, StartCapture
<1>2. then = "run" /\ plan = << >> /\ (\A t \in Threads : pc[t] = "off") /\ held = NoHold
  BY <1>1, ClosedIsQuiet, NobodyHolds
<1>3. held' = NoHold
  BY <1>2 DEF Start, Begin
<1>4. TasksSound'
  BY DEF Start, Begin, TasksSound, OfSession, SourceIsSession, Cleared, NoTask
<1>5. slots' = [w \in Workers |-> slots'[w]] /\ scan' \in 0 .. NumWorkers
  BY ThreadsAre DEF Start, Begin, Cleared
<1>6. HeldSound'
  BY <1>3 DEF HeldSound, NoHold
<1>7. CASE pc' = [t \in Threads |-> "top"] /\ UNCHANGED <<plan, then>>
  <2>1. PlanSound' /\ JoinedSound'
    BY <1>1, <1>2, <1>7 DEF PlanSound, JoinedSound
  <2>2. PipelineTyped'
    BY <1>3, <1>5, <1>7, PlanStays DEF PipelineTyped, NoHold
  <2> QED BY <1>4, <1>6, <2>1, <2>2 DEF PipelineInv
<1>8. CASE plan' = <<CaptureThread>> /\ then' = "close" /\ UNCHANGED pc
  <2>1. PlanSound' /\ JoinedSound'
    BY <1>1, <1>2, <1>8 DEF PlanSound, JoinedSound
  <2>2. pc \in [Threads -> {"off", "top", "preprocess", "infer", "encode", "scan", "gone"}]
    BY DEF PipelineInv, PipelineTyped
  <2>3. PipelineTyped'
    BY <1>3, <1>5, <1>8, <2>2 DEF PipelineTyped, NoHold
  <2> QED BY <1>4, <1>6, <2>1, <2>3 DEF PipelineInv
<1> QED BY <1>7, <1>8 DEF Start, Begin

(* The threads that leave are told to, and stay as they are.               *)
LEMMA LeaveInv ==
  ASSUME PipelineInv, Stop \/ Reload
  PROVE  PipelineInv'
<1>1. capPc # "off" /\ then = "run" /\ UNCHANGED <<capPc, held, pc, slots, aim, session>>
  BY DEF Stop, Reload, Leave, Up, capture
<1>2. /\ slots' = [w \in Workers |-> slots'[w]] /\ scan' \in 0 .. NumWorkers
      /\ TasksSound'
  BY <1>1, TasksStay
<1>3. HeldSound'
  BY <1>1 DEF PipelineInv, HeldSound
<1>4. plan' \in Seq(Threads \cup {CaptureThread}) /\ then' \in {"run", "close", "reload"}
  BY OrdersAre, StopOrderIs DEF Stop, Reload, Leave
<1>5. PipelineTyped'
  BY <1>1, <1>2, <1>4 DEF PipelineInv, PipelineTyped
<1>6. CASE Stop
  <2>1. plan' = StopOrder /\ then' = "close"
    BY <1>6 DEF Stop, Leave
  <2>2. PlanSound'
    BY <1>1, <2>1, EveryoneIsJoined, StopOrderIs, ThreadsAre DEF PlanSound
  <2>3. \A t \in Threads : Planned(t)'
    BY <2>1, EveryoneIsJoined DEF Planned
  <2>4. JoinedSound'
    BY <2>3 DEF JoinedSound
  <2> QED BY <1>2, <1>3, <1>5, <2>2, <2>4 DEF PipelineInv
<1>7. CASE Reload
  <2>1. plan' = WorkerOrder /\ then' = "reload"
    BY <1>7 DEF Reload, Leave
  <2>2. PlanSound'
    BY <1>1, <2>1, OrdersAre DEF PlanSound
  <2>3. \A w \in Workers : Planned(w)'
    BY <2>1, EveryoneIsJoined DEF Planned
  <2>4. JoinedSound'
    BY <1>1, <2>1, <2>3 DEF JoinedSound
  <2> QED BY <1>2, <1>3, <1>5, <2>2, <2>4 DEF PipelineInv
<1> QED BY <1>6, <1>7

LEMMA HeadIsFirst ==
  ASSUME PipelineInv, plan # << >>
  PROVE  /\ Len(plan) \in Nat \ {0} /\ Head(plan) = plan[1]
         /\ Tail(plan) \in Seq(Threads \cup {CaptureThread}) /\ Len(Tail(plan)) = Len(plan) - 1
         /\ \A i \in 1 .. Len(Tail(plan)) : Tail(plan)[i] = plan[i + 1]
         /\ then # "run"
<1>1. plan \in Seq(Threads \cup {CaptureThread})
  BY DEF PipelineInv, PipelineTyped
<1>2. Len(plan) \in Nat \ {0} /\ Head(plan) = plan[1]
  BY <1>1
<1>3. /\ Tail(plan) \in Seq(Threads \cup {CaptureThread}) /\ Len(Tail(plan)) = Len(plan) - 1
      /\ \A i \in 1 .. Len(Tail(plan)) : Tail(plan)[i] = plan[i + 1]
  BY <1>1, HeadTailProperties
<1> QED BY <1>2, <1>3 DEF PipelineInv, PlanSound

(* A thread is joined: it held nothing any more.                           *)
LEMMA JoinInv ==
  ASSUME PipelineInv, Join
  PROVE  PipelineInv'
<1> DEFINE h == Head(plan)
<1>1. /\ plan # << >> /\ h # CaptureThread /\ pc[h] = "gone"
      /\ pc' = [pc EXCEPT ![h] = "off"] /\ plan' = Tail(plan)
      /\ UNCHANGED <<capPc, held, slots, aim, session, then>>
  BY DEF Join, capture
<1>2. /\ Len(plan) \in Nat \ {0} /\ h = plan[1]
      /\ plan' \in Seq(Threads \cup {CaptureThread}) /\ Len(plan') = Len(plan) - 1
      /\ \A i \in 1 .. Len(plan') : plan'[i] = plan[i + 1]
      /\ then # "run"
  BY <1>1, HeadIsFirst
<1>3. /\ plan \in Seq(Threads \cup {CaptureThread})
      /\ pc \in [Threads -> {"off", "top", "preprocess", "infer", "encode", "scan", "gone"}]
  BY DEF PipelineInv, PipelineTyped
<1>4. h \in Threads
  BY <1>1, <1>2, <1>3
<1> HIDE DEF h
<1>5. /\ slots' = [w \in Workers |-> slots'[w]] /\ scan' \in 0 .. NumWorkers
      /\ TasksSound'
  BY <1>1, TasksStay
<1>6. pc' \in [Threads -> {"off", "top", "preprocess", "infer", "encode", "scan", "gone"}]
  BY <1>1, <1>3
<1>7. PipelineTyped'
  BY <1>1, <1>2, <1>5, <1>6 DEF PipelineInv, PipelineTyped
<1>8. HeldSound'
  BY <1>1, <1>3, ThreadsAre DEF PipelineInv, HeldSound
<1>9. PlanSound'
  <2>1. CASE then = "close"
    <3>1. /\ plan[Len(plan)] = CaptureThread
          /\ \A i \in 1 .. Len(plan) - 1 : plan[i] # CaptureThread
      BY <2>1 DEF PipelineInv, PlanSound
    <3>2. Len(plan) # 1
      BY <1>1, <1>2, <3>1
    <3>3. Len(plan') > 0 /\ plan'[Len(plan')] = CaptureThread
      BY <1>2, <3>1, <3>2
    <3>4. ASSUME NEW i \in 1 .. Len(plan') - 1 PROVE plan'[i] # CaptureThread
      BY <1>2, <3>1
    <3> QED BY <1>1, <2>1, <3>3, <3>4 DEF PipelineInv, PlanSound
  <2>2. CASE then = "reload"
    <3>1. ASSUME NEW i \in 1 .. Len(plan') PROVE plan'[i] \in Workers
      BY <1>2, <2>2 DEF PipelineInv, PlanSound
    <3> QED BY <1>1, <2>2, <3>1 DEF PipelineInv, PlanSound
  <2> QED BY <1>2, <2>1, <2>2 DEF PipelineInv, PipelineTyped
<1>10. ASSUME NEW t \in Threads, pc'[t] # "off"
       PROVE  Planned(t)' \/ (capPc' # "off" /\ (then' = "run" \/ (then' = "reload" /\ t \notin Workers)))
  <2>1. t # h /\ pc[t] # "off"
    BY <1>1, <1>3, <1>10
  <2>2. CASE Planned(t)
    <3>1. PICK i \in 1 .. Len(plan) : plan[i] = t
      BY <2>2 DEF Planned
    <3>2. i - 1 \in 1 .. Len(plan') /\ i - 1 + 1 = i
      BY <1>2, <2>1, <3>1
    <3>3. plan'[i - 1] = t
      BY <1>2, <3>1, <3>2
    <3> QED BY <3>2, <3>3 DEF Planned
  <2>3. CASE ~Planned(t)
    BY <1>1, <2>1, <2>3 DEF PipelineInv, JoinedSound
  <2> QED BY <2>2, <2>3
<1>11. JoinedSound'
  BY <1>10 DEF JoinedSound
<1> QED BY <1>5, <1>7, <1>8, <1>9, <1>11 DEF PipelineInv

(* The capture is joined when nobody else is left.                         *)
LEMMA CaptureIsLast ==
  ASSUME PipelineInv, Stopping(CaptureThread)
  PROVE  /\ then = "close" /\ Len(plan) = 1 /\ Tail(plan) = << >>
         /\ \A t \in Threads : pc[t] = "off"
<1>1. plan # << >> /\ Head(plan) = CaptureThread
  BY DEF Stopping
<1>2. /\ Len(plan) \in Nat \ {0} /\ plan[1] = CaptureThread /\ then # "run"
      /\ Tail(plan) \in Seq(Threads \cup {CaptureThread}) /\ Len(Tail(plan)) = Len(plan) - 1
  BY <1>1, HeadIsFirst
<1>3. then = "close"
  BY <1>2, ThreadsAre DEF PipelineInv, PlanSound, PipelineTyped
<1>4. Len(plan) = 1
  BY <1>2, <1>3 DEF PipelineInv, PlanSound
<1>5. Tail(plan) = << >>
  <2>1. Len(Tail(plan)) = 0
    BY <1>2, <1>4
  <2> QED BY <1>2, <2>1, EmptySeq
<1>6. \A t \in Threads : ~Planned(t)
  BY <1>2, <1>4, ThreadsAre DEF Planned
<1> QED BY <1>3, <1>4, <1>5, <1>6 DEF PipelineInv, JoinedSound

LEMMA JoinCaptureInv ==
  ASSUME PipelineInv, JoinCapture
  PROVE  PipelineInv'
<1>1. /\ then = "close" /\ Tail(plan) = << >> /\ \A t \in Threads : pc[t] = "off"
  BY CaptureIsLast DEF JoinCapture
<1>2. /\ capPc' = "off" /\ plan' = << >> /\ then' = "run"
      /\ UNCHANGED <<held, pc, slots, aim, session>>
  BY <1>1 DEF JoinCapture, CloseCapture
<1>3. /\ slots' = [w \in Workers |-> slots'[w]] /\ scan' \in 0 .. NumWorkers
      /\ TasksSound'
  BY <1>2, TasksStay
<1>4. PipelineTyped'
  BY <1>2, <1>3 DEF PipelineInv, PipelineTyped
<1>5. HeldSound' /\ PlanSound' /\ JoinedSound'
  BY <1>1, <1>2 DEF PipelineInv, HeldSound, PlanSound, JoinedSound
<1> QED BY <1>3, <1>4, <1>5 DEF PipelineInv

(* The workers that left are there again, or the others leave too.         *)
LEMMA ReloadedInv ==
  ASSUME PipelineInv, Reloaded
  PROVE  PipelineInv'
<1> DEFINE Labels == {"off", "top", "preprocess", "infer", "encode", "scan", "gone"}
<1>1. /\ then = "reload" /\ plan = << >> /\ slots' = Cleared
      /\ UNCHANGED <<capPc, held, best, scan, lastFrame, source, session>>
  BY DEF Reloaded, capture
<1>2. capPc # "off" /\ pc \in [Threads -> Labels]
  BY <1>1 DEF PipelineInv, PlanSound, PipelineTyped
<1>3. \A w \in Workers : pc[w] = "off"
  BY <1>1, ThreadsAre DEF PipelineInv, JoinedSound, Planned
<1>4. TasksSound'
  BY <1>1 DEF PipelineInv, TasksSound, OfSession, SourceIsSession, Cleared, NoTask
<1>5. slots' = [w \in Workers |-> slots'[w]] /\ scan' \in 0 .. NumWorkers
      /\ held' = [c \in Consumers |-> held'[c]]
  BY <1>1 DEF Cleared, PipelineInv, PipelineTyped
<1>6. CASE pc' = [t \in Threads |-> IF t \in Workers THEN "top" ELSE pc[t]] /\ then' = "run" /\ UNCHANGED plan
  <2>1. pc' \in [Threads -> Labels]
    BY <1>2, <1>6
  <2>2. PipelineTyped'
    BY <1>5, <1>6, <2>1, PlanStays, <1>1 DEF PipelineTyped
  <2>3. HeldSound'
    BY <1>1, <1>3, <1>6, ThreadsAre DEF PipelineInv, HeldSound
  <2>4. PlanSound' /\ JoinedSound'
    BY <1>1, <1>2, <1>6 DEF PlanSound, JoinedSound
  <2> QED BY <1>4, <2>2, <2>3, <2>4 DEF PipelineInv
<1>7. CASE plan' = <<PreviewThread, AimThread, CaptureThread>> /\ then' = "close" /\ UNCHANGED <<pc, workers>>
  <2>1. plan' \in Seq(Threads \cup {CaptureThread})
    BY <1>7, ThreadsAre
  <2>2. PipelineTyped'
    BY <1>2, <1>5, <1>7, <2>1 DEF PipelineTyped
  <2>3. HeldSound'
    BY <1>1, <1>7 DEF PipelineInv, HeldSound
  <2>4. PlanSound'
    BY <1>1, <1>2, <1>7, ThreadsAre DEF PlanSound
  <2>5. \A t \in Threads : pc[t] # "off" => t = PreviewThread \/ t = AimThread
    BY <1>3, ThreadsAre
  <2>6. Planned(PreviewThread)' /\ Planned(AimThread)'
    BY <1>7, ThreadsAre DEF Planned
  <2>7. JoinedSound'
    BY <1>7, <2>5, <2>6 DEF JoinedSound
  <2> QED BY <1>4, <2>2, <2>3, <2>4, <2>7 DEF PipelineInv
<1> QED BY <1>6, <1>7 DEF Reloaded

LEMMA QuitInv ==
  ASSUME PipelineInv, NEW t \in Threads, Quit(t)
  PROVE  PipelineInv'
<1>1. pc[t] = "top" /\ Go(t, "gone") /\ UNCHANGED <<capPc, held, slots, aim, session, plan, then>>
  BY DEF Quit, capture, control
<1>2. /\ slots' = [w \in Workers |-> slots'[w]] /\ scan' \in 0 .. NumWorkers
      /\ TasksSound'
  BY <1>1, TasksStay
<1> QED BY <1>1, <1>2, StepOfOne

(* The steps of a worker.                                                  *)
LEMMA WorkerInv ==
  ASSUME PipelineInv, NEW w \in Workers, WorkerStep(w)
  PROVE  PipelineInv'
<1> USE ThreadsAre
<1>1. w \in Threads /\ w \in Consumers
  OBVIOUS
<1>2. CASE Claim(w)
  <2>1. pc[w] = "top" /\ UNCHANGED <<capPc, slots, aim, session, plan, then>>
    BY <1>2 DEF Claim, control
  <2>2. /\ slots' = [v \in Workers |-> slots'[v]] /\ scan' \in 0 .. NumWorkers
        /\ TasksSound'
    BY <2>1, TasksStay
  <2>3. CASE Take(w) /\ Go(w, "preprocess")
    BY <1>1, <2>1, <2>2, <2>3, StepOfOne
  <2>4. CASE UNCHANGED <<held, pc>>
    <3>1. PipelineTyped'
      BY <2>1, <2>2, <2>4, PlanStays DEF PipelineInv, PipelineTyped
    <3>2. HeldSound' /\ PlanSound' /\ JoinedSound'
      BY <2>1, <2>4 DEF PipelineInv, HeldSound, PlanSound, JoinedSound, Planned
    <3> QED BY <2>2, <3>1, <3>2 DEF PipelineInv
  <2> QED BY <1>2, <2>3, <2>4 DEF Claim
<1>3. CASE Preprocess(w)
  <2>1. pc[w] = "preprocess" /\ Drop(w) /\ UNCHANGED <<capPc, slots, aim, session, plan, then>>
    BY <1>3 DEF Preprocess, control
  <2>2. /\ slots' = [v \in Workers |-> slots'[v]] /\ scan' \in 0 .. NumWorkers
        /\ TasksSound'
    BY <2>1, TasksStay
  <2>3. Go(w, "infer") \/ Go(w, "top")
    BY <1>3 DEF Preprocess
  <2> QED BY <1>1, <2>1, <2>2, <2>3, StepOfOne
<1>4. CASE Infer(w)
  <2>1. pc[w] = "infer" /\ Go(w, "top") /\ UNCHANGED <<capPc, held, aim, session, plan, then>>
    BY <1>4 DEF Infer, control, capture
  <2>2. slots' = [slots EXCEPT ![w] = [seq |-> frame[w], session |-> session]] \/ UNCHANGED slots
    BY <1>4 DEF Infer
  <2>3. slots' = [v \in Workers |-> slots'[v]] /\ scan' \in 0 .. NumWorkers
    BY <2>1, <2>2 DEF PipelineInv, PipelineTyped, aim
  <2>4. ASSUME NEW v \in Workers PROVE OfSession(slots[v])'
    BY <2>1, <2>2 DEF PipelineInv, PipelineTyped, TasksSound, OfSession
  <2>5. OfSession(best)' /\ SourceIsSession'
    BY <2>1 DEF PipelineInv, TasksSound, OfSession, SourceIsSession, aim
  <2>6. TasksSound'
    BY <2>4, <2>5 DEF TasksSound
  <2> QED BY <1>1, <2>1, <2>3, <2>6, StepOfOne
<1> QED BY <1>2, <1>3, <1>4 DEF WorkerStep

(* The steps of the aim thread: it takes the newest task it finds, or has  *)
(* still the one it had.                                                   *)
LEMMA AimInv ==
  ASSUME PipelineInv, AimStep
  PROVE  PipelineInv'
<1> USE ThreadsAre
<1>1. AimThread \in Threads
  OBVIOUS
<1>2. /\ UNCHANGED <<capPc, held, slots, session, plan, then>>
  BY DEF AimStep, Scan, Look, Aim, capture, control
<1>3. slots' = [w \in Workers |-> slots'[w]]
  BY <1>2 DEF PipelineInv, PipelineTyped
<1>4. \A w \in Workers : OfSession(slots[w])'
  BY <1>2 DEF PipelineInv, TasksSound, OfSession
<1>5. CASE Scan
  <2>1. pc[AimThread] = "top" /\ Go(AimThread, "scan")
    BY <1>5 DEF Scan
  <2>2. scan' \in 0 .. NumWorkers
    BY <1>5 DEF Scan
  <2>3. OfSession(best)' /\ SourceIsSession'
    BY <1>2, <1>5 DEF Scan, PipelineInv, TasksSound, OfSession, SourceIsSession
  <2> QED BY <1>1, <1>2, <1>3, <1>4, <2>1, <2>2, <2>3, StepOfOne DEF TasksSound
<1>6. CASE Look
  <2>1. scan \in Workers /\ scan' \in 0 .. NumWorkers
    BY <1>6 DEF Look, PipelineInv, PipelineTyped, Workers
  <2>2. UNCHANGED <<pc, lastFrame, source>>
    BY <1>6 DEF Look
  <2>3. OfSession(best)' /\ SourceIsSession'
    <3>1. best' = slots[scan] \/ best' = best
      BY <1>6 DEF Look
    <3> QED BY <1>2, <2>1, <2>2, <3>1 DEF PipelineInv, TasksSound, OfSession, SourceIsSession
  <2>4. PipelineTyped'
    BY <1>2, <1>3, <2>1, <2>2, PlanStays DEF PipelineInv, PipelineTyped
  <2>5. HeldSound' /\ PlanSound' /\ JoinedSound'
    BY <1>2, <2>2 DEF PipelineInv, HeldSound, PlanSound, JoinedSound, Planned
  <2> QED BY <1>4, <2>3, <2>4, <2>5 DEF PipelineInv, TasksSound
<1>7. CASE Aim
  <2>1. pc[AimThread] = "scan" /\ Go(AimThread, "top")
    BY <1>7 DEF Aim
  <2>2. scan' \in 0 .. NumWorkers
    BY <1>7 DEF Aim
  <2>3. OfSession(best)' /\ SourceIsSession'
    BY <1>2, <1>7 DEF Aim, PipelineInv, TasksSound, OfSession, SourceIsSession, NoTask
  <2> QED BY <1>1, <1>2, <1>3, <1>4, <2>1, <2>2, <2>3, StepOfOne DEF TasksSound
<1> QED BY <1>5, <1>6, <1>7 DEF AimStep

LEMMA PreviewInv ==
  ASSUME PipelineInv, Preview
  PROVE  PipelineInv'
<1>1. PreviewThread \in Threads /\ PreviewThread \in Consumers
  BY ThreadsAre
<1>2. UNCHANGED <<capPc, slots, aim, session, plan, then>>
  BY DEF Preview, control
<1>3. /\ slots' = [v \in Workers |-> slots'[v]] /\ scan' \in 0 .. NumWorkers
      /\ TasksSound'
  BY <1>2, TasksStay
<1>4. CASE pc[PreviewThread] = "top" /\ Take(PreviewThread) /\ Go(PreviewThread, "encode")
  BY <1>1, <1>2, <1>3, <1>4, StepOfOne
<1>5. CASE pc[PreviewThread] = "encode" /\ Drop(PreviewThread) /\ Go(PreviewThread, "top")
  BY <1>1, <1>2, <1>3, <1>5, StepOfOne
<1> QED BY <1>4, <1>5 DEF Preview

(* What the capture thread and the driver do changes neither who runs nor  *)
(* who holds what.                                                         *)
LEMMA CaptureInv ==
  ASSUME PipelineInv, CaptureStep \/ UNCHANGED vars
  PROVE  PipelineInv'
<1>1. UNCHANGED <<held, pc, slots, aim, session, plan, then>>
  BY DEF CaptureStep, CaptureThreadStep, LoopTop, PollTimeout, Capture, Fill, PollFails,
         vars, capture, control
<1>2. capPc' = "off" <=> capPc = "off"
  BY DEF CaptureStep, CaptureThreadStep, LoopTop, PollTimeout, Capture, Fill, PollFails,
         vars, capture
<1>3. /\ slots' = [v \in Workers |-> slots'[v]] /\ scan' \in 0 .. NumWorkers
      /\ TasksSound'
  BY <1>1, TasksStay
<1>4. PipelineTyped'
  BY <1>1, <1>3, PlanStays DEF PipelineInv, PipelineTyped
<1>5. HeldSound' /\ PlanSound' /\ JoinedSound'
  BY <1>1, <1>2 DEF PipelineInv, HeldSound, PlanSound, JoinedSound, Planned
<1> QED BY <1>3, <1>4, <1>5 DEF PipelineInv

LEMMA PipelineNextInv == PipelineInv /\ [Next]_vars => PipelineInv'
<1> SUFFICES ASSUME PipelineInv, [Next]_vars PROVE PipelineInv'
  OBVIOUS
<1>1. CASE Start
  BY <1>1, StartInv
<1>2. CASE Stop \/ Reload
  BY <1>2, LeaveInv
<1>3. CASE CoreStep
  BY <1>3, JoinInv, JoinCaptureInv, ReloadedInv DEF CoreStep
<1>4. CASE CaptureStep \/ UNCHANGED vars
  BY <1>4, CaptureInv
<1>5. CASE AimStep
  BY <1>5, AimInv
<1>6. CASE Preview
  BY <1>6, PreviewInv
<1>7. CASE \E t \in Threads : Quit(t)
  BY <1>7, QuitInv
<1>8. CASE \E w \in Workers : WorkerStep(w)
  BY <1>8, WorkerInv
<1> QED BY <1>1, <1>2, <1>3, <1>4, <1>5, <1>6, <1>7, <1>8 DEF Next

THEOREM PipelineStaysSound == Spec => []PipelineInv
<1> QED BY PipelineInitInv, PipelineNextInv, PTL DEF Spec

(* Nobody refers to a frame when the capture unmaps the buffers            *)
(* (CoreRuntime::stop joins the capture after all who take its frames, a   *)
(* stop after a failed reload and a failed start too).                     *)
THEOREM NoFrameIsUsedAfterClose == Spec => []NoUseAfterClose
<1>1. PipelineInv => NoUseAfterClose
  BY NobodyHolds DEF NoUseAfterClose
<1> QED BY <1>1, PipelineStaysSound, PTL

(* The aim thread has a task of this session or none (the mailbox is       *)
(* cleared by CoreRuntime::start and by a reload, when no worker offers).  *)
THEOREM TasksAreOfTheSession == Spec => []SourceIsSession
<1>1. PipelineInv => SourceIsSession
  BY DEF PipelineInv, TasksSound
<1> QED BY <1>1, PipelineStaysSound, PTL

-----------------------------------------------------------------------------
(* One worker's memories.  What an inference read is judged by the memory  *)
(* the context is bound to, so the invariant says what that memory can be: *)
(* of its own or of the RGA, and the latter only for a model whose pixels  *)
(* need no work.                                                           *)
Picture == [frame : Int, as : {"none", "raw", "shifted"}]

EngineTypes ==
  /\ model \in Models \cup {NoModel} /\ options \in Options \cup {NoOptions}
  /\ worker \in {"off", "ready"} /\ ctx \in {"none", "clean", "own", "rga"}
  /\ ready \in BOOLEAN /\ bound \in BOOLEAN
  /\ content \in [{"own", "rga", "copy"} -> Picture]
  /\ seen \in [for : Int, data : Picture]
  /\ number \in Nat

(* The binding of the input, and where it comes from. *)
BindingIsKnown ==
  /\ worker = "off" => ~ready /\ ~bound /\ mems = {} /\ seen.for = 0
  /\ worker = "ready" /\ ~ready => ctx = "clean" /\ mems = {}
  /\ ready => ctx \in {"own", "rga"} /\ PassMode(model) # "compatible" /\ model \in Models
  /\ bound => ready
  /\ ctx = "rga" => bound
  /\ bound => ctx = "rga" /\ PassMode(model) = "uint8_native"

EngineInv == EngineTypes /\ BindingIsKnown /\ InputIsThisFrame
-----------------------------------------------------------------------------
(* For a model that is given its memory directly, what the copy makes of   *)
(* the pixels is what the NPU reads; unsigned pixels need no copy.         *)
LEMMA CopyIsRead ==
  ASSUME NEW m \in Models, PassMode(m) # "compatible"
  PROVE  /\ Moved(m) = ReadAs(m)
         /\ PassMode(m) = "uint8_native" => ReadAs(m) = "raw"
  BY DEF Models, Types, PassMode, Moved, ReadAs

LEMMA PicturesAre ==
  ASSUME NEW n \in Int, NEW m \in Models \cup {NoModel}
  PROVE  /\ Pixels(n, "raw") \in Picture /\ Pixels(n, Moved(m)) \in Picture
         /\ Nothing \in Picture /\ ReadAs(m) \in {"raw", "shifted"}
  BY DEF Pixels, Picture, Moved, ReadAs, Nothing

LEMMA EngineInitInv == EngineInit => EngineInv
<1> SUFFICES ASSUME EngineInit PROVE EngineInv
  OBVIOUS
<1>1. Nothing \in Picture
  BY DEF Nothing, Picture
<1>2. content \in [{"own", "rga", "copy"} -> Picture] /\ seen \in [for : Int, data : Picture]
  BY <1>1 DEF EngineInit
<1>3. EngineTypes
  BY <1>2 DEF EngineInit, EngineTypes
<1>4. BindingIsKnown
  BY DEF EngineInit, BindingIsKnown
<1>5. InputIsThisFrame
  BY DEF EngineInit, InputIsThisFrame
<1> QED BY <1>3, <1>4, <1>5 DEF EngineInv

LEMMA StartPreserves ==
  ASSUME EngineInv, NEW m \in Models, NEW o \in Options, NEW f \in Faults, NEW k \in 0 .. Outputs,
         StartWorker(m, o, f, k)
  PROVE  EngineInv'
<1> DEFINE wanted == Wanted(m, o)
<1>1. worker = "off" /\ ~ready /\ ~bound /\ seen.for = 0
  BY DEF EngineInv, BindingIsKnown, StartWorker
<1>2. bound' = bound /\ content' = content /\ seen' = seen /\ number' = number
  BY DEF StartWorker
<1>3. wanted => PassMode(m) # "compatible"
  BY DEF Wanted
<1>4. CASE Starts(wanted, f)
  <2>1. /\ worker' = "ready" /\ model' = m /\ options' = o
        /\ mems' = Made(wanted, f, k) /\ ready' = Bound(wanted, f)
        /\ ctx' = IF Bound(wanted, f) \/ Fatal(wanted, f) THEN "own" ELSE "clean"
    BY <1>4 DEF StartWorker
  <2>2. ready' \in BOOLEAN /\ (ready' => wanted)
    BY <2>1 DEF Bound
  <2>3. ~Fatal(wanted, f)
    BY <1>4 DEF Starts
  <2>4. ctx' = (IF ready' THEN "own" ELSE "clean")
    BY <2>1, <2>3
  <2>5. ~ready' => mems' = {}
    BY <2>1, <2>3 DEF Made, RolledBack
  <2>6. EngineTypes'
    BY <1>2, <2>1, <2>2, <2>4 DEF EngineInv, EngineTypes
  <2>7. BindingIsKnown'
    BY <1>1, <1>2, <1>3, <2>1, <2>2, <2>4, <2>5 DEF BindingIsKnown
  <2>8. InputIsThisFrame'
    BY <1>1, <1>2 DEF InputIsThisFrame
  <2> QED BY <2>6, <2>7, <2>8 DEF EngineInv
<1>5. CASE ~Starts(wanted, f)
  <2>1. UNCHANGED <<worker, model, options, mems, ready, ctx>>
    BY <1>5 DEF StartWorker
  <2>2. EngineTypes' /\ BindingIsKnown' /\ InputIsThisFrame'
    BY <1>2, <2>1 DEF EngineInv, EngineTypes, BindingIsKnown, InputIsThisFrame
  <2> QED BY <2>2 DEF EngineInv
<1> QED BY <1>4, <1>5

LEMMA StopPreserves == ASSUME EngineInv, StopWorker PROVE EngineInv'
<1>1. Nothing \in Picture
  BY DEF Nothing, Picture
<1>2. content' \in [{"own", "rga", "copy"} -> Picture] /\ seen' \in [for : Int, data : Picture] /\ seen'.for = 0
  BY <1>1 DEF StopWorker
<1>3. EngineTypes'
  BY <1>2 DEF EngineInv, EngineTypes, StopWorker
<1>4. BindingIsKnown'
  BY <1>2 DEF BindingIsKnown, StopWorker
<1>5. InputIsThisFrame'
  BY <1>2 DEF InputIsThisFrame
<1> QED BY <1>3, <1>4, <1>5 DEF EngineInv

(* A new size, and a frame that is given up, leave the memories alone. *)
LEMMA OthersPreserve ==
  ASSUME EngineInv,
         \/ \E s \in Sizes : Resize(s)
         \/ \E f \in {"none", "alloc", "import", "crop"} : LoseFrame(f)
         \/ UNCHANGED evars
  PROVE  EngineInv'
<1>1. /\ UNCHANGED <<model, options, worker, ctx, mems, ready, bound, content, seen>>
      /\ number' = number \/ number' = number + 1
  BY DEF Resize, LoseFrame, evars
<1>2. EngineTypes' /\ BindingIsKnown' /\ InputIsThisFrame'
  BY <1>1 DEF EngineInv, EngineTypes, BindingIsKnown, InputIsThisFrame
<1> QED BY <1>2 DEF EngineInv

LEMMA InferPreserves ==
  ASSUME EngineInv, NEW two \in BOOLEAN, NEW ok \in BOOLEAN, NEW run \in BOOLEAN, InferFrame(two, ok, run)
  PROVE  EngineInv'
<1> DEFINE n == number'
           data == content'[Source(ok)]
<1>1. /\ worker = "ready" /\ number' = number + 1
      /\ content' = Put(n, ok)
      /\ bound' = BoundNow(ok) /\ ctx' = IF Binds(ok) THEN "rga" ELSE ctx
      /\ seen' = IF run THEN [for |-> n, data |-> data] ELSE seen
      /\ model' = model /\ options' = options /\ worker' = worker /\ mems' = mems /\ ready' = ready
  BY DEF InferFrame
<1>2. number \in Nat /\ n \in Nat /\ model \in Models \cup {NoModel}
  BY <1>1 DEF EngineInv, EngineTypes
<1>3. /\ Pixels(n, "raw") \in Picture /\ Pixels(n, Moved(model)) \in Picture
      /\ content \in [{"own", "rga", "copy"} -> Picture]
  BY <1>2, PicturesAre DEF EngineInv, EngineTypes
<1>4. Binds(ok) => ready /\ PassMode(model) = "uint8_native"
  BY DEF Binds
<1>5. BindingIsKnown'
  BY <1>1, <1>4 DEF EngineInv, BindingIsKnown, BoundNow
<1>6. Source(ok) \in {"own", "rga", "copy"} /\ (ready => Source(ok) \in {"own", "rga"})
  BY <1>4 DEF EngineInv, BindingIsKnown, Source
<1>7. content' \in [{"own", "rga", "copy"} -> Picture]
  <2>1. [content EXCEPT !.rga = Pixels(n, "raw")] \in [{"own", "rga", "copy"} -> Picture]
    BY <1>3
  <2> QED BY <1>1, <1>3, <1>6, <2>1 DEF Put
<1>8. data \in Picture /\ data.frame = n /\ data.as = (IF ready THEN ReadAs(model) ELSE "raw")
  <2> DEFINE fresh == [content EXCEPT !.rga = Pixels(n, "raw")]
  <2>1. fresh \in [{"own", "rga", "copy"} -> Picture] /\ fresh["rga"] = Pixels(n, "raw")
    BY <1>3
  <2>2. CASE ~ready
    <3>1. Source(ok) = "copy" /\ content' = [fresh EXCEPT !.copy = Pixels(n, "raw")]
      BY <1>1, <2>2 DEF Source, Put
    <3>2. data = Pixels(n, "raw")
      BY <2>1, <3>1
    <3> QED BY <1>3, <2>2, <3>2 DEF Pixels
  <2>3. CASE ready /\ Direct(ok)
    <3>1. Source(ok) = "rga"
      BY <2>3 DEF EngineInv, BindingIsKnown, Source, Direct, BoundNow
    <3>2. content' = fresh
      BY <1>1, <2>3 DEF Put
    <3>3. data = Pixels(n, "raw")
      BY <2>1, <3>1, <3>2
    <3>4. ReadAs(model) = "raw"
      BY <2>3, CopyIsRead DEF EngineInv, BindingIsKnown, Direct
    <3> QED BY <1>3, <2>3, <3>3, <3>4 DEF Pixels
  <2>4. CASE ready /\ ~Direct(ok)
    <3>1. content' = [fresh EXCEPT ![Source(ok)] = Pixels(n, Moved(model))]
      BY <1>1, <2>4 DEF Put
    <3>2. data = Pixels(n, Moved(model))
      BY <1>6, <2>1, <3>1
    <3>3. Moved(model) = ReadAs(model)
      BY <2>4, CopyIsRead DEF EngineInv, BindingIsKnown
    <3> QED BY <1>3, <2>4, <3>2, <3>3 DEF Pixels
  <2> QED BY <2>2, <2>3, <2>4
<1>9. seen' \in [for : Int, data : Picture]
  BY <1>1, <1>2, <1>8 DEF EngineInv, EngineTypes
<1>10. EngineTypes'
  <2>1. bound' \in BOOLEAN
    BY <1>1 DEF EngineInv, EngineTypes, BoundNow, Binds
  <2>2. ctx' \in {"none", "clean", "own", "rga"}
    BY <1>1 DEF EngineInv, EngineTypes
  <2> QED BY <1>1, <1>2, <1>7, <1>9, <2>1, <2>2 DEF EngineInv, EngineTypes
<1>11. InputIsThisFrame'
  BY <1>1, <1>8 DEF EngineInv, InputIsThisFrame
<1> QED BY <1>5, <1>10, <1>11 DEF EngineInv

LEMMA EngineNextInv == EngineInv /\ [EngineNext]_evars => EngineInv'
<1> SUFFICES ASSUME EngineInv, [EngineNext]_evars PROVE EngineInv'
  OBVIOUS
<1>1. CASE \E m \in Models, o \in Options, f \in Faults, k \in 0 .. Outputs : StartWorker(m, o, f, k)
  BY <1>1, StartPreserves
<1>2. CASE StopWorker
  BY <1>2, StopPreserves
<1>3. CASE \E two, ok, run \in BOOLEAN : InferFrame(two, ok, run)
  BY <1>3, InferPreserves
<1>4. CASE \/ \E s \in Sizes : Resize(s)
           \/ \E f \in {"none", "alloc", "import", "crop"} : LoseFrame(f)
           \/ UNCHANGED evars
  BY <1>4, OthersPreserve
<1> QED BY <1>1, <1>2, <1>3, <1>4 DEF EngineNext

(* Whatever step of setting up the NPU's memories fails, of any number of  *)
(* outputs, and whatever frames are lost: the NPU reads the frame it is    *)
(* asked about, in the form it expects (RKNNEngine::init_zero_copy,        *)
(* InferenceWorker).                                                       *)
THEOREM EngineStaysSound == EngineInit /\ [][EngineNext]_evars => []EngineIsSound
<1>1. EngineInv => EngineIsSound
  BY DEF EngineInv, BindingIsKnown, EngineIsSound, ContextIsSound
<1> QED BY EngineInitInv, EngineNextInv, <1>1, PTL
-----------------------------------------------------------------------------
(* What the ring is made of, and where each of its buffers is: with the    *)
(* driver, filled, or captured; a buffer to be returned is a captured one, *)
(* and is listed once.                                                     *)
Frames  == [buffer : Buffers, seq : Nat]
Entries == [buffer : Buffers, frame : Frames]
BuffersOf(s) == [i \in DOMAIN s |-> s[i].buffer]
Filled  == BuffersOf(done)
Listed  == BuffersOf(pending)

RingTyped ==
  /\ queue \in Seq(Buffers) /\ done \in Seq(Frames) /\ pending \in Seq(Entries)
  /\ seq \in Nat /\ latest \in Frames \cup {NoFrame} /\ captured \subseteq Buffers
RingApart ==
  /\ IsInjective(queue) /\ IsInjective(Filled) /\ IsInjective(Listed)
  /\ Range(queue) \cap Range(Filled) = {}
  /\ captured \cap (Range(queue) \cup Range(Filled)) = {}
  /\ Range(Listed) \subseteq captured
RingWhole ==
  IF capPc = "off" THEN queue = << >> /\ done = << >> /\ pending = << >> /\ captured = {}
  ELSE Range(queue) \cup Range(Filled) \cup captured = Buffers
RingInv == RingTyped /\ RingApart /\ RingWhole
-----------------------------------------------------------------------------
(* Sequences none of whose elements comes twice.                           *)
LEMMA ApartConcat ==
  ASSUME NEW S, NEW s \in Seq(S), NEW t \in Seq(S),
         IsInjective(s), IsInjective(t), Range(s) \cap Range(t) = {}
  PROVE  /\ s \o t \in Seq(S) /\ IsInjective(s \o t)
         /\ Range(s \o t) = Range(s) \cup Range(t)
<1> DEFINE u == s \o t
<1>1. /\ Len(s) \in Nat /\ DOMAIN s = 1 .. Len(s)
      /\ Len(t) \in Nat /\ DOMAIN t = 1 .. Len(t)
  BY LenProperties
<1>2. /\ u \in Seq(S) /\ Len(u) = Len(s) + Len(t)
      /\ \A i \in 1 .. Len(s) + Len(t) : u[i] = IF i <= Len(s) THEN s[i] ELSE t[i - Len(s)]
  BY ConcatProperties, Zenon
<1> HIDE DEF u
<1>3. DOMAIN u = 1 .. Len(s) + Len(t)
  BY <1>2, LenProperties
<1>4. ASSUME NEW i \in 1 .. Len(s) PROVE i \in DOMAIN u /\ u[i] = s[i]
  BY <1>1, <1>2, <1>3
<1>5. ASSUME NEW i \in 1 .. Len(t) PROVE i + Len(s) \in DOMAIN u /\ u[i + Len(s)] = t[i]
  <2>1. i + Len(s) \in 1 .. Len(s) + Len(t) /\ ~(i + Len(s) <= Len(s)) /\ i + Len(s) - Len(s) = i
    BY <1>1
  <2>2. u[i + Len(s)] = t[i + Len(s) - Len(s)]
    BY <1>2, <2>1
  <2> QED BY <1>3, <2>1, <2>2
<1>6. ASSUME NEW i \in DOMAIN u
      PROVE  \/ i \in DOMAIN s /\ u[i] = s[i]
             \/ i - Len(s) \in DOMAIN t /\ u[i] = t[i - Len(s)] /\ i - Len(s) + Len(s) = i
  BY <1>1, <1>2, <1>3
<1>7. ASSUME NEW x \in Range(u) PROVE x \in Range(s) \cup Range(t)
  BY <1>6 DEF Range
<1>8. ASSUME NEW x \in Range(s) \cup Range(t) PROVE x \in Range(u)
  BY <1>1, <1>4, <1>5 DEF Range
<1>9. ASSUME NEW i \in DOMAIN u, NEW j \in DOMAIN u, u[i] = u[j] PROVE i = j
  <2>1. CASE i \in DOMAIN s /\ u[i] = s[i] /\ j \in DOMAIN s /\ u[j] = s[j]
    BY <2>1, <1>9 DEF IsInjective
  <2>2. CASE /\ i - Len(s) \in DOMAIN t /\ u[i] = t[i - Len(s)] /\ i - Len(s) + Len(s) = i
             /\ j - Len(s) \in DOMAIN t /\ u[j] = t[j - Len(s)] /\ j - Len(s) + Len(s) = j
    <3>1. i - Len(s) = j - Len(s)
      BY <2>2, <1>9, Zenon DEF IsInjective
    <3> QED BY <3>1, <2>2
  <2>3. ASSUME NEW k \in DOMAIN s, NEW l \in DOMAIN t PROVE s[k] # t[l]
    BY DEF Range
  <2>4. CASE i \in DOMAIN s /\ u[i] = s[i] /\ j - Len(s) \in DOMAIN t /\ u[j] = t[j - Len(s)]
    BY <2>4, <2>3, <1>9
  <2>5. CASE j \in DOMAIN s /\ u[j] = s[j] /\ i - Len(s) \in DOMAIN t /\ u[i] = t[i - Len(s)]
    BY <2>5, <2>3, <1>9
  <2> QED BY <1>6, <2>1, <2>2, <2>4, <2>5
<1> QED BY <1>2, <1>7, <1>8, <1>9 DEF IsInjective, u

LEMMA ApartTail ==
  ASSUME NEW S, NEW s \in Seq(S), s # << >>, IsInjective(s)
  PROVE  /\ Head(s) \in S /\ Head(s) \in Range(s) /\ Tail(s) \in Seq(S) /\ IsInjective(Tail(s))
         /\ Range(Tail(s)) = Range(s) \ {Head(s)}
<1> DEFINE t == Tail(s)
<1>1. /\ Head(s) = s[1] /\ Head(s) \in S /\ t \in Seq(S) /\ Len(t) = Len(s) - 1
      /\ \A i \in 1 .. Len(t) : t[i] = s[i + 1]
  BY HeadTailProperties
<1>2. /\ Len(s) \in Nat \ {0} /\ DOMAIN s = 1 .. Len(s)
      /\ Len(t) \in Nat /\ DOMAIN t = 1 .. Len(t)
  BY <1>1, EmptySeq, LenProperties
<1> HIDE DEF t
<1>3. Head(s) \in Range(s)
  BY <1>1, <1>2 DEF Range
<1>4. ASSUME NEW i \in DOMAIN t
      PROVE i + 1 \in DOMAIN s /\ t[i] = s[i + 1] /\ t[i] # Head(s)
  <2>1. i + 1 \in DOMAIN s /\ i + 1 # 1 /\ 1 \in DOMAIN s /\ t[i] = s[i + 1]
    BY <1>1, <1>2
  <2>2. s[i + 1] # s[1]
    BY <2>1, Zenon DEF IsInjective
  <2> QED BY <1>1, <2>1, <2>2
<1>5. ASSUME NEW x \in Range(t) PROVE x \in Range(s) \ {Head(s)}
  BY <1>4 DEF Range
<1>6. ASSUME NEW x \in Range(s) \ {Head(s)} PROVE x \in Range(t)
  <2>1. PICK i \in DOMAIN s : x = s[i]
    BY <1>6 DEF Range
  <2>2. i - 1 \in DOMAIN t /\ i - 1 + 1 = i
    BY <2>1, <1>1, <1>2, <1>6
  <2>3. t[i - 1] = s[i]
    BY <2>2, <1>4
  <2> QED BY <2>1, <2>2, <2>3 DEF Range
<1>7. ASSUME NEW i \in DOMAIN t, NEW j \in DOMAIN t, t[i] = t[j] PROVE i = j
  <2>1. i + 1 = j + 1
    BY <1>4, <1>7 DEF IsInjective
  <2> QED BY <2>1, <1>2
<1> QED BY <1>1, <1>3, <1>5, <1>6, <1>7 DEF IsInjective, t

LEMMA SingleIsApart ==
  ASSUME NEW S, NEW x \in S
  PROVE  <<x>> \in Seq(S) /\ IsInjective(<<x>>) /\ Range(<<x>>) = {x} /\ Len(<<x>>) = 1
  BY DEF IsInjective, Range

LEMMA ApartHasSize ==
  ASSUME NEW S, NEW s \in Seq(S), IsInjective(s)
  PROVE  Cardinality(Range(s)) = Len(s)
<1>1. Len(s) \in Nat /\ DOMAIN s = 1 .. Len(s) /\ s \in [1 .. Len(s) -> S]
  BY LenProperties
<1>2. s \in [1 .. Len(s) -> Range(s)]
  BY <1>1 DEF Range
<1>3. s \in Surjection(1 .. Len(s), Range(s)) /\ s \in Injection(1 .. Len(s), Range(s))
  BY <1>1, <1>2 DEF Surjection, Injection, Range
<1>4. IsFiniteSet(1 .. Len(s)) /\ Cardinality(1 .. Len(s)) = Len(s)
  BY <1>1, FS_Interval
<1> QED BY <1>3, <1>4, FS_Surjection

(* The positions of a list are found one after the other.                  *)
LEMMA RanksAreAll ==
  ASSUME NEW P \in SUBSET Nat, IsFiniteSet(P)
  PROVE  /\ Cardinality(P) \in Nat
         /\ \A n \in 1 .. Cardinality(P) : \E i \in P : Cardinality({j \in P : j <= i}) = n
         /\ \A i \in P : Cardinality({j \in P : j <= i}) \in 1 .. Cardinality(P)
<1> DEFINE rank == [i \in P |-> Cardinality({j \in P : j <= i})]
           N == Cardinality(P)
<1>1. N \in Nat /\ IsFiniteSet(1 .. N) /\ Cardinality(1 .. N) = N
  BY FS_CardinalityType, FS_Interval
<1>2. ASSUME NEW i \in P
      PROVE  /\ IsFiniteSet({j \in P : j <= i}) /\ Cardinality({j \in P : j <= i}) \in 1 .. N
  <2> DEFINE B == {j \in P : j <= i}
  <2>1. B \in SUBSET P /\ i \in B
    BY <1>2
  <2> HIDE DEF B
  <2>2. IsFiniteSet(B) /\ Cardinality(B) <= N /\ Cardinality(B) \in Nat
    BY <2>1, FS_Subset, FS_CardinalityType
  <2>3. Cardinality(B) # 0
    BY <2>1, <2>2, FS_EmptySet
  <2> QED BY <1>1, <2>2, <2>3 DEF B
<1>3. ASSUME NEW i \in P, NEW k \in P, i < k PROVE rank[i] # rank[k]
  <2> DEFINE B == {j \in P : j <= i}
             C == {j \in P : j <= k}
  <2>1. B \in SUBSET C /\ B # C
    <3>1. ASSUME NEW j \in P, j <= i PROVE j <= k
      BY <1>3, <3>1
    <3>2. k \in C /\ k \notin B
      BY <1>3
    <3> QED BY <3>1, <3>2
  <2>2. IsFiniteSet(C) /\ rank[i] = Cardinality(B) /\ rank[k] = Cardinality(C)
    BY <1>2
  <2> HIDE DEF B, C
  <2>3. Cardinality(B) # Cardinality(C)
    BY <2>1, <2>2, FS_Subset
  <2> QED BY <2>2, <2>3
<1>4. ASSUME NEW i \in P, NEW k \in P, rank[i] = rank[k] PROVE i = k
  <2>1. i < k \/ k < i \/ i = k
    BY <1>4
  <2> QED BY <2>1, <1>3, <1>4
<1>5. rank \in [P -> 1 .. N] /\ \A i \in P : rank[i] = Cardinality({j \in P : j <= i})
  BY <1>2
<1> HIDE DEF rank
<1>6. rank \in Injection(P, 1 .. N)
  BY <1>4, <1>5 DEF Injection, IsInjective
<1>7. rank \in Surjection(P, 1 .. N)
  BY <1>1, <1>6, FS_Injection
<1>8. \A n \in 1 .. N : \E i \in P : rank[i] = n
  BY <1>7 DEF Surjection
<1> QED BY <1>1, <1>2, <1>5, <1>8

(* EntriesAt takes what is at the positions, each once.                    *)
LEMMA EntriesAtIs ==
  ASSUME RingTyped, NEW P \in SUBSET DOMAIN pending
  PROVE  /\ EntriesAt(P) \in Seq(Entries)
         /\ \A n \in DOMAIN EntriesAt(P) : \E i \in P : EntriesAt(P)[n] = pending[i]
         /\ IsInjective(Listed) => IsInjective(BuffersOf(EntriesAt(P)))
<1>1. pending \in Seq(Entries) /\ Len(pending) \in Nat /\ DOMAIN pending = 1 .. Len(pending)
  <2>1. pending \in Seq(Entries)
    BY DEF RingTyped
  <2> QED BY <2>1, LenProperties
<1>2. IsFiniteSet(P) /\ P \in SUBSET Nat
  <2>1. IsFiniteSet(DOMAIN pending) /\ DOMAIN pending \subseteq Nat
    BY <1>1, FS_Interval
  <2> QED BY <2>1, FS_Subset
<1> DEFINE N == Cardinality(P)
           at(n) == CHOOSE i \in P : Cardinality({j \in P : j <= i}) = n
<1>3. N \in Nat /\ \A n \in 1 .. N : \E i \in P : Cardinality({j \in P : j <= i}) = n
  BY <1>2, RanksAreAll
<1>4. ASSUME NEW n \in 1 .. N PROVE at(n) \in P /\ Cardinality({j \in P : j <= at(n)}) = n
  BY <1>3, Zenon
<1>5. EntriesAt(P) = [n \in 1 .. N |-> pending[at(n)]]
  BY DEF EntriesAt
<1>6. ASSUME NEW n \in 1 .. N, NEW m \in 1 .. N, at(n) = at(m) PROVE n = m
  BY <1>4, <1>6, Zenon
<1> HIDE DEF at, N
<1>7. \A n \in 1 .. N : EntriesAt(P)[n] = pending[at(n)] /\ pending[at(n)] \in Entries
  BY <1>1, <1>4, <1>5, ElementOfSeq
<1>8. DOMAIN EntriesAt(P) = 1 .. N
  BY <1>5
<1>9. EntriesAt(P) \in Seq(Entries)
  BY <1>3, <1>5, <1>7
<1>10. \A n \in DOMAIN EntriesAt(P) : \E i \in P : EntriesAt(P)[n] = pending[i]
  BY <1>4, <1>7, <1>8
<1>11. ASSUME IsInjective(Listed),
              NEW n \in 1 .. N, NEW m \in 1 .. N, EntriesAt(P)[n].buffer = EntriesAt(P)[m].buffer
       PROVE  n = m
  <2>1. at(n) \in DOMAIN pending /\ at(m) \in DOMAIN pending
    BY <1>4
  <2>2. Listed[at(n)] = Listed[at(m)] /\ DOMAIN Listed = DOMAIN pending
    BY <1>7, <1>11, <2>1 DEF Listed, BuffersOf
  <2>3. at(n) = at(m)
    BY <1>11, <2>1, <2>2, Zenon DEF IsInjective
  <2> QED BY <2>3, <1>6
<1>12. IsInjective(Listed) => IsInjective(BuffersOf(EntriesAt(P)))
  BY <1>8, <1>11 DEF IsInjective, BuffersOf
<1> QED BY <1>9, <1>10, <1>12
-----------------------------------------------------------------------------
LEMMA BuffersOfIs ==
  ASSUME NEW S, \A e \in S : e.buffer \in Buffers, NEW s \in Seq(S)
  PROVE  /\ BuffersOf(s) \in Seq(Buffers) /\ Len(BuffersOf(s)) = Len(s)
         /\ DOMAIN BuffersOf(s) = 1 .. Len(s) /\ \A i \in 1 .. Len(s) : BuffersOf(s)[i] = s[i].buffer
<1>1. Len(s) \in Nat /\ DOMAIN s = 1 .. Len(s)
  BY LenProperties
<1>2. \A i \in 1 .. Len(s) : s[i].buffer \in Buffers
  BY ElementOfSeq
<1> QED BY <1>1, <1>2 DEF BuffersOf

LEMMA BuffersOfConcat ==
  ASSUME NEW S, \A e \in S : e.buffer \in Buffers, NEW s \in Seq(S), NEW t \in Seq(S)
  PROVE  BuffersOf(s \o t) = BuffersOf(s) \o BuffersOf(t)
<1> DEFINE u == s \o t
           v == BuffersOf(s) \o BuffersOf(t)
<1>1. Len(s) \in Nat /\ Len(t) \in Nat
  BY LenProperties
<1>2. /\ u \in Seq(S) /\ Len(u) = Len(s) + Len(t)
      /\ \A i \in 1 .. Len(s) + Len(t) : u[i] = IF i <= Len(s) THEN s[i] ELSE t[i - Len(s)]
  BY ConcatProperties, Zenon
<1>3. /\ BuffersOf(s) \in Seq(Buffers) /\ Len(BuffersOf(s)) = Len(s)
      /\ \A i \in 1 .. Len(s) : BuffersOf(s)[i] = s[i].buffer
  BY BuffersOfIs
<1>4. /\ BuffersOf(t) \in Seq(Buffers) /\ Len(BuffersOf(t)) = Len(t)
      /\ \A i \in 1 .. Len(t) : BuffersOf(t)[i] = t[i].buffer
  BY BuffersOfIs
<1>5. /\ v \in Seq(Buffers) /\ Len(v) = Len(s) + Len(t)
      /\ \A i \in 1 .. Len(s) + Len(t) : v[i] = IF i <= Len(s) THEN BuffersOf(s)[i] ELSE BuffersOf(t)[i - Len(s)]
  <2> DEFINE bs == BuffersOf(s)
             bt == BuffersOf(t)
  <2>1. bs \in Seq(Buffers) /\ bt \in Seq(Buffers)
    BY <1>3, <1>4
  <2> HIDE DEF bs, bt
  <2>2. /\ bs \o bt \in Seq(Buffers) /\ Len(bs \o bt) = Len(bs) + Len(bt)
        /\ \A i \in 1 .. Len(bs) + Len(bt) :
             (bs \o bt)[i] = IF i <= Len(bs) THEN bs[i] ELSE bt[i - Len(bs)]
    BY <2>1, ConcatProperties, Zenon
  <2> QED BY <2>2, <1>3, <1>4 DEF bs, bt
<1> HIDE DEF u, v
<1>6. /\ BuffersOf(u) \in Seq(Buffers) /\ Len(BuffersOf(u)) = Len(s) + Len(t)
      /\ \A i \in 1 .. Len(s) + Len(t) : BuffersOf(u)[i] = u[i].buffer
  <2>1. /\ BuffersOf(u) \in Seq(Buffers) /\ Len(BuffersOf(u)) = Len(u)
        /\ \A i \in 1 .. Len(u) : BuffersOf(u)[i] = u[i].buffer
    BY <1>2, BuffersOfIs
  <2> QED BY <2>1, <1>2
<1>7. ASSUME NEW i \in 1 .. Len(s) + Len(t) PROVE BuffersOf(u)[i] = v[i]
  <2>1. CASE i <= Len(s)
    <3>1. i \in 1 .. Len(s)
      BY <2>1, <1>1
    <3>2. u[i] = s[i] /\ v[i] = BuffersOf(s)[i]
      BY <2>1, <1>2, <1>5
    <3> QED BY <3>1, <3>2, <1>3, <1>6
  <2>2. CASE ~(i <= Len(s))
    <3>1. i - Len(s) \in 1 .. Len(t)
      BY <2>2, <1>1
    <3>2. u[i] = t[i - Len(s)] /\ v[i] = BuffersOf(t)[i - Len(s)]
      BY <2>2, <1>2, <1>5
    <3> QED BY <3>1, <3>2, <1>4, <1>6
  <2> QED BY <2>1, <2>2
<1>8. BuffersOf(u) = v
  BY <1>5, <1>6, <1>7, SeqEqual
<1> QED BY <1>8 DEF u, v

LEMMA BuffersOfTail ==
  ASSUME NEW S, \A e \in S : e.buffer \in Buffers, NEW s \in Seq(S), s # << >>
  PROVE  /\ BuffersOf(s) # << >> /\ Head(BuffersOf(s)) = Head(s).buffer
         /\ BuffersOf(Tail(s)) = Tail(BuffersOf(s))
<1> DEFINE b == BuffersOf(s)
           t == Tail(s)
<1>1. Len(s) \in Nat \ {0}
  BY EmptySeq
<1>2. /\ b \in Seq(Buffers) /\ Len(b) = Len(s) /\ \A i \in 1 .. Len(s) : b[i] = s[i].buffer
  BY BuffersOfIs
<1>3. t \in Seq(S) /\ Len(t) = Len(s) - 1 /\ \A i \in 1 .. Len(t) : t[i] = s[i + 1]
  BY HeadTailProperties
<1>4. b # << >>
  BY <1>1, <1>2
<1> HIDE DEF b, t
<1>5. Tail(b) \in Seq(Buffers) /\ Len(Tail(b)) = Len(s) - 1 /\ \A i \in 1 .. Len(Tail(b)) : Tail(b)[i] = b[i + 1]
  BY <1>2, <1>4, HeadTailProperties
<1>6. /\ BuffersOf(t) \in Seq(Buffers) /\ Len(BuffersOf(t)) = Len(t)
      /\ \A i \in 1 .. Len(t) : BuffersOf(t)[i] = t[i].buffer
  BY <1>3, BuffersOfIs
<1>7. ASSUME NEW i \in 1 .. Len(s) - 1 PROVE BuffersOf(t)[i] = Tail(b)[i]
  <2>1. i \in 1 .. Len(t) /\ i \in 1 .. Len(Tail(b)) /\ i + 1 \in 1 .. Len(s)
    BY <1>1, <1>3, <1>5
  <2> QED BY <2>1, <1>2, <1>3, <1>5, <1>6
<1>8. BuffersOf(t) = Tail(b)
  BY <1>3, <1>5, <1>6, <1>7, SeqEqual
<1>9. Head(b) = Head(s).buffer
  BY <1>1, <1>2
<1> QED BY <1>4, <1>8, <1>9 DEF b, t

LEMMA EntriesHaveBuffers ==
  /\ \A e \in Frames : e.buffer \in Buffers
  /\ \A e \in Entries : e.buffer \in Buffers
  BY DEF Frames, Entries

(* What is returned was listed, and is listed no longer.                   *)
LEMMA ReleaseIs ==
  ASSUME RingInv
  PROVE  /\ Returned \in Seq(Buffers) /\ IsInjective(Returned) /\ Range(Returned) \subseteq Range(Listed)
         /\ Kept \in Seq(Entries) /\ IsInjective(BuffersOf(Kept)) /\ Range(BuffersOf(Kept)) \subseteq Range(Listed)
         /\ Range(BuffersOf(Kept)) \cap Range(Returned) = {}
<1> DEFINE dead == {i \in DOMAIN pending : ~Alive(pending[i].frame)}
           live == {i \in DOMAIN pending : Alive(pending[i].frame)}
<1>1. RingTyped /\ IsInjective(Listed) /\ dead \in SUBSET DOMAIN pending /\ live \in SUBSET DOMAIN pending
  BY DEF RingInv, RingApart
<1>2. dead \cap live = {}
  OBVIOUS
<1>3. Ready = EntriesAt(dead) /\ Kept = EntriesAt(live)
  BY DEF Ready, Kept
<1> HIDE DEF dead, live
<1>4. /\ Ready \in Seq(Entries) /\ \A n \in DOMAIN Ready : \E i \in dead : Ready[n] = pending[i]
      /\ IsInjective(BuffersOf(Ready))
  BY <1>1, <1>3, EntriesAtIs
<1>5. /\ Kept \in Seq(Entries) /\ \A n \in DOMAIN Kept : \E i \in live : Kept[n] = pending[i]
      /\ IsInjective(BuffersOf(Kept))
  BY <1>1, <1>3, EntriesAtIs
<1>6. Returned = BuffersOf(Ready)
  BY DEF Returned, BuffersOf
<1>7. BuffersOf(Ready) \in Seq(Buffers)
  BY <1>4, BuffersOfIs, EntriesHaveBuffers
<1>8. \A i \in DOMAIN pending : Listed[i] = pending[i].buffer /\ i \in DOMAIN Listed
  BY DEF Listed, BuffersOf
<1>9. ASSUME NEW x \in Range(BuffersOf(Ready)) PROVE \E i \in dead : i \in DOMAIN Listed /\ x = Listed[i]
  <2>1. PICK n \in DOMAIN Ready : x = Ready[n].buffer
    BY DEF Range, BuffersOf
  <2> QED BY <2>1, <1>1, <1>4, <1>8
<1>10. ASSUME NEW x \in Range(BuffersOf(Kept)) PROVE \E i \in live : i \in DOMAIN Listed /\ x = Listed[i]
  <2>1. PICK n \in DOMAIN Kept : x = Kept[n].buffer
    BY DEF Range, BuffersOf
  <2> QED BY <2>1, <1>1, <1>5, <1>8
<1>11. Range(BuffersOf(Kept)) \cap Range(BuffersOf(Ready)) = {}
  <2> SUFFICES ASSUME NEW x \in Range(BuffersOf(Kept)), x \in Range(BuffersOf(Ready)) PROVE FALSE
    OBVIOUS
  <2>1. PICK i \in dead : i \in DOMAIN Listed /\ x = Listed[i]
    BY <1>9
  <2>2. PICK k \in live : k \in DOMAIN Listed /\ x = Listed[k]
    BY <1>10
  <2>3. i = k
    BY <2>1, <2>2, <1>1 DEF IsInjective
  <2> QED BY <2>3, <1>2
<1>12. Range(BuffersOf(Ready)) \subseteq Range(Listed) /\ Range(BuffersOf(Kept)) \subseteq Range(Listed)
  BY <1>9, <1>10 DEF Range
<1> QED BY <1>4, <1>5, <1>6, <1>7, <1>11, <1>12

LEMMA ReturnedGoBack ==
  ASSUME RingInv, queue' = queue \o Returned
  PROVE  queue' \in Seq(Buffers) /\ IsInjective(queue') /\ Range(queue') = Range(queue) \cup Range(Returned)
<1>1. queue \in Seq(Buffers) /\ IsInjective(queue)
  BY DEF RingInv, RingTyped, RingApart
<1>2. Returned \in Seq(Buffers) /\ IsInjective(Returned) /\ Range(Returned) \subseteq Range(Listed)
  BY ReleaseIs
<1>3. Range(queue) \cap Range(Returned) = {}
  BY <1>2 DEF RingInv, RingApart
<1> QED BY <1>1, <1>2, <1>3, ApartConcat

LEMMA StartFills ==
  ASSUME RingInv, StartCapture
  PROVE  RingInv'
<1>1. /\ capPc' = "top" /\ queue' = [i \in 1 .. NumBuffers |-> i - 1]
      /\ done' = << >> /\ pending' = << >> /\ captured' = {} /\ UNCHANGED <<seq, latest>>
  BY DEF StartCapture, RingInv, RingWhole
<1>2. NumBuffers \in Nat
  BY CaptureAssumption
<1>3. queue' \in Seq(Buffers) /\ IsInjective(queue')
  BY <1>1, <1>2 DEF Buffers, IsInjective
<1>4. Range(queue') = Buffers
  <2>1. DOMAIN queue' = 1 .. NumBuffers /\ \A i \in 1 .. NumBuffers : queue'[i] = i - 1
    BY <1>1
  <2>2. ASSUME NEW b \in Buffers PROVE b \in Range(queue')
    <3>1. PICK i \in 1 .. NumBuffers : i - 1 = b
      <4> DEFINE i == b + 1
      <4>1. i \in 1 .. NumBuffers /\ i - 1 = b
        BY <1>2 DEF Buffers
      <4> HIDE DEF i
      <4> QED BY <4>1
    <3> QED BY <2>1, <3>1, Zenon DEF Range
  <2>3. ASSUME NEW b \in Range(queue') PROVE b \in Buffers
    BY <1>2, <2>1 DEF Buffers, Range
  <2> QED BY <2>2, <2>3
<1>5. /\ Filled' = << >> /\ Listed' = << >>
  BY <1>1 DEF Filled, Listed, BuffersOf
<1>6. RingTyped'
  BY <1>1, <1>3 DEF RingInv, RingTyped
<1>7. RingApart'
  BY <1>1, <1>3, <1>5 DEF RingApart, IsInjective, Range
<1>8. RingWhole'
  BY <1>1, <1>4, <1>5 DEF RingWhole, Range
<1> QED BY <1>6, <1>7, <1>8 DEF RingInv

LEMMA CloseEmpties ==
  ASSUME RingInv, CloseCapture
  PROVE  RingInv'
<1>1. /\ capPc' = "off" /\ queue' = << >> /\ done' = << >> /\ pending' = << >> /\ captured' = {}
      /\ seq' = 0 /\ latest' = NoFrame
  BY DEF CloseCapture
<1>2. Filled' = << >> /\ Listed' = << >>
  BY <1>1 DEF Filled, Listed, BuffersOf
<1>3. RingTyped'
  BY <1>1 DEF RingTyped
<1>4. RingApart'
  BY <1>1, <1>2 DEF RingApart, IsInjective, Range
<1>5. RingWhole'
  BY <1>1 DEF RingWhole
<1> QED BY <1>3, <1>4, <1>5 DEF RingInv

LEMMA FillMoves ==
  ASSUME RingInv, Fill
  PROVE  RingInv'
<1> DEFINE b == Head(queue)
           f == [buffer |-> b, seq |-> seq]
<1>1. /\ capPc # "off" /\ queue # << >> /\ done' = Append(done, f) /\ queue' = Tail(queue) /\ seq' = seq + 1
      /\ UNCHANGED <<capPc, captured, pending, latest>>
  BY DEF Fill
<1>2. /\ queue \in Seq(Buffers) /\ done \in Seq(Frames) /\ seq \in Nat
      /\ IsInjective(queue) /\ IsInjective(Filled) /\ Range(queue) \cap Range(Filled) = {}
  BY DEF RingInv, RingTyped, RingApart
<1>3. /\ b \in Buffers /\ b \in Range(queue) /\ queue' \in Seq(Buffers) /\ IsInjective(queue')
      /\ Range(queue') = Range(queue) \ {b}
  BY <1>1, <1>2, ApartTail
<1> HIDE DEF b
<1>4. f \in Frames /\ f.buffer = b
  BY <1>2, <1>3 DEF Frames
<1>5. <<f>> \in Seq(Frames) /\ BuffersOf(<<f>>) = <<b>>
  BY <1>4 DEF BuffersOf
<1> HIDE DEF f
<1>6. done' = done \o <<f>> /\ done' \in Seq(Frames)
  BY <1>1, <1>2, <1>4, AppendIsConcat, AppendProperties
<1>7. Filled' = Filled \o <<b>>
  BY <1>2, <1>5, <1>6, BuffersOfConcat, EntriesHaveBuffers DEF Filled
<1>8. Filled \in Seq(Buffers)
  BY <1>2, BuffersOfIs, EntriesHaveBuffers DEF Filled
<1>9. <<b>> \in Seq(Buffers) /\ IsInjective(<<b>>) /\ Range(<<b>>) = {b}
  BY <1>3, SingleIsApart
<1>10. IsInjective(Filled') /\ Range(Filled') = Range(Filled) \cup {b}
  <2> DEFINE one == <<b>>
  <2> HIDE DEF one
  <2>1. one \in Seq(Buffers) /\ IsInjective(one) /\ Range(one) = {b}
    BY <1>9 DEF one
  <2>2. IsInjective(Filled \o one) /\ Range(Filled \o one) = Range(Filled) \cup Range(one)
    <3>1. Range(Filled) \cap Range(one) = {}
      BY <1>2, <1>3, <2>1
    <3> QED BY <1>2, <1>8, <2>1, <3>1, ApartConcat
  <2> QED BY <2>1, <2>2, <1>7 DEF one
<1>11. Listed' = Listed
  BY <1>1 DEF Listed, BuffersOf
<1>12. RingTyped'
  BY <1>1, <1>2, <1>3, <1>6 DEF RingInv, RingTyped, Frames, Entries
<1>13. RingApart'
  BY <1>1, <1>2, <1>3, <1>10, <1>11 DEF RingInv, RingApart
<1>14. RingWhole'
  BY <1>1, <1>2, <1>3, <1>10 DEF RingInv, RingWhole
<1> QED BY <1>12, <1>13, <1>14 DEF RingInv

LEMMA TopReturns ==
  ASSUME RingInv, NEW stopping, LoopTop(stopping)
  PROVE  RingInv'
<1>1. CASE stopping
  <2>1. capPc = "top" /\ capPc' = "gone" /\ UNCHANGED <<queue, done, captured, pending, seq, latest>>
    BY <1>1 DEF LoopTop, ring
  <2>2. Filled' = Filled /\ Listed' = Listed
    BY <2>1 DEF Filled, Listed, BuffersOf
  <2>3. RingTyped' /\ RingApart' /\ RingWhole'
    BY <2>1, <2>2 DEF RingInv, RingTyped, RingApart, RingWhole, Frames, Entries
  <2> QED BY <2>3 DEF RingInv
<1>2. CASE ~stopping
  <2>1. /\ capPc = "top" /\ capPc' = "poll" /\ queue' = queue \o Returned /\ done' = done
        /\ captured' = captured \ Range(Returned) /\ pending' = Kept /\ UNCHANGED <<seq, latest>>
    BY <1>2 DEF LoopTop
  <2>2. queue' \in Seq(Buffers) /\ IsInjective(queue') /\ Range(queue') = Range(queue) \cup Range(Returned)
    BY <2>1, ReturnedGoBack
  <2>3. /\ Range(Returned) \subseteq Range(Listed)
        /\ pending' \in Seq(Entries) /\ IsInjective(Listed') /\ Range(Listed') \subseteq Range(Listed)
        /\ Range(Listed') \cap Range(Returned) = {}
    BY <2>1, ReleaseIs DEF Listed
  <2>4. Filled' = Filled
    BY <2>1 DEF Filled, BuffersOf
  <2>5. RingTyped'
    BY <2>1, <2>2, <2>3 DEF RingInv, RingTyped, Frames, Entries
  <2>6. RingApart'
    BY <2>1, <2>2, <2>3, <2>4 DEF RingInv, RingApart
  <2>7. RingWhole'
    BY <2>1, <2>2, <2>3, <2>4 DEF RingInv, RingWhole, RingApart
  <2> QED BY <2>5, <2>6, <2>7 DEF RingInv
<1> QED BY <1>1, <1>2

LEMMA CaptureMoves ==
  ASSUME RingInv, Capture
  PROVE  RingInv'
<1> DEFINE new == Head(done)
           b == new.buffer
<1>1. /\ capPc = "poll" /\ done # << >> /\ capPc' = "top" /\ seq' = seq /\ latest' = new
      /\ captured' = (captured \cup {b}) \ Range(Returned)
      /\ pending' = Kept \o Superseded(new)
      /\ done' = Tail(done) /\ queue' = queue \o Returned
  BY DEF Capture
<1>2. /\ done \in Seq(Frames) /\ IsInjective(Filled) /\ Filled \in Seq(Buffers)
  BY BuffersOfIs, EntriesHaveBuffers DEF RingInv, RingTyped, RingApart, Filled
<1>3. new \in Frames /\ done' \in Seq(Frames)
  BY <1>1, <1>2, HeadTailProperties
<1>4. Filled # << >> /\ Head(Filled) = b /\ Filled' = Tail(Filled)
  BY <1>1, <1>2, BuffersOfTail, EntriesHaveBuffers DEF Filled
<1>5. b \in Buffers /\ b \in Range(Filled) /\ IsInjective(Filled') /\ Range(Filled') = Range(Filled) \ {b}
  <2>1. /\ Head(Filled) \in Buffers /\ Head(Filled) \in Range(Filled) /\ IsInjective(Tail(Filled))
        /\ Range(Tail(Filled)) = Range(Filled) \ {Head(Filled)}
    BY <1>2, <1>4, ApartTail
  <2> QED BY <1>4, <2>1
<1> HIDE DEF new
<1>6. queue' \in Seq(Buffers) /\ IsInjective(queue') /\ Range(queue') = Range(queue) \cup Range(Returned)
  BY <1>1, ReturnedGoBack
<1>7. /\ Range(Returned) \subseteq Range(Listed)
      /\ Kept \in Seq(Entries) /\ IsInjective(BuffersOf(Kept)) /\ Range(BuffersOf(Kept)) \subseteq Range(Listed)
      /\ Range(BuffersOf(Kept)) \cap Range(Returned) = {}
  BY ReleaseIs
<1>8. b \notin captured /\ b \notin Range(Listed) /\ b \notin Range(Returned)
  BY <1>5, <1>7 DEF RingInv, RingApart
<1>9. /\ pending' \in Seq(Entries) /\ IsInjective(Listed')
      /\ Range(Listed') \subseteq Range(BuffersOf(Kept)) \cup {b}
  <2>1. CASE latest = NoFrame
    <3>1. pending' = Kept
      BY <1>1, <1>7, <2>1, ConcatEmptySeq DEF Superseded
    <3> QED BY <3>1, <1>7 DEF Listed
  <2>2. CASE latest # NoFrame
    <3> DEFINE e == [buffer |-> b, frame |-> latest]
    <3>1. pending' = Kept \o <<e>>
      BY <1>1, <2>2 DEF Superseded
    <3>2. e \in Entries /\ <<e>> \in Seq(Entries) /\ BuffersOf(<<e>>) = <<b>>
      BY <1>5, <2>2 DEF RingInv, RingTyped, Entries, BuffersOf
    <3> HIDE DEF e
    <3>3. pending' \in Seq(Entries) /\ Listed' = BuffersOf(Kept) \o <<b>>
      BY <3>1, <3>2, <1>7, ConcatProperties, BuffersOfConcat, EntriesHaveBuffers DEF Listed
    <3> DEFINE one == <<b>>
    <3> HIDE DEF one
    <3>4. one \in Seq(Buffers) /\ IsInjective(one) /\ Range(one) = {b}
      BY <1>5, SingleIsApart DEF one
    <3>5. BuffersOf(Kept) \in Seq(Buffers)
      BY <1>7, BuffersOfIs, EntriesHaveBuffers
    <3>6. Range(BuffersOf(Kept)) \cap Range(one) = {}
      BY <1>7, <1>8, <3>4
    <3>7. /\ IsInjective(BuffersOf(Kept) \o one)
          /\ Range(BuffersOf(Kept) \o one) = Range(BuffersOf(Kept)) \cup Range(one)
      BY <1>7, <3>4, <3>5, <3>6, ApartConcat
    <3> QED BY <3>3, <3>4, <3>7 DEF one
  <2> QED BY <2>1, <2>2
<1>10. RingTyped'
  BY <1>1, <1>3, <1>5, <1>6, <1>9 DEF RingInv, RingTyped, Frames, Entries
<1>11. RingApart'
  BY <1>1, <1>5, <1>6, <1>7, <1>8, <1>9 DEF RingInv, RingApart
<1>12. RingWhole'
  BY <1>1, <1>5, <1>6, <1>7, <1>8 DEF RingInv, RingWhole, RingApart
<1> QED BY <1>10, <1>11, <1>12 DEF RingInv

LEMMA RingInitInv == Init => RingInv
<1> SUFFICES ASSUME Init PROVE RingInv
  OBVIOUS
<1>1. /\ capPc = "off" /\ queue = << >> /\ done = << >> /\ pending = << >> /\ captured = {}
      /\ seq = 0 /\ latest = NoFrame
  BY DEF Init, CaptureInit
<1>2. Filled = << >> /\ Listed = << >>
  BY <1>1 DEF Filled, Listed, BuffersOf
<1> QED BY <1>1, <1>2 DEF RingInv, RingTyped, RingApart, RingWhole, IsInjective, Range

LEMMA OthersKeepRing ==
  ASSUME RingInv, UNCHANGED <<ring, seq, latest>>, capPc' = "off" <=> capPc = "off"
  PROVE  RingInv'
<1>1. UNCHANGED <<queue, done, captured, pending, seq, latest>>
  BY DEF ring
<1>2. Filled' = Filled /\ Listed' = Listed
  BY <1>1 DEF Filled, Listed, BuffersOf
<1>3. RingTyped' /\ RingApart' /\ RingWhole'
  BY <1>1, <1>2 DEF RingInv, RingTyped, RingApart, RingWhole, Frames, Entries
<1> QED BY <1>3 DEF RingInv

LEMMA RingNextInv == RingInv /\ [Next]_vars => RingInv'
<1> SUFFICES ASSUME RingInv, [Next]_vars PROVE RingInv'
  OBVIOUS
<1>1. CASE Start
  BY <1>1, StartFills DEF Start, Begin
<1>2. CASE JoinCapture
  BY <1>2, CloseEmpties DEF JoinCapture
<1>3. CASE CaptureStep
  <2>1. CASE Fill
    BY <2>1, FillMoves
  <2>2. CASE LoopTop(Stopping(CaptureThread))
    BY <2>2, TopReturns
  <2>3. CASE Capture
    BY <2>3, CaptureMoves
  <2>4. CASE PollTimeout \/ PollFails
    BY <2>4, OthersKeepRing DEF PollTimeout, PollFails
  <2> QED BY <1>3, <2>1, <2>2, <2>3, <2>4 DEF CaptureStep, CaptureThreadStep
<1>4. CASE \/ Stop \/ Reload \/ Join \/ Reloaded \/ AimStep \/ Preview \/ UNCHANGED vars
           \/ (\E t \in Threads : Quit(t)) \/ (\E w \in Workers : WorkerStep(w))
  <2>1. UNCHANGED <<ring, seq, latest, capPc>>
    BY <1>4 DEF Stop, Reload, Leave, Join, Reloaded, AimStep, Scan, Look, Aim, Preview, Quit,
                WorkerStep, Claim, Preprocess, Infer, vars, capture
  <2> QED BY <2>1, OthersKeepRing
<1> QED BY <1>1, <1>2, <1>3, <1>4 DEF Next, CoreStep

(* However the driver, the capture thread and the consumers interleave, in *)
(* a ring of any size: a buffer is with the driver, filled, or captured,   *)
(* and the driver never has it twice (V4L2Capture::release_ready_buffers). *)
THEOREM BuffersStayAccounted == Spec => []BuffersAccounted
<1>1. ASSUME RingInv PROVE BuffersAccounted
  <2>1. Places = queue \o Filled
    BY DEF Places, Filled, BuffersOf
  <2>2. /\ queue \in Seq(Buffers) /\ Filled \in Seq(Buffers)
        /\ IsInjective(queue) /\ IsInjective(Filled) /\ Range(queue) \cap Range(Filled) = {}
    BY <1>1, BuffersOfIs, EntriesHaveBuffers DEF RingInv, RingTyped, RingApart, Filled
  <2>3. /\ Places \in Seq(Buffers) /\ IsInjective(Places)
        /\ Range(Places) = Range(queue) \cup Range(Filled)
    BY <2>1, <2>2, ApartConcat
  <2>4. Cardinality(Range(Places)) = Len(Places)
    BY <2>3, ApartHasSize
  <2> QED BY <1>1, <2>3, <2>4 DEF RingInv, RingApart, RingWhole, BuffersAccounted
<1> QED BY RingInitInv, RingNextInv, <1>1, PTL DEF Spec
-----------------------------------------------------------------------------
(* The decoding (DetectionDecode).  A loop of the code is a fold in the    *)
(* module; here its rounds are the steps of a specification, whose states  *)
(* are the values of the fold over the rounds done so far.                 *)
D == INSTANCE DetectionDecode

(* What the adapter says when a model is loaded and what the decoder does  *)
(* with its frames are two readings of the same shapes (ModelAdapter.cpp,  *)
(* DecodeNMS.cpp): whatever the shapes, a frame is decoded as the adapter  *)
(* said or refused, and a model the adapter refuses is never decoded.      *)
THEOREM DecoderFollowsAdapter ==
  ASSUME NEW outs
  PROVE  D!Process(outs) \in {"error", D!DecodeType(outs)} /\ D!Process(outs) # "unknown"
<1>1. CASE outs = <<>>
  BY <1>1 DEF D!Process
<1>2. CASE outs # <<>> /\ Len(outs) = 1
  BY <1>2 DEF D!Process, D!DecodeType, D!SingleFits
<1>3. CASE outs # <<>> /\ Len(outs) # 1
  BY <1>3 DEF D!Process, D!DecodeType, D!Several
<1> QED BY <1>1, <1>2, <1>3

(* nms_boxes: one round looks at the next candidate in the order the sort  *)
(* gave; one of the orders it may give to equal scores.                    *)
VARIABLES chosen,   \* the boxes kept so far
          looked    \* candidates looked at

NmsInit == chosen = <<>> /\ looked = 0
NmsRound(cands, order, iou) ==
  /\ looked < Len(order) /\ looked' = looked + 1
  /\ chosen' = D!Keep(chosen, cands[order[looked + 1]], iou)
NmsLoop(cands, order, iou) == NmsInit /\ [][NmsRound(cands, order, iou)]_<<chosen, looked>>

PixelBox == [x1 : Int, y1 : Int, x2 : Int, y2 : Int, score : Int, class : Int]

(* No two of the boxes kept overlap; each candidate looked at was kept, or *)
(* overlaps one that was and is at least as good; nothing else is kept.    *)
NmsSound(cands, order, iou) ==
  /\ \A i, k \in 1 .. Len(chosen) : i # k => ~D!Overlap(chosen[i], chosen[k], iou)
  /\ \A j \in 1 .. looked : \E k \in 1 .. Len(chosen) :
       \/ chosen[k] = cands[order[j]]
       \/ chosen[k].score >= cands[order[j]].score /\ D!Overlap(chosen[k], cands[order[j]], iou)
  /\ \A k \in 1 .. Len(chosen) : \E j \in 1 .. looked : chosen[k] = cands[order[j]]

NmsInv(cands, order, iou) ==
  chosen \in Seq(PixelBox) /\ looked \in 0 .. Len(order) /\ NmsSound(cands, order, iou)

LEMMA LowHighCommute ==
  ASSUME NEW a \in Int, NEW b \in Int
  PROVE  /\ D!Low(a, b) = D!Low(b, a) /\ D!Low(a, b) \in Int
         /\ D!High(a, b) = D!High(b, a) /\ D!High(a, b) \in Int
  BY DEF D!Low, D!High

LEMMA OverlapIsMutual ==
  ASSUME NEW a \in PixelBox, NEW b \in PixelBox, NEW iou
  PROVE  D!Overlap(a, b, iou) = D!Overlap(b, a, iou)
<1>1. a.x1 \in Int /\ a.x2 \in Int /\ a.y1 \in Int /\ a.y2 \in Int
      /\ b.x1 \in Int /\ b.x2 \in Int /\ b.y1 \in Int /\ b.y2 \in Int
  BY DEF PixelBox
<1>2. D!Common(a, b) = D!Common(b, a)
  BY <1>1, LowHighCommute DEF D!Common
<1>3. \A i \in Int : D!Over(i) \in Nat
  BY DEF D!Over
<1>4. \A m, n \in Nat : m * n \in Nat
  OBVIOUS
<1>5. D!Area(a) \in Nat /\ D!Area(b) \in Nat
  <2>1. a.x2 - a.x1 \in Int /\ a.y2 - a.y1 \in Int /\ b.x2 - b.x1 \in Int /\ b.y2 - b.y1 \in Int
    BY <1>1
  <2> QED BY <2>1, <1>3, <1>4 DEF D!Area
<1>6. D!Common(a, b) \in Nat
  <2>1. /\ D!Low(a.x2, b.x2) - D!High(a.x1, b.x1) \in Int
        /\ D!Low(a.y2, b.y2) - D!High(a.y1, b.y1) \in Int
    <3>1. \A i, k \in Int : D!Low(i, k) \in Int /\ D!High(i, k) \in Int
      BY DEF D!Low, D!High
    <3>2. \A i, k \in Int : i - k \in Int
      OBVIOUS
    <3> QED BY ONLY <3>1, <3>2, <1>1
  <2> QED BY <2>1, <1>3, <1>4 DEF D!Common
<1>7. D!Area(a) + D!Area(b) - D!Common(a, b) = D!Area(b) + D!Area(a) - D!Common(b, a)
  BY <1>2, <1>5, <1>6
<1> QED BY <1>2, <1>7, Zenon DEF D!Overlap

LEMMA NmsRoundInv ==
  ASSUME NEW iou, NEW cands \in Seq(PixelBox), NEW order \in Seq(1 .. Len(cands)),
         \A i, k \in 1 .. Len(order) : i < k => cands[order[i]].score >= cands[order[k]].score,
         NmsInv(cands, order, iou), NmsRound(cands, order, iou)
  PROVE  NmsInv(cands, order, iou)'
<1> DEFINE j == looked + 1
           box == cands[order[j]]
           n == Len(chosen)
<1>1. /\ looked \in Nat /\ j \in 1 .. Len(order) /\ looked' = j /\ n \in Nat
      /\ chosen \in Seq(PixelBox) /\ chosen' = D!Keep(chosen, box, iou)
  BY DEF NmsInv, NmsRound
<1>2. order[j] \in 1 .. Len(cands) /\ box \in PixelBox
  BY <1>1
<1>3. /\ \A i, k \in 1 .. n : i # k => ~D!Overlap(chosen[i], chosen[k], iou)
      /\ \A i \in 1 .. looked : \E k \in 1 .. n :
           \/ chosen[k] = cands[order[i]]
           \/ chosen[k].score >= cands[order[i]].score /\ D!Overlap(chosen[k], cands[order[i]], iou)
      /\ \A k \in 1 .. n : \E i \in 1 .. looked : chosen[k] = cands[order[i]]
  BY DEF NmsInv, NmsSound
<1>4. \A k \in 1 .. n : chosen[k] \in PixelBox /\ chosen[k].score >= box.score
  <2> SUFFICES ASSUME NEW k \in 1 .. n PROVE chosen[k] \in PixelBox /\ chosen[k].score >= box.score
    OBVIOUS
  <2>1. PICK i \in 1 .. looked : chosen[k] = cands[order[i]]
    BY <1>3
  <2>2. i \in 1 .. Len(order) /\ i < j
    BY <1>1, <2>1
  <2>3. cands[order[i]].score >= box.score
    BY <1>1, <2>2
  <2>4. chosen[k] \in PixelBox
    BY <1>1
  <2>5. chosen[k].score = cands[order[i]].score
    BY <2>1
  <2> QED BY <2>3, <2>4, <2>5
<1>0. n \in Nat /\ looked \in Nat /\ j = looked + 1
  BY <1>1
<1> HIDE DEF box, n, j
<1>5. CASE \E b \in D!ToSet(chosen) : D!Overlap(b, box, iou)
  <2>1. chosen' = chosen /\ Len(chosen') = n
    BY <1>1, <1>5 DEF D!Keep, n
  <2>2. PICK k \in 1 .. n : D!Overlap(chosen[k], box, iou)
    <3>1. PICK b \in D!ToSet(chosen) : D!Overlap(b, box, iou)
      BY <1>5
    <3>2. PICK k \in 1 .. n : b = chosen[k]
      BY <1>1, <3>1 DEF D!ToSet, n
    <3> QED BY <3>1, <3>2
  <2>3. ASSUME NEW i \in 1 .. j
        PROVE  \E m \in 1 .. n : \/ chosen[m] = cands[order[i]]
                                 \/ chosen[m].score >= cands[order[i]].score
                                    /\ D!Overlap(chosen[m], cands[order[i]], iou)
    <3>1. CASE i \in 1 .. looked
      BY <3>1, <1>3
    <3>2. CASE i = j
      BY <3>2, <2>2, <1>4 DEF box
    <3> QED BY <3>1, <3>2, <1>0
  <2>4. ASSUME NEW m \in 1 .. n PROVE \E i \in 1 .. j : chosen[m] = cands[order[i]]
    <3>1. \A i \in 1 .. looked : i \in 1 .. j
      BY <1>0
    <3> QED BY <3>1, <1>3
  <2>5. j \in 0 .. Len(order)
    BY <1>1
  <2>6. NmsSound(cands, order, iou)'
    <3>1. \A i \in 1 .. j : \E m \in 1 .. n :
            \/ chosen[m] = cands[order[i]]
            \/ chosen[m].score >= cands[order[i]].score /\ D!Overlap(chosen[m], cands[order[i]], iou)
      BY <2>3
    <3>2. \A m \in 1 .. n : \E i \in 1 .. j : chosen[m] = cands[order[i]]
      BY <2>4
    <3>3. looked' = j
      BY <1>1
    <3>4. \A i, l \in 1 .. n : i # l => ~D!Overlap(chosen[i], chosen[l], iou)
      BY <1>3
    <3> QED BY ONLY <2>1, <3>1, <3>2, <3>3, <3>4 DEF NmsSound
  <2> QED BY <1>1, <2>1, <2>5, <2>6 DEF NmsInv
<1>6. CASE \A b \in D!ToSet(chosen) : ~D!Overlap(b, box, iou)
  <2>1. chosen' = Append(chosen, box)
    BY <1>1, <1>6 DEF D!Keep
  <2>2. /\ chosen' \in Seq(PixelBox) /\ Len(chosen') = n + 1 /\ chosen'[n + 1] = box
        /\ \A k \in 1 .. n : chosen'[k] = chosen[k]
    BY <1>1, <1>2, <2>1, AppendProperties DEF n
  <2>3. \A k \in 1 .. n : ~D!Overlap(chosen[k], box, iou) /\ ~D!Overlap(box, chosen[k], iou)
    <3> SUFFICES ASSUME NEW k \in 1 .. n
                 PROVE  ~D!Overlap(chosen[k], box, iou) /\ ~D!Overlap(box, chosen[k], iou)
      OBVIOUS
    <3>1. chosen[k] \in D!ToSet(chosen)
      BY <1>1 DEF D!ToSet, n
    <3> QED BY <3>1, <1>2, <1>4, <1>6, OverlapIsMutual
  <2>4. ASSUME NEW i \in 1 .. n + 1, NEW k \in 1 .. n + 1, i # k
        PROVE  ~D!Overlap(chosen'[i], chosen'[k], iou)
    <3>1. CASE i \in 1 .. n /\ k \in 1 .. n
      BY <3>1, <2>2, <2>4, <1>3
    <3>2. CASE i \in 1 .. n /\ k = n + 1
      BY <3>2, <2>2, <2>3
    <3>3. CASE i = n + 1 /\ k \in 1 .. n
      BY <3>3, <2>2, <2>3
    <3>4. i \in 1 .. n \/ i = n + 1
      BY <1>0
    <3>5. k \in 1 .. n \/ k = n + 1
      BY <1>0
    <3> QED BY <3>1, <3>2, <3>3, <3>4, <3>5, <2>4
  <2>5. ASSUME NEW i \in 1 .. j
        PROVE  \E m \in 1 .. n + 1 : \/ chosen'[m] = cands[order[i]]
                                     \/ chosen'[m].score >= cands[order[i]].score
                                        /\ D!Overlap(chosen'[m], cands[order[i]], iou)
    <3>1. CASE i \in 1 .. looked
      <4>1. PICK m \in 1 .. n : \/ chosen[m] = cands[order[i]]
                                \/ chosen[m].score >= cands[order[i]].score
                                   /\ D!Overlap(chosen[m], cands[order[i]], iou)
        BY <3>1, <1>3
      <4>2. m \in 1 .. n + 1
        BY <1>0
      <4> QED BY <4>1, <4>2, <2>2
    <3>2. CASE i = j
      <4>1. n + 1 \in 1 .. n + 1
        BY <1>0
      <4> QED BY <3>2, <4>1, <2>2 DEF box
    <3> QED BY <3>1, <3>2, <1>0
  <2>6. ASSUME NEW m \in 1 .. n + 1 PROVE \E i \in 1 .. j : chosen'[m] = cands[order[i]]
    <3>1. CASE m \in 1 .. n
      <4>1. \A i \in 1 .. looked : i \in 1 .. j
        BY <1>0
      <4> QED BY <3>1, <4>1, <1>3, <2>2
    <3>2. CASE m = n + 1
      <4>1. j \in 1 .. j
        BY <1>0
      <4> QED BY <3>2, <4>1, <2>2 DEF box
    <3> QED BY <3>1, <3>2, <1>0
  <2>7. j \in 0 .. Len(order)
    BY <1>1
  <2>8. NmsSound(cands, order, iou)'
    BY <1>1, <2>2, <2>4, <2>5, <2>6 DEF NmsSound
  <2> QED BY <1>1, <2>2, <2>7, <2>8 DEF NmsInv
<1> QED BY <1>5, <1>6

(* DecodeNMS.cpp: of any number of candidates, whatever the sort does with *)
(* equal scores, those that overlap a better one are dropped and no other. *)
THEOREM NmsIsGreedy ==
  ASSUME NEW CONSTANT iou, NEW CONSTANT cands \in Seq(PixelBox), NEW CONSTANT order \in Seq(1 .. Len(cands)),
         \A i, k \in 1 .. Len(order) : i < k => cands[order[i]].score >= cands[order[k]].score
  PROVE  NmsLoop(cands, order, iou) => []NmsSound(cands, order, iou)
<1>1. NmsInit => NmsInv(cands, order, iou)
  BY DEF NmsInit, NmsInv, NmsSound
<1>2. NmsInv(cands, order, iou) /\ [NmsRound(cands, order, iou)]_<<chosen, looked>>
        => NmsInv(cands, order, iou)'
  <2>1. CASE NmsRound(cands, order, iou)
    BY <2>1, NmsRoundInv
  <2>2. CASE UNCHANGED <<chosen, looked>>
    BY <2>2 DEF NmsInv, NmsSound
  <2> QED BY <2>1, <2>2
<1>3. NmsInv(cands, order, iou) => NmsSound(cands, order, iou)
  BY DEF NmsInv
<1> QED BY <1>1, <1>2, <1>3, PTL DEF NmsLoop
-----------------------------------------------------------------------------
(* What the model is shown of a frame and what the decoder maps back from. *)
(* A frame is of pixels; an area is what a runtime profile configures.     *)
FrameType == [w : Nat \ {0}, h : Nat \ {0}]
AreaType == [w : Int, h : Int, dx : Int, dy : Int]

VARIABLE part   \* the decoder's part of the frame and the crop of the RGA

(* The first profile of a session has no area, or one that fits; those     *)
(* that follow are any.                                                    *)
Usable(f, area) == \/ area.w = 0 /\ area.h = 0
                   \/ area.w \in 1 .. f.w /\ area.h \in 1 .. f.h
PartInit(f) == \E area \in AreaType :
                 Usable(f, area) /\ part = D!Areas(f, area, [decoder |-> D!NoArea, crop |-> D!NoArea])
PartNext(f) == \E area \in AreaType : part' = D!Areas(f, area, part)
Profiles(f) == PartInit(f) /\ [][PartNext(f)]_part

(* The decoder's part is what the model is shown, and lies in the frame.   *)
InFrame(f, p) == /\ p.x \in Nat /\ p.y \in Nat /\ p.w \in Nat \ {0} /\ p.h \in Nat \ {0}
                 /\ p.x + p.w <= f.w /\ p.y + p.h <= f.h
PartIsShown(f) == part.decoder = D!Shown(f, part.crop) /\ InFrame(f, part.decoder)

LEMMA ClampedStays == ASSUME NEW a \in Int, NEW most \in Nat PROVE D!Clamped(a, most) \in 0 .. most
  BY DEF D!Clamped, D!High, D!Low

LEMMA MiddleIsInFrame ==
  ASSUME NEW f \in FrameType, NEW area \in AreaType, area.w \in 1 .. f.w, area.h \in 1 .. f.h
  PROVE  InFrame(f, D!Middle(f, area)) /\ D!Shown(f, D!Middle(f, area)) = D!Middle(f, area)
<1> DEFINE m == D!Middle(f, area)
<1>1. /\ f.w \in Nat /\ f.h \in Nat /\ area.w \in Nat \ {0} /\ area.h \in Nat \ {0}
      /\ area.dx \in Int /\ area.dy \in Int /\ f.w - area.w \in Nat /\ f.h - area.h \in Nat
  BY DEF FrameType, AreaType
<1>2. /\ f.w \div 2 + area.dx - area.w \div 2 \in Int
      /\ f.h \div 2 + area.dy - area.h \div 2 \in Int
  BY <1>1
<1>3. m.x \in 0 .. (f.w - area.w) /\ m.y \in 0 .. (f.h - area.h) /\ m.w = area.w /\ m.h = area.h
  BY <1>1, <1>2, ClampedStays DEF D!Middle
<1> HIDE DEF m
<1>4. InFrame(f, m) /\ m.w > 0 /\ m.h > 0
  BY <1>1, <1>3 DEF InFrame
<1>5. D!Shown(f, m) = m
  BY <1>4 DEF D!Shown
<1> QED BY <1>4, <1>5 DEF m

LEMMA SquareIsInFrame == ASSUME NEW f \in FrameType PROVE InFrame(f, D!Square(f))
<1> DEFINE side == D!Low(f.w, f.h)
           q == D!Square(f)
<1>1. f.w \in Nat \ {0} /\ f.h \in Nat \ {0}
  BY DEF FrameType
<1>2. side \in Nat \ {0} /\ side <= f.w /\ side <= f.h
  BY <1>1 DEF D!Low
<1>3. q.w = side /\ q.h = side /\ q.x = (f.w - side) \div 2 /\ q.y = (f.h - side) \div 2
  BY DEF D!Square
<1> HIDE DEF side, q
<1>4. /\ (f.w - side) \div 2 \in Nat /\ (f.w - side) \div 2 <= f.w - side
      /\ (f.h - side) \div 2 \in Nat /\ (f.h - side) \div 2 <= f.h - side
  BY <1>1, <1>2
<1>5. InFrame(f, q)
  BY <1>1, <1>2, <1>3, <1>4 DEF InFrame
<1> QED BY <1>5 DEF q

LEMMA AreasAreShown ==
  ASSUME NEW f \in FrameType, NEW area \in AreaType, NEW old,
         Usable(f, area) \/ (old.decoder = D!Shown(f, old.crop) /\ InFrame(f, old.decoder))
  PROVE  /\ D!Areas(f, area, old).decoder = D!Shown(f, D!Areas(f, area, old).crop)
         /\ InFrame(f, D!Areas(f, area, old).decoder)
<1>1. f.w \in Nat \ {0} /\ f.h \in Nat \ {0}
  BY DEF FrameType
<1>2. CASE area.w \in 1 .. f.w /\ area.h \in 1 .. f.h
  <2>1. D!Areas(f, area, old) = [decoder |-> D!Middle(f, area), crop |-> D!Middle(f, area)]
    BY <1>2 DEF D!Areas
  <2> QED BY <1>2, <2>1, MiddleIsInFrame
<1>3. CASE area.w = 0 /\ area.h = 0
  <2>1. ~(area.w \in 1 .. f.w) /\ f.w > 0 /\ f.h > 0
    BY <1>1, <1>3
  <2>2. D!Areas(f, area, old) = [decoder |-> D!Square(f), crop |-> D!NoArea]
    BY <1>3, <2>1 DEF D!Areas
  <2>3. D!Shown(f, D!NoArea) = D!Square(f)
    BY DEF D!Shown, D!NoArea
  <2> QED BY <2>2, <2>3, SquareIsInFrame
<1>4. CASE ~Usable(f, area)
  <2>1. D!Areas(f, area, old) = old
    BY <1>4 DEF D!Areas, Usable
  <2> QED BY <1>4, <2>1
<1> QED BY <1>2, <1>3, <1>4 DEF Usable

(* WorkerPool.cpp, RgaProcessor.cpp: whatever profiles are applied one     *)
(* after the other, the decoder maps back from the part of the frame that  *)
(* the model was shown, also while a profile that does not fit is ignored. *)
THEOREM DecoderSeesWhatIsShown ==
  ASSUME NEW CONSTANT f \in FrameType
  PROVE  Profiles(f) => []PartIsShown(f)
<1>1. PartInit(f) => PartIsShown(f)
  BY AreasAreShown DEF PartInit, PartIsShown
<1>2. PartIsShown(f) /\ [PartNext(f)]_part => PartIsShown(f)'
  <2>1. CASE PartNext(f)
    BY <2>1, AreasAreShown DEF PartNext, PartIsShown
  <2>2. CASE part' = part
    BY <2>2 DEF PartIsShown
  <2> QED BY <2>1, <2>2
<1> QED BY <1>1, <1>2, PTL DEF Profiles

LEMMA Divides ==
  ASSUME NEW a \in Nat, NEW m \in Nat, m > 0
  PROVE  a = m * (a \div m) + (a % m) /\ a % m \in 0 .. m - 1 /\ a \div m \in Int
  OBVIOUS

LEMMA ScaleStays ==
  ASSUME NEW x \in Nat, NEW extent \in Nat, NEW input \in Nat \ {0}, x <= input
  PROVE  (x * extent) \div input \in 0 .. extent
<1> DEFINE q == (x * extent) \div input
           r == (x * extent) % input
<1>1. x * extent \in Nat
  OBVIOUS
<1>2. q \in Int /\ r \in 0 .. input - 1 /\ x * extent = input * q + r
  BY <1>1, Divides
<1> HIDE DEF q, r
<1>3. x * extent <= input * extent
  OBVIOUS
<1>4. q >= 0
  <2> SUFFICES ASSUME q <= -1 PROVE FALSE
    BY <1>2
  <2>1. input * q <= input * (-1)
    BY <1>2
  <2> QED BY <2>1, <1>1, <1>2
<1>5. q <= extent
  <2> SUFFICES ASSUME q >= extent + 1 PROVE FALSE
    BY <1>2
  <2>1. input * q >= input * (extent + 1)
    BY <1>2
  <2>2. input * (extent + 1) = input * extent + input
    OBVIOUS
  <2> QED BY <2>1, <2>2, <1>2, <1>3
<1> QED BY <1>2, <1>4, <1>5 DEF q

(* map_coords: a box of the model's input stays in the part that was shown *)
(* to it, and so in the frame.                                             *)
THEOREM BoxesStayInFrame ==
  ASSUME NEW p, NEW b, p.frame \in FrameType, p.input \in FrameType, InFrame(p.frame, p.roi),
         b \in PixelBox, b.x1 \in 0 .. p.input.w, b.x2 \in 0 .. p.input.w,
         b.y1 \in 0 .. p.input.h, b.y2 \in 0 .. p.input.h
  PROVE  LET box == D!MapCoords(b, p)
         IN /\ box.x1 \in p.roi.x .. (p.roi.x + p.roi.w) /\ box.x2 \in p.roi.x .. (p.roi.x + p.roi.w)
            /\ box.y1 \in p.roi.y .. (p.roi.y + p.roi.h) /\ box.y2 \in p.roi.y .. (p.roi.y + p.roi.h)
            /\ box.x1 \in 0 .. p.frame.w /\ box.x2 \in 0 .. p.frame.w
            /\ box.y1 \in 0 .. p.frame.h /\ box.y2 \in 0 .. p.frame.h
<1> DEFINE box == D!MapCoords(b, p)
           roi == p.roi
           input == p.input
           whole == p.frame
<1>1. /\ roi.x \in Nat /\ roi.y \in Nat /\ roi.w \in Nat \ {0} /\ roi.h \in Nat \ {0}
      /\ roi.x + roi.w <= whole.w /\ roi.y + roi.h <= whole.h /\ whole.w \in Nat /\ whole.h \in Nat
      /\ input.w \in Nat \ {0} /\ input.h \in Nat \ {0}
  BY DEF InFrame, FrameType
<1>2. ~(roi.w = 0 \/ roi.h = 0)
  BY <1>1
<1>3. /\ box.x1 = D!Scale(b.x1, roi.w, input.w, roi.x) /\ box.x2 = D!Scale(b.x2, roi.w, input.w, roi.x)
      /\ box.y1 = D!Scale(b.y1, roi.h, input.h, roi.y) /\ box.y2 = D!Scale(b.y2, roi.h, input.h, roi.y)
  BY <1>2 DEF D!MapCoords, PixelBox
<1> HIDE DEF box, roi, input, whole
<1>4. ASSUME NEW x \in Nat, NEW extent \in Nat, NEW most \in Nat \ {0}, NEW off \in Nat, x <= most
      PROVE  D!Scale(x, extent, most, off) \in off .. (off + extent)
  <2>1. (x * extent) \div most \in 0 .. extent
    BY <1>4, ScaleStays
  <2> QED BY <2>1 DEF D!Scale
<1>5. /\ b.x1 \in Nat /\ b.x1 <= input.w /\ b.x2 \in Nat /\ b.x2 <= input.w
      /\ b.y1 \in Nat /\ b.y1 <= input.h /\ b.y2 \in Nat /\ b.y2 <= input.h
  BY <1>1 DEF input
<1>6. box.x1 \in roi.x .. (roi.x + roi.w) /\ box.x2 \in roi.x .. (roi.x + roi.w)
  <2>1. D!Scale(b.x1, roi.w, input.w, roi.x) \in roi.x .. (roi.x + roi.w)
    BY <1>1, <1>4, <1>5
  <2>2. D!Scale(b.x2, roi.w, input.w, roi.x) \in roi.x .. (roi.x + roi.w)
    BY <1>1, <1>4, <1>5
  <2> QED BY <1>3, <2>1, <2>2
<1>7. box.y1 \in roi.y .. (roi.y + roi.h) /\ box.y2 \in roi.y .. (roi.y + roi.h)
  <2>1. D!Scale(b.y1, roi.h, input.h, roi.y) \in roi.y .. (roi.y + roi.h)
    BY <1>1, <1>4, <1>5
  <2>2. D!Scale(b.y2, roi.h, input.h, roi.y) \in roi.y .. (roi.y + roi.h)
    BY <1>1, <1>4, <1>5
  <2> QED BY <1>3, <2>1, <2>2
<1>8. /\ box.x1 \in 0 .. whole.w /\ box.x2 \in 0 .. whole.w
      /\ box.y1 \in 0 .. whole.h /\ box.y2 \in 0 .. whole.h
  BY <1>1, <1>6, <1>7
<1> QED BY <1>6, <1>7, <1>8 DEF box, roi, input, whole
-----------------------------------------------------------------------------
(* The scores of an anchor are percentages, one for each class.            *)
ScoreRow == {row \in Seq(0 .. 100) : row # <<>>}

LEMMA SmallestExists ==
  ASSUME NEW T, T \subseteq Nat, T # {} PROVE \E x \in T : \A y \in T : x <= y
<1> DEFINE R == {p \in Nat \X Nat : p[1] < p[2]}
<1>1. IsWellFoundedOn(R, Nat)
  BY NatLessThanWellFounded DEF OpToRel
<1>2. \A x, y \in Nat : y < x => <<y, x>> \in R
  OBVIOUS
<1> HIDE DEF R
<1>3. PICK x \in T : \A y \in T : ~(<<y, x>> \in R)
  BY <1>1, WFMin
<1>4. ASSUME NEW y \in T PROVE x <= y
  <2>1. x \in Nat /\ y \in Nat /\ ~(y < x)
    BY <1>2, <1>3
  <2> QED BY <2>1
<1> QED BY <1>4

LEMMA BestIsThere ==
  ASSUME NEW row \in ScoreRow
  PROVE  D!BestOf(row) \in DOMAIN row /\ \A k \in DOMAIN row : row[k] <= row[D!BestOf(row)]
<1>1. /\ DOMAIN row = 1 .. Len(row) /\ Len(row) \in Nat \ {0}
      /\ \A i \in DOMAIN row : row[i] \in 0 .. 100
  <2>1. row \in Seq(0 .. 100) /\ row # <<>>
    BY DEF ScoreRow
  <2>2. DOMAIN row = 1 .. Len(row) /\ Len(row) \in Nat
    BY <2>1, LenProperties
  <2>3. \A i \in DOMAIN row : row[i] \in 0 .. 100
    BY <2>1, <2>2, ElementOfSeq
  <2>4. Len(row) # 0
    BY <2>1, EmptySeq
  <2> QED BY <2>2, <2>3, <2>4
<1> DEFINE gaps == {100 - row[i] : i \in DOMAIN row}
<1>2. gaps \subseteq Nat /\ gaps # {}
  <2>1. 1 \in DOMAIN row
    BY <1>1
  <2>2. ASSUME NEW i \in DOMAIN row PROVE 100 - row[i] \in Nat
    <3>1. row[i] \in 0 .. 100
      BY <1>1
    <3> QED BY <3>1
  <2> QED BY <2>1, <2>2
<1>3. PICK least \in gaps : \A g \in gaps : least <= g
  BY <1>2, SmallestExists
<1>4. PICK top \in DOMAIN row : least = 100 - row[top]
  BY <1>3
<1>5. ASSUME NEW k \in DOMAIN row PROVE row[k] <= row[top]
  <2>1. 100 - row[top] <= 100 - row[k]
    BY <1>3, <1>4
  <2>2. row[top] \in 0 .. 100 /\ row[k] \in 0 .. 100
    BY <1>1, <1>4
  <2> QED BY <2>1, <2>2
<1> DEFINE tops == {i \in DOMAIN row : row[i] = row[top]}
<1>6. tops \subseteq Nat /\ tops # {}
  BY <1>1
<1>7. PICK first \in tops : \A i \in tops : first <= i
  BY <1>6, SmallestExists
<1>8. first \in DOMAIN row /\ \A k \in DOMAIN row : row[k] <= row[first]
  BY <1>5, <1>7
<1>9. ASSUME NEW k \in 1 .. first - 1 PROVE row[k] < row[first]
  <2>1. k \in DOMAIN row /\ ~(first <= k)
    BY <1>1, <1>8
  <2>2. row[k] # row[top]
    BY <1>7, <2>1
  <2>3. row[k] <= row[first] /\ row[first] = row[top]
    BY <1>7, <1>8, <2>1
  <2>4. row[k] \in 0 .. 100 /\ row[first] \in 0 .. 100
    BY <1>1, <1>8, <2>1
  <2> DEFINE low == row[k]
             high == row[first]
  <2>5. low \in 0 .. 100 /\ high \in 0 .. 100
    BY <2>4
  <2>6. low <= high
    BY <2>3
  <2>7. low # high
    BY <2>2, <2>3
  <2> HIDE DEF low, high
  <2>8. low < high
    BY <2>5, <2>6, <2>7
  <2> QED BY <2>8 DEF low, high
<1>10. \E i \in DOMAIN row : /\ \A k \in DOMAIN row : row[k] <= row[i]
                             /\ \A k \in 1 .. i - 1 : row[k] < row[i]
  BY <1>8, <1>9
<1> QED BY <1>10 DEF D!BestOf

(* DecodeNMS.cpp looks at the aux output first and skips a cell whose aux  *)
(* is below the threshold: whatever the scores, it skips none that would   *)
(* have passed.                                                            *)
THEOREM AuxCutIsSafe ==
  ASSUME NEW classes \in Seq(ScoreRow), NEW aux, aux \in Seq(Nat), Len(aux) = Len(classes), NEW conf \in Nat
  PROVE  D!Decoded(classes, aux, conf)
           = {a \in DOMAIN classes : D!Scored(classes[a], D!AuxAt(aux, a)) >= conf}
<1> SUFFICES ASSUME NEW a \in DOMAIN classes, D!Scored(classes[a], D!AuxAt(aux, a)) >= conf
             PROVE  D!AuxAt(aux, a) >= conf
  BY DEF D!Decoded
<1> DEFINE weight == D!AuxAt(aux, a)
           score == classes[a][D!BestOf(classes[a])]
<1>1. a \in DOMAIN aux /\ classes[a] \in ScoreRow
  OBVIOUS
<1>2. weight \in Nat
  BY <1>1 DEF D!AuxAt
<1>3. score \in Nat /\ score <= 100
  <2>1. D!BestOf(classes[a]) \in DOMAIN classes[a]
    BY <1>1, BestIsThere
  <2>2. classes[a] \in Seq(0 .. 100)
    BY <1>1 DEF ScoreRow
  <2>3. score \in 0 .. 100
    BY <2>1, <2>2, LenProperties, ElementOfSeq
  <2> HIDE DEF score
  <2> QED BY <2>3
<1>4. (score * weight) \div 100 >= conf
  BY DEF D!Scored
<1> HIDE DEF weight, score
<1>5. (score * weight) \div 100 \in 0 .. weight
  BY <1>2, <1>3, ScaleStays
<1>6. weight >= conf
  BY <1>2, <1>4, <1>5
<1> QED BY <1>6 DEF weight
=============================================================================
