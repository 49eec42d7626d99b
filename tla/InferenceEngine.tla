-------------------------- MODULE InferenceEngine --------------------------
(***************************************************************************)
(* How the pixels of a frame reach the NPU: the RKNN context of a worker   *)
(* with its input and output memories (rknn/RKNNEngine.cpp), the worker    *)
(* that fills the input (rknn/WorkerPool.cpp), the RGA that crops the      *)
(* frame (rga/RgaProcessor.cpp) and the tensor it hands over               *)
(* (rknn/Preprocess.cpp).  A binding of the input cannot be undone.        *)
(***************************************************************************)
EXTENDS Integers

CONSTANTS
  Sizes,       \* sizes of the part of the frame that is cropped
  NoSize,
  Outputs,     \* outputs of the model
  MaxFrame     \* bound: frames

ASSUME EngineAssumption == Outputs \in Nat \ {0} /\ MaxFrame \in Nat \ {0} /\ NoSize \notin Sizes

VARIABLES
  model,    \* what the file says of its input: its type, and whether zero is at -128, NHWC and affine
  options,  \* of the profile: pass_through, external_dma_input
  worker,   \* "off", or "ready": it takes frames
  ctx,      \* the RKNN context: "none", "clean", or its input is bound to "own" or "rga" memory
  mems,     \* the NPU memories that are allocated
  ready,    \* zero_copy_ready_
  bound,    \* bound_input_dma_fd_ names the RGA's buffer
  content,  \* what the input memory, the RGA's buffer and the runtime's copy hold
  seen,     \* what the last inference read, and the frame it was for
  middle,   \* the RGA's buffer between crop and resize: the size noted, whether it has a handle, what is mapped
  size,     \* of the part the RGA is to crop
  number    \* of the last frame

evars == <<model, options, worker, ctx, mems, ready, bound, content, seen, middle, size, number>>

Types == {"int8", "uint8", "fp16"}
Models == [type : Types, plain : BOOLEAN]
Options == [pass : BOOLEAN, dma : BOOLEAN]
NoModel == [type |-> "none", plain |-> FALSE]
NoOptions == [pass |-> FALSE, dma |-> FALSE]
Nothing == [frame |-> 0, as |-> "none"]
Pixels(n, as) == [frame |-> n, as |-> as]
NoMiddle == [size |-> NoSize, handle |-> FALSE, mapped |-> NoSize]

(* classify_input_pass, for a model in NHWC where plain is the affine      *)
(* quantisation with its zero at -128.                                     *)
PassMode(m) ==
  IF m.type = "uint8" THEN "uint8_native"
  ELSE IF m.type = "int8" /\ m.plain THEN "xor_shift128"
  ELSE "compatible"
(* The form in which bound memory is read, and what the copy makes of the  *)
(* RGA's unsigned pixels.                                                  *)
ReadAs(m) == IF m.type = "int8" THEN "shifted" ELSE "raw"
Moved(m) == IF PassMode(m) = "xor_shift128" THEN "shifted" ELSE "raw"

EngineInit ==
  /\ model = NoModel /\ options = NoOptions
  /\ worker = "off" /\ ctx = "none" /\ mems = {} /\ ready = FALSE /\ bound = FALSE
  /\ content = [own |-> Nothing, rga |-> Nothing, copy |-> Nothing]
  /\ seen = [for |-> 0, data |-> Nothing] /\ middle = NoMiddle /\ size = NoSize /\ number = 0
-----------------------------------------------------------------------------
(* init_zero_copy: the queries come first; of the memories, those made     *)
(* before a failure are given back, and a failure after the input was      *)
(* bound leaves a context that is good for nothing (fatal).                *)
Faults == {"none", "init", "query", "input", "bind", "output", "decoder"}
Wanted(m, o) == o.pass /\ PassMode(m) # "compatible"
Fatal(wanted, fault) == wanted /\ fault = "output"
Bound(wanted, fault) == wanted /\ fault \notin {"query", "input", "bind", "output"}

RolledBack(made) == {}
Starts(wanted, fault) == fault \notin {"init", "decoder"} /\ ~Fatal(wanted, fault)

(* The memories after the attempt: the input is 0, the outputs count on.   *)
(* A worker that does not start destroys them with the engine.             *)
Made(wanted, fault, k) ==
  IF Bound(wanted, fault) THEN 0 .. Outputs
  ELSE IF ~wanted \/ fault \in {"query", "input"} THEN {}
  ELSE RolledBack(IF fault = "bind" THEN {0} ELSE 0 .. k)

(* InferenceWorker::start, all of it in the thread that starts the pool.   *)
(* Warming up reads zeros and may fail without consequence.                *)
StartWorker(m, o, fault, k) ==
  LET wanted == Wanted(m, o)
  IN /\ worker = "off" /\ number < MaxFrame
     /\ IF Starts(wanted, fault)
        THEN /\ worker' = "ready" /\ model' = m /\ options' = o /\ size' \in Sizes
             /\ mems' = Made(wanted, fault, k) /\ ready' = Bound(wanted, fault)
             /\ ctx' = IF Bound(wanted, fault) \/ Fatal(wanted, fault) THEN "own" ELSE "clean"
        ELSE UNCHANGED <<worker, model, options, size, mems, ready, ctx>>
     /\ UNCHANGED <<bound, content, seen, middle, number>>

(* RKNNEngine::destroy and the end of the RGA's buffers.                   *)
StopWorker ==
  /\ worker = "ready" /\ worker' = "off"
  /\ ctx' = "none" /\ mems' = {} /\ ready' = FALSE
  /\ bound' = FALSE /\ middle' = NoMiddle
  /\ content' = [own |-> Nothing, rga |-> Nothing, copy |-> Nothing]
  /\ seen' = [for |-> 0, data |-> Nothing]
  /\ model' = NoModel /\ options' = NoOptions /\ size' = NoSize
  /\ UNCHANGED number

(* A new profile, applied before the next frame.                           *)
Resize(s) ==
  /\ worker = "ready" /\ number < MaxFrame /\ s # size /\ size' = s
  /\ UNCHANGED <<model, options, worker, ctx, mems, ready, bound, content, seen, middle, number>>
-----------------------------------------------------------------------------
(* The RGA's way through the middle buffer, taken when the single pass     *)
(* fails.  A buffer of another size is given up first; what fails after    *)
(* that leaves the old size noted.                                         *)
Middles(fault) ==
  IF middle.size = size THEN middle
  ELSE CASE fault = "alloc" -> [middle EXCEPT !.handle = FALSE, !.mapped = NoSize]
         [] fault = "import" -> [middle EXCEPT !.handle = FALSE, !.mapped = size]
         [] OTHER -> [size |-> size, handle |-> TRUE, mapped |-> size]
Crops(fault) == fault \notin {"alloc", "import", "crop"} /\ Middles(fault).handle

(* Preprocess::process fails: the frame is given up.                       *)
LoseFrame(fault) ==
  /\ worker = "ready" /\ number < MaxFrame /\ number' = number + 1
  /\ ~Crops(fault) /\ middle' = Middles(fault)
  /\ UNCHANGED <<model, options, worker, ctx, mems, ready, bound, content, seen, size>>

(* The tensor is the RGA's buffer itself; a worker that may, binds it to   *)
(* the input once, and copies as long as that fails.                       *)
Binds(ok) == ready /\ options.dma /\ PassMode(model) = "uint8_native" /\ ~bound /\ ok

(* Mutant: the input that was bound is tried no more, failed or not.       *)
BoundOnceTried(ok) == bound \/ (ready /\ options.dma /\ PassMode(model) = "uint8_native")

BoundNow(ok) == bound \/ Binds(ok)
Direct(ok) == options.dma /\ BoundNow(ok) /\ PassMode(model) = "uint8_native"

(* Which memory the NPU reads, and what the worker puts there; without the *)
(* memory of its own the runtime is given the pixels to quantise.          *)
Source(ok) == IF ~ready THEN "copy" ELSE IF Binds(ok) THEN "rga" ELSE ctx
Put(n, ok) ==
  LET fresh == [content EXCEPT !.rga = Pixels(n, "raw")]
  IN IF ~ready THEN [fresh EXCEPT !.copy = Pixels(n, "raw")]
     ELSE IF Direct(ok) THEN fresh
     ELSE [fresh EXCEPT ![Source(ok)] = Pixels(n, Moved(model))]

InferFrame(two, ok, run) ==
  /\ worker = "ready" /\ number < MaxFrame /\ number' = number + 1
  /\ two => Crops("none")
  /\ middle' = IF two THEN Middles("none") ELSE middle
  /\ content' = Put(number', ok)
  /\ bound' = BoundNow(ok) /\ ctx' = IF Binds(ok) THEN "rga" ELSE ctx
  /\ seen' = IF run THEN [for |-> number', data |-> content'[Source(ok)]] ELSE seen
  /\ UNCHANGED <<model, options, worker, mems, ready, size>>

EngineNext ==
  \/ \E m \in Models, o \in Options, f \in Faults, k \in 0 .. Outputs : StartWorker(m, o, f, k)
  \/ StopWorker
  \/ \E s \in Sizes : Resize(s)
  \/ \E f \in {"none", "alloc", "import", "crop"} : LoseFrame(f)
  \/ \E two, ok, run \in BOOLEAN : InferFrame(two, ok, run)
-----------------------------------------------------------------------------
(* Each inference read the pixels of the frame it was run for, in the form *)
(* in which the memory it read is taken: signed memory is shifted once,    *)
(* memory of the runtime never, and a binding that failed leaves no        *)
(* picture of an earlier frame to read.                                    *)
InputIsThisFrame ==
  seen.for > 0 =>
    /\ seen.data.frame = seen.for
    /\ seen.data.as = IF ready THEN ReadAs(model) ELSE "raw"

(* A context whose input is bound is only ever run through its memory: the *)
(* runtime would refuse its inputs for good.  And nothing of the NPU's is  *)
(* left when the worker is gone, whatever step failed.                     *)
ContextIsSound ==
  /\ worker = "ready" /\ ~ready => ctx = "clean" /\ mems = {}
  /\ worker = "off" => mems = {}

(* What the engine reads is right in every context it can get into.        *)
EngineIsSound == InputIsThisFrame /\ ContextIsSound
=============================================================================
