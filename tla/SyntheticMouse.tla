--------------------------- MODULE SyntheticMouse ---------------------------
(***************************************************************************)
(* The proxy without a physical mouse (usbproxy/synthetic.cpp): main takes *)
(* one branch or the other when it starts.  EP0 serves a descriptor of its *)
(* own and starts an injector thread when the host configures the          *)
(* endpoint; a counter of generations tells the threads of before to end.  *)
(* The counter is kept as the set of threads that have read its value of   *)
(* now.  A report is a unit: the pending motion leaves in one.             *)
(***************************************************************************)
EXTENDS UsbEndpoints

CONSTANT Injectors   \* bound: injector threads at a time

VARIABLES
  mode,      \* synthetic_mode of main
  enabled,   \* ep_enabled of synthetic_ep0_loop
  kept,      \* the gadget refused to disable the endpoint
  reset,     \* the bus was reset, and EP0 has not fetched the event
  thr,       \* the injector threads
  current,   \* those that have read the generation of now
  motion     \* there is pending motion

synth == <<enabled, kept, reset, thr, current, motion>>
all   == <<vars, mode, synth>>

(* main: without a mouse there is none to wait for.                        *)
ProxyInit ==
  /\ \/ mode = "physical" /\ Init
     \/ mode = "synthetic" /\ Unused /\ pc = "setup" /\ plugged = TRUE
  /\ enabled = FALSE /\ kept = FALSE /\ reset = FALSE
  /\ thr = [t \in Injectors |-> "off"] /\ current = {} /\ motion = FALSE
-----------------------------------------------------------------------------
(* EP0: no endpoint thread is waited for when it ends.                     *)
Goto(p) == pc' = p /\ UNCHANGED <<job, at, last, target, configured, curAlt, flags, gate, threads, inject>>

SynthTop ==
  /\ pc = "top" /\ Goto(IF stopEp0 THEN "ended" ELSE "armed")
  /\ UNCHANGED <<mode, synth>>

(* Mutant: a reset leaves ep_enabled as it is.                             *)
ForgetsReset ==
  /\ kept' \in {kept, enabled \/ kept} /\ enabled' = enabled /\ current' = {}

(* The endpoint is disabled, an outcome that nobody looks at, and the      *)
(* threads of this generation are told to end.                             *)
Retire ==
  /\ kept' \in {kept, enabled \/ kept} /\ enabled' = FALSE /\ current' = {}

(* RESET or DISCONNECT, in the order the host made it happen.              *)
SynthReset ==
  /\ pc = "fetch" /\ reset /\ reset' = FALSE
  /\ Retire /\ Goto("top")
  /\ UNCHANGED <<mode, thr, motion>>

(* SET_CONFIGURATION of a configuration.  An endpoint that cannot be       *)
(* enabled ends the process (usb_raw_ep_enable).                           *)
SynthConfigures ==
  /\ pc = "fetch" /\ ~reset
  /\ \/ enabled /\ Goto("top") /\ UNCHANGED <<enabled, thr>>
     \/ ~enabled /\ Goto("failed") /\ UNCHANGED <<enabled, thr>>
     \/ /\ ~enabled /\ ~kept /\ Goto("top") /\ enabled' = TRUE
        /\ \E t \in Injectors : thr[t] = "off" /\ thr' = [thr EXCEPT ![t] = "born"]
  /\ UNCHANGED <<mode, kept, reset, current, motion>>

SynthUnconfigures ==
  /\ pc = "fetch" /\ ~reset
  /\ Retire /\ Goto("top")
  /\ UNCHANGED <<mode, reset, thr, motion>>

SynthEp0 == SynthTop \/ (Fetch /\ UNCHANGED <<mode, synth>>)
SynthHost ==
  \/ SynthReset \/ SynthConfigures \/ SynthUnconfigures
  \/ ~reset /\ HostAsksOther /\ UNCHANGED <<mode, synth>>

(* The host resets the bus whenever it likes: what is written fails then,  *)
(* and EP0 learns of it later.                                             *)
BusResets ==
  /\ pc \notin Starting /\ ~reset /\ reset' = TRUE
  /\ UNCHANGED <<vars, mode, enabled, kept, thr, current, motion>>
-----------------------------------------------------------------------------
(* synthetic_injector_thread.  The generation is read by the thread, some  *)
(* time after EP0 created it.                                              *)
Works == (enabled \/ kept) /\ ~reset

Becomes(t, s) ==
  /\ thr' = [thr EXCEPT ![t] = s]
  /\ current' = IF s = "off" THEN current \ {t} ELSE current

Starts(t) ==
  /\ thr[t] = "born" /\ thr' = [thr EXCEPT ![t] = "check"] /\ current' = current \cup {t}
  /\ UNCHANGED <<vars, mode, enabled, kept, reset, motion>>

(* The head of the loop.  mouse_control_build_synthetic_report takes all   *)
(* the pending motion; what one report cannot hold is dropped.             *)
InjectorLoops(t) ==
  /\ thr[t] = "check"
  /\ IF stopEp0 \/ t \notin current
     THEN Becomes(t, "off") /\ UNCHANGED motion
     ELSE motion /\ motion' = FALSE /\ Becomes(t, "armed")
  /\ UNCHANGED <<vars, mode, enabled, kept, reset>>

(* usb_raw_ep_write: it waits for the host, fails at once, or fails when   *)
(* the endpoint goes.  The report is lost with it.                         *)
InjectorWrites(t) ==
  /\ thr[t] = "armed" /\ Becomes(t, IF Works THEN "write" ELSE "off")
  /\ UNCHANGED <<vars, mode, enabled, kept, reset, motion>>

InjectorReturns(t) ==
  /\ thr[t] = "write" /\ Becomes(t, IF Works THEN "check" ELSE "off")
  /\ UNCHANGED <<vars, mode, enabled, kept, reset, motion>>

(* An AI move or a wheel step.                                             *)
Moves ==
  /\ ~motion /\ motion' = TRUE
  /\ UNCHANGED <<vars, mode, enabled, kept, reset, thr, current>>
-----------------------------------------------------------------------------
InjectorNext(t) == Starts(t) \/ InjectorLoops(t) \/ InjectorWrites(t) \/ InjectorReturns(t)

SynthNext ==
  /\ mode = "synthetic" /\ pc \notin Over
  /\ \/ SetUp /\ UNCHANGED <<mode, synth>>
     \/ Terminate /\ UNCHANGED <<mode, synth>>
     \/ SynthEp0 \/ SynthHost \/ BusResets \/ Moves
     \/ \E t \in Injectors : InjectorNext(t)

Physical(A) == mode = "physical" /\ A /\ UNCHANGED <<mode, synth>>
ProxyNext == Physical(Next) \/ SynthNext

(* As for the physical mouse; the host polls the endpoint, and the threads *)
(* run.                                                                    *)
ProxyFairness ==
  /\ WF_all(StartUp /\ UNCHANGED <<mode, synth>>) /\ WF_all(Physical(HotplugCallback))
  /\ WF_all(Physical(Ep0Next)) /\ SF_all(Physical(Clean)) /\ WF_all(Physical(InjectorPushes))
  /\ \A e \in Eps : /\ WF_all(Physical(ThreadStep(e)))
                    /\ WF_all(Physical(WriterTop(e) \/ WriterBlocks(e) \/ Written(e)))
  /\ WF_all(mode = "synthetic" /\ SynthEp0)
  /\ WF_all(mode = "synthetic" /\ SynthReset)
  /\ \A t \in Injectors : WF_all(pc \notin Over /\ InjectorNext(t))
ProxySpec == ProxyInit /\ [][ProxyNext]_all /\ ProxyFairness
-----------------------------------------------------------------------------
(* With the endpoint configured, motion of the AI is taken by some         *)
(* injector, however the resets, the configurations and the threads they   *)
(* start and end overlap; if not, the host has reset or unconfigured it,   *)
(* or the proxy was told to stop.                                          *)
MotionLeaves ==
  (mode = "synthetic" /\ motion) ~> (~motion \/ ~enabled \/ reset \/ stopEp0 \/ pc \in Over)

=============================================================================
