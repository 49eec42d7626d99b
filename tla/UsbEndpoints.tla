---------------------------- MODULE UsbEndpoints ----------------------------
(***************************************************************************)
(* The endpoint threads of the USB proxy and the EP0 loop that starts and  *)
(* stops them (usbproxy/proxy.cpp).  Each endpoint of the alternate        *)
(* setting in force has a queue, a reader that fills it and a writer that  *)
(* empties it; the injector of mouse_control pushes into the same queue    *)
(* through the sink of its interface.  A report is a unit: only the length *)
(* of a queue is kept.  One USB configuration.                             *)
(***************************************************************************)
EXTENDS Integers, FiniteSets

CONSTANTS
  NumIfaces,   \* bNumInterfaces
  Alts,        \* the alternate settings of each interface
  Eps,         \* the endpoints
  IfaceOf, AltOf, IsIn,   \* where an endpoint is, and its direction
  HidIfaces,   \* the interfaces of class HID
  MouseIface,  \* the one whose layout has X and Y (inject_iface)
  Compat,      \* hid_passthrough_compat
  QueueMax,    \* 32 in the code
  OutBound,    \* bound: reports of the host that wait for the device
  NoEp

Ifaces == 0 .. NumIfaces - 1

ASSUME EndpointAssumption ==
  /\ NumIfaces \in Nat \ {0} /\ QueueMax \in Nat \ {0} /\ OutBound \in Nat
  /\ Alts \in [Ifaces -> SUBSET Nat] /\ \A i \in Ifaces : 0 \in Alts[i]
  /\ IfaceOf \in [Eps -> Ifaces] /\ AltOf \in [Eps -> Nat]
  /\ IsIn \in [Eps -> BOOLEAN] /\ Compat \in BOOLEAN
  /\ HidIfaces \subseteq Ifaces /\ MouseIface \in Ifaces
  /\ NoEp \notin Eps

(* A mouse has one interrupt IN endpoint in a setting; with two of them    *)
(* the second would overwrite g_inject_ctx under the sink of the first.    *)
ASSUME OneSinkAssumption ==
  \A d, e \in Eps : IsIn[d] /\ IsIn[e] /\ IfaceOf[d] = IfaceOf[e]
                    /\ AltOf[d] = AltOf[e] => d = e

VARIABLES
  pc,          \* start-up: "scan", "probe", "setup"; then EP0: "top", "armed", "fetch", "signal", "join", "clean", "start";
               \* "ended" in order, "forced" out or "failed" to start
  job,         \* why EP0 stops endpoints: "none", "reset", "connect", "config", "alt", "exit"
  at, last,    \* the interface in hand, and the last one of the job
  target,      \* the alternate setting a SET_INTERFACE asks for
  configured,  \* set_configuration_done_once
  curAlt,      \* current_altsetting
  stopAll,     \* please_stop_eps
  stopEp0,     \* please_stop_ep0
  stopSent,    \* proxy_stop_requested
  signalled,   \* signal_received of handle_signal
  plugged,     \* the mouse is there
  ready, expected,   \* hid_ready_interfaces, hid_expected_interfaces
  rd, wr,      \* the threads of an endpoint
  stopEp,      \* thread_info.please_stop
  live,        \* the queue, its mutex and the flag are allocated
  len,         \* data_queue
  sink,        \* inject_sinks
  inj,         \* the endpoint the injector writes to, holding inject_sink_mutex
  layout       \* the mouse interface has a usable layout

ep0     == <<pc, job, at, last, target, configured, curAlt>>
flags   == <<stopAll, stopEp0, stopSent, signalled, plugged>>
gate    == <<ready, expected>>
threads == <<rd, wr, stopEp, live, len>>
inject  == <<sink, inj, layout>>
vars    == <<ep0, flags, gate, threads, inject>>

Starting == {"scan", "probe", "setup"}
Over     == {"ended", "forced", "failed"}

(* Nothing configured, no thread, no flag.                                 *)
Unused ==
  /\ job = "none" /\ at = 0 /\ last = 0 /\ target = 0
  /\ configured = FALSE /\ curAlt = [i \in Ifaces |-> 0]
  /\ stopAll = FALSE /\ stopEp0 = FALSE /\ stopSent = FALSE /\ signalled = FALSE
  /\ ready = {} /\ expected = {}
  /\ rd = [e \in Eps |-> "off"] /\ wr = [e \in Eps |-> "off"]
  /\ stopEp = [e \in Eps |-> FALSE] /\ live = [e \in Eps |-> FALSE]
  /\ len = [e \in Eps |-> 0]
  /\ sink = [i \in Ifaces |-> NoEp] /\ inj = NoEp /\ layout = FALSE

Init == Unused /\ pc = "scan" /\ plugged \in BOOLEAN

EpsOf(i, a) == {e \in Eps : IfaceOf[e] = i /\ AltOf[e] = a}
-----------------------------------------------------------------------------
(* SIGINT or SIGTERM, handle_signal.  The first ends EP0 only while it     *)
(* waits in its ioctl (usb_raw_event_fetch then makes ep0_loop return at   *)
(* once); the second, wherever it comes from, ends the process.            *)
HandleSignal ==
  IF signalled
  THEN pc' = "forced" /\ UNCHANGED <<stopAll, stopEp0, signalled>>
  ELSE /\ signalled' = TRUE /\ stopAll' = TRUE /\ stopEp0' = TRUE
       /\ pc' = IF pc = "fetch" THEN "ended" ELSE pc

Terminate ==
  /\ HandleSignal
  /\ UNCHANGED <<job, at, last, target, configured, curAlt, stopSent, plugged,
                 gate, threads, inject>>

(* The physical device is gone: the first thread that sees it sets the     *)
(* flags and sends the process a SIGINT.                                   *)
StopProxy ==
  /\ stopSent' = TRUE
  /\ IF stopSent THEN UNCHANGED <<stopAll, stopEp0, signalled, pc>>
     ELSE HandleSignal

Plug ==
  /\ pc \in Starting /\ ~plugged /\ plugged' = TRUE
  /\ UNCHANGED <<ep0, stopAll, stopEp0, stopSent, signalled, gate, threads, inject>>

Unplug ==
  /\ plugged /\ plugged' = FALSE
  /\ UNCHANGED <<ep0, stopAll, stopEp0, stopSent, signalled, gate, threads, inject>>

(* hotplug_callback, on the thread that pumps libusb's events; it runs     *)
(* from the end of connect_device.                                         *)
Watched == pc \notin {"scan", "probe"}
HotplugCallback ==
  /\ Watched /\ ~plugged /\ ~stopSent
  /\ StopProxy
  /\ UNCHANGED <<job, at, last, target, configured, curAlt, plugged, gate,
                 threads, inject>>
-----------------------------------------------------------------------------
(* Start-up.  Waiting for a device looks at no stop flag: a first SIGTERM  *)
(* takes effect when a device has come.                                    *)
Scan ==
  /\ pc = "scan" /\ plugged /\ pc' = "probe"
  /\ UNCHANGED <<job, at, last, target, configured, curAlt, flags, gate, threads, inject>>

(* The rest of connect_device, which main repeats until it succeeds.       *)
Probe ==
  /\ pc = "probe" /\ (pc' = "scan" \/ (plugged /\ pc' = "setup"))
  /\ UNCHANGED <<job, at, last, target, configured, curAlt, flags, gate, threads, inject>>

(* The descriptors, the gadget, and the endpoints, which may not fit.      *)
SetUp ==
  /\ pc = "setup" /\ pc' \in {"top", "failed"}
  /\ UNCHANGED <<job, at, last, target, configured, curAlt, flags, gate, threads, inject>>
-----------------------------------------------------------------------------
(* The endpoint threads.                                                   *)
GateOpen == expected \subseteq ready
Gated(e) == Compat /\ IsIn[e] /\ IfaceOf[e] \in HidIfaces /\ ~GateOpen

(* Mutant: the threads look at the shared flag only.                       *)
ToldAll(e) == stopAll

Told(e) == stopEp[e] \/ stopAll

Read(e, s) == rd' = [rd EXCEPT ![e] = s] /\ UNCHANGED <<wr, stopEp, live>>
Write(e, s) == wr' = [wr EXCEPT ![e] = s] /\ UNCHANGED <<rd, stopEp, live>>

HasRoom(e) == len[e] < QueueMax

(* The head of ep_loop_read.  An IN reader asks the device, which answers  *)
(* or times out; an OUT reader blocks in an ioctl until the host sends.    *)
ReaderTop(e) ==
  /\ rd[e] = "check"
  /\ \/ Told(e) /\ Read(e, "gone")
     \/ ~Told(e) /\ IsIn[e] /\ ~Gated(e) /\ HasRoom(e) /\ Read(e, "work")
     \/ ~Told(e) /\ ~IsIn[e] /\ Read(e, "armed")
  /\ UNCHANGED <<ep0, flags, gate, len, inject>>

ReaderBlocks(e) ==
  /\ rd[e] = "armed" /\ Read(e, "work")
  /\ UNCHANGED <<ep0, flags, gate, len, inject>>

(* A report arrives; on an OUT endpoint it is the host that sends it, and  *)
(* nothing bounds the queue but the bound of this model.                   *)
Receive(e) ==
  /\ rd[e] = "work" /\ (IsIn[e] \/ len[e] < OutBound)
  /\ Read(e, "push")
  /\ UNCHANGED <<ep0, flags, gate, len, inject>>

TimesOut(e) ==
  /\ rd[e] = "work" /\ IsIn[e] /\ Read(e, "check")
  /\ UNCHANGED <<ep0, flags, gate, len, inject>>

Push(e) ==
  /\ rd[e] = "push" /\ Read(e, "check")
  /\ len' = [len EXCEPT ![e] = @ + 1]
  /\ UNCHANGED <<ep0, flags, gate, inject>>

(* NO_DEVICE, or twenty errors in a row, in either thread that talks to    *)
(* the device.                                                             *)
DeviceLost(e) ==
  /\ \/ rd[e] = "work" /\ IsIn[e] /\ Read(e, "gone")
     \/ wr[e] = "work" /\ ~IsIn[e] /\ Write(e, "gone")
  /\ StopProxy
  /\ UNCHANGED <<job, at, last, target, configured, curAlt, plugged, gate, len, inject>>

(* The head of ep_loop_write: the report leaves the queue before the       *)
(* transfer.  Towards the host the writer blocks in an ioctl.              *)
WriterTop(e) ==
  /\ wr[e] = "check"
  /\ \/ Told(e) /\ Write(e, "gone") /\ UNCHANGED len
     \/ /\ ~Told(e) /\ ~Gated(e) /\ len[e] > 0
        /\ Write(e, IF IsIn[e] THEN "armed" ELSE "work")
        /\ len' = [len EXCEPT ![e] = @ - 1]
  /\ UNCHANGED <<ep0, flags, gate, inject>>

WriterBlocks(e) ==
  /\ wr[e] = "armed" /\ Write(e, "work")
  /\ UNCHANGED <<ep0, flags, gate, len, inject>>

(* The host polls the IN endpoint, or the device takes the OUT report (or  *)
(* refuses it MAX_ATTEMPTS times).                                         *)
Written(e) ==
  /\ wr[e] = "work" /\ Write(e, "check")
  /\ UNCHANGED <<ep0, flags, gate, len, inject>>

(* ESHUTDOWN: the host reset the gadget while a thread was in its ioctl.   *)
ShutDown(e) ==
  /\ job \in {"reset", "connect"}
  /\ \/ rd[e] = "work" /\ ~IsIn[e] /\ Read(e, "gone")
     \/ wr[e] = "work" /\ IsIn[e] /\ Write(e, "gone")
  /\ UNCHANGED <<ep0, flags, gate, len, inject>>
-----------------------------------------------------------------------------
(* The injector: it reads the sink of its interface and calls it, with     *)
(* inject_sink_mutex held from the one to the other.                       *)
InjectorTakes ==
  /\ inj = NoEp /\ layout /\ sink[MouseIface] # NoEp
  /\ inj' = sink[MouseIface]
  /\ UNCHANGED <<ep0, flags, gate, threads, sink, layout>>

SinkHasRoom(e) == len[e] < QueueMax

InjectorPushes ==
  /\ inj # NoEp
  /\ len' = IF SinkHasRoom(inj) THEN [len EXCEPT ![inj] = @ + 1] ELSE len
  /\ inj' = NoEp
  /\ UNCHANGED <<ep0, flags, gate, rd, wr, stopEp, live, sink, layout>>
-----------------------------------------------------------------------------
(* EP0.  Between the test of please_stop_ep0 and the ioctl a signal is     *)
(* lost.                                                                   *)
StopEndpoints(j, from, to) ==
  /\ pc' = "signal" /\ job' = j /\ at' = from /\ last' = to

Top ==
  /\ pc = "top"
  /\ IF stopEp0
     THEN StopEndpoints("exit", 0, NumIfaces - 1)
     ELSE pc' = "armed" /\ UNCHANGED <<job, at, last>>
  /\ UNCHANGED <<target, configured, curAlt, flags, gate, threads, inject>>

Fetch ==
  /\ pc = "armed" /\ pc' = "fetch"
  /\ UNCHANGED <<job, at, last, target, configured, curAlt, flags, gate,
                 threads, inject>>

ClearGate == IF Compat THEN ready' = {} /\ expected' = {} ELSE UNCHANGED gate

(* RESET, or the DISCONNECT that dwc2 reports in its place.                *)
HostResets ==
  /\ pc = "fetch"
  /\ ClearGate
  /\ IF configured
     THEN stopAll' = TRUE /\ StopEndpoints("reset", 0, NumIfaces - 1)
     ELSE pc' = "top" /\ UNCHANGED <<job, at, last, stopAll>>
  /\ UNCHANGED <<target, configured, curAlt, stopEp0, stopSent, signalled, plugged,
                 threads, inject>>

(* CONNECT with endpoints still running.                                   *)
HostReconnects ==
  /\ pc = "fetch"
  /\ IF configured
     THEN stopAll' = TRUE /\ StopEndpoints("connect", 0, NumIfaces - 1)
     ELSE pc' = "top" /\ UNCHANGED <<job, at, last, stopAll>>
  /\ UNCHANGED <<target, configured, curAlt, stopEp0, stopSent, signalled, plugged,
                 gate, threads, inject>>

(* A GET_DESCRIPTOR of the report descriptor that reached the host.        *)
HostReadsReportDescriptor(i) ==
  /\ pc = "fetch" /\ pc' = "top"
  /\ ready' = IF Compat THEN ready \cup {i} ELSE ready
  /\ layout' = (layout \/ i = MouseIface)
  /\ UNCHANGED <<job, at, last, target, configured, curAlt, flags, expected,
                 threads, sink, inj>>

(* SET_CONFIGURATION.  A failed acknowledge leaves the handler, with the   *)
(* gate already reset (in the compatibility mode not when the host state   *)
(* changed meanwhile); otherwise the endpoints of the old configuration    *)
(* are stopped and those of the new one started.                           *)
HostSetsConfiguration ==
  /\ pc = "fetch"
  /\ IF Compat THEN ready' = ready \cap HidIfaces /\ expected' = HidIfaces
     ELSE UNCHANGED gate
  /\ \/ pc' = "top" /\ UNCHANGED <<job, at, last>>
     \/ configured /\ StopEndpoints("config", 0, NumIfaces - 1)
     \/ /\ ~configured /\ pc' = "start" /\ job' = "config"
        /\ at' = 0 /\ last' = NumIfaces - 1
  /\ UNCHANGED <<target, configured, curAlt, flags, threads, inject>>

(* SET_INTERFACE, which a host sends to a configured device only.          *)
HostSetsInterface(i, a) ==
  /\ pc = "fetch" /\ configured
  /\ IF a = curAlt[i]
     THEN pc' = "top" /\ UNCHANGED <<job, at, last, target>>
     ELSE StopEndpoints("alt", i, i) /\ target' = a
  /\ UNCHANGED <<configured, curAlt, flags, gate, threads, inject>>

(* Any other event, or one whose handler gives up: nothing changes here.   *)
HostAsksOther ==
  /\ pc = "fetch" /\ pc' = "top"
  /\ UNCHANGED <<job, at, last, target, configured, curAlt, flags, gate,
                 threads, inject>>
-----------------------------------------------------------------------------
(* terminate_eps.  Phase 1: the flag, then SIGUSR1, which ends the ioctl   *)
(* of a thread that is in one and is lost on a thread that is not yet.     *)
Current == EpsOf(at, curAlt[at])

Signal ==
  /\ pc = "signal" /\ pc' = "join"
  /\ stopEp' = [e \in Eps |-> stopEp[e] \/ (e \in Current /\ live[e])]
  /\ rd' = [e \in Eps |-> IF e \in Current /\ rd[e] = "work" /\ ~IsIn[e]
                          THEN "gone" ELSE rd[e]]
  /\ wr' = [e \in Eps |-> IF e \in Current /\ wr[e] = "work" /\ IsIn[e]
                          THEN "gone" ELSE wr[e]]
  /\ UNCHANGED <<job, at, last, target, configured, curAlt, flags, gate, live,
                 len, inject>>

(* Mutant: the threads of an endpoint are not waited for.                  *)
JoinNobody == TRUE

Joined == \A e \in Current : rd[e] \in {"off", "gone"} /\ wr[e] \in {"off", "gone"}

Join ==
  /\ pc = "join" /\ Joined /\ pc' = "clean"
  /\ UNCHANGED <<job, at, last, target, configured, curAlt, flags, gate,
                 threads, inject>>

SinkFree == inj = NoEp

(* Mutant: only a reset takes the shared stop flag back.                   *)
UndoneByReset == job = "reset"

(* The handlers of RESET and CONNECT undo their please_stop_eps; those of  *)
(* SET_CONFIGURATION and SET_INTERFACE never set it.                       *)
Undone == job \in {"reset", "connect"}

(* Phase 3: the sink goes first, then the endpoint and its queue.  The     *)
(* caller releases the interface and puts its setting back.                *)
Clean ==
  /\ pc = "clean" /\ (Current = {} \/ SinkFree)
  /\ sink' = IF Current # {} THEN [sink EXCEPT ![at] = NoEp] ELSE sink
  /\ rd' = [e \in Eps |-> IF e \in Current /\ rd[e] = "gone" THEN "off" ELSE rd[e]]
  /\ wr' = [e \in Eps |-> IF e \in Current /\ wr[e] = "gone" THEN "off" ELSE wr[e]]
  /\ stopEp' = [e \in Eps |-> stopEp[e] /\ e \notin Current]
  /\ live' = [e \in Eps |-> live[e] /\ e \notin Current]
  /\ len' = [e \in Eps |-> IF e \in Current THEN 0 ELSE len[e]]
  /\ curAlt' = IF job \in {"reset", "connect"} THEN [curAlt EXCEPT ![at] = 0] ELSE curAlt
  /\ IF at < last
     THEN pc' = "signal" /\ at' = at + 1 /\ UNCHANGED <<job, last, configured, stopAll, gate>>
     ELSE /\ UNCHANGED last
          /\ at' = IF job = "config" THEN 0 ELSE at
          /\ pc' = CASE job \in {"reset", "connect"} -> "top"
                     [] job \in {"config", "alt"}    -> "start"
                     [] OTHER                        -> "ended"
          /\ job' = IF job \in {"config", "alt"} THEN job ELSE "none"
          /\ configured' = (configured /\ job \notin {"reset", "connect"})
          /\ stopAll' = (stopAll /\ ~Undone)
          /\ IF job = "connect" THEN ClearGate ELSE UNCHANGED gate
  /\ UNCHANGED <<target, stopEp0, stopSent, signalled, plugged, inj, layout>>

(* process_eps of one interface: the setting 0 of each after a             *)
(* SET_CONFIGURATION, the setting asked for after a SET_INTERFACE.         *)
NewAlt == IF job = "alt" THEN target ELSE 0
Fresh  == EpsOf(at, NewAlt)
Outlet == {e \in Fresh : IsIn[e]}

StartEps ==
  /\ pc = "start"
  /\ curAlt' = [curAlt EXCEPT ![at] = NewAlt]
  /\ rd' = [e \in Eps |-> IF e \in Fresh THEN "check" ELSE rd[e]]
  /\ wr' = [e \in Eps |-> IF e \in Fresh THEN "check" ELSE wr[e]]
  /\ stopEp' = [e \in Eps |-> stopEp[e] /\ e \notin Fresh]
  /\ live' = [e \in Eps |-> live[e] \/ e \in Fresh]
  /\ len' = [e \in Eps |-> IF e \in Fresh THEN 0 ELSE len[e]]
  /\ sink' = IF Outlet # {} THEN [sink EXCEPT ![at] = CHOOSE e \in Outlet : TRUE]
             ELSE sink
  /\ IF at < last
     THEN pc' = "start" /\ at' = at + 1 /\ UNCHANGED <<job, configured>>
     ELSE pc' = "top" /\ at' = at /\ job' = "none" /\ configured' = TRUE
  /\ UNCHANGED <<last, target, flags, gate, inj, layout>>
-----------------------------------------------------------------------------
ThreadNext(e) ==
  ReaderTop(e) \/ ReaderBlocks(e) \/ Receive(e) \/ TimesOut(e) \/ Push(e)
  \/ DeviceLost(e) \/ WriterTop(e) \/ WriterBlocks(e) \/ Written(e) \/ ShutDown(e)

HostEvent ==
  \/ HostResets \/ HostReconnects \/ HostSetsConfiguration \/ HostAsksOther
  \/ \E i \in HidIfaces : HostReadsReportDescriptor(i)
  \/ \E i \in Ifaces : \E a \in Alts[i] : HostSetsInterface(i, a)

StartUp == Scan \/ Probe \/ SetUp
Ep0Next == Top \/ Fetch \/ Signal \/ Join \/ Clean \/ StartEps

Next ==
  /\ pc \notin Over
  /\ \/ StartUp \/ Plug \/ Unplug \/ HotplugCallback \/ Terminate
     \/ Ep0Next \/ HostEvent
     \/ InjectorTakes \/ InjectorPushes
     \/ \E e \in Eps : ThreadNext(e)

(* After the proxy has ended nothing moves.                                *)
Spec == Init /\ [][Next]_vars

(* The threads run, the pump of libusb's events among them; a device read  *)
(* ends (with data or a timeout) and the host polls an IN endpoint every   *)
(* interval.  Nothing makes a host send on an OUT endpoint, nor issue      *)
(* another control request.  The injector takes its mutex once in a        *)
(* millisecond, and gives EP0 its turn.                                    *)
ThreadStep(e) ==
  \/ ReaderTop(e) \/ ReaderBlocks(e) \/ TimesOut(e) \/ Push(e)
Fairness ==
  /\ WF_vars(StartUp) /\ WF_vars(HotplugCallback)
  /\ WF_vars(Ep0Next) /\ SF_vars(Clean)
  /\ WF_vars(InjectorPushes)
  /\ \A e \in Eps : /\ WF_vars(ThreadStep(e))
                    /\ WF_vars(WriterTop(e) \/ WriterBlocks(e) \/ Written(e))
FairSpec == Spec /\ Fairness
-----------------------------------------------------------------------------
(* terminate_eps deletes the queue, the mutex and the stop flag of an       *)
(* endpoint (proxy.cpp:1337): no thread of it still runs then, and neither *)
(* a registered sink nor the one the injector is calling belongs to it.    *)
QueuesAlive ==
  /\ \A e \in Eps : ~live[e] => rd[e] = "off" /\ wr[e] = "off"
  /\ inj # NoEp => live[inj]
  /\ \A i \in Ifaces : sink[i] # NoEp => live[sink[i]]

(* When EP0 waits for the host, threads run for the settings in force and  *)
(* for no other, and those that run all have their queue: a reset, a new   *)
(* configuration or a changed setting left no thread behind, and no stop   *)
(* flag that the new threads would see.                                    *)
NoStaleThreads ==
  pc \in {"armed", "fetch"} =>
    /\ \A e \in Eps : rd[e] # "off" =>
         configured /\ live[e] /\ AltOf[e] = curAlt[IfaceOf[e]]
    /\ stopAll => stopEp0
    /\ configured /\ ~stopEp0 =>
         \A e \in Eps : AltOf[e] = curAlt[IfaceOf[e]] =>
           live[e] /\ rd[e] \notin {"off", "gone"} /\ wr[e] \notin {"off", "gone"}

(* terminate_eps ends, whatever the threads were doing, except when the    *)
(* reader of an OUT endpoint went into its ioctl after the signal and the  *)
(* host sends nothing.  A proxy that is told to stop, or whose mouse has   *)
(* gone, comes to its end from wherever it is, or waits in EP0's ioctl     *)
(* because the signal came just before it.                                 *)
OutReaderBlocked == \E e \in Eps : ~IsIn[e] /\ rd[e] = "work" /\ Told(e)
StopsEnd ==
  /\ (pc = "join") ~> (pc # "join" \/ OutReaderBlocked)
  /\ (Watched /\ (stopEp0 \/ ~plugged)) ~> (pc \in Over \cup {"fetch"} \/ OutReaderBlocked)
=============================================================================
