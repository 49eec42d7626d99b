------------------------- MODULE UsbEndpointsProofs -------------------------
(***************************************************************************)
(* What the USB proxy promises of its endpoint threads and of the ring of  *)
(* transfers of a reader, for any interfaces, settings, endpoints and      *)
(* limits, with a mouse or without one; and of the placement of endpoints  *)
(* and the control requests, for every input.                              *)
(***************************************************************************)
EXTENDS SyntheticMouse, InterruptRing, FiniteSetTheorems, SequenceTheorems, WellFoundedInduction, TLAPS

(* The ring.                                                               *)
RingTyped ==
  /\ turn \in Transfers /\ inflight \in Int /\ stopping \in BOOLEAN
  /\ xfer \in [Transfers -> {"idle", "flying", "done"}]
  /\ reader \in {"new", "submit", "count", "next", "destroy", "cancel", "wait", "freed", "leaked"}

(* A callback runs for a transfer that is done, up to its retirement; only *)
(* a failure retires one before the ring is stopped.                       *)
CallbackSound ==
  /\ cb.at \in {"begin", "test", "submit", "retire"} => cb.of \in Transfers /\ xfer[cb.of] = "done"
  /\ cb.at = "retire" => stopping \/ fatal # "none"
  /\ reader \in {"new", "submit", "count", "next", "destroy"} => ~stopping

(* The transfers not yet submitted are idle, and those that were are not,  *)
(* unless there was a failure.                                             *)
SubmittedSoFar ==
  CASE reader = "new" -> {}
    [] reader = "submit" -> 1 .. turn - 1
    [] reader = "count" -> 1 .. turn
    [] OTHER -> Transfers
FilledSound ==
  /\ Submitted \subseteq SubmittedSoFar
  /\ reader \in {"submit", "count", "next"} /\ fatal = "none" => Submitted = SubmittedSoFar

(* The transfer that is submitted and not counted, whether its callback    *)
(* has run already or not.                                                 *)
InflightSound ==
  inflight = Cardinality(Submitted) - (IF reader = "count" THEN 1 ELSE 0)

RingInv == RingTyped /\ CallbackSound /\ FilledSound /\ InflightSound /\ FreedIsRetired

-----------------------------------------------------------------------------
LEMMA TransfersFinite == IsFiniteSet(Transfers) /\ 1 \in Transfers /\ Depth \in Nat /\ Depth > 1
  BY RingAssumption, FS_Interval DEF Transfers

LEMMA SubmittedFinite == IsFiniteSet(Submitted) /\ Submitted \subseteq Transfers /\ Cardinality(Submitted) \in Nat
  BY TransfersFinite, FS_Subset, FS_CardinalityType DEF Submitted

LEMMA Submits ==
  ASSUME RingTyped, NEW t \in Transfers, xfer[t] = "idle", xfer' = [xfer EXCEPT ![t] = "flying"]
  PROVE  Submitted' = Submitted \cup {t} /\ Cardinality(Submitted)' = Cardinality(Submitted) + 1
<1>1. Submitted' = Submitted \cup {t} /\ t \notin Submitted
  BY DEF Submitted, RingTyped
<1> QED BY <1>1, SubmittedFinite, FS_AddElement

LEMMA Retires ==
  ASSUME RingTyped, NEW t \in Transfers, xfer[t] # "idle", xfer' = [xfer EXCEPT ![t] = "idle"]
  PROVE  Submitted' = Submitted \ {t} /\ Cardinality(Submitted)' = Cardinality(Submitted) - 1
<1>1. Submitted' = Submitted \ {t} /\ t \in Submitted
  BY DEF Submitted, RingTyped
<1> QED BY <1>1, SubmittedFinite, FS_RemoveElement

LEMMA StaysSubmitted ==
  ASSUME RingTyped, NEW t \in Transfers, NEW s \in {"flying", "done"}, xfer[t] # "idle",
         xfer' = [xfer EXCEPT ![t] = s]
  PROVE  Submitted' = Submitted
  BY DEF Submitted, RingTyped

LEMMA RingInitInv == RingInit => RingInv
<1> SUFFICES ASSUME RingInit PROVE RingInv
  OBVIOUS
<1> USE DEF RingInit
<1>1. RingTyped
  <2>1. xfer \in [Transfers -> {"idle", "flying", "done"}]
    OBVIOUS
  <2>2. turn \in Transfers
    BY TransfersFinite
  <2>3. inflight \in Int
    OBVIOUS
  <2>4. stopping \in BOOLEAN
    OBVIOUS
  <2> QED BY <2>1, <2>2, <2>3, <2>4 DEF RingTyped
<1>2. Submitted = {}
  BY DEF Submitted
<1>3. CallbackSound
  <2>1. cb.at = "none"
    BY DEF NoCallback
  <2> QED BY <2>1 DEF CallbackSound
<1>6. FreedIsRetired
  BY DEF FreedIsRetired
<1>5. FilledSound
  BY <1>2 DEF FilledSound
<1>4. InflightSound
  BY <1>2, FS_EmptySet DEF InflightSound
<1> QED BY <1>1, <1>3, <1>4, <1>5, <1>6 DEF RingInv

(* The pump and its callbacks.                                             *)
Pump == (\E t \in Transfers : Complete(t)) \/ CbBegins \/ CbTests \/ CbSubmits \/ CbRetires \/ CbEnds

LEMMA PumpRing == ASSUME RingInv, Pump PROVE RingInv'
<1> USE DEF RingInv
<1>1. CASE \E t \in Transfers : Complete(t)
  <2>1. PICK t \in Transfers : Complete(t)
    BY <1>1
  <2>2. Submitted' = Submitted
    BY <2>1, StaysSubmitted DEF Complete
  <2>3. RingTyped' /\ CallbackSound'
    BY <2>1 DEF Complete, RingTyped, CallbackSound
  <2> QED BY <2>1, <2>2, <2>3 DEF Complete, FilledSound, SubmittedSoFar, InflightSound, FreedIsRetired
<1>2. CASE CbBegins \/ CbTests \/ CbEnds
  <2> USE <1>2 DEF CbBegins, CbTests, CbEnds, CbGoes
  <2>1. Submitted' = Submitted /\ UNCHANGED <<reader, turn, xfer, inflight, stopping>>
    BY DEF Submitted
  <2>2. fatal # "none" => fatal' # "none"
    OBVIOUS
  <2>3. RingTyped' /\ CallbackSound'
    <3>1. CASE CbBegins
      BY <3>1, <2>1, <2>2 DEF RingTyped, CallbackSound
    <3>2. CASE CbTests
      BY <3>2, <2>1, <2>2 DEF RingTyped, CallbackSound
    <3>3. CASE CbEnds
      BY <3>3, <2>1, <2>2 DEF RingTyped, CallbackSound, NoCallback
    <3> QED BY <3>1, <3>2, <3>3
  <2> QED BY <2>1, <2>2, <2>3 DEF FilledSound, SubmittedSoFar, InflightSound, FreedIsRetired
<1>3. CASE CbSubmits
  <2> USE <1>3 DEF CbSubmits
  <2>1. cb.of \in Transfers /\ xfer[cb.of] = "done" /\ cb.at = "submit"
    BY DEF CallbackSound
  <2>2. CASE Accepted(cb.of) /\ cb' = NoCallback /\ UNCHANGED fatal
    <3>1. Submitted' = Submitted
      BY <2>1, <2>2, StaysSubmitted DEF Accepted
    <3>2. RingTyped' /\ CallbackSound'
      BY <2>1, <2>2 DEF Accepted, RingTyped, CallbackSound, NoCallback
    <3> QED BY <2>2, <3>1, <3>2 DEF FilledSound, SubmittedSoFar, InflightSound, FreedIsRetired
  <2>3. CASE Fails /\ CbGoes("retire") /\ UNCHANGED <<xfer, cancelled>>
    <3>1. Submitted' = Submitted /\ fatal' # "none"
      BY <2>3 DEF Submitted, Fails, Error
    <3>2. RingTyped' /\ CallbackSound'
      BY <2>1, <2>3, <3>1 DEF CbGoes, RingTyped, CallbackSound
    <3> QED BY <2>3, <3>1, <3>2 DEF FilledSound, SubmittedSoFar, InflightSound, FreedIsRetired
  <2> QED BY <2>2, <2>3
<1>4. CASE CbRetires
  <2> USE <1>4 DEF CbRetires, CbGoes
  <2>1. cb.of \in Transfers /\ xfer[cb.of] = "done" /\ (stopping \/ fatal # "none")
    BY DEF CallbackSound
  <2>2. Submitted' = Submitted \ {cb.of} /\ Cardinality(Submitted)' = Cardinality(Submitted) - 1
    BY <2>1, Retires
  <2>3. RingTyped' /\ CallbackSound'
    BY <2>1 DEF RingTyped, CallbackSound
  <2>4. FilledSound'
    BY <2>1, <2>2 DEF FilledSound, SubmittedSoFar, CallbackSound
  <2>5. InflightSound'
    BY <2>2, SubmittedFinite DEF InflightSound
  <2>6. FreedIsRetired'
    BY <2>1 DEF FreedIsRetired, Submitted
  <2> QED BY <2>3, <2>4, <2>5, <2>6
<1> QED BY <1>1, <1>2, <1>3, <1>4 DEF Pump

(* The reader.                                                             *)
LEMMA ReaderRing ==
  ASSUME RingInv, Vanish \/ Create \/ TakeReport \/ Leave \/ Destroy \/ Cancel \/ Finish
  PROVE  RingInv'
<1> USE TransfersFinite DEF RingInv, ReaderGoes
<1>1. UNCHANGED <<xfer, cb, inflight, fatal>> /\ Submitted' = Submitted
  BY DEF Vanish, Create, TakeReport, Leave, Destroy, Cancel, Finish, Submitted
<1>2. RingTyped'
  <2>1. turn' \in Transfers
    <3>1. turn' = turn \/ turn' = 1 \/ (turn < Depth /\ turn' = turn + 1)
      <4>1. CASE Cancel
        BY <4>1 DEF Cancel
      <4>2. CASE Vanish \/ Create \/ TakeReport \/ Leave \/ Destroy \/ Finish
        BY <4>2 DEF Vanish, Create, TakeReport, Leave, Destroy, Finish
      <4> QED BY <4>1, <4>2
    <3> QED BY <3>1 DEF RingTyped, Transfers
  <2>3. stopping' \in BOOLEAN
    BY DEF Vanish, Create, TakeReport, Leave, Destroy, Cancel, Finish, RingTyped
  <2>2. reader' \in {"new", "submit", "count", "next", "destroy", "cancel", "wait", "freed", "leaked"}
    BY DEF Vanish, Create, TakeReport, Leave, Destroy, Cancel, Finish, RingTyped
  <2> QED BY <1>1, <2>1, <2>2, <2>3 DEF RingTyped
<1>3. CallbackSound'
  BY <1>1 DEF Vanish, Create, TakeReport, Leave, Destroy, Cancel, Finish, CallbackSound
<1>4. FilledSound'
  <2>1. CASE Create
    <3>1. SubmittedSoFar = {} /\ reader' = "submit" /\ turn' = 1
      BY <2>1 DEF Create, SubmittedSoFar
    <3>2. SubmittedSoFar' = 1 .. turn' - 1 /\ 1 .. 1 - 1 = {}
      BY <3>1 DEF SubmittedSoFar
    <3> QED BY <1>1, <3>1, <3>2 DEF FilledSound
  <2>2. CASE ~Create
    <3>1. /\ reader' \in {"submit", "count", "next"} => reader' = reader
          /\ reader' \in {"new", "submit", "count"} => reader' = reader /\ turn' = turn
          /\ reader \in {"new", "submit", "count"} => reader' = reader
      BY <2>2 DEF Vanish, TakeReport, Leave, Destroy, Cancel, Finish
    <3>2. SubmittedSoFar' = SubmittedSoFar
      BY <3>1 DEF SubmittedSoFar
    <3> QED BY <1>1, <3>1, <3>2 DEF FilledSound
  <2> QED BY <2>1, <2>2
<1>5. InflightSound'
  BY <1>1 DEF Vanish, Create, TakeReport, Leave, Destroy, Cancel, Finish, InflightSound
<1>6. FreedIsRetired'
  <2>1. CASE Finish
    <3>1. reader' = "freed" => Cardinality(Submitted) = 0 /\ inflight = 0
      BY <2>1, SubmittedFinite DEF Finish, Drained, InflightSound
    <3> QED BY <1>1, <3>1, SubmittedFinite, FS_EmptySet DEF FreedIsRetired
  <2>2. CASE ~Finish
    <3>1. reader' = "freed" => reader = "freed"
      BY <2>2 DEF Vanish, Create, TakeReport, Leave, Destroy, Cancel
    <3> QED BY <1>1, <3>1 DEF FreedIsRetired
  <2> QED BY <2>1, <2>2
<1> QED BY <1>2, <1>3, <1>4, <1>5, <1>6

LEMMA SubmitRing == ASSUME RingInv, Submit PROVE RingInv'
<1> USE TransfersFinite DEF RingInv, Submit
<1>1. xfer[turn] = "idle" /\ turn \in Transfers /\ turn \in Nat
  BY DEF FilledSound, SubmittedSoFar, Submitted, RingTyped, Transfers
<1>2. CASE Accepted(turn) /\ reader' = "count" /\ UNCHANGED <<turn, fatal>>
  <2>1. Submitted' = Submitted \cup {turn} /\ Cardinality(Submitted)' = Cardinality(Submitted) + 1
    BY <1>1, <1>2, Submits DEF Accepted
  <2>2. RingTyped' /\ CallbackSound' /\ FreedIsRetired'
    BY <1>1, <1>2 DEF RingTyped, CallbackSound, FreedIsRetired, Accepted
  <2>3. SubmittedSoFar' = SubmittedSoFar \cup {turn}
    <3>1. 1 .. turn = (1 .. turn - 1) \cup {turn}
      BY <1>1 DEF Transfers
    <3> QED BY <1>2, <3>1 DEF SubmittedSoFar
  <2>4. FilledSound'
    BY <1>2, <2>1, <2>3 DEF FilledSound
  <2>5. InflightSound'
    BY <1>2, <2>1, SubmittedFinite DEF InflightSound
  <2> QED BY <2>2, <2>4, <2>5
<1>3. CASE fatal' = Error /\ ReaderGoes("next") /\ UNCHANGED <<xfer, cancelled>>
  <2> USE <1>3 DEF ReaderGoes
  <2>1. Submitted' = Submitted /\ fatal' # "none"
    BY DEF Submitted, Error
  <2>2. RingTyped' /\ CallbackSound' /\ FreedIsRetired'
    BY <2>1 DEF RingTyped, CallbackSound, FreedIsRetired
  <2>3. FilledSound' /\ InflightSound'
    BY <2>1, SubmittedFinite DEF FilledSound, SubmittedSoFar, InflightSound
  <2> QED BY <2>2, <2>3
<1> QED BY <1>2, <1>3

LEMMA CountRing == ASSUME RingInv, Count PROVE RingInv'
<1> USE TransfersFinite DEF RingInv, Count, ReaderGoes
<1>1. Submitted' = Submitted /\ turn \in 1 .. Depth
  BY DEF Submitted, RingTyped, Transfers
<1>2. RingTyped' /\ CallbackSound' /\ FreedIsRetired'
  BY <1>1 DEF RingTyped, CallbackSound, FreedIsRetired, Transfers
<1>3. SubmittedSoFar' = SubmittedSoFar
  BY <1>1 DEF SubmittedSoFar, Transfers
<1>4. FilledSound' /\ InflightSound'
  BY <1>1, <1>3, SubmittedFinite DEF FilledSound, InflightSound
<1> QED BY <1>2, <1>4

(* interrupt_ring_create, _next and _destroy with their callbacks, for any *)
(* number of transfers: a ring with nothing in flight tells its reader,    *)
(* and one is freed only when nothing of it is in flight any more.         *)
THEOREM RingStaysSound == RingSpec => []RingIsSound
<1>1. RingInv /\ [RingNext]_rvars => RingInv'
  <2> SUFFICES ASSUME RingInv, [RingNext]_rvars PROVE RingInv'
    OBVIOUS
  <2>1. CASE Pump
    BY <2>1, PumpRing
  <2>2. CASE Vanish \/ Create \/ TakeReport \/ Leave \/ Destroy \/ Cancel \/ Finish
    BY <2>2, ReaderRing
  <2>3. CASE Submit \/ Count
    BY <2>3, SubmitRing, CountRing
  <2>4. CASE UNCHANGED rvars
    BY <2>4 DEF rvars, RingInv, RingTyped, CallbackSound, FilledSound, SubmittedSoFar, InflightSound, FreedIsRetired, Submitted
  <2> QED BY <2>1, <2>2, <2>3, <2>4 DEF RingNext, Pump
<1>2. RingInv => RingIsSound
  BY TransfersFinite DEF RingInv, FilledSound, SubmittedSoFar, RingIsSound, RingNeverSilent
<1> QED BY RingInitInv, <1>1, <1>2, PTL DEF RingSpec
-----------------------------------------------------------------------------
(* The endpoint threads.                                                   *)
Stopping == {"signal", "join", "clean"}
Stops == {"reset", "connect", "config", "alt", "exit"}
Settled == Starting \cup {"top", "armed", "fetch"}

ProxyTyped ==
  /\ pc \in Settled \cup Stopping \cup {"start"} \cup Over
  /\ job \in Stops \cup {"none"} /\ at \in Ifaces /\ last \in Ifaces /\ target \in Nat
  /\ configured \in BOOLEAN /\ curAlt \in [Ifaces -> Nat]
  /\ stopAll \in BOOLEAN /\ stopEp0 \in BOOLEAN /\ stopSent \in BOOLEAN /\ signalled \in BOOLEAN
  /\ rd \in [Eps -> {"off", "check", "armed", "work", "push", "gone"}]
  /\ wr \in [Eps -> {"off", "check", "armed", "work", "gone"}]
  /\ stopEp \in [Eps -> BOOLEAN] /\ live \in [Eps -> BOOLEAN]
  /\ sink \in [Ifaces -> Eps \cup {NoEp}] /\ inj \in Eps \cup {NoEp}

(* What a job has in hand.                                                 *)
JobSound ==
  /\ pc \in Settled => job = "none"
  /\ pc \in Stopping => job \in Stops
                        /\ IF job = "exit" THEN stopEp0 ELSE configured
  /\ pc = "start" => job \in {"config", "alt"}
  /\ pc \in Stopping \cup {"start"} => IF job = "alt" THEN last = at /\ configured ELSE last = NumIfaces - 1

(* The flags: please_stop_eps is set by what ends EP0 too, or by a reset   *)
(* that takes it back.                                                     *)
FlagsSound ==
  /\ stopSent => signalled
  /\ signalled => stopEp0
  /\ stopAll => stopEp0 \/ (pc \in Stopping /\ job \in {"reset", "connect"})

(* A queue lives as long as its two threads are there; a sink is one of    *)
(* its interface.                                                          *)
ThreadsSound == \A e \in Eps : (rd[e] = "off" <=> ~live[e]) /\ (wr[e] = "off" <=> ~live[e])
SinksSound ==
  /\ inj # NoEp => live[inj]
  /\ \A i \in Ifaces : sink[i] # NoEp => live[sink[i]] /\ IfaceOf[sink[i]] = i

(* The interfaces that have their endpoints, at each point of a job, and   *)
(* the endpoints that are there: those of the setting in force.            *)
Served(i) ==
  CASE pc \in Stopping -> configured /\ (job = "alt" \/ i >= at)
    [] pc = "start"    -> IF job = "alt" THEN i # at ELSE i < at
    [] OTHER           -> configured
LiveSound ==
  pc \notin Over => \A e \in Eps : live[e] <=> Served(IfaceOf[e]) /\ AltOf[e] = curAlt[IfaceOf[e]]

(* The endpoints that are told to stop, and have stopped before their      *)
(* queue goes.                                                             *)
InHand(e) == pc \in {"join", "clean"} /\ IfaceOf[e] = at
ToldSound == pc \notin Over => \A e \in Eps : stopEp[e] => live[e] /\ InHand(e)
JoinedSound == pc = "clean" => Joined

(* A thread that has ended was told to, or EP0 is.                         *)
RunningSound ==
  pc \notin Over /\ ~stopEp0 =>
    \A e \in Eps : rd[e] = "gone" \/ wr[e] = "gone" =>
      InHand(e) \/ (pc \in Stopping /\ job \in {"reset", "connect"})

ProxyInv ==
  /\ ProxyTyped /\ JobSound /\ FlagsSound /\ ThreadsSound /\ SinksSound
  /\ LiveSound /\ ToldSound /\ JoinedSound /\ RunningSound

LEMMA IfacesAre == /\ Ifaces = 0 .. NumIfaces - 1 /\ NumIfaces \in Nat /\ NumIfaces > 0
                   /\ 0 \in Ifaces /\ NumIfaces - 1 \in Ifaces /\ Ifaces \subseteq Int
  BY EndpointAssumption DEF Ifaces

LEMMA UnusedInv ==
  ASSUME Unused, pc \in {"scan", "setup"}
  PROVE  ProxyInv
<1> USE IfacesAre DEF Unused
<1>1. ProxyTyped
  <2>1. /\ pc \in Settled /\ job = "none" /\ at \in Ifaces /\ last \in Ifaces /\ target \in Nat
        /\ inj \in Eps \cup {NoEp}
    BY DEF Settled, Starting
  <2>2. /\ configured \in BOOLEAN /\ stopAll \in BOOLEAN /\ stopEp0 \in BOOLEAN
        /\ stopSent \in BOOLEAN /\ signalled \in BOOLEAN
    OBVIOUS
  <2>3. /\ curAlt \in [Ifaces -> Nat] /\ sink \in [Ifaces -> Eps \cup {NoEp}]
    OBVIOUS
  <2>4. /\ rd \in [Eps -> {"off", "check", "armed", "work", "push", "gone"}]
        /\ wr \in [Eps -> {"off", "check", "armed", "work", "gone"}]
    OBVIOUS
  <2>5. stopEp \in [Eps -> BOOLEAN] /\ live \in [Eps -> BOOLEAN]
    OBVIOUS
  <2> QED BY <2>1, <2>2, <2>3, <2>4, <2>5 DEF ProxyTyped
<1>2. JobSound /\ FlagsSound
  BY DEF JobSound, FlagsSound, Settled, Starting, Stopping
<1>3. ThreadsSound /\ SinksSound
  BY DEF ThreadsSound, SinksSound
<1>4. LiveSound /\ ToldSound /\ JoinedSound /\ RunningSound
  BY DEF LiveSound, Served, ToldSound, JoinedSound, RunningSound, Stopping
<1> QED BY <1>1, <1>2, <1>3, <1>4 DEF ProxyInv

(* A step of EP0 that touches no thread, between two points without a job. *)
LEMMA QuietStep ==
  ASSUME ProxyInv, pc \in Settled, pc' \in Settled \cup Over,
         UNCHANGED <<job, at, last, target, configured, curAlt, stopAll, stopEp0, stopSent, signalled, threads, sink, inj>>
  PROVE  ProxyInv'
<1> USE DEF ProxyInv, threads
<1>1. ProxyTyped'
  BY DEF ProxyTyped
<1>2. pc \notin Stopping \cup {"start"} /\ pc' \notin Stopping \cup {"start"} /\ pc \notin Over
  BY DEF Settled, Stopping, Over, Starting
<1>3. JobSound' /\ FlagsSound' /\ ThreadsSound' /\ SinksSound'
  BY <1>2 DEF JobSound, FlagsSound, ThreadsSound, SinksSound
<1>4. LiveSound'
  BY <1>2 DEF LiveSound, Served
<1>5. ToldSound' /\ JoinedSound' /\ RunningSound'
  BY <1>2 DEF ToldSound, JoinedSound, RunningSound, InHand, Stopping
<1> QED BY <1>1, <1>3, <1>4, <1>5

(* EP0 begins to stop endpoints: all of them, or those of an interface.    *)
LEMMA JobBegins ==
  ASSUME ProxyInv, pc \in {"top", "fetch"}, pc' = "signal", job' \in Stops,
         IF job' = "exit" THEN stopEp0 ELSE configured,
         IF job' = "alt" THEN at' \in Ifaces /\ last' = at' ELSE at' = 0 /\ last' = NumIfaces - 1,
         target' \in Nat, stopAll' = TRUE \/ stopAll' = stopAll,
         stopAll' => stopAll \/ job' \in {"reset", "connect"},
         UNCHANGED <<configured, curAlt, stopEp0, stopSent, signalled, threads, sink, inj>>
  PROVE  ProxyInv'
<1> USE IfacesAre DEF ProxyInv, threads
<1>1. ProxyTyped'
  <2>1. at' \in Ifaces /\ last' \in Ifaces /\ stopAll' \in BOOLEAN
    BY DEF ProxyTyped
  <2> QED BY <2>1 DEF ProxyTyped, Stopping
<1>2. pc \in Settled /\ pc \notin Over /\ pc' \in Stopping /\ pc' \notin Settled \cup Over
  BY DEF Settled, Stopping, Over, Starting
<1>3. JobSound'
  BY <1>2 DEF JobSound, Stops
<1>4. FlagsSound'
  BY <1>2 DEF FlagsSound, JobSound, Stopping
<1>5. ThreadsSound' /\ SinksSound'
  BY DEF ThreadsSound, SinksSound
<1>6. LiveSound'
  <2> SUFFICES ASSUME NEW e \in Eps PROVE Served(IfaceOf[e])' <=> Served(IfaceOf[e])
    BY <1>2 DEF LiveSound
  <2>1. IfaceOf[e] \in Ifaces /\ IfaceOf[e] >= 0
    BY EndpointAssumption
  <2>2. Served(IfaceOf[e]) <=> configured
    BY <1>2 DEF Served, Stopping
  <2>3. Served(IfaceOf[e])' <=> configured /\ (job' = "alt" \/ IfaceOf[e] >= at')
    BY <1>2 DEF Served
  <2> QED BY <2>1, <2>2, <2>3
<1>7. ToldSound' /\ JoinedSound' /\ RunningSound'
  BY <1>2 DEF ToldSound, JoinedSound, RunningSound, InHand, Stopping, JobSound
<1> QED BY <1>1, <1>3, <1>4, <1>5, <1>6, <1>7

(* What a thread may do, with or without a signal: it goes on, or ends for *)
(* a reason, and one that has ended or is not there stays so.              *)
Reason(e) == stopEp[e] \/ stopAll \/ job \in {"reset", "connect"}
Goes(was, is, e) ==
  /\ was \in {"off", "gone"} => is = was
  /\ is = "off" => was = "off"
  /\ is = "gone" /\ was # "gone" => Reason(e) \/ stopEp0'
ThreadsGo ==
  /\ rd' \in [Eps -> {"off", "check", "armed", "work", "push", "gone"}]
  /\ wr' \in [Eps -> {"off", "check", "armed", "work", "gone"}]
  /\ \A e \in Eps : Goes(rd[e], rd'[e], e) /\ Goes(wr[e], wr'[e], e)
FlagsGo ==
  /\ pc' = pc \/ (pc' \in Over /\ stopEp0')
  /\ stopAll' \in BOOLEAN /\ stopEp0' \in BOOLEAN /\ stopSent' \in BOOLEAN /\ signalled' \in BOOLEAN
  /\ stopSent' => signalled'
  /\ signalled' => stopEp0'
  /\ stopEp0 => stopEp0'
  /\ stopAll' => stopAll \/ stopEp0'

LEMMA RunningStep ==
  ASSUME ProxyInv, pc \notin Over, ThreadsGo, FlagsGo,
         UNCHANGED <<job, at, last, target, configured, curAlt, stopEp, live, sink, inj>>
  PROVE  ProxyInv'
<1> USE DEF ProxyInv
<1>1. ProxyTyped'
  BY DEF ProxyTyped, ThreadsGo, FlagsGo
<1>2. pc' \notin Over => pc' = pc
  BY DEF FlagsGo
<1>3. Over \cap (Settled \cup Stopping \cup {"start"}) = {} /\ "clean" \in Stopping
  BY DEF Settled, Stopping, Over, Starting
<1>4. JobSound'
  <2>1. stopEp0 => stopEp0'
    BY DEF FlagsGo
  <2> QED BY <1>2, <1>3, <2>1 DEF JobSound
<1>5. FlagsSound'
  <2>2. CASE pc' = pc
    BY <2>2 DEF FlagsSound, FlagsGo
  <2>3. CASE pc' # pc
    BY <2>3, <1>2 DEF FlagsSound, FlagsGo
  <2> QED BY <2>2, <2>3
<1>6. ThreadsSound' /\ SinksSound'
  BY DEF ThreadsSound, SinksSound, ThreadsGo, Goes
<1>7. LiveSound' /\ ToldSound'
  BY <1>2 DEF LiveSound, Served, ToldSound, InHand
<1>8. JoinedSound'
  <2> SUFFICES ASSUME pc' = "clean" PROVE Joined'
    BY DEF JoinedSound
  <2>1. Joined
    BY <1>2, <1>3 DEF JoinedSound
  <2> QED BY <2>1 DEF Joined, Current, EpsOf, ThreadsGo, Goes
<1>9. RunningSound'
  <2> SUFFICES ASSUME pc' \notin Over, ~stopEp0', NEW e \in Eps, rd'[e] = "gone" \/ wr'[e] = "gone"
               PROVE  InHand(e)' \/ (pc' \in Stopping /\ job' \in {"reset", "connect"})
    BY DEF RunningSound
  <2>1. ~stopEp0 /\ pc' = pc
    BY <1>2 DEF FlagsGo
  <2>2. CASE rd[e] = "gone" \/ wr[e] = "gone"
    BY <2>1, <2>2 DEF RunningSound, InHand
  <2>3. CASE rd[e] # "gone" /\ wr[e] # "gone"
    <3>1. Reason(e)
      BY <2>3 DEF ThreadsGo, Goes
    <3>2. CASE stopEp[e]
      BY <3>2, <2>1 DEF ToldSound, InHand
    <3>3. CASE stopAll
      BY <3>3, <2>1 DEF FlagsSound
    <3>4. CASE job \in {"reset", "connect"}
      BY <3>4, <2>1 DEF JobSound, ProxyTyped
    <3> QED BY <3>1, <3>2, <3>3, <3>4 DEF Reason
  <2> QED BY <2>2, <2>3
<1> QED BY <1>1, <1>4, <1>5, <1>6, <1>7, <1>8, <1>9

LEMMA SignalGoes == ASSUME ProxyInv, HandleSignal, UNCHANGED stopSent \/ stopSent' = TRUE PROVE FlagsGo
  BY DEF ProxyInv, HandleSignal, FlagsGo, FlagsSound, ProxyTyped, Over

LEMMA StopProxyGoes == ASSUME ProxyInv, StopProxy PROVE FlagsGo
<1>1. CASE stopSent
  BY <1>1 DEF StopProxy, ProxyInv, FlagsGo, FlagsSound, ProxyTyped
<1>2. CASE ~stopSent
  BY <1>2, SignalGoes DEF StopProxy
<1> QED BY <1>1, <1>2

LEMMA StillGoes == ASSUME ProxyInv, UNCHANGED <<pc, stopAll, stopEp0, stopSent, signalled>> PROVE FlagsGo
  BY DEF ProxyInv, FlagsGo, FlagsSound, ProxyTyped

LEMMA NoThreadGoes == ASSUME ProxyInv, UNCHANGED <<rd, wr>> PROVE ThreadsGo
  BY DEF ProxyInv, ProxyTyped, ThreadsGo, Goes

LEMMA ReadGoes ==
  ASSUME ProxyInv, NEW e \in Eps, NEW s \in {"check", "armed", "work", "push", "gone"},
         rd[e] \notin {"off", "gone"}, Read(e, s), s = "gone" => Reason(e) \/ stopEp0'
  PROVE  ThreadsGo /\ UNCHANGED <<wr, stopEp, live>>
  BY DEF ProxyInv, ProxyTyped, ThreadsGo, Goes, Read

LEMMA WriteGoes ==
  ASSUME ProxyInv, NEW e \in Eps, NEW s \in {"check", "armed", "work", "gone"},
         wr[e] \notin {"off", "gone"}, Write(e, s), s = "gone" => Reason(e) \/ stopEp0'
  PROVE  ThreadsGo /\ UNCHANGED <<rd, stopEp, live>>
  BY DEF ProxyInv, ProxyTyped, ThreadsGo, Goes, Write

LEMMA ThreadStepGoes ==
  ASSUME ProxyInv, NEW e \in Eps, ThreadNext(e), pc \notin Over
  PROVE  ProxyInv'
<1> USE DEF ep0, flags, inject
<1>1. CASE ReaderTop(e)
  <2> USE <1>1 DEF ReaderTop
  <2>1. FlagsGo
    BY StillGoes
  <2>2. \E s \in {"armed", "work", "gone"} : Read(e, s) /\ (s = "gone" => Reason(e))
    BY DEF Told, Reason
  <2>3. ThreadsGo /\ UNCHANGED <<stopEp, live>>
    BY <2>2, ReadGoes
  <2> QED BY <2>1, <2>3, RunningStep
<1>2. CASE ReaderBlocks(e) \/ Receive(e) \/ TimesOut(e) \/ Push(e)
  <2> USE <1>2 DEF ReaderBlocks, Receive, TimesOut, Push
  <2>1. FlagsGo
    BY StillGoes
  <2>2. rd[e] \notin {"off", "gone"} /\ \E s \in {"work", "push", "check"} : Read(e, s)
    OBVIOUS
  <2>3. ThreadsGo /\ UNCHANGED <<stopEp, live>>
    BY <2>2, ReadGoes
  <2> QED BY <2>1, <2>3, RunningStep
<1>3. CASE DeviceLost(e)
  <2> USE <1>3 DEF DeviceLost
  <2>1. FlagsGo
    BY StopProxyGoes
  <2>2. stopEp0'
    BY <2>1 DEF FlagsGo, StopProxy
  <2>3. ThreadsGo /\ UNCHANGED <<stopEp, live>>
    BY <2>2, ReadGoes, WriteGoes
  <2> QED BY <2>1, <2>3, RunningStep
<1>4. CASE WriterTop(e)
  <2> USE <1>4 DEF WriterTop
  <2>1. FlagsGo
    BY StillGoes
  <2>2. \E s \in {"armed", "work", "gone"} : Write(e, s) /\ (s = "gone" => Reason(e))
    BY DEF Told, Reason
  <2>3. ThreadsGo /\ UNCHANGED <<stopEp, live>>
    BY <2>2, WriteGoes
  <2> QED BY <2>1, <2>3, RunningStep
<1>5. CASE WriterBlocks(e) \/ Written(e)
  <2> USE <1>5 DEF WriterBlocks, Written
  <2>1. FlagsGo
    BY StillGoes
  <2>2. wr[e] \notin {"off", "gone"} /\ \E s \in {"work", "check"} : Write(e, s)
    OBVIOUS
  <2>3. ThreadsGo /\ UNCHANGED <<stopEp, live>>
    BY <2>2, WriteGoes
  <2> QED BY <2>1, <2>3, RunningStep
<1>6. CASE ShutDown(e)
  <2> USE <1>6 DEF ShutDown
  <2>1. FlagsGo
    BY StillGoes
  <2>2. Reason(e)
    BY DEF Reason
  <2>3. ThreadsGo /\ UNCHANGED <<stopEp, live>>
    BY <2>2, ReadGoes, WriteGoes
  <2> QED BY <2>1, <2>3, RunningStep
<1> QED BY <1>1, <1>2, <1>3, <1>4, <1>5, <1>6 DEF ThreadNext

(* The injector holds only an endpoint whose sink it has just read.        *)
LEMMA InjectorKeeps == ASSUME ProxyInv, pc \notin Over, InjectorTakes \/ InjectorPushes PROVE ProxyInv'
<1> USE DEF ProxyInv, ep0, flags, threads
<1>1. UNCHANGED <<ep0, stopAll, stopEp0, stopSent, signalled, rd, wr, stopEp, live, sink>>
  BY DEF InjectorTakes, InjectorPushes
<1>2. inj' \in Eps \cup {NoEp} /\ (inj' # NoEp => live[inj'])
  BY EndpointAssumption DEF InjectorTakes, InjectorPushes, SinksSound, ProxyTyped
<1>3. ProxyTyped'
  BY <1>1, <1>2 DEF ProxyTyped
<1>4. JobSound' /\ FlagsSound' /\ ThreadsSound'
  BY <1>1 DEF JobSound, FlagsSound, ThreadsSound
<1>5. SinksSound'
  BY <1>1, <1>2 DEF SinksSound
<1>6. LiveSound' /\ ToldSound' /\ JoinedSound' /\ RunningSound'
  BY <1>1 DEF LiveSound, Served, ToldSound, JoinedSound, Joined, Current, EpsOf, RunningSound, InHand
<1> QED BY <1>3, <1>4, <1>5, <1>6

-----------------------------------------------------------------------------
(* terminate_eps and process_eps of one interface.                         *)
LEMMA InCurrent == ASSUME NEW e \in Eps PROVE e \in Current <=> IfaceOf[e] = at /\ AltOf[e] = curAlt[at]
  BY DEF Current, EpsOf

LEMMA InFresh == ASSUME NEW e \in Eps PROVE e \in Fresh <=> IfaceOf[e] = at /\ AltOf[e] = NewAlt
  BY DEF Fresh, EpsOf

(* Everything that lives on the interface in hand is of its setting.       *)
LEMMA LiveHereIsCurrent ==
  ASSUME ProxyInv, pc \notin Over, NEW e \in Eps, live[e], IfaceOf[e] = at
  PROVE  e \in Current
  BY InCurrent DEF ProxyInv, LiveSound

LEMMA SignalKeeps == ASSUME ProxyInv, Signal PROVE ProxyInv'
<1> USE DEF ProxyInv, Signal, flags, inject
<1>1. pc = "signal" /\ pc \in Stopping /\ pc \notin Over /\ pc' = "join" /\ pc' \in Stopping
  BY DEF Stopping, Over
<1>2. ProxyTyped'
  <2>1. rd' \in [Eps -> {"off", "check", "armed", "work", "push", "gone"}]
    BY DEF ProxyTyped
  <2>2. wr' \in [Eps -> {"off", "check", "armed", "work", "gone"}]
    BY DEF ProxyTyped
  <2>3. stopEp' \in [Eps -> BOOLEAN]
    BY DEF ProxyTyped
  <2> QED BY <1>1, <2>1, <2>2, <2>3 DEF ProxyTyped
<1>3. JobSound' /\ FlagsSound'
  BY <1>1 DEF JobSound, FlagsSound, Settled, Starting
<1>4. ThreadsSound' /\ SinksSound'
  BY DEF ThreadsSound, SinksSound, ProxyTyped
<1>5. LiveSound'
  BY <1>1 DEF LiveSound, Served
<1>6. ToldSound'
  <2> SUFFICES ASSUME NEW e \in Eps, stopEp'[e] PROVE live[e] /\ IfaceOf[e] = at
    BY <1>1 DEF ToldSound, InHand
  <2>1. ~stopEp[e]
    BY <1>1 DEF ToldSound, InHand
  <2> QED BY <2>1, InCurrent
<1>7. JoinedSound'
  BY <1>1 DEF JoinedSound
<1>8. RunningSound'
  <2> SUFFICES ASSUME ~stopEp0, NEW e \in Eps, rd'[e] = "gone" \/ wr'[e] = "gone"
               PROVE  IfaceOf[e] = at \/ job \in {"reset", "connect"}
    BY <1>1 DEF RunningSound, InHand
  <2>1. rd[e] = "gone" \/ wr[e] = "gone" \/ e \in Current
    OBVIOUS
  <2> QED BY <1>1, <2>1, InCurrent DEF RunningSound, InHand
<1> QED BY <1>2, <1>3, <1>4, <1>5, <1>6, <1>7, <1>8

LEMMA JoinKeeps == ASSUME ProxyInv, Join PROVE ProxyInv'
<1> USE DEF ProxyInv, Join, flags, inject, threads
<1>1. pc = "join" /\ pc \in Stopping /\ pc \notin Over /\ pc' = "clean" /\ pc' \in Stopping
  BY DEF Stopping, Over
<1>2. ProxyTyped'
  BY <1>1 DEF ProxyTyped
<1>3. JobSound' /\ FlagsSound' /\ ThreadsSound' /\ SinksSound'
  BY <1>1 DEF JobSound, FlagsSound, ThreadsSound, SinksSound, Settled, Starting
<1>4. LiveSound'
  BY <1>1 DEF LiveSound, Served
<1>5. ToldSound' /\ RunningSound'
  BY <1>1 DEF ToldSound, RunningSound, InHand
<1>6. JoinedSound'
  BY DEF JoinedSound, Joined, Current, EpsOf
<1> QED BY <1>2, <1>3, <1>4, <1>5, <1>6

LEMMA CleanKeeps == ASSUME ProxyInv, Clean PROVE ProxyInv'
<1> USE IfacesAre DEF ProxyInv
<1>1. /\ pc = "clean" /\ pc \in Stopping /\ pc \notin Over /\ pc' \notin {"join", "clean"}
      /\ UNCHANGED <<stopEp0, stopSent, signalled, last, inj, target>>
      /\ at \in Ifaces /\ last \in Ifaces /\ at \in Int /\ last \in Int
  BY DEF Clean, Stopping, Over, ProxyTyped
<1>2. job \in Stops /\ (IF job = "exit" THEN stopEp0 ELSE configured)
      /\ (IF job = "alt" THEN last = at /\ configured ELSE last = NumIfaces - 1)
  BY <1>1 DEF JobSound
<1>3. \/ at < last /\ pc' = "signal" /\ at' = at + 1 /\ UNCHANGED <<job, configured, stopAll>>
      \/ ~(at < last) /\ job \in {"reset", "connect"} /\ pc' = "top" /\ job' = "none" /\ configured' = FALSE
         /\ stopAll' = FALSE /\ at' = at
      \/ ~(at < last) /\ job \in {"config", "alt"} /\ pc' = "start" /\ job' = job /\ configured' = configured
         /\ stopAll' = stopAll /\ at' = (IF job = "config" THEN 0 ELSE at)
      \/ ~(at < last) /\ job = "exit" /\ pc' = "ended" /\ job' = "none" /\ configured' = configured
         /\ stopAll' = stopAll /\ at' = at
  BY <1>2 DEF Clean, Undone, Stops, ProxyTyped
<1>4. at' \in Ifaces /\ pc' \in Settled \cup Stopping \cup {"start"} \cup Over
  BY <1>1, <1>3 DEF Settled, Stopping, Over
<1>5. \A e \in Eps : /\ live'[e] <=> live[e] /\ IfaceOf[e] # at
                     /\ stopEp'[e] <=> stopEp[e] /\ e \notin Current
  BY <1>1, LiveHereIsCurrent, InCurrent DEF Clean
<1>6. \A i \in Ifaces : i # at => curAlt'[i] = curAlt[i]
  BY <1>1 DEF Clean, ProxyTyped
<1>7. \A e \in Eps : /\ rd'[e] = IF live[e] /\ IfaceOf[e] = at THEN "off" ELSE rd[e]
                     /\ wr'[e] = IF live[e] /\ IfaceOf[e] = at THEN "off" ELSE wr[e]
  <2> SUFFICES ASSUME NEW e \in Eps
               PROVE  /\ rd'[e] = IF live[e] /\ IfaceOf[e] = at THEN "off" ELSE rd[e]
                      /\ wr'[e] = IF live[e] /\ IfaceOf[e] = at THEN "off" ELSE wr[e]
    OBVIOUS
  <2>1. /\ rd'[e] = (IF e \in Current /\ rd[e] = "gone" THEN "off" ELSE rd[e])
        /\ wr'[e] = (IF e \in Current /\ wr[e] = "gone" THEN "off" ELSE wr[e])
    BY DEF Clean
  <2>2. CASE live[e] /\ IfaceOf[e] = at
    <3>1. e \in Current
      BY <1>1, <2>2, LiveHereIsCurrent
    <3> QED BY <1>1, <2>1, <2>2, <3>1 DEF JoinedSound, Joined
  <2>3. CASE ~live[e]
    BY <2>1, <2>3 DEF ThreadsSound
  <2>4. CASE IfaceOf[e] # at
    BY <2>1, <2>4, InCurrent
  <2> QED BY <2>2, <2>3, <2>4
<1>8. ProxyTyped'
  <2>1. rd' \in [Eps -> {"off", "check", "armed", "work", "push", "gone"}]
    BY DEF Clean, ProxyTyped
  <2>2. wr' \in [Eps -> {"off", "check", "armed", "work", "gone"}]
    BY DEF Clean, ProxyTyped
  <2>3. stopEp' \in [Eps -> BOOLEAN] /\ live' \in [Eps -> BOOLEAN]
    BY DEF Clean, ProxyTyped
  <2>4. sink' \in [Ifaces -> Eps \cup {NoEp}] /\ curAlt' \in [Ifaces -> Nat]
    BY DEF Clean, ProxyTyped
  <2>5. stopAll' \in BOOLEAN
    BY <1>3 DEF ProxyTyped
  <2>6. configured' \in BOOLEAN
    BY <1>3 DEF ProxyTyped
  <2>7. job' \in Stops \cup {"none"}
    BY <1>2, <1>3
  <2> QED BY <1>1, <1>4, <2>1, <2>2, <2>3, <2>4, <2>5, <2>6, <2>7 DEF ProxyTyped
<1>9. JobSound'
  BY <1>1, <1>2, <1>3 DEF JobSound, Settled, Starting, Stopping
<1>10. FlagsSound'
  BY <1>1, <1>3 DEF FlagsSound, Stopping
<1>11. ThreadsSound'
  BY <1>5, <1>7 DEF ThreadsSound
<1>12. SinksSound'
  <2>1. inj' # NoEp => live'[inj']
    <3>1. CASE Current = {}
      BY <1>1, <1>5, <3>1, LiveHereIsCurrent DEF SinksSound, ProxyTyped
    <3>2. CASE inj = NoEp
      BY <1>1, <3>2
    <3> QED BY <3>1, <3>2 DEF Clean, SinkFree
  <2>2. ASSUME NEW i \in Ifaces, sink'[i] # NoEp PROVE live'[sink'[i]] /\ IfaceOf[sink'[i]] = i
    <3>1. sink'[i] = sink[i] /\ sink[i] \in Eps /\ live[sink[i]] /\ IfaceOf[sink[i]] = i
      BY <2>2 DEF Clean, SinksSound, ProxyTyped
    <3>2. CASE i # at
      BY <1>5, <3>1, <3>2
    <3>3. CASE i = at
      <4>1. sink[i] \in Current
        BY <1>1, <3>1, <3>3, LiveHereIsCurrent
      <4>2. sink'[i] = NoEp
        BY <4>1, <3>3 DEF Clean, ProxyTyped
      <4> QED BY <4>2, <2>2
    <3> QED BY <3>2, <3>3
  <2> QED BY <2>1, <2>2 DEF SinksSound
<1>13. LiveSound'
  <2> SUFFICES ASSUME pc' \notin Over, NEW e \in Eps
               PROVE  live'[e] <=> Served(IfaceOf[e])' /\ AltOf[e] = curAlt'[IfaceOf[e]]
    BY DEF LiveSound
  <2> DEFINE i == IfaceOf[e]
  <2>1. i \in Ifaces /\ i \in Int /\ 0 <= i /\ i <= NumIfaces - 1
    BY EndpointAssumption
  <2>2. live[e] <=> configured /\ (job = "alt" \/ i >= at) /\ AltOf[e] = curAlt[i]
    BY <1>1 DEF LiveSound, Served
  <2>3. live'[e] <=> configured /\ (job = "alt" \/ i >= at) /\ AltOf[e] = curAlt'[i] /\ i # at
    BY <1>5, <1>6, <2>1, <2>2
  <2>4. Served(i)' <=> configured /\ (job = "alt" \/ i >= at) /\ i # at
    <3>1. CASE at < last
      <4>1. Served(i)' <=> configured /\ (job = "alt" \/ i >= at + 1)
        BY <1>3, <3>1 DEF Served, Stopping
      <4> QED BY <1>1, <1>2, <3>1, <2>1, <4>1
    <3>2. CASE ~(at < last) /\ job \in {"reset", "connect"}
      <4>1. ~Served(i)' /\ i <= at
        BY <1>1, <1>2, <1>3, <3>2, <2>1 DEF Served, Stopping
      <4> QED BY <1>1, <3>2, <4>1, <2>1
    <3>3. CASE ~(at < last) /\ job = "config"
      <4>2. pc' = "start" /\ job' = "config" /\ at' = 0
        BY <1>3, <3>3
      <4>3. ~Served(i)'
        BY <4>2, <2>1 DEF Served, Stopping
      <4>1. ~Served(i)' /\ i <= at
        BY <1>1, <1>2, <3>3, <2>1, <4>3
      <4> QED BY <1>1, <3>3, <4>1, <2>1
    <3>4. CASE ~(at < last) /\ job = "alt"
      BY <1>1, <1>2, <1>3, <3>4, <2>1 DEF Served, Stopping
    <3> QED BY <1>3, <3>1, <3>2, <3>3, <3>4 DEF Over
  <2> QED BY <2>3, <2>4
<1>14. ToldSound'
  BY <1>1, <1>5, LiveHereIsCurrent DEF ToldSound, InHand
<1>15. JoinedSound'
  BY <1>1 DEF JoinedSound
<1>16. RunningSound'
  <2> SUFFICES ASSUME pc' \notin Over, ~stopEp0, NEW e \in Eps, rd'[e] = "gone" \/ wr'[e] = "gone"
               PROVE  pc' \in Stopping /\ job' \in {"reset", "connect"}
    BY <1>1 DEF RunningSound
  <2>1. (rd[e] = "gone" \/ wr[e] = "gone") /\ live'[e]
    BY <1>7, <1>11 DEF ThreadsSound
  <2>2. live[e] /\ IfaceOf[e] # at
    BY <1>5, <2>1
  <2>3. job \in {"reset", "connect"}
    BY <1>1, <2>1, <2>2 DEF RunningSound, InHand
  <2>4. at < last
    <3>1. CASE ~(at < last)
      <4>1. ~configured' /\ pc' = "top"
        BY <1>3, <2>3, <3>1
      <4> QED BY <4>1, <2>1, <1>13 DEF LiveSound, Served, Stopping, Over
    <3> QED BY <3>1
  <2> QED BY <1>3, <2>3, <2>4 DEF Stopping
<1> QED BY <1>8, <1>9, <1>10, <1>11, <1>12, <1>13, <1>14, <1>15, <1>16

LEMMA StartKeeps == ASSUME ProxyInv, StartEps PROVE ProxyInv'
<1> USE IfacesAre DEF ProxyInv
<1>1. /\ pc = "start" /\ pc \notin Stopping \cup Over /\ pc' \in {"start", "top"} /\ pc' \notin Stopping \cup Over
      /\ UNCHANGED <<stopAll, stopEp0, stopSent, signalled, last, inj, target>>
      /\ at \in Ifaces /\ last \in Ifaces /\ at \in Int /\ last \in Int
  BY DEF StartEps, Stopping, Over, ProxyTyped, flags
<1>2. job \in {"config", "alt"} /\ (IF job = "alt" THEN last = at /\ configured ELSE last = NumIfaces - 1)
  BY <1>1 DEF JobSound
<1>3. \/ at < last /\ pc' = "start" /\ at' = at + 1 /\ UNCHANGED <<job, configured>>
      \/ ~(at < last) /\ pc' = "top" /\ at' = at /\ job' = "none" /\ configured' = TRUE
  BY DEF StartEps
<1>4. at' \in Ifaces /\ NewAlt \in Nat
  BY <1>1, <1>3 DEF NewAlt, ProxyTyped
<1>5. \A e \in Eps : /\ live'[e] <=> live[e] \/ e \in Fresh
                     /\ stopEp'[e] <=> stopEp[e] /\ e \notin Fresh
                     /\ rd'[e] = (IF e \in Fresh THEN "check" ELSE rd[e])
                     /\ wr'[e] = (IF e \in Fresh THEN "check" ELSE wr[e])
  BY DEF StartEps
<1>6. curAlt' = [curAlt EXCEPT ![at] = NewAlt]
  BY DEF StartEps
<1>7. sink' \in [Ifaces -> Eps \cup {NoEp}] /\ \A i \in Ifaces : sink'[i] = sink[i] \/ (i = at /\ sink'[i] \in Fresh)
  BY <1>1 DEF StartEps, Outlet, ProxyTyped, Fresh, EpsOf
<1>8. ProxyTyped'
  <2>1. rd' \in [Eps -> {"off", "check", "armed", "work", "push", "gone"}]
    BY DEF StartEps, ProxyTyped
  <2>2. wr' \in [Eps -> {"off", "check", "armed", "work", "gone"}]
    BY DEF StartEps, ProxyTyped
  <2>3. stopEp' \in [Eps -> BOOLEAN] /\ live' \in [Eps -> BOOLEAN]
    BY DEF StartEps, ProxyTyped
  <2>4. curAlt' \in [Ifaces -> Nat]
    BY <1>4, <1>6 DEF ProxyTyped
  <2>5. configured' \in BOOLEAN
    BY <1>3 DEF ProxyTyped
  <2>6. job' \in Stops \cup {"none"}
    BY <1>3 DEF ProxyTyped
  <2> QED BY <1>1, <1>4, <1>7, <2>1, <2>2, <2>3, <2>4, <2>5, <2>6 DEF ProxyTyped, Settled
<1>9. JobSound'
  BY <1>1, <1>2, <1>3 DEF JobSound, Settled, Starting, Stopping
<1>10. FlagsSound'
  BY <1>1 DEF FlagsSound
<1>11. ThreadsSound'
  BY <1>5 DEF ThreadsSound
<1>12. SinksSound'
  <2>1. \A e \in Eps : live[e] => live'[e]
    BY <1>5
  <2>2. inj' # NoEp => live'[inj']
    BY <1>1, <2>1 DEF SinksSound, ProxyTyped
  <2>3. ASSUME NEW i \in Ifaces, sink'[i] # NoEp PROVE live'[sink'[i]] /\ IfaceOf[sink'[i]] = i
    <3>1. CASE sink'[i] = sink[i]
      BY <2>1, <2>3, <3>1 DEF SinksSound, ProxyTyped
    <3>2. CASE i = at /\ sink'[i] \in Fresh
      <4>1. sink'[i] \in Eps
        BY <3>2 DEF Fresh, EpsOf
      <4> QED BY <3>2, <4>1, <1>5, InFresh
    <3> QED BY <1>7, <3>1, <3>2
  <2> QED BY <2>2, <2>3 DEF SinksSound
<1>13. LiveSound'
  <2> SUFFICES ASSUME NEW e \in Eps
               PROVE  live'[e] <=> Served(IfaceOf[e])' /\ AltOf[e] = curAlt'[IfaceOf[e]]
    BY DEF LiveSound
  <2> DEFINE i == IfaceOf[e]
  <2>1. i \in Ifaces /\ i \in Int /\ 0 <= i /\ i <= NumIfaces - 1
    BY EndpointAssumption
  <2>2. live[e] <=> (IF job = "alt" THEN i # at ELSE i < at) /\ AltOf[e] = curAlt[i]
    BY <1>1 DEF LiveSound, Served
  <2>3. Served(i)' <=> i = at \/ (IF job = "alt" THEN i # at ELSE i < at)
    <3>1. CASE at < last
      <4>1. job = "config" /\ (Served(i)' <=> i < at + 1)
        BY <1>1, <1>2, <1>3, <3>1 DEF Served, Stopping
      <4> QED BY <1>1, <4>1, <2>1
    <3>2. CASE ~(at < last)
      <4>1. Served(i)'
        BY <1>3, <3>2 DEF Served, Stopping
      <4> QED BY <1>1, <1>2, <3>2, <4>1, <2>1
    <3> QED BY <3>1, <3>2
  <2>4. CASE i = at
    <3>1. curAlt'[i] = NewAlt
      BY <1>1, <1>6, <2>4 DEF ProxyTyped
    <3>2. ~live[e]
      BY <1>1, <2>2, <2>4
    <3> QED BY <1>5, <2>3, <2>4, <3>1, <3>2, InFresh
  <2>5. CASE i # at
    <3>1. curAlt'[i] = curAlt[i]
      BY <1>1, <1>6, <2>1, <2>5 DEF ProxyTyped
    <3> QED BY <1>5, <2>2, <2>3, <2>5, <3>1, InFresh
  <2> QED BY <2>4, <2>5
<1>14. ToldSound' /\ JoinedSound' /\ RunningSound'
  <2>1. \A e \in Eps : ~stopEp[e]
    BY <1>1 DEF ToldSound, InHand
  <2>2. ~stopEp0 => \A e \in Eps : rd[e] # "gone" /\ wr[e] # "gone"
    BY <1>1 DEF RunningSound, InHand
  <2>3. ToldSound'
    BY <1>5, <2>1 DEF ToldSound
  <2>4. JoinedSound'
    BY <1>1 DEF JoinedSound
  <2>5. RunningSound'
    BY <1>1, <1>5, <2>2 DEF RunningSound
  <2> QED BY <2>3, <2>4, <2>5
<1> QED BY <1>8, <1>9, <1>10, <1>11, <1>12, <1>13, <1>14

-----------------------------------------------------------------------------
LEMMA Ep0Keeps == ASSUME ProxyInv, Ep0Next PROVE ProxyInv'
<1> USE DEF flags, gate, inject
<1>1. CASE Top
  <2>1. CASE stopEp0
    <3>1. "exit" \in Stops /\ pc' = "signal" /\ job' = "exit" /\ at' = 0 /\ last' = NumIfaces - 1
      BY <1>1, <2>1 DEF Top, StopEndpoints, Stops
    <3> QED BY <1>1, <2>1, <3>1, JobBegins DEF Top, ProxyInv, ProxyTyped
  <2>2. CASE ~stopEp0
    BY <1>1, <2>2, QuietStep DEF Top, Settled
  <2> QED BY <2>1, <2>2
<1>2. CASE Fetch
  BY <1>2, QuietStep DEF Fetch, Settled
<1> QED BY <1>1, <1>2, SignalKeeps, JoinKeeps, CleanKeeps, StartKeeps DEF Ep0Next

LEMMA SetsConfigurationKeeps == ASSUME ProxyInv, HostSetsConfiguration PROVE ProxyInv'
<1> USE IfacesAre DEF HostSetsConfiguration, flags, inject, ProxyInv
<1>1. pc = "fetch" /\ pc \in Settled /\ pc \notin Stopping \cup Over
  BY DEF Settled, Stopping, Over
<1>2. CASE pc' = "top" /\ UNCHANGED <<job, at, last>>
  BY <1>1, <1>2, QuietStep DEF Settled
<1>3. CASE configured /\ StopEndpoints("config", 0, NumIfaces - 1)
  BY <1>3, JobBegins DEF StopEndpoints, Stops, ProxyTyped
<1>4. CASE ~configured /\ pc' = "start" /\ job' = "config" /\ at' = 0 /\ last' = NumIfaces - 1
  <2>1. pc' = "start" /\ pc' \notin Settled \cup Stopping \cup Over
    BY <1>4 DEF Settled, Starting, Stopping, Over
  <2>2. ProxyTyped'
    BY <1>4, <2>1 DEF ProxyTyped, Stops, threads
  <2>3. JobSound'
    BY <1>4, <2>1 DEF JobSound
  <2>4. FlagsSound' /\ ThreadsSound' /\ SinksSound' /\ JoinedSound'
    BY <1>1, <2>1 DEF FlagsSound, ThreadsSound, SinksSound, JoinedSound, threads
  <2>5. LiveSound'
    <3> SUFFICES ASSUME NEW e \in Eps PROVE ~live[e] /\ ~Served(IfaceOf[e])'
      BY DEF LiveSound, threads
    <3>1. IfaceOf[e] \in Ifaces /\ ~(IfaceOf[e] < 0)
      BY EndpointAssumption
    <3>2. ~live[e]
      BY <1>1, <1>4 DEF LiveSound, Served
    <3>3. ~Served(IfaceOf[e])'
      BY <1>4, <2>1, <3>1 DEF Served
    <3> QED BY <3>2, <3>3
  <2>6. ToldSound' /\ RunningSound'
    BY <1>1, <2>1 DEF ToldSound, RunningSound, InHand, Stopping, threads
  <2> QED BY <2>2, <2>3, <2>4, <2>5, <2>6
<1> QED BY <1>2, <1>3, <1>4

LEMMA HostKeeps == ASSUME ProxyInv, HostEvent PROVE ProxyInv'
<1> USE DEF flags, gate, inject
<1>1. CASE HostResets \/ HostReconnects
  <2> USE <1>1 DEF HostResets, HostReconnects
  <2>1. CASE configured
    <3>1. pc' = "signal" /\ job' \in {"reset", "connect"} /\ at' = 0 /\ last' = NumIfaces - 1 /\ stopAll' = TRUE
      BY <2>1 DEF StopEndpoints
    <3>2. job' \in Stops /\ job' # "exit" /\ job' # "alt"
      BY <3>1 DEF Stops
    <3> QED BY <2>1, <3>1, <3>2, JobBegins DEF ProxyInv, ProxyTyped
  <2>2. CASE ~configured
    BY <2>2, QuietStep DEF Settled
  <2> QED BY <2>1, <2>2
<1>2. CASE HostAsksOther \/ \E i \in HidIfaces : HostReadsReportDescriptor(i)
  BY <1>2, QuietStep DEF HostAsksOther, HostReadsReportDescriptor, Settled
<1>3. CASE \E i \in Ifaces : \E a \in Alts[i] : HostSetsInterface(i, a)
  <2>1. PICK i \in Ifaces : \E a \in Alts[i] : HostSetsInterface(i, a)
    BY <1>3
  <2>2. PICK a \in Alts[i] : HostSetsInterface(i, a)
    BY <2>1
  <2> USE <2>2 DEF HostSetsInterface
  <2>3. CASE a = curAlt[i]
    BY <2>3, QuietStep DEF Settled
  <2>4. CASE a # curAlt[i]
    <3>1. pc' = "signal" /\ job' = "alt" /\ at' = i /\ last' = i /\ target' \in Nat
      BY <2>4, EndpointAssumption DEF StopEndpoints
    <3>2. "alt" \in Stops
      BY DEF Stops
    <3> QED BY <3>1, <3>2, JobBegins
  <2> QED BY <2>3, <2>4
<1> QED BY <1>1, <1>2, <1>3, SetsConfigurationKeeps DEF HostEvent

LEMMA SignalsKeep == ASSUME ProxyInv, pc \notin Over, Terminate \/ HotplugCallback PROVE ProxyInv'
<1> USE DEF threads, inject, gate
<1>1. FlagsGo
  BY SignalGoes, StopProxyGoes DEF Terminate, HotplugCallback
<1>2. ThreadsGo
  BY NoThreadGoes DEF Terminate, HotplugCallback
<1> QED BY <1>1, <1>2, RunningStep DEF Terminate, HotplugCallback

LEMMA StartUpKeeps == ASSUME ProxyInv, pc \notin Over, StartUp \/ Plug \/ Unplug PROVE ProxyInv'
<1> USE DEF ep0, flags, inject
<1>1. CASE StartUp
  <2>1. pc \in Settled /\ pc' \in Settled \cup Over
    BY <1>1 DEF StartUp, Scan, Probe, SetUp, Settled, Starting, Over
  <2> QED BY <1>1, <2>1, QuietStep DEF StartUp, Scan, Probe, SetUp
<1>2. CASE Plug \/ Unplug
  <2>1. FlagsGo
    BY <1>2, StillGoes DEF Plug, Unplug
  <2>2. ThreadsGo
    BY <1>2, NoThreadGoes DEF Plug, Unplug, threads
  <2> QED BY <1>2, <2>1, <2>2, RunningStep DEF Plug, Unplug, threads
<1> QED BY <1>1, <1>2

LEMMA UnchangedKeeps == ASSUME ProxyInv, UNCHANGED vars PROVE ProxyInv'
<1> USE DEF vars, ep0, flags, threads, inject
<1>1. ProxyTyped'
  BY DEF ProxyInv, ProxyTyped
<1>2. JobSound' /\ FlagsSound' /\ ThreadsSound' /\ SinksSound'
  BY DEF ProxyInv, JobSound, FlagsSound, ThreadsSound, SinksSound
<1>3. LiveSound' /\ ToldSound' /\ JoinedSound' /\ RunningSound'
  BY DEF ProxyInv, LiveSound, Served, ToldSound, JoinedSound, Joined, Current, EpsOf, RunningSound, InHand
<1> QED BY <1>1, <1>2, <1>3 DEF ProxyInv

(* Without a mouse EP0 has no thread to wait for, and the injectors touch  *)
(* nothing of this.                                                        *)
LEMMA SynthKeeps == ASSUME ProxyInv, SynthNext PROVE ProxyInv'
<1> USE DEF SynthNext
<1>1. CASE SetUp \/ Terminate
  BY <1>1, StartUpKeeps, SignalsKeep DEF StartUp
<1>2. CASE SynthEp0 \/ SynthHost
  <2>1. /\ pc \in {"top", "fetch", "armed"} /\ pc' \in {"ended", "armed", "fetch", "top", "failed"}
        /\ UNCHANGED <<job, at, last, target, configured, curAlt, flags, gate, threads, inject>>
    <3>1. CASE SynthEp0
      BY <3>1 DEF SynthEp0, SynthTop, Goto, Fetch
    <3>2. CASE SynthHost
      BY <3>2 DEF SynthHost, SynthReset, SynthConfigures, SynthUnconfigures, HostAsksOther, Goto
    <3> QED BY <1>2, <3>1, <3>2
  <2>2. pc \in Settled /\ pc' \in Settled \cup Over
    BY <2>1 DEF Settled, Over
  <2> QED BY <2>1, <2>2, QuietStep DEF flags, inject
<1>3. CASE BusResets \/ Moves \/ \E t \in Injectors : InjectorNext(t)
  <2>1. UNCHANGED vars
    BY <1>3 DEF BusResets, Moves, InjectorNext, Starts, InjectorLoops, InjectorWrites, InjectorReturns
  <2> QED BY <2>1, UnchangedKeeps
<1> QED BY <1>1, <1>2, <1>3

LEMMA ProxyInvHolds == ProxySpec => []ProxyInv
<1>1. ProxyInit => ProxyInv
  BY UnusedInv DEF ProxyInit, Init
<1>2. ProxyInv /\ [ProxyNext]_all => ProxyInv'
  <2> SUFFICES ASSUME ProxyInv, [ProxyNext]_all PROVE ProxyInv'
    OBVIOUS
  <2>1. CASE Next
    <3>1. CASE \E e \in Eps : ThreadNext(e)
      BY <2>1, <3>1, ThreadStepGoes DEF Next
    <3> QED BY <2>1, <3>1, Ep0Keeps, HostKeeps, SignalsKeep, StartUpKeeps, InjectorKeeps DEF Next
  <2>2. CASE SynthNext
    BY <2>2, SynthKeeps
  <2>3. CASE UNCHANGED all
    BY <2>3, UnchangedKeeps DEF all
  <2> QED BY <2>1, <2>2, <2>3 DEF ProxyNext, Physical
<1> QED BY <1>1, <1>2, PTL DEF ProxySpec

(* terminate_eps (proxy.cpp:1337): when a queue with its mutex and flag is *)
(* deleted, no thread of the endpoint runs, no sink and no call of the     *)
(* injector leads to it.                                                   *)
THEOREM QueuesStayAlive == ProxySpec => []QueuesAlive
<1>1. ProxyInv => QueuesAlive
  BY DEF ProxyInv, ThreadsSound, SinksSound, QueuesAlive
<1> QED BY <1>1, ProxyInvHolds, PTL

(* EP0 never waits for the host over threads of another setting, over a    *)
(* stop flag left set, or without the threads of the settings in force     *)
(* (terminate_eps and process_eps of proxy.cpp).                           *)
THEOREM NoThreadIsStale == ProxySpec => []NoStaleThreads
<1>1. ProxyInv => NoStaleThreads
  <2> SUFFICES ASSUME ProxyInv, pc \in {"armed", "fetch"}
               PROVE  /\ \A e \in Eps : rd[e] # "off" => configured /\ live[e] /\ AltOf[e] = curAlt[IfaceOf[e]]
                      /\ stopAll => stopEp0
                      /\ configured /\ ~stopEp0 =>
                           \A e \in Eps : AltOf[e] = curAlt[IfaceOf[e]] =>
                             live[e] /\ rd[e] \notin {"off", "gone"} /\ wr[e] \notin {"off", "gone"}
    BY DEF NoStaleThreads
  <2> USE DEF ProxyInv
  <2>1. pc \notin Over /\ pc \notin Stopping
    BY DEF Over, Stopping
  <2>2. \A e \in Eps : live[e] <=> configured /\ AltOf[e] = curAlt[IfaceOf[e]]
    BY <2>1 DEF LiveSound, Served
  <2>3. \A e \in Eps : rd[e] # "off" => configured /\ live[e] /\ AltOf[e] = curAlt[IfaceOf[e]]
    BY <2>2 DEF ThreadsSound
  <2>4. stopAll => stopEp0
    BY <2>1 DEF FlagsSound
  <2>5. ~stopEp0 => \A e \in Eps : rd[e] # "gone" /\ wr[e] # "gone"
    BY <2>1 DEF RunningSound, InHand
  <2>6. configured /\ ~stopEp0 =>
           \A e \in Eps : AltOf[e] = curAlt[IfaceOf[e]] =>
             live[e] /\ rd[e] \notin {"off", "gone"} /\ wr[e] \notin {"off", "gone"}
    BY <2>2, <2>5 DEF ThreadsSound
  <2> QED BY <2>3, <2>4, <2>6
<1> QED BY <1>1, ProxyInvHolds, PTL
-----------------------------------------------------------------------------
(* The placement of endpoints (UsbDescriptors) is a loop over those of a   *)
(* configuration.  Its rounds are the steps of a specification here, whose *)
(* states are the values of the fold Remap over the endpoints placed so    *)
(* far.                                                                    *)
CONSTANT AnyAddr   \* of UsbDescriptors
Desc == INSTANCE UsbDescriptors

VARIABLE placing   \* the state of remap_config_endpoints

PlaceInit == placing = [ok |-> TRUE, places |-> {}, host |-> <<>>]

EpTypes == {"control", "iso", "bulk", "int"}
EpType == [number : Nat, in : BOOLEAN, type : EpTypes, maxp : Nat, high : BOOLEAN]
UdcType == [addr : Nat \cup {AnyAddr}, in : BOOLEAN, out : BOOLEAN, types : SUBSET EpTypes, limit : Nat]
Addresses == (Nat \cup {AnyAddr}) \X BOOLEAN
PlaceType == [device : Nat \X BOOLEAN, index : Nat]
HostType == [address : Addresses, device : Nat \X BOOLEAN, limit : Nat, ep : EpType]

PlaceNext(udc) == \E ep \in EpType : placing' = Desc!Place(udc, placing, ep)
Placing(udc) == PlaceInit /\ [][PlaceNext(udc)]_placing

(* A UDC either takes any address at every endpoint or has an address at   *)
(* each, once in a direction.                                              *)
Serves(candidate, in) == IF in THEN candidate.in ELSE candidate.out
UdcSound(udc) ==
  /\ udc \in Seq(UdcType)
  /\ \A i, k \in DOMAIN udc : udc[i].addr = AnyAddr <=> udc[k].addr = AnyAddr
  /\ \A i, k \in DOMAIN udc : i # k /\ udc[i].addr = udc[k].addr /\ udc[i].addr # AnyAddr =>
       \A in \in BOOLEAN : ~(Serves(udc[i], in) /\ Serves(udc[k], in))

(* The address at the host of a device's endpoint that has the candidate.  *)
AddressOf(candidate, device) ==
  <<IF candidate.addr = AnyAddr THEN device[1] ELSE candidate.addr, device[2]>>

(* A candidate serves one endpoint of the device, in its direction, and an *)
(* endpoint has one candidate; what the host sees is placed so.            *)
PlacesSound(udc) ==
  /\ \A m \in placing.places : m.index \in DOMAIN udc /\ Serves(udc[m.index], m.device[2])
  /\ \A m, n \in placing.places : m.device = n.device <=> m.index = n.index
HostSound(udc) ==
  \A k \in DOMAIN placing.host : \E m \in placing.places :
    /\ m.device = placing.host[k].device
    /\ placing.host[k].address = AddressOf(udc[m.index], m.device)
PlaceInv(udc) ==
  /\ placing \in [ok : BOOLEAN, places : SUBSET PlaceType, host : Seq(HostType)]
  /\ PlacesSound(udc) /\ HostSound(udc)

(* Endpoints share an address at the host when they do at the device, and  *)
(* a request to the one finds its way back to the other.                   *)
Reversible ==
  \A k \in DOMAIN placing.host :
    /\ Desc!ToDevice(placing.host, placing.host[k].address) = placing.host[k].device
    /\ \A i \in DOMAIN placing.host :
         placing.host[i].address = placing.host[k].address
           <=> placing.host[i].device = placing.host[k].device

LEMMA SmallestExists ==
  ASSUME NEW T, T \subseteq Nat, T # {} PROVE \E x \in T : \A y \in T : x <= y
<1> DEFINE R == {p \in Nat \X Nat : p[1] < p[2]}
<1>1. IsWellFoundedOn(R, Nat)
  BY NatLessThanWellFounded DEF OpToRel
<1>2. \A x, y \in Nat : y < x => <<y, x>> \in R
  OBVIOUS
<1> HIDE DEF R
<1>3. PICK x \in T : \A y \in T : ~(<<y, x>> \in R)
  BY <1>1, WFMin
<1>4. \A y \in T : x <= y
  <2> SUFFICES ASSUME NEW y \in T PROVE x <= y
    OBVIOUS
  <2>1. x \in Nat /\ y \in Nat /\ ~(y < x)
    BY <1>2, <1>3
  <2> QED BY <2>1
<1> QED BY <1>4

LEMMA CandidateFound ==
  ASSUME NEW udc \in Seq(UdcType), NEW busy, NEW ep \in EpType,
         NEW index, index = Desc!FindCandidate(udc, busy, ep), index # 0
  PROVE  index \in DOMAIN udc /\ index \notin busy /\ Serves(udc[index], ep.in)
<1> DEFINE fit == {i \in DOMAIN udc : i \notin busy /\ Desc!Supports(udc[i], ep)}
<1>1. fit # {} /\ fit \subseteq Nat
  BY DEF Desc!FindCandidate
<1>2. \E i \in fit : \A k \in fit : i <= k
  BY <1>1, SmallestExists
<1>3. index = CHOOSE i \in fit : \A k \in fit : i <= k
  BY <1>1 DEF Desc!FindCandidate
<1>4. index \in fit
  BY <1>2, <1>3
<1>5. ep.in \in BOOLEAN
  BY DEF EpType
<1> QED BY <1>4, <1>5 DEF Desc!Supports, Serves

(* Two endpoints of the device have two addresses at the host.             *)
LEMMA AddressesApart ==
  ASSUME NEW udc, UdcSound(udc), PlaceInv(udc), NEW m \in placing.places, NEW n \in placing.places
  PROVE  AddressOf(udc[m.index], m.device) = AddressOf(udc[n.index], n.device) <=> m.device = n.device
<1>1. /\ m.device \in Nat \X BOOLEAN /\ n.device \in Nat \X BOOLEAN
      /\ m.index \in DOMAIN udc /\ n.index \in DOMAIN udc
      /\ Serves(udc[m.index], m.device[2]) /\ Serves(udc[n.index], n.device[2])
      /\ (m.device = n.device <=> m.index = n.index)
  BY DEF PlaceInv, PlacesSound, PlaceType
<1>2. m.device = <<m.device[1], m.device[2]>> /\ n.device = <<n.device[1], n.device[2]>>
      /\ m.device[2] \in BOOLEAN /\ n.device[2] \in BOOLEAN
  BY <1>1
<1>3. CASE m.device = n.device
  BY <1>1, <1>3
<1>4. CASE m.device # n.device
  <2> SUFFICES ASSUME AddressOf(udc[m.index], m.device) = AddressOf(udc[n.index], n.device) PROVE FALSE
    BY <1>4
  <2>1. m.index # n.index
    BY <1>1, <1>4
  <2>2. m.device[2] = n.device[2]
    BY DEF AddressOf
  <2>3. udc[m.index].addr = AnyAddr <=> udc[n.index].addr = AnyAddr
    BY <1>1 DEF UdcSound
  <2>4. CASE udc[m.index].addr = AnyAddr
    BY <1>2, <1>4, <2>2, <2>3, <2>4 DEF AddressOf
  <2>5. CASE udc[m.index].addr # AnyAddr
    <3>1. udc[m.index].addr = udc[n.index].addr
      BY <2>3, <2>5 DEF AddressOf
    <3> QED BY <1>1, <1>2, <2>1, <2>2, <2>5, <3>1 DEF UdcSound
  <2> QED BY <2>4, <2>5
<1> QED BY <1>3, <1>4

LEMMA PlaceInvReversible ==
  ASSUME NEW udc, UdcSound(udc), PlaceInv(udc) PROVE Reversible
<1> DEFINE host == placing.host
<1>1. ASSUME NEW i \in DOMAIN host, NEW k \in DOMAIN host
      PROVE  host[i].address = host[k].address <=> host[i].device = host[k].device
  <2>1. PICK m \in placing.places : m.device = host[i].device /\ host[i].address = AddressOf(udc[m.index], m.device)
    BY DEF PlaceInv, HostSound
  <2>2. PICK n \in placing.places : n.device = host[k].device /\ host[k].address = AddressOf(udc[n.index], n.device)
    BY DEF PlaceInv, HostSound
  <2> QED BY <2>1, <2>2, AddressesApart DEF PlaceInv
<1>2. DOMAIN host \subseteq Nat
  BY DEF PlaceInv, HostSound
<1> HIDE DEF host
<1>3. ASSUME NEW k \in DOMAIN host PROVE Desc!ToDevice(host, host[k].address) = host[k].device
  <2> DEFINE same == {i \in DOMAIN host : host[i].address = host[k].address}
             first == CHOOSE i \in same : \A l \in same : i <= l
  <2>1. same # {} /\ same \subseteq Nat
    BY <1>2
  <2>2. \E i \in same : \A l \in same : i <= l
    BY <2>1, SmallestExists
  <2>3. first \in same
    BY <2>2
  <2>4. Desc!ToDevice(host, host[k].address) = host[first].device
    BY <2>1 DEF Desc!ToDevice
  <2> QED BY <1>1, <2>3, <2>4
<1> QED BY <1>1, <1>3 DEF Reversible, host

LEMMA PlaceNextInv ==
  ASSUME NEW udc, UdcSound(udc), PlaceInv(udc), NEW ep \in EpType, placing' = Desc!Place(udc, placing, ep)
  PROVE  PlaceInv(udc)'
<1> DEFINE device == <<ep.number, ep.in>>
           known == {m \in placing.places : m.device = device}
           busy == {m.index : m \in placing.places}
           index == IF known # {} THEN (CHOOSE m \in known : TRUE).index
                    ELSE Desc!FindCandidate(udc, busy, ep)
           new == [device |-> device, index |-> index]
           entry == [address |-> Desc!HostAddress(udc[index], ep), device |-> device,
                     limit |-> udc[index].limit, ep |-> Desc!Clamped(udc[index], ep)]
<1>1. placing' = IF ~placing.ok \/ index = 0 THEN [placing EXCEPT !.ok = FALSE]
                 ELSE [ok |-> TRUE, places |-> placing.places \cup {new}, host |-> Append(placing.host, entry)]
  BY DEF Desc!Place, Desc!Address
<1>2. /\ ep.number \in Nat /\ ep.in \in BOOLEAN /\ device \in Nat \X BOOLEAN
      /\ device[1] = ep.number /\ device[2] = ep.in
  BY DEF EpType
<1> HIDE DEF device, index, new, entry
<1>3. CASE ~placing.ok \/ index = 0
  <2>0. placing' = [placing EXCEPT !.ok = FALSE]
    BY <1>1, <1>3
  <2>1. /\ placing'.places = placing.places /\ placing'.host = placing.host
        /\ placing' \in [ok : BOOLEAN, places : SUBSET PlaceType, host : Seq(HostType)]
    <3> DEFINE State == [ok : BOOLEAN, places : SUBSET PlaceType, host : Seq(HostType)]
    <3>1. placing \in State
      BY DEF PlaceInv
    <3>2. \A s \in State : /\ [s EXCEPT !.ok = FALSE] \in State
                          /\ [s EXCEPT !.ok = FALSE].places = s.places
                          /\ [s EXCEPT !.ok = FALSE].host = s.host
      OBVIOUS
    <3> QED BY <2>0, <3>1, <3>2
  <2>2. PlacesSound(udc)'
    BY <2>1 DEF PlaceInv, PlacesSound
  <2>3. HostSound(udc)'
    BY <2>1 DEF PlaceInv, HostSound
  <2> QED BY <2>1, <2>2, <2>3 DEF PlaceInv
<1>4. CASE placing.ok /\ index # 0
  <2>0. placing' = [ok |-> TRUE, places |-> placing.places \cup {new}, host |-> Append(placing.host, entry)]
    BY <1>1, <1>4
  <2>1. placing'.places = placing.places \cup {new} /\ placing'.host = Append(placing.host, entry)
    BY <2>0
  <2>2. /\ index \in DOMAIN udc /\ Serves(udc[index], ep.in)
        /\ \A m \in placing.places : m.device = device <=> m.index = index
    <3> USE DEF index
    <3>1. CASE known # {}
      <4>1. PICK m \in known : index = m.index
        BY <3>1
      <4>2. m \in placing.places /\ m.device = device
        BY <4>1
      <4> QED BY <1>2, <4>1, <4>2 DEF PlaceInv, PlacesSound
    <3>2. CASE known = {}
      <4>1. index = Desc!FindCandidate(udc, busy, ep)
        BY <3>2
      <4> HIDE DEF index, busy
      <4>2. index \in DOMAIN udc /\ index \notin busy /\ Serves(udc[index], ep.in)
        BY <4>1, <1>4, CandidateFound DEF UdcSound
      <4>3. \A m \in placing.places : m.device # device
        BY <3>2
      <4>4. \A m \in placing.places : m.index # index
        BY <4>2 DEF busy
      <4> QED BY <4>2, <4>3, <4>4
    <3> QED BY <3>1, <3>2
  <2>3. new.device = device /\ new.index = index
    BY DEF new
  <2>4. PlacesSound(udc)'
    <3>1. ASSUME NEW m \in placing'.places
          PROVE  m.index \in DOMAIN udc /\ Serves(udc[m.index], m.device[2])
      <4>1. CASE m \in placing.places
        BY <4>1 DEF PlaceInv, PlacesSound
      <4>2. CASE m = new
        BY <4>2, <1>2, <2>2, <2>3
      <4> QED BY <4>1, <4>2, <2>1
    <3>2. ASSUME NEW m \in placing'.places, NEW n \in placing'.places
          PROVE  m.device = n.device <=> m.index = n.index
      <4>1. m \in placing.places \/ m = new
        BY <2>1
      <4>2. n \in placing.places \/ n = new
        BY <2>1
      <4>3. CASE m \in placing.places /\ n \in placing.places
        BY <4>3 DEF PlaceInv, PlacesSound
      <4>4. CASE m = new \/ n = new
        BY <4>1, <4>2, <4>4, <2>2, <2>3
      <4> QED BY <4>1, <4>2, <4>3, <4>4
    <3> QED BY <3>1, <3>2 DEF PlacesSound
  <2>5. udc[index] \in UdcType
    BY <2>2 DEF UdcSound
  <2>6. entry.device = device /\ entry.address = AddressOf(udc[index], device)
    BY <1>2 DEF Desc!HostAddress, Desc!Address, AddressOf, entry
  <2>7. entry \in HostType
    <3>1. Desc!HostAddress(udc[index], ep) \in Addresses
      BY <1>2, <2>5 DEF Desc!HostAddress, Desc!Address, Addresses, UdcType
    <3>2. Desc!Clamped(udc[index], ep) \in EpType
      BY <2>5 DEF Desc!Clamped, EpType, UdcType
    <3>3. udc[index].limit \in Nat
      BY <2>5 DEF UdcType
    <3> QED BY <3>1, <3>2, <3>3, <1>2 DEF HostType, entry
  <2>8. HostSound(udc)'
    <3> DEFINE l == Len(placing.host)
    <3>1. placing.host \in Seq(HostType) /\ l \in Nat
      BY DEF PlaceInv, HostSound
    <3>2. /\ placing'.host \in Seq(HostType) /\ DOMAIN placing'.host = 1 .. l + 1
          /\ placing'.host[l + 1] = entry /\ \A k \in 1 .. l : placing'.host[k] = placing.host[k]
      BY <2>1, <2>7, <3>1, AppendProperties
    <3>3. ASSUME NEW k \in DOMAIN placing'.host
          PROVE  \E m \in placing'.places : /\ m.device = placing'.host[k].device
                                            /\ placing'.host[k].address = AddressOf(udc[m.index], m.device)
      <4>1. CASE k \in 1 .. l
        <5>1. PICK m \in placing.places : /\ m.device = placing.host[k].device
                                          /\ placing.host[k].address = AddressOf(udc[m.index], m.device)
          BY <3>1, <4>1 DEF PlaceInv, HostSound
        <5> QED BY <5>1, <2>1, <3>2, <4>1
      <4>2. CASE k = l + 1
        <5>1. new \in placing'.places
          BY <2>1
        <5> QED BY <5>1, <4>2, <3>2, <2>3, <2>6
      <4> QED BY <4>1, <4>2, <3>1, <3>2
    <3> QED BY <3>2, <3>3 DEF HostSound
  <2>9. placing' \in [ok : BOOLEAN, places : SUBSET PlaceType, host : Seq(HostType)]
    <3>1. new \in PlaceType
      BY <1>2, <2>2, <2>5 DEF new, PlaceType, UdcSound
    <3>2. placing.places \cup {new} \in SUBSET PlaceType
      BY <3>1 DEF PlaceInv
    <3>3. Append(placing.host, entry) \in Seq(HostType)
      BY <2>7, AppendProperties DEF PlaceInv
    <3> QED BY <2>0, <3>2, <3>3
  <2> QED BY <2>4, <2>8, <2>9 DEF PlaceInv
<1> QED BY <1>3, <1>4 DEF PlaceInv

(* usb-proxy.cpp: on any UDC of that kind, whatever endpoints the settings *)
(* of a configuration have and in whatever order they come, the placement  *)
(* is one to one, and remap_endpoint_for_device (proxy.cpp) undoes it.     *)
THEOREM PlacementIsReversible ==
  ASSUME NEW CONSTANT udc, UdcSound(udc)
  PROVE  Placing(udc) => []Reversible
<1>1. PlaceInit => PlaceInv(udc)
  BY DEF PlaceInit, PlaceInv, PlacesSound, HostSound
<1>2. PlaceInv(udc) /\ [PlaceNext(udc)]_placing => PlaceInv(udc)'
  <2>1. CASE PlaceNext(udc)
    BY <2>1, PlaceNextInv DEF PlaceNext
  <2>2. CASE placing' = placing
    BY <2>2 DEF PlaceInv, PlacesSound, HostSound
  <2> QED BY <2>1, <2>2
<1>3. PlaceInv(udc) => Reversible
  BY PlaceInvReversible
<1> QED BY <1>1, <1>2, <1>3, PTL DEF Placing
-----------------------------------------------------------------------------
(* Control requests (UsbTransfers).                                        *)
CONSTANTS MaxTransfer, MaxAttempts   \* of UsbTransfers
Tr == INSTANCE UsbTransfers

ControlRequest == [in : BOOLEAN, length : Nat, kind : {"set_idle", "set_protocol", "other"}]
Answered(req, flag, device, received, compat, known) ==
  IF req.in THEN Tr!ControlIn(req, flag, device)
  ELSE Tr!ControlOut(req, flag, device, received, compat, known)

AnswerSound(a, req, flag, ok, acked) ==
  /\ a.host = "ignored" => flag = "ignore"
  /\ a.data \in 0 .. MaxTransfer
  /\ ~ok /\ a.host \in {"ack", "data"} => ~req.in /\ (req.length > 0 \/ acked)

(* proxy.cpp: a request the host does not get an answer to is one that a   *)
(* rule ignores; no more is passed on than the buffer of a transfer holds; *)
(* and a device that stalls is seen to stall, except when the request      *)
(* carries data, which is acknowledged first, or is one of the two that    *)
(* are acknowledged without the device.                                    *)
THEOREM RequestsAreAnswered ==
  ASSUME NEW req \in ControlRequest, NEW flag \in {"none", "stall", "ignore"},
         NEW device, device \in [ok : BOOLEAN, bytes : Nat],
         NEW received \in Nat, NEW compat \in BOOLEAN, NEW known \in BOOLEAN, MaxTransfer \in Nat
  PROVE  AnswerSound(Answered(req, flag, device, received, compat, known), req, flag, device.ok,
                     Tr!AckedHere(req, compat, known))
<1> DEFINE a == Answered(req, flag, device, received, compat, known)
           ok == device.ok
           acked == Tr!AckedHere(req, compat, known)
<1> SUFFICES AnswerSound(a, req, flag, ok, acked)
  OBVIOUS
<1>1. device.ok \in BOOLEAN /\ device.bytes \in Nat /\ req.in \in BOOLEAN /\ req.length \in Nat
  BY DEF ControlRequest
<1>2. /\ Tr!Least(device.bytes, MaxTransfer) \in 0 .. MaxTransfer
      /\ Tr!Least(received, Tr!Least(req.length, MaxTransfer)) \in 0 .. MaxTransfer
  BY <1>1 DEF Tr!Least
<1>0. 0 \in 0 .. MaxTransfer
  OBVIOUS
<1>3. CASE req.in
  <2>1. a = Tr!ControlIn(req, flag, device)
    BY <1>3 DEF Answered
  <2> HIDE DEF a
  <2>2. CASE ~device.ok
    <3>1. a.host = "stall" /\ a.data = 0
      BY <2>1, <2>2 DEF Tr!ControlIn, Tr!Answer
    <3> QED BY <3>1, <1>0 DEF AnswerSound
  <2>3. CASE device.ok /\ flag # "none"
    <3>1. a.host = (IF flag = "stall" THEN "stall" ELSE "ignored") /\ a.data = 0
      BY <2>1, <2>3 DEF Tr!ControlIn, Tr!Refusal, Tr!Answer
    <3> QED BY <3>1, <1>0, <2>3 DEF AnswerSound
  <2>4. CASE device.ok /\ flag = "none"
    <3>1. a.host = "data" /\ a.data = Tr!Least(device.bytes, MaxTransfer)
      BY <2>1, <2>4 DEF Tr!ControlIn, Tr!Answer
    <3> QED BY <3>1, <1>0, <2>4, <1>2 DEF AnswerSound
  <2> QED BY <2>2, <2>3, <2>4
<1>4. CASE ~req.in
  <2>1. a = Tr!ControlOut(req, flag, device, received, compat, known)
    BY <1>4 DEF Answered
  <2> HIDE DEF a
  <2>2. CASE flag # "none"
    <3>1. a.host = (IF flag = "stall" THEN "stall" ELSE "ignored") /\ a.data = 0
      BY <2>1, <2>2 DEF Tr!ControlOut, Tr!Refusal, Tr!Answer
    <3> QED BY <3>1, <1>0, <2>2 DEF AnswerSound
  <2>3. CASE flag = "none" /\ Tr!AckedHere(req, compat, known)
    <3>1. a.host = "ack" /\ a.data = 0
      BY <2>1, <2>3 DEF Tr!ControlOut, Tr!Answer
    <3> QED BY <3>1, <1>0, <2>3, <1>4 DEF AnswerSound
  <2>4. CASE flag = "none" /\ ~Tr!AckedHere(req, compat, known) /\ req.length = 0
    <3>1. a.host = (IF device.ok THEN "ack" ELSE "stall") /\ a.data = 0
      BY <2>1, <2>4 DEF Tr!ControlOut, Tr!Answer
    <3> QED BY <3>1, <1>0, <2>4 DEF AnswerSound
  <2>5. CASE flag = "none" /\ ~Tr!AckedHere(req, compat, known) /\ req.length # 0
    <3>1. a.host = "ack" /\ a.data = Tr!Least(received, Tr!Least(req.length, MaxTransfer))
      BY <2>1, <2>5 DEF Tr!ControlOut, Tr!Answer
    <3>2. req.length > 0
      BY <1>1, <2>5
    <3> QED BY <3>1, <1>0, <3>2, <1>2, <1>4 DEF AnswerSound
  <2> QED BY <2>2, <2>3, <2>4, <2>5
<1> QED BY <1>1, <1>3, <1>4
=============================================================================
