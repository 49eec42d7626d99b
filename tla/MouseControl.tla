---------------------------- MODULE MouseControl ----------------------------
(***************************************************************************)
(* mouse_control (usbproxy/mouse_control.cpp) and the reader of the core   *)
(* that listens to it (core/src/input/PhysicalMouseReader.cpp).  Clients   *)
(* add motion to what is pending and press buttons; the injector clock and *)
(* the reader of the physical endpoint both take motion away and send      *)
(* reports to the host; changes of the button mask go to the subscribers.  *)
(* The Y axis behaves as X does and is left out; a report is its buttons.  *)
(***************************************************************************)
EXTENDS Integers, Sequences, FiniteSets

CONSTANTS
  Buttons,
  Deltas,          \* the motion of a MOVE_CMD
  StepMax, WheelMax, Backlog, PendCap,   \* 96, 1, 768 and 2^20 in the code
  WheelWritable,   \* the wheel field of the layout is safe to write
  Clients,         \* the connections to cmd.sock
  Subs, NoSub,     \* the connections to event.sock
  ChanMax,         \* the messages its buffer holds
  MaxMoves, MaxCommands, MaxReports, MaxRefusals, MaxLosses   \* bounds

Axes == {"move", "wheel"}
Motions == [Axes -> Int]

ASSUME MotionAssumption ==
  /\ Deltas \subseteq Motions
  /\ {StepMax, WheelMax, Backlog, PendCap} \subseteq Nat

VARIABLES
  pending,   \* pending_dx, pending_wheel
  owed,      \* history: what was accepted, minus what was sent, dropped or cut off
  mask,      \* button_mask
  seq,       \* button_seq
  cmd,       \* a BUTTON_CMD between its load and its store
  inj,       \* the injector
  ph,        \* the reader of the physical endpoint, with its report
  sub,       \* the threads of event.sock
  chan,      \* their buffers
  link,      \* the connection of the core: its subscriber and whether acknowledged
  buttons,   \* PhysicalMouseReader::buttons_
  used       \* how much of each bound is used

motion == <<pending, owed>>
relay  == <<sub, chan>>
core   == <<link, buttons>>
vars   == <<motion, mask, seq, cmd, inj, ph, relay, core, used>>

NoMotion == [a \in Axes |-> 0]

Init ==
  /\ pending = NoMotion /\ owed = NoMotion
  /\ mask = {} /\ seq = 0
  /\ cmd = [c \in Clients |-> [pc |-> "idle", cur |-> {}]]
  /\ inj = [pc |-> "idle", last |-> 0, seq |-> 0, step |-> NoMotion]
  /\ ph = [pc |-> "idle", shows |-> {}, step |-> NoMotion]
  /\ sub = [s \in Subs |-> [pc |-> "free", snap |-> {}]]
  /\ chan = [s \in Subs |-> <<>>]
  /\ link = [sub |-> NoSub, acked |-> FALSE] /\ buttons = {}
  /\ used = [moves |-> 0, commands |-> 0, reports |-> 0, refusals |-> 0, losses |-> 0]

Spend(what, max) == used[what] < max /\ used' = [used EXCEPT ![what] = @ + 1]
-----------------------------------------------------------------------------
(* Motion.                                                                 *)
Clip(x, max) == IF x > max THEN max ELSE IF x < -max THEN -max ELSE x

(* add_pending: what the saturation cuts off is gone.                      *)
AddPending(p, d) == [a \in Axes |-> Clip(p[a] + d[a], PendCap)]

StepOf(p)  == [a \in Axes |-> Clip(p[a], IF a = "wheel" THEN WheelMax ELSE StepMax)]
RestOf(p)  == [a \in Axes |-> Clip(p[a] - StepOf(p)[a],
                                   IF a = "wheel" THEN WheelMax ELSE Backlog)]
Minus(p, q) == [a \in Axes |-> p[a] - q[a]]

(* take_step: the exchange and the return of the rest are atomic for each  *)
(* axis, and whatever comes in between them adds up all the same.          *)
Take ==
  /\ pending' = RestOf(pending)
  /\ owed' = Minus(owed, Minus(Minus(pending, StepOf(pending)), RestOf(pending)))

(* Motion that could not be sent goes back, whole.                         *)
GiveBack(step) ==
  /\ pending' = AddPending(pending, step)
  /\ owed' = Minus(owed, Minus(Minus(step, pending'), Minus(NoMotion, pending)))

Sent(step) == owed' = Minus(owed, step) /\ UNCHANGED pending

(* MOVE_CMD, from the core or the console.                                 *)
Move(d) ==
  /\ Spend("moves", MaxMoves)
  /\ pending' = AddPending(pending, d)
  /\ owed' = Minus(owed, Minus(pending, pending'))
  /\ UNCHANGED <<mask, seq, cmd, inj, ph, relay, core>>
-----------------------------------------------------------------------------
(* BUTTON_CMD: the mask is loaded, changed and stored without a lock; then *)
(* the sequence number tells the injector.                                 *)
ButtonLoads(c) ==
  /\ cmd[c].pc = "idle" /\ Spend("commands", MaxCommands)
  /\ cmd' = [cmd EXCEPT ![c] = [pc |-> "store", cur |-> mask]]
  /\ UNCHANGED <<motion, mask, seq, inj, ph, relay, core>>

ButtonStores(c, b) ==
  /\ cmd[c].pc = "store"
  /\ mask' \in {cmd[c].cur \cup {b}, cmd[c].cur \ {b}}
  /\ cmd' = [cmd EXCEPT ![c] = [pc |-> "tell", cur |-> {}]]
  /\ UNCHANGED <<motion, seq, inj, ph, relay, core, used>>

ButtonTells(c) ==
  /\ cmd[c].pc = "tell" /\ seq' = seq + 1
  /\ cmd' = [cmd EXCEPT ![c] = [pc |-> "idle", cur |-> {}]]
  /\ UNCHANGED <<motion, mask, inj, ph, relay, core, used>>
-----------------------------------------------------------------------------
(* Mutant: a wheel alone does not wake the injector.                       *)
DueOnMotion == pending["move"] # 0 \/ seq # inj.last

Due == pending # NoMotion \/ seq # inj.last

(* The injector: one report per beat, when there is motion or a button     *)
(* changed; it reads the sequence number first.  The sink may be absent or *)
(* full; the motion then goes back.                                        *)
InjectorTakes ==
  /\ inj.pc = "idle" /\ Due
  /\ Take
  /\ inj' = [pc |-> "push", last |-> inj.last, seq |-> seq, step |-> StepOf(pending)]
  /\ UNCHANGED <<mask, seq, cmd, ph, relay, core, used>>

InjectorSends ==
  /\ inj.pc = "push"
  /\ Sent(inj.step)
  /\ inj' = [pc |-> "idle", last |-> inj.seq, seq |-> inj.seq, step |-> NoMotion]
  /\ UNCHANGED <<mask, seq, cmd, ph, relay, core, used>>

(* Mutant: only the motion goes back.                                      *)
WithoutWheel(step) == [step EXCEPT !["wheel"] = 0]

Refused(step) == step

InjectorRefused ==
  /\ inj.pc = "push" /\ Spend("refusals", MaxRefusals)
  /\ GiveBack(Refused(inj.step))
  /\ inj' = [pc |-> "idle", last |-> inj.last, seq |-> inj.seq, step |-> NoMotion]
  /\ UNCHANGED <<mask, seq, cmd, ph, relay, core>>
-----------------------------------------------------------------------------
(* A physical report: first mouse_control_notify_physical_report, whose    *)
(* events need the lock of the subscribers, then the merge.                *)
Report(bs) ==
  /\ ph.pc = "idle" /\ Spend("reports", MaxReports)
  /\ mask' = bs
  /\ ph' = [pc |-> IF bs = mask THEN "merge" ELSE "event", shows |-> bs, step |-> NoMotion]
  /\ UNCHANGED <<motion, seq, cmd, inj, relay, core>>

Message(kind, bs) == [kind |-> kind, shows |-> bs]

Listed == {s \in Subs : sub[s].pc \in {"listed", "send", "gone"}}
Heard(s) == link.sub = s

(* A send to a full buffer blocks, and with it the physical reports.       *)
Events ==
  /\ ph.pc = "event"
  /\ \A s \in Listed : Heard(s) => Len(chan[s]) < ChanMax
  /\ chan' = [s \in Subs |-> IF s \in Listed /\ Heard(s)
                             THEN Append(chan[s], Message("event", ph.shows)) ELSE chan[s]]
  /\ ph' = [ph EXCEPT !.pc = "merge"]
  /\ UNCHANGED <<motion, mask, seq, cmd, inj, sub, core, used>>

(* What a merge writes: nothing without X or Y, and the wheel only when    *)
(* its field is safe.  The rest goes back.                                 *)
Written(step) ==
  IF step["move"] = 0 THEN NoMotion
  ELSE IF WheelWritable THEN step ELSE [step EXCEPT !["wheel"] = 0]

Unwritten(step) == Minus(step, Written(step))

Merge ==
  /\ ph.pc = "merge" /\ Take
  /\ ph' = [pc |-> "write", shows |-> ph.shows, step |-> StepOf(pending)]
  /\ UNCHANGED <<mask, seq, cmd, inj, relay, core, used>>

(* Then the report enters the queue towards the host.                      *)
MergeWrites ==
  /\ ph.pc = "write"
  /\ LET back == Unwritten(ph.step)
     IN /\ pending' = AddPending(pending, back)
        /\ owed' = Minus(Minus(owed, Written(ph.step)),
                         Minus(Minus(back, pending'), Minus(NoMotion, pending)))
  /\ ph' = [pc |-> "idle", step |-> NoMotion, shows |-> {}]
  /\ UNCHANGED <<mask, seq, cmd, inj, relay, core, used>>
-----------------------------------------------------------------------------
(* event.sock, in the proxy: acknowledge, enter the list, then a snapshot  *)
(* every 100 ms, loaded and sent without the lock of the list.             *)
Step(s, from, to) == sub[s].pc = from /\ sub' = [sub EXCEPT ![s].pc = to]

Acknowledge(s) ==
  /\ Step(s, "asked", IF Heard(s) THEN "acked" ELSE "free")
  /\ chan' = IF Heard(s) THEN [chan EXCEPT ![s] = Append(@, Message("ack", {}))] ELSE chan
  /\ UNCHANGED <<motion, mask, seq, cmd, inj, ph, core, used>>

Enlist(s) ==
  /\ Step(s, "acked", "listed")
  /\ UNCHANGED <<motion, mask, seq, cmd, inj, ph, chan, core, used>>

SnapshotLoads(s) ==
  /\ sub[s].pc = "listed"
  /\ sub' = [sub EXCEPT ![s] = [pc |-> "send", snap |-> mask]]
  /\ UNCHANGED <<motion, mask, seq, cmd, inj, ph, chan, core, used>>

SnapshotSent(s) ==
  /\ sub[s].pc = "send" /\ (Heard(s) => Len(chan[s]) < ChanMax)
  /\ sub' = [sub EXCEPT ![s] = [pc |-> IF Heard(s) THEN "listed" ELSE "gone", snap |-> {}]]
  /\ chan' = IF Heard(s) THEN [chan EXCEPT ![s] = Append(@, Message("snapshot", sub[s].snap))] ELSE chan
  /\ UNCHANGED <<motion, mask, seq, cmd, inj, ph, core, used>>

(* The entry is erased under the lock, then the descriptor closed.         *)
Delist(s) ==
  /\ Step(s, "gone", "free")
  /\ UNCHANGED <<motion, mask, seq, cmd, inj, ph, chan, core, used>>
-----------------------------------------------------------------------------
(* PhysicalMouseReader: subscribe, wait for the acknowledgement, take every *)
(* mask; on an error or 500 ms of silence clear the buttons and start anew. *)
Subscribe(s) ==
  /\ link.sub = NoSub /\ Step(s, "free", "asked")
  /\ link' = [sub |-> s, acked |-> FALSE] /\ buttons' = {}
  /\ UNCHANGED <<motion, mask, seq, cmd, inj, ph, chan, used>>

(* Mutant: only button events count.                                       *)
EventsOnly(m) == IF m.kind = "event" THEN m.shows ELSE buttons

Taken(m) == IF m.kind = "ack" THEN buttons ELSE m.shows

Receive ==
  /\ link.sub # NoSub /\ chan[link.sub] # <<>>
  /\ LET m == Head(chan[link.sub])
     IN link' = [link EXCEPT !.acked = TRUE] /\ buttons' = Taken(m)
  /\ chan' = [chan EXCEPT ![link.sub] = Tail(@)]
  /\ UNCHANGED <<motion, mask, seq, cmd, inj, ph, sub, used>>

Lose ==
  /\ link.sub # NoSub /\ Spend("losses", MaxLosses)
  /\ chan' = [chan EXCEPT ![link.sub] = <<>>]
  /\ link' = [sub |-> NoSub, acked |-> FALSE] /\ buttons' = {}
  /\ UNCHANGED <<motion, mask, seq, cmd, inj, ph, sub>>
-----------------------------------------------------------------------------
InjectorNext == InjectorTakes \/ InjectorSends \/ InjectorRefused
EndpointNext == Events \/ Merge \/ MergeWrites
CommandNext(c) == ButtonTells(c) \/ \E b \in Buttons : ButtonStores(c, b)
RelayNext(s) ==
  Acknowledge(s) \/ Enlist(s) \/ SnapshotLoads(s) \/ SnapshotSent(s) \/ Delist(s)
CoreNext == Receive \/ \E s \in Subs : Subscribe(s)

Next ==
  \/ \E d \in Deltas : Move(d)
  \/ \E c \in Clients : ButtonLoads(c) \/ CommandNext(c)
  \/ InjectorNext \/ EndpointNext \/ (\E bs \in SUBSET Buttons : Report(bs))
  \/ \E s \in Subs : RelayNext(s)
  \/ CoreNext \/ Lose

Spec == Init /\ [][Next]_vars

(* Every thread runs; nothing makes a client or the mouse do anything.     *)
Fairness ==
  /\ WF_vars(InjectorNext) /\ WF_vars(EndpointNext) /\ WF_vars(CoreNext)
  /\ \A c \in Clients : WF_vars(CommandNext(c))
  /\ \A s \in Subs : WF_vars(RelayNext(s))
FairSpec == Spec /\ Fairness
-----------------------------------------------------------------------------
(* Two threads take motion away and give back what they could not send,    *)
(* while clients add to it: nothing is sent twice and nothing is lost but  *)
(* what the limits of the backlog and of the counter cut off.              *)
MotionConserved ==
  \A a \in Axes : owed[a] = pending[a] + inj.step[a] + ph.step[a]

(* What was accepted reaches the host, once the queue takes reports: also  *)
(* the wheel of a mouse that never stops reporting.                        *)
PendingDrains == <>[](pending = NoMotion /\ owed = NoMotion)

(* The core's view of the buttons catches up with the mask, whatever       *)
(* connections were lost and however events and snapshots overtook each    *)
(* other.                                                                  *)
ReaderCatchesUp == <>[](buttons = mask)
=============================================================================
