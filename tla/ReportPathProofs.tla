------------------------- MODULE ReportPathProofs -------------------------
(***************************************************************************)
(* What the aim thread and the two programs that pass reports on promise,  *)
(* for any clients, subscribers, limits, deltas, configurations and sizes  *)
(* of the ring.                                                            *)
(*                                                                         *)
(* MotionConserved of MouseControl.  Only motion matters: a step either    *)
(* leaves it alone or is one of seven ways to move it between what is      *)
(* pending and what the injector and the endpoint reader hold.             *)
(*                                                                         *)
(* RingDelivers of HidForward.  Every position from the first report that  *)
(* is still inside to the first one there is no room for has a slot of its *)
(* own, and the slot says of which position it is and whether it is        *)
(* published.                                                              *)
(*                                                                         *)
(* What AimControl keeps to one press.  Only a frame decides anything, so  *)
(* the invariant says what the last frame, the start of the thread and the *)
(* user leave behind for the next.                                         *)
(*                                                                         *)
(* What TargetSelector keeps its lock to.  Every way through select ends   *)
(* in a table of tracks, so each is a step from one sound table to the     *)
(* next.                                                                   *)
(*                                                                         *)
(* Which interface the injector writes to (HidLayout), for any sequence of *)
(* descriptors.                                                            *)
(***************************************************************************)
EXTENDS MouseControl, HidForward, AimControl, TargetSelector, FiniteSetTheorems, SequenceTheorems, TLAPS

(* The types of what the accounts are made of, and that a thread that has  *)
(* not taken a step holds none: the step it takes then replaces nothing.   *)
MotionTypes ==
  /\ pending \in Motions /\ owed \in Motions /\ seq \in Int
  /\ inj \in [pc : {"idle", "push"}, last : Int, seq : Int, step : Motions]
  /\ ph \in [pc : {"idle", "event", "merge", "write"}, shows : SUBSET Buttons, step : Motions]
EmptyHands ==
  /\ inj.pc = "idle" => inj.step = NoMotion
  /\ ph.pc # "write" => ph.step = NoMotion
IInv == MotionTypes /\ EmptyHands /\ MotionConserved
-----------------------------------------------------------------------------
(* Arithmetic of the steps, axis by axis. *)

LEMMA NoMotionType == NoMotion \in Motions /\ \A a \in Axes : NoMotion[a] = 0
  BY DEF NoMotion, Motions

LEMMA ClipType == ASSUME NEW x \in Int, NEW m \in Int PROVE Clip(x, m) \in Int
  BY DEF Clip

LEMMA MinusType ==
  ASSUME NEW p \in Motions, NEW q \in Motions
  PROVE  Minus(p, q) \in Motions /\ \A a \in Axes : Minus(p, q)[a] = p[a] - q[a]
  BY DEF Minus, Motions

LEMMA StepType == ASSUME NEW p \in Motions PROVE StepOf(p) \in Motions
<1>1. StepMax \in Int /\ WheelMax \in Int
  BY MotionAssumption
<1>2. ASSUME NEW a \in Axes
      PROVE  Clip(p[a], IF a = "wheel" THEN WheelMax ELSE StepMax) \in Int
  BY <1>1, ClipType DEF Motions
<1> QED BY <1>2 DEF StepOf, Motions

LEMMA RestType == ASSUME NEW p \in Motions PROVE RestOf(p) \in Motions
<1>1. Backlog \in Int /\ WheelMax \in Int
  BY MotionAssumption
<1>2. ASSUME NEW a \in Axes
      PROVE  Clip(p[a] - StepOf(p)[a], IF a = "wheel" THEN WheelMax ELSE Backlog) \in Int
  <2>1. p[a] - StepOf(p)[a] \in Int
    BY StepType DEF Motions
  <2>2. (IF a = "wheel" THEN WheelMax ELSE Backlog) \in Int
    BY <1>1
  <2> QED BY <2>1, <2>2, ClipType
<1> QED BY <1>2 DEF RestOf, Motions

LEMMA AddType == ASSUME NEW p \in Motions, NEW d \in Motions PROVE AddPending(p, d) \in Motions
<1>1. PendCap \in Int
  BY MotionAssumption
<1>2. ASSUME NEW a \in Axes PROVE Clip(p[a] + d[a], PendCap) \in Int
  BY <1>1, ClipType DEF Motions
<1> QED BY <1>2 DEF AddPending, Motions

LEMMA WrittenType ==
  ASSUME NEW step \in Motions
  PROVE  Written(step) \in Motions /\ Unwritten(step) \in Motions
<1>1. Written(step) \in Motions
  BY NoMotionType DEF Written, Motions, Axes
<1> QED BY <1>1, MinusType DEF Unwritten

(* Taking a step moves it into the hands of the taker; what the limit cuts *)
(* off leaves the accounts.                                                *)
LEMMA TakeMoves ==
  ASSUME pending \in Motions, owed \in Motions, Take
  PROVE  /\ pending' \in Motions /\ owed' \in Motions
         /\ \A a \in Axes : owed'[a] - pending'[a] = owed[a] - pending[a] + StepOf(pending)[a]
<1> DEFINE s == StepOf(pending)
           r == RestOf(pending)
           kept == Minus(pending, s)
           cut == Minus(kept, r)
<1>1. s \in Motions /\ r \in Motions
  BY StepType, RestType
<1>2. kept \in Motions /\ \A a \in Axes : kept[a] = pending[a] - s[a]
  BY <1>1, MinusType
<1>3. cut \in Motions /\ \A a \in Axes : cut[a] = kept[a] - r[a]
  BY <1>1, <1>2, MinusType
<1>4. pending' = r /\ owed' = Minus(owed, cut)
  BY DEF Take
<1>5. owed' \in Motions /\ \A a \in Axes : owed'[a] = owed[a] - cut[a]
  BY <1>3, <1>4, MinusType
<1>6. ASSUME NEW a \in Axes
      PROVE  owed'[a] - pending'[a] = owed[a] - pending[a] + s[a]
  <2>1. owed[a] \in Int /\ pending[a] \in Int /\ s[a] \in Int /\ r[a] \in Int
    BY <1>1 DEF Motions
  <2>2. owed'[a] = owed[a] - ((pending[a] - s[a]) - r[a]) /\ pending'[a] = r[a]
    BY <1>2, <1>3, <1>4, <1>5
  <2> QED BY <2>1, <2>2
<1> QED BY <1>1, <1>4, <1>5, <1>6

(* Giving back moves a step out of the hands of its taker. *)
LEMMA GiveBackMoves ==
  ASSUME pending \in Motions, owed \in Motions, NEW step \in Motions, GiveBack(step)
  PROVE  /\ pending' \in Motions /\ owed' \in Motions
         /\ \A a \in Axes : owed'[a] - pending'[a] = owed[a] - pending[a] - step[a]
<1> DEFINE over == Minus(step, pending')
           neg == Minus(NoMotion, pending)
           cut == Minus(over, neg)
<1>1. pending' \in Motions
  BY AddType DEF GiveBack
<1>2. over \in Motions /\ \A a \in Axes : over[a] = step[a] - pending'[a]
  BY <1>1, MinusType
<1>3. neg \in Motions /\ \A a \in Axes : neg[a] = 0 - pending[a]
  BY NoMotionType, MinusType
<1>4. cut \in Motions /\ \A a \in Axes : cut[a] = over[a] - neg[a]
  BY <1>2, <1>3, MinusType
<1>5. owed' = Minus(owed, cut)
  BY DEF GiveBack
<1>6. owed' \in Motions /\ \A a \in Axes : owed'[a] = owed[a] - cut[a]
  BY <1>4, <1>5, MinusType
<1>7. ASSUME NEW a \in Axes
      PROVE  owed'[a] - pending'[a] = owed[a] - pending[a] - step[a]
  <2>1. owed[a] \in Int /\ pending[a] \in Int /\ step[a] \in Int /\ pending'[a] \in Int
    BY <1>1 DEF Motions
  <2>2. owed'[a] = owed[a] - ((step[a] - pending'[a]) - (0 - pending[a]))
    BY <1>2, <1>3, <1>4, <1>6
  <2> QED BY <2>1, <2>2
<1> QED BY <1>1, <1>6, <1>7

LEMMA SentMoves ==
  ASSUME pending \in Motions, owed \in Motions, NEW step \in Motions, Sent(step)
  PROVE  /\ pending' = pending /\ owed' \in Motions
         /\ \A a \in Axes : owed'[a] = owed[a] - step[a]
  BY MinusType DEF Sent
-----------------------------------------------------------------------------
LEMMA InitInv == Init => IInv
<1> SUFFICES ASSUME Init PROVE IInv
  OBVIOUS
<1>1. pending = NoMotion /\ owed = NoMotion /\ inj.step = NoMotion /\ ph.step = NoMotion
  BY DEF Init
<1>2. MotionTypes
  BY NoMotionType DEF Init, MotionTypes
<1>3. EmptyHands
  BY <1>1 DEF EmptyHands
<1>4. MotionConserved
  BY <1>1, NoMotionType DEF MotionConserved
<1> QED BY <1>2, <1>3, <1>4 DEF IInv

(* What moves no motion. *)
LEMMA Apart ==
  ASSUME IInv, pending' = pending, owed' = owed, seq' \in Int, inj' = inj,
         ph' = ph \/ (ph'.pc # "write" /\ ph'.step = NoMotion /\ ph.step = NoMotion
                      /\ ph' \in [pc : {"idle", "event", "merge", "write"}, shows : SUBSET Buttons, step : Motions])
  PROVE  IInv'
<1>1. MotionTypes'
  BY DEF IInv, MotionTypes
<1>2. EmptyHands'
  BY DEF IInv, EmptyHands
<1>3. ph'.step = ph.step
  OBVIOUS
<1>4. MotionConserved'
  BY <1>3 DEF IInv, MotionConserved
<1> QED BY <1>1, <1>2, <1>4 DEF IInv

LEMMA MovePreserves == ASSUME IInv, NEW d \in Deltas, Move(d) PROVE IInv'
<1> DEFINE cut == Minus(pending, pending')
<1>1. pending \in Motions /\ owed \in Motions /\ d \in Motions
  BY MotionAssumption DEF IInv, MotionTypes
<1>2. pending' = AddPending(pending, d) /\ owed' = Minus(owed, cut)
      /\ inj' = inj /\ ph' = ph /\ seq' = seq
  BY DEF Move
<1>3. pending' \in Motions
  BY <1>1, <1>2, AddType
<1>4. cut \in Motions /\ \A a \in Axes : cut[a] = pending[a] - pending'[a]
  BY <1>1, <1>3, MinusType
<1>5. owed' \in Motions /\ \A a \in Axes : owed'[a] = owed[a] - cut[a]
  BY <1>1, <1>2, <1>4, MinusType
<1>6. MotionTypes' /\ EmptyHands'
  BY <1>2, <1>3, <1>5 DEF IInv, MotionTypes, EmptyHands
<1>7. ASSUME NEW a \in Axes PROVE owed'[a] = pending'[a] + inj'.step[a] + ph'.step[a]
  <2>1. pending[a] \in Int /\ pending'[a] \in Int /\ inj.step[a] \in Int /\ ph.step[a] \in Int
    BY <1>1, <1>3 DEF IInv, MotionTypes, Motions
  <2>2. owed[a] = pending[a] + inj.step[a] + ph.step[a]
    BY DEF IInv, MotionConserved
  <2>3. owed'[a] = owed[a] - (pending[a] - pending'[a])
    BY <1>4, <1>5
  <2> QED BY <1>2, <2>1, <2>2, <2>3
<1> QED BY <1>6, <1>7 DEF IInv, MotionConserved

LEMMA InjectorTakesPreserves == ASSUME IInv, InjectorTakes PROVE IInv'
<1>1. pending \in Motions /\ owed \in Motions /\ inj.step = NoMotion
  BY DEF IInv, MotionTypes, EmptyHands, InjectorTakes
<1>2. /\ pending' \in Motions /\ owed' \in Motions
      /\ \A a \in Axes : owed'[a] - pending'[a] = owed[a] - pending[a] + StepOf(pending)[a]
  BY <1>1, TakeMoves DEF InjectorTakes
<1>3. inj' = [pc |-> "push", last |-> inj.last, seq |-> seq, step |-> StepOf(pending)]
      /\ ph' = ph /\ seq' = seq
  BY DEF InjectorTakes
<1>4. StepOf(pending) \in Motions
  BY <1>1, StepType
<1>5. MotionTypes' /\ EmptyHands'
  BY <1>2, <1>3, <1>4 DEF IInv, MotionTypes, EmptyHands
<1>6. ASSUME NEW a \in Axes PROVE owed'[a] = pending'[a] + inj'.step[a] + ph'.step[a]
  <2>1. /\ pending[a] \in Int /\ owed[a] \in Int /\ pending'[a] \in Int /\ owed'[a] \in Int
        /\ ph.step[a] \in Int /\ StepOf(pending)[a] \in Int
    BY <1>1, <1>2, <1>4 DEF IInv, MotionTypes, Motions
  <2>2. owed[a] = pending[a] + 0 + ph.step[a]
    BY <1>1, NoMotionType DEF IInv, MotionConserved
  <2>3. inj'.step[a] = StepOf(pending)[a] /\ ph'.step[a] = ph.step[a]
    BY <1>3
  <2> QED BY <1>2, <2>1, <2>2, <2>3
<1> QED BY <1>5, <1>6 DEF IInv, MotionConserved

LEMMA InjectorSendsPreserves == ASSUME IInv, InjectorSends PROVE IInv'
<1>1. pending \in Motions /\ owed \in Motions /\ inj.step \in Motions
  BY DEF IInv, MotionTypes
<1>2. pending' = pending /\ owed' \in Motions /\ \A a \in Axes : owed'[a] = owed[a] - inj.step[a]
  BY <1>1, SentMoves DEF InjectorSends
<1>3. inj' = [pc |-> "idle", last |-> inj.seq, seq |-> inj.seq, step |-> NoMotion]
      /\ ph' = ph /\ seq' = seq
  BY DEF InjectorSends
<1>4. MotionTypes' /\ EmptyHands'
  BY <1>1, <1>2, <1>3, NoMotionType DEF IInv, MotionTypes, EmptyHands
<1>5. ASSUME NEW a \in Axes PROVE owed'[a] = pending'[a] + inj'.step[a] + ph'.step[a]
  <2>1. pending[a] \in Int /\ owed[a] \in Int /\ inj.step[a] \in Int /\ ph.step[a] \in Int
    BY <1>1 DEF IInv, MotionTypes, Motions
  <2>2. owed[a] = pending[a] + inj.step[a] + ph.step[a]
    BY DEF IInv, MotionConserved
  <2>3. inj'.step[a] = 0 /\ ph'.step[a] = ph.step[a]
    BY <1>3, NoMotionType
  <2> QED BY <1>2, <2>1, <2>2, <2>3
<1> QED BY <1>4, <1>5 DEF IInv, MotionConserved

LEMMA InjectorRefusedPreserves == ASSUME IInv, InjectorRefused PROVE IInv'
<1>1. pending \in Motions /\ owed \in Motions /\ inj.step \in Motions
  BY DEF IInv, MotionTypes
<1>2. /\ pending' \in Motions /\ owed' \in Motions
      /\ \A a \in Axes : owed'[a] - pending'[a] = owed[a] - pending[a] - inj.step[a]
  BY <1>1, GiveBackMoves DEF InjectorRefused, Refused
<1>3. inj' = [pc |-> "idle", last |-> inj.last, seq |-> inj.seq, step |-> NoMotion]
      /\ ph' = ph /\ seq' = seq
  BY DEF InjectorRefused
<1>4. MotionTypes' /\ EmptyHands'
  BY <1>2, <1>3, NoMotionType DEF IInv, MotionTypes, EmptyHands
<1>5. ASSUME NEW a \in Axes PROVE owed'[a] = pending'[a] + inj'.step[a] + ph'.step[a]
  <2>1. /\ pending[a] \in Int /\ owed[a] \in Int /\ inj.step[a] \in Int /\ ph.step[a] \in Int
        /\ pending'[a] \in Int /\ owed'[a] \in Int
    BY <1>1, <1>2 DEF IInv, MotionTypes, Motions
  <2>2. owed[a] = pending[a] + inj.step[a] + ph.step[a]
    BY DEF IInv, MotionConserved
  <2>3. inj'.step[a] = 0 /\ ph'.step[a] = ph.step[a]
    BY <1>3, NoMotionType
  <2> QED BY <1>2, <2>1, <2>2, <2>3
<1> QED BY <1>4, <1>5 DEF IInv, MotionConserved

LEMMA MergePreserves == ASSUME IInv, Merge PROVE IInv'
<1>1. pending \in Motions /\ owed \in Motions /\ ph.step = NoMotion
  BY DEF IInv, MotionTypes, EmptyHands, Merge
<1>2. /\ pending' \in Motions /\ owed' \in Motions
      /\ \A a \in Axes : owed'[a] - pending'[a] = owed[a] - pending[a] + StepOf(pending)[a]
  BY <1>1, TakeMoves DEF Merge
<1>3. ph' = [pc |-> "write", shows |-> ph.shows, step |-> StepOf(pending)]
      /\ inj' = inj /\ seq' = seq
  BY DEF Merge
<1>4. StepOf(pending) \in Motions
  BY <1>1, StepType
<1>5. MotionTypes' /\ EmptyHands'
  BY <1>2, <1>3, <1>4 DEF IInv, MotionTypes, EmptyHands
<1>6. ASSUME NEW a \in Axes PROVE owed'[a] = pending'[a] + inj'.step[a] + ph'.step[a]
  <2>1. /\ pending[a] \in Int /\ owed[a] \in Int /\ pending'[a] \in Int /\ owed'[a] \in Int
        /\ inj.step[a] \in Int /\ StepOf(pending)[a] \in Int
    BY <1>1, <1>2, <1>4 DEF IInv, MotionTypes, Motions
  <2>2. owed[a] = pending[a] + inj.step[a] + 0
    BY <1>1, NoMotionType DEF IInv, MotionConserved
  <2>3. ph'.step[a] = StepOf(pending)[a] /\ inj'.step[a] = inj.step[a]
    BY <1>3
  <2>4. owed'[a] - pending'[a] = owed[a] - pending[a] + StepOf(pending)[a]
    BY <1>2
  <2> QED BY <2>1, <2>2, <2>3, <2>4
<1> QED BY <1>5, <1>6 DEF IInv, MotionConserved

LEMMA MergeWritesPreserves == ASSUME IInv, MergeWrites PROVE IInv'
<1> DEFINE put == Written(ph.step)
           back == Unwritten(ph.step)
           over == Minus(back, pending')
           neg == Minus(NoMotion, pending)
           cut == Minus(over, neg)
           rest == Minus(owed, put)
<1>1. pending \in Motions /\ owed \in Motions /\ ph.step \in Motions
  BY DEF IInv, MotionTypes
<1>2. put \in Motions /\ back \in Motions /\ \A a \in Axes : back[a] = ph.step[a] - put[a]
  <2>1. put \in Motions /\ back \in Motions
    BY <1>1, WrittenType
  <2> QED BY <1>1, <2>1, MinusType DEF Unwritten
<1>3. pending' = AddPending(pending, back) /\ owed' = Minus(rest, cut)
      /\ ph' = [pc |-> "idle", step |-> NoMotion, shows |-> {}]
      /\ inj' = inj /\ seq' = seq
  BY DEF MergeWrites
<1>4. pending' \in Motions
  BY <1>1, <1>2, <1>3, AddType
<1>5. over \in Motions /\ \A a \in Axes : over[a] = back[a] - pending'[a]
  BY <1>2, <1>4, MinusType
<1>6. neg \in Motions /\ \A a \in Axes : neg[a] = 0 - pending[a]
  BY <1>1, NoMotionType, MinusType
<1>7. cut \in Motions /\ \A a \in Axes : cut[a] = over[a] - neg[a]
  BY <1>5, <1>6, MinusType
<1>8. rest \in Motions /\ \A a \in Axes : rest[a] = owed[a] - put[a]
  BY <1>1, <1>2, MinusType
<1>9. owed' \in Motions /\ \A a \in Axes : owed'[a] = rest[a] - cut[a]
  BY <1>3, <1>7, <1>8, MinusType
<1>10. MotionTypes' /\ EmptyHands'
  BY <1>3, <1>4, <1>9, NoMotionType DEF IInv, MotionTypes, EmptyHands
<1>11. ASSUME NEW a \in Axes PROVE owed'[a] = pending'[a] + inj'.step[a] + ph'.step[a]
  <2>1. /\ pending[a] \in Int /\ owed[a] \in Int /\ inj.step[a] \in Int /\ ph.step[a] \in Int
        /\ pending'[a] \in Int /\ put[a] \in Int
    BY <1>1, <1>2, <1>4 DEF IInv, MotionTypes, Motions
  <2>2. owed[a] = pending[a] + inj.step[a] + ph.step[a]
    BY DEF IInv, MotionConserved
  <2>3. owed'[a] = (owed[a] - put[a]) - (((ph.step[a] - put[a]) - pending'[a]) - (0 - pending[a]))
    BY <1>2, <1>5, <1>6, <1>7, <1>8, <1>9
  <2>4. inj'.step[a] = inj.step[a] /\ ph'.step[a] = 0
    BY <1>3, NoMotionType
  <2> QED BY <2>1, <2>2, <2>3, <2>4
<1> QED BY <1>10, <1>11 DEF IInv, MotionConserved

(* The physical report and its events hold no motion yet. *)
LEMMA ReportPreserves ==
  ASSUME IInv, Events \/ \E bs \in SUBSET Buttons : Report(bs)
  PROVE  IInv'
<1>1. ph.pc # "write" /\ ph.step = NoMotion
  BY DEF IInv, EmptyHands, Events, Report
<1>2. pending' = pending /\ owed' = owed /\ seq' = seq /\ inj' = inj /\ seq \in Int
  BY DEF IInv, MotionTypes, Events, Report, motion
<1>3. /\ ph'.pc # "write" /\ ph'.step = NoMotion
      /\ ph' \in [pc : {"idle", "event", "merge", "write"}, shows : SUBSET Buttons, step : Motions]
  <2>1. CASE Events
    <3>1. ph' = [ph EXCEPT !.pc = "merge"] /\ ph \in [pc : {"idle", "event", "merge", "write"}, shows : SUBSET Buttons, step : Motions]
      BY <2>1 DEF Events, IInv, MotionTypes
    <3> QED BY <1>1, <3>1
  <2>2. CASE \E bs \in SUBSET Buttons : Report(bs)
    BY <2>2, NoMotionType DEF Report
  <2> QED BY <2>1, <2>2
<1> QED BY <1>1, <1>2, <1>3, Apart

(* Commands, the relay of events and the core's reader move no motion. *)
LEMMA OthersPreserve ==
  ASSUME IInv,
         \/ \E c \in Clients : ButtonLoads(c) \/ CommandNext(c)
         \/ \E s \in Subs : RelayNext(s)
         \/ CoreNext \/ Lose
         \/ UNCHANGED vars
  PROVE  IInv'
<1>1. seq \in Int
  BY DEF IInv, MotionTypes
<1>2. CASE \E c \in Clients : ButtonLoads(c) \/ CommandNext(c)
  <2>1. pending' = pending /\ owed' = owed /\ inj' = inj /\ ph' = ph /\ (seq' = seq \/ seq' = seq + 1)
    BY <1>2 DEF ButtonLoads, CommandNext, ButtonTells, ButtonStores, motion
  <2> QED BY <1>1, <2>1, Apart
<1>3. CASE \E s \in Subs : RelayNext(s)
  <2>1. pending' = pending /\ owed' = owed /\ inj' = inj /\ ph' = ph /\ seq' = seq
    BY <1>3 DEF RelayNext, Acknowledge, Enlist, SnapshotLoads, SnapshotSent, Delist, motion
  <2> QED BY <1>1, <2>1, Apart
<1>4. CASE CoreNext \/ Lose
  <2>1. pending' = pending /\ owed' = owed /\ inj' = inj /\ ph' = ph /\ seq' = seq
    BY <1>4 DEF CoreNext, Receive, Subscribe, Lose, motion
  <2> QED BY <1>1, <2>1, Apart
<1>5. CASE UNCHANGED vars
  <2>1. pending' = pending /\ owed' = owed /\ inj' = inj /\ ph' = ph /\ seq' = seq
    BY <1>5 DEF vars, motion
  <2> QED BY <1>1, <2>1, Apart
<1> QED BY <1>2, <1>3, <1>4, <1>5

LEMMA NextInv == IInv /\ [Next]_vars => IInv'
<1> SUFFICES ASSUME IInv, [Next]_vars PROVE IInv'
  OBVIOUS
<1>1. CASE \E d \in Deltas : Move(d)
  BY <1>1, MovePreserves
<1>2. CASE InjectorNext
  BY <1>2, InjectorTakesPreserves, InjectorSendsPreserves, InjectorRefusedPreserves DEF InjectorNext
<1>3. CASE Merge
  BY <1>3, MergePreserves
<1>4. CASE MergeWrites
  BY <1>4, MergeWritesPreserves
<1>5. CASE Events \/ \E bs \in SUBSET Buttons : Report(bs)
  BY <1>5, ReportPreserves
<1>6. CASE \/ \E c \in Clients : ButtonLoads(c) \/ CommandNext(c)
           \/ \E s \in Subs : RelayNext(s)
           \/ CoreNext \/ Lose
           \/ UNCHANGED vars
  BY <1>6, OthersPreserve
<1> QED BY <1>1, <1>2, <1>3, <1>4, <1>5, <1>6 DEF Next, EndpointNext

(* Whatever the limits, clients, subscribers and interleavings of the      *)
(* injector, the endpoint reader and the commands: no motion is sent twice *)
(* or lost (take_step and return_pending of mouse_control.cpp).            *)
THEOREM MotionIsConserved == Spec => []MotionConserved
<1>1. IInv => MotionConserved
  BY DEF IInv
<1> QED BY InitInv, NextInv, <1>1, PTL DEF Spec

-----------------------------------------------------------------------------
(* Arithmetic of the slots: positions less than N apart have different     *)
(* slots, positions N apart the same.                                      *)
LEMMA DivMod == ASSUME N \in Nat, N > 1, NEW a \in Int
  PROVE a = N * (a \div N) + (a % N) /\ a % N \in 0 .. N - 1 /\ a \div N \in Int
  OBVIOUS
LEMMA Mult == ASSUME N \in Nat, N > 1, NEW k \in Int PROVE (k >= 1 => N * k >= N) /\ (k <= 0 => N * k <= 0)
  OBVIOUS
LEMMA Distribute == ASSUME N \in Nat, N > 1, NEW x \in Int, NEW y \in Int PROVE N * (x - y) = N * x - N * y
  OBVIOUS
LEMMA ModDistinct == ASSUME N \in Nat, N > 1, NEW a \in Int, NEW b \in Int, 0 < a - b, a - b < N
  PROVE a % N # b % N
<1> DEFINE x == a \div N
           y == b \div N
<1>1. SUFFICES ASSUME a % N = b % N PROVE FALSE
  OBVIOUS
<1>2. x \in Int /\ y \in Int /\ a = N * x + (a % N) /\ b = N * y + (b % N) /\ a % N \in Int /\ b % N \in Int
  BY DivMod
<1>3. x - y \in Int
  BY <1>2
<1>4. N * (x - y) = N * x - N * y
  BY <1>2, Distribute
<1> HIDE DEF x, y
<1>6. N * x \in Int /\ N * y \in Int
  BY <1>2
<1>7. a - b = N * (x - y)
  BY <1>1, <1>2, <1>4, <1>6
<1>8. CASE x - y >= 1
  <2>1. N * (x - y) >= N
    BY <1>3, <1>8, Mult
  <2> QED BY <1>7, <2>1
<1>9. CASE x - y <= 0
  <2>1. N * (x - y) <= 0
    BY <1>3, <1>9, Mult
  <2> QED BY <1>7, <2>1
<1> QED BY <1>3, <1>8, <1>9
LEMMA ModUnique == ASSUME N \in Nat, N > 1, NEW a \in Int, NEW q \in Int, NEW r \in 0 .. N - 1, a = N * q + r
  PROVE r = a % N
<1> DEFINE x == a \div N
           m == a % N
<1>1. x \in Int /\ m \in 0 .. N - 1 /\ a = N * x + m
  BY DivMod
<1> HIDE DEF x, m
<1>2. N * (x - q) = N * x - N * q /\ x - q \in Int /\ N * x \in Int /\ N * q \in Int
  BY <1>1, Distribute
<1>3. N * (x - q) = r - m
  BY <1>1, <1>2
<1>4. CASE x - q >= 1
  <2>1. N * (x - q) >= N
    BY <1>2, <1>4, Mult
  <2> QED BY <1>1, <1>3, <2>1
<1>5. CASE x - q <= -1
  <2>1. N * (q - x) >= N /\ N * (q - x) = N * q - N * x
    <3>1. q - x \in Int /\ q - x >= 1
      BY <1>2, <1>5, <1>1
    <3> QED BY <3>1, Mult, Distribute, <1>1
  <2> QED BY <1>1, <1>2, <1>3, <2>1
<1>6. CASE x - q = 0
  <2>1. N * (x - q) = 0
    BY <1>6
  <2>2. r = m
    BY <1>1, <1>3, <2>1
  <2> QED BY <2>2 DEF m
<1> QED BY <1>2, <1>4, <1>5, <1>6
LEMMA ModPlus == ASSUME N \in Nat, N > 1, NEW a \in Int PROVE (a + N) % N = a % N
<1> DEFINE x == a \div N
           m == a % N
<1>1. x \in Int /\ m \in 0 .. N - 1 /\ a = N * x + m
  BY DivMod
<1>2. a + N \in Int /\ N * (x + 1) = N * x + N /\ N * x \in Int
  BY <1>1
<1> HIDE DEF x, m
<1>3. a + N = N * (x + 1) + m /\ x + 1 \in Int
  BY <1>1, <1>2
<1>4. m = (a + N) % N
  BY <1>1, <1>2, <1>3, ModUnique
<1> QED BY <1>4 DEF m


-----------------------------------------------------------------------------
Reports == [n : Nat, layout : Layouts] \cup {Nothing}
Slots == 0 .. N - 1
In == Len(accepted)
Out == Len(delivered)

HidTypes == /\ rx \in {"none", "open", "poll", "push", "copy", "publish", "advance", "depth", "ended"}
         /\ tx \in {"none", "open", "loop", "copy", "release", "advance", "write", "ended"}
         /\ head \in Nat /\ tail \in Nat /\ sent \in Nat
         /\ slotSeq \in [Slots -> Int] /\ data \in [Slots -> Reports]
         /\ rep \in Reports /\ taken \in Reports
         /\ accepted \in Seq(Reports) /\ delivered \in Seq(Reports)

(* Each counter is the number of reports its thread has handed over; it    *)
(* lags by one between the hand-over and the increment.                    *)
Counters == /\ head = (IF rx = "advance" THEN In - 1 ELSE In)
            /\ tail = (IF tx = "advance" THEN Out - 1 ELSE Out)
            /\ Out <= In /\ In <= Out + N

(* The slots of the N positions the two threads can be about to use.       *)
Window == \A p \in Out .. (Out + N - 1) :
              IF p < In THEN slotSeq[Slot(p)] = p + 1 /\ data[Slot(p)] = accepted[p + 1]
                        ELSE slotSeq[Slot(p)] = p

Receiving == /\ rx \in {"copy", "publish"} => In < Out + N
             /\ rx = "publish" => data[Slot(In)] = rep

Sending == /\ tx \in {"copy", "release"} => Out < In
           /\ tx = "release" => taken = accepted[Out + 1]

(* Before the start there are no threads.                                  *)
Idle == main = "start" => rx = "none" /\ tx = "none"

Prefix == \A i \in 1 .. Out : delivered[i] = accepted[i]

HidInv == HidTypes /\ Counters /\ Window /\ Receiving /\ Sending /\ Prefix

-----------------------------------------------------------------------------
LEMMA SlotOf == ASSUME NEW p \in Int PROVE Slot(p) \in Slots
  BY DivMod, HidAssumption DEF Slot, Slots

LEMMA SlotsDiffer ==
  ASSUME NEW p \in Int, NEW q \in Int, p # q, p - q < N, q - p < N
  PROVE  Slot(p) # Slot(q)
<1> USE HidAssumption
<1>1. CASE p > q
  <2>1. 0 < p - q
    BY <1>1
  <2>2. (p % N) # (q % N)
    BY <2>1, ModDistinct
  <2> QED BY <2>2 DEF Slot
<1>2. CASE q > p
  <2>1. 0 < q - p
    BY <1>2
  <2>2. (q % N) # (p % N)
    BY <2>1, ModDistinct
  <2> QED BY <2>2 DEF Slot
<1> QED BY <1>1, <1>2

LEMMA SlotRepeats == ASSUME NEW p \in Int PROVE Slot(p + N) = Slot(p)
  BY ModPlus, HidAssumption DEF Slot

LEMMA HidInitInv == ASSUME HidInit PROVE HidInv
<1> USE HidAssumption DEF HidInit, Slots, In, Out
<1>1. HidTypes
  BY DEF HidTypes, Reports
<1>2. Counters
  BY DEF Counters
<1>3. Window
  <2> SUFFICES ASSUME NEW p \in Out .. (Out + N - 1) PROVE ~(p < In) /\ slotSeq[Slot(p)] = p
    BY DEF Window
  <2>1. p \in Int /\ Slot(p) \in Slots /\ ~(p < In) /\ p \in 0 .. N - 1
    BY SlotOf
  <2>2. p = N * 0 + p
    BY <2>1
  <2>3. Slot(p) = p
    BY <2>1, <2>2, ModUnique DEF Slot
  <2> QED BY <2>1, <2>3
<1>4. Receiving /\ Sending /\ Prefix
  BY DEF Receiving, Sending, Prefix
<1> QED BY <1>1, <1>2, <1>3, <1>4 DEF HidInv

(* A step that leaves the ring and the histories alone keeps what is said  *)
(* of them; what it says of its own thread is shown step by step.          *)
LEMMA RingUnchanged ==
  ASSUME Window, Prefix, UNCHANGED <<slotSeq, data, accepted, delivered>>
  PROVE  Window' /\ Prefix'
  BY DEF Window, Prefix, In, Out

(* The receiving thread.                                                   *)
LEMMA RxPushInv == ASSUME HidInv, RxPush PROVE HidInv'
<1> USE HidAssumption DEF HidInv, RxPush, RxGoes, ring
<1>1. head = In /\ In \in Nat /\ Out \in Nat /\ In' = In /\ Out' = Out /\ Slot(In) \in Slots
  BY SlotOf DEF HidTypes, Counters, In, Out
<1>2. HidTypes'
  BY DEF HidTypes, Reports
<1>3. Counters'
  BY DEF Counters, In, Out
<1>4. CASE slotSeq[Slot(head)] = head
  <2>1. In < Out + N
    <3>1. SUFFICES ASSUME In = Out + N PROVE FALSE
      BY <1>1 DEF Counters
    <3>2. Out \in Out .. (Out + N - 1) /\ Out < In /\ Out + 1 # In
      BY <1>1, <3>1
    <3>3. slotSeq[Slot(Out)] = Out + 1
      BY <3>2 DEF Window
    <3>4. Slot(In) = Slot(Out)
      BY <3>1, <1>1, SlotRepeats
    <3> QED BY <1>1, <1>4, <3>2, <3>3, <3>4
  <2>2. Window'
    <3> SUFFICES ASSUME NEW p \in Out .. (Out + N - 1)
                 PROVE  (IF p < In THEN slotSeq[Slot(p)] = p + 1 /\ data[Slot(p)] = accepted[p + 1]
                                   ELSE slotSeq[Slot(p)] = p)'
      BY <1>1 DEF Window
    <3>1. IF p < In THEN slotSeq[Slot(p)] = p + 1 /\ data[Slot(p)] = accepted[p + 1]
                    ELSE slotSeq[Slot(p)] = p
      BY DEF Window
    <3>2. p \in Int /\ Slot(p) \in Slots
      BY <1>1, SlotOf
    <3>3. CASE p < In
      <4>1. p # In /\ p - In < N /\ In - p < N
        BY <1>1, <2>1, <3>2, <3>3
      <4>2. Slot(p) # Slot(In)
        BY <4>1, <1>1, <3>2, SlotsDiffer
      <4>3. data'[Slot(p)] = data[Slot(p)]
        BY <1>1, <3>2, <4>2 DEF HidTypes
      <4> QED BY <1>1, <3>1, <3>3, <4>3 DEF Slot
    <3>4. CASE ~(p < In)
      BY <1>1, <3>1, <3>4 DEF Slot
    <3> QED BY <3>3, <3>4
  <2>3. Receiving' /\ Sending' /\ Prefix'
    BY <1>1, <1>4, <2>1 DEF Receiving, Sending, Prefix, In, Out
  <2> QED BY <1>2, <1>3, <2>2, <2>3
<1>5. CASE slotSeq[Slot(head)] # head
  <2>1. Window' /\ Prefix'
    BY <1>5, RingUnchanged
  <2>2. Receiving' /\ Sending'
    BY <1>1, <1>5 DEF Receiving, Sending, Out, In
  <2> QED BY <1>2, <1>3, <2>1, <2>2
<1> QED BY <1>4, <1>5

LEMMA RxCopyInv == ASSUME HidInv, RxCopy PROVE HidInv'
<1> USE HidAssumption DEF HidInv, RxCopy, RxGoes
<1>1. head = In /\ In \in Nat /\ Out \in Nat /\ In' = In /\ Out' = Out
      /\ Slot(In) \in Slots /\ In < Out + N
  BY SlotOf DEF HidTypes, Counters, Receiving, In, Out
<1>2. HidTypes'
  BY DEF HidTypes
<1>3. Counters'
  BY DEF Counters, In, Out
<1>4. Window'
  <2> SUFFICES ASSUME NEW p \in Out .. (Out + N - 1)
               PROVE  (IF p < In THEN slotSeq[Slot(p)] = p + 1 /\ data[Slot(p)] = accepted[p + 1]
                                 ELSE slotSeq[Slot(p)] = p)'
    BY <1>1 DEF Window
  <2>1. IF p < In THEN slotSeq[Slot(p)] = p + 1 /\ data[Slot(p)] = accepted[p + 1]
                  ELSE slotSeq[Slot(p)] = p
    BY DEF Window
  <2>2. p \in Int /\ Slot(p) \in Slots
    BY <1>1, SlotOf
  <2>3. CASE p < In
    <3>1. p # In /\ p - In < N /\ In - p < N
      BY <1>1, <2>2, <2>3
    <3>2. Slot(p) # Slot(In)
      BY <3>1, <1>1, <2>2, SlotsDiffer
    <3>3. data'[Slot(p)] = data[Slot(p)]
      BY <1>1, <2>2, <3>2 DEF HidTypes
    <3> QED BY <1>1, <2>1, <2>3, <3>3 DEF Slot
  <2>4. CASE ~(p < In)
    BY <1>1, <2>1, <2>4 DEF Slot
  <2> QED BY <2>3, <2>4
<1>5. data'[Slot(In)] = rep' /\ Slot(In)' = Slot(In)
  BY <1>1 DEF HidTypes, Slot
<1>6. Receiving' /\ Sending' /\ Prefix'
  BY <1>1, <1>5 DEF Receiving, Sending, Prefix, Out, In, Slot
<1> QED BY <1>2, <1>3, <1>4, <1>6

LEMMA RxPublishInv == ASSUME HidInv, RxPublish PROVE HidInv'
<1> USE HidAssumption DEF HidInv, RxPublish, RxGoes
<1>1. head = In /\ In \in Nat /\ Out \in Nat /\ In' = In + 1 /\ Out' = Out
      /\ Slot(In) \in Slots /\ In < Out + N /\ Out <= In /\ data[Slot(In)] = rep
  BY SlotOf DEF HidTypes, Counters, Receiving, In, Out
<1>2. HidTypes'
  <2>1. head + 1 \in Int
    BY <1>1
  <2>2. slotSeq' \in [Slots -> Int]
    BY <2>1 DEF HidTypes
  <2>3. accepted' \in Seq(Reports)
    BY DEF HidTypes
  <2> QED BY <2>2, <2>3 DEF HidTypes
<1>3. Counters'
  BY <1>1 DEF Counters
<1>4. accepted'[In + 1] = rep /\ \A i \in 1 .. In : accepted'[i] = accepted[i]
  BY DEF HidTypes, In
<1>5. Window'
  <2> SUFFICES ASSUME NEW p \in Out .. (Out + N - 1)
               PROVE  IF p < In + 1 THEN slotSeq'[Slot(p)] = p + 1 /\ data[Slot(p)] = accepted'[p + 1]
                                    ELSE slotSeq'[Slot(p)] = p
    BY <1>1 DEF Window, Slot
  <2>1. IF p < In THEN slotSeq[Slot(p)] = p + 1 /\ data[Slot(p)] = accepted[p + 1]
                  ELSE slotSeq[Slot(p)] = p
    BY DEF Window
  <2>2. p \in Int /\ Slot(p) \in Slots
    BY <1>1, SlotOf
  <2>3. CASE p = In
    <3>1. slotSeq'[Slot(p)] = p + 1
      BY <1>1, <2>2, <2>3 DEF HidTypes
    <3>2. data[Slot(p)] = accepted'[p + 1]
      BY <1>1, <1>4, <2>3
    <3>3. p < In + 1
      BY <1>1, <2>3
    <3> QED BY <3>1, <3>2, <3>3
  <2>4. CASE p # In
    <3>1. p - In < N /\ In - p < N
      BY <1>1, <2>2
    <3>2. Slot(p) # Slot(In)
      BY <2>4, <3>1, <1>1, <2>2, SlotsDiffer
    <3>3. slotSeq'[Slot(p)] = slotSeq[Slot(p)]
      BY <1>1, <2>2, <3>2 DEF HidTypes
    <3>4. p < In => p + 1 \in 1 .. In
      BY <1>1, <2>2
    <3>5. p < In => accepted'[p + 1] = accepted[p + 1]
      BY <3>4, <1>4
    <3>6. p < In <=> p < In + 1
      BY <1>1, <2>2, <2>4
    <3> QED BY <2>1, <3>3, <3>5, <3>6
  <2> QED BY <2>3, <2>4
<1>6. Receiving'
  BY DEF Receiving
<1>7. Sending'
  <2>1. Out < In => Out + 1 \in 1 .. In
    BY <1>1
  <2>2. Out < In => accepted'[Out + 1] = accepted[Out + 1]
    BY <2>1, <1>4
  <2>3. tx' = tx /\ taken' = taken /\ (Out < In => Out < In + 1)
    BY <1>1
  <2> QED BY <1>1, <2>2, <2>3 DEF Sending
<1>8. Prefix'
  <2> SUFFICES ASSUME NEW i \in 1 .. Out PROVE delivered[i] = accepted'[i]
    BY <1>1 DEF Prefix
  <2>1. i \in 1 .. In
    BY <1>1 DEF Counters
  <2> QED BY <2>1, <1>4 DEF Prefix
<1> QED BY <1>2, <1>3, <1>5, <1>6, <1>7, <1>8

LEMMA RxOtherInv ==
  ASSUME HidInv,
         RxOpen \/ RxOpenFails \/ RxSeesStop \/ RxRead \/ RxReadFails \/ RxAdvance \/ RxDepth
  PROVE  HidInv'
<1> USE HidAssumption DEF HidInv, RxGoes, Fault, ring
<1> USE DEF RxOpen, RxOpenFails, RxSeesStop, RxRead, RxReadFails, RxAdvance, RxDepth
<1>1. UNCHANGED <<slotSeq, data, accepted, delivered, tx, tail, taken>>
      /\ rx' \notin {"copy", "publish", "advance"} /\ rx # "publish"
  OBVIOUS
<1>2. Window' /\ Prefix'
  BY <1>1, RingUnchanged
<1>3. Receiving' /\ Sending'
  BY <1>1 DEF Receiving, Sending, Out, In
<1>4. In' = In /\ Out' = Out /\ In \in Nat /\ Out \in Nat
  BY <1>1 DEF HidTypes, In, Out
<1>5. Counters'
  BY <1>4 DEF Counters, HidTypes
<1>6. rep' \in Reports /\ sent' \in Nat
  BY DEF HidTypes, Reports, HidReport
<1>7. HidTypes'
  BY <1>6 DEF HidTypes
<1> QED BY <1>2, <1>3, <1>5, <1>7

(* The sending thread.                                                     *)
LEMMA TxTakeInv == ASSUME HidInv, TxTake PROVE HidInv'
<1> USE HidAssumption DEF HidInv, TxTake, TxGoes, ring
<1>1. tail = Out /\ In \in Nat /\ Out \in Nat /\ In' = In /\ Out' = Out
      /\ Out \in Out .. (Out + N - 1)
  BY DEF HidTypes, Counters, In, Out
<1>2. Out < In
  BY <1>1 DEF Window
<1>3. Window' /\ Prefix'
  BY RingUnchanged
<1>4. HidTypes' /\ Counters'
  BY DEF HidTypes, Counters, In, Out
<1>5. Receiving' /\ Sending'
  BY <1>1, <1>2 DEF Receiving, Sending, Slot
<1> QED BY <1>3, <1>4, <1>5

LEMMA TxCopyInv == ASSUME HidInv, TxCopy PROVE HidInv'
<1> USE HidAssumption DEF HidInv, TxCopy, TxGoes, ring
<1>1. tail = Out /\ In \in Nat /\ Out \in Nat /\ In' = In /\ Out' = Out
      /\ Out \in Out .. (Out + N - 1) /\ Out < In /\ Slot(Out) \in Slots
  BY SlotOf DEF HidTypes, Counters, Sending, In, Out
<1>2. taken' = accepted[Out + 1] /\ data[Slot(Out)] \in Reports
  BY <1>1 DEF Window, HidTypes
<1>3. Window' /\ Prefix'
  BY RingUnchanged
<1>4. HidTypes' /\ Counters'
  BY <1>1, <1>2 DEF HidTypes, Counters, In, Out
<1>5. Receiving' /\ Sending'
  BY <1>1, <1>2 DEF Receiving, Sending, Slot
<1> QED BY <1>3, <1>4, <1>5

LEMMA TxReleaseInv == ASSUME HidInv, TxRelease PROVE HidInv'
<1> USE HidAssumption DEF HidInv, TxRelease, TxGoes
<1>1. tail = Out /\ In \in Nat /\ Out \in Nat /\ In' = In /\ Out' = Out + 1
      /\ Out < In /\ In <= Out + N /\ Slot(Out) \in Slots /\ taken = accepted[Out + 1]
  BY SlotOf DEF HidTypes, Counters, Sending, In, Out
<1>2. HidTypes'
  <2>1. tail + N \in Int
    BY <1>1
  <2>2. slotSeq' \in [Slots -> Int]
    BY <2>1 DEF HidTypes
  <2>3. delivered' \in Seq(Reports)
    BY DEF HidTypes
  <2> QED BY <2>2, <2>3 DEF HidTypes
<1>3. Counters'
  BY <1>1 DEF Counters
<1>4. Window'
  <2> SUFFICES ASSUME NEW p \in (Out + 1) .. (Out + N)
               PROVE  IF p < In THEN slotSeq'[Slot(p)] = p + 1 /\ data[Slot(p)] = accepted[p + 1]
                                ELSE slotSeq'[Slot(p)] = p
    <3>1. Out' .. (Out' + N - 1) = (Out + 1) .. (Out + N)
      BY <1>1
    <3> QED BY <1>1, <3>1 DEF Window, Slot
  <2>1. p \in Int /\ Slot(p) \in Slots
    BY <1>1, SlotOf
  <2>2. CASE p = Out + N
    <3>1. Slot(p) = Slot(Out)
      BY <2>2, <1>1, SlotRepeats
    <3>2. slotSeq'[Slot(p)] = p
      BY <3>1, <1>1, <2>2 DEF HidTypes
    <3> QED BY <1>1, <2>2, <3>2
  <2>3. CASE p # Out + N
    <3>1. p \in Out .. (Out + N - 1) /\ p # Out /\ p - Out < N /\ Out - p < N
      BY <1>1, <2>1, <2>3
    <3>2. Slot(p) # Slot(Out)
      BY <3>1, <1>1, <2>1, SlotsDiffer
    <3>3. slotSeq'[Slot(p)] = slotSeq[Slot(p)]
      BY <1>1, <2>1, <3>2 DEF HidTypes
    <3> QED BY <3>1, <3>3 DEF Window
  <2> QED BY <2>2, <2>3
<1>5. Receiving'
  BY <1>1 DEF Receiving, Slot
<1>6. Sending'
  BY DEF Sending
<1>7. Prefix'
  <2> SUFFICES ASSUME NEW i \in 1 .. (Out + 1) PROVE delivered'[i] = accepted[i]
    BY <1>1 DEF Prefix
  <2>1. delivered'[Out + 1] = taken /\ \A j \in 1 .. Out : delivered'[j] = delivered[j]
    BY DEF HidTypes, Out
  <2>2. CASE i = Out + 1
    BY <1>1, <2>1, <2>2
  <2>3. CASE i \in 1 .. Out
    BY <2>1, <2>3 DEF Prefix
  <2>4. i = Out + 1 \/ i \in 1 .. Out
    BY <1>1
  <2> QED BY <2>2, <2>3, <2>4
<1> QED BY <1>2, <1>3, <1>4, <1>5, <1>6, <1>7

LEMMA TxOtherInv ==
  ASSUME HidInv, TxOpen \/ TxOpenFails \/ TxSeesStop \/ TxAdvance \/ TxWrite
  PROVE  HidInv'
<1> USE HidAssumption DEF HidInv, TxGoes, Fault, ring
<1>1. /\ UNCHANGED <<slotSeq, data, accepted, delivered, rx, head, taken, rep, sent>>
      /\ tx' \in {"loop", "ended", "write"}
      /\ tail' = (IF tx = "advance" THEN tail + 1 ELSE tail)
  BY DEF TxOpen, TxOpenFails, TxSeesStop, TxAdvance, TxWrite
<1>2. Window' /\ Prefix'
  BY <1>1, RingUnchanged
<1>3. Receiving' /\ Sending'
  BY <1>1 DEF Receiving, Sending, Out, In, Slot
<1>4. In' = In /\ Out' = Out /\ In \in Nat /\ Out \in Nat
  BY <1>1 DEF HidTypes, In, Out
<1>5. Counters'
  BY <1>1, <1>4 DEF Counters, HidTypes
<1>6. HidTypes'
  BY <1>1 DEF HidTypes
<1> QED BY <1>2, <1>3, <1>5, <1>6

LEMMA DaemonInv ==
  ASSUME HidInv, Idle, Start \/ StartFails \/ Stop \/ Join \/ UNCHANGED hidVars PROVE HidInv'
<1> USE DEF HidInv, Fault, ring
<1>1. CASE Start
  <2>1. /\ UNCHANGED <<slotSeq, data, accepted, delivered, head, tail, taken, rep, sent>>
        /\ rx' = "open" /\ tx' = "open" /\ rx = "none" /\ tx = "none"
    BY <1>1 DEF Start, Idle
  <2> QED BY <2>1 DEF HidTypes, Counters, Window, Receiving, Sending, Prefix, In, Out
<1>2. CASE StartFails \/ Stop \/ Join \/ UNCHANGED hidVars
  <2>1. UNCHANGED <<slotSeq, data, accepted, delivered, head, tail, taken, rep, sent, rx, tx>>
    BY <1>2 DEF StartFails, Stop, Join, hidVars
  <2> QED BY <2>1 DEF HidTypes, Counters, Window, Receiving, Sending, Prefix, In, Out
<1> QED BY <1>1, <1>2

LEMMA IdleInv == ASSUME Idle, [HidNext]_hidVars PROVE Idle'
<1> USE DEF Idle
<1>1. CASE RxStep
  BY <1>1 DEF RxStep, RxGoes, RxOpen, RxOpenFails, RxSeesStop, RxRead, RxReadFails, RxPush,
              RxCopy, RxPublish, RxAdvance, RxDepth
<1>2. CASE TxStep
  BY <1>2 DEF TxStep, TxGoes, TxOpen, TxOpenFails, TxSeesStop, TxTake, TxCopy, TxRelease,
              TxAdvance, TxWrite
<1>3. CASE Start \/ StartFails \/ Stop \/ Join \/ UNCHANGED hidVars
  BY <1>3 DEF Start, StartFails, Stop, Join, hidVars
<1> QED BY <1>1, <1>2, <1>3 DEF HidNext

LEMMA HidNextInv == ASSUME HidInv, Idle, [HidNext]_hidVars PROVE HidInv'
<1>1. CASE RxStep
  BY <1>1, RxPushInv, RxCopyInv, RxPublishInv, RxOtherInv DEF RxStep
<1>2. CASE TxStep
  BY <1>2, TxTakeInv, TxCopyInv, TxReleaseInv, TxOtherInv DEF TxStep
<1>3. CASE Start \/ StartFails \/ Stop \/ Join \/ UNCHANGED hidVars
  BY <1>3, DaemonInv
<1> QED BY <1>1, <1>2, <1>3 DEF HidNext

LEMMA InvDelivers == ASSUME HidInv PROVE RingDelivers
<1> USE HidAssumption DEF HidInv
<1>1. In \in Nat /\ Out \in Nat
  BY DEF HidTypes, In, Out
<1>2. InOrderOnce
  BY DEF InOrderOnce, Counters, Prefix, In, Out
<1>3. RefusedOnlyWhenFull
  <2> SUFFICES ASSUME rx = "push", In - Out < N PROVE slotSeq[Slot(head)] = head
    BY DEF RefusedOnlyWhenFull, In, Out
  <2>1. head = In /\ In \in Out .. (Out + N - 1) /\ ~(In < In)
    BY <1>1 DEF Counters
  <2> QED BY <2>1 DEF Window
<1>4. InsideIsTakeable
  <2> SUFFICES ASSUME tx = "loop", Out < In PROVE slotSeq[Slot(tail)] = tail + 1
    BY DEF InsideIsTakeable, In, Out
  <2>1. tail = Out /\ Out \in Out .. (Out + N - 1)
    BY <1>1 DEF Counters
  <2> QED BY <2>1 DEF Window
<1> QED BY <1>2, <1>3, <1>4 DEF RingDelivers

(* SpscQueue.hpp: with any number of slots above one, whatever the two     *)
(* threads do at the same time, reports come out whole, in order and once, *)
(* one is refused only when the ring is full, and one that is inside can   *)
(* be taken.                                                               *)
THEOREM RingAlwaysDelivers == HidSpec => []RingDelivers
<1>1. HidInit => HidInv /\ Idle
  BY HidInitInv DEF HidInit, Idle
<1>2. HidInv /\ Idle /\ [HidNext]_hidVars => HidInv' /\ Idle'
  BY HidNextInv, IdleInv
<1>3. HidInv => RingDelivers
  BY InvDelivers
<1> QED BY <1>1, <1>2, <1>3, PTL DEF HidSpec

(* The ring as a queue.  A step of either thread is the step of the queue  *)
(* that its access to the ring is, or none.                                *)
LEMMA InsideGrows ==
  ASSUME NEW S, NEW s \in Seq(S), NEW x \in S, NEW k \in 0 .. Len(s)
  PROVE  SubSeq(Append(s, x), k + 1, Len(s) + 1) = SubSeq(s, k + 1, Len(s)) \o <<x>>
<1> DEFINE n == Len(s)
           t == SubSeq(s, k + 1, n)
           a == SubSeq(Append(s, x), k + 1, n + 1)
<1>1. n \in Nat /\ k \in Nat /\ k <= n /\ <<x>> \in Seq(S) /\ Len(<<x>>) = 1 /\ <<x>>[1] = x
  OBVIOUS
<1>2. /\ Append(s, x) \in Seq(S) /\ Len(Append(s, x)) = n + 1
      /\ Append(s, x)[n + 1] = x /\ \A i \in 1 .. n : Append(s, x)[i] = s[i]
  BY AppendProperties
<1>3. t \in Seq(S) /\ Len(t) = n - k /\ \A i \in 1 .. n - k : t[i] = s[k + i]
  BY <1>1, SubSeqProperties
<1>4. /\ a \in Seq(S) /\ Len(a) = n + 1 - k
      /\ \A i \in 1 .. n + 1 - k : a[i] = Append(s, x)[k + i]
  BY <1>1, <1>2, SubSeqProperties
<1> HIDE DEF n, t, a
<1>5. /\ t \o <<x>> \in Seq(S) /\ Len(t \o <<x>>) = n - k + 1
      /\ \A i \in 1 .. n - k : (t \o <<x>>)[i] = t[i]
      /\ (t \o <<x>>)[n - k + 1] = x
  <2>1. /\ t \o <<x>> \in Seq(S) /\ Len(t \o <<x>>) = n - k + 1
        /\ \A i \in 1 .. n - k + 1 : (t \o <<x>>)[i] = IF i <= n - k THEN t[i] ELSE <<x>>[i - (n - k)]
    BY <1>1, <1>3, ConcatProperties
  <2>2. /\ n - k + 1 \in 1 .. n - k + 1 /\ ~(n - k + 1 <= n - k) /\ (n - k + 1) - (n - k) = 1
        /\ \A i \in 1 .. n - k : i \in 1 .. n - k + 1 /\ i <= n - k
    BY <1>1
  <2>3. (t \o <<x>>)[n - k + 1] = <<x>>[1]
    BY <2>1, <2>2
  <2> QED BY <1>1, <2>1, <2>2, <2>3
<1>6. ASSUME NEW i \in 1 .. n + 1 - k PROVE a[i] = (t \o <<x>>)[i]
  <2>1. CASE i <= n - k
    <3>1. i \in 1 .. n - k /\ k + i \in 1 .. n
      BY <1>1, <2>1
    <3> QED BY <3>1, <1>2, <1>3, <1>4, <1>5
  <2>2. CASE ~(i <= n - k)
    <3>1. i = n - k + 1 /\ k + i = n + 1
      BY <1>1, <2>2
    <3>2. a[i] = Append(s, x)[n + 1]
      BY <3>1, <1>4
    <3> QED BY <3>1, <3>2, <1>2, <1>5
  <2> QED BY <2>1, <2>2
<1>7. Len(a) = Len(t \o <<x>>) /\ Len(a) = n + 1 - k
  BY <1>1, <1>4, <1>5
<1>8. a = t \o <<x>>
  BY <1>4, <1>5, <1>6, <1>7, SeqEqual
<1> QED BY <1>8 DEF a, t, n

LEMMA InsideShrinks ==
  ASSUME NEW S, NEW s \in Seq(S), NEW k \in Nat, k < Len(s)
  PROVE  /\ SubSeq(s, k + 1, Len(s)) # <<>>
         /\ Head(SubSeq(s, k + 1, Len(s))) = s[k + 1]
         /\ Tail(SubSeq(s, k + 1, Len(s))) = SubSeq(s, k + 1 + 1, Len(s))
<1> DEFINE n == Len(s)
           t == SubSeq(s, k + 1, n)
           b == SubSeq(s, k + 1 + 1, n)
<1>1. n \in Nat /\ k < n
  OBVIOUS
<1>2. t \in Seq(S) /\ Len(t) = n - k /\ \A i \in 1 .. n - k : t[i] = s[k + i]
  BY <1>1, SubSeqProperties
<1>3. b \in Seq(S) /\ Len(b) = n - k - 1 /\ \A i \in 1 .. n - k - 1 : b[i] = s[k + 1 + i]
  BY <1>1, SubSeqProperties
<1> HIDE DEF n, t, b
<1>4. t # <<>>
  BY <1>1, <1>2
<1>5. Head(t) = t[1] /\ 1 \in 1 .. n - k
  BY <1>1, <1>2, <1>4
<1>6. /\ Tail(t) \in Seq(S) /\ Len(Tail(t)) = n - k - 1
      /\ \A i \in 1 .. n - k - 1 : Tail(t)[i] = t[i + 1]
  BY <1>1, <1>2, <1>4, HeadTailProperties
<1>7. ASSUME NEW i \in 1 .. n - k - 1 PROVE Tail(t)[i] = b[i]
  <2>1. i + 1 \in 1 .. n - k /\ k + (i + 1) = k + 1 + i
    BY <1>1
  <2> QED BY <2>1, <1>2, <1>3, <1>6
<1>8. Tail(t) = b
  BY <1>3, <1>6, <1>7, SeqEqual
<1> QED BY <1>2, <1>4, <1>5, <1>8 DEF b, t, n

LEMMA InsideIs ==
  ASSUME HidInv
  PROVE  In \in Nat /\ Out \in Nat /\ Out <= In /\ Len(Inside) = In - Out
<1>1. In \in Nat /\ Out \in Nat /\ Out <= In
  BY DEF HidInv, HidTypes, Counters, In, Out
<1>2. Len(SubSeq(accepted, Out + 1, In)) = In - Out
  BY <1>1, SubSeqProperties DEF HidInv, HidTypes, In
<1> QED BY <1>1, <1>2 DEF Inside, In, Out

(* What leaves the ring and the offer alone is no step of the queue.       *)
LEMMA QueueStutters ==
  ASSUME UNCHANGED <<accepted, delivered>>, Offered' = Offered
  PROVE  UNCHANGED Queue!vars
  BY DEF Queue!vars, Inside, LastTaken

LEMMA QueueInit == ASSUME HidInit PROVE Queue!Init
<1>1. accepted = <<>> /\ delivered = <<>> /\ rx = "none"
  BY DEF HidInit
<1>2. Inside = <<>>
  BY <1>1 DEF Inside
<1> QED BY <1>1, <1>2 DEF Queue!Init, Offered, LastTaken

LEMMA ReadOffers == ASSUME HidInv, RxRead PROVE Queue!Offer
<1>1. UNCHANGED <<accepted, delivered>> /\ rx = "poll" /\ rx' = "push"
  BY DEF RxRead, RxGoes
<1>2. rep' \in [n : Nat, layout : Layouts]
  BY DEF RxRead, HidReport, HidInv, HidTypes
<1>3. Offered = <<>> /\ Offered' = <<rep'>>
  BY <1>1 DEF Offered
<1>4. UNCHANGED <<Inside, LastTaken>>
  BY <1>1 DEF Inside, LastTaken
<1> QED BY <1>2, <1>3, <1>4 DEF Queue!Offer

LEMMA PushRefuses == ASSUME HidInv, RxPush PROVE Queue!Refuse \/ UNCHANGED Queue!vars
<1>1. UNCHANGED <<accepted, delivered, rep>> /\ rx = "push" /\ Offered = <<rep>>
  BY DEF RxPush, RxGoes, Offered
<1>2. CASE slotSeq[Slot(head)] = head
  <2>1. Offered' = Offered
    BY <1>1, <1>2 DEF RxPush, RxGoes, Offered
  <2> QED BY <1>1, <2>1, QueueStutters
<1>3. CASE slotSeq[Slot(head)] # head
  <2>1. In - Out = N
    <3>1. RefusedOnlyWhenFull
      BY InvDelivers DEF RingDelivers
    <3>2. ~(In - Out < N)
      BY <1>1, <1>3, <3>1 DEF RefusedOnlyWhenFull, In, Out
    <3>3. In <= Out + N
      BY DEF HidInv, Counters
    <3> QED BY <3>2, <3>3, InsideIs, HidAssumption
  <2>2. Offered' = <<>>
    BY <1>3 DEF RxPush, RxGoes, Offered
  <2>3. UNCHANGED <<Inside, LastTaken>>
    BY <1>1 DEF Inside, LastTaken
  <2>4. Len(Inside) = N
    BY <2>1, InsideIs
  <2>5. Offered # <<>>
    BY <1>1
  <2> QED BY <2>2, <2>3, <2>4, <2>5 DEF Queue!Refuse
<1> QED BY <1>2, <1>3

LEMMA PublishAccepts == ASSUME HidInv, RxPublish PROVE Queue!Accept
<1>1. /\ UNCHANGED delivered /\ rx = "publish" /\ rx' = "advance"
      /\ accepted' = Append(accepted, rep)
  BY DEF RxPublish, RxGoes
<1>2. accepted \in Seq(Reports) /\ rep \in Reports /\ In < Out + N
  BY <1>1 DEF HidInv, HidTypes, Receiving
<1>3. Out \in 0 .. In /\ Len(Inside) < N
  BY <1>2, InsideIs, HidAssumption
<1>4. Offered = <<rep>> /\ Offered' = <<>>
  BY <1>1 DEF Offered
<1>5. Len(accepted') = Len(accepted) + 1
  BY <1>1, <1>2
<1>6. Inside' = Inside \o <<rep>>
  BY <1>1, <1>2, <1>3, <1>5, InsideGrows DEF Inside, In, Out
<1>7. Offered # <<>>
  BY <1>4
<1>8. LastTaken' = LastTaken
  BY <1>1 DEF LastTaken
<1> QED BY <1>3, <1>4, <1>6, <1>7, <1>8 DEF Queue!Accept

LEMMA ReleaseTakes == ASSUME HidInv, TxRelease PROVE Queue!Take
<1>1. /\ UNCHANGED <<accepted, rx, rep>> /\ tx = "release"
      /\ delivered' = Append(delivered, taken)
  BY DEF TxRelease, TxGoes
<1>2. /\ accepted \in Seq(Reports) /\ delivered \in Seq(Reports) /\ taken \in Reports
      /\ Out < In /\ taken = accepted[Out + 1] /\ Out \in Nat
  BY <1>1, InsideIs DEF HidInv, HidTypes, Sending
<1>3. Len(delivered') = Len(delivered) + 1 /\ delivered' # <<>> /\ delivered'[Len(delivered) + 1] = taken
  BY <1>1, <1>2
<1>4. Inside # <<>> /\ Head(Inside) = taken /\ Tail(Inside) = SubSeq(accepted, Out + 1 + 1, In)
  BY <1>2, InsideShrinks DEF Inside, In, Out
<1>5. Inside' = SubSeq(accepted, Out + 1 + 1, In)
  BY <1>1, <1>3 DEF Inside, In, Out
<1>6. LastTaken' = taken
  BY <1>3 DEF LastTaken
<1>7. Offered' = Offered
  BY <1>1 DEF Offered
<1> QED BY <1>4, <1>5, <1>6, <1>7 DEF Queue!Take

LEMMA QueueStep ==
  ASSUME HidInv, Idle, [HidNext]_hidVars PROVE [Queue!Next]_(Queue!vars)
<1>1. CASE RxRead \/ RxPush \/ RxPublish
  BY <1>1, ReadOffers, PushRefuses, PublishAccepts DEF Queue!Next
<1>2. CASE TxRelease
  BY <1>2, ReleaseTakes DEF Queue!Next
<1>3. CASE \/ RxOpen \/ RxOpenFails \/ RxSeesStop \/ RxReadFails \/ RxCopy \/ RxAdvance \/ RxDepth
           \/ TxOpen \/ TxOpenFails \/ TxSeesStop \/ TxTake \/ TxCopy \/ TxAdvance \/ TxWrite
           \/ Start \/ StartFails \/ Stop \/ Join \/ UNCHANGED hidVars
  <2>1. UNCHANGED <<accepted, delivered>>
    BY <1>3 DEF RxOpen, RxOpenFails, RxSeesStop, RxReadFails, RxCopy, RxAdvance, RxDepth, RxGoes,
                TxOpen, TxOpenFails, TxSeesStop, TxTake, TxCopy, TxAdvance, TxWrite, TxGoes,
                Start, StartFails, Stop, Join, hidVars
  <2>2. Offered' = Offered
    BY <1>3 DEF RxOpen, RxOpenFails, RxSeesStop, RxReadFails, RxCopy, RxAdvance, RxDepth, RxGoes,
                TxOpen, TxOpenFails, TxSeesStop, TxTake, TxCopy, TxAdvance, TxWrite, TxGoes,
                Start, StartFails, Stop, Join, hidVars, Offered, Idle
  <2> QED BY <2>1, <2>2, QueueStutters
<1> QED BY <1>1, <1>2, <1>3 DEF HidNext, RxStep, TxStep

(* SpscQueue.hpp implements a bounded queue of N places: no order of the   *)
(* accesses of the two threads can be told from the accepting, refusing    *)
(* and taking of whole reports one after the other, and a report is        *)
(* refused only by a full queue.                                           *)
THEOREM RingIsABoundedQueue == HidSpec => RingIsAQueue
<1>1. HidInit => HidInv /\ Idle /\ Queue!Init
  BY HidInitInv, QueueInit DEF HidInit, Idle
<1>2. HidInv /\ Idle /\ [HidNext]_hidVars => HidInv' /\ Idle' /\ [Queue!Next]_(Queue!vars)
  BY HidNextInv, IdleInv, QueueStep
<1>3. HidInv => RingDelivers
  BY InvDelivers
<1> QED BY <1>1, <1>2, <1>3, PTL DEF HidSpec, RingIsAQueue, Queue!Spec
-----------------------------------------------------------------------------
(* The aim thread.  What each part of the invariant says of a moment       *)
(* between two frames is what the next frame relies on.                    *)
OneType == [armed : BOOLEAN, done : BOOLEAN, shots : Nat, stable : Nat, tap : BOOLEAN,
            fired : BOOLEAN, began : BOOLEAN, last : Nat]
TwoType == [fired : BOOLEAN, enter : Int, lost : Int, wait : Int]

(* A guard's button that is down and was not seen down went down since the *)
(* last flip.                                                              *)
GuardSeen == "guard" \in keys /\ ~rawGuard => hist.pressed

(* While injection is allowed, the remainder is of this press only.        *)
CarriedSound ==
  /\ allowedLast => carried # "past"
  /\ job.move # "past" /\ NoCarryOver

(* The shots of a burst are those the trigger itself has counted.          *)
ShotsCounted == ~Rifle /\ Tapped /\ one.armed => hist.shots <= one.shots

AimTypes ==
  /\ one \in OneType /\ two \in TwoType /\ suspended \in BOOLEAN
  /\ hist \in [pressed : BOOLEAN, near : BOOLEAN, shots : Nat]
  /\ host = [down |-> host.down, moved |-> host.moved]

AimInv == AimTypes /\ GuardSeen /\ CarriedSound /\ ShotsCounted /\ TriggersKeepToThePress
-----------------------------------------------------------------------------
LEMMA LongType == Long \in Nat
<1>1. /\ Grace \in Nat /\ FireDelay \in Nat /\ FirstDelay \in Nat
      /\ FirstWait \in Nat /\ Retarget \in Nat
  BY DecisionAssumption
<1>2. \E n \in Limits : \A m \in Limits : m <= n
  BY <1>1 DEF Limits
<1>3. Long \in Limits
  BY <1>2 DEF Long
<1> QED BY <1>1, <1>3 DEF Limits

LEMMA ActivatedFields ==
  ASSUME NEW a \in OneType, NEW tap \in BOOLEAN, Tapped
  PROVE  /\ Activated(a, tap) \in OneType
         /\ tap /\ ~a.tap => Activated(a, tap).shots = 0
         /\ ~(tap /\ ~a.tap) => /\ Activated(a, tap).shots = a.shots
                                /\ Activated(a, tap).armed = a.armed
<1>1. /\ Armed(a) \in OneType /\ Armed(a).shots = 0
  BY DEF Armed, OneType
<1>2. Activated(a, tap) = [(IF tap /\ ~a.tap THEN Armed(a) ELSE a) EXCEPT !.tap = tap]
  BY DEF Activated
<1> QED BY <1>1, <1>2 DEF OneType

LEMMA ShotFields ==
  ASSUME NEW a \in OneType
  PROVE  /\ Steadier(a) \in OneType /\ Steadier(a).shots = a.shots /\ Steadier(a).armed = a.armed
         /\ ShotOne(a) \in OneType
         /\ ~Rifle => ShotOne(a).shots = a.shots + 1
<1>1. Stability \in Nat
  BY DecisionAssumption
<1>2. Steadier(a) \in OneType
  <2>1. (IF a.stable < Stability THEN a.stable + 1 ELSE a.stable) \in Nat
    BY <1>1 DEF OneType
  <2> QED BY <2>1 DEF Steadier, OneType
<1>3. Steadier(a).shots = a.shots /\ Steadier(a).armed = a.armed
  BY DEF Steadier, OneType
<1>4. ShotOne(a) \in OneType
  <2>1. (IF Rifle THEN a.shots ELSE a.shots + 1) \in Nat
    BY DEF OneType
  <2> QED BY <2>1 DEF ShotOne, OneType
<1>5. ~Rifle => ShotOne(a).shots = a.shots + 1
  BY DEF ShotOne, OneType
<1> QED BY <1>2, <1>3, <1>4, <1>5

LEMMA IdleOneType == IdleOne \in OneType /\ IdleOne.armed = FALSE
  BY LongType DEF IdleOne, OneType

(* One frame of the first trigger: the shots it counts, and when it fires. *)
CountsShots(m, long, begins, r) ==
  /\ r.m \in OneType /\ r.fire \in BOOLEAN /\ (r.fire => long)
  /\ ~Rifle /\ Tapped =>
       /\ r.fire => /\ r.m.shots <= ClickCount
                    /\ r.m.shots = (IF begins THEN 0 ELSE m.shots) + 1
                    /\ begins \/ m.armed
       /\ ~r.fire /\ r.m.armed => /\ r.m.shots = IF begins THEN 0 ELSE m.shots
                                  /\ begins \/ m.armed

LEMMA FrameOfOne ==
  ASSUME NEW m \in OneType, NEW long \in BOOLEAN, NEW tap \in BOOLEAN, NEW t \in Targets
  PROVE  CountsShots(m, long, tap /\ ~m.tap, UpdateOne(m, long, tap, t))
<1> USE DEF CountsShots
<1> DEFINE old == [m EXCEPT !.last = Grown(@)]
           a == Activated(old, tap)
           r == UpdateOne(m, long, tap, t)
<1>1. old \in OneType /\ old.shots = m.shots /\ old.armed = m.armed /\ old.tap = m.tap
  <2>1. Grown(m.last) \in Nat
    BY LongType DEF Grown, OneType
  <2> QED BY <2>1 DEF OneType
<1> HIDE DEF old
<1>2. a \in OneType
  <2>1. Armed(old) \in OneType
    BY <1>1 DEF Armed, OneType
  <2> QED BY <1>1, <2>1 DEF Activated, OneType
<1>3. Tapped => /\ a.shots = IF tap /\ ~m.tap THEN 0 ELSE m.shots
                /\ a.armed => (tap /\ ~m.tap) \/ m.armed
  BY <1>1, ActivatedFields
<1>4. \/ r = Quiet(IdleOne)
      \/ r = Quiet(a) /\ long
      \/ r = Quiet([a EXCEPT !.armed = FALSE, !.done = TRUE]) /\ long
      \/ r = Quiet([a EXCEPT !.stable = 0]) /\ long
      \/ r = Quiet(Steadier(a)) /\ long
      \/ r = Fired(ShotOne(Steadier(a))) /\ long /\ a.armed /\ ~Spent(a)
  BY DEF UpdateOne, old
<1> HIDE DEF a, r
<1>5. CASE r = Quiet(IdleOne)
  BY <1>5, IdleOneType DEF Quiet, r
<1>6. CASE r = Quiet(a) /\ long
  <2>1. r.m = a /\ r.fire = FALSE
    BY <1>6 DEF Quiet
  <2> QED BY <1>2, <1>3, <2>1 DEF r
<1>7. CASE r = Quiet([a EXCEPT !.armed = FALSE, !.done = TRUE]) /\ long
  <2>1. r.m \in OneType /\ r.m.armed = FALSE /\ r.fire = FALSE
    BY <1>2, <1>7 DEF Quiet, OneType
  <2> QED BY <2>1 DEF r
<1>8. CASE r = Quiet([a EXCEPT !.stable = 0]) /\ long
  <2>1. r.m \in OneType /\ r.m.armed = a.armed /\ r.m.shots = a.shots /\ r.fire = FALSE
    BY <1>2, <1>8 DEF Quiet, OneType
  <2> QED BY <1>3, <2>1 DEF r
<1>9. CASE r = Quiet(Steadier(a)) /\ long
  <2>1. r.m \in OneType /\ r.m.armed = a.armed /\ r.m.shots = a.shots /\ r.fire = FALSE
    BY <1>2, <1>9, ShotFields DEF Quiet
  <2> QED BY <1>3, <2>1 DEF r
<1>10. CASE r = Fired(ShotOne(Steadier(a))) /\ long /\ a.armed /\ ~Spent(a)
  <2>1. r.m \in OneType /\ r.fire = TRUE /\ (~Rifle => r.m.shots = a.shots + 1)
    BY <1>2, <1>10, ShotFields DEF Fired
  <2>2. ~Rifle => a.shots < ClickCount /\ a.shots \in Nat
    BY <1>2, <1>10, DecisionAssumption DEF Spent, OneType
  <2>3. ClickCount \in Nat
    BY DecisionAssumption
  <2>4. ~Rifle => r.m.shots <= ClickCount
    BY <2>1, <2>2, <2>3
  <2>5. ~Rifle /\ Tapped => r.m.shots = (IF tap /\ ~m.tap THEN 0 ELSE m.shots) + 1
    BY <1>3, <2>1
  <2>6. Tapped => (tap /\ ~m.tap) \/ m.armed
    BY <1>3, <1>10
  <2> QED BY <1>10, <2>1, <2>4, <2>5, <2>6 DEF r
<1> QED BY <1>4, <1>5, <1>6, <1>7, <1>8, <1>9, <1>10

(* One frame of the second trigger: it has fired only where a target was   *)
(* near while its keys were held.                                          *)
LEMMA FrameOfTwo ==
  ASSUME NEW m \in TwoType, NEW combo \in BOOLEAN, NEW found \in BOOLEAN, NEW t \in Targets
  PROVE  LET r == UpdateTwo(m, combo, found, t)
         IN /\ r.m \in TwoType
            /\ r.m.fired => combo /\ (m.fired \/ t.at = "near")
<1> DEFINE b == [m EXCEPT !.enter = Later(@), !.lost = Later(@), !.wait = IF @ > 0 THEN @ - 1 ELSE 0]
           r == UpdateTwo(m, combo, found, t)
<1>1. Interval \in Int /\ \A age \in Int : Later(age) \in Int
  BY DecisionAssumption, LongType DEF Later, Grown
<1>2. b \in TwoType /\ b.fired = m.fired
  <2>1. /\ Later(m.enter) \in Int /\ Later(m.lost) \in Int
        /\ (IF m.wait > 0 THEN m.wait - 1 ELSE 0) \in Int
    BY <1>1 DEF TwoType
  <2> QED BY <2>1 DEF TwoType
<1>3. r = IF ~combo THEN Quiet(IdleTwo)
          ELSE IF ~found THEN Quiet(b)
          ELSE IF b.fired THEN NextShot(b, t) ELSE FirstShot(b, t)
  BY DEF UpdateTwo
<1> HIDE DEF b, r
<1>4. IdleTwo \in TwoType /\ IdleTwo.fired = FALSE
  BY DEF IdleTwo, TwoType
<1>5. \A x \in TwoType : ShotTwo(x) \in TwoType
  <2> SUFFICES ASSUME NEW x \in TwoType PROVE ShotTwo(x) \in TwoType
    OBVIOUS
  <2> DEFINE y == [x EXCEPT !.fired = TRUE]
             z == [y EXCEPT !.enter = -1]
  <2>1. ShotTwo(x) = [z EXCEPT !.wait = Interval]
    BY DEF ShotTwo, TwoType
  <2>2. y \in TwoType
    BY DEF TwoType
  <2> HIDE DEF y
  <2>3. z \in TwoType
    BY <2>2 DEF TwoType
  <2> HIDE DEF z
  <2> QED BY <1>1, <2>1, <2>3 DEF TwoType
<1>6. NextShot(b, t).m \in TwoType
  <2>1. [b EXCEPT !.lost = 0] \in TwoType
    BY <1>2 DEF TwoType
  <2> QED BY <1>2, <1>4, <1>5, <2>1 DEF NextShot, Quiet, Fired
<1>7. /\ FirstShot(b, t).m \in TwoType
      /\ FirstShot(b, t).m.fired => b.fired \/ t.at = "near"
  <2> DEFINE c == [b EXCEPT !.enter = IF @ = -1 THEN 0 ELSE @]
  <2>1. c \in TwoType
    <3>1. (IF b.enter = -1 THEN 0 ELSE b.enter) \in Int
      BY <1>2 DEF TwoType
    <3> QED BY <1>2, <3>1 DEF TwoType
  <2>2. \/ t.at # "near" /\ FirstShot(b, t) = Quiet(b)
        \/ t.at = "near" /\ (FirstShot(b, t) = Fired(ShotTwo(c)) \/ FirstShot(b, t) = Quiet(c))
    BY DEF FirstShot
  <2> HIDE DEF c
  <2> QED BY <1>2, <1>5, <2>1, <2>2 DEF Quiet, Fired
<1>8. r.m \in TwoType
  BY <1>2, <1>3, <1>4, <1>6, <1>7 DEF Quiet
<1>9. r.m.fired => combo /\ (m.fired \/ t.at = "near")
  BY <1>2, <1>3, <1>4, <1>7 DEF Quiet
<1> QED BY <1>8, <1>9 DEF r

-----------------------------------------------------------------------------
LEMMA AimInvInit == AimInit => AimInv
<1> SUFFICES ASSUME AimInit PROVE AimInv
  OBVIOUS
<1>1. IdleOne \in OneType /\ IdleOne.armed = FALSE
  BY IdleOneType
<1>2. IdleTwo \in TwoType /\ IdleTwo.fired = FALSE
  BY DEF IdleTwo, TwoType
<1>3. ClickCount \in Nat
  BY DecisionAssumption
<1>4. AimTypes
  BY <1>1, <1>2 DEF AimInit, AimTypes
<1>5. GuardSeen /\ CarriedSound
  BY DEF AimInit, GuardSeen, CarriedSound, NoCarryOver, NoJob
<1>6. ShotsCounted /\ TriggersKeepToThePress
  BY <1>1, <1>2, <1>3 DEF AimInit, ShotsCounted, TriggersKeepToThePress, FirstShotAimed, BurstBounded
<1> QED BY <1>4, <1>5, <1>6 DEF AimInv

(* A frame, part by part.                                                  *)
LEMMA DecideStep ==
  ASSUME AimInv, NEW t \in Targets, NEW moves \in BOOLEAN, NEW found \in BOOLEAN,
         Decide(t, moves, found)
  PROVE  AimInv' /\ (suspended' # suspended => hist.pressed \/ ~cfg.guard)
<1> DEFINE keysHeld == "aim" \in Bits
           tapNow == "tap" \in Bits
           a == IF "one" \in cfg.triggers
                THEN UpdateOne(one, keysHeld, Tapped => tapNow, t) ELSE Quiet(IdleOne)
           b == IF "two" \in cfg.triggers
                THEN UpdateTwo(two, keysHeld, cfg.found => found, t) ELSE Quiet(IdleTwo)
           past == IF ~keysHeld \/ (tapNow /\ ~one.tap) THEN 0 ELSE hist.shots
<1>1. AimTypes /\ GuardSeen /\ CarriedSound /\ ShotsCounted /\ FirstShotAimed /\ BurstBounded
  BY DEF AimInv, TriggersKeepToThePress
<1>2. /\ one' = a.m /\ two' = b.m /\ suspended' = Suspends /\ rawGuard' = GuardDown
      /\ UNCHANGED <<keys, cfg, host>>
      /\ hist' = [pressed |-> hist.pressed /\ Suspends = suspended,
                  near  |-> keysHeld /\ (hist.near \/ t.at = "near"),
                  shots |-> IF ~keysHeld \/ (tapNow /\ ~one.tap) THEN (IF a.fire THEN 1 ELSE 0)
                            ELSE IF a.fire THEN hist.shots + 1 ELSE hist.shots]
  BY DEF Decide
<1>3. CountsShots(one, keysHeld, tapNow /\ ~one.tap, a)
  <2>1. CASE "one" \in cfg.triggers
    <3> DEFINE tap == Tapped => tapNow
    <3>1. a = UpdateOne(one, keysHeld, tap, t)
      BY <2>1
    <3>2. one \in OneType /\ tap \in BOOLEAN /\ keysHeld \in BOOLEAN
      BY <1>1 DEF AimTypes
    <3>3. Tapped => (tap /\ ~one.tap <=> tapNow /\ ~one.tap)
      OBVIOUS
    <3> HIDE DEF a, tap, keysHeld, tapNow
    <3>4. CountsShots(one, keysHeld, tap /\ ~one.tap, a)
      BY <3>1, <3>2, FrameOfOne
    <3> QED BY <3>3, <3>4 DEF CountsShots
  <2>2. CASE "one" \notin cfg.triggers
    <3>1. a.m = IdleOne /\ a.fire = FALSE
      BY <2>2 DEF Quiet
    <3> HIDE DEF a
    <3> QED BY <3>1, IdleOneType DEF CountsShots
  <2> QED BY <2>1, <2>2
<1>4. b.m \in TwoType /\ (b.m.fired => keysHeld /\ (two.fired \/ t.at = "near"))
  <2>1. CASE "two" \in cfg.triggers
    <3>1. (cfg.found => found) \in BOOLEAN /\ keysHeld \in BOOLEAN
      OBVIOUS
    <3> QED BY <1>1, <2>1, <3>1, FrameOfTwo DEF AimTypes
  <2>2. CASE "two" \notin cfg.triggers
    <3>1. b.m = IdleTwo
      BY <2>2 DEF Quiet
    <3>2. IdleTwo \in TwoType /\ IdleTwo.fired = FALSE
      BY DEF IdleTwo, TwoType
    <3> HIDE DEF b
    <3> QED BY <3>1, <3>2
  <2> QED BY <2>1, <2>2
<1> HIDE DEF a, b
<1> USE DEF CountsShots
<1>5. AimTypes'
  <2>1. (hist.pressed /\ Suspends = suspended) \in BOOLEAN
        /\ (keysHeld /\ (hist.near \/ t.at = "near")) \in BOOLEAN
    OBVIOUS
  <2>2. (IF ~keysHeld \/ (tapNow /\ ~one.tap) THEN (IF a.fire THEN 1 ELSE 0)
         ELSE IF a.fire THEN hist.shots + 1 ELSE hist.shots) \in Nat
    BY <1>1 DEF AimTypes
  <2>3. hist' \in [pressed : BOOLEAN, near : BOOLEAN, shots : Nat]
    BY <1>2, <2>1, <2>2
  <2>4. Suspends \in BOOLEAN
    BY <1>1 DEF Suspends, AimTypes
  <2> QED BY <1>1, <1>2, <1>3, <1>4, <2>3, <2>4 DEF AimTypes
<1>6. FirstShotAimed'
  BY <1>1, <1>2, <1>4 DEF FirstShotAimed
<1>7. BurstBounded' /\ ShotsCounted'
  <2> SUFFICES ASSUME ~Rifle, Tapped
               PROVE  hist'.shots <= ClickCount /\ (one'.armed => hist'.shots <= one'.shots)
    BY DEF BurstBounded, ShotsCounted
  <2>1. /\ ClickCount \in Nat /\ hist.shots \in Nat /\ hist.shots <= ClickCount
        /\ one.shots \in Nat /\ (one.armed => hist.shots <= one.shots)
    BY <1>1, DecisionAssumption DEF AimTypes, OneType, BurstBounded, ShotsCounted
  <2>2. hist'.shots = IF a.fire THEN past + 1 ELSE past
    BY <1>2, <2>1
  <2>3. past \in Nat /\ past <= ClickCount
    BY <2>1
  <2>4. CASE a.fire
    <3>1. past <= IF tapNow /\ ~one.tap THEN 0 ELSE one.shots
      BY <1>3, <2>1, <2>4
    <3>2. past + 1 <= a.m.shots /\ a.m.shots <= ClickCount
      BY <1>3, <2>1, <2>3, <2>4, <3>1
    <3> HIDE DEF past
    <3> QED BY <1>2, <1>3, <2>1, <2>2, <2>3, <2>4, <3>2 DEF OneType
  <2>5. CASE ~a.fire
    <3>1. a.m.armed => past <= a.m.shots
      BY <1>3, <2>1, <2>5
    <3> HIDE DEF past
    <3> QED BY <1>2, <2>2, <2>3, <2>5, <3>1
  <2> QED BY <2>4, <2>5
<1>8. GuardSeen' /\ (suspended' # suspended => hist.pressed \/ ~cfg.guard)
  BY <1>1, <1>2 DEF GuardSeen, Suspends, GuardDown
<1>9. CarriedSound'
  <2> DEFINE left == Remainder(Allowed, NextSM(sm, t, Allowed))
             sum  == IF left = "past" \/ ~moves THEN left ELSE IF Allowed THEN "this" ELSE "past"
  <2>1. /\ allowedLast' = Allowed /\ carried' = sum
        /\ job'.move = IF Allowed /\ moves THEN sum ELSE "none"
    BY DEF Decide
  <2>2. Allowed => left # "past"
    BY <1>1 DEF Remainder, CarriedSound
  <2> HIDE DEF left
  <2>3. Allowed => sum # "past"
    BY <2>2
  <2> HIDE DEF sum
  <2> QED BY <1>1, <1>2, <2>1, <2>3 DEF CarriedSound, NoCarryOver
<1> QED BY <1>5, <1>6, <1>7, <1>8, <1>9 DEF AimInv, TriggersKeepToThePress

(* The other steps leave the triggers and the remainder alone.             *)
LEMMA AimInvStep ==
  ASSUME AimInv, [AimNext]_aimVars
  PROVE  AimInv' /\ (suspended' # suspended => hist.pressed \/ ~cfg.guard)
<1> USE DEF AimInv, AimTypes, GuardSeen, CarriedSound, NoCarryOver, ShotsCounted,
            TriggersKeepToThePress, FirstShotAimed, BurstBounded
<1>1. CASE \E t \in Targets, moves, found \in BOOLEAN : Decide(t, moves, found)
  BY <1>1, DecideStep
<1>2. ASSUME NEW k \in Keys, PressKey(k) \/ LiftKey(k)
      PROVE  AimInv' /\ suspended' = suspended
  <2>1. /\ UNCHANGED <<suspended, rawGuard, allowedLast, one, two, job, carried, host>>
        /\ hist'.near = hist.near /\ hist'.shots = hist.shots
        /\ hist' \in [pressed : BOOLEAN, near : BOOLEAN, shots : Nat]
    BY <1>2 DEF PressKey, LiftKey, thread
  <2>2. GuardSeen'
    BY <1>2 DEF PressKey, LiftKey, thread
  <2> QED BY <2>1, <2>2
<1>3. CASE (\E c \in Configs : Configure(c)) \/ StopAim \/ UNCHANGED aimVars
  BY <1>3 DEF Configure, StopAim, aimVars, thread
<1>4. CASE StartAim
  <2>1. /\ IdleOne \in OneType /\ IdleOne.armed = FALSE /\ IdleTwo \in TwoType /\ IdleTwo.fired = FALSE
    BY IdleOneType DEF IdleTwo, TwoType
  <2>2. /\ one' = IdleOne /\ two' = IdleTwo /\ suspended' = suspended /\ host' = host
        /\ hist'.shots = 0 /\ hist' \in [pressed : BOOLEAN, near : BOOLEAN, shots : Nat]
    BY <1>4 DEF StartAim
  <2>3. (rawGuard' <=> "guard" \in keys) /\ keys' = keys /\ carried' = "none" /\ job' = NoJob
    BY <1>4 DEF StartAim, GuardNow
  <2>4. ClickCount \in Nat
    BY DecisionAssumption
  <2> QED BY <2>1, <2>2, <2>3, <2>4 DEF NoJob
<1>5. ASSUME NEW fault \in Faults, Lift(fault) \/ Fire(fault) \/ Send(fault)
      PROVE  AimInv' /\ suspended' = suspended
  <2>1. /\ UNCHANGED <<keys, suspended, rawGuard, allowedLast, one, two, carried, hist>>
        /\ job'.move \in {job.move, "none"}
    BY <1>5 DEF Lift, Fire, Send, NoJob
  <2>2. host' = [down |-> host'.down, moved |-> host'.moved]
        /\ host'.moved \in {host.moved, job.move, "none"}
    BY <1>5 DEF Lift, Fire, Send
  <2> QED BY <2>1, <2>2
<1> QED BY <1>1, <1>2, <1>3, <1>4, <1>5 DEF AimNext, Loop

LEMMA AimInvAlways == AimSpec => []AimInv
  BY AimInvInit, AimInvStep, PTL DEF AimSpec

(* No packet carries motion that was computed under an earlier press of    *)
(* the hotkey (AimThread: the remainder and its clearing).                 *)
THEOREM NothingCarriesOver == AimSpec => []NoCarryOver
<1>1. AimInv => NoCarryOver
  BY DEF AimInv, CarriedSound
<1> QED BY <1>1, AimInvAlways, PTL

(* The triggers fire for the press that is going on: the second one only   *)
(* where a target was near, the first at most click_count times            *)
(* (AutoTrigger, AutoTrigger2 and their calls in AimThread).               *)
THEOREM TriggersKeep == AimSpec => []TriggersKeepToThePress
<1>1. AimInv => TriggersKeepToThePress
  BY DEF AimInv
<1> QED BY <1>1, AimInvAlways, PTL

(* Only a new press of the guard's button, or a configuration without it,  *)
(* changes the suspension: not a restart of the thread (AimThread::start). *)
THEOREM SuspensionStays == AimSpec => SuspensionKept
<1>1. AimInv /\ [AimNext]_aimVars => [suspended' # suspended => hist.pressed \/ ~cfg.guard]_aimVars
  BY AimInvStep
<1> QED BY <1>1, AimInvAlways, PTL DEF AimSpec, SuspensionKept
-----------------------------------------------------------------------------
(* The table, with the track of the lock in it; whoever is not locked has  *)
(* not been seen within the grace; and the track of the hold was seen      *)
(* after the hold began.                                                   *)
Tracks == [id : Nat \ {0}, at : Places, age : Nat, lost : Nat, active : BOOLEAN]
Table(ts) ==
  /\ ts \in Seq(Tracks)
  /\ \A i, j \in 1 .. Len(ts) : ts[i].id = ts[j].id => i = j
LockedBy(ts, id) ==
  /\ \A i \in 1 .. Len(ts) : ts[i].active <=> ts[i].id = id
  /\ id # 0 => \E i \in 1 .. Len(ts) : ts[i].id = id
FreeAreOld(ts) == \A i \in 1 .. Len(ts) : ~ts[i].active => ts[i].age >= LostGrace
HeldSeen(ts, hold) == \A i \in 1 .. Len(ts) : ts[i].id = hold.id => ts[i].age <= hold.age
Known(ts, n) == \A i \in 1 .. Len(ts) : ts[i].id < n

TableSound(ts, id, hold, n) ==
  Table(ts) /\ LockedBy(ts, id) /\ FreeAreOld(ts) /\ HeldSeen(ts, hold) /\ Known(ts, n)
SelectorTyped ==
  /\ nextId \in Nat \ {0} /\ active \in Nat
  /\ held \in [id : Nat, age : Nat]
SelectorInv == SelectorTyped /\ TableSound(tracks, active, held, nextId) /\ NoGhost

HeldOlder == [held EXCEPT !.age = Older(@)]
-----------------------------------------------------------------------------
LEMMA LimitsAre ==
  /\ {LostGrace, Cooldown, Hold, Aeon, Buffer} \subseteq Nat
  /\ MaxTracks \in Nat /\ 1 <= MaxTracks
  BY SelectorAssumption DEF Aeon, Larger

LEMMA OlderIs ==
  ASSUME NEW n \in Nat
  PROVE  Older(n) \in Nat /\ n <= Older(n) /\ \A m \in Nat : m <= n => Older(m) <= Older(n)
  BY LimitsAre DEF Older

LEMMA CandidatesAre == \A dets \in Inputs : Candidates(dets) \subseteq Places
<1> SUFFICES ASSUME NEW dets \in Inputs, NEW c \in Candidates(dets) PROVE c \in Places
  OBVIOUS
<1>1. dets \subseteq Boxes
  BY SelectorAssumption
<1>2. PICK b \in Stable(dets) : c = b.at
  BY DEF Candidates
<1>3. b \in dets
  BY <1>2 DEF Stable
<1> QED BY <1>1, <1>2, <1>3 DEF Boxes

LEMMA TableIs ==
  ASSUME NEW ts, Table(ts)
  PROVE  /\ Len(ts) \in Nat /\ DOMAIN ts = 1 .. Len(ts)
         /\ \A i \in 1 .. Len(ts) : /\ ts[i] \in Tracks /\ ts[i].id \in Nat \ {0} /\ ts[i].at \in Places
                                    /\ ts[i].age \in Nat /\ ts[i].lost \in Nat /\ ts[i].active \in BOOLEAN
<1>1. ts \in Seq(Tracks)
  BY DEF Table
<1>2. Len(ts) \in Nat /\ DOMAIN ts = 1 .. Len(ts) /\ \A i \in 1 .. Len(ts) : ts[i] \in Tracks
  BY <1>1, LenProperties, ElementOfSeq
<1> QED BY <1>2 DEF Tracks
-----------------------------------------------------------------------------
(* The positions of a set are found one after the other, in any order that *)
(* is strict and total.                                                    *)
StrictOrder(P, R) ==
  /\ \A i \in P : <<i, i>> \notin R
  /\ \A i, j \in P : i # j => <<i, j>> \in R \/ <<j, i>> \in R
  /\ \A i, j, k \in P : <<i, j>> \in R /\ <<j, k>> \in R => <<i, k>> \in R
UpTo(P, R, i) == {j \in P : j = i \/ <<j, i>> \in R}

LEMMA RanksAreAll ==
  ASSUME NEW P, IsFiniteSet(P), NEW R, StrictOrder(P, R)
  PROVE  /\ Cardinality(P) \in Nat
         /\ \A n \in 1 .. Cardinality(P) : \E i \in P : Cardinality(UpTo(P, R, i)) = n
         /\ \A i \in P : Cardinality(UpTo(P, R, i)) \in 1 .. Cardinality(P)
         /\ \A i, k \in P : Cardinality(UpTo(P, R, i)) = Cardinality(UpTo(P, R, k)) => i = k
<1> DEFINE rank == [i \in P |-> Cardinality(UpTo(P, R, i))]
           size == Cardinality(P)
<1>1. size \in Nat /\ IsFiniteSet(1 .. size) /\ Cardinality(1 .. size) = size
  BY FS_CardinalityType, FS_Interval
<1>2. ASSUME NEW i \in P
      PROVE  /\ IsFiniteSet(UpTo(P, R, i)) /\ Cardinality(UpTo(P, R, i)) \in 1 .. size
  <2>1. UpTo(P, R, i) \in SUBSET P /\ i \in UpTo(P, R, i)
    BY DEF UpTo
  <2>2. IsFiniteSet(UpTo(P, R, i)) /\ Cardinality(UpTo(P, R, i)) <= size /\ Cardinality(UpTo(P, R, i)) \in Nat
    BY <2>1, FS_Subset, FS_CardinalityType
  <2>3. Cardinality(UpTo(P, R, i)) # 0
    BY <2>1, <2>2, FS_EmptySet
  <2> QED BY <1>1, <2>2, <2>3
<1>3. ASSUME NEW i \in P, NEW k \in P, <<i, k>> \in R PROVE rank[i] # rank[k]
  <2>1. UpTo(P, R, i) \in SUBSET UpTo(P, R, k)
    <3> SUFFICES ASSUME NEW j \in UpTo(P, R, i) PROVE j \in UpTo(P, R, k)
      OBVIOUS
    <3> QED BY <1>3 DEF UpTo, StrictOrder
  <2>2. k \in UpTo(P, R, k) /\ k \notin UpTo(P, R, i)
    <3>1. k # i /\ <<k, i>> \notin R
      BY <1>3 DEF StrictOrder
    <3> QED BY <3>1 DEF UpTo
  <2>3. IsFiniteSet(UpTo(P, R, k))
    BY <1>2
  <2>4. Cardinality(UpTo(P, R, i)) # Cardinality(UpTo(P, R, k))
    BY <2>1, <2>2, <2>3, FS_Subset
  <2> QED BY <2>4
<1>4. ASSUME NEW i \in P, NEW k \in P, rank[i] = rank[k] PROVE i = k
  <2>1. i = k \/ <<i, k>> \in R \/ <<k, i>> \in R
    BY DEF StrictOrder
  <2> QED BY <2>1, <1>3, <1>4
<1>5. rank \in [P -> 1 .. size] /\ \A i \in P : rank[i] = Cardinality(UpTo(P, R, i))
  BY <1>2
<1> HIDE DEF rank
<1>6. rank \in Injection(P, 1 .. size)
  BY <1>4, <1>5 DEF Injection, IsInjective
<1>7. rank \in Surjection(P, 1 .. size)
  BY <1>1, <1>6, FS_Injection
<1>8. \A n \in 1 .. size : \E i \in P : rank[i] = n
  BY <1>7 DEF Surjection
<1> QED BY <1>1, <1>2, <1>4, <1>5, <1>8

(* InOrder takes the tracks at these positions, each once.                 *)
Arranged(us, ts, P, R) ==
  /\ us \in Seq(Tracks) /\ Len(us) = Cardinality(P)
  /\ \A n \in 1 .. Cardinality(P) : \E i \in P : us[n] = ts[i]
  /\ \A n, m \in 1 .. Cardinality(P) : us[n].id = us[m].id => n = m
  /\ \A i \in P : \E n \in 1 .. Cardinality(P) : n = Cardinality(UpTo(P, R, i)) /\ us[n] = ts[i]

LEMMA InOrderIs ==
  ASSUME NEW ts, Table(ts), NEW P \in SUBSET (1 .. Len(ts)), NEW R, StrictOrder(P, R)
  PROVE  Cardinality(P) \in Nat /\ Arranged(InOrder(ts, P, R), ts, P, R)
<1> DEFINE size == Cardinality(P)
           at(n) == CHOOSE i \in P : Cardinality(UpTo(P, R, i)) = n
           us == InOrder(ts, P, R)
<1>1. IsFiniteSet(P)
  <2>1. IsFiniteSet(1 .. Len(ts))
    BY TableIs, FS_Interval
  <2> QED BY <2>1, FS_Subset
<1>2. /\ size \in Nat
      /\ \A n \in 1 .. size : \E i \in P : Cardinality(UpTo(P, R, i)) = n
      /\ \A i \in P : Cardinality(UpTo(P, R, i)) \in 1 .. size
      /\ \A i, k \in P : Cardinality(UpTo(P, R, i)) = Cardinality(UpTo(P, R, k)) => i = k
  BY <1>1, RanksAreAll
<1>3. ASSUME NEW n \in 1 .. size PROVE at(n) \in P /\ Cardinality(UpTo(P, R, at(n))) = n
  BY <1>2, Zenon
<1>4. us = [n \in 1 .. size |-> ts[at(n)]]
  BY DEF InOrder, UpTo
<1>5. ASSUME NEW i \in P PROVE at(Cardinality(UpTo(P, R, i))) = i
  BY <1>2, <1>3
<1>6. ASSUME NEW n \in 1 .. size, NEW m \in 1 .. size, at(n) = at(m) PROVE n = m
  BY <1>3, <1>6, Zenon
<1> HIDE DEF at, size, us
<1>7. \A n \in 1 .. size : us[n] = ts[at(n)] /\ ts[at(n)] \in Tracks /\ at(n) \in 1 .. Len(ts)
  BY <1>3, <1>4, TableIs
<1>8. us \in Seq(Tracks) /\ Len(us) = size
  BY <1>2, <1>4, <1>7
<1>9. ASSUME NEW n \in 1 .. size, NEW m \in 1 .. size, us[n].id = us[m].id PROVE n = m
  BY <1>6, <1>7, <1>9 DEF Table
<1>10. \A i \in P : \E n \in 1 .. size : n = Cardinality(UpTo(P, R, i)) /\ us[n] = ts[i]
  BY <1>2, <1>5, <1>7
<1> QED BY <1>2, <1>3, <1>7, <1>8, <1>9, <1>10 DEF size, us, Arranged

(* The order in which a table that is too long is cut.                     *)
LEMMA BeforeOrders ==
  /\ \A s \in Tracks : ~Before(s, s)
  /\ \A s, t, u \in Tracks : Before(s, t) /\ Before(t, u) => Before(s, u)
  /\ \A s, t, u \in Tracks : Before(s, u) => Before(s, t) \/ Before(t, u)
<1>1. \A s \in Tracks : s.lost \in Nat /\ s.age \in Nat
  BY DEF Tracks
<1>2. ASSUME NEW s \in Tracks PROVE ~Before(s, s)
  BY <1>1 DEF Before
<1>3. ASSUME NEW s \in Tracks, NEW t \in Tracks, NEW u \in Tracks, Before(s, t), Before(t, u) PROVE Before(s, u)
  BY <1>1, <1>3 DEF Before
<1>4. ASSUME NEW s \in Tracks, NEW t \in Tracks, NEW u \in Tracks, Before(s, u) PROVE Before(s, t) \/ Before(t, u)
  BY <1>1, <1>4 DEF Before
<1> QED BY <1>2, <1>3, <1>4

LEMMA CutOrders ==
  ASSUME NEW ts, Table(ts), NEW P \in SUBSET (1 .. Len(ts))
  PROVE  /\ StrictOrder(P, {p \in P \X P : p[1] < p[2]})
         /\ StrictOrder(P, {p \in P \X P : Ahead(ts, p[1], p[2])})
<1> DEFINE R == {p \in P \X P : p[1] < p[2]}
           Q == {p \in P \X P : Ahead(ts, p[1], p[2])}
<1>1. \A i \in P : i \in Int /\ ts[i] \in Tracks
  BY TableIs
<1>2. \A i, j \in P : <<i, j>> \in R <=> i < j
  OBVIOUS
<1>3. \A i, j \in P : <<i, j>> \in Q <=> Ahead(ts, i, j)
  OBVIOUS
<1> HIDE DEF R, Q
<1>4. /\ \A i \in P : ~Ahead(ts, i, i)
      /\ \A i, j \in P : i # j => Ahead(ts, i, j) \/ Ahead(ts, j, i)
  BY <1>1, BeforeOrders DEF Ahead
<1>7. \A i, j, k \in P : Ahead(ts, i, j) /\ Ahead(ts, j, k) => Ahead(ts, i, k)
  BY <1>1, BeforeOrders DEF Ahead
<1>5. StrictOrder(P, R)
  BY <1>1, <1>2 DEF StrictOrder
<1>6. StrictOrder(P, Q)
  BY <1>3, <1>4, <1>7 DEF StrictOrder
<1> QED BY <1>5, <1>6 DEF R, Q

(* What is trimmed is a table of tracks of the old one, and the track of   *)
(* the lock stays.                                                         *)
LEMMA TrimIs ==
  ASSUME NEW ts, Table(ts)
  PROVE  /\ Table(Trim(ts))
         /\ \A n \in 1 .. Len(Trim(ts)) : \E i \in 1 .. Len(ts) : Trim(ts)[n] = ts[i]
         /\ \A i \in 1 .. Len(ts) : ts[i].active /\ (\A j \in 1 .. Len(ts) : ts[j].active => j = i) =>
              \E n \in 1 .. Len(Trim(ts)) : Trim(ts)[n] = ts[i]
<1> DEFINE P == {i \in DOMAIN ts : ~Dead(ts[i])}
           R == {p \in P \X P : p[1] < p[2]}
           Q == {p \in P \X P : Ahead(ts, p[1], p[2])}
           size == Cardinality(P)
           us == InOrder(ts, P, R)
           vs == InOrder(ts, P, Q)
<1>1. P \in SUBSET (1 .. Len(ts)) /\ \A i \in 1 .. Len(ts) : ts[i].active => i \in P
  BY TableIs DEF Dead
<1>2. Trim(ts) = IF size <= MaxTracks THEN us ELSE SubSeq(vs, 1, MaxTracks)
  BY DEF Trim
<1>3. \A i, j \in P : <<i, j>> \in Q <=> Ahead(ts, i, j)
  OBVIOUS
<1> HIDE DEF P
<1>4. StrictOrder(P, R) /\ StrictOrder(P, Q)
  BY <1>1, CutOrders
<1> HIDE DEF R, Q
<1>5. /\ size \in Nat /\ us \in Seq(Tracks) /\ Len(us) = size
      /\ \A n \in 1 .. size : \E i \in P : us[n] = ts[i]
      /\ \A n, m \in 1 .. size : us[n].id = us[m].id => n = m
      /\ \A i \in P : \E n \in 1 .. size : n = Cardinality(UpTo(P, R, i)) /\ us[n] = ts[i]
  <2>1. size \in Nat /\ Arranged(us, ts, P, R)
    BY <1>1, <1>4, InOrderIs
  <2> HIDE DEF us
  <2> QED BY <2>1, Zenon DEF Arranged
<1>6. /\ vs \in Seq(Tracks) /\ Len(vs) = size
      /\ \A n \in 1 .. size : \E i \in P : vs[n] = ts[i]
      /\ \A n, m \in 1 .. size : vs[n].id = vs[m].id => n = m
      /\ \A i \in P : \E n \in 1 .. size : n = Cardinality(UpTo(P, Q, i)) /\ vs[n] = ts[i]
  <2>1. Arranged(vs, ts, P, Q)
    BY <1>1, <1>4, InOrderIs
  <2> HIDE DEF us, vs
  <2> QED BY <2>1, Zenon DEF Arranged
<1> HIDE DEF us, vs, size
<1>7. CASE size <= MaxTracks
  <2>1. Trim(ts) = us
    BY <1>2, <1>7
  <2>2. Table(us)
    BY <1>5 DEF Table
  <2>3. \A n \in 1 .. Len(us) : \E i \in 1 .. Len(ts) : us[n] = ts[i]
    BY <1>1, <1>5
  <2>4. ASSUME NEW i \in 1 .. Len(ts), ts[i].active PROVE \E n \in 1 .. Len(us) : us[n] = ts[i]
    BY <1>1, <1>5, <2>4
  <2> QED BY <2>1, <2>2, <2>3, <2>4
<1>8. CASE ~(size <= MaxTracks)
  <2> DEFINE ws == SubSeq(vs, 1, MaxTracks)
  <2>1. Trim(ts) = ws
    BY <1>2, <1>8
  <2>2. MaxTracks \in Nat /\ 1 <= MaxTracks /\ MaxTracks <= size
    BY <1>5, <1>8, LimitsAre
  <2>3. /\ ws \in Seq(Tracks) /\ Len(ws) = MaxTracks
        /\ \A n \in 1 .. MaxTracks : ws[n] = vs[n] /\ n \in 1 .. size
    BY <1>5, <1>6, <2>2
  <2> HIDE DEF ws
  <2>4. \A n, m \in 1 .. MaxTracks : ws[n].id = ws[m].id => n = m
    BY <1>6, <2>3
  <2>5. \A n \in 1 .. MaxTracks : \E i \in 1 .. Len(ts) : ws[n] = ts[i]
    BY <1>1, <1>6, <2>3
  <2>6. Table(ws) /\ \A n \in 1 .. Len(ws) : \E i \in 1 .. Len(ts) : ws[n] = ts[i]
    BY <2>3, <2>4, <2>5 DEF Table
  <2>7. ASSUME NEW i \in 1 .. Len(ts), ts[i].active, \A j \in 1 .. Len(ts) : ts[j].active => j = i
        PROVE  \E n \in 1 .. Len(ws) : ws[n] = ts[i]
    <3>1. i \in P
      BY <1>1, <2>7
    <3>2. ASSUME NEW j \in P, <<j, i>> \in Q PROVE FALSE
      <4>1. ts[j] \in Tracks /\ ts[i] \in Tracks /\ Ahead(ts, j, i)
        BY <1>1, <1>3, <3>1, <3>2, TableIs
      <4>2. j # i
        BY <1>1, <4>1, BeforeOrders DEF Ahead
      <4>3. ~ts[j].active
        BY <1>1, <2>7, <4>2
      <4> QED BY <2>7, <4>1, <4>3 DEF Ahead, Before
    <3>3. UpTo(P, Q, i) = {i}
      BY <3>1, <3>2 DEF UpTo
    <3>4. Cardinality(UpTo(P, Q, i)) = 1
      BY <3>3, FS_Singleton
    <3>5. vs[1] = ts[i]
      BY <1>6, <3>1, <3>4
    <3> QED BY <2>2, <2>3, <3>5
  <2> QED BY <2>1, <2>6, <2>7
<1> QED BY <1>7, <1>8

LEMMA TrimSound ==
  ASSUME NEW ts, NEW id, NEW hold, NEW n, TableSound(ts, id, hold, n)
  PROVE  TableSound(Trim(ts), id, hold, n)
<1>1. /\ Table(Trim(ts))
      /\ \A k \in 1 .. Len(Trim(ts)) : \E i \in 1 .. Len(ts) : Trim(ts)[k] = ts[i]
  BY TrimIs DEF TableSound
<1>2. ASSUME id # 0 PROVE \E k \in 1 .. Len(Trim(ts)) : Trim(ts)[k].id = id
  <2>1. PICK i \in 1 .. Len(ts) : ts[i].id = id
    BY <1>2 DEF TableSound, LockedBy
  <2>2. ts[i].active /\ \A j \in 1 .. Len(ts) : ts[j].active => j = i
    BY <2>1 DEF TableSound, LockedBy, Table
  <2>3. \E k \in 1 .. Len(Trim(ts)) : Trim(ts)[k] = ts[i]
    BY <2>2, TrimIs DEF TableSound
  <2> QED BY <2>1, <2>3
<1>3. LockedBy(Trim(ts), id)
  BY <1>1, <1>2 DEF TableSound, LockedBy
<1>4. FreeAreOld(Trim(ts)) /\ HeldSeen(Trim(ts), hold) /\ Known(Trim(ts), n)
  BY <1>1 DEF TableSound, FreeAreOld, HeldSeen, Known
<1> QED BY <1>1, <1>3, <1>4 DEF TableSound

LEMMA TrackChanged ==
  ASSUME NEW t \in Tracks, NEW b \in BOOLEAN, NEW u, u = [t EXCEPT !.lost = @ + 1, !.active = b]
  PROVE  u \in Tracks /\ u.id = t.id /\ u.at = t.at /\ u.age = t.age /\ (u.active <=> b)
<1>1. /\ t = [id |-> t.id, at |-> t.at, age |-> t.age, lost |-> t.lost, active |-> t.active]
      /\ t.id \in Nat \ {0} /\ t.at \in Places /\ t.age \in Nat /\ t.lost \in Nat
  BY DEF Tracks
<1>2. u = [id |-> t.id, at |-> t.at, age |-> t.age, lost |-> t.lost + 1, active |-> b]
  BY <1>1
<1> QED BY <1>1, <1>2 DEF Tracks

LEMMA TrackSequence ==
  ASSUME NEW n \in Nat, NEW us, us = [i \in 1 .. n |-> us[i]], \A i \in 1 .. n : us[i] \in Tracks
  PROVE  us \in Seq(Tracks) /\ Len(us) = n
<1>1. us \in [1 .. n -> Tracks]
  OBVIOUS
<1> QED BY <1>1

(* A frame makes the table older.                                          *)
LEMMA AgedSound ==
  ASSUME SelectorInv
  PROVE  TableSound(Aged, active, HeldOlder, nextId) /\ HeldOlder \in [id : Nat, age : Nat]
<1> DEFINE us == Aged
<1>1. TableSound(tracks, active, held, nextId) /\ Table(tracks) /\ held.id \in Nat /\ held.age \in Nat
  BY DEF SelectorInv, SelectorTyped, TableSound
<1>2. /\ Len(tracks) \in Nat /\ DOMAIN tracks = 1 .. Len(tracks)
      /\ \A i \in 1 .. Len(tracks) : tracks[i] \in Tracks /\ tracks[i].age \in Nat
  BY <1>1, TableIs
<1>3. us = [i \in 1 .. Len(tracks) |-> [tracks[i] EXCEPT !.age = Older(@)]]
  BY <1>2 DEF Aged
<1> HIDE DEF us
<1>4. \A i \in 1 .. Len(tracks) :
        /\ us[i] \in Tracks /\ us[i].id = tracks[i].id /\ us[i].active = tracks[i].active
        /\ us[i].age = Older(tracks[i].age)
  BY <1>2, <1>3, OlderIs DEF Tracks
<1>5. us \in Seq(Tracks) /\ Len(us) = Len(tracks)
  <2>1. us = [i \in 1 .. Len(tracks) |-> us[i]]
    BY <1>3
  <2> QED BY <2>1, <1>2, <1>4, TrackSequence
<1>6. HeldOlder = [id |-> held.id, age |-> Older(held.age)]
  BY DEF SelectorInv, SelectorTyped, HeldOlder
<1>7. Table(us) /\ Known(us, nextId)
  BY <1>1, <1>4, <1>5 DEF Table, Known, TableSound
<1>8. LockedBy(us, active)
  BY <1>1, <1>4, <1>5 DEF LockedBy, TableSound
<1>9. FreeAreOld(us)
  <2> SUFFICES ASSUME NEW i \in 1 .. Len(us), ~us[i].active PROVE us[i].age >= LostGrace
    BY DEF FreeAreOld
  <2>1. tracks[i].age >= LostGrace /\ tracks[i].age \in Nat
    BY <1>1, <1>2, <1>4, <1>5 DEF TableSound, FreeAreOld
  <2>2. us[i].age = Older(tracks[i].age)
    BY <1>4, <1>5
  <2>3. tracks[i].age <= Older(tracks[i].age) /\ Older(tracks[i].age) \in Nat /\ LostGrace \in Nat
    BY <2>1, OlderIs, LimitsAre
  <2> QED BY <2>1, <2>2, <2>3
<1>10. HeldSeen(us, HeldOlder)
  <2> SUFFICES ASSUME NEW i \in 1 .. Len(us), us[i].id = held.id PROVE us[i].age <= Older(held.age)
    BY <1>6 DEF HeldSeen
  <2>1. tracks[i].age <= held.age /\ tracks[i].age \in Nat
    BY <1>1, <1>2, <1>4, <1>5 DEF TableSound, HeldSeen
  <2>2. us[i].age = Older(tracks[i].age)
    BY <1>4, <1>5
  <2> QED BY <1>1, <2>1, <2>2, OlderIs
<1> QED BY <1>1, <1>6, <1>7, <1>8, <1>9, <1>10, OlderIs DEF TableSound, us

LEMMA MissedSound ==
  ASSUME NEW ts, NEW id \in Nat, NEW hold, NEW n, TableSound(ts, id, hold, n)
  PROVE  TableSound(Missed(ts), IF \E i \in DOMAIN ts : GivesUp(ts[i]) THEN 0 ELSE id, hold, n)
<1> DEFINE us == Missed(ts)
           id2 == IF \E i \in DOMAIN ts : GivesUp(ts[i]) THEN 0 ELSE id
<1>1. /\ Table(ts) /\ Len(ts) \in Nat /\ DOMAIN ts = 1 .. Len(ts)
      /\ \A i \in 1 .. Len(ts) : /\ ts[i] \in Tracks /\ ts[i].age \in Nat /\ ts[i].lost \in Nat
                                 /\ ts[i].id \in Nat \ {0} /\ ts[i].active \in BOOLEAN
  BY TableIs DEF TableSound
<1>2. us = [i \in 1 .. Len(ts) |-> IF ts[i].active
                                   THEN [ts[i] EXCEPT !.lost = @ + 1, !.active = ~GivesUp(ts[i])]
                                   ELSE ts[i]]
  BY <1>1 DEF Missed
<1> HIDE DEF us
<1>3. \A i \in 1 .. Len(ts) :
        /\ us[i] \in Tracks /\ us[i].id = ts[i].id /\ us[i].age = ts[i].age
        /\ us[i].active <=> ts[i].active /\ ts[i].age < LostGrace
  <2> SUFFICES ASSUME NEW i \in 1 .. Len(ts)
               PROVE  /\ us[i] \in Tracks /\ us[i].id = ts[i].id /\ us[i].age = ts[i].age
                      /\ us[i].active <=> ts[i].active /\ ts[i].age < LostGrace
    OBVIOUS
  <2>1. CASE ts[i].active
    <3>1. us[i] = [ts[i] EXCEPT !.lost = @ + 1, !.active = ~GivesUp(ts[i])]
      BY <1>2, <2>1
    <3>2. GivesUp(ts[i]) \in BOOLEAN /\ (~GivesUp(ts[i]) <=> ts[i].age < LostGrace)
      BY <1>1, <2>1, LimitsAre DEF GivesUp
    <3>3. /\ us[i] \in Tracks /\ us[i].id = ts[i].id /\ us[i].age = ts[i].age
          /\ us[i].active <=> ~GivesUp(ts[i])
      BY <1>1, <3>1, <3>2, TrackChanged
    <3> QED BY <2>1, <3>2, <3>3
  <2>2. CASE ~ts[i].active
    <3>1. us[i] = ts[i]
      BY <1>2, <2>2
    <3> QED BY <1>1, <2>2, <3>1
  <2> QED BY <2>1, <2>2
<1>4. us \in Seq(Tracks) /\ Len(us) = Len(ts)
  <2>1. us = [i \in 1 .. Len(ts) |-> us[i]]
    BY <1>2
  <2> QED BY <2>1, <1>1, <1>3, TrackSequence
<1>5. Table(us) /\ Known(us, n) /\ HeldSeen(us, hold)
  BY <1>3, <1>4 DEF Table, Known, HeldSeen, TableSound
<1>6. FreeAreOld(us)
  BY <1>1, <1>3, <1>4, LimitsAre DEF FreeAreOld, TableSound
<1>7. LockedBy(us, id2)
  <2>1. CASE \E i \in 1 .. Len(ts) : GivesUp(ts[i])
    <3>1. PICK i \in 1 .. Len(ts) : GivesUp(ts[i])
      BY <2>1
    <3>2. \A j \in 1 .. Len(ts) : ts[j].active => j = i
      BY <3>1 DEF GivesUp, TableSound, LockedBy, Table
    <3>3. \A j \in 1 .. Len(ts) : ~us[j].active
      BY <1>1, <1>3, <3>1, <3>2, LimitsAre DEF GivesUp
    <3>4. id2 = 0 /\ \A j \in 1 .. Len(ts) : us[j].id # 0
      BY <1>1, <1>3, <2>1
    <3> HIDE DEF id2
    <3> QED BY <1>4, <3>3, <3>4 DEF LockedBy
  <2>2. CASE ~\E i \in 1 .. Len(ts) : GivesUp(ts[i])
    <3>1. \A i \in 1 .. Len(ts) : us[i].active <=> ts[i].active
      BY <1>1, <1>3, <2>2, LimitsAre DEF GivesUp
    <3>2. id2 = id
      BY <1>1, <2>2
    <3> HIDE DEF id2
    <3> QED BY <1>3, <1>4, <3>1, <3>2 DEF LockedBy, TableSound
  <2> QED BY <2>1, <2>2
<1> QED BY <1>5, <1>6, <1>7 DEF TableSound, us

(* When the selector searches, the track of the lock is old enough.        *)
LEMMA FreedSound ==
  ASSUME SelectorInv, NEW ts, NEW hold, TableSound(ts, active, hold, nextId),
         NEW dets, Searching(ts, dets)
  PROVE  TableSound(Freed(ts), 0, hold, nextId)
<1> DEFINE us == Freed(ts)
<1>1. /\ Table(ts) /\ Len(ts) \in Nat /\ DOMAIN ts = 1 .. Len(ts)
      /\ \A i \in 1 .. Len(ts) : /\ ts[i] \in Tracks /\ ts[i].age \in Nat /\ ts[i].lost \in Nat
                                 /\ ts[i].id \in Nat \ {0} /\ ts[i].active \in BOOLEAN
  BY TableIs DEF TableSound
<1>2. us = [i \in 1 .. Len(ts) |-> IF ts[i].id = active
                                   THEN [ts[i] EXCEPT !.lost = @ + 1, !.active = FALSE]
                                   ELSE ts[i]]
  BY <1>1 DEF Freed
<1> HIDE DEF us
<1>3. \A i \in 1 .. Len(ts) :
        us[i] \in Tracks /\ us[i].id = ts[i].id /\ us[i].age = ts[i].age /\ ~us[i].active
  <2> SUFFICES ASSUME NEW i \in 1 .. Len(ts)
               PROVE  us[i] \in Tracks /\ us[i].id = ts[i].id /\ us[i].age = ts[i].age /\ ~us[i].active
    OBVIOUS
  <2>1. CASE ts[i].id = active
    <3>1. us[i] = [ts[i] EXCEPT !.lost = @ + 1, !.active = FALSE]
      BY <1>2, <2>1
    <3> QED BY <1>1, <3>1, TrackChanged
  <2>2. CASE ts[i].id # active
    BY <1>1, <1>2, <2>2 DEF TableSound, LockedBy
  <2> QED BY <2>1, <2>2
<1>4. us \in Seq(Tracks) /\ Len(us) = Len(ts)
  <2>1. us = [i \in 1 .. Len(ts) |-> us[i]]
    BY <1>2
  <2> QED BY <2>1, <1>1, <1>3, TrackSequence
<1>5. Table(us) /\ Known(us, nextId) /\ HeldSeen(us, hold)
  BY <1>3, <1>4 DEF Table, Known, HeldSeen, TableSound
<1>6. LockedBy(us, 0)
  BY <1>1, <1>3, <1>4 DEF LockedBy
<1>7. ASSUME NEW i \in 1 .. Len(ts) PROVE ts[i].age >= LostGrace
  <2>1. CASE ts[i].active
    <3>1. ts[i].id = active /\ active # 0 /\ i \in Locked(ts)
      BY <1>1, <2>1 DEF TableSound, LockedBy, Locked
    <3>2. PICK j \in Missing(ts, dets) : ts[j].age >= GraceLeft
      BY <3>1 DEF Searching
    <3>3. j \in 1 .. Len(ts) /\ ts[j].id = active
      BY <1>1 DEF Missing, Locked
    <3>4. i = j
      BY <1>1, <3>1, <3>3 DEF Table
    <3> QED BY <3>2, <3>4 DEF GraceLeft
  <2>2. CASE ~ts[i].active
    BY <2>2 DEF TableSound, FreeAreOld
  <2> QED BY <2>1, <2>2
<1>8. FreeAreOld(us)
  BY <1>3, <1>4, <1>7 DEF FreeAreOld
<1> QED BY <1>5, <1>6, <1>8 DEF TableSound, us

(* A track that is found again is the lock of a table without one.         *)
LEMMA SeenSound ==
  ASSUME NEW ts, NEW hold \in [id : Nat, age : Nat], NEW n, TableSound(ts, 0, hold, n),
         NEW i \in 1 .. Len(ts), NEW p \in Places
  PROVE  /\ TableSound(Seen(ts, i, p), ts[i].id, hold, n)
         /\ Len(Seen(ts, i, p)) = Len(ts) /\ Seen(ts, i, p)[i].id = ts[i].id /\ Seen(ts, i, p)[i].age = 0
         /\ ts[i].id \in Nat \ {0}
<1> DEFINE us == Seen(ts, i, p)
<1>1. /\ Table(ts) /\ Len(ts) \in Nat /\ DOMAIN ts = 1 .. Len(ts)
      /\ \A j \in 1 .. Len(ts) : /\ ts[j] \in Tracks /\ ts[j].age \in Nat /\ ts[j].id \in Nat \ {0}
                                 /\ ts[j].active \in BOOLEAN /\ ~ts[j].active
  BY TableIs DEF TableSound, LockedBy
<1>2. us = [j \in 1 .. Len(ts) |-> IF j = i
                                   THEN [ts[j] EXCEPT !.at = p, !.lost = 0, !.age = 0, !.active = TRUE]
                                   ELSE ts[j]]
  BY <1>1 DEF Seen
<1> HIDE DEF us
<1>3. /\ us[i] \in Tracks /\ us[i].id = ts[i].id /\ us[i].age = 0 /\ us[i].active
      /\ \A j \in 1 .. Len(ts) : j # i => us[j] = ts[j]
  BY <1>1, <1>2 DEF Tracks
<1>4. us \in Seq(Tracks) /\ Len(us) = Len(ts)
  <2>1. us = [j \in 1 .. Len(ts) |-> us[j]]
    BY <1>2
  <2> QED BY <2>1, <1>1, <1>3, TrackSequence
<1>5. \A j \in 1 .. Len(ts) : us[j].id = ts[j].id
  BY <1>3
<1>6. Table(us) /\ Known(us, n)
  BY <1>4, <1>5 DEF Table, Known, TableSound
<1>7. LockedBy(us, ts[i].id)
  BY <1>1, <1>3, <1>4, <1>5 DEF LockedBy, Table
<1>8. FreeAreOld(us)
  BY <1>3, <1>4 DEF FreeAreOld, TableSound
<1>9. HeldSeen(us, hold)
  <2>1. hold.age \in Nat /\ 0 <= hold.age
    OBVIOUS
  <2> QED BY <1>3, <1>4, <2>1 DEF HeldSeen, TableSound
<1> QED BY <1>1, <1>3, <1>4, <1>6, <1>7, <1>8, <1>9 DEF TableSound, us

LEMMA ReleasedSound ==
  ASSUME NEW ts, NEW hold, NEW n, TableSound(ts, 0, hold, n)
  PROVE  /\ TableSound(Released(ts), 0, hold, n) /\ Len(Released(ts)) = Len(ts)
         /\ \A i \in 1 .. Len(ts) : Released(ts)[i] = ts[i]
<1>1. /\ ts \in Seq(Tracks) /\ Len(ts) \in Nat /\ DOMAIN ts = 1 .. Len(ts)
      /\ \A j \in 1 .. Len(ts) : ts[j] \in Tracks /\ ts[j].active \in BOOLEAN /\ ~ts[j].active
  BY TableIs DEF TableSound, LockedBy, Table
<1>2. ASSUME NEW j \in 1 .. Len(ts) PROVE [ts[j] EXCEPT !.active = FALSE] = ts[j]
  <2>1. ts[j].active = FALSE /\ ts[j] \in Tracks
    BY <1>1
  <2> QED BY <2>1 DEF Tracks
<1>3. Released(ts) = [j \in 1 .. Len(ts) |-> ts[j]]
  BY <1>1, <1>2 DEF Released
<1>4. Released(ts) = ts
  BY <1>1, <1>3
<1> QED BY <1>4

(* The table without a lock in which the selector searches.                *)
LEMMA SearchSound ==
  ASSUME SelectorInv, NEW dets, Searching(Trim(Aged), dets)
  PROVE  TableSound(Freed(Trim(Aged)), 0, HeldOlder, nextId)
<1>1. TableSound(Trim(Aged), active, HeldOlder, nextId)
  BY AgedSound, TrimSound
<1> QED BY <1>1, FreedSound

LEMMA OneOfAnId ==
  ASSUME NEW ts, Table(ts), NEW i \in 1 .. Len(ts), NEW id, id = ts[i].id
  PROVE  (CHOOSE j \in DOMAIN ts : ts[j].id = id) = i
<1>1. DOMAIN ts = 1 .. Len(ts)
  BY TableIs
<1>2. \A j \in DOMAIN ts : ts[j].id = id => j = i
  BY <1>1 DEF Table
<1> QED BY <1>1, <1>2, Zenon

(* What a step has to bring about.                                         *)
LEMMA StepSound ==
  ASSUME SelectorInv, nextId' \in Nat \ {0}, active' \in Nat, held' \in [id : Nat, age : Nat],
         TableSound(tracks', active', held', nextId'),
         \/ out'.id = 0
         \/ \E i \in 1 .. Len(tracks') :
              /\ tracks'[i].id = out'.id
              /\ out'.by \in {"track", "rect", "score"} => tracks'[i].age = 0
              /\ out'.by = "kept" => tracks'[i].age < LostGrace
              /\ out'.by = "held" => tracks'[i].age < Hold
  PROVE  SelectorInv'
<1>1. SelectorTyped' /\ TableSound(tracks, active, held, nextId)'
  BY DEF SelectorTyped
<1>2. NoGhost'
  <2>1. CASE out'.id = 0
    BY <2>1 DEF NoGhost
  <2>2. CASE \E i \in 1 .. Len(tracks') :
              /\ tracks'[i].id = out'.id
              /\ out'.by \in {"track", "rect", "score"} => tracks'[i].age = 0
              /\ out'.by = "kept" => tracks'[i].age < LostGrace
              /\ out'.by = "held" => tracks'[i].age < Hold
    <3>1. PICK i \in 1 .. Len(tracks') :
              /\ tracks'[i].id = out'.id
              /\ out'.by \in {"track", "rect", "score"} => tracks'[i].age = 0
              /\ out'.by = "kept" => tracks'[i].age < LostGrace
              /\ out'.by = "held" => tracks'[i].age < Hold
      BY <2>2
    <3>2. Table(tracks')
      BY DEF TableSound
    <3>3. (CHOOSE j \in DOMAIN tracks' : tracks'[j].id = out'.id) = i
      BY <3>1, <3>2, OneOfAnId
    <3>4. AgeOf(out.id)' = tracks'[i].age
      BY <3>3 DEF AgeOf
    <3> QED BY <3>1, <3>4 DEF NoGhost
  <2> QED BY <2>1, <2>2
<1> QED BY <1>1, <1>2 DEF SelectorInv

LEMMA TickedHeld ==
  ASSUME SelectorInv, TickHeld
  PROVE  held' = HeldOlder /\ held' \in [id : Nat, age : Nat]
  BY AgedSound DEF TickHeld, HeldOlder
-----------------------------------------------------------------------------
LEMMA NoTargetSound ==
  ASSUME SelectorInv, NEW dets \in Inputs, NoTarget(dets)
  PROVE  SelectorInv'
<1> DEFINE ts == IF dets = {} THEN Aged ELSE Trim(Aged)
           id2 == IF \E i \in DOMAIN ts : GivesUp(ts[i]) THEN 0 ELSE active
<1>1. active \in Nat /\ nextId \in Nat \ {0}
  BY DEF SelectorInv, SelectorTyped
<1>2. TableSound(ts, active, HeldOlder, nextId)
  BY AgedSound, TrimSound
<1>3. tracks' = Trim(Missed(ts)) /\ active' = id2 /\ nextId' = nextId /\ TickHeld
  BY DEF NoTarget
<1>4. out'.id = 0
  BY DEF NoTarget, Nobody, Target
<1> HIDE DEF ts
<1>5. TableSound(Missed(ts), id2, HeldOlder, nextId)
  BY <1>1, <1>2, MissedSound
<1>6. id2 \in Nat
  BY <1>1
<1> HIDE DEF id2
<1>7. TableSound(tracks', active', HeldOlder, nextId)
  BY <1>3, <1>5, TrimSound
<1> QED BY <1>1, <1>3, <1>4, <1>6, <1>7, TickedHeld, StepSound

(* The locked track at a place of this frame, or where it was.             *)
LEMMA TrackLockSound ==
  ASSUME SelectorInv, NEW dets \in Inputs, TrackLock(dets)
  PROVE  SelectorInv'
<1> DEFINE ts == Trim(Aged)
<1>1. active \in Nat /\ nextId \in Nat \ {0}
  BY DEF SelectorInv, SelectorTyped
<1>2. TableSound(ts, active, HeldOlder, nextId)
  BY AgedSound, TrimSound
<1>3. PICK i \in Locked(ts), c \in Candidates(dets) :
        /\ tracks' = [ts EXCEPT ![i].at = c, ![i].lost = 0, ![i].age = 0]
        /\ out' = Target(active, c, "track", Candidates(dets))
  BY DEF TrackLock, Nearest, Within
<1>4. active' = active /\ nextId' = nextId /\ TickHeld
  BY DEF TrackLock
<1> HIDE DEF ts
<1>5. /\ Table(ts) /\ Len(ts) \in Nat /\ DOMAIN ts = 1 .. Len(ts)
      /\ \A j \in 1 .. Len(ts) : /\ ts[j] \in Tracks /\ ts[j].age \in Nat /\ ts[j].id \in Nat \ {0}
                                 /\ ts[j].active \in BOOLEAN
  BY <1>2, TableIs DEF TableSound
<1>6. i \in 1 .. Len(ts) /\ ts[i].id = active /\ c \in Places
  BY <1>5, CandidatesAre DEF Locked
<1>7. tracks' = [j \in 1 .. Len(ts) |-> IF j = i
                   THEN [ts[j] EXCEPT !.at = c, !.lost = 0, !.age = 0] ELSE ts[j]]
  BY <1>3, <1>5, <1>6
<1>8. /\ tracks'[i] \in Tracks /\ tracks'[i].id = ts[i].id /\ tracks'[i].age = 0
      /\ tracks'[i].active = ts[i].active
      /\ \A j \in 1 .. Len(ts) : j # i => tracks'[j] = ts[j]
  BY <1>5, <1>6, <1>7 DEF Tracks
<1>9. tracks' \in Seq(Tracks) /\ Len(tracks') = Len(ts)
  <2> DEFINE us == tracks'
  <2>1. us = [j \in 1 .. Len(ts) |-> us[j]]
    BY <1>7
  <2>2. \A j \in 1 .. Len(ts) : us[j] \in Tracks
    BY <1>5, <1>8
  <2> HIDE DEF us
  <2>3. us \in Seq(Tracks) /\ Len(us) = Len(ts)
    BY <2>1, <2>2, <1>5, TrackSequence
  <2> QED BY <2>3 DEF us
<1>10. Table(tracks') /\ Known(tracks', nextId) /\ LockedBy(tracks', active)
  BY <1>2, <1>8, <1>9 DEF Table, Known, LockedBy, TableSound
<1>11. FreeAreOld(tracks')
  BY <1>2, <1>5, <1>6, <1>8, <1>9 DEF FreeAreOld, LockedBy, TableSound
<1>12. HeldSeen(tracks', HeldOlder)
  <2>1. HeldOlder.age \in Nat /\ 0 <= HeldOlder.age
    BY AgedSound
  <2> QED BY <1>2, <1>8, <1>9, <2>1 DEF HeldSeen, TableSound
<1>13. TableSound(tracks', active', held', nextId')
  BY <1>4, <1>10, <1>11, <1>12, TickedHeld DEF TableSound
<1>14. out'.id = active /\ out'.by = "track"
  BY <1>3 DEF Target
<1>15. \E j \in 1 .. Len(tracks') :
              /\ tracks'[j].id = out'.id
              /\ out'.by \in {"track", "rect", "score"} => tracks'[j].age = 0
              /\ out'.by = "kept" => tracks'[j].age < LostGrace
              /\ out'.by = "held" => tracks'[j].age < Hold
  BY <1>6, <1>8, <1>9, <1>14
<1> QED BY <1>1, <1>4, <1>13, <1>15, TickedHeld, StepSound

LEMMA KeepsLockSound ==
  ASSUME SelectorInv, NEW dets \in Inputs, KeepsLock(dets)
  PROVE  SelectorInv'
<1> DEFINE ts == Trim(Aged)
<1>1. active \in Nat /\ nextId \in Nat \ {0}
  BY DEF SelectorInv, SelectorTyped
<1>2. TableSound(ts, active, HeldOlder, nextId)
  BY AgedSound, TrimSound
<1>3. PICK i \in Locked(ts) :
        /\ ts[i].age < LostGrace
        /\ tracks' = [ts EXCEPT ![i].lost = @ + 1]
        /\ out' = Target(active, ts[i].at, "kept", Candidates(dets))
  BY DEF KeepsLock, Missing, GraceLeft
<1>4. active' = active /\ nextId' = nextId /\ TickHeld
  BY DEF KeepsLock
<1> HIDE DEF ts
<1>5. /\ Table(ts) /\ Len(ts) \in Nat /\ DOMAIN ts = 1 .. Len(ts)
      /\ \A j \in 1 .. Len(ts) : ts[j] \in Tracks /\ ts[j].active \in BOOLEAN /\ ts[j].lost \in Nat
  BY <1>2, TableIs DEF TableSound
<1>6. i \in 1 .. Len(ts) /\ ts[i].id = active
  BY <1>5 DEF Locked
<1>7. tracks' = [j \in 1 .. Len(ts) |-> IF j = i THEN [ts[j] EXCEPT !.lost = @ + 1] ELSE ts[j]]
  BY <1>3, <1>5, <1>6
<1>8. \A j \in 1 .. Len(ts) :
        /\ tracks'[j] \in Tracks /\ tracks'[j].id = ts[j].id /\ tracks'[j].age = ts[j].age
        /\ tracks'[j].active = ts[j].active
  BY <1>5, <1>6, <1>7 DEF Tracks
<1>9. tracks' \in Seq(Tracks) /\ Len(tracks') = Len(ts)
  <2> DEFINE us == tracks'
  <2>1. us = [j \in 1 .. Len(ts) |-> us[j]]
    BY <1>7
  <2>2. \A j \in 1 .. Len(ts) : us[j] \in Tracks
    BY <1>8
  <2> HIDE DEF us
  <2>3. us \in Seq(Tracks) /\ Len(us) = Len(ts)
    BY <2>1, <2>2, <1>5, TrackSequence
  <2> QED BY <2>3 DEF us
<1>10. TableSound(tracks', active, HeldOlder, nextId)
  BY <1>2, <1>8, <1>9 DEF Table, Known, LockedBy, FreeAreOld, HeldSeen, TableSound
<1>11. TableSound(tracks', active', held', nextId')
  BY <1>4, <1>10, TickedHeld
<1>12. out'.id = active /\ out'.by = "kept"
  BY <1>3 DEF Target
<1>13. \E j \in 1 .. Len(tracks') :
              /\ tracks'[j].id = out'.id
              /\ out'.by \in {"track", "rect", "score"} => tracks'[j].age = 0
              /\ out'.by = "kept" => tracks'[j].age < LostGrace
              /\ out'.by = "held" => tracks'[j].age < Hold
  BY <1>3, <1>6, <1>8, <1>9, <1>12
<1> QED BY <1>1, <1>4, <1>11, <1>13, TickedHeld, StepSound

LEMMA RectLockSound ==
  ASSUME SelectorInv, NEW dets \in Inputs, RectLock(dets)
  PROVE  SelectorInv'
<1> DEFINE ts == Freed(Trim(Aged))
<1>1. nextId \in Nat \ {0}
  BY DEF SelectorInv, SelectorTyped
<1>2. TableSound(ts, 0, HeldOlder, nextId)
  BY SearchSound DEF RectLock
<1>3. PICK p \in Pairs(ts, Candidates(dets)) :
        /\ tracks' = Seen(Released(ts), p[1], p[2]) /\ active' = ts[p[1]].id
        /\ out' = Target(ts[p[1]].id, p[2], "rect", Candidates(dets))
  BY DEF RectLock
<1>4. nextId' = nextId /\ TickHeld
  BY DEF RectLock
<1> HIDE DEF ts
<1>5. Table(ts) /\ DOMAIN ts = 1 .. Len(ts)
  BY <1>2, TableIs DEF TableSound
<1> DEFINE i == p[1]
           us == Released(ts)
<1>6. i \in 1 .. Len(ts) /\ p[2] \in Places
  BY <1>5, CandidatesAre DEF Pairs
<1>7. TableSound(us, 0, HeldOlder, nextId) /\ i \in 1 .. Len(us) /\ us[i].id = ts[i].id
  BY <1>2, <1>6, ReleasedSound
<1>8. HeldOlder \in [id : Nat, age : Nat]
  BY AgedSound
<1> HIDE DEF us
<1>9. /\ TableSound(tracks', us[i].id, HeldOlder, nextId)
      /\ Len(tracks') = Len(us) /\ tracks'[i].id = us[i].id /\ tracks'[i].age = 0
      /\ us[i].id \in Nat \ {0}
  BY <1>3, <1>6, <1>7, <1>8, SeenSound DEF us
<1>10. active' = us[i].id /\ out'.id = us[i].id /\ out'.by = "rect"
  BY <1>3, <1>7 DEF Target
<1>11. \E j \in 1 .. Len(tracks') :
              /\ tracks'[j].id = out'.id
              /\ out'.by \in {"track", "rect", "score"} => tracks'[j].age = 0
              /\ out'.by = "kept" => tracks'[j].age < LostGrace
              /\ out'.by = "held" => tracks'[j].age < Hold
  BY <1>7, <1>9, <1>10
<1> QED BY <1>1, <1>4, <1>9, <1>10, <1>11, TickedHeld, StepSound

LEMMA HoldsLockSound ==
  ASSUME SelectorInv, NEW dets \in Inputs, HoldsLock(dets)
  PROVE  SelectorInv'
<1> DEFINE ts == Freed(Trim(Aged))
<1>1. nextId \in Nat \ {0}
  BY DEF SelectorInv, SelectorTyped
<1>2. TableSound(ts, 0, HeldOlder, nextId)
  BY SearchSound DEF HoldsLock, Searched
<1>3. PICK i \in Holding(ts) : out' = Target(held.id, ts[i].at, "held", Candidates(dets))
  BY DEF HoldsLock
<1>4. tracks' = ts /\ active' = 0 /\ nextId' = nextId /\ TickHeld
  BY DEF HoldsLock
<1> HIDE DEF ts
<1>5. /\ Table(ts) /\ DOMAIN ts = 1 .. Len(ts) /\ \A j \in 1 .. Len(ts) : ts[j].age \in Nat
  BY <1>2, TableIs DEF TableSound
<1>6. i \in 1 .. Len(ts) /\ ts[i].id = held.id /\ Older(held.age) < Hold
  BY <1>5 DEF Holding
<1>7. HeldOlder.id = held.id /\ HeldOlder.age = Older(held.age) /\ HeldOlder.age \in Nat
  BY AgedSound DEF SelectorInv, SelectorTyped, HeldOlder
<1>8. ts[i].age <= HeldOlder.age
  BY <1>2, <1>6, <1>7 DEF TableSound, HeldSeen
<1>9. ts[i].age < Hold
  BY <1>5, <1>6, <1>7, <1>8, LimitsAre
<1>10. out'.id = held.id /\ out'.by = "held"
  BY <1>3 DEF Target
<1>11. \E j \in 1 .. Len(tracks') :
              /\ tracks'[j].id = out'.id
              /\ out'.by \in {"track", "rect", "score"} => tracks'[j].age = 0
              /\ out'.by = "kept" => tracks'[j].age < LostGrace
              /\ out'.by = "held" => tracks'[j].age < Hold
  BY <1>4, <1>6, <1>9, <1>10
<1> QED BY <1>1, <1>2, <1>4, <1>11, TickedHeld, StepSound

LEMMA BlockedSound ==
  ASSUME SelectorInv, NEW dets \in Inputs, Blocked(dets)
  PROVE  SelectorInv'
<1>1. nextId \in Nat \ {0}
  BY DEF SelectorInv, SelectorTyped
<1>2. TableSound(Freed(Trim(Aged)), 0, HeldOlder, nextId)
  BY SearchSound DEF Blocked, Searched
<1>3. tracks' = Freed(Trim(Aged)) /\ active' = 0 /\ nextId' = nextId /\ TickHeld
  BY DEF Blocked
<1>4. out'.id = 0
  BY DEF Blocked, Nobody, Target
<1> QED BY <1>1, <1>2, <1>3, <1>4, TickedHeld, StepSound

(* The first of some positions of a table.                                 *)
LEMMA FirstIs ==
  ASSUME NEW ts, Table(ts), NEW P \in SUBSET (1 .. Len(ts)), P # {}
  PROVE  (CHOOSE j \in P : \A k \in P : j <= k) \in P
<1> DEFINE R == {p \in P \X P : p[1] < p[2]}
<1>1. IsFiniteSet(P) /\ P \subseteq Nat
  <2>1. Len(ts) \in Nat
    BY TableIs
  <2>2. IsFiniteSet(1 .. Len(ts)) /\ 1 .. Len(ts) \subseteq Nat
    BY <2>1, FS_Interval
  <2> QED BY <2>2, FS_Subset
<1>2. StrictOrder(P, R)
  BY CutOrders
<1>3. \A i, j \in P : <<i, j>> \in R <=> i < j
  OBVIOUS
<1> HIDE DEF R
<1>4. Cardinality(P) \in Nat /\ \A n \in 1 .. Cardinality(P) : \E i \in P : Cardinality(UpTo(P, R, i)) = n
  <2>1. IsFiniteSet(P) /\ StrictOrder(P, R)
    BY <1>1, <1>2
  <2>2. /\ Cardinality(P) \in Nat
        /\ \A n \in 1 .. Cardinality(P) : \E i \in P : Cardinality(UpTo(P, R, i)) = n
        /\ \A i \in P : Cardinality(UpTo(P, R, i)) \in 1 .. Cardinality(P)
        /\ \A i, k \in P : Cardinality(UpTo(P, R, i)) = Cardinality(UpTo(P, R, k)) => i = k
    BY <2>1, RanksAreAll, Zenon
  <2> QED BY <2>2
<1>5. Cardinality(P) # 0
  BY <1>1, FS_EmptySet
<1>6. PICK i \in P : Cardinality(UpTo(P, R, i)) = 1
  BY <1>4, <1>5
<1>7. UpTo(P, R, i) = {i}
  <2>1. UpTo(P, R, i) \in SUBSET P /\ i \in UpTo(P, R, i)
    BY DEF UpTo
  <2>2. IsFiniteSet(UpTo(P, R, i))
    BY <1>1, <2>1, FS_Subset
  <2> QED BY <1>6, <2>1, <2>2, FS_Singleton
<1>8. \A k \in P : i <= k
  <2> SUFFICES ASSUME NEW k \in P, ~(i <= k) PROVE FALSE
    OBVIOUS
  <2>1. <<k, i>> \in R /\ k # i
    BY <1>1, <1>3
  <2> QED BY <1>7, <2>1 DEF UpTo
<1> QED BY <1>8, Zenon

LEMMA AppendSound ==
  ASSUME NEW ts, NEW hold \in [id : Nat, age : Nat], nextId \in Nat \ {0},
         TableSound(ts, 0, hold, nextId), NEW c \in Places
  PROVE  /\ TableSound(Append(ts, NewTrack(c)), nextId, hold, nextId + 1)
         /\ Len(ts) + 1 \in 1 .. Len(Append(ts, NewTrack(c)))
         /\ Append(ts, NewTrack(c))[Len(ts) + 1].id = nextId
         /\ Append(ts, NewTrack(c))[Len(ts) + 1].age = 0
<1> DEFINE t == NewTrack(c)
           us == Append(ts, t)
<1>1. /\ Table(ts) /\ ts \in Seq(Tracks) /\ Len(ts) \in Nat
      /\ \A j \in 1 .. Len(ts) : ts[j].id \in Nat \ {0} /\ ~ts[j].active /\ ts[j].id < nextId
  BY TableIs DEF TableSound, LockedBy, Table, Known
<1>2. t \in Tracks /\ t.id = nextId /\ t.age = 0 /\ t.active
  BY DEF NewTrack, Tracks
<1> HIDE DEF t
<1>3. /\ us \in Seq(Tracks) /\ Len(us) = Len(ts) + 1
      /\ \A j \in 1 .. Len(ts) : us[j] = ts[j]
      /\ us[Len(ts) + 1] = t
  BY <1>1, <1>2, AppendProperties
<1> HIDE DEF us
<1>4. \A j \in 1 .. Len(us) : j \in 1 .. Len(ts) \/ (j = Len(ts) + 1 /\ us[j] = t)
  BY <1>1, <1>3
<1>5. Table(us)
  BY <1>1, <1>2, <1>3, <1>4 DEF Table
<1>6. LockedBy(us, nextId)
  <2>1. Len(ts) + 1 \in 1 .. Len(us)
    BY <1>1, <1>3
  <2> QED BY <1>1, <1>2, <1>3, <1>4, <2>1 DEF LockedBy
<1>7. FreeAreOld(us)
  BY <1>2, <1>3, <1>4 DEF FreeAreOld, TableSound
<1>8. HeldSeen(us, hold)
  <2>1. hold.age \in Nat /\ 0 <= hold.age
    OBVIOUS
  <2> QED BY <1>2, <1>3, <1>4, <2>1 DEF HeldSeen, TableSound
<1>9. Known(us, nextId + 1)
  BY <1>1, <1>2, <1>3, <1>4 DEF Known
<1> QED BY <1>1, <1>2, <1>3, <1>5, <1>6, <1>7, <1>8, <1>9 DEF TableSound, us, t

LEMMA SwitchSound ==
  ASSUME SelectorInv, NEW dets \in Inputs, Switch(dets)
  PROVE  SelectorInv'
<1> DEFINE ts == Freed(Trim(Aged))
<1>1. nextId \in Nat \ {0} /\ held \in [id : Nat, age : Nat] /\ HeldOlder \in [id : Nat, age : Nat]
  BY AgedSound DEF SelectorInv, SelectorTyped
<1>2. TableSound(ts, 0, HeldOlder, nextId)
  BY SearchSound DEF Switch, Searched
<1>3. PICK c \in Best(Candidates(dets)) :
        LET near == Reusable(ts, c)
            i    == CHOOSE j \in near : \A k \in near : j <= k
        IN /\ IF near # {}
              THEN tracks' = Seen(ts, i, c) /\ active' = ts[i].id /\ nextId' = nextId
              ELSE tracks' = Append(ts, NewTrack(c)) /\ active' = nextId /\ nextId' = nextId + 1
           /\ out' = Target(active', c, "score", Candidates(dets))
  BY DEF Switch
<1>4. IF active' # held.id THEN held' = [id |-> active', age |-> 0] ELSE TickHeld
  BY DEF Switch
<1> HIDE DEF ts
<1>5. c \in Places
  BY CandidatesAre DEF Best, Nearest
<1>6. Table(ts) /\ DOMAIN ts = 1 .. Len(ts)
  BY <1>2, TableIs DEF TableSound
<1>7. /\ TableSound(tracks', active', HeldOlder, nextId') /\ nextId' \in Nat \ {0} /\ active' \in Nat \ {0}
      /\ \E i \in 1 .. Len(tracks') : tracks'[i].id = active' /\ tracks'[i].age = 0
  <2>1. CASE Reusable(ts, c) # {}
    <3> DEFINE near == Reusable(ts, c)
               i == CHOOSE j \in near : \A k \in near : j <= k
    <3>1. tracks' = Seen(ts, i, c) /\ active' = ts[i].id /\ nextId' = nextId
      BY <1>3, <2>1
    <3>2. near \in SUBSET (1 .. Len(ts)) /\ near # {}
      BY <1>6, <2>1 DEF Reusable
    <3> HIDE DEF near
    <3>3. i \in 1 .. Len(ts)
      BY <1>6, <3>2, FirstIs
    <3> HIDE DEF i
    <3>4. /\ TableSound(Seen(ts, i, c), ts[i].id, HeldOlder, nextId)
          /\ Len(Seen(ts, i, c)) = Len(ts) /\ Seen(ts, i, c)[i].id = ts[i].id
          /\ Seen(ts, i, c)[i].age = 0 /\ ts[i].id \in Nat \ {0}
      BY <1>1, <1>2, <1>5, <3>3, SeenSound
    <3> QED BY <1>1, <3>1, <3>3, <3>4
  <2>2. CASE Reusable(ts, c) = {}
    <3>1. tracks' = Append(ts, NewTrack(c)) /\ active' = nextId /\ nextId' = nextId + 1
      BY <1>3, <2>2
    <3>2. /\ TableSound(Append(ts, NewTrack(c)), nextId, HeldOlder, nextId + 1)
          /\ Len(ts) + 1 \in 1 .. Len(Append(ts, NewTrack(c)))
          /\ Append(ts, NewTrack(c))[Len(ts) + 1].id = nextId
          /\ Append(ts, NewTrack(c))[Len(ts) + 1].age = 0
      BY <1>1, <1>2, <1>5, AppendSound
    <3> QED BY <1>1, <3>1, <3>2
  <2> QED BY <2>1, <2>2
<1>8. held' \in [id : Nat, age : Nat] /\ TableSound(tracks', active', held', nextId')
  <2>1. CASE active' # held.id
    <3>1. held' = [id |-> active', age |-> 0] /\ held'.id = active' /\ held'.age = 0
      BY <1>4, <2>1
    <3>2. HeldSeen(tracks', held')
      BY <1>7, <3>1 DEF HeldSeen, TableSound, Table
    <3> QED BY <1>7, <3>1, <3>2 DEF TableSound
  <2>2. CASE active' = held.id
    BY <1>4, <1>7, <2>2, TickedHeld
  <2> QED BY <2>1, <2>2
<1>9. out'.id = active' /\ out'.by = "score"
  BY <1>3 DEF Target
<1>10. \E j \in 1 .. Len(tracks') :
              /\ tracks'[j].id = out'.id
              /\ out'.by \in {"track", "rect", "score"} => tracks'[j].age = 0
              /\ out'.by = "kept" => tracks'[j].age < LostGrace
              /\ out'.by = "held" => tracks'[j].age < Hold
  BY <1>7, <1>9
<1> QED BY <1>7, <1>8, <1>10, StepSound
-----------------------------------------------------------------------------
LEMMA SelectorInitInv == SelectorInit => SelectorInv
<1> SUFFICES ASSUME SelectorInit PROVE SelectorInv
  OBVIOUS
<1>1. /\ tracks = << >> /\ active = 0 /\ nextId = 1 /\ held = [id |-> 0, age |-> 0] /\ out.id = 0
  BY DEF SelectorInit, Nobody, Target
<1>2. SelectorTyped /\ NoGhost
  BY <1>1 DEF SelectorTyped, NoGhost
<1>3. TableSound(tracks, active, held, nextId)
  BY <1>1 DEF TableSound, Table, LockedBy, FreeAreOld, HeldSeen, Known
<1> QED BY <1>2, <1>3 DEF SelectorInv

LEMMA SelectorNextInv == SelectorInv /\ [SelectorNext]_selectorVars => SelectorInv'
<1> SUFFICES ASSUME SelectorInv, [SelectorNext]_selectorVars PROVE SelectorInv'
  OBVIOUS
<1>1. ASSUME NEW dets \in Inputs, Select(dets) PROVE SelectorInv'
  BY <1>1, NoTargetSound, TrackLockSound, KeepsLockSound, RectLockSound, HoldsLockSound,
     BlockedSound, SwitchSound DEF Select
<1>2. CASE UNCHANGED selectorVars
  BY <1>2 DEF selectorVars, SelectorInv, SelectorTyped, TableSound, Table, LockedBy, FreeAreOld,
              HeldSeen, Known, NoGhost, AgeOf
<1> QED BY <1>1, <1>2 DEF SelectorNext, Frame

(* Whatever boxes appear, vanish, hide behind the filters and compete: one *)
(* track holds the lock, and what is aimed at is a box of this frame or    *)
(* one seen within the grace or the hold (TargetSelector::select).         *)
THEOREM LockStaysSound == SelectorSpec => []LockIsSound
<1>1. ASSUME SelectorInv PROVE LockIsSound
  <2>1. DOMAIN tracks = 1 .. Len(tracks)
    BY <1>1, TableIs DEF SelectorInv, TableSound
  <2>2. OneLock
    BY <1>1, <2>1 DEF SelectorInv, TableSound, Table, LockedBy, OneLock
  <2> QED BY <1>1, <2>2 DEF SelectorInv, LockIsSound
<1> QED BY SelectorInitInv, SelectorNextInv, <1>1, PTL DEF SelectorSpec

(* A track seen within the grace is the locked one, and while it stays so  *)
(* no search is begun.                                                     *)
LEMMA LockedIsKept ==
  ASSUME SelectorInv, NEW id, InGrace(id), NEW dets \in Inputs, Select(dets), out'.id # 0
  PROVE  out'.id = id
<1> DEFINE ts == Trim(Aged)
<1>1. PICK i \in 1 .. Len(tracks) : tracks[i].id = id /\ Older(tracks[i].age) < LostGrace
  BY TableIs DEF InGrace, SelectorInv, TableSound
<1>2. tracks[i].age \in Nat /\ tracks[i].age < LostGrace
  <2>1. tracks[i].age \in Nat
    BY TableIs DEF SelectorInv, TableSound
  <2>2. Older(tracks[i].age) \in Nat /\ tracks[i].age <= Older(tracks[i].age) /\ LostGrace \in Nat
    BY <2>1, OlderIs, LimitsAre
  <2> QED BY <1>1, <2>1, <2>2
<1>3. tracks[i].active /\ id = active /\ id # 0
  <2>1. tracks[i].active
    BY <1>2, LimitsAre DEF SelectorInv, TableSound, FreeAreOld
  <2>2. tracks[i].id # 0
    BY TableIs DEF SelectorInv, TableSound
  <2> QED BY <1>1, <2>1, <2>2 DEF SelectorInv, TableSound, LockedBy
<1>4. TableSound(ts, active, HeldOlder, nextId)
  BY AgedSound, TrimSound
<1>5. ASSUME NEW n \in 1 .. Len(ts), ts[n].id = active PROVE ts[n].age = Older(tracks[i].age)
  <2>1. PICK j \in 1 .. Len(Aged) : ts[n] = Aged[j]
    BY AgedSound, TrimIs DEF TableSound
  <2>2. DOMAIN tracks = 1 .. Len(tracks) /\ DOMAIN Aged = 1 .. Len(Aged)
    BY AgedSound, TableIs DEF SelectorInv, TableSound
  <2>3. j \in 1 .. Len(tracks) /\ Aged[j] = [tracks[j] EXCEPT !.age = Older(@)] /\ tracks[j] \in Tracks
    BY <2>2, TableIs DEF Aged, SelectorInv, TableSound
  <2>4. Aged[j].id = tracks[j].id /\ Aged[j].age = Older(tracks[j].age)
    BY <2>3 DEF Tracks
  <2>5. j = i
    BY <1>1, <1>3, <1>5, <2>1, <2>3, <2>4 DEF SelectorInv, TableSound, Table
  <2> QED BY <2>1, <2>4, <2>5
<1>6. ~Searching(ts, dets)
  <2> SUFFICES ASSUME Searching(ts, dets) PROVE FALSE
    OBVIOUS
  <2>1. DOMAIN ts = 1 .. Len(ts) /\ \E n \in 1 .. Len(ts) : ts[n].id = active
    BY <1>3, <1>4, TableIs DEF TableSound, LockedBy
  <2>2. Locked(ts) # {}
    BY <2>1 DEF Locked
  <2>3. PICK n \in Missing(ts, dets) : ts[n].age >= LostGrace
    BY <1>3, <2>2 DEF Searching, GraceLeft
  <2>4. ts[n].age = Older(tracks[i].age)
    BY <1>5, <2>1, <2>3 DEF Missing, Locked
  <2>5. Older(tracks[i].age) \in Nat /\ LostGrace \in Nat
    BY <1>2, OlderIs, LimitsAre
  <2> QED BY <1>1, <2>3, <2>4, <2>5
<1>7. TrackLock(dets) \/ KeepsLock(dets)
  <2>1. ~NoTarget(dets)
    BY DEF NoTarget, Nobody, Target
  <2>2. ~RectLock(dets) /\ ~HoldsLock(dets) /\ ~Blocked(dets) /\ ~Switch(dets)
    BY <1>6 DEF RectLock, HoldsLock, Blocked, Switch, Searched
  <2> QED BY <2>1, <2>2 DEF Select
<1>8. out'.id = active
  <2>1. CASE TrackLock(dets)
    <3>1. PICK c \in Candidates(dets) : out' = Target(active, c, "track", Candidates(dets))
      BY <2>1 DEF TrackLock, Nearest, Within
    <3> QED BY <3>1 DEF Target
  <2>2. CASE KeepsLock(dets)
    <3>1. PICK p \in Missing(ts, dets) : out' = Target(active, ts[p].at, "kept", Candidates(dets))
      BY <2>2 DEF KeepsLock
    <3> QED BY <3>1 DEF Target
  <2> QED BY <1>7, <2>1, <2>2
<1> QED BY <1>3, <1>8

(* The target is not exchanged for another within its grace, however the   *)
(* boxes compete (TargetSelector::select, track_lock before rect_lock).    *)
THEOREM TargetStays == SelectorSpec => NoSwitchInGrace
<1>1. ASSUME SelectorInv, [SelectorNext]_selectorVars
      PROVE  [LET was == IF out.id # 0 THEN out.id ELSE last
              IN out'.id # 0 /\ out'.id # was => ~InGrace(was)]_selectorVars
  <2>1. ASSUME NEW dets \in Inputs, Select(dets), NEW id, out'.id # 0, out'.id # id PROVE ~InGrace(id)
    BY <1>1, <2>1, LockedIsKept
  <2> QED BY <1>1, <2>1 DEF SelectorNext, Frame
<1> QED BY SelectorInitInv, SelectorNextInv, <1>1, PTL DEF SelectorSpec, NoSwitchInGrace
-----------------------------------------------------------------------------
(* The interface the injector writes to (HidLayout): the descriptors of a  *)
(* device arrive one after the other.                                      *)
CONSTANTS MaxId, MaxUsages, MaxBits   \* of HidLayout
Lay == INSTANCE HidLayout

VARIABLES arrived, writer   \* the descriptors so far and the interface chosen

WriterInit == arrived = 0 /\ writer = -1
WriterNext(descs) == /\ arrived < Len(descs) /\ arrived' = arrived + 1
                     /\ writer' = Lay!Chosen(descs, writer, arrived')
Arrivals(descs) == WriterInit /\ [][WriterNext(descs)]_<<arrived, writer>>

(* It is one whose reports have fields to write, if there is one so far,   *)
(* and one that moves the pointer, if there is one.                        *)
WriterSound(descs) ==
  /\ IF writer = -1 THEN \A i \in 1 .. arrived : ~Lay!Usable(descs[i])
     ELSE writer \in 1 .. arrived /\ Lay!Usable(descs[writer])
  /\ (\E i \in 1 .. arrived : Lay!Moves(descs[i])) => writer # -1 /\ Lay!Moves(descs[writer])
(* It is not given up for another once it moves the pointer.               *)
WriterStays(descs) == [][writer # -1 /\ Lay!Moves(descs[writer]) => writer' = writer]_<<arrived, writer>>

LEMMA WriterNextSound ==
  ASSUME NEW descs, Len(descs) \in Nat, arrived \in 0 .. Len(descs), WriterSound(descs),
         WriterNext(descs)
  PROVE  arrived' \in 0 .. Len(descs) /\ WriterSound(descs)'
<1> DEFINE i == arrived + 1
<1>1. arrived \in Nat /\ arrived' = i /\ i \in 1 .. Len(descs) /\ i # -1 /\ arrived' \in 0 .. Len(descs)
  BY DEF WriterNext
<1>2. 1 .. i = (1 .. arrived) \cup {i} /\ i \in 1 .. i
  BY <1>1
<1>3. writer' = IF Lay!Usable(descs[i]) /\ (writer = -1 \/ (Lay!Moves(descs[i]) /\ ~Lay!Moves(descs[writer])))
                THEN i ELSE writer
  BY <1>1 DEF WriterNext, Lay!Chosen
<1>4. \A k : Lay!Moves(descs[k]) => Lay!Usable(descs[k])
  BY DEF Lay!Moves
<1>0. arrived' = i /\ i # -1
  BY <1>1
<1> HIDE DEF i
<1>5. CASE writer' = i
  <2>1. writer' # -1 /\ writer' \in 1 .. arrived'
    BY <1>0, <1>2, <1>5
  <2>2. Lay!Usable(descs[writer'])
    <3>1. CASE Lay!Usable(descs[i])
      BY <1>5, <3>1
    <3>2. CASE ~Lay!Usable(descs[i])
      <4>1. writer' = writer /\ writer # -1
        BY <1>0, <1>3, <1>5, <3>2
      <4> QED BY <4>1 DEF WriterSound
    <3> QED BY <3>1, <3>2
  <2>3. ASSUME NEW k \in 1 .. arrived', Lay!Moves(descs[k]) PROVE Lay!Moves(descs[writer'])
    BY <1>0, <1>2, <1>3, <1>4, <1>5, <2>3 DEF WriterSound
  <2> QED BY <1>1, <2>1, <2>2, <2>3 DEF WriterSound
<1>6. CASE writer' # i
  <2>1. writer' = writer
    BY <1>3, <1>6
  <2>2. CASE writer = -1
    <3>1. ~Lay!Usable(descs[i])
      BY <1>3, <1>6, <2>2
    <3>2. \A k \in 1 .. arrived' : ~Lay!Usable(descs[k])
      BY <1>0, <1>2, <2>2, <3>1 DEF WriterSound
    <3> QED BY <1>1, <1>4, <2>1, <2>2, <3>2 DEF WriterSound
  <2>3. CASE writer # -1
    <3>1. writer \in 1 .. arrived' /\ Lay!Usable(descs[writer])
      BY <1>0, <1>2, <2>3 DEF WriterSound
    <3>2. ASSUME NEW k \in 1 .. arrived', Lay!Moves(descs[k]) PROVE Lay!Moves(descs[writer])
      BY <1>0, <1>2, <1>3, <1>4, <1>6, <2>1, <3>2 DEF WriterSound
    <3> QED BY <1>1, <2>1, <2>3, <3>1, <3>2 DEF WriterSound
  <2> QED BY <2>2, <2>3
<1> QED BY <1>5, <1>6

(* mouse_control.cpp: in whatever order the descriptors of any number of   *)
(* interfaces arrive, the injector writes to one that moves the pointer as *)
(* soon as there is one, and stays with it.                                *)
THEOREM InjectorSettles ==
  ASSUME NEW CONSTANT descs, Len(descs) \in Nat
  PROVE  Arrivals(descs) => []WriterSound(descs) /\ WriterStays(descs)
<1> DEFINE Inv == arrived \in 0 .. Len(descs) /\ WriterSound(descs)
<1>1. WriterInit => Inv
  BY DEF WriterInit, WriterSound
<1>2. Inv /\ [WriterNext(descs)]_<<arrived, writer>> => Inv'
  <2>1. CASE UNCHANGED <<arrived, writer>>
    BY <2>1 DEF WriterSound
  <2> QED BY <2>1, WriterNextSound
<1>3. [WriterNext(descs)]_<<arrived, writer>>
      => [writer # -1 /\ Lay!Moves(descs[writer]) => writer' = writer]_<<arrived, writer>>
  BY DEF WriterNext, Lay!Chosen
<1>4. Inv => WriterSound(descs)
  OBVIOUS
<1> HIDE DEF Inv
<1> QED BY <1>1, <1>2, <1>3, <1>4, PTL DEF Arrivals, WriterStays
=============================================================================
