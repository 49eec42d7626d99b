---------------------------- MODULE AimDecision ----------------------------
(***************************************************************************)
(* The three small machines the aim thread asks once per frame:            *)
(* AimStateMachine (core/src/mouse/AimStateMachine.cpp), and the triggers  *)
(* AutoTrigger and AutoTrigger2 (core/src/mouse/TriggerController.hpp).    *)
(* They keep no thread and no lock: each is a record and a function of the *)
(* frame.  A frame lasts one unit of time; a moment is kept as its age,    *)
(* Long once it is at the largest limit.                                    *)
(***************************************************************************)
EXTENDS Integers

CONSTANTS
  Grace,         \* lost_grace_ms
  ConfirmFrames, \* lock_confirm.confirmation_frames
  Rifle,         \* trigger.rifle_mode
  ClickCount, Stability, FireDelay, FirstDelay, \* of trigger; also its rifle_interval
  Tapped,        \* trigger.key3 is configured
  FirstWait, Interval, Retarget   \* first_delay, fire_interval, retarget_reset_ms

ASSUME DecisionAssumption ==
  /\ {Grace, ConfirmFrames, ClickCount, Stability, FireDelay, FirstDelay, FirstWait,
      Interval, Retarget} \subseteq Nat
  /\ ConfirmFrames > 0 /\ Rifle \in BOOLEAN /\ Tapped \in BOOLEAN

Limits == {Grace, FireDelay, FirstDelay, FirstWait, Retarget}
Long == CHOOSE n \in Limits : \A m \in Limits : m <= n
Grown(age) == IF age < Long THEN age + 1 ELSE age

(* What a frame says of the selected target: how far it is from the        *)
(* crosshair, and how sure the detector is; near is within the distances   *)
(* of both triggers, sure and hold are the limits of lock_confirm.         *)
Targets == {[at |-> "none", conf |-> "low"]}
           \cup [at : {"far", "near"}, conf : {"low", "hold", "sure"}]
Present(t) == t.at # "none"
-----------------------------------------------------------------------------
(* AimStateMachine::update.                                                *)
IdleSM == [st |-> "idle", locked |-> FALSE, count |-> 0, lost |-> 0]

Counts(m, t) == Present(t) /\ ~m.locked

Counted(m, t) ==
  IF ~Counts(m, t) THEN m.count
  ELSE IF t.conf = "sure" /\ m.count < ConfirmFrames THEN m.count + 1
  ELSE IF t.conf = "sure" THEN m.count ELSE 0

Confirmed(m, t) ==
  /\ Present(t)
  /\ IF m.locked THEN t.conf # "low" ELSE t.conf = "sure" /\ Counted(m, t) >= ConfirmFrames

Enter(m) == [m EXCEPT !.st = "aiming", !.locked = TRUE]
GoIdle(m, forget) == [m EXCEPT !.st = "idle", !.locked = FALSE,
                               !.count = IF forget THEN 0 ELSE @]

(* The state after a frame.                                                *)
NextSM(machine, t, hot) ==
  LET m    == [machine EXCEPT !.count = Counted(machine, t),
                            !.lost = IF machine.st = "grace" THEN Grown(@) ELSE 0]
      pass == Confirmed(machine, t)
  IN CASE m.st \in {"idle", "selecting"} /\ pass /\ hot -> Enter(m)
       [] m.st \in {"idle", "selecting"} /\ ~(pass /\ hot) ->
            [m EXCEPT !.st = IF Present(t) THEN "selecting" ELSE "idle"]
       [] m.st = "aiming" /\ ~Present(t) -> [m EXCEPT !.st = "grace", !.lost = 0]
       [] m.st = "aiming" /\ Present(t)  -> IF hot THEN m ELSE GoIdle(m, TRUE)
       [] m.st = "grace" /\ Present(t) ->
            IF ~hot THEN GoIdle(m, TRUE)
            ELSE IF pass THEN Enter(m) ELSE [m EXCEPT !.st = "selecting"]
       [] OTHER -> IF m.lost >= Grace THEN GoIdle(m, FALSE) ELSE m

(* Its result: the caller clears the controllers and the remainder.        *)
Clears(m, n) ==
  \/ n.st = "aiming" /\ m.st \in {"idle", "selecting"}
  \/ m.st \in {"aiming", "grace"} /\ n.st = "idle"
-----------------------------------------------------------------------------
(* AutoTrigger: armed by a press of key3 while key1 and key2 are held.     *)
IdleOne == [armed |-> FALSE, done |-> FALSE, shots |-> 0, stable |-> 0, tap |-> FALSE,
            fired |-> FALSE, began |-> FALSE, last |-> Long]

Armed(a) == [a EXCEPT !.armed = TRUE, !.done = FALSE, !.shots = 0, !.began = FALSE]

Activated(a, tap) ==
  IF a.done /\ ~Tapped THEN Armed(a)
  ELSE [(IF tap /\ ~a.tap THEN Armed(a) ELSE a) EXCEPT !.tap = tap]

Spent(a) == ~Rifle /\ a.shots >= ClickCount
Aimed(t) == t.at = "near" /\ t.conf # "low"

(* The delays between shots, and before the first shot of a burst.         *)
Ready(a) ==
  /\ a.fired => a.last >= FireDelay
  /\ ~Rifle => /\ a.stable >= Stability
               /\ a.shots = 0 /\ ~a.began => a.last >= FirstDelay

Steadier(a) == [a EXCEPT !.stable = IF @ < Stability THEN @ + 1 ELSE @]
ShotOne(a) == [a EXCEPT !.shots = IF Rifle THEN @ ELSE @ + 1, !.began = TRUE,
                        !.fired = TRUE, !.last = 0]

Fired(m) == [m |-> m, fire |-> TRUE]
Quiet(m) == [m |-> m, fire |-> FALSE]

UpdateOne(old, long, tap, t) ==
  LET a == Activated([old EXCEPT !.last = Grown(@)], tap)
  IN IF ~long THEN Quiet(IdleOne)
     ELSE IF ~a.armed THEN Quiet(a)
     ELSE IF Spent(a) THEN Quiet([a EXCEPT !.armed = FALSE, !.done = TRUE])
     ELSE IF ~Aimed(t) THEN Quiet([a EXCEPT !.stable = 0])
     ELSE IF Ready(Steadier(a)) THEN Fired(ShotOne(Steadier(a))) ELSE Quiet(Steadier(a))
-----------------------------------------------------------------------------
(* AutoTrigger2: fires while its keys are held, once a first shot passed.  *)
(* The moments -1: not yet.                                                *)
IdleTwo == [fired |-> FALSE, enter |-> -1, lost |-> -1, wait |-> 0]

ShotTwo(b) == [b EXCEPT !.fired = TRUE, !.enter = -1, !.wait = Interval]
Later(age) == IF age = -1 THEN -1 ELSE Grown(age)

(* Before the first shot: the target has been near for first_delay.        *)
FirstShot(b, t) ==
  LET c == [b EXCEPT !.enter = IF @ = -1 THEN 0 ELSE @]
  IN IF t.at # "near" THEN Quiet(b)
     ELSE IF c.enter >= FirstWait THEN Fired(ShotTwo(c)) ELSE Quiet(c)

(* After it: the target is there, at whatever distance; without one for    *)
(* retarget_reset_ms the first shot is due again.                          *)
NextShot(b, t) ==
  IF Present(t) THEN IF b.wait = 0 THEN Fired(ShotTwo(b)) ELSE Quiet(b)
  ELSE IF Retarget = 0 THEN Quiet(b)
  ELSE IF b.lost = -1 THEN Quiet([b EXCEPT !.lost = 0])
  ELSE IF b.lost >= Retarget THEN Quiet(IdleTwo) ELSE Quiet(b)

(* Mutant: letting the keys go keeps the first shot.                       *)
KeepsFirstShot(old, combo, found, t) ==
  LET b == [old EXCEPT !.enter = Later(@), !.lost = Later(@),
                       !.wait = IF @ > 0 THEN @ - 1 ELSE 0]
  IN IF ~combo \/ ~found THEN Quiet(b)
     ELSE IF b.fired THEN NextShot(b, t) ELSE FirstShot(b, t)

(* found: the colour of stop_detect, where it is asked for.                *)
UpdateTwo(old, combo, found, t) ==
  LET b == [old EXCEPT !.enter = Later(@), !.lost = Later(@),
                       !.wait = IF @ > 0 THEN @ - 1 ELSE 0]
  IN IF ~combo THEN Quiet(IdleTwo)
     ELSE IF ~found THEN Quiet(b)
     ELSE IF b.fired THEN NextShot(b, t) ELSE FirstShot(b, t)
=============================================================================
