----------------------------- MODULE AimControl -----------------------------
(***************************************************************************)
(* The aim thread (core/src/aim/AimThread.cpp) from the buttons and the    *)
(* configuration to the packets of the output backend.  A frame is decided *)
(* on one snapshot of buttons and configuration, and each packet passes a  *)
(* gate (core/src/output/OutputGate.hpp) that reads both again: the user   *)
(* and the configuration act between the steps.  Which box is the target   *)
(* is TargetSelector's; here it is an input.                               *)
(***************************************************************************)
EXTENDS AimDecision

CONSTANTS
  Configs,     \* configurations that are set in a run
  Press,       \* press_duration
  Throttle,    \* trigger2.move_throttle_frames
  Faults,      \* whether the socket of the backend may fail
  MaxConfigs, MaxStarts, MaxPresses   \* bounds: changes, sessions, buttons pressed

(* The buttons of the user: the one of an aim profile, which the triggers  *)
(* are held with too, the one of the hotkey guard and the one that is      *)
(* tapped to arm the first trigger.                                        *)
Keys == {"aim", "guard", "tap"}
Settings == [enabled : BOOLEAN, calibrating : BOOLEAN, guard : BOOLEAN,
             triggers : SUBSET {"one", "two"}, found : BOOLEAN]

ASSUME AimAssumption ==
  /\ Configs \subseteq Settings /\ Configs # {} /\ Faults \subseteq BOOLEAN
  /\ {Press, Throttle, MaxConfigs, MaxStarts, MaxPresses} \subseteq Nat

VARIABLES
  keys, cfg,   \* the bitmap of physical buttons, the configuration in force
  aimRunning, pc, \* running_, and the next step of the loop
  suspended,   \* hotkeys_suspended_
  rawGuard,    \* the guard's bit of last_raw_buttons_
  allowedLast, \* last_injection_allowed_
  sm, one, two,        \* state_machine_, trigger_
  job,         \* what the frame decided: in a calibration, its shot, its motion
  release,     \* trigger_release_btn_ and the time to trigger_release_at_ms_
  throttle,    \* trigger_throttle_frames_
  carried,     \* what is in the remainder: nothing, parts of motions of this
               \* press of the hotkey only, or also of others ("past")
  host,        \* buttons down at the receiver, and the last motion it got
  hist,        \* history: the guard is down since the last flip; a target was
               \* near, and shots of trigger one, since the keys went down
  aimUsed      \* how much of each bound is used

thread == <<suspended, rawGuard, allowedLast, sm, one, two, job, release, throttle,
            carried>>
aimVars == <<keys, cfg, aimRunning, pc, thread, host, hist, aimUsed>>

NoJob == [free |-> FALSE, fire |-> "no", move |-> "none"]
NoRelease == [btn |-> "no", left |-> 0]

AimInit ==
  /\ keys = {} /\ cfg \in Configs
  /\ aimRunning = FALSE /\ pc = "top"
  /\ suspended = FALSE /\ rawGuard = FALSE /\ allowedLast = FALSE
  /\ sm = IdleSM /\ one = IdleOne /\ two = IdleTwo
  /\ job = NoJob /\ release = NoRelease /\ throttle = 0 /\ carried = "none"
  /\ host = [down |-> {}, moved |-> "none"]
  /\ hist = [pressed |-> FALSE, near |-> FALSE, shots |-> 0]
  /\ aimUsed = [configs |-> 0, starts |-> 0, presses |-> 0]
-----------------------------------------------------------------------------
(* The user, and ipc set_profile.                                          *)
PressKey(k) ==
  /\ k \notin keys /\ aimUsed.presses < MaxPresses
  /\ keys' = keys \cup {k} /\ aimUsed' = [aimUsed EXCEPT !.presses = @ + 1]
  /\ hist' = [hist EXCEPT !.pressed = @ \/ k = "guard"]
  /\ UNCHANGED <<cfg, aimRunning, pc, thread, host>>

LiftKey(k) ==
  /\ k \in keys /\ keys' = keys \ {k}
  /\ hist' = [hist EXCEPT !.pressed = @ /\ k # "guard"]
  /\ UNCHANGED <<cfg, aimRunning, pc, thread, host, aimUsed>>

Configure(c) ==
  /\ c # cfg /\ aimUsed.configs < MaxConfigs
  /\ cfg' = c /\ aimUsed' = [aimUsed EXCEPT !.configs = @ + 1]
  /\ UNCHANGED <<keys, aimRunning, pc, thread, host, hist>>

(* start, with reset_runtime_state: the suspension is the user's and stays,*)
(* its edge starts from the buttons as they are now.                       *)
(* Mutant: the edge starts from no button.                                 *)
GuardForgotten == FALSE

GuardNow == "guard" \in keys

StartAim ==
  /\ ~aimRunning /\ aimUsed.starts < MaxStarts
  /\ aimRunning' = TRUE /\ pc' = "top" /\ aimUsed' = [aimUsed EXCEPT !.starts = @ + 1]
  /\ rawGuard' = GuardNow /\ suspended' = suspended /\ allowedLast' = FALSE
  /\ sm' = IdleSM /\ one' = IdleOne /\ two' = IdleTwo
  /\ job' = NoJob /\ release' = NoRelease /\ throttle' = 0 /\ carried' = "none"
  /\ hist' = [hist EXCEPT !.near = FALSE, !.shots = 0]
  /\ UNCHANGED <<keys, cfg, host>>

(* stop joins the thread, which ends between two frames.                   *)
StopAim ==
  /\ aimRunning /\ pc = "top" /\ aimRunning' = FALSE
  /\ UNCHANGED <<keys, cfg, pc, thread, host, hist, aimUsed>>
-----------------------------------------------------------------------------
(* A new frame.  The guard is flipped by an edge of its button.            *)
GuardDown == "guard" \in keys
Suspends == IF ~cfg.guard THEN FALSE
            ELSE IF GuardDown /\ ~rawGuard THEN ~suspended ELSE suspended

Bits == IF Suspends THEN {} ELSE keys
Allowed == cfg.calibrating \/ (cfg.enabled /\ "aim" \in Bits)

(* What is left of the remainder when the frame computes its motion: the   *)
(* edges of the hotkey, the gate and the state machine clear it.           *)
(* Mutant: letting the hotkey go clears nothing.                           *)
Uncleared(allowed, n) == IF carried = "this" /\ ~allowed THEN "past" ELSE carried

Remainder(allowed, n) ==
  IF ~allowed \/ ~allowedLast \/ Clears(sm, n) THEN "none" ELSE carried

Decide(t, motion, found) ==
  LET n == NextSM(sm, t, Allowed)
      held == "aim" \in Bits
      a == IF "one" \in cfg.triggers
           THEN UpdateOne(one, held, Tapped => "tap" \in Bits, t) ELSE Quiet(IdleOne)
      b == IF "two" \in cfg.triggers
           THEN UpdateTwo(two, held, cfg.found => found, t) ELSE Quiet(IdleTwo)
      left == Remainder(Allowed, n)
      sum  == IF left = "past" \/ ~motion THEN left ELSE IF Allowed THEN "this" ELSE "past"
  IN /\ aimRunning /\ pc = "top" /\ pc' = "lift"
     /\ suspended' = Suspends /\ rawGuard' = GuardDown /\ allowedLast' = Allowed
     /\ sm' = n /\ one' = a.m /\ two' = b.m
     /\ job' = [free |-> cfg.calibrating,
                fire |-> IF a.fire THEN "left" ELSE IF b.fire THEN "right" ELSE "no",
                move |-> IF Allowed /\ motion THEN sum ELSE "none"]
     /\ carried' = sum
     /\ release' = [release EXCEPT !.left = IF @ > 0 THEN @ - 1 ELSE 0]
     /\ hist' = [pressed |-> hist.pressed /\ Suspends = suspended,
                 near  |-> held /\ (hist.near \/ t.at = "near"),
                 shots |-> IF ~held \/ ("tap" \in Bits /\ ~one.tap) THEN (IF a.fire THEN 1 ELSE 0)
                           ELSE IF a.fire THEN hist.shots + 1 ELSE hist.shots]
     /\ UNCHANGED <<keys, cfg, aimRunning, throttle, host, aimUsed>>
-----------------------------------------------------------------------------
(* The gate of the backend, read again for every packet, and the socket:   *)
(* a packet is sent once more after one attempt to connect, then given up. *)
GateAllows == cfg.calibrating \/ (cfg.enabled /\ "aim" \in keys)
Delivered(fault) == GateAllows /\ ~fault

(* The button whose time has come goes up; whether that was sent or not,   *)
(* it is forgotten.                                                        *)
Lift(fault) ==
  /\ pc = "lift" /\ pc' = "fire"
  /\ IF release.btn # "no" /\ release.left = 0
     THEN /\ release' = NoRelease
          /\ host' = IF Delivered(fault) THEN [host EXCEPT !.down = @ \ {release.btn}] ELSE host
     ELSE UNCHANGED <<release, host>>
  /\ UNCHANGED <<keys, cfg, aimRunning, suspended, rawGuard, allowedLast, sm, one, two, job,
                 throttle, carried, hist, aimUsed>>

(* A shot: the button goes down and its release replaces the pending one.  *)
Fire(fault) ==
  /\ pc = "fire" /\ pc' = "send"
  /\ IF job.fire # "no" /\ Delivered(fault)
     THEN /\ host' = [host EXCEPT !.down = @ \cup {job.fire}]
          /\ release' = [btn |-> job.fire, left |-> Press]
          /\ throttle' = IF job.fire = "right" /\ Throttle > 0 THEN Throttle ELSE throttle
     ELSE UNCHANGED <<host, release, throttle>>
  /\ UNCHANGED <<keys, cfg, aimRunning, suspended, rawGuard, allowedLast, sm, one, two, job,
                 carried, hist, aimUsed>>

(* The motion; for some frames after a shot it stays in the remainder.     *)
Waits == throttle > 0 /\ job.move # "none"

Send(fault) ==
  /\ pc = "send" /\ pc' = "top"
  /\ throttle' = IF Waits THEN throttle - 1 ELSE throttle
  /\ host' = [host EXCEPT !.moved = IF Waits \/ ~Delivered(fault) THEN "none" ELSE job.move]
  /\ job' = NoJob
  /\ UNCHANGED <<keys, cfg, aimRunning, suspended, rawGuard, allowedLast, sm, one, two,
                 release, carried, hist, aimUsed>>

Loop ==
  \/ \E t \in Targets, motion, found \in BOOLEAN : Decide(t, motion, found)
  \/ \E fault \in Faults : Lift(fault) \/ Fire(fault) \/ Send(fault)

AimNext ==
  \/ \E k \in Keys : PressKey(k) \/ LiftKey(k)
  \/ \E c \in Configs : Configure(c)
  \/ StartAim \/ StopAim \/ Loop

AimSpec == AimInit /\ [][AimNext]_aimVars
-----------------------------------------------------------------------------
(* The suspension ends, or begins, with a press of the guard's button that *)
(* has not flipped it yet, or with a configuration without the guard: not  *)
(* with a button that is merely still down, not with a new session         *)
(* (AimThread.cpp:66-69).                                                  *)
SuspensionKept == [][suspended' # suspended => hist.pressed \/ ~cfg.guard]_aimVars

(* No motion is made of what was computed under an earlier press of the    *)
(* hotkey, or under none (AimThread.cpp:164-184, 315-325).                 *)
NoCarryOver == host.moved # "past"

(* The second trigger goes on firing at any distance only where a target   *)
(* was near since its keys went down (MouseTypes.hpp:296).                 *)
FirstShotAimed == two.fired => hist.near

(* A tap gives at most click_count shots while the keys stay down.         *)
BurstBounded == ~Rifle /\ Tapped => hist.shots <= ClickCount

(* What the triggers may still do belongs to the press that is going on.   *)
TriggersKeepToThePress == FirstShotAimed /\ BurstBounded
=============================================================================
