------------------------ MODULE LicenseStateMachine ------------------------
(***************************************************************************)
(* The licence state machine of core/src/auth/LicenseStateMachine.hpp, as  *)
(* operators: the status record, the network-class test and the merge of  *)
(* one check result into the accumulated status.  The features, the plan,  *)
(* the brand and the licence id always travel together; they are one       *)
(* field here, `grant`, which names the licence they came from (NoLicence  *)
(* when they are empty).                                                   *)
(***************************************************************************)
EXTENDS Integers

CONSTANT NoLicence           \* no licence: an empty card, no features

States == {"Unknown", "Checking", "Valid", "Expired", "InvalidCard",
           "BoundElsewhere", "NetworkError", "Fallback"}

(* LicenseStatus: times are 0 when unknown; an expiry of 0 never expires.  *)
StatusType(Licences) ==
  [state : States, verified : Nat, expire : Nat, next : Nat,
   grant : Licences \cup {NoLicence}]

Status(state, verified, expire, next, grant) ==
  [state |-> state, verified |-> verified, expire |-> expire, next |-> next,
   grant |-> grant]

UnknownStatus == Status("Unknown", 0, 0, 0, NoLicence)

(* What a client reports of a card it accepts, and of one it refuses: no   *)
(* content, no timestamps.                                                 *)
Acceptance(expire, grant) == Status("Valid", 0, expire, 0, grant)
Refusal(state, expire)    == Status(state, 0, expire, 0, NoLicence)

IsNetworkClassFailure(reqOk, outState) == ~reqOk \/ outState = "NetworkError"

Unexpired(expire, now) == expire = 0 \/ now < expire

AllowRun(status) == status.state \in {"Valid", "Fallback"}

CheckSucceeded(out, reqOk) == reqOk /\ out.state = "Valid"

(* Mutants: an accepted check keeps the features in force; a failed one    *)
(* drops the history.                                                      *)
ApplyKeepsContent(status, out, reqOk, now, heartbeat) ==
  IF CheckSucceeded(out, reqOk)
  THEN Status("Valid", now, out.expire, now + heartbeat,
              IF status.grant # NoLicence THEN status.grant ELSE out.grant)
  ELSE [out EXCEPT !.verified = status.verified]
ApplyForgetsHistory(status, out, reqOk, now, heartbeat) ==
  IF CheckSucceeded(out, reqOk)
  THEN Status("Valid", now, out.expire, now + heartbeat, out.grant)
  ELSE [out EXCEPT !.state = IF reqOk THEN out.state ELSE "NetworkError"]

(* apply_check_result: an accepted check replaces the status; a failed one *)
(* keeps the history of the last success, and a network-class failure also *)
(* keeps its content and may fall back on it while it lasts.               *)
ApplyCheckResult(status, out, reqOk, now, heartbeat) ==
  IF CheckSucceeded(out, reqOk)
  THEN Status("Valid", now, out.expire, now + heartbeat, out.grant)
  ELSE LET network == IsNetworkClassFailure(reqOk, out.state)
           expire  == IF out.expire > 0 THEN out.expire ELSE status.expire
           state   == IF network /\ status.verified > 0 /\ Unexpired(expire, now)
                      THEN "Fallback"
                      ELSE IF reqOk THEN out.state ELSE "NetworkError"
           grant   == IF network /\ out.grant = NoLicence
                      THEN status.grant ELSE out.grant
       IN  Status(state, status.verified, expire, out.next, grant)

(* The exponential backoff: cleared by a success, else base, 2x, ... cap.  *)
NextBackoff(cur, succeeded, base, cap) ==
  IF succeeded THEN 0
  ELSE IF cur <= 0 THEN base
  ELSE IF cur * 2 < cap THEN cur * 2 ELSE cap
=============================================================================
