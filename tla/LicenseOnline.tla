--------------------------- MODULE LicenseOnline ---------------------------
(***************************************************************************)
(* The online licence check (builds with AUTH=ON): the check cycle of      *)
(* LicenseDaemon over TtboxLicenseClient.  Every cycle hands the client a  *)
(* fresh LicenseStatus, so no session token survives from one cycle to the *)
(* next and each cycle is a card-login; the heartbeat request is never     *)
(* sent.  The server may accept, refuse or not answer, at any time.        *)
(***************************************************************************)
EXTENDS LicenseStateMachine

CONSTANTS
  Grant,        \* the content the server signs into an accepted card
  Lifetimes,    \* validity the server may grant, in clock units
  HeartbeatInterval,   \* out.heartbeat_interval: when the next check is due
  ThreadHeartbeat,     \* heartbeat_ms_: how long the thread sleeps after success
  BackoffBase, BackoffCap,
  MaxClock      \* bound: wall clock

ASSUME OnlineAssumption ==
  /\ Grant # NoLicence
  /\ Lifetimes \subseteq Nat \ {0}
  /\ HeartbeatInterval \in Nat \ {0} /\ ThreadHeartbeat \in Nat \ {0}
  /\ BackoffBase \in Nat \ {0} /\ BackoffCap \in Nat /\ BackoffBase <= BackoffCap
  /\ MaxClock \in Nat

VARIABLES
  now,          \* wall clock
  status,       \* LicenseDaemon::status_
  backoff,      \* cur_backoff_ms_
  wake,         \* when thread_loop looks again
  running,      \* running_
  started,      \* the main thread has done its own check
  answer        \* history: last authoritative answer of the server

onlineVars == <<now, status, backoff, wake, running, started, answer>>

OnlineInit == /\ now = 1 /\ status = UnknownStatus /\ backoff = 0 /\ wake = 1
              /\ running = TRUE /\ started = FALSE /\ answer = "none"

(* do_card_login: no transport, an HTTP status other than 200 or a body    *)
(* that is not JSON is no answer; an answer that is not ok, or whose       *)
(* expireAt is missing, unreadable or not positive, is a refusal.          *)
Answers ==
  {[out |-> Refusal("NetworkError", 0), ok |-> FALSE, says |-> answer],
   [out |-> Refusal("InvalidCard", 0),  ok |-> TRUE,  says |-> "refused"]}
  \cup
  {[out |-> Acceptance(now + life, Grant), ok |-> TRUE,
    says |-> "accepted"] : life \in Lifetimes}

(* thread_loop skips the check while the licence is valid and not due.     *)
Due == ~(status.state = "Valid" /\ now < status.next /\ Unexpired(status.expire, now))

SmallestOf(S) == CHOOSE x \in S : \A y \in S : x <= y

Conclude(a) ==
  /\ status' = ApplyCheckResult(status, a.out, a.ok, now, HeartbeatInterval)
  /\ answer' = a.says

Awake == running /\ now >= wake

(* do_check_cycle_locked, and the sleep that follows it.                   *)
Check ==
  /\ Awake /\ Due
  /\ \E a \in Answers :
       LET cur == NextBackoff(backoff, CheckSucceeded(a.out, a.ok),
                              BackoffBase, BackoffCap)
       IN  /\ Conclude(a)
           /\ backoff' = cur
           /\ wake' = now + (IF cur > 0 THEN cur ELSE ThreadHeartbeat)
  /\ UNCHANGED <<now, running, started>>

(* Application::run checks once itself when it starts (verify_now_blocking)*)
(* and leaves the backoff of the thread alone.                             *)
VerifyNow ==
  /\ running /\ ~started
  /\ started' = TRUE
  /\ \E a \in Answers : Conclude(a)
  /\ UNCHANGED <<now, backoff, wake, running>>

(* Not due: sleep to the next check or to the expiry, whichever is first.  *)
Sleep ==
  /\ Awake /\ ~Due
  /\ wake' = SmallestOf({status.next} \cup
                        (IF status.expire > now THEN {status.expire} ELSE {}))
  /\ UNCHANGED <<now, status, backoff, running, started, answer>>

(* LicenseDaemon::stop, at the end of the process.                         *)
Stop == running /\ running' = FALSE
        /\ UNCHANGED <<now, status, backoff, wake, started, answer>>

(* The thread is scheduled within one clock unit of its wake-up.           *)
Tick == /\ now < MaxClock /\ running /\ ~Awake
        /\ now' = now + 1
        /\ UNCHANGED <<status, backoff, wake, running, started, answer>>

OnlineNext == Check \/ VerifyNow \/ Sleep \/ Stop \/ Tick

OnlineSpec == OnlineInit /\ [][OnlineNext]_onlineVars
-----------------------------------------------------------------------------
(* Fail-open: losing the network does not stop a licence that the server   *)
(* has accepted and not refused since, as long as it lasts.                *)
OutageKeepsLicence ==
  answer = "accepted" /\ Unexpired(status.expire, now)
    => AllowRun(status) /\ status.grant = Grant

(* An outage does not prolong a licence: the permission to run ends within *)
(* one sleep of the thread after the expiry, however long the backoff grew.*)
(* A sleep lasts as long as the backoff, the heartbeat of the thread or    *)
(* the interval the server names: the check of the main thread may shorten *)
(* the licence while the thread sleeps towards the next check it knew of.  *)
LargestOf(S) == CHOOSE x \in S : \A y \in S : y <= x
Slack == LargestOf({BackoffCap, ThreadHeartbeat, HeartbeatInterval})
ExpiryEndsPermission ==
  running /\ AllowRun(status) => now <= status.expire + Slack

(* An outage is bridged as long as the licence lasts, and not longer       *)
(* (LicenseStateMachine.hpp:226, LicenseDaemon.cpp:486).                    *)
OutageIsBridged == OutageKeepsLicence /\ ExpiryEndsPermission
=============================================================================
