--------------------------- MODULE TargetSelector ---------------------------
(***************************************************************************)
(* TargetSelector::select (core/src/mouse/TargetSelector.cpp): which of    *)
(* the boxes of a frame is the target, frame after frame.  Boxes have one  *)
(* coordinate and one size, so that the matching radii are constants; a    *)
(* moment is kept as its age in frames, which is what the code's           *)
(* differences of an unsigned clock compute.                               *)
(***************************************************************************)
EXTENDS Integers, Sequences, FiniteSets

CONSTANTS
  Places,      \* where a box can be; the crosshair is at 0
  Radius,      \* fov: search_radius_px * fov_range
  LockR, RectR, ReuseR,   \* matching radii of the three layers
  LostGrace,       \* lost_grace_ms
  Cooldown,    \* switch_cooldown_ms
  Hold,        \* lock_hold_ms
  Hysteresis,  \* (1 + switch_hysteresis) ^ 2, 0: off
  HeadBody,    \* head_body_stable
  Scoring,     \* priority_scoring
  Buffer, MaxTracks,      \* track_buffer_frames, max_tracks
  Inputs,      \* the sets of boxes a frame may have
  MaxIds       \* bound: tracks created in a run

(* A box has a class, and passes the confidence and class filters or not.  *)
Boxes == [at : Places, class : {"body", "head"}, fits : BOOLEAN]

ASSUME SelectorAssumption ==
  /\ Places \subseteq Int /\ Inputs \subseteq SUBSET Boxes
  /\ {Radius, LockR, RectR, ReuseR, LostGrace, Cooldown, Hold, Hysteresis, Buffer, MaxIds} \subseteq Nat
  /\ MaxTracks \in Nat \ {0} /\ HeadBody \in BOOLEAN /\ Scoring \in BOOLEAN

VARIABLES
  tracks,    \* tracks_, in the order of the vector
  active,    \* active_track_, 0: none
  nextId,    \* next_id_
  switchAge, \* frames since last_switch_ms_, Old when there was none
  lockDist,  \* distance of last_locked_dist_sq_, -1: none
  held,      \* lock_track_id_ and the frames since lock_start_ms_
  out,       \* what select returned, through which layer, among which candidates
  last       \* history: the last target before this frame

selectorVars == <<tracks, active, nextId, switchAge, lockDist, held, out, last>>

Larger(a, b) == IF a > b THEN a ELSE b
Aeon == Larger(LostGrace, Larger(Cooldown, Hold))      \* beyond every limit
Older(n) == IF n < Aeon THEN n + 1 ELSE n
Dist(a, b) == IF a < b THEN b - a ELSE a - b

Target(id, p, by, cands) == [id |-> id, at |-> p, by |-> by, among |-> cands]
Nobody(cands) == Target(0, 0, "none", cands)

(* reset(), at every start of the aim thread.                              *)
SelectorInit ==
  /\ tracks = <<>> /\ active = 0 /\ nextId = 1
  /\ switchAge = Aeon /\ lockDist = -1
  /\ held = [id |-> 0, age |-> 0] /\ out = Nobody({}) /\ last = 0
-----------------------------------------------------------------------------
(* With head_body_stable a head gives way to a body of the same frame,     *)
(* even to one that the filters reject.                                    *)
Stable(dets) ==
  IF HeadBody /\ \E b \in dets : b.class = "body"
  THEN {b \in dets : b.class # "head"} ELSE dets

Candidates(dets) ==
  {b.at : b \in {c \in Stable(dets) : c.fits /\ Dist(c.at, 0) <= Radius}}

Nearest(cands, p) == {c \in cands : \A d \in cands : Dist(c, p) <= Dist(d, p)}
-----------------------------------------------------------------------------
(* Every frame makes what was seen one frame older.                        *)
Aged == [i \in DOMAIN tracks |-> [tracks[i] EXCEPT !.age = Older(@)]]

(* trim_tracks: what was lost for long goes; then, over the limit, the     *)
(* tail of the order active first, lost longer first, seen earlier first;  *)
(* the sort is stable: equal ones keep their order.                        *)
Before(s, t) ==
  \/ s.active /\ ~t.active
  \/ (s.active <=> t.active) /\ (s.lost > t.lost \/ (s.lost = t.lost /\ s.age > t.age))

Ahead(ts, i, j) ==
  Before(ts[i], ts[j]) \/ (i < j /\ ~Before(ts[j], ts[i]))

Dead(t) == ~t.active /\ t.lost > Buffer

(* The tracks at the positions S, one after the other as `before`, pairs   *)
(* of positions, has them.                                                 *)
InOrder(ts, S, before) ==
  [n \in 1 .. Cardinality(S) |->
     ts[CHOOSE i \in S : Cardinality({j \in S : j = i \/ <<j, i>> \in before}) = n]]

Trim(ts) ==
  LET live    == {i \in DOMAIN ts : ~Dead(ts[i])}
      asFound == {p \in live \X live : p[1] < p[2]}
      toCut   == {p \in live \X live : Ahead(ts, p[1], p[2])}
  IN IF Cardinality(live) <= MaxTracks THEN InOrder(ts, live, asFound)
     ELSE SubSeq(InOrder(ts, live, toCut), 1, MaxTracks)

(* The locked track was not seen: after lost_grace_ms it is given up.      *)
GivesUp(t) == t.active /\ t.age >= LostGrace

(* Mutant: the track keeps its lock when the selector gives it up.         *)
MissedActive(ts) ==
  [i \in DOMAIN ts |-> IF ts[i].active THEN [ts[i] EXCEPT !.lost = @ + 1] ELSE ts[i]]

Missed(ts) ==
  [i \in DOMAIN ts |-> IF ts[i].active
                       THEN [ts[i] EXCEPT !.lost = @ + 1, !.active = ~GivesUp(ts[i])]
                       ELSE ts[i]]

(* A track that was found again, at place p.                               *)
Seen(ts, i, p) ==
  [j \in DOMAIN ts |->
     IF j = i THEN [ts[j] EXCEPT !.at = p, !.lost = 0, !.age = 0, !.active = TRUE]
     ELSE ts[j]]

Released(ts) == [i \in DOMAIN ts |-> [ts[i] EXCEPT !.active = FALSE]]

Locked(ts) == {i \in DOMAIN ts : ts[i].id = active}

Tick == switchAge' = Older(switchAge)
TickHeld == held' = [held EXCEPT !.age = Older(@)]
Note == last' = IF out.id # 0 THEN out.id ELSE last

(* No box, or none that passes: no target, whatever was locked.            *)
NoTarget(dets) ==
  /\ Candidates(dets) = {}
  /\ LET ts == IF dets = {} THEN Aged ELSE Trim(Aged)
     IN /\ tracks' = Trim(Missed(ts))
        /\ active' = IF \E i \in DOMAIN ts : GivesUp(ts[i]) THEN 0 ELSE active
  /\ out' = Nobody({})
  /\ Tick /\ TickHeld /\ UNCHANGED <<nextId, lockDist>>

(* Layer 1, track_lock: the candidate nearest to the locked track.         *)
Within(cands, p, r) == {c \in cands : Dist(c, p) < r}

TrackLock(dets) ==
  LET ts == Trim(Aged)
  IN /\ active # 0
     /\ \E i \in Locked(ts) :
          \E c \in Nearest(Within(Candidates(dets), ts[i].at, LockR), ts[i].at) :
            /\ tracks' = [ts EXCEPT ![i].at = c, ![i].lost = 0, ![i].age = 0]
            /\ out' = Target(active, c, "track", Candidates(dets))
            /\ lockDist' = Dist(c, 0)
     /\ Tick /\ TickHeld /\ UNCHANGED <<active, nextId>>

(* Mutant: there is none.                                                  *)
GraceNone == 0

GraceLeft == LostGrace

Missing(ts, dets) ==
  {i \in Locked(ts) : Within(Candidates(dets), ts[i].at, LockR) = {}}

(* Not there, but within its grace: the target stays where it was.         *)
KeepsLock(dets) ==
  LET ts == Trim(Aged)
  IN /\ active # 0 /\ Candidates(dets) # {}
     /\ \E i \in Missing(ts, dets) :
          /\ ts[i].age < GraceLeft
          /\ tracks' = [ts EXCEPT ![i].lost = @ + 1]
          /\ out' = Target(active, ts[i].at, "kept", Candidates(dets))
     /\ Tick /\ TickHeld /\ UNCHANGED <<active, nextId, lockDist>>

(* Layers 2 and 3 search, once no track is locked or the grace is over.    *)
Searching(ts, dets) ==
  /\ Candidates(dets) # {}
  /\ active = 0 \/ Locked(ts) = {} \/ \E i \in Missing(ts, dets) : ts[i].age >= GraceLeft

Freed(ts) ==
  [i \in DOMAIN ts |-> IF ts[i].id = active
                       THEN [ts[i] EXCEPT !.lost = @ + 1, !.active = FALSE] ELSE ts[i]]

(* Layer 2, rect_lock: the closest pair of a track and a candidate.        *)
Pairs(ts, cands) ==
  {p \in (DOMAIN ts) \X cands : Dist(p[2], ts[p[1]].at) < RectR /\ ~ts[p[1]].active}

RectLock(dets) ==
  LET ts == Freed(Trim(Aged))
      ps == Pairs(ts, Candidates(dets))
  IN /\ Searching(Trim(Aged), dets)
     /\ \E p \in ps :
          /\ \A q \in ps : Dist(p[2], ts[p[1]].at) <= Dist(q[2], ts[q[1]].at)
          /\ tracks' = Seen(Released(ts), p[1], p[2])
          /\ active' = ts[p[1]].id
          /\ out' = Target(ts[p[1]].id, p[2], "rect", Candidates(dets))
          /\ lockDist' = Dist(p[2], 0)
     /\ Tick /\ TickHeld /\ UNCHANGED nextId

(* Layer 3: first lock_hold, which repeats the place where the held track  *)
(* was last seen.                                                          *)
Holding(ts) == {i \in DOMAIN ts : Hold > 0 /\ held.id # 0 /\ Older(held.age) < Hold
                                  /\ ts[i].id = held.id}

Searched(dets) ==
  LET ts == Freed(Trim(Aged))
  IN Searching(Trim(Aged), dets) /\ Pairs(ts, Candidates(dets)) = {}

HoldsLock(dets) ==
  LET ts == Freed(Trim(Aged))
  IN /\ Searched(dets)
     /\ \E i \in Holding(ts) : out' = Target(held.id, ts[i].at, "held", Candidates(dets))
     /\ tracks' = ts /\ active' = 0
     /\ Tick /\ TickHeld /\ UNCHANGED <<nextId, lockDist>>

(* Between several candidates a switch waits for the cooldown, and for a   *)
(* candidate much nearer than the target that was lost.                    *)
SwitchBlocked(cands, c) ==
  /\ Cardinality(cands) > 1
  /\ \/ Cooldown > 0 /\ Older(switchAge) < Cooldown
     \/ Hysteresis > 0 /\ lockDist > 0 /\ c * c * Hysteresis >= lockDist * lockDist

Best(cands) == IF Scoring THEN cands ELSE Nearest(cands, 0)

Blocked(dets) ==
  LET ts == Freed(Trim(Aged)) cands == Candidates(dets)
  IN /\ Searched(dets) /\ Holding(ts) = {}
     /\ \E c \in Best(cands) : SwitchBlocked(cands, c)
     /\ tracks' = ts /\ active' = 0 /\ out' = Nobody(cands)
     /\ Tick /\ TickHeld /\ UNCHANGED <<nextId, lockDist>>

(* Then a track nearby is taken again, or a new one begun.                 *)
Reusable(ts, c) == {i \in DOMAIN ts : ~ts[i].active /\ Dist(c, ts[i].at) < ReuseR}

NewTrack(c) == [id |-> nextId, at |-> c, age |-> 0, lost |-> 0, active |-> TRUE]

Switch(dets) ==
  LET ts == Freed(Trim(Aged)) cands == Candidates(dets)
  IN /\ Searched(dets) /\ Holding(ts) = {}
     /\ \E c \in Best(cands) :
          LET near == Reusable(ts, c)
              i    == CHOOSE j \in near : \A k \in near : j <= k
          IN /\ ~SwitchBlocked(cands, c)
             /\ IF near # {}
                THEN /\ tracks' = Seen(ts, i, c) /\ active' = ts[i].id
                     /\ UNCHANGED nextId
                ELSE /\ nextId <= MaxIds
                     /\ tracks' = Append(ts, NewTrack(c)) /\ active' = nextId
                     /\ nextId' = nextId + 1
             /\ out' = Target(active', c, "score", cands)
             /\ lockDist' = Dist(c, 0)
     /\ switchAge' = 0
     /\ IF active' # held.id THEN held' = [id |-> active', age |-> 0] ELSE TickHeld

Select(dets) ==
  \/ NoTarget(dets) \/ TrackLock(dets) \/ KeepsLock(dets) \/ RectLock(dets)
  \/ HoldsLock(dets) \/ Blocked(dets) \/ Switch(dets)

Frame(dets) == Select(dets) /\ Note

SelectorNext == \E dets \in Inputs : Frame(dets)
SelectorSpec == SelectorInit /\ [][SelectorNext]_selectorVars
-----------------------------------------------------------------------------
(* At most one track is active, it is the one active_track_ names, and the *)
(* ids of the table differ: giving up, matching, reusing and cutting the   *)
(* table agree on who is locked.                                           *)
OneLock ==
  /\ \A i \in DOMAIN tracks : tracks[i].active <=> tracks[i].id = active
  /\ active # 0 => \E i \in DOMAIN tracks : tracks[i].id = active
  /\ \A i, j \in DOMAIN tracks : tracks[i].id = tracks[j].id => i = j

(* The frames since the track of an id was seen.                           *)
AgeOf(id) == LET i == CHOOSE j \in DOMAIN tracks : tracks[j].id = id IN tracks[i].age

(* A target is a box of this frame, or the place of one that was seen      *)
(* within the grace or the hold: nothing older is ever aimed at, the       *)
(* ghosts of TargetSelector.cpp:142.                                       *)
NoGhost ==
  out.id # 0 => /\ out.by \in {"track", "rect", "score"} => AgeOf(out.id) = 0
                /\ out.by = "kept" => AgeOf(out.id) < LostGrace
                /\ out.by = "held" => AgeOf(out.id) < Hold

(* The lock and what is aimed at under it.                                 *)
LockIsSound == OneLock /\ NoGhost

(* The target is not exchanged for another while it is within its grace,   *)
(* whatever frames without a target lie in between.                        *)
InGrace(id) == \E i \in DOMAIN tracks : tracks[i].id = id /\ Older(tracks[i].age) < LostGrace
NoSwitchInGrace ==
  [][LET was == IF out.id # 0 THEN out.id ELSE last
     IN out'.id # 0 /\ out'.id # was => ~InGrace(was)]_selectorVars
=============================================================================
