------------------------- MODULE MCRuntimeLifecycle -------------------------
(***************************************************************************)
(* The runtime (RuntimeLifecycle) and the programs that put a new release  *)
(* under it (OtaUpdate).  Each is explored as long as the other is still   *)
(* in the state it starts from: RuntimeLifecycle knows an update by its    *)
(* status file and the restart it causes.                                  *)
(***************************************************************************)
EXTENDS RuntimeLifecycle, OtaUpdate

RuntimeIdle == /\ phase = "down" /\ order = "none" /\ faults + cards = 0
               /\ bootVersion = NoVersion /\ intent = "none" /\ active = NoModel /\ card = {}
OtaIdle == used = [jobs |-> 0, kills |-> 0, faults |-> 0]

\* The last update is over, and nobody asks for another.
OtaOver == ~OtaIdle /\ jobs = <<>> /\ upd.pc = "off" /\ ins.pc = "off"

MCInit == Init /\ OtaInit
MCNext == \/ OtaIdle /\ Next /\ UNCHANGED otaVars
          \/ RuntimeIdle /\ OtaNext /\ UNCHANGED vars
          \/ OtaOver /\ UNCHANGED <<vars, otaVars>>
MCSpec == MCInit /\ [][MCNext]_<<vars, otaVars>> /\ OtaFairness

-----------------------------------------------------------------------------
(* Release 1 is what the box comes with; 2 does not answer, 3 answers but  *)
(* has no working USB proxy, 4 works, 5 has a unit that cannot run and 6   *)
(* comes without units.  Deltas are made from 1 and, for 4, from 3.        *)
Package(v, genuine, delta, base) == [ver |-> v, genuine |-> genuine, delta |-> delta, base |-> base]
MCPackages == {Package(2, TRUE, TRUE, 1), Package(2, TRUE, FALSE, 1), Package(3, TRUE, FALSE, 1),
               Package(3, FALSE, FALSE, 1), Package(4, TRUE, TRUE, 3), Package(4, TRUE, FALSE, 1),
               Package(5, TRUE, FALSE, 1), Package(6, TRUE, FALSE, 1)}
MCFit == <<"works", "mute", "noproxy", "works", "badunit", "nounits">>
=============================================================================
