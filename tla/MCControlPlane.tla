--------------------------- MODULE MCControlPlane ---------------------------
(***************************************************************************)
(* What the requests of the web console reach: the model library behind    *)
(* the control socket (ControlPlane) and the configuration (ConfigStore).  *)
(* The two keep no state in common, so they are explored from one initial  *)
(* state, each as long as the other has not started to move.               *)
(***************************************************************************)
EXTENDS ControlPlane, ConfigStore

ControlIdle ==
  /\ op = Idle /\ done = NoAnswer /\ mishaps = MaxMishaps /\ running /\ accPc = "top"
  /\ conn = [c \in Conns |-> "free"] /\ active = "" /\ \A i \in Ids : ~disk["legacy"][i].dir
ConfigIdle ==
  /\ pc = "down" /\ used.crashes + used.upgrades = 0 /\ layered
  /\ factory.out = "on" /\ device = NoDoc

MCInit == Init /\ ConfigInit
MCNext == \/ ConfigIdle /\ Next /\ UNCHANGED configVars
          \/ ControlIdle /\ ConfigNext /\ UNCHANGED vars
MCSpec == MCInit /\ [][MCNext]_<<vars, configVars>> /\ Fairness
-----------------------------------------------------------------------------
(* The shipped baseline, an older one that has the switch off, and device  *)
(* files with and without a profile in need of repair or a switch of their *)
(* own.                                                                    *)
MCFactories == {[out |-> "on", conf |-> "low"], [out |-> "off", conf |-> "high"]}
NoLeaves == [k \in {} |-> "none"]
MCDeviceDocs ==
  {NoLeaves,
   [model |-> "", roi |-> "tiny", conf |-> "low", hotkey |-> "left"],
   [out |-> "off", model |-> "m1", conf |-> "beyond"],
   [out |-> "off", dma |-> "off", model |-> "m1", roi |-> "part", hotkey |-> "outside"]}
MCRequests ==
  {[model |-> "m1", roi |-> "part", conf |-> "low", zc |-> "off", hotkey |-> "right",
    aims |-> <<"left", "outside">>],
   [model |-> "m1", roi |-> "tiny", conf |-> "high"],
   [model |-> "m1", roi |-> "full", conf |-> "high", hotkey |-> "left"],
   [roi |-> "part"]}
=============================================================================
