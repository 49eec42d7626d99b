--------------------------- MODULE MCLicenseFile ---------------------------
(***************************************************************************)
(* Two parts of the licence code that share nothing, explored side by side *)
(* from one set of initial states: the file of LicenseFile and the online  *)
(* check of LicenseOnline.  Each moves as long as the other has not        *)
(* started to.                                                             *)
(***************************************************************************)
EXTENDS LicenseFile, LicenseOnline, TLC

OnlineIdle == now = 1 /\ running /\ ~started /\ answer = "none" /\ backoff = 0

MCInit == Init /\ OnlineInit
MCNext == \/ OnlineIdle /\ Next /\ UNCHANGED onlineVars
          \/ Init /\ OnlineNext /\ UNCHANGED vars
MCSpec == MCInit /\ [][MCNext]_<<vars, onlineVars>>
-----------------------------------------------------------------------------
(* Documents, inodes and process ids are interchangeable.                  *)
MCSymmetry == Permutations(Docs) \cup Permutations(Inodes) \cup Permutations(Pids)
              \cup Permutations(Writers)
=============================================================================
