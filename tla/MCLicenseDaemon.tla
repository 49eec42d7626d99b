-------------------------- MODULE MCLicenseDaemon --------------------------
(* Values for the model checker: two genuine cards, the newer of which     *)
(* expires, a forged one, text that is no card, and two cloud licences,    *)
(* one with the end missing (a damaged document on disk).                  *)
EXTENDS LicenseDaemon

CONSTANTS old, new, forged, junk, lasting, endless

MCExpiry == [l \in Licences |->
               IF l = old THEN 3 ELSE IF l = lasting THEN 2 ELSE 0]
MCIssuedAt == [c \in Cards |-> IF c = old THEN 1 ELSE 2]
MCVerdict  == [c \in Cards |-> CASE c = forged -> "forged"
                                   [] c = junk -> "unparsable"
                                   [] OTHER -> "genuine"]
Granted  == [doc |-> lasting, base |-> 2]

FewDisks    == {Granted, [doc |-> old, base |-> Corrupt]}
GrantedDisk == {Granted}
=============================================================================
