--------------------------- MODULE MCUsbEndpoints ---------------------------
(* A composite mouse: interface 0 has the IN endpoint of the mouse, the    *)
(* interface 1 an OUT endpoint in its alternate setting 1.                 *)
EXTENDS SyntheticMouse, InterruptRing, Sequences, TLC

CONSTANTS mouse, led, i1, i2

MCEps     == {mouse, led}
MCInjectors == {i1, i2}
MCAlts    == [i \in 0 .. 1 |-> IF i = 0 THEN {0} ELSE {0, 1}]
MCIfaceOf == [e \in MCEps |-> IF e = mouse THEN 0 ELSE 1]
MCAltOf   == [e \in MCEps |-> IF e = mouse THEN 0 ELSE 1]
MCIsIn    == [e \in MCEps |-> e = mouse]

(* The ring of one reader is closed in itself, and is explored beside the  *)
(* proxy: each moves as long as the other has not started to.              *)
MCInit == ProxyInit /\ RingInit
MCNext == \/ reader = "new" /\ ~gone /\ ProxyNext /\ UNCHANGED rvars
          \/ mode = "physical" /\ Init /\ RingNext /\ UNCHANGED all
MCSpec == MCInit /\ [][MCNext]_<<all, rvars>> /\ ProxyFairness
-----------------------------------------------------------------------------
(* The descriptors and the rules are functions of their input: they are    *)
(* checked over small inputs when this module is loaded.                   *)
Desc == INSTANCE UsbDescriptors WITH AnyAddr <- 0
Rule == INSTANCE UsbRules WITH Byte <- 4, MaxLength <- 4

Endpoint(n, in, type, maxp) ==
  [number |-> n, in |-> in, type |-> type, maxp |-> maxp, high |-> FALSE]
Endpoints == {Endpoint(n, in, t, m) : n \in 1 .. 2, in \in BOOLEAN, t \in {"int", "iso"}, m \in {8, 64}}
Candidate(addr, in, types, limit) ==
  [addr |-> addr, in |-> in, out |-> ~in, types |-> types, limit |-> limit]
Udcs == {<<Candidate(3, TRUE, {"int"}, 0), Candidate(1, FALSE, {"int", "iso"}, 64), Candidate(2, TRUE, {"int", "iso"}, 16)>>,
         <<Candidate(0, TRUE, {"int", "iso"}, 16), Candidate(0, FALSE, {"int"}, 64), Candidate(0, TRUE, {"int"}, 64)>>}

(* Endpoints of the device that share an address share the one of the host, *)
(* others do not, and a request to an endpoint of the host finds its way   *)
(* back to the endpoint of the device.                                     *)
ASSUME PlacementIsReversible ==
  \A udc \in Udcs, a, b, c \in Endpoints :
    LET host == Desc!Remap(udc, <<a, b, c>>).host
    IN /\ \A i, j \in DOMAIN host :
            host[i].address = host[j].address <=> host[i].device = host[j].device
       /\ \A i \in DOMAIN host :
            Desc!ToDevice(host, host[i].address) = host[i].device

(* A converted interval is never longer than the device's, and more than   *)
(* half of it, up to the longest the exponent can name.                    *)
ASSUME IntervalIsClose ==
  \A ms \in 1 .. 255 :
    LET frames == 2 ^ (Desc!HsInterval(ms) - 1) IN frames <= 8 * ms /\ 8 * ms < 2 * frames

(* The setting chosen fits whenever one does, and no larger one fits.      *)
Settings == {<<>>} \cup {<<[type |-> t, maxp |-> m, limit |-> 8]>> : t \in {"iso", "int"}, m \in {4, 8, 16}}
ASSUME BestSettingFits ==
  \A s \in [1 .. 3 -> Settings], desired \in 1 .. 3 :
    LET best == Desc!BestSetting(s, desired)
        able == {i \in 1 .. 3 : s[i] # <<>> /\ Desc!Fits(s[i])}
    IN s[desired] # <<>> =>
         IF able = {} THEN best = 0
         ELSE best \in able /\ \A i \in able : Desc!Packet(s[i]) <= Desc!Packet(s[best])

(* The rewritten descriptor of a configuration names, setting by setting,  *)
(* the endpoints the proxy serves.                                         *)
ASSUME DescriptorNamesServedEndpoints ==
  \A udc \in Udcs, a, b, c \in Endpoints :
    LET remapped == Desc!Remap(udc, <<a, b, c>>)
        host == remapped.host
        settings == << <<0, 0>>, <<1, 1>> >>
        served == (settings[1] :> <<host[1]>>) @@ (settings[2] :> <<host[2], host[3]>>)
        face(i) == [kind |-> "interface", key |-> settings[i]]
        item(e) == [kind |-> "endpoint", address |-> <<e.number, e.in>>, maxp |-> e.maxp]
        out == Desc!Rewritten(served, <<face(1), item(a), face(2), item(b), item(c), item(c)>>)
    IN remapped.ok => /\ <<out[2].address, out[4].address, out[5].address>>
                            = <<host[1].address, host[2].address, host[3].address>>
                      /\ out[6] = item(c)

(* A replacement goes on for ever exactly when it puts back the pattern it *)
(* has found: shorter ones run out, longer ones reach the limit, and equal *)
(* ones move the packet one way in the order of its bytes.                 *)
Packets(n) == UNION {[1 .. k -> 0 .. 1] : k \in 0 .. n}
ASSUME ReplacementEnds ==
  \A data \in Packets(4), pattern \in Packets(2), new \in Packets(3) \ {<<>>} :
    Rule!Ends(data, pattern, new, 24)
      <=> ~(new = pattern /\ Rule!Found(data, pattern) # 0)

(* An operation changes no byte but those it names, and a negation of two  *)
(* bytes never keeps the sign.                                             *)
Ops == [type : {"negate", "set", "copy", "swap"}, offset : -1 .. 2, size : {1, 2}, other : 0 .. 2, value : {7}]
Touched(op) == {op.offset + 1} \cup (IF op.type = "negate" /\ op.size = 2 THEN {op.offset + 2} ELSE {})
               \cup (IF op.type \in {"copy", "swap"} THEN {op.other + 1} ELSE {})
ASSUME OperationsStayInside ==
  \A data \in Packets(3), op \in Ops :
    LET out == Rule!Apply(data, op)
    IN /\ Len(out) = Len(data)
       /\ \A i \in DOMAIN data \ Touched(op) : out[i] = data[i]
       /\ op.type = "negate" /\ op.size = 2 /\ Rule!Inside(data, op.offset, 2) =>
            LET before == Rule!Value(data, op) IN before # 0 => (before > 0) # (Rule!Value(out, op) > 0)

(* A request that the rules both lengthen and stall is stalled when it comes *)
(* from the device, and passes when it goes there: its length no longer is  *)
(* the one that the stall rule names.                                       *)
Request(in) == [id |-> 1, in |-> in, length |-> 1]
RuleFor(patterns, new) ==
  [enabled |-> TRUE, id |-> 1, length |-> 1, patterns |-> patterns, new |-> new, ops |-> <<>>]
Both == [modify |-> <<RuleFor(<< <<0>> >>, <<1, 1>>)>>, stall |-> <<RuleFor(<<>>, <<>>)>>, ignore |-> <<>>]
ASSUME LongerRequestEscapes ==
  \A in \in BOOLEAN :
    LET out == Rule!Control(Both, Request(in), <<0>>, 2)
    IN out.data = <<1, 1>> /\ out.flag = (IF in THEN "stall" ELSE "none")
(* Sending succeeds only when the packet is whole, and each piece asks for *)
(* the rest: no byte is sent twice, whatever libusb says.                  *)
Tr == INSTANCE UsbTransfers WITH MaxTransfer <- 4, MaxAttempts <- 3
Outcomes3 == [1 .. 3 -> [moved : 0 .. 2, result : {"success", "timeout", "pipe", "gone"}]]
ASSUME SuccessIsWhole ==
  \A length \in 1 .. 3, o \in Outcomes3 :
    LET st == Tr!Sent(length, o)
    IN /\ Tr!Send(length, o) = "success" => st.sent = length
       /\ st.asked[1] = length
       /\ \A k \in 1 .. Len(st.asked) - 1 :
            st.asked[k + 1] = st.asked[k] - Tr!Least(o[k].moved, st.asked[k])

(* A request the host may not wait for in vain: one that no rule ignores   *)
(* has an answer, and a device that stalls is seen to stall, except when   *)
(* the request carries data, which is acknowledged first, or is one of the *)
(* two that are acknowledged without the device.                           *)
Requests == [in : BOOLEAN, length : {0, 1, 3, 9}, kind : {"set_idle", "set_protocol", "other"}]
Answered(req, flag, device, received, compat, known) ==
  IF req.in THEN Tr!ControlIn(req, flag, device)
  ELSE Tr!ControlOut(req, flag, device, received, compat, known)
ASSUME RequestsAreAnswered ==
  \A req \in Requests, flag \in {"none", "stall", "ignore"}, ok \in BOOLEAN, bytes \in {0, 3, 9},
    received \in {0, 1, 4}, compat \in BOOLEAN, known \in BOOLEAN :
    LET a == Answered(req, flag, [ok |-> ok, bytes |-> bytes], received, compat, known)
    IN /\ a.host = "ignored" => flag = "ignore"
       /\ a.data <= 4
       /\ ~ok /\ a.host \in {"ack", "data"} =>
            ~req.in /\ (req.length > 0 \/ Tr!AckedHere(req, compat, known))

(* proxy.cpp:1750 has the device sent the bytes received, "not wLength":   *)
(* after a short packet it is still sent wLength of them, the last of them *)
(* never written.                                                          *)
ASSUME ShortPacketIsPadded ==
  \E req \in Requests : LET a == Tr!ControlOut(req, "none", [ok |-> TRUE, bytes |-> 0], 1, TRUE, TRUE)
                         IN a.device = "asked" /\ a.data < Tr!BytesSent(req)
=============================================================================
