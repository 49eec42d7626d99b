--------------------------- MODULE UsbDescriptors ---------------------------
(***************************************************************************)
(* What the USB proxy does to the descriptors of the device before the     *)
(* host sees them: the endpoints of a configuration are placed on those    *)
(* the UDC has, polling intervals are converted, packet sizes limited, and *)
(* addresses translated both ways (usb-proxy.cpp, proxy.cpp, misc.h).      *)
(* An endpoint is a record: its device address, direction, transfer type,  *)
(* packet size, and the high-bandwidth bits of an isochronous one.  A      *)
(* candidate is an endpoint of the UDC; AnyAddr says it takes any address. *)
(***************************************************************************)
EXTENDS Integers, Sequences, SequencesExt, FiniteSets

CONSTANT AnyAddr

\* The address is a number and a direction, as bEndpointAddress is.
Address(number, in) == <<number, in>>

-----------------------------------------------------------------------------
(* Placing the endpoints *)

Supports(candidate, ep) ==
    /\ IF ep.in THEN candidate.in ELSE candidate.out
    /\ ep.type \in candidate.types
    /\ candidate.limit = 0 \/ ep.maxp <= candidate.limit

HostAddress(candidate, ep) ==
    Address(IF candidate.addr = AnyAddr THEN ep.number ELSE candidate.addr, ep.in)

\* The first free candidate, or 0.
FindCandidate(candidates, used, ep) ==
    LET fit == {i \in DOMAIN candidates : i \notin used /\ Supports(candidates[i], ep)}
    IN IF fit = {} THEN 0 ELSE CHOOSE i \in fit : \A j \in fit : i <= j

\* An isochronous endpoint is cut to the limit; the UDC has no high bandwidth.
Clamped(candidate, ep) ==
    IF ep.type = "iso" /\ candidate.limit # 0 /\ (ep.maxp > candidate.limit \/ ep.high)
    THEN [ep EXCEPT !.maxp = candidate.limit, !.high = FALSE] ELSE ep

\* One endpoint: an address met before, in another setting, keeps its place.
Place(candidates, state, ep) ==
    LET device == Address(ep.number, ep.in)
        known == {m \in state.places : m.device = device}
        index == IF known # {} THEN (CHOOSE m \in known : TRUE).index
                 ELSE FindCandidate(candidates, {m.index : m \in state.places}, ep)
    IN IF ~state.ok \/ index = 0 THEN [state EXCEPT !.ok = FALSE]
       ELSE [ok |-> TRUE,
             places |-> state.places \cup {[device |-> device, index |-> index]},
             host |-> Append(state.host,
                             [address |-> HostAddress(candidates[index], ep),
                              device |-> device,
                              limit |-> candidates[index].limit,
                              ep |-> Clamped(candidates[index], ep)])]

\* remap_config_endpoints, over the endpoints of all settings in their order.
Remap(candidates, eps) ==
    FoldLeft(LAMBDA state, ep : Place(candidates, state, ep),
             [ok |-> TRUE, places |-> {}, host |-> <<>>], eps)

\* remap_endpoint_for_device: the first endpoint with that address.
ToDevice(host, address) ==
    LET at == {i \in DOMAIN host : host[i].address = address}
    IN IF at = {} THEN address ELSE host[CHOOSE i \in at : \A j \in at : i <= j].device

-----------------------------------------------------------------------------
(* Intervals and settings *)

Log2(v) == CHOOSE n \in 0 .. 16 : 2 ^ n <= v /\ v < 2 ^ (n + 1)
Least(a, b) == IF a < b THEN a ELSE b

\* fs_ms_to_hs_interval: the exponent of the microframes in ms milliseconds.
HsInterval(ms) == IF ms <= 1 THEN 4 ELSE Least(16, Log2(ms * 8) + 1)

\* setup_host_usb_desc: only what is polled by interval is converted.
Interval(speed, ep) == IF speed = "full" /\ ep.type \in {"iso", "int"} THEN HsInterval(ep.interval)
                       ELSE ep.interval

\* find_best_compatible_altsetting over the settings of an interface, each
\* the sequence of its endpoints: the last of the largest that fit, or 0.
Fits(setting) == \A k \in DOMAIN setting :
                    setting[k].type = "iso" /\ setting[k].limit # 0 => setting[k].maxp <= setting[k].limit
Packet(setting) ==
    LET sizes == {0} \cup {setting[k].maxp : k \in {j \in DOMAIN setting : setting[j].type = "iso" /\ setting[j].limit # 0}}
    IN CHOOSE p \in sizes : \A q \in sizes : q <= p
Better(settings, best, i) ==
    IF settings[i] # <<>> /\ Fits(settings[i]) /\ (best = 0 \/ Packet(settings[i]) >= Packet(settings[best]))
    THEN i ELSE best
BestSetting(settings, desired) ==
    IF settings[desired] = <<>> THEN desired
    ELSE FoldLeft(LAMBDA best, i : Better(settings, best, i), 0, [i \in DOMAIN settings |-> i])

\* clamp_uvc_probe_commit: the payload a video stream may ask for.
StreamLimit(host) ==
    LET limits == {0} \cup {host[i].limit : i \in {j \in DOMAIN host : host[j].ep.type = "iso"}}
    IN CHOOSE l \in limits : \A m \in limits : m <= l
Payload(asked, host) == IF StreamLimit(host) # 0 THEN Least(asked, StreamLimit(host)) ELSE asked

\* find_altsetting: the endpoints of a setting, none when there is no such
\* setting.  settings is a function of <<interface, setting>>.
SettingOf(settings, key) == IF key \in DOMAIN settings THEN settings[key] ELSE <<>>

\* The endpoint a video header names: the first of its own setting, or the
\* first that some setting of the interface has.
StreamingEp(settings, key) ==
    LET own == SettingOf(settings, key)
        later == {k \in DOMAIN settings : k[1] = key[1] /\ settings[k] # <<>>}
    IN IF own # <<>> THEN {own[1]}
       ELSE IF later = {} THEN {} ELSE {settings[CHOOSE k \in later : \A j \in later : k[2] <= j[2]][1]}

\* rewrite_descriptor_addresses, over the records of a configuration
\* descriptor: an interface record selects a setting, the endpoint records
\* after it are those of the setting in order, others stay as they are.
Rewrite(settings, state, item) ==
    LET eps == SettingOf(settings, state.key)
        header == IF item.kind = "header" THEN StreamingEp(settings, state.key) ELSE {}
    IN CASE item.kind = "interface" ->
              [key |-> item.key, next |-> 1, out |-> Append(state.out, item)]
         [] item.kind = "endpoint" /\ state.next <= Len(eps) ->
              [state EXCEPT !.next = @ + 1,
                            !.out = Append(@, [item EXCEPT !.address = eps[state.next].address,
                                                           !.maxp = eps[state.next].ep.maxp])]
         [] header # {} ->
              [state EXCEPT !.out = Append(@, [item EXCEPT !.address = (CHOOSE e \in header : TRUE).address])]
         [] OTHER -> [state EXCEPT !.out = Append(@, item)]

Rewritten(settings, items) ==
    FoldLeft(LAMBDA state, item : Rewrite(settings, state, item),
             [key |-> <<>>, next |-> 1, out |-> <<>>], items).out
=============================================================================
