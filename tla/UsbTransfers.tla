---------------------------- MODULE UsbTransfers ----------------------------
(***************************************************************************)
(* The transfers between the host and the device (usbproxy/proxy.cpp,      *)
(* device-libusb.cpp): a control request through EP0, a packet that is     *)
(* sent to the device in pieces, and a batch of isochronous packets.       *)
(***************************************************************************)
EXTENDS Integers, Sequences, SequencesExt

CONSTANTS MaxTransfer,   \* 4096: MAX_TRANSFER_SIZE
          MaxAttempts    \* 5: MAX_ATTEMPTS

Least(a, b) == IF a < b THEN a ELSE b
-----------------------------------------------------------------------------
(* send_data: pieces until the packet is whole and the last one succeeded. *)
(* An outcome is what libusb says of one piece.                            *)
Unsent == [sent |-> 0, attempt |-> 0, result |-> "none", asked |-> <<>>]
Goes(st, length) ==
  st.attempt = 0
  \/ (st.attempt < MaxAttempts /\ (st.result \in {"pipe", "timeout"} \/ st.sent # length))
Piece(st, length, outcome) ==
  IF ~Goes(st, length) THEN st
  ELSE [sent |-> st.sent + Least(outcome.moved, length - st.sent), attempt |-> st.attempt + 1,
        result |-> outcome.result, asked |-> Append(st.asked, length - st.sent)]
Sent(length, outcomes) == FoldLeft(LAMBDA st, o : Piece(st, length, o), Unsent, outcomes)
Send(length, outcomes) ==
  LET st == Sent(length, outcomes)
  IN IF st.sent # length /\ st.result = "success" THEN "other" ELSE st.result

(* The packets of a batch that reach the queue, none of a batch that has   *)
(* failed or is empty.                                                     *)
Arrived(packet) == packet.status = "completed" /\ packet.length > 0
Batch(result, packets) ==
  IF result = "success" THEN SelectSeq(packets, Arrived) ELSE <<>>
-----------------------------------------------------------------------------
(* A control request through EP0: what the host is answered, what the      *)
(* device is asked, and what is sent to it.  An answer "ignored" leaves    *)
(* the host without one.  A request has its direction, its length wLength  *)
(* and its kind; flag is what the injection rules say; device is the       *)
(* device's reply, to the host's data so many bytes are written or read.   *)
Answer(host, device, data) == [host |-> host, device |-> device, data |-> data]
Refusal(flag, device) == Answer(IF flag = "stall" THEN "stall" ELSE "ignored", device, 0)

(* SET_IDLE and SET_PROTOCOL are acknowledged here.                        *)
AckedHere(req, compat, known) ==
  compat /\ known /\ ~req.in /\ req.kind \in {"set_idle", "set_protocol"} /\ req.length = 0

ControlIn(req, flag, device) ==
  IF ~device.ok THEN Answer("stall", "asked", 0)
  ELSE IF flag # "none" THEN Refusal(flag, "asked")
  ELSE Answer("data", "asked", Least(device.bytes, MaxTransfer))

(* With data the host is acknowledged before the device is asked; of the   *)
(* wLength bytes the device is then sent, only the first are the host's.   *)
ControlOut(req, flag, device, received, compat, known) ==
  IF flag # "none" THEN Refusal(flag, "unasked")
  ELSE IF AckedHere(req, compat, known) THEN Answer("ack", "unasked", 0)
  ELSE IF req.length = 0 THEN Answer(IF device.ok THEN "ack" ELSE "stall", "asked", 0)
  ELSE Answer("ack", "asked", Least(received, Least(req.length, MaxTransfer)))
BytesSent(req) == req.length
=============================================================================
