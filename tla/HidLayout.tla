------------------------------ MODULE HidLayout ------------------------------
(***************************************************************************)
(* Where the fields of a mouse report are, and what mouse_control writes   *)
(* into it (usbproxy/hid_report_layout.cpp, mouse_control.cpp,             *)
(* inject_clock.cpp).  A report descriptor is the sequence of its items,   *)
(* each with its kind and its value; an item cut off by the end of the     *)
(* descriptor is a "cut" one.  A report is a sequence of bytes.            *)
(***************************************************************************)
EXTENDS Integers, Sequences, SequencesExt

CONSTANTS MaxId,     \* 16: kMaxReportId
          MaxUsages, \* 16: kMaxUsages
          MaxBits    \* 4096: kMaxFieldBits

-----------------------------------------------------------------------------
(* Fields *)

NoField == [present |-> FALSE, at |-> -1, size |-> 0]
Field(at, size) == [present |-> TRUE, at |-> at, size |-> size]

Safe(f) == f.present /\ f.at % 8 = 0 /\ f.size \in {8, 16, 32}
FirstByte(f) == f.at \div 8
LastByte(f)  == (f.at + f.size - 1) \div 8
Overlap(f, g) == f.present /\ g.present /\ FirstByte(f) <= LastByte(g) /\ FirstByte(g) <= LastByte(f)

-----------------------------------------------------------------------------
(* The parser *)

NoLayout == [valid |-> FALSE, bits |-> 0, buttons |-> NoField, x |-> NoField, y |-> NoField, wheel |-> NoField]
HasXY(lay) == lay.x.present /\ lay.y.present

Start == [page |-> "none", size |-> 0, count |-> 0, id |-> 0,
          usages |-> <<>>, range |-> FALSE, ids |-> FALSE, ok |-> TRUE,
          layouts |-> [r \in 0 .. MaxId - 1 |-> NoLayout]]

(* The first field of a usage stays.  A usage is the page and the name.    *)
FieldOf == [X |-> "x", Y |-> "y", Wheel |-> "wheel"]
Assign(lay, usage, f) ==
  LET name == IF usage.page = "button" THEN "buttons"
              ELSE IF usage.page = "desktop" /\ usage.id \in DOMAIN FieldOf THEN FieldOf[usage.id]
              ELSE "none"
  IN IF name = "none" \/ lay[name].present THEN lay ELSE [lay EXCEPT ![name] = f]

ClearLocal(st) == [st EXCEPT !.usages = <<>>, !.range = FALSE]

(* The fields of one Input item that starts at a bit.                      *)
Fields(st, lay) ==
  LET n == Len(st.usages)
      whole == Field(lay.bits, st.size * st.count)
      button == [page |-> "button", id |-> "any"]
  IN IF n >= 1 /\ n >= st.count
     THEN FoldLeft(LAMBDA l, k : Assign(l, st.usages[k], Field(lay.bits + (k - 1) * st.size, st.size)),
                   lay, [k \in 1 .. st.count |-> k])
     ELSE IF st.range /\ st.page = "button" THEN Assign(lay, button, whole)
     ELSE IF n = 1 THEN Assign(lay, st.usages[1], whole)
     ELSE IF st.page = "button" THEN Assign(lay, button, whole)
     ELSE lay

(* handle_input.  An id out of range is taken for 0.                       *)
Input(st, flags) ==
  LET r == IF st.id < MaxId THEN st.id ELSE 0
      lay == st.layouts[r]
      filled == IF "constant" \notin flags /\ "variable" \in flags THEN Fields(st, lay) ELSE lay
  IN IF st.size <= 0 \/ st.count <= 0 \/ st.size * st.count > MaxBits THEN ClearLocal(st)
     ELSE ClearLocal([st EXCEPT !.layouts[r] =
                        [filled EXCEPT !.valid = TRUE, !.bits = lay.bits + st.size * st.count]])

Usage(st, u) == IF Len(st.usages) < MaxUsages THEN [st EXCEPT !.usages = Append(@, u)] ELSE st

Item(st, item) ==
  CASE ~st.ok -> st
    [] item.kind = "page"  -> [st EXCEPT !.page = item.value]
    [] item.kind = "size"  -> [st EXCEPT !.size = item.value]
    [] item.kind = "count" -> [st EXCEPT !.count = item.value]
    [] item.kind = "id"    -> [st EXCEPT !.id = item.value, !.ids = TRUE]
    [] item.kind = "usage" -> Usage(st, [page |-> st.page, id |-> item.value])
    [] item.kind = "range" -> [st EXCEPT !.range = TRUE]
    [] item.kind = "input" -> Input(st, item.value)
    [] item.kind = "collection" -> ClearLocal(st)
    [] item.kind = "cut"   -> [st EXCEPT !.ok = FALSE]
    [] OTHER -> st

(* hid_parse_report_descriptor, and HidMouseDescriptor.                    *)
Parse(items) ==
  LET st == FoldLeft(Item, Start, items)
  IN [ids |-> st.ids, layouts |-> st.layouts,
      parsed |-> st.ok /\ \E r \in DOMAIN st.layouts : st.layouts[r].valid]

ValidIds(desc) == {r \in DOMAIN desc.layouts : desc.layouts[r].valid}
First(ids) == IF ids = {} THEN -1 ELSE CHOOSE r \in ids : \A q \in ids : r <= q
MotionId(desc) == First({r \in ValidIds(desc) : HasXY(desc.layouts[r])})
ButtonId(desc) == First({r \in ValidIds(desc) : desc.layouts[r].buttons.present})
Usable(desc) == desc.parsed /\ (MotionId(desc) # -1 \/ ButtonId(desc) # -1)

(* The interface the injector writes to, when the descriptor of another    *)
(* arrives: descs are those that came before, cur is -1 at first.          *)
Moves(desc) == Usable(desc) /\ MotionId(desc) # -1
Chosen(descs, cur, i) ==
  IF Usable(descs[i]) /\ (cur = -1 \/ (Moves(descs[i]) /\ ~Moves(descs[cur]))) THEN i ELSE cur

-----------------------------------------------------------------------------
(* Reading and writing, in a body that starts after the report id *)

Inside(body, f) == LastByte(f) < Len(body)
Bytes(n) == [k \in 1 .. n |-> k]
Whole(body, f, n) == FoldRight(LAMBDA k, v : 256 * v + body[FirstByte(f) + k], Bytes(n), 0)

ReadSigned(body, f) ==
  LET v == Whole(body, f, f.size \div 8) IN IF v >= 2 ^ (f.size - 1) THEN v - 2 ^ f.size ELSE v
Saturated(v, size) ==
  IF v > 2 ^ (size - 1) - 1 THEN 2 ^ (size - 1) - 1 ELSE IF v < -(2 ^ (size - 1)) THEN -(2 ^ (size - 1)) ELSE v

(* The bytes of a number, least first.                                     *)
Put(body, first, n, v) ==
  [i \in DOMAIN body |-> IF i - 1 \in first .. first + n - 1
                         THEN (v \div 2 ^ (8 * (i - 1 - first))) % 256 ELSE body[i]]
CanWrite(body, f) == Safe(f) /\ Inside(body, f)
WriteSigned(body, f, v) == Put(body, FirstByte(f), f.size \div 8, Saturated(v, f.size))

(* A mask of 1 to 16 buttons; the bits above it keep their values.         *)
MaskOK(body, f) == f.present /\ f.at % 8 = 0 /\ f.size \in 1 .. 16 /\ Inside(body, f)
MaskBytes(f) == (f.size + 7) \div 8
ReadMask(body, f) == Whole(body, f, MaskBytes(f)) % 2 ^ f.size
WriteMask(body, f, mask) ==
  LET old == Whole(body, f, MaskBytes(f))
  IN Put(body, FirstByte(f), MaskBytes(f), old - (old % 2 ^ f.size) + (mask % 2 ^ f.size))

-----------------------------------------------------------------------------
(* What mouse_control does with them *)

(* layout_for_report: the layout's id, or -1.                              *)
Prefix(desc) == IF desc.ids THEN 1 ELSE 0
LayoutId(desc, data) ==
  LET r == IF desc.ids /\ data # <<>> THEN data[1] ELSE 0
  IN IF Usable(desc) /\ Len(data) > Prefix(desc) /\ r \in DOMAIN desc.layouts /\ desc.layouts[r].valid
     THEN r ELSE -1
Body(desc, data) == SubSeq(data, Prefix(desc) + 1, Len(data))
TotalBytes(lay) == (lay.bits + 7) \div 8

Apart(lay) == /\ ~Overlap(lay.x, lay.buttons) /\ ~Overlap(lay.y, lay.buttons)
              /\ ~Overlap(lay.x, lay.wheel) /\ ~Overlap(lay.y, lay.wheel)

(* mouse_control_merge_report: the gates, then the motion of the step is   *)
(* added to that of the report.                                            *)
Mergeable(desc, data) ==
  LayoutId(desc, data) # -1
  /\ LET lay == desc.layouts[LayoutId(desc, data)]
     IN /\ HasXY(lay) /\ Safe(lay.x) /\ Safe(lay.y) /\ Apart(lay)
        /\ Len(Body(desc, data)) >= TotalBytes(lay)

WheelFits(lay) == Safe(lay.wheel) /\ ~Overlap(lay.wheel, lay.buttons)
                  /\ ~Overlap(lay.wheel, lay.x) /\ ~Overlap(lay.wheel, lay.y)
Added(body, f, d) == WriteSigned(body, f, ReadSigned(body, f) + d)

MergedBody(lay, body, step) ==
  LET moved == Added(Added(body, lay.x, step.x), lay.y, step.y)
  IN IF step.wheel # 0 /\ WheelFits(lay) THEN Added(moved, lay.wheel, step.wheel) ELSE moved
MergeReport(desc, data, step) ==
  IF Mergeable(desc, data) /\ (step.x # 0 \/ step.y # 0)
  THEN SubSeq(data, 1, Prefix(desc)) \o MergedBody(desc.layouts[LayoutId(desc, data)], Body(desc, data), step)
  ELSE data

(* The buttons a physical report shows, the empty set of answers when it   *)
(* shows none: mouse_control_notify_physical_report.                       *)
Shown(desc, data) ==
  IF LayoutId(desc, data) = -1 THEN {}
  ELSE LET lay == desc.layouts[LayoutId(desc, data)]
       IN IF MaskOK(Body(desc, data), lay.buttons) THEN {ReadMask(Body(desc, data), lay.buttons) % 256} ELSE {}

(* inject_clock_build_report: a report of its own, or none.                *)
BuildId(desc) == IF MotionId(desc) # -1 THEN MotionId(desc) ELSE ButtonId(desc)
Buildable(desc, lay, body) ==
  /\ lay.buttons.present => MaskOK(body, lay.buttons)
  /\ HasXY(lay) => CanWrite(body, lay.x) /\ CanWrite(body, lay.y) /\ Apart(lay)
  /\ lay.wheel.present => CanWrite(body, lay.wheel)
BuiltBody(lay, empty, mask, step) ==
  LET pressed == IF lay.buttons.present THEN WriteMask(empty, lay.buttons, mask) ELSE empty
      moved == IF HasXY(lay) THEN WriteSigned(WriteSigned(pressed, lay.x, step.x), lay.y, step.y) ELSE pressed
  IN IF lay.wheel.present THEN WriteSigned(moved, lay.wheel, step.wheel) ELSE moved
Build(desc, mask, step) ==
  IF ~Usable(desc) THEN {}
  ELSE LET lay == desc.layouts[BuildId(desc)]
           empty == [i \in 1 .. TotalBytes(lay) |-> 0]
       IN IF Buildable(desc, lay, empty)
          THEN {(IF desc.ids THEN <<BuildId(desc)>> ELSE <<>>) \o BuiltBody(lay, empty, mask, step)}
          ELSE {}
=============================================================================
