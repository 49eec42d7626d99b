--------------------------- MODULE MCMouseControl ---------------------------
(***************************************************************************)
(* The two programs that pass reports on, which share nothing: the mouse   *)
(* of the USB proxy (MouseControl) and the HID forwarder (HidForward).     *)
(* They are explored side by side from one initial state, each as long as  *)
(* the other has not started to move.                                      *)
(***************************************************************************)
EXTENDS MouseControl, HidForward, TLC

MouseIdle == used = [moves |-> 0, commands |-> 0, reports |-> 0, refusals |-> 0, losses |-> 0]
             /\ \A s \in Subs : sub[s].pc = "free"
HidIdle == main = "start"

MCInit == Init /\ HidInit
MCNext == \/ HidIdle /\ Next /\ UNCHANGED hidVars
          \/ MouseIdle /\ HidNext /\ UNCHANGED vars
MCSpec == MCInit /\ [][MCNext]_<<vars, hidVars>> /\ Fairness

-----------------------------------------------------------------------------
(* Motion above the limit of one report and of the backlog, and a wheel    *)
(* without motion; reports without ids and of a consumer control.          *)
MCDeltas == {[move |-> 3, wheel |-> 2], [move |-> 0, wheel |-> -1]}
MCLayouts == {[size |-> 4, first |-> 0], [size |-> 3, first |-> 3]}
-----------------------------------------------------------------------------
(* The layout of reports is a function of the descriptor: it is checked    *)
(* over the descriptors of mice when this module is loaded.                *)
Lay == INSTANCE HidLayout WITH MaxId <- 3, MaxUsages <- 2, MaxBits <- 64

It(kind, value) == [kind |-> kind, value |-> value]
ButtonItems(n, size) ==
  <<It("page", "button"), It("range", 0), It("size", size), It("count", n), It("input", {"variable"})>>
Padding(n) == <<It("size", 1), It("count", n), It("input", {"constant"})>>
MotionItems(size) ==
  <<It("page", "desktop"), It("usage", "X"), It("usage", "Y"), It("size", size), It("count", 2), It("input", {"variable"})>>
WheelItems(size) ==
  <<It("usage", "Wheel"), It("size", size), It("count", 1), It("input", {"variable"})>>
Ids(on, n) == IF on THEN <<It("id", n)>> ELSE <<>>

(* Buttons of so many bits and a padding before or after the motion, with  *)
(* and without ids, in one report or in two.                               *)
Mice ==
  {Lay!Parse(Ids(ids, first) \o
     (IF after THEN MotionItems(size) \o WheelItems(wheel) \o Ids(two, 2) \o ButtonItems(n, 1) \o Padding(pad)
      ELSE ButtonItems(n, 1) \o Padding(pad) \o Ids(two, 2) \o MotionItems(size) \o WheelItems(wheel))) :
    ids \in BOOLEAN, first \in {1, 4}, two \in BOOLEAN, after \in BOOLEAN,
    n \in {3, 8}, pad \in {0, 5}, size \in {4, 8, 16}, wheel \in {4, 8}}
Steps == {[x |-> 1, y |-> -1, wheel |-> 1], [x |-> -200, y |-> 300, wheel |-> 0], [x |-> 0, y |-> 0, wheel |-> -1]}
Reports(desc) ==
  {<<r>> \o [i \in 1 .. 6 |-> v] : r \in 0 .. 2, v \in {0, 127, 200}} \cup {<<1, 2>>}

(* A merged report shows the buttons of the physical one, and has it       *)
(* length and its id; its motion is the sum of the two, held in the field: *)
(* what was once written into the bytes of the wheel and of the buttons    *)
(* (mouse_control.cpp:536) is not.                                         *)
ASSUME MergeKeepsButtons ==
  \A desc \in Mice : \A report \in Reports(desc), step \in Steps :
    LET out == Lay!MergeReport(desc, report, step)
        lay == desc.layouts[Lay!LayoutId(desc, report)]
        read(d, f) == Lay!ReadSigned(Lay!Body(desc, d), f)
    IN /\ Len(out) = Len(report) /\ Lay!LayoutId(desc, out) = Lay!LayoutId(desc, report)
       /\ Lay!Shown(desc, out) = Lay!Shown(desc, report)
       /\ Lay!Mergeable(desc, report) /\ step.x # 0 =>
            read(out, lay.x) = Lay!Saturated(read(report, lay.x) + step.x, lay.x.size)
       /\ Lay!Mergeable(desc, report) /\ lay.wheel.present /\ Lay!Safe(lay.wheel) /\ step.wheel = 0 =>
            read(out, lay.wheel) = read(report, lay.wheel)

(* A report the injector builds reads back as what was put into it, by the *)
(* layout a physical report of the same id has.                            *)
ASSUME BuiltReadsBack ==
  \A desc \in Mice : \A pressed \in {0, 5}, step \in Steps : \A out \in Lay!Build(desc, pressed, step) :
    LET lay == desc.layouts[Lay!BuildId(desc)]
    IN /\ Lay!LayoutId(desc, out) = Lay!BuildId(desc)
       /\ lay.buttons.present => Lay!Shown(desc, out) = {pressed}
       /\ Lay!HasXY(lay) => Lay!ReadSigned(Lay!Body(desc, out), lay.x) = Lay!Saturated(step.x, lay.x.size)

(* A descriptor cut off in the middle is refused whole.                    *)
ASSUME CutIsRefused ==
  ~Lay!Parse(MotionItems(8) \o <<It("cut", 0)>> \o ButtonItems(3, 1)).parsed

(* In whatever order the descriptors of a composite mouse arrive, the      *)
(* injector ends up at an interface that moves the pointer, if there is    *)
(* one.                                                                    *)
Composite == {Lay!Parse(d) : d \in {MotionItems(8), ButtonItems(3, 1), Padding(8)}}
ASSUME InjectorFindsMotion ==
  \A descs \in [1 .. 3 -> Composite] :
    LET last == Lay!Chosen(descs, Lay!Chosen(descs, Lay!Chosen(descs, -1, 1), 2), 3)
    IN (\E i \in 1 .. 3 : Lay!Moves(descs[i])) => Lay!Moves(descs[last])
=============================================================================
