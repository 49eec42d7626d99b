-------------------------- MODULE DetectionDecode --------------------------
(***************************************************************************)
(* From the tensors of a model to the boxes of a frame: which decoder a    *)
(* model gets (model/ModelAdapter.cpp, rknn/DecodeNMS.cpp), how an anchor  *)
(* becomes a box, and the filters every box passes (NMS, classes, number,  *)
(* field of view, heads and bodies: rknn/DetectionGeometryFilter.cpp).     *)
(* Scores are percentages, coordinates whole pixels; the tensors are read  *)
(* as they are after the dequantisation.                                   *)
(***************************************************************************)
EXTENDS Integers, Sequences, FiniteSetsExt, SequencesExt

CONSTANTS FieldLimit,    \* 16: the widest row of an end-to-end output
          BinsMin,       \* 32: the fewest channels of a reg output
          BinsMax,       \* 64: bins per edge the decoder has room for
          Step           \* 16: a triple's reg channels are a multiple of it

(* The shapes of the outputs, a sequence of sequences of dimensions.       *)
Rank(outs, i) == Len(outs[i])
Groups(outs, n) == {i \in DOMAIN outs : i % n = 1 /\ i + n - 1 <= Len(outs)}

EndToEnd(outs) ==
  Rank(outs, 1) = 3 /\ outs[1][3] \in 1 .. FieldLimit /\ outs[1][2] > 0
Triple(outs, i) ==
  /\ \A k \in i .. i + 2 : Rank(outs, k) = 4
  /\ outs[i][2] >= BinsMin /\ outs[i][2] % Step = 0
  /\ outs[i + 2][2] = 1 /\ outs[i + 1][2] # 0
Pair(outs, i) ==
  /\ Rank(outs, i) = 4 /\ Rank(outs, i + 1) = 4
  /\ outs[i][2] >= BinsMin /\ outs[i][2] % 4 = 0 /\ outs[i + 1][2] # 0
  /\ outs[i][3] = outs[i + 1][3] /\ outs[i][4] = outs[i + 1][4]

Several(outs) ==
  LET n == Len(outs)
  IN IF n >= 6 /\ n % 3 = 0 /\ \A i \in Groups(outs, 3) : Triple(outs, i) THEN "dfl_dist"
     ELSE IF n >= 6 /\ n % 2 = 0 /\ \A i \in Groups(outs, 2) : Pair(outs, i) THEN "dfl_pair"
     ELSE IF n % 2 = 0 THEN "dfl"
     ELSE "unknown"

(* What the adapter says of the model when it is loaded.                   *)
DecodeType(outs) ==
  IF outs = <<>> THEN "unknown"
  ELSE IF Len(outs) > 1 THEN Several(outs)
  ELSE IF EndToEnd(outs) THEN "e2e"
  ELSE IF Rank(outs, 1) >= 3 /\ outs[1][2] >= 5 THEN "single"
  ELSE "unknown"

(* What the decoder does with each frame of it.                            *)
Anchors(dims, first) == FoldLeft(LAMBDA p, d : p * d, 1, SubSeq(dims, first, Len(dims)))
SingleFits(outs) == Rank(outs, 1) >= 3 /\ outs[1][2] >= 5 /\ Anchors(outs[1], 3) > 0
BoxOf(dims) == IF Len(dims) = 4 THEN <<dims[3], dims[4]>>
               ELSE IF Len(dims) = 3 THEN <<dims[2], dims[3]>> ELSE <<0, 0>>
DflFits(outs) ==
  \A i \in Groups(outs, 2) :
    LET box == BoxOf(outs[i])
        cls == outs[i + 1]
    IN /\ box[1] = 4 /\ box[2] > 0
       /\ Len(cls) = 4 /\ cls[2] > 0 /\ cls[3] > 0 /\ cls[4] > 0
       /\ cls[3] * cls[4] = box[2]
PairFits(outs) == \A i \in Groups(outs, 2) : outs[i][2] \div 4 <= BinsMax
DistFits(outs) ==
  \A i \in Groups(outs, 3) :
    /\ outs[i][3] > 0 /\ outs[i][4] > 0 /\ outs[i][2] \div 4 <= BinsMax
    /\ \A k \in {i + 1, i + 2} : outs[k][3] = outs[i][3] /\ outs[k][4] = outs[i][4]
Process(outs) ==
  IF outs = <<>> THEN "error"
  ELSE IF Len(outs) = 1
       THEN IF EndToEnd(outs) THEN IF outs[1][3] >= 6 THEN "e2e" ELSE "error"
            ELSE IF SingleFits(outs) THEN "single" ELSE "error"
  ELSE LET kind == Several(outs)
       IN CASE kind = "dfl_dist" -> IF DistFits(outs) THEN kind ELSE "error"
            [] kind = "dfl_pair" -> IF PairFits(outs) THEN kind ELSE "error"
            [] kind = "dfl" -> IF DflFits(outs) THEN kind ELSE "error"
            [] OTHER -> "error"

(* The classes and the strides the adapter reads off the shapes.           *)
FirstClasses(outs, n) ==
  LET found == {i \in Groups(outs, n) : Rank(outs, i + 1) = 4 /\ outs[i + 1][2] > 0}
  IN IF found = {} THEN 0 ELSE outs[Min(found) + 1][2]
ClassCount(outs, objectness) ==
  LET kind == DecodeType(outs)
  IN CASE kind = "single" ->
            IF outs[1][2] - 4 = objectness THEN outs[1][2] - 5 ELSE outs[1][2] - 4
       [] kind \in {"dfl", "dfl_pair"} -> FirstClasses(outs, 2)
       [] kind = "dfl_dist" -> FirstClasses(outs, 3)
       [] OTHER -> 0
RootOf(n) == CHOOSE r \in 0 .. n : r * r <= n /\ (r + 1) * (r + 1) > n
Grid(outs, i) == IF DecodeType(outs) = "dfl" THEN RootOf(outs[i][4]) ELSE outs[i][3]
Strides(outs, height) ==
  LET n == IF DecodeType(outs) = "dfl_dist" THEN 3 ELSE 2
      groups == {i \in Groups(outs, n) : Rank(outs, i) = 4 /\ Grid(outs, i) > 0}
  IN IF DecodeType(outs) \in {"single", "e2e", "unknown"} THEN <<>>
     ELSE [k \in 1 .. Cardinality(groups) |->
            height \div Grid(outs, SetToSortSeq(groups, <)[k])]
-----------------------------------------------------------------------------
(* One anchor.  The best class is the first with the greatest score; an    *)
(* aux output is taken for objectness when it varies within (0, 1].        *)
BestOf(scores) ==
  CHOOSE i \in DOMAIN scores : /\ \A k \in DOMAIN scores : scores[k] <= scores[i]
                               /\ \A k \in 1 .. i - 1 : scores[k] < scores[i]
AuxUsed(aux) ==
  /\ Len(aux) > 1 /\ \A a \in DOMAIN aux : aux[a] \in 1 .. 100
  /\ \E a, b \in DOMAIN aux : aux[a] # aux[b]
Scored(scores, aux) == (scores[BestOf(scores)] * aux) \div 100
AuxAt(aux, a) == IF AuxUsed(aux) THEN aux[a] ELSE 100
(* The cells that are decoded at all: a low aux saves the look at the classes. *)
Decoded(classes, aux, conf) ==
  {a \in DOMAIN classes : AuxAt(aux, a) >= conf /\ Scored(classes[a], AuxAt(aux, a)) >= conf}

(* The distance to an edge, from the weights of its bins.                  *)
Distance(weights) ==
  LET sum == FoldLeft(+, 0, weights)
      moment == FoldLeft(+, 0, [b \in DOMAIN weights |-> (b - 1) * weights[b]])
  IN IF sum > 0 THEN moment \div sum ELSE 0

Box(x1, y1, x2, y2, score, class) ==
  [x1 |-> x1, y1 |-> y1, x2 |-> x2, y2 |-> y2, score |-> score, class |-> class]
Centred(x, y, w, h, score, class) ==
  Box(x - w \div 2, y - h \div 2, x + w \div 2, y + h \div 2, score, class)
(* The cell a of a grid (columns, stride), with the distances d from its   *)
(* centre to the left, up, right and down.                                 *)
Half(k, stride) == ((2 * k + 1) * stride) \div 2
FromCell(a, grid, d, score, class) ==
  LET cx == Half((a - 1) % grid.columns, grid.stride)
      cy == Half((a - 1) \div grid.columns, grid.stride)
  IN Box(cx - d[1] * grid.stride, cy - d[2] * grid.stride,
         cx + d[3] * grid.stride, cy + d[4] * grid.stride, score, class)

(* The candidates of the five layouts, anchor by anchor: a row of a single *)
(* output has its objectness, or 100; the distances of a box output are    *)
(* decoded already, those of a reg output are bins.                        *)
Passing(scores, conf) == SetToSortSeq({a \in DOMAIN scores : Scored(scores[a], 100) >= conf}, <)
SingleBoxes(rows, conf) ==
  LET able == SelectSeq(rows, LAMBDA r : Scored(r.scores, r.objectness) >= conf)
  IN [k \in DOMAIN able |-> Centred(able[k].x, able[k].y, able[k].w, able[k].h,
                                    Scored(able[k].scores, able[k].objectness), BestOf(able[k].scores))]
DflBoxes(scores, distances, grid, conf) ==
  LET able == Passing(scores, conf)
  IN [k \in DOMAIN able |-> FromCell(able[k], grid, distances[able[k]],
                                     Scored(scores[able[k]], 100), BestOf(scores[able[k]]))]
PairBoxes(scores, bins, grid, conf) ==
  DflBoxes(scores, [a \in DOMAIN bins |-> [e \in 1 .. 4 |-> Distance(bins[a][e])]], grid, conf)
DistBoxes(scores, aux, bins, grid, conf) ==
  LET able == SetToSortSeq(Decoded(scores, aux, conf), <)
  IN [k \in DOMAIN able |-> FromCell(able[k], grid, [e \in 1 .. 4 |-> Distance(bins[able[k]][e])],
                                     Scored(scores[able[k]], AuxAt(aux, able[k])), BestOf(scores[able[k]]))]
RowBoxes(rows, conf) == SelectSeq(rows, LAMBDA r : r.score >= conf)
-----------------------------------------------------------------------------
(* nms_boxes over the candidates in one of the orders the sort may give.   *)
Orders(cands) ==
  {p \in [DOMAIN cands -> DOMAIN cands] :
     /\ \A i, k \in DOMAIN cands : i # k => p[i] # p[k]
     /\ \A i, k \in DOMAIN cands : i < k => cands[p[i]].score >= cands[p[k]].score}
Over(a) == IF a > 0 THEN a ELSE 0
Low(a, b) == IF a < b THEN a ELSE b
High(a, b) == IF a > b THEN a ELSE b
Area(b) == Over(b.x2 - b.x1) * Over(b.y2 - b.y1)
Common(a, b) == Over(Low(a.x2, b.x2) - High(a.x1, b.x1)) * Over(Low(a.y2, b.y2) - High(a.y1, b.y1))
Overlap(a, b, iou) ==
  LET union == Area(a) + Area(b) - Common(a, b)
  IN union > 0 /\ 100 * Common(a, b) > iou * union
Keep(kept, cand, iou) == IF \E b \in ToSet(kept) : Overlap(b, cand, iou) THEN kept ELSE Append(kept, cand)
Nms(cands, order, iou) == FoldLeft(LAMBDA kept, i : Keep(kept, cands[i], iou), <<>>, order)
OfClass(cands, c) == SelectSeq(cands, LAMBDA b : b.class = c)
ByClass(cands, classes, orders, iou) ==
  FlattenSeq([k \in DOMAIN classes |-> Nms(OfClass(cands, classes[k]), orders[k], iou)])

(* apply_post_filter: the classes asked for, then the best so many.        *)
BestFirst(boxes) == SortSeq(boxes, LAMBDA a, b : a.score > b.score)
PostFilter(boxes, filter, most) ==
  LET own == IF filter = {} THEN boxes ELSE SelectSeq(boxes, LAMBDA b : b.class \in filter)
  IN IF most > 0 /\ Len(own) > most THEN SubSeq(BestFirst(own), 1, most) ELSE own

(* map_coords: from the model's input to the frame, through the part of it *)
(* the model was shown.                                                    *)
Scale(x, size, input, offset) == (x * size) \div input + offset
MapCoords(b, p) ==
  LET whole == p.roi.w = 0 \/ p.roi.h = 0
      from == IF whole THEN [x |-> 0, y |-> 0, w |-> IF p.frame.w > 0 THEN p.frame.w ELSE p.input.w,
                             h |-> IF p.frame.h > 0 THEN p.frame.h ELSE p.input.h] ELSE p.roi
  IN [b EXCEPT !.x1 = Scale(@, from.w, p.input.w, from.x), !.x2 = Scale(@, from.w, p.input.w, from.x),
               !.y1 = Scale(@, from.h, p.input.h, from.y), !.y2 = Scale(@, from.h, p.input.h, from.y)]
Clamped(a, most) == High(0, Low(a, most))
Square(frame) ==
  LET side == Low(frame.w, frame.h)
  IN [x |-> (frame.w - side) \div 2, y |-> (frame.h - side) \div 2, w |-> side, h |-> side]
Middle(frame, area) ==
  [x |-> Clamped(frame.w \div 2 + area.dx - area.w \div 2, frame.w - area.w),
   y |-> Clamped(frame.h \div 2 + area.dy - area.h \div 2, frame.h - area.h),
   w |-> area.w, h |-> area.h]
NoArea == [x |-> 0, y |-> 0, w |-> 0, h |-> 0]
(* apply_runtime_profile: the decoder's part and the one the crop is set to, *)
(* both kept when the configured area does not fit the frame.              *)
Areas(frame, area, old) ==
  IF area.w \in 1 .. frame.w /\ area.h \in 1 .. frame.h
  THEN [decoder |-> Middle(frame, area), crop |-> Middle(frame, area)]
  ELSE IF area.w = 0 /\ area.h = 0 /\ frame.w > 0 /\ frame.h > 0
       THEN [decoder |-> Square(frame), crop |-> NoArea]
       ELSE old
(* RgaProcessor::process: what of the frame the model is shown.            *)
Shown(frame, crop) == IF crop.w > 0 /\ crop.h > 0 THEN crop ELSE Square(frame)

(* apply_fov_filter: the centre of the box lies in the field of view.      *)
Abs(a) == IF a < 0 THEN -a ELSE a
InFov(b, fov) ==
  LET dx == b.x1 + b.x2 - 2 * fov.x
      dy == b.y1 + b.y2 - 2 * fov.y
  IN IF fov.shape = "circle" THEN dx * dx + dy * dy <= 4 * fov.r * fov.r
     ELSE Abs(dx) <= 2 * fov.r /\ Abs(dy) <= 2 * fov.r
FovFilter(boxes, fov) == IF fov.on THEN SelectSeq(boxes, LAMBDA b : InFov(b, fov)) ELSE boxes

Finish(boxes, p) ==
  FovFilter(PostFilter([i \in DOMAIN boxes |-> MapCoords(boxes[i], p)], p.filter, p.most), p.fov)
-----------------------------------------------------------------------------
(* DetectionGeometryFilter: a head is kept with the best body that holds   *)
(* it, a body also without a head.  fit, single and border name the boxes  *)
(* whose size, score and place meet the configured limits.                 *)
Holds(body, head) ==
  LET cx == head.x1 + head.x2
      cy == head.y1 + head.y2
  IN 2 * body.x1 <= cx /\ cx <= 2 * body.x2 /\ 2 * body.y1 <= cy /\ cy <= 2 * body.y2
Holder(bodies, head) ==
  LET able == {i \in DOMAIN bodies : Holds(bodies[i], head)}
  IN IF able = {} THEN 0
     ELSE CHOOSE i \in able : /\ \A k \in able : bodies[k].score <= bodies[i].score
                              /\ \A k \in able : k < i => bodies[k].score < bodies[i].score
Paired(boxes, cfg, fit, single, border) ==
  LET heads == SelectSeq(boxes, LAMBDA b : b.class = cfg.head /\ b \in fit)
      bodies == SelectSeq(boxes, LAMBDA b : b.class = cfg.body /\ b \in fit)
      body(h) == IF heads[h] \in border \/ heads[h].score < cfg.paired THEN 0 ELSE Holder(bodies, heads[h])
      alone(h) == heads[h] \notin border /\ body(h) = 0 /\ cfg.headOnly /\ heads[h] \in single
      of(h) == IF body(h) > 0 THEN <<heads[h], bodies[body(h)]>>
               ELSE IF alone(h) THEN <<heads[h]>> ELSE <<>>
      used == {body(h) : h \in DOMAIN heads}
      rest == IF cfg.bodyOnly THEN SelectSeq([i \in DOMAIN bodies |-> <<i, bodies[i]>>], LAMBDA p : p[1] \notin used)
              ELSE <<>>
  IN IF ~cfg.enabled THEN boxes
     ELSE FlattenSeq([h \in DOMAIN heads |-> of(h)]) \o [i \in DOMAIN rest |-> rest[i][2]]
=============================================================================
