-------------------------- MODULE MCFramePipeline --------------------------
(* The consumers of the ring are the workers and the preview.              *)
EXTENDS FramePipeline, InferenceEngine, TLC

CONSTANTS full, part

MCConsumers == Workers \cup {PreviewThread}
MCSizes     == {full, part}

(* One worker's memories are explored beside the threads of the pipeline:  *)
(* each moves as long as the other has not started to.                     *)
MCInit == Init /\ EngineInit
MCNext == \/ number = 0 /\ worker = "off" /\ Next /\ UNCHANGED evars
          \/ Init /\ EngineNext /\ UNCHANGED vars
MCSpec == MCInit /\ [][MCNext]_<<vars, evars>> /\ Fairness
-----------------------------------------------------------------------------
(* The decoding is a function of the tensors: it is checked over small     *)
(* inputs when this module is loaded.                                      *)
D == INSTANCE DetectionDecode WITH FieldLimit <- 6, BinsMin <- 4, BinsMax <- 2, Step <- 8

Shapes == {<<1, 4, 2>>, <<1, 4, 6>>, <<1, 5, 7>>, <<1, 8, 1, 2>>, <<1, 2, 1, 2>>, <<1, 1, 1, 2>>, <<1, 1, 4, 2>>, <<1, 12, 1, 2>>}
Grouped(n) == {s \in [1 .. 6 -> Shapes] : \A i \in 1 .. 6 - n : s[i] = s[i + n]}
Models6 == Grouped(2) \cup Grouped(3)
ModelShapes == {<<>>} \cup {<<s>> : s \in Shapes} \cup [1 .. 2 -> Shapes] \cup [1 .. 3 -> Shapes] \cup Models6

(* A model is decoded as the adapter said when it was loaded, or not at    *)
(* all; one the adapter refuses is never decoded.                          *)
ASSUME DecoderIsTheAdapters ==
  \A outs \in ModelShapes :
    D!Process(outs) \in {"error", D!DecodeType(outs)} /\ D!Process(outs) # "unknown"

(* A stride times the cells of a decoded square grid is the height.        *)
ASSUME StridesFit ==
  \A outs \in {o \in ModelShapes : D!Process(o) \in {"dfl", "dfl_pair", "dfl_dist"}} :
    \A k \in DOMAIN D!Strides(outs, 4) : D!Strides(outs, 4)[k] \in {2, 4}

(* Looking at aux first loses no cell that would have passed, and an aux   *)
(* that says nothing leaves the decoding of a triple as that of a pair.    *)
Percent == {0, 1, 30, 60, 100}
Cells == [1 .. 2 -> [1 .. 2 -> {0, 40, 100}]]
Near == [e \in 1 .. 4 |-> <<1, 1>>]
OneRow == [columns |-> 2, stride |-> 4]
ASSUME AuxCutIsSafe ==
  \A scores \in Cells, aux \in [1 .. 2 -> Percent], conf \in {1, 30, 50} :
    /\ D!Decoded(scores, aux, conf) = {a \in 1 .. 2 : D!Scored(scores[a], D!AuxAt(aux, a)) >= conf}
    /\ ~D!AuxUsed(aux) => D!DistBoxes(scores, aux, <<Near, Near>>, OneRow, conf)
                             = D!PairBoxes(scores, <<Near, Near>>, OneRow, conf)

(* The same box comes out of each layout that can say it.                  *)
ASSUME LayoutsAgree ==
  \A scores \in Cells, conf \in {30, 50} :
    LET d == <<1, 1, 1, 1>>
        row(a) == [x |-> 4 * a - 2, y |-> 2, w |-> 8, h |-> 8, scores |-> scores[a], objectness |-> 100]
        boxes == D!DflBoxes(scores, <<d, d>>, OneRow, conf)
    IN /\ D!SingleBoxes(<<row(1), row(2)>>, conf) = boxes
       /\ D!RowBoxes(boxes, conf) = boxes
       /\ D!PairBoxes(scores, <<[e \in 1 .. 4 |-> <<0, 1>>], [e \in 1 .. 4 |-> <<0, 1>>]>>, OneRow, conf) = boxes

(* The distance to an edge never exceeds that of the last bin.             *)
ASSUME DistanceIsABin ==
  \A weights \in [1 .. 3 -> 0 .. 3] : D!Distance(weights) \in 0 .. 2

(* Whatever order the sort gives to equal scores: no two of the boxes kept *)
(* overlap, and each one dropped overlaps one kept that is at least as good. *)
Boxes == {D!Box(x, 0, x + w, 2, score, class) : x \in {0, 1, 2}, w \in {2}, score \in {30, 60}, class \in {0, 1}}
Triples == [1 .. 3 -> Boxes]
Sound(cands, kept, iou) ==
  /\ \A i, k \in DOMAIN kept : i # k => ~D!Overlap(kept[i], kept[k], iou)
  /\ \A i \in DOMAIN cands : \E k \in DOMAIN kept :
       kept[k] = cands[i] \/ (kept[k].score >= cands[i].score /\ D!Overlap(kept[k], cands[i], iou))
ASSUME NmsIsGreedy ==
  \A cands \in Triples, iou \in {20, 40} : \A order \in D!Orders(cands) :
    Sound(cands, D!Nms(cands, order, iou), iou)
ASSUME ClassesAreApart ==
  \A cands \in Triples :
    \A first \in D!Orders(D!OfClass(cands, 0)), second \in D!Orders(D!OfClass(cands, 1)) :
      LET kept == D!ByClass(cands, <<0, 1>>, <<first, second>>, 20)
      IN \A c \in {0, 1} : Sound(D!OfClass(cands, c), D!OfClass(kept, c), 20)

(* The best of the classes asked for are kept.                             *)
ASSUME BestAreKept ==
  \A boxes \in Triples, filter \in SUBSET {0, 1}, most \in 0 .. 3 :
    LET kept == D!PostFilter(boxes, filter, most)
        able == {i \in 1 .. 3 : filter = {} \/ boxes[i].class \in filter}
    IN /\ \A k \in DOMAIN kept : kept[k] \in {boxes[i] : i \in able}
       /\ most > 0 => Len(kept) = IF Cardinality(able) < most THEN Cardinality(able) ELSE most
       /\ \A i \in able : (\A k \in DOMAIN kept : kept[k] # boxes[i]) =>
            \A k \in DOMAIN kept : kept[k].score >= boxes[i].score

(* The number is cut before the field of view is: a box outside it can     *)
(* take the place of one inside.                                           *)
Fov == [on |-> TRUE, shape |-> "rect", x |-> 1, y |-> 1, r |-> 1]
Params == [roi |-> D!NoArea, frame |-> [w |-> 8, h |-> 8], input |-> [w |-> 8, h |-> 8],
           filter |-> {}, most |-> 1, fov |-> Fov]
ASSUME OutsideDisplacesInside ==
  LET inside == D!Box(0, 0, 2, 2, 30, 0)
      outside == D!Box(6, 6, 8, 8, 60, 0)
  IN D!Finish(<<inside>>, Params) = <<inside>> /\ D!Finish(<<inside, outside>>, Params) = <<>>

(* The decoder maps back from the part of the frame the model was shown,   *)
(* and a box of the model's input stays within that part.                  *)
Areas == [w : {0, 2, 4, 9}, h : {0, 2, 3}, dx : {-4, 0, 1}, dy : {-4, 0, 1}]
FrameSizes == [w : {4, 7}, h : {3, 4}]
ASSUME DecoderSeesWhatIsShown ==
  \A f \in FrameSizes, first, second \in Areas :
    (first.w = 0 <=> first.h = 0) /\ first.w <= f.w /\ first.h <= f.h =>
      LET start == [decoder |-> D!NoArea, crop |-> D!NoArea]
          now == D!Areas(f, second, D!Areas(f, first, start))
          shown == D!Shown(f, now.crop)
          b == D!MapCoords(D!Box(0, 0, 4, 4, 50, 0),
                           [Params EXCEPT !.roi = now.decoder, !.frame = f, !.input = [w |-> 4, h |-> 4]])
      IN /\ shown = now.decoder
         /\ b.x1 >= 0 /\ b.y1 >= 0 /\ b.x2 <= f.w /\ b.y2 <= f.h

(* Pairing heads with bodies invents no box, and leaves out a fit body     *)
(* only when a head has brought it already.                                *)
Pairs == [enabled |-> TRUE, head |-> 1, body |-> 0, paired |-> 40, headOnly |-> FALSE, bodyOnly |-> TRUE]
ASSUME BodiesAreKept ==
  \A boxes \in Triples :
    LET out == D!Paired(boxes, Pairs, Boxes, {}, {b \in Boxes : b.x1 = 0})
    IN /\ \A k \in DOMAIN out : \E i \in 1 .. 3 : out[k] = boxes[i]
       /\ \A i \in 1 .. 3 : boxes[i].class = 0 => \E k \in DOMAIN out : out[k] = boxes[i]
=============================================================================
