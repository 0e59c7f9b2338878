----------------------------- MODULE Detection -----------------------------
(***************************************************************************)
(* What the plugins RetinaFace and FacePositionClassifier compute from the *)
(* numbers a network gives them: anchors, decoded boxes, clipping, the     *)
(* suppression of overlapping boxes, for one image or a batch, and the     *)
(* pose by a vote of neighbours.                                           *)
(* Coordinates are counted in half pixels, in which the code's arithmetic  *)
(* is exact; a regression is given by the shift of the centre in 16ths of  *)
(* the anchor and by the factor exp(dw), taken to be whole.                *)
(***************************************************************************)
EXTENDS Integers, Sequences, FiniteSets, SequencesExt, FiniteSetsExt, Functions

CONSTANTS
  Networks,   \* the names of networks the constructor is given
  NetSize,    \* getNetWidth and getNetHeight
  ImageSizes, \* the sizes of images, [cols, rows]
  Cells,      \* what a network may put out above the threshold, without the scores
  Scores,     \* the scores a cell may have
  Batches,    \* images and, for each, an output of the network: cell -> score
  Threshold,  \* the threshold for scores
  NmsPercent, \* nms_threshold in percent
  Labels, Dataset, Neighbours, Tickets  \* of the classifier: labels, distance and label
                                        \* of every line, m and k

VARIABLES given, computed

NoRatio == <<>>
One == <<1, 1>>
Ratios(network) ==
  CASE network = "net3" -> <<One>>
    [] network \in {"net3a", "net5a"} -> <<One, <<3, 2>>>>
    [] OTHER -> NoRatio
FeatureMaps(network) ==
  CASE network = "net6" -> 6 [] network \in {"net5", "net5a"} -> 5 [] network = "net4" -> 4
    [] OTHER -> 3
Config(stride, scales, ratios) ==
  [STRIDE |-> stride, SCALES |-> scales, BASE_SIZE |-> 16, RATIOS |-> ratios]
AnchorConfig(network) ==
  IF FeatureMaps(network) # 3 THEN <<>>
  ELSE << Config(32, <<32, 16>>, Ratios(network)),
          Config(16, <<8, 4>>, Ratios(network)),
          Config(8, <<2, 1>>, Ratios(network)) >>

\* Windows: width and height in pixels, the centre in half pixels.
Box(x1, y1, x2, y2) == [x1 |-> x1, y1 |-> y1, x2 |-> x2, y2 |-> y2]
Whctrs(anchor) ==
  LET w == (anchor.x2 - anchor.x1) \div 2 + 1
      h == (anchor.y2 - anchor.y1) \div 2 + 1
  IN [w |-> w, h |-> h, x_ctr |-> anchor.x1 + (w - 1), y_ctr |-> anchor.y1 + (h - 1)]
MkAnchors(win) ==
  Box(win.x_ctr - (win.w - 1), win.y_ctr - (win.h - 1), win.x_ctr + (win.w - 1), win.y_ctr + (win.h - 1))

\* std::round(sqrt(size / ratio)) and std::round(w * ratio), ratio = r[1] / r[2].
RoundedRoot(size, r) == CHOOSE w \in 0..size : /\ (2 * w - 1) * (2 * w - 1) * r[1] <= 4 * size * r[2]
                                               /\ (2 * w + 1) * (2 * w + 1) * r[1] > 4 * size * r[2]
RatioEnum(anchor, ratios) ==
  LET win == Whctrs(anchor)
      Of(r) == LET w == RoundedRoot(win.w * win.h, r)
               IN MkAnchors([win EXCEPT !.w = w, !.h = (2 * w * r[1] + r[2]) \div (2 * r[2])])
  IN [i \in DOMAIN ratios |-> Of(ratios[i])]
ScaleEnum(anchor, scales) ==
  LET win == Whctrs(anchor)
  IN [i \in DOMAIN scales |-> MkAnchors([win EXCEPT !.w = @ * scales[i], !.h = @ * scales[i]])]
GenerateAnchors(cfg) ==   \* dense_anchor is always false
  LET base == Box(0, 0, 2 * (cfg.BASE_SIZE - 1), 2 * (cfg.BASE_SIZE - 1))
      byRatio == RatioEnum(base, cfg.RATIOS)
  IN FlattenSeq([i \in DOMAIN byRatio |-> ScaleEnum(byRatio[i], cfg.SCALES)])

Shift(box, dx, dy) == Box(box.x1 + dx, box.y1 + dy, box.x2 + dx, box.y2 + dy)
\* One plane of positions after the other, each row by row.
AnchorOfCell(position, width, height, anchors) == (position % anchors) + 1
AnchorOf(position, width, height, anchors) == position \div (width * height) + 1
AnchorsPlane(height, width, stride, base) ==
  [p \in 1..height * width * Len(base) |->
     LET cell == (p - 1) % (width * height)
     IN Shift(base[AnchorOf(p - 1, width, height, Len(base))],
              2 * stride * (cell % width), 2 * stride * (cell \div width))]

BBoxPred(anchor, regress) ==
  LET win == Whctrs(anchor)
      x_ctr == (regress.dx * win.w) \div 8 + win.x_ctr
      y_ctr == (regress.dy * win.h) \div 8 + win.y_ctr
  IN MkAnchors([w |-> regress.grow * win.w, h |-> regress.grow * win.h,
                x_ctr |-> x_ctr, y_ctr |-> y_ctr])
LandmarkPred(anchor, pt) ==
  LET win == Whctrs(anchor)
  IN [x |-> (pt.x * win.w) \div 8 + win.x_ctr, y |-> (pt.y * win.h) \div 8 + win.y_ctr]
Least(a, b) == IF a < b THEN a ELSE b
Greatest(a, b) == IF a > b THEN a ELSE b
ClipBoxes(box, width, height) ==
  Box(Greatest(box.x1, 0), Greatest(box.y1, 0), Least(box.x2, 2 * (width - 1)), Least(box.y2, 2 * (height - 1)))

\* Areas in quarters of a pixel: a pixel belongs to both ends of a box.
Area(box) == (box.x2 - box.x1 + 2) * (box.y2 - box.y1 + 2)
Overlap(a, b) ==
  LET w == Least(a.x2, b.x2) - Greatest(a.x1, b.x1) + 2
      h == Least(a.y2, b.y2) - Greatest(a.y1, b.y1) + 2
  IN IF w <= 0 \/ h <= 0 THEN 0 ELSE w * h
OverlapPercent(a, b, percent) ==
  Overlap(a, b) # 0 /\ 100 * Overlap(a, b) > percent * (Area(a) + Area(b) - Overlap(a, b))

\* nms of boxes sorted by their scores: select the first box not merged, merge what it overlaps.
Merges(selected, box, percent) == OverlapPercent(selected.rect, box.rect, percent)
Nms(bboxes, percent) ==
  LET step[i \in 0..Len(bboxes)] ==   \* the boxes selected and the positions merged before i + 1
        IF i = 0 THEN [selected |-> <<>>, merged |-> {}]
        ELSE IF i \in step[i - 1].merged THEN step[i - 1]
        ELSE [selected |-> Append(step[i - 1].selected, bboxes[i]),
              merged |-> step[i - 1].merged
                         \cup {j \in i + 1..Len(bboxes) : Merges(bboxes[i], bboxes[j], percent)}]
  IN step[Len(bboxes)].selected

\* The scale that fits an image into the network, as a fraction, at least one.
Fraction(n, d) == [n |-> n, d |-> d]
FitScale(image) ==
  LET longest == Greatest(image.cols, image.rows)
  IN IF longest > NetSize THEN Fraction(longest, NetSize) ELSE Fraction(1, 1)
Rounded(n, d) == (2 * n + d) \div (2 * d)
Resized(image) ==
  LET scale == FitScale(image)
  IN [cols |-> Rounded(image.cols * scale.d, scale.n), rows |-> Rounded(image.rows * scale.d, scale.n)]
\* The border copyMakeBorder adds on the right and below.
Border(image) ==
  LET size == Resized(image)
  IN IF FitScale(image) = Fraction(1, 1) \/ image.cols = image.rows
     THEN [right |-> NetSize - size.cols, below |-> NetSize - size.rows]
     ELSE IF image.cols > image.rows THEN [right |-> 0, below |-> NetSize - size.rows]
     ELSE [right |-> NetSize - size.cols, below |-> 0]

\* The boxes of one output: every anchor of every cell with a score above the threshold.
Side(stride) == NetSize \div stride
Anchors(cfg) == AnchorsPlane(Side(cfg.STRIDE), Side(cfg.STRIDE), cfg.STRIDE, GenerateAnchors(cfg))
Decoded(network, output, scales) ==   \* scales: feature map -> scale
  {LET cfg == AnchorConfig(network)[cell.map]
       anchor == Anchors(cfg)[cell.j + Side(cfg.STRIDE) * Side(cfg.STRIDE) * cell.num + 1]
   IN [score |-> output[cell], rect |-> ClipBoxes(BBoxPred(anchor, cell), NetSize, NetSize),
       pts |-> LandmarkPred(anchor, [x |-> cell.dx, y |-> cell.dy]), scale_ratio |-> scales[cell.map]]
   : cell \in {c \in DOMAIN output : output[c] > Threshold
                                      /\ c.map \in DOMAIN AnchorConfig(network)
                                      /\ c.num < Len(GenerateAnchors(AnchorConfig(network)[c.map]))}}
\* The best first: the i-th has i - 1 better ones, the scores being different.
Sorted(boxes) ==
  [i \in 1..Cardinality(boxes) |->
     CHOOSE box \in boxes : Cardinality({better \in boxes : better.score > box.score}) = i - 1]
OneScale(network, image) == [map \in DOMAIN AnchorConfig(network) |-> FitScale(image)]
Detect(network, image, output) ==
  Nms(Sorted(Decoded(network, output, OneScale(network, image))), NmsPercent)
\* The scale of a box of a batch is taken by the number of the feature map.  Past the end
\* of scales lies any number: a value of its own stands for it, that is no scale.
PastTheEnd == Fraction(0, 0)
DetectBatchImages(network, images, outputs) ==
  LET scales == [map \in DOMAIN AnchorConfig(network) |->
                   IF map \in DOMAIN images THEN FitScale(images[map]) ELSE PastTheEnd]
  IN [b \in DOMAIN images |-> Nms(Sorted(Decoded(network, outputs[b], scales)), NmsPercent)]

\* Predict: the m lines drawn, sorted by distance; the first k vote.  Among labels
\* with as many votes the order of the map decides, which is not specified.
Votes(drawn, label) == Cardinality({i \in 1..Tickets : Dataset[drawn[i]].label = label})
Drawn(lines) == SortSeq(lines, LAMBDA a, b : Dataset[a].distance < Dataset[b].distance)
Vote(drawn, labels) ==   \* labels in the order of the map
  FoldLeft(LAMBDA best, label : IF Votes(drawn, label) > Votes(drawn, best) THEN label ELSE best,
           Head(labels), labels)

\* The scores above the threshold tell the cells of an output apart: the sort has one outcome.
Apart(output) == \A c, d \in Cells : output[c] = output[d] /\ output[c] > Threshold => c = d

(* What the network gives: finitely many numbers for the cells of its      *)
(* feature maps; images have pixels, and lines have labels.                *)
DetectionAssumption ==
  /\ NetSize \in Nat \ {0} /\ ImageSizes \subseteq [cols : Nat \ {0}, rows : Nat \ {0}]
  /\ IsFiniteSet(Cells)
  /\ Cells \subseteq [map : Nat, num : Nat, j : Nat, dx : Int, dy : Int, grow : Int]
  /\ \A network \in Networks, cell \in Cells : cell.map \in DOMAIN AnchorConfig(network) =>
       LET side == Side(AnchorConfig(network)[cell.map].STRIDE) IN cell.j < side * side
  /\ Scores \subseteq Int /\ Threshold \in Int
  /\ \A batch \in Batches :
       /\ batch.images \in Seq(ImageSizes)
       /\ batch.outputs \in [DOMAIN batch.images -> [Cells -> Scores]]
       /\ \A b \in DOMAIN batch.images : Apart(batch.outputs[b])
  /\ Tickets \in Nat /\ IsFiniteSet(Labels) /\ Labels # {}

Init ==
  /\ \/ given \in [network : Networks, batch : Batches]
     \/ given \in [lines : [1..Neighbours -> DOMAIN Dataset]]
  /\ computed = [at |-> "nothing"]

\* Each image by itself, and all of them at once.
DetectEach(network, images, outputs) ==
  [b \in DOMAIN images |-> Detect(network, images[b], outputs[b])]
DetectFaces ==
  /\ computed.at = "nothing" /\ "batch" \in DOMAIN given
  /\ computed' = [at |-> "faces",
        faces |-> DetectEach(given.network, given.batch.images, given.batch.outputs),
        batch |-> DetectBatchImages(given.network, given.batch.images, given.batch.outputs)]
  /\ UNCHANGED given
Predict ==
  /\ computed.at = "nothing" /\ "lines" \in DOMAIN given
  /\ \E labels \in SetToSeqs(Labels) :
       computed' = [at |-> "pose", label |-> Vote(Drawn(given.lines), labels)]
  /\ UNCHANGED given

Next == DetectFaces \/ Predict

DetectionSpec == Init /\ [][Next]_<<given, computed>>

(* The faces of an image are decoded from the cell and the anchor their    *)
(* score belongs to; the kept ones overlap each other no more than         *)
(* nms_threshold allows, and every one not kept overlaps a better kept one *)
(* by more; a box that clipping leaves no pixel of is always kept.  The    *)
(* resized image and its border fill the network's input exactly.  A batch *)
(* finds the faces each of its images has by itself, in the same order and *)
(* places.  It scales them as the image does just when, for every feature  *)
(* map with a face, the batch has an image of that number and it is of the *)
(* same scale as the image of the face: never with fewer images than the   *)
(* number of such a map.  The pose has as many votes as any other.         *)
Centred(network, cell) ==
  LET cfg == AnchorConfig(network)[cell.map]
      win == Whctrs(Anchors(cfg)[cell.j + Side(cfg.STRIDE) * Side(cfg.STRIDE) * cell.num + 1])
      shape == Whctrs(GenerateAnchors(cfg)[cell.num + 1])
  IN /\ win.x_ctr = cfg.BASE_SIZE - 1 + 2 * cfg.STRIDE * (cell.j % Side(cfg.STRIDE))
     /\ win.y_ctr = cfg.BASE_SIZE - 1 + 2 * cfg.STRIDE * (cell.j \div Side(cfg.STRIDE))
     /\ win.w = shape.w /\ win.h = shape.h
Greedy(found, kept) ==
  /\ \A face, other \in kept : face # other => ~OverlapPercent(face.rect, other.rect, NmsPercent)
  /\ \A face \in found \ kept : \E better \in kept :
       better.score > face.score /\ OverlapPercent(better.rect, face.rect, NmsPercent)
  /\ \A face \in found :
       face.rect.x2 + 2 <= face.rect.x1 \/ face.rect.y2 + 2 <= face.rect.y1 => face \in kept
Fills(image) ==
  LET border == Border(image) size == Resized(image)
  IN /\ border.right >= 0 /\ border.below >= 0
     /\ size.cols + border.right = NetSize /\ size.rows + border.below = NetSize
FacesFound(network, image, output, faces) ==
  LET found == Decoded(network, output, OneScale(network, image))
  IN Range(faces) \subseteq found /\ Greedy(found, Range(faces))
Placed(face) == [score |-> face.score, rect |-> face.rect, pts |-> face.pts]
\* The scores tell of which cell a face is.
HasFace(cell, output, faces) == \E i \in DOMAIN faces : faces[i].score = output[cell]
ScaledAlike(images, b, map) == map \in DOMAIN images /\ FitScale(images[map]) = FitScale(images[b])
BatchOf(images, b, output, faces, again) ==
  /\ Len(again) = Len(faces)
  /\ \A i \in DOMAIN faces : Placed(again[i]) = Placed(faces[i])
  /\ again = faces <=> \A cell \in Cells : HasFace(cell, output, faces) => ScaledAlike(images, b, cell.map)
FacesStand == computed.at = "faces" =>
  /\ \A cell \in Cells : /\ cell.map \in DOMAIN AnchorConfig(given.network)
                         /\ cell.num < Len(GenerateAnchors(AnchorConfig(given.network)[cell.map]))
                         => Centred(given.network, cell)
  /\ \A b \in DOMAIN given.batch.images :
       LET images == given.batch.images
           output == given.batch.outputs[b]
           faces == computed.faces[b]
       IN /\ Fills(images[b]) /\ FacesFound(given.network, images[b], output, faces)
          /\ BatchOf(images, b, output, faces, computed.batch[b])
DetectionsStand ==
  /\ FacesStand
  /\ computed.at = "pose" => \A label \in Labels :
       Votes(Drawn(given.lines), label) <= Votes(Drawn(given.lines), computed.label)
=============================================================================
