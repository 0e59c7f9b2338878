------------------------------- MODULE Canvas -------------------------------
(***************************************************************************)
(* The Tiler, which shows the pictures of several threads in the grids of  *)
(* a canvas of two buffers, and the Scaler it draws with.  A picture is a  *)
(* number, newer ones are larger; a buffer maps a grid to its picture.     *)
(* The Scaler's buffers keep what tells formats apart: the declared colour *)
(* and the layout its bytes really have.                                   *)
(***************************************************************************)
EXTENDS Integers, Sequences, FiniteSets, SequencesExt

CONSTANTS
  Threads,      \* the threads that blit
  Grids,        \* how many grids the canvas has
  MaxBuffers,   \* the limit of grid_buffer_count_, 64
  MaxPictures,  \* bound: the calls of Blit
  Tilings,      \* the canvases to divide, [color, width, height, cols, rows]
  Canvases,     \* the canvases of the Tiler, [color, size]
  SourceSizes,  \* the sizes of the source of the Scaler
  TargetSizes,  \* the sizes of its targets
  MaxUses,      \* bound: how often one source is processed
  Wrap          \* unsigned integers count modulo Wrap

YUV == {"I420", "NV12", "NV21"}
Colors == YUV \cup {"BGR", "RGB", "BGRA"}
Supported == Colors \ {"BGRA"}

CanvasAssumption ==
  /\ {MaxBuffers, Wrap} \subseteq Nat \ {0} /\ SourceSizes \subseteq Nat
  /\ \A tiling \in Tilings :
       {tiling.width, tiling.cols, tiling.rows} \subseteq Nat \ {0} /\ tiling.height \in Nat
  /\ \A c \in Canvases : DOMAIN c = {"color", "size"} /\ c.color \in Colors /\ c.size \in Nat

VARIABLES
  canvas,     \* the buffers and the fields of the Tiler
  blitters,   \* thread -> the grid and the picture between its two scalings
  buffered, pictures, \* the threads with a grid buffer; the calls of Blit
  newest,     \* history: grid -> the picture last drawn
  shown,      \* history: the canvas as GetCanvas gave it, until it is released
  uncounted,  \* history: a picture was drawn while the canvas was locked
  spoilt,     \* history: GetCanvas of a buffer converted the canvas it reads
  source, target, uses  \* the Scaler: a source, and what the last use of it made

tilerVars == <<canvas, blitters, buffered, pictures, newest, shown, uncounted, spoilt>>
scalerVars == <<source, target, uses>>

(***************************************************************************)
(* Scaler                                                                  *)
(***************************************************************************)
Minus(a, b) == (a - b) % Wrap
Even(n) == n - (n % 2)
\* ScalerGetCropBuffer in one dimension; a crop of no width takes the rest.
CropFrom(color, at) == IF color \in YUV THEN Even(at) ELSE at
CropLength(color, length, at, crop) ==
  LET from == CropFrom(color, at)
      wanted == IF crop = 0 \/ from + crop > length THEN Minus(length, from) ELSE crop
  IN IF color \in YUV THEN Even(wanted) ELSE wanted
Whole(color, length) == IF color \in YUV THEN Even(length) ELSE length

Scrambled == "scrambled"
As(layout, from, to) == IF layout = from THEN to ELSE Scrambled
\* Both yield the layout of the result and the layout the source is left with;
\* YUV is converted within the memory of the source.
OpenCVConvertColor(layout, from, to) ==
  [result |-> As(layout, from, to),
   left |-> IF from # to /\ {from, to} \subseteq YUV THEN As(layout, from, to) ELSE layout]
OpenCVCopy(layout) == [result |-> layout, left |-> layout]
OpenCVResize(layout, color) ==
  [result |-> As(layout, color, color),
   left |-> IF color \in {"NV12", "NV21"} THEN As(layout, color, "I420") ELSE layout]

\* The Mat that is worked on is the memory of the source, unless the planes of the source
\* are not contiguous and had to be copied.
OpenCVBufferToMat(src, left) == IF src.continus THEN left ELSE src.layout
OpenCVMatToBuffer(src, made) ==
  [ok |-> TRUE, layout |-> made.result, left |-> OpenCVBufferToMat(src, made.left)]

\* dst as a buffer of the size and colour asked for.
OpenCVProcess(src, dst) ==
  LET sameSize == src.width = dst.width /\ src.height = dst.height
      Enlarges == dst.width % 2 = 1 \/ dst.height % 2 = 1 \/ dst.width > src.width \/ dst.height > src.height
      ConvertsFirst == src.color \in YUV /\ dst.color \notin YUV /\ Enlarges
      converted == OpenCVConvertColor(src.layout, src.color, dst.color)
      resized == OpenCVResize(src.layout, src.color)
      both == IF ConvertsFirst
              THEN [OpenCVResize(converted.result, dst.color) EXCEPT !.left = converted.left]
              ELSE [OpenCVConvertColor(resized.result, src.color, dst.color) EXCEPT !.left = resized.left]
  IN IF ~({src.color, dst.color} \subseteq Supported)
     THEN [ok |-> FALSE, layout |-> "old", left |-> src.layout]
     ELSE OpenCVMatToBuffer(src,
       CASE src.color = dst.color /\ sameSize -> OpenCVCopy(src.layout)
         [] src.color = dst.color /\ ~sameSize -> resized
         [] src.color # dst.color /\ sameSize -> converted
         [] OTHER -> both)
Trimmed(buffer) == [buffer EXCEPT !.width = Whole(buffer.color, @), !.height = Whole(buffer.color, @)]
Process(src, dst) == OpenCVProcess(Trimmed(src), Trimmed(dst))

Use ==
  /\ uses < MaxUses /\ uses' = uses + 1
  /\ \E size \in TargetSizes, color \in Colors :
       LET dst == [width |-> size, height |-> size, color |-> color]
           made == Process(source, dst)
       IN /\ target' = [color |-> color, ok |-> made.ok, layout |-> made.layout, from |-> source.layout]
          /\ source' = [source EXCEPT !.layout = made.left]
  /\ UNCHANGED tilerVars

(***************************************************************************)
(* Tiler                                                                   *)
(***************************************************************************)
Rect(x, y, w, h) == [x |-> x, y |-> y, w |-> w, h |-> h]
\* Init divides the canvas row by row; the first columns and rows are wider by a pixel.
\* Each grid is made from where the previous one ended; for YUV the next one starts at an
\* even place, and its size does not take up what was left over.
Divide(color, width, height, cols, rows) ==
  LET W(i) == width \div cols + (IF (i % cols) < (width % cols) THEN 1 ELSE 0)
      H(i) == height \div rows + (IF i \div cols < (height % rows) THEN 1 ELSE 0)
      step[i \in 0..cols * rows] ==   \* the grids before i, where i starts, what is left over
        IF i = 0 THEN [grids |-> <<>>, x |-> 0, y |-> 0, dw |-> 0, dh |-> 0]
        ELSE LET last == step[i - 1]
                 w == W(i - 1) + last.dw
                 h == H(i - 1) + last.dh
                 dw == IF color \in YUV THEN w % 2 ELSE 0
                 dh == IF color \in YUV THEN h % 2 ELSE 0
                 over == last.x + w - dw >= width
             IN [grids |-> Append(last.grids, Rect(last.x, last.y, W(i - 1), H(i - 1))),
                 x |-> IF over THEN 0 ELSE last.x + w - dw,
                 y |-> IF over THEN last.y + h - dh ELSE last.y,
                 dw |-> IF over THEN 0 ELSE dw, dh |-> dh]
  IN step[cols * rows].grids

Buffers == 0..1
Other(index) == (index + 1) % 2
NoPicture == 0
Positions == 0..Grids - 1
Blank == [position \in Positions |-> NoPicture]
\* A grid whose colours are lost; those of a blank canvas are everywhere the same.
Spoilt == -1
AllSpoilt(buffer) == IF buffer = Blank THEN Blank ELSE [position \in Positions |-> Spoilt]
NotShown == <<>>
Idle == [position |-> 0, picture |-> NoPicture]

FreshCanvas(color, size) ==
  [buffers |-> [i \in Buffers |-> Blank], index |-> 0, locked |-> FALSE, differs |-> FALSE,
   grid_buffer_count |-> 0, color |-> color, size |-> size]
TilerInit ==
  /\ canvas \in {FreshCanvas(c.color, c.size) : c \in Canvases}
  /\ blitters = [t \in Threads |-> Idle] /\ buffered = {} /\ pictures = 0
  /\ newest = Blank /\ shown = NotShown /\ uncounted = FALSE /\ spoilt = FALSE
ScalerInit ==
  /\ source \in {[width |-> size, height |-> size, color |-> color, layout |-> color, continus |-> continus] :
                   size \in SourceSizes, color \in Supported, continus \in BOOLEAN}
  /\ target = [color |-> "none", ok |-> FALSE, layout |-> "none", from |-> "none"] /\ uses = 0

\* A position is compared as an unsigned number: a negative one is refused, and the choice
\* of the next grid for it is never made.
Accepted(position) == position \in Positions

\* Blit, to where the picture is scaled into the grid buffer of the thread.  A thread
\* without one gets one, unless too many have; it keeps it when the scaling fails, which
\* it does for a picture or a canvas of a colour that is not supported.  That the second
\* scaling, from the grid buffer to the canvas, cannot fail then follows.
Blit(t) ==
  /\ blitters[t] = Idle /\ pictures < MaxPictures
  /\ \E position \in -1..Grids, scales \in {{color, canvas.color} \subseteq Supported : color \in Colors} :
       /\ Accepted(position)
       /\ LET count == canvas.grid_buffer_count + (IF t \in buffered THEN 0 ELSE 1)
              refused == t \notin buffered /\ count >= MaxBuffers
          IN /\ canvas' = [canvas EXCEPT !.grid_buffer_count = count] /\ pictures' = pictures + 1
             /\ buffered' = IF refused THEN buffered ELSE buffered \cup {t}
             /\ blitters' = IF refused \/ ~scales THEN blitters
                            ELSE [blitters EXCEPT ![t] = [position |-> position, picture |-> pictures + 1]]
  /\ UNCHANGED <<newest, shown, uncounted, spoilt, scalerVars>>

\* Under the lock of the buffers: draw the grid, and count it if the canvas is not shown.
NeverCounted(locked) == FALSE
Counted(locked) == ~locked
Draw(t) ==
  /\ blitters[t] # Idle
  /\ LET position == blitters[t].position picture == blitters[t].picture
     IN /\ canvas' = [canvas EXCEPT !.buffers[canvas.index][position] = picture,
                                    !.differs = @ \/ Counted(canvas.locked)]
        /\ newest' = [newest EXCEPT ![position] = picture]
  /\ uncounted' = (uncounted \/ canvas.locked)
  /\ blitters' = [blitters EXCEPT ![t] = Idle]
  /\ UNCHANGED <<buffered, pictures, shown, spoilt, scalerVars>>

\* GetCanvas shows the buffer that was drawn in and turns to the other, brought up to date
\* if a picture was counted; a locked canvas is given again as it is.
GetCanvas ==
  /\ ~canvas.locked
  /\ shown' = canvas.buffers[canvas.index]
  /\ canvas' = [canvas EXCEPT
        !.buffers[Other(canvas.index)] = IF canvas.differs THEN canvas.buffers[canvas.index] ELSE @,
        !.differs = FALSE, !.index = Other(@), !.locked = TRUE]
  /\ UNCHANGED <<blitters, buffered, pictures, newest, uncounted, spoilt, scalerVars>>

\* GetCanvas of an output buffer scales the buffer that is drawn in into it.  Where the
\* Scaler converts within its source, that buffer no longer has the layout of its colour.
\* (A second call may happen to restore it: here what is spoilt stays so.)
CanvasBuffer == [width |-> canvas.size, height |-> canvas.size, color |-> canvas.color,
                 layout |-> canvas.color, continus |-> canvas.size % 2 = 0]
Spoils(size, color) ==
  Process(CanvasBuffer, [width |-> size, height |-> size, color |-> color]).left # canvas.color
Spoiling == {output \in TargetSizes \X Colors : Spoils(output[1], output[2])}
GetCanvasOf ==
  /\ Spoiling # {}
  /\ canvas' = [canvas EXCEPT !.buffers[canvas.index] = AllSpoilt(@)]
  /\ spoilt' = TRUE
  /\ UNCHANGED <<blitters, buffered, pictures, newest, shown, uncounted, scalerVars>>

ReleaseCanvas ==
  /\ canvas.locked /\ shown' = NotShown
  /\ canvas' = [canvas EXCEPT !.locked = FALSE]
  /\ UNCHANGED <<blitters, buffered, pictures, newest, uncounted, spoilt, scalerVars>>

CanvasNext ==
  (\E t \in Threads : Blit(t) \/ Draw(t)) \/ GetCanvas \/ GetCanvasOf \/ ReleaseCanvas

(* The canvas that is shown is not drawn in until it is released; the      *)
(* buffer drawn in, which is shown next, holds the newest picture of every *)
(* grid, unless a picture was drawn while the canvas was shown, or is      *)
(* spoilt there, which takes a YUV canvas of an even height that was       *)
(* scaled into an output buffer.  Fewer than MaxBuffers threads ever draw. *)
UpToDate(buffer) ==
  \A position \in Positions : \/ buffer[position] = newest[position]
                              \/ spoilt /\ buffer[position] = Spoilt
TilerShows ==
  /\ canvas.locked => canvas.buffers[Other(canvas.index)] = shown
  /\ ~uncounted => UpToDate(canvas.buffers[canvas.index])
  /\ spoilt => canvas.color \in YUV /\ canvas.size % 2 = 0
  /\ Cardinality(buffered) < MaxBuffers

(* The grids of a canvas cover it without overlaps; of a YUV canvas only   *)
(* when it divides into grids of even sizes.                               *)
CellsOf(r) == (r.x..r.x + r.w - 1) \X (r.y..r.y + r.h - 1)
Divides(tiling) == tiling.color \in YUV =>
  tiling.width % (2 * tiling.cols) = 0 /\ tiling.height % (2 * tiling.rows) = 0
GridsTile == \A tiling \in {t \in Tilings : Divides(t)} :
  LET grids == Divide(tiling.color, tiling.width, tiling.height, tiling.cols, tiling.rows)
  IN /\ \A i, j \in DOMAIN grids : i # j => CellsOf(grids[i]) \cap CellsOf(grids[j]) = {}
     /\ UNION {CellsOf(grids[i]) : i \in DOMAIN grids} = (0..tiling.width - 1) \X (0..tiling.height - 1)

(* The Scaler gives the format asked for, from a source whose bytes have   *)
(* the format it declares; the source keeps its bytes unless they are YUV  *)
(* and contiguous.                                                         *)
ScalerConverts ==
  /\ target.ok => (target.from = source.color => target.layout = target.color)
  /\ uses > 0 => (target.ok <=> target.color \in Supported)
  /\ source.layout # source.color => source.continus /\ source.color \in YUV

(* A crop that begins inside a buffer ends inside it.                      *)
CropsFit ==
  \A color \in {"NV12", "BGR"}, length \in SourceSizes, crop \in 0..2 : \A at \in 0..length :
    CropFrom(color, at) + CropLength(color, length, at, crop) <= length

CanvasShows ==
  TilerShows /\ ScalerConverts /\ (target.color = "none" /\ pictures = 0 => GridsTile /\ CropsFit)

CanvasSpec == TilerInit /\ ScalerInit /\ [][CanvasNext \/ Use]_<<tilerVars, scalerVars>>
=============================================================================
