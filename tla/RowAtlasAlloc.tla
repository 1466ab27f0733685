---------------------------- MODULE RowAtlasAlloc ----------------------------
(***************************************************************************)
(* The row-based texture-atlas allocator CRowAtlasAlloc                    *)
(* (src/rts/Rendering/Textures/RowAtlasAlloc.cpp).                         *)
(*                                                                         *)
(* Entries are registered with AddEntry; Allocate() then runs one          *)
(* synchronous pass: it rounds the atlas height up to a power of two,      *)
(* grows the atlas in EstimateNeededSize, sorts the entries, and places    *)
(* each one with FindRow/AddRow.  The loop iterations of the pass are      *)
(* steps of their own (phase "estimate" and "place") so that termination   *)
(* of the pass can be checked; nothing else can happen in between, since   *)
(* AddEntry is only enabled while no pass runs.                            *)
(*                                                                         *)
(* Entry names are naturals, ordered as the std::string keys they stand    *)
(* for.  Sizes are records [x, y] like the code's int2.                    *)
(***************************************************************************)
EXTENDS Integers, Sequences, SequencesExt

CONSTANTS
  Names,      \* the entry names a client may register
  Sizes,      \* the sizes ([x, y], in pixels) an entry may be given
  InitSize,   \* atlasSize of a freshly constructed allocator
  MaxSize,    \* maxsize
  NumLevels,  \* numLevels, the configured maximum number of mip levels
  MaxPasses   \* bound on the number of Allocate() calls

ASSUME Names \subseteq Nat /\ Names # {}
ASSUME \A s \in Sizes : s.x \in Nat \ {0} /\ s.y \in Nat \ {0}
ASSUME InitSize.x \in Nat \ {0} /\ InitSize.y \in Nat \ {0}
ASSUME InitSize.x <= MaxSize.x /\ InitSize.y <= MaxSize.y
\* Keeps every area far below 2^24, where int to float conversion is exact
\* and BelowSlack holds, and every FindRow height ratio distinct.
ASSUME MaxSize.x * MaxSize.y < 2^20 /\ MaxSize.y < 2^20
ASSUME \A s \in Sizes : s.x * s.y * Cardinality(Names) < 2^20
ASSUME NumLevels \in Nat /\ MaxPasses \in Nat

VARIABLES
  entries,      \* name -> [size, texCoords]: the registry
  atlasSize,    \* [x, y]
  imageRows,    \* sequence of rows [position, height, width]
  nextRowPos,
  phase,        \* "idle", or the loop of Allocate() being run
  spaceFree,    \* locals of EstimateNeededSize
  spaceNeeded,
  memtextures,  \* names still to be placed by this pass, in order
  padding,      \* padding of the current (or last) pass
  success,      \* the value Allocate() returns
  passes,       \* number of Allocate() calls so far
  placed,       \* history: names placed by the current (or last) pass
  failed,       \* history: names the current (or last) pass failed to place
  pre           \* history: what the client saw when the running pass began

vars == <<entries, atlasSize, imageRows, nextRowPos, phase, spaceFree,
          spaceNeeded, memtextures, padding, success, passes, placed, failed, pre>>

\* What a client of the allocator sees: the registry, the atlas size, the
\* result of the last Allocate() and the entries it placed.
AbsView == [entries |-> entries, atlasSize |-> atlasSize, success |-> success,
            placed |-> placed]

Phases == {"idle", "estimate", "place"}

\* The texCoords of an entry that has not been placed.
NoCoords == [x1 |-> 0, y1 |-> 0, x2 |-> 0, y2 |-> 0]

IntMax == 2147483647

Min2(a, b) == IF a <= b THEN a ELSE b

-----------------------------------------------------------------------------
(* Integer and float helpers.                                              *)

\* std::bit_width: the number of bits needed to represent n.
RECURSIVE BitWidth(_)
BitWidth(n) == IF n = 0 THEN 0 ELSE 1 + BitWidth(n \div 2)

\* std::bit_ceil: the least power of two >= n (1 for n = 0).
BitCeil(n) == IF n <= 1 THEN 1 ELSE 2^BitWidth(n - 1)

\* spaceFree < spaceNeeded * 1.2f, evaluated in float.  1.2f is
\* 1.2 + 2/(5 * 2^23), so the float product lies just above 6N/5 and, for
\* N below 2^20, the comparison agrees with 5F < 6N except at a tie
\* 5F = 6N.  There the product exceeds F by F/(3 * 2^23), and rounding to
\* 24 bits lifts it above F only when that is more than half an ulp of F,
\* i.e. when F > 1.5 * 2^(BitWidth(F) - 1) (at equality the tie rounds to
\* the even significand of F).
BelowSlack(free, needed) ==
  \/ 5 * free < 6 * needed
  \/ /\ 5 * free = 6 * needed
     /\ free > 0
     /\ free > 3 * 2^(BitWidth(free) - 2)

-----------------------------------------------------------------------------
(* Helpers of the allocator.                                               *)

\* GetMinDim: the smallest side of any registered entry (INT_MAX if none).
GetMinDim ==
  IF DOMAIN entries = {} THEN IntMax
  ELSE Min({Min2(entries[n].size.x, entries[n].size.y) : n \in DOMAIN entries})

\* Mutant (of GetNumTexLevels, for TypeOK): the cap at numLevels off by one.
GetNumTexLevelsOffByOne == Min2(BitWidth(GetMinDim), NumLevels + 1)

GetNumTexLevels == Min2(BitWidth(GetMinDim), NumLevels)

\* Free area below the last row plus to the right of every row.
FreeArea(size) ==
  size.x * (size.y - nextRowPos)
    + MapThenSumSet(LAMBDA i : imageRows[i].height * (size.x - imageRows[i].width),
                    DOMAIN imageRows)

\* CompareTex: tex1 goes before tex2 (height, then width, then name, all
\* descending).
CompareTex(n1, n2) ==
  LET s1 == entries[n1].size
      s2 == entries[n2].size
  IN  \/ s1.y > s2.y
      \/ s1.y = s2.y /\ s1.x > s2.x
      \/ s1.y = s2.y /\ s1.x = s2.x /\ n1 > n2

\* std::stable_sort with CompareTex, as an insertion sort: n, which came
\* before every element of seq, goes before the first one that does not
\* compare less than it, so equal elements keep their order.
RECURSIVE InsertTex(_, _)
InsertTex(n, seq) ==
  IF seq = <<>> \/ ~CompareTex(Head(seq), n) THEN <<n>> \o seq
  ELSE <<Head(seq)>> \o InsertTex(n, Tail(seq))

RECURSIVE StableSortTex(_)
StableSortTex(seq) ==
  IF seq = <<>> THEN <<>> ELSE InsertTex(Head(seq), StableSortTex(Tail(seq)))

\* The names in the ascending order in which a std::set holds them.
RECURSIVE Ascending(_)
Ascending(S) == IF S = {} THEN <<>> ELSE <<Min(S)>> \o Ascending(S \ {Min(S)})

\* memtextures is filled in the order of the std::set sortedNames, then
\* stable-sorted.
SortedMemtextures == StableSortTex(Ascending(DOMAIN entries))

\* Mutant (of Better, for FindRowIsBestFit): no tie-break on used width.
BetterNoTieBreak(row, best) == row.height < best.height

\* One iteration of FindRow's loop is an improvement over the best row so
\* far.  For one glyphHeight the float ratio row.height / glyphHeight is
\* ordered as row.height (heights stay below 2^20), so the ratio test is a
\* height test; the initial bestRatio 10000 is the height 10000 * glyphHeight.
Better(row, best) ==
  \/ row.height < best.height
  \/ row.height = best.height /\ row.width < best.width

\* Mutant (of Fits, for PlacedWithinAtlas): the width check dropped.
FitsAnyWidth(row, glyphWidth, glyphHeight) == glyphHeight <= row.height

Fits(row, glyphWidth, glyphHeight) ==
  /\ glyphWidth <= atlasSize.x - row.width
  /\ glyphHeight <= row.height

RECURSIVE ScanRows(_, _, _, _)
ScanRows(glyphWidth, glyphHeight, i, best) ==
  IF i > Len(imageRows) THEN best.row
  ELSE LET row == imageRows[i]
       IN  ScanRows(glyphWidth, glyphHeight, i + 1,
                    IF Fits(row, glyphWidth, glyphHeight) /\ Better(row, best)
                    THEN [row |-> i, height |-> row.height, width |-> row.width]
                    ELSE best)

\* The index of the row FindRow picks among the existing rows, 0 if none.
FindRow(glyphWidth, glyphHeight) ==
  ScanRows(glyphWidth, glyphHeight, 1,
           [row |-> 0, height |-> 10000 * glyphHeight, width |-> atlasSize.x])

\* Mutant (of AddRowGrow, for AtlasWithinMax): doubling not clamped.
RECURSIVE AddRowGrowUnclamped(_, _)
AddRowGrowUnclamped(size, wantedRowHeight) ==
  IF size.y >= nextRowPos + wantedRowHeight THEN [size |-> size, ok |-> TRUE]
  ELSE IF size.x >= MaxSize.x /\ size.y >= MaxSize.y THEN [size |-> size, ok |-> FALSE]
  ELSE AddRowGrowUnclamped([x |-> 2 * size.x, y |-> 2 * size.y], wantedRowHeight)

\* Mutant (of AddRowGrow, for RowsStacked): the loop tests nextRowPos
\* without the height of the wanted row.
RECURSIVE AddRowGrowNoHeight(_, _)
AddRowGrowNoHeight(size, wantedRowHeight) ==
  IF size.y >= nextRowPos THEN [size |-> size, ok |-> TRUE]
  ELSE IF size.x >= MaxSize.x /\ size.y >= MaxSize.y THEN [size |-> size, ok |-> FALSE]
  ELSE AddRowGrowNoHeight([x |-> Min2(MaxSize.x, 2 * size.x),
                           y |-> Min2(MaxSize.y, 2 * size.y)], wantedRowHeight)

\* The growth loop of AddRow: the atlas size it stops at, and whether it
\* stopped because the row fits (ok) or returned nullptr at maxsize.
RECURSIVE AddRowGrow(_, _)
AddRowGrow(size, wantedRowHeight) ==
  IF size.y >= nextRowPos + wantedRowHeight THEN [size |-> size, ok |-> TRUE]
  ELSE IF size.x >= MaxSize.x /\ size.y >= MaxSize.y THEN [size |-> size, ok |-> FALSE]
  ELSE AddRowGrow([x |-> Min2(MaxSize.x, 2 * size.x),
                   y |-> Min2(MaxSize.y, 2 * size.y)], wantedRowHeight)

-----------------------------------------------------------------------------
(* The specification.                                                      *)

Init ==
  /\ entries = <<>>
  /\ atlasSize = InitSize
  /\ imageRows = <<>>
  /\ nextRowPos = 0
  /\ phase = "idle"
  /\ spaceFree = 0
  /\ spaceNeeded = 0
  /\ memtextures = <<>>
  /\ padding = 0
  /\ success = TRUE
  /\ passes = 0
  /\ placed = {}
  /\ failed = {}
  /\ pre = AbsView

\* IAtlasAllocator::AddEntry: add or replace the entry called name; a
\* replaced entry starts over with unset texCoords.
AddEntry(name, size) ==
  /\ phase = "idle"
  /\ entries' = [n \in DOMAIN entries \cup {name} |->
                   IF n = name THEN [size |-> size, texCoords |-> NoCoords]
                   ELSE entries[n]]
  /\ placed' = placed \ {name}
  /\ failed' = failed \ {name}
  /\ UNCHANGED <<atlasSize, imageRows, nextRowPos, phase, spaceFree,
                 spaceNeeded, memtextures, padding, success, passes, pre>>

\* Mutant (of Allocate, for HeightPowerOfTwoInPass): the bit_ceil that
\* reverts the last call's clamp of the height is dropped.
AllocateNoBitCeil ==
  /\ phase = "idle"
  /\ passes < MaxPasses
  /\ spaceFree' = FreeArea(atlasSize)
  /\ spaceNeeded' = MapThenSumSet(LAMBDA n : entries[n].size.x * entries[n].size.y,
                                  DOMAIN entries)
  /\ success' = TRUE
  /\ passes' = passes + 1
  /\ placed' = {}
  /\ failed' = {}
  /\ phase' = "estimate"
  /\ pre' = AbsView
  /\ UNCHANGED <<entries, atlasSize, imageRows, nextRowPos, memtextures, padding>>

\* Allocate() up to its call of EstimateNeededSize, and that function up to
\* its loop: the height is rounded up to a power of two, then the area the
\* entries need and the free area are summed.
Allocate ==
  /\ phase = "idle"
  /\ passes < MaxPasses
  /\ LET size == [atlasSize EXCEPT !.y = BitCeil(atlasSize.y)]
     IN  /\ atlasSize' = size
         /\ spaceFree' = FreeArea(size)
  /\ spaceNeeded' = MapThenSumSet(LAMBDA n : entries[n].size.x * entries[n].size.y,
                                  DOMAIN entries)
  /\ success' = TRUE
  /\ passes' = passes + 1
  /\ placed' = {}
  /\ failed' = {}
  /\ phase' = "estimate"
  /\ pre' = AbsView
  /\ UNCHANGED <<entries, imageRows, nextRowPos, memtextures, padding>>

\* Mutant (of CanDouble, for AllocateTerminates): off by one at the maximum.
CanDoubleStrict(v, max) == 2 * v < max

\* EstimateNeededSize doubles an axis only if the double is within maxsize.
CanDouble(v, max) == 2 * v <= max

AtMaxSize(size) == size.x >= MaxSize.x /\ size.y >= MaxSize.y

\* Mutant (of EstimateGrow, for EstimateTracksFreeArea): the width is
\* doubled before the exposed area is counted.
EstimateGrowLateCount ==
  /\ phase = "estimate"
  /\ BelowSlack(spaceFree, spaceNeeded)
  /\ ~AtMaxSize(atlasSize)
  /\ LET growX == CanDouble(atlasSize.x, MaxSize.x)
         x1    == IF growX THEN Min2(MaxSize.x, 2 * atlasSize.x) ELSE atlasSize.x
         free1 == IF growX THEN spaceFree + x1 * atlasSize.y ELSE spaceFree
         growY == CanDouble(atlasSize.y, MaxSize.y)
         free2 == IF growY THEN free1 + x1 * atlasSize.y ELSE free1
         y1    == IF growY THEN Min2(MaxSize.y, 2 * atlasSize.y) ELSE atlasSize.y
     IN  /\ spaceFree' = free2
         /\ atlasSize' = [x |-> x1, y |-> y1]
  /\ UNCHANGED <<entries, imageRows, nextRowPos, phase, spaceNeeded,
                 memtextures, padding, success, passes, placed, failed, pre>>

\* One iteration of the loop of EstimateNeededSize: each axis that can be
\* doubled within maxsize is, and the area it exposes is counted as free.
EstimateGrow ==
  /\ phase = "estimate"
  /\ BelowSlack(spaceFree, spaceNeeded)
  /\ ~AtMaxSize(atlasSize)
  /\ LET growX == CanDouble(atlasSize.x, MaxSize.x)
         free1 == IF growX THEN spaceFree + atlasSize.x * atlasSize.y ELSE spaceFree
         x1    == IF growX THEN Min2(MaxSize.x, 2 * atlasSize.x) ELSE atlasSize.x
         growY == CanDouble(atlasSize.y, MaxSize.y)
         free2 == IF growY THEN free1 + x1 * atlasSize.y ELSE free1
         y1    == IF growY THEN Min2(MaxSize.y, 2 * atlasSize.y) ELSE atlasSize.y
     IN  /\ spaceFree' = free2
         /\ atlasSize' = [x |-> x1, y |-> y1]
  /\ UNCHANGED <<entries, imageRows, nextRowPos, phase, spaceNeeded,
                 memtextures, padding, success, passes, placed, failed, pre>>

\* The loop of EstimateNeededSize ends, and Allocate() sorts the entries
\* and computes the padding.
EstimateDone ==
  /\ phase = "estimate"
  /\ ~BelowSlack(spaceFree, spaceNeeded) \/ AtMaxSize(atlasSize)
  /\ memtextures' = SortedMemtextures
  /\ padding' = 2^GetNumTexLevels
  /\ spaceFree' = 0
  /\ spaceNeeded' = 0
  /\ phase' = "place"
  /\ UNCHANGED <<entries, atlasSize, imageRows, nextRowPos, success, passes,
                 placed, failed, pre>>

\* Mutant (of PlacedCoords, for PlacedDisjoint): the padding counted into
\* the visible width.
PlacedCoordsPaddedWidth(row, s) ==
  [x1 |-> row.width, y1 |-> row.position,
   x2 |-> row.width + s.x + padding, y2 |-> row.position + s.y]

\* The texCoords of the entry of size s put at the end of row.
PlacedCoords(row, s) ==
  [x1 |-> row.width, y1 |-> row.position,
   x2 |-> row.width + s.x, y2 |-> row.position + s.y]

\* One iteration of Allocate()'s placement loop where FindRow finds an
\* existing row.
PlaceInRow ==
  /\ phase = "place"
  /\ memtextures # <<>>
  /\ LET name == Head(memtextures)
         s    == entries[name].size
         i    == FindRow(s.x + padding, s.y + padding)
     IN  /\ i # 0
         /\ entries' = [entries EXCEPT ![name].texCoords = PlacedCoords(imageRows[i], s)]
         /\ imageRows' = [imageRows EXCEPT ![i].width = @ + s.x + padding]
         /\ placed' = placed \cup {name}
  /\ memtextures' = Tail(memtextures)
  /\ UNCHANGED <<atlasSize, nextRowPos, phase, spaceFree, spaceNeeded, padding,
                 success, passes, failed, pre>>

\* One iteration of the placement loop where FindRow calls AddRow, which
\* grows the atlas until the new row fits and appends it.
PlaceInNewRow ==
  /\ phase = "place"
  /\ memtextures # <<>>
  /\ LET name == Head(memtextures)
         s    == entries[name].size
         h    == s.y + padding
         grow == AddRowGrow(atlasSize, h)
         row  == [position |-> nextRowPos, height |-> h, width |-> 0]
     IN  /\ FindRow(s.x + padding, h) = 0
         /\ grow.ok
         /\ atlasSize' = grow.size
         /\ entries' = [entries EXCEPT ![name].texCoords = PlacedCoords(row, s)]
         /\ imageRows' = Append(imageRows, [row EXCEPT !.width = s.x + padding])
         /\ nextRowPos' = nextRowPos + h
         /\ placed' = placed \cup {name}
  /\ memtextures' = Tail(memtextures)
  /\ UNCHANGED <<phase, spaceFree, spaceNeeded, padding, success, passes, failed, pre>>

\* Mutant (of PlaceFails, for ImplementsAtlasPacking): the skipped entry
\* does not clear the result, so Allocate() reports success.
PlaceFailsKeepsSuccess ==
  /\ phase = "place"
  /\ memtextures # <<>>
  /\ LET name == Head(memtextures)
         s    == entries[name].size
         h    == s.y + padding
         grow == AddRowGrow(atlasSize, h)
     IN  /\ FindRow(s.x + padding, h) = 0
         /\ ~grow.ok
         /\ atlasSize' = grow.size
         /\ failed' = failed \cup {name}
  /\ memtextures' = Tail(memtextures)
  /\ UNCHANGED <<entries, imageRows, nextRowPos, phase, spaceFree, spaceNeeded,
                 padding, passes, placed, pre, success>>

\* One iteration of the placement loop where AddRow reaches maxsize on both
\* axes without room for the row and returns nullptr: the atlas keeps its
\* growth, the pass is marked failed and the entry is skipped.
PlaceFails ==
  /\ phase = "place"
  /\ memtextures # <<>>
  /\ LET name == Head(memtextures)
         s    == entries[name].size
         h    == s.y + padding
         grow == AddRowGrow(atlasSize, h)
     IN  /\ FindRow(s.x + padding, h) = 0
         /\ ~grow.ok
         /\ atlasSize' = grow.size
         /\ failed' = failed \cup {name}
  /\ success' = FALSE
  /\ memtextures' = Tail(memtextures)
  /\ UNCHANGED <<entries, imageRows, nextRowPos, phase, spaceFree, spaceNeeded,
                 padding, passes, placed, pre>>

\* The end of Allocate(): the height is clamped to the rows and success
\* is returned.
AllocateDone ==
  /\ phase = "place"
  /\ memtextures = <<>>
  /\ atlasSize' = [atlasSize EXCEPT !.y = nextRowPos]
  /\ phase' = "idle"
  /\ UNCHANGED <<entries, imageRows, nextRowPos, spaceFree, spaceNeeded,
                 memtextures, padding, success, passes, placed, failed, pre>>

\* The steps of a running Allocate() call.
AllocateStep ==
  \/ EstimateGrow
  \/ EstimateDone
  \/ PlaceInRow
  \/ PlaceInNewRow
  \/ PlaceFails
  \/ AllocateDone

Next ==
  \/ \E name \in Names, size \in Sizes : AddEntry(name, size)
  \/ Allocate
  \/ AllocateStep

\* Allocate() is synchronous code: once called it keeps running.  The
\* client is not obliged to call anything.
Spec == Init /\ [][Next]_vars /\ WF_vars(AllocateStep)

-----------------------------------------------------------------------------
(* Properties.                                                             *)

Coords == [x1 : Nat, y1 : Nat, x2 : Nat, y2 : Nat]
Row == [position : Nat, height : Nat, width : Nat]

\* Every variable has its type, and the padding of a pass is 2^l for a
\* number of levels l that GetNumTexLevels caps at numLevels.
TypeOK ==
  /\ DOMAIN entries \subseteq Names
  /\ \A n \in DOMAIN entries : entries[n] \in [size : Sizes, texCoords : Coords]
  /\ atlasSize \in [x : Nat, y : Nat]
  /\ imageRows \in Seq(Row)
  /\ nextRowPos \in Nat
  /\ phase \in Phases
  /\ spaceFree \in Int /\ spaceNeeded \in Nat
  /\ memtextures \in Seq(DOMAIN entries)
  /\ padding \in {0} \cup {2^l : l \in 0..NumLevels}
  /\ success \in BOOLEAN
  /\ passes \in 0..MaxPasses
  /\ placed \cup failed \subseteq DOMAIN entries

\* The atlas never exceeds maxsize on either axis (spec section 3), whatever
\* the sequence of AddEntry and Allocate() calls: the rounding up of the
\* height at the start of Allocate(), the doubling in EstimateNeededSize and
\* in AddRow must all stay within it.
AtlasWithinMax ==
  atlasSize.x <= MaxSize.x /\ atlasSize.y <= MaxSize.y

RowEnd(i) == imageRows[i].position + imageRows[i].height

\* The rows are stacked without gap or overlap from y = 0, nextRowPos is
\* the end of the last one, and the atlas is tall enough for all of them,
\* across any number of Allocate() calls (rows are never cleared).
RowsStacked ==
  /\ \A i \in DOMAIN imageRows :
        imageRows[i].position = IF i = 1 THEN 0 ELSE RowEnd(i - 1)
  /\ nextRowPos = IF imageRows = <<>> THEN 0 ELSE RowEnd(Len(imageRows))
  /\ nextRowPos <= atlasSize.y

\* The rectangle an entry placed by the current pass reserves: its
\* texCoords widened and heightened by the padding.
PaddedRight(n) == entries[n].texCoords.x2 + padding
PaddedBottom(n) == entries[n].texCoords.y2 + padding

\* Every entry the current (or last) pass placed lies, padding included,
\* inside the atlas (spec section 8, "No overlap").
PlacedWithinAtlas ==
  \A n \in placed : PaddedRight(n) <= atlasSize.x /\ PaddedBottom(n) <= atlasSize.y

\* No two entries placed by the current (or last) pass overlap, padding
\* included (spec section 8, "No overlap").
PlacedDisjoint ==
  \A n, m \in placed :
    n # m =>
      \/ PaddedRight(n) <= entries[m].texCoords.x1
      \/ PaddedRight(m) <= entries[n].texCoords.x1
      \/ PaddedBottom(n) <= entries[m].texCoords.y1
      \/ PaddedBottom(m) <= entries[n].texCoords.y1

\* While EstimateNeededSize loops, its running spaceFree equals the free
\* area of the atlas it has grown so far: each doubling adds exactly the
\* area it exposes.
EstimateTracksFreeArea ==
  phase = "estimate" => spaceFree = FreeArea(atlasSize)

\* The reference best fit of spec section 4.3: among the rows with room,
\* the one of least height (least ratio), then least used width, then the
\* first; 0 if no row has room.
BestFit(glyphWidth, glyphHeight) ==
  LET C == {i \in DOMAIN imageRows : Fits(imageRows[i], glyphWidth, glyphHeight)}
      Key(i) == <<imageRows[i].height, imageRows[i].width, i>>
      Less(a, b) == \/ a[1] < b[1]
                    \/ a[1] = b[1] /\ a[2] < b[2]
                    \/ a[1] = b[1] /\ a[2] = b[2] /\ a[3] < b[3]
  IN  IF C = {} THEN 0 ELSE CHOOSE i \in C : \A j \in C \ {i} : Less(Key(i), Key(j))

\* The row FindRow's loop picks for the next entry is the best fit, with
\* the tie-break on used width (spec sections 4.3 and 8).
FindRowIsBestFit ==
  (phase = "place" /\ memtextures # <<>>) =>
    LET s == entries[Head(memtextures)].size
    IN  FindRow(s.x + padding, s.y + padding) = BestFit(s.x + padding, s.y + padding)

\* An entry the last pass could not place keeps an unset rectangle, so a
\* caller can tell which entries failed (spec section 7).
FailedEntriesUnset ==
  \A n \in failed : entries[n].texCoords = NoCoords

\* "AddRow() only works with PowerOfTwo values" (RowAtlasAlloc.cpp:91-92,
\* spec section 8): throughout a pass, from the estimate to the last row
\* added, the atlas height is a power of two, although every earlier call
\* left it clamped to the rows (nextRowPos) and each doubling is clamped to
\* maxsize.
PowerOfTwo(n) == n = BitCeil(n)

HeightPowerOfTwoInPass ==
  phase # "idle" => PowerOfTwo(atlasSize.y)

\* Every Allocate() call returns (spec section 5: growth is bounded and
\* terminates): the loop of EstimateNeededSize and the placement loop end.
AllocateTerminates ==
  phase = "estimate" ~> phase = "idle"

-----------------------------------------------------------------------------
(* Refinement of AtlasPacking.  Outside a pass the client's view is the    *)
(* allocator's own state; while Allocate() runs it is the view when the    *)
(* call began (pre), so that the whole call, from Allocate to              *)
(* AllocateDone, is one Pass of the abstract specification and every       *)
(* other step of it a stutter.                                             *)

Seen == IF phase = "idle" THEN AbsView ELSE pre

Packing == INSTANCE AtlasPacking WITH
             entries <- Seen.entries, atlasSize <- Seen.atlasSize,
             success <- Seen.success, placed <- Seen.placed

\* An Allocate() call, taken as a whole, gives each registered entry either
\* a rectangle of its own size inside the returned atlas, apart from every
\* other rectangle of the call, or leaves the entry as it was; it never
\* narrows the atlas nor passes maxsize, and returns true exactly when
\* every entry was placed (IAtlasAllocator contract, spec sections 4 and 7).
ImplementsAtlasPacking == Packing!Spec

=============================================================================
