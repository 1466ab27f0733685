------------------------------ MODULE AtlasPacking ------------------------------
(***************************************************************************)
(* What one Allocate() call of CRowAtlasAlloc promises its client, with    *)
(* the rows, the estimate and the order of placement left out.  A client   *)
(* registers entries with AddEntry; a pass is one atomic step that gives   *)
(* every entry either a rectangle of its own size inside an atlas of at    *)
(* most maxsize, disjoint from the other rectangles of the pass, or no new *)
(* rectangle (its texCoords stay as they were), and returns true exactly   *)
(* when every entry got one.  The atlas never narrows.                     *)
(*                                                                         *)
(* The pass is stated by what it leaves behind (its primed variables), so  *)
(* this module is checked as a property of RowAtlasAlloc, not run alone.   *)
(***************************************************************************)
EXTENDS Naturals

CONSTANTS
  Names,     \* the entry names a client may register
  Sizes,     \* the sizes an entry may be given
  InitSize,  \* the atlas size of a new allocator
  MaxSize,   \* maxsize
  NoCoords   \* the texCoords of an entry never placed

VARIABLES
  entries,   \* name -> [size, texCoords]
  atlasSize, \* [x, y]
  success,   \* what the last Allocate() returned
  placed     \* the entries the last pass gave a rectangle

pvars == <<entries, atlasSize, success, placed>>

Init ==
  /\ entries = [n \in {} |-> NoCoords]
  /\ atlasSize = InitSize
  /\ success = TRUE
  /\ placed = {}

AddEntry(name, size) ==
  /\ entries' = [n \in DOMAIN entries \cup {name} |->
                   IF n = name THEN [size |-> size, texCoords |-> NoCoords]
                   ELSE entries[n]]
  /\ placed' = placed \ {name}
  /\ UNCHANGED <<atlasSize, success>>

Rect(n) == entries'[n].texCoords

\* The rectangle of a placed entry has the entry's size and lies in the atlas.
Fitted(n) ==
  /\ Rect(n).x2 - Rect(n).x1 = entries[n].size.x
  /\ Rect(n).y2 - Rect(n).y1 = entries[n].size.y
  /\ Rect(n).x2 <= atlasSize'.x /\ Rect(n).y2 <= atlasSize'.y

Apart(n, m) ==
  \/ Rect(n).x2 <= Rect(m).x1 \/ Rect(m).x2 <= Rect(n).x1
  \/ Rect(n).y2 <= Rect(m).y1 \/ Rect(m).y2 <= Rect(n).y1

Pass ==
  /\ DOMAIN entries' = DOMAIN entries
  /\ placed' \subseteq DOMAIN entries
  /\ \A n \in DOMAIN entries :
        IF n \in placed' THEN entries'[n].size = entries[n].size /\ Fitted(n)
        ELSE entries'[n] = entries[n]
  /\ \A n, m \in placed' : n # m => Apart(n, m)
  /\ atlasSize.x <= atlasSize'.x /\ atlasSize'.x <= MaxSize.x
  /\ atlasSize'.y <= MaxSize.y
  /\ success' = (placed' = DOMAIN entries)

Next ==
  \/ \E name \in Names, size \in Sizes : AddEntry(name, size)
  \/ Pass

Spec == Init /\ [][Next]_pvars

=============================================================================
