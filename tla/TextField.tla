------------------------------- MODULE TextField -------------------------------
(***************************************************************************)
(* The one-line text input of the window (src/src/ui_widgets.rs): device   *)
(* name, receive folder and link.  Keys, mouse, input method and the paint *)
(* of a frame are separate events; the field is a sequence of UTF-8 bytes, *)
(* and every range in it is a pair of byte offsets.                        *)
(*                                                                         *)
(* The mouse handlers look a position up in the layout of the last paint,  *)
(* which may be of an older text.  `text[a..b]' panics when an offset is   *)
(* past the end or inside a character; that ends the program.              *)
(***************************************************************************)
EXTENDS Naturals, Sequences, FiniteSets

CONSTANTS
  Bytes,       \* UTF-8 code units
  Lead,        \* those that start a character
  Wide,        \* those that start a character of two UTF-16 units
  Joining,     \* those that start a character which joins the grapheme before
  Typed,       \* what is typed, composed or pasted in one event
  Placeholder, \* shown while the field is empty
  Ranges,      \* UTF-16 ranges an input method names
  NoRange, NoLayout,  \* None
  MaxBytes     \* bound on the length of the text

Strings == {s \in Seq(Bytes) : s = <<>> \/ s[1] \in Lead}

ASSUME TextFieldAssumption ==
  /\ Wide \subseteq Lead /\ Joining \subseteq Lead /\ Lead \subseteq Bytes
  /\ Typed \subseteq Strings
  /\ Placeholder \in Strings
  /\ NoLayout \notin Strings
  /\ Ranges \subseteq {r \in Nat \X Nat : r[1] <= r[2]}
  /\ NoRange \notin Nat \X Nat
  /\ MaxBytes \in Nat

VARIABLES
  text,       \* the bytes of the field
  start, end, \* selected_range
  reversed,   \* selection_reversed: the cursor is at the start
  marked,     \* marked_range: the text an input method is composing
  selecting,  \* is_selecting: the mouse button is down
  layout,     \* text of last_layout
  stale,      \* history: an end of the selection comes from another text's layout
  composed,   \* history: what the input method put there
  panicked

vars == <<text, start, end, reversed, marked, selecting, layout, stale, composed, panicked>>
selVars == <<start, end, reversed, stale>>

TypeOK ==
  /\ text \in Strings
  /\ start \in Nat /\ end \in Nat
  /\ reversed \in BOOLEAN
  /\ marked \in (Nat \X Nat) \cup {NoRange}
  /\ selecting \in BOOLEAN
  /\ layout \in Strings \cup {NoLayout}
  /\ stale \in BOOLEAN
  /\ composed \in Strings
  /\ panicked \in BOOLEAN

\* TextField::new.
Init ==
  /\ text \in Typed
  /\ start = 0 /\ end = 0
  /\ reversed = FALSE
  /\ marked = NoRange
  /\ selecting = FALSE
  /\ layout = NoLayout
  /\ stale = FALSE
  /\ composed = <<>>
  /\ panicked = FALSE
-----------------------------------------------------------------------------
(* Offsets.                                                                *)

Least(S) == CHOOSE x \in S : \A y \in S : x <= y
Greatest(S) == CHOOSE x \in S : \A y \in S : x >= y

\* Between two characters of s, or at an end: where str may be cut.
Boundary(s, b) == b \in 0 .. Len(s) /\ (b < Len(s) => s[b + 1] \in Lead)
Boundaries(s) == {b \in 0 .. Len(s) : Boundary(s, b)}

\* UTF-16 units of the characters that start in the first b bytes.
Units(s, b) ==
  Cardinality({i \in 1 .. b : s[i] \in Lead}) + Cardinality({i \in 1 .. b : s[i] \in Wide})

\* Characters are passed over until u units are counted or s ends.
Utf8OffsetOf(s, u) ==
  Least({b \in Boundaries(s) : Units(s, b) >= u \/ b = Len(s)})
OffsetToUtf16_Characters(s, o) == Cardinality({i \in 1 .. o : s[i] \in Lead})
OffsetToUtf16(s, o) ==
  Units(s, Least({b \in Boundaries(s) : b >= o \/ b = Len(s)}))

RangeFromUtf16(s, r) == <<Utf8OffsetOf(s, r[1]), Utf8OffsetOf(s, r[2])>>
RangeToUtf16(s, r) == <<OffsetToUtf16(s, r[1]), OffsetToUtf16(s, r[2])>>

\* grapheme_indices.
GraphemeStarts(s) ==
  {i \in 0 .. Len(s) : i < Len(s) /\ (i = 0 \/ s[i + 1] \in Lead \ Joining)}
PreviousBoundary(o) ==
  LET before == {i \in GraphemeStarts(text) : i < o}
  IN  IF before = {} THEN 0 ELSE Greatest(before)
NextBoundary(o) ==
  LET after == {i \in GraphemeStarts(text) : i > o}
  IN  IF after = {} THEN Len(text) ELSE Least(after)

Cursor == IF reversed THEN start ELSE end
Anchor == IF reversed THEN end ELSE start
-----------------------------------------------------------------------------
(* Moving and selecting.  An offset from the layout of another text makes  *)
(* the selection stale.                                                    *)

MoveTo(o, old) ==
  /\ start' = o /\ end' = o
  /\ stale' = old
  /\ UNCHANGED reversed

SelectTo_KeepsSide(o, old) ==
  LET s == IF reversed THEN o ELSE start
      e == IF reversed THEN end ELSE o
  IN
  /\ start' = IF e < s THEN e ELSE s
  /\ end' = IF e < s THEN s ELSE e
  /\ stale' = (stale \/ old)
  /\ UNCHANGED reversed

SelectTo(o, old) ==
  LET s == IF reversed THEN o ELSE start
      e == IF reversed THEN end ELSE o
  IN
  /\ start' = IF e < s THEN e ELSE s
  /\ end' = IF e < s THEN s ELSE e
  /\ reversed' = IF e < s THEN ~reversed ELSE reversed
  /\ stale' = (stale \/ old)

KeyKeeps == UNCHANGED <<text, marked, selecting, layout, composed, panicked>>

Left ==
  /\ MoveTo(IF start = end THEN PreviousBoundary(Cursor) ELSE start, stale /\ start # end)
  /\ KeyKeeps

Right ==
  /\ MoveTo(IF start = end THEN NextBoundary(end) ELSE end, stale /\ start # end)
  /\ KeyKeeps

SelectLeft == SelectTo(PreviousBoundary(Cursor), FALSE) /\ KeyKeeps
SelectRight == SelectTo(NextBoundary(Cursor), FALSE) /\ KeyKeeps

\* move_to(0), then select_to(len): the side of the cursor is kept, so that a
\* reversed selection has its start moved and is turned round.
SelectAll ==
  /\ start' = 0 /\ end' = Len(text)
  /\ reversed' = (reversed /\ Len(text) = 0)
  /\ stale' = FALSE
  /\ KeyKeeps

HomeKey == MoveTo(0, FALSE) /\ KeyKeeps
EndKey == MoveTo(Len(text), FALSE) /\ KeyKeeps
-----------------------------------------------------------------------------
(* Editing.                                                                *)

Spliced(a, b, new) == SubSeq(text, 1, a) \o new \o SubSeq(text, b + 1, Len(text))

Panics ==
  /\ panicked' = TRUE
  /\ UNCHANGED <<text, selVars, marked, selecting, layout, composed>>

\* The slices of replace_range.
Cuttable(a, b) == Boundary(text, a) /\ Boundary(text, b)

AfterEdit_KeepsMark == UNCHANGED <<marked, composed>>
AfterEdit == marked' = NoRange /\ composed' = <<>>

ReplaceRange(a, b, new) ==
  \/ /\ Cuttable(a, b)
     /\ Len(Spliced(a, b, new)) <= MaxBytes
     /\ text' = Spliced(a, b, new)
     /\ start' = a + Len(new) /\ end' = a + Len(new)
     /\ reversed' = FALSE
     /\ stale' = FALSE
     /\ AfterEdit
     /\ UNCHANGED <<selecting, layout, panicked>>
  \/ /\ ~Cuttable(a, b)
     /\ Panics

\* The key handlers edit the selection, a live composition or not.
ReplaceSelection(new) == ReplaceRange(start, end, new)

\* Backspace and Delete of an empty selection select up to the neighbouring
\* boundary first; at the end of the text they only ring the bell.
Erase(to) ==
  LET lo == IF start # end \/ Cursor <= to THEN start ELSE to
      hi == IF start # end \/ to <= Cursor THEN end ELSE to
  IN
  /\ start = end => to # Cursor
  /\ ReplaceRange(lo, hi, <<>>)

Backspace == Erase(PreviousBoundary(Cursor))
Delete == Erase(NextBoundary(Cursor))

\* A pasted newline becomes a space, which is as long.
Paste(s) == ReplaceSelection(s)

\* Copy alone changes nothing, but takes the same slice as Cut.
Cut == start # end /\ ReplaceSelection(<<>>)
Copy == start # end /\ ~Cuttable(start, end) /\ Panics
-----------------------------------------------------------------------------
(* The mouse.                                                              *)

\* index_for_mouse_position: above the line, below it, or anywhere on it.
MouseIndex ==
  IF text = <<>> \/ layout = NoLayout THEN {0}
  ELSE {0, Len(text)} \cup Boundaries(layout)
FromOldLayout(o) == layout # text /\ o \notin {0, Len(text)}

MouseDown(o, shift) ==
  /\ IF shift THEN SelectTo(o, FromOldLayout(o)) ELSE MoveTo(o, FromOldLayout(o))
  /\ selecting' = TRUE
  /\ UNCHANGED <<text, marked, layout, composed, panicked>>

MouseUp ==
  /\ selecting' = FALSE
  /\ UNCHANGED <<text, selVars, marked, layout, composed, panicked>>

MouseMove(o) ==
  /\ selecting
  /\ SelectTo(o, FromOldLayout(o))
  /\ KeyKeeps
-----------------------------------------------------------------------------
(* The input method.  It names ranges in UTF-16 units or none at all.      *)

PendingRange(r) ==
  IF r # NoRange THEN RangeFromUtf16(text, r)
  ELSE IF marked # NoRange THEN marked
  ELSE <<start, end>>

\* replace_text_in_range: the committed text replaces the composition.
ReplaceTextInRange(r, new) ==
  LET p == PendingRange(r) IN ReplaceRange(p[1], p[2], new)

\* The selection inside the composed text, also in UTF-16 units.
NewSelection_FromText(a, new, r) ==
  IF r = NoRange THEN <<a + Len(new), a + Len(new)>> ELSE <<a + r[1], a + r[2]>>
NewSelection(a, new, r) ==
  IF r = NoRange THEN <<a + Len(new), a + Len(new)>>
  ELSE <<a + Utf8OffsetOf(new, r[1]), a + Utf8OffsetOf(new, r[2])>>

ReplaceAndMark(r, new, sel) ==
  LET p == PendingRange(r)
      within == NewSelection(p[1], new, sel)
  IN
  \/ /\ Cuttable(p[1], p[2])
     /\ Len(Spliced(p[1], p[2], new)) <= MaxBytes
     /\ text' = Spliced(p[1], p[2], new)
     /\ marked' = IF new = <<>> THEN NoRange ELSE <<p[1], p[1] + Len(new)>>
     /\ start' = within[1] /\ end' = within[2]
     /\ reversed' = FALSE
     /\ stale' = FALSE
     /\ composed' = new
     /\ UNCHANGED <<selecting, layout, panicked>>
  \/ /\ ~Cuttable(p[1], p[2])
     /\ Panics

UnmarkText ==
  /\ marked' = NoRange
  /\ composed' = <<>>
  /\ UNCHANGED <<text, selVars, selecting, layout, panicked>>

\* character_index_for_point: None while the layout is of another text.
CharacterIndexForPoint ==
  IF layout = text THEN {OffsetToUtf16(text, b) : b \in Boundaries(layout)} ELSE {}
-----------------------------------------------------------------------------
\* prepaint and paint; the placeholder is what an empty field lays out.
Paint ==
  /\ layout' = IF text = <<>> THEN Placeholder ELSE text
  /\ UNCHANGED <<text, selVars, marked, selecting, composed, panicked>>

Key ==
  \/ Left \/ Right \/ SelectLeft \/ SelectRight \/ SelectAll \/ HomeKey \/ EndKey
  \/ Backspace \/ Delete \/ Cut \/ Copy
  \/ \E s \in Typed : Paste(s)

Mouse ==
  \/ \E o \in MouseIndex, shift \in BOOLEAN : MouseDown(o, shift)
  \/ \E o \in MouseIndex : MouseMove(o)
  \/ MouseUp

InputMethod ==
  \/ \E s \in Typed, r \in Ranges \cup {NoRange} : ReplaceTextInRange(r, s)
  \/ \E s \in Typed, r, sel \in Ranges \cup {NoRange} : ReplaceAndMark(r, s, sel)
  \/ UnmarkText

Next == ~panicked /\ (Key \/ Mouse \/ InputMethod \/ Paint)

Spec == Init /\ [][Next]_vars
-----------------------------------------------------------------------------
\* The selection is ordered, on characters and inside the text.
SelectionFits == start <= end /\ Boundary(text, start) /\ Boundary(text, end)

\* So is the composition, whatever the mouse did.
MarkFits ==
  marked # NoRange =>
    marked[1] <= marked[2] /\ Boundary(text, marked[1]) /\ Boundary(text, marked[2])

\* No sequence of keys, edits by an input method and mouse events makes a
\* range point outside the text or into a character, and the program never
\* panics on one, unless a mouse event was looked up in the layout of another
\* text (index_for_mouse_position does not compare them).
RangesFit ==
  /\ TypeOK
  /\ MarkFits
  /\ (~stale => SelectionFits /\ ~panicked)

\* What is marked as composition is what the input method put there: an edit
\* by a key, a paste or a commit never leaves the mark on other text.
MarkIsComposition ==
  marked # NoRange =>
    marked[2] <= Len(text) /\ SubSeq(text, marked[1] + 1, marked[2]) = composed

\* The selection, the composition and the point an input method asks for,
\* told in UTF-16 units, come back as the same bytes.
Utf16Agrees ==
  /\ ~stale => RangeFromUtf16(text, RangeToUtf16(text, <<start, end>>)) = <<start, end>>
  /\ marked # NoRange => RangeFromUtf16(text, RangeToUtf16(text, marked)) = marked
  /\ \A u \in CharacterIndexForPoint : OffsetToUtf16(text, Utf8OffsetOf(text, u)) = u

\* Extending a selection, by key or mouse and across its other end and back,
\* moves only the cursor: the end where it was begun stays.
Extends == SelectLeft \/ SelectRight \/ \E o \in MouseIndex : MouseMove(o) \/ MouseDown(o, TRUE)
AnchorIsHeld == [][Extends => Anchor' = Anchor]_vars
=============================================================================
