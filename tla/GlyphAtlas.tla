----------------------------- MODULE GlyphAtlas -----------------------------
(***************************************************************************)
(* fnt_cache.c: one texture that holds every icon and every glyph ever     *)
(* drawn, packed on shelves from the top left, and the table that finds a  *)
(* glyph's place again by its face, its size and its number.               *)
(*                                                                         *)
(* The rasterizer is external: it finds no ink in a glyph, or a bitmap of  *)
(* some width and height, each time the same.  When the texture has no     *)
(* room the program aborts: here it takes no step.                         *)
(***************************************************************************)
EXTENDS Integers, Sequences

CONSTANTS AtlasSize,  \* FNT_ATLAS_SIZE
          MaxGlyphs,  \* FNT_MAX_GLYPHS
          GlyphKeys,  \* faces, sizes and numbers of glyphs
          Ink,        \* a glyph's bitmap: its width and height, 0 for one without ink
          IconDim,    \* UI_ICON_DIM
          Icons       \* how many icons the user interface has

ASSUME AtlasAssumption ==
  /\ AtlasSize \in Nat /\ MaxGlyphs \in Nat /\ Icons \in Nat
  /\ IconDim \in 1 .. AtlasSize - 1
  /\ Ink \in [GlyphKeys -> [w : 0 .. AtlasSize - 1, h : 0 .. AtlasSize - 1]]

VARIABLES shelf,   \* shelf_x, shelf_y, shelf_h
          packed,  \* history: the rectangles filled, in their order
          glyphs   \* the table: the key, and the rectangle or 0

atlasVars == <<shelf, packed, glyphs>>

Rectangle == [x : Nat, y : Nat, w : Nat, h : Nat]

AtlasInit == shelf = [x |-> 0, y |-> 0, h |-> 0] /\ packed = <<>> /\ glyphs = <<>>

\* Seeded fault: the next shelf begins below the last bitmap, not below the highest.
RowSame(w) ==
  IF shelf.x + w + 1 > AtlasSize
  THEN [x |-> 0, y |-> shelf.y + packed[Len(packed)].h + 1, h |-> 0]
  ELSE shelf

\* The shelf that has room for w columns and the gutter: this one or the next.
Row(w) ==
  IF shelf.x + w + 1 > AtlasSize
  THEN [x |-> 0, y |-> shelf.y + shelf.h, h |-> 0]
  ELSE shelf

\* fnt__atlas_pack.
Pack(w, h) ==
  LET r == Row(w)
  IN  /\ r.y + h + 1 <= AtlasSize   \* AssertAlways
      /\ packed' = Append(packed, [x |-> r.x, y |-> r.y, w |-> w, h |-> h])
      /\ shelf' = [x |-> r.x + w + 1, y |-> r.y, h |-> IF r.h >= h + 1 THEN r.h ELSE h + 1]

\* ui_icons_init, before anything is drawn.
PackIcon ==
  /\ Len(packed) < Icons
  /\ Pack(IconDim, IconDim)
  /\ UNCHANGED glyphs

\* fnt_glyph_find.
Known(k) == \E i \in DOMAIN glyphs : glyphs[i].key = k

\* fnt_glyph_insert, for a glyph that fnt_text_pieces has not found.
Insert(k) ==
  /\ Len(packed) >= Icons
  /\ ~Known(k)
  /\ Len(glyphs) < MaxGlyphs
  /\ IF Ink[k].w > 0 /\ Ink[k].h > 0
     THEN /\ Pack(Ink[k].w, Ink[k].h)
          /\ glyphs' = Append(glyphs, [key |-> k, rect |-> Len(packed) + 1])
     ELSE /\ glyphs' = Append(glyphs, [key |-> k, rect |-> 0])
          /\ UNCHANGED <<shelf, packed>>

AtlasNext == PackIcon \/ \E k \in GlyphKeys : Insert(k)

AtlasSpec == AtlasInit /\ [][AtlasNext]_atlasVars

----------------------------------------------------------------------------
AtlasTypeOK == /\ shelf \in [x : Nat, y : Nat, h : Nat]
               /\ packed \in Seq(Rectangle)
               /\ glyphs \in Seq([key : GlyphKeys, rect : Nat])

\* A column or a row of gutter lies between a and b.
Apart(a, b) == \/ a.x + a.w + 1 <= b.x \/ b.x + b.w + 1 <= a.x
               \/ a.y + a.h + 1 <= b.y \/ b.y + b.h + 1 <= a.y

\* Every bitmap lies in the texture and keeps its gutter to every other one, whatever
\* the order in which glyphs of different sizes come up (fnt__atlas_pack: "1px gutter
\* around each packed rect"), so that no glyph is drawn with a piece of another.
RectanglesApart ==
  /\ \A i \in DOMAIN packed : /\ packed[i].x + packed[i].w + 1 <= AtlasSize
                              /\ packed[i].y + packed[i].h + 1 <= AtlasSize
  /\ \A i, j \in DOMAIN packed : i # j => Apart(packed[i], packed[j])
=============================================================================
