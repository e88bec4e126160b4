------------------------------ MODULE GlyphCache ------------------------------
(***************************************************************************)
(* The glyph cache of a renderer (features/font): a chain of fonts, the     *)
(* bundled one first, and a bounded map from what a cell shows to the       *)
(* drawing of it, emptied in the order it was filled.  The drawing of "?"   *)
(* is always in it.                                                         *)
(*                                                                         *)
(* A key is the sequence of the characters of a cell; a bitmap is the       *)
(* sequence of the marks in it, each with the font it comes from.  Sizes,   *)
(* positions and kerning are left out, and blank bitmaps are empty.         *)
(***************************************************************************)
EXTENDS Naturals, Sequences, FiniteSets, TLC

LOCAL INSTANCE SequencesExt

CONSTANT MaxEntries \* the limits a cache is created with: 0 .. MaxEntries
CONSTANT MaxFonts   \* no font is added to a chain of this length

Characters8 == {"?", "A", " ", "box", "kanji", "emoji", "unknown"}
FallbackKey == <<"?">>

(* What cells show: characters and clusters of them, one of them empty.     *)
GlyphKeys ==
  {<<c>> : c \in Characters8} \cup {<<>>, <<"A", "kanji">>, <<"unknown", " ">>, <<"box", "box">>}

(* Those of them that are asked for in the steps; any one may be next.      *)
AskedKeys == {FallbackKey, <<"kanji">>, <<"emoji">>, <<"unknown">>, <<"A", "kanji">>}

----------------------------------------------------------------------------
(* The fonts of the program and of the machine: what they display, and the  *)
(* glyphs without pixels (the colours of an emoji are not rasterized).      *)
BundledFont == "bundled"

Displays ==
  [bundled |-> {"?", "A", "box"}, cjk |-> {"kanji", "A"}, cjkMono |-> {"kanji", "A"},
   emoji |-> {"emoji"}, colour |-> {}]

HasBlank == [bundled |-> {" "}, cjk |-> {" "}, cjkMono |-> {" "}, emoji |-> {}, colour |-> {"emoji"}]

displayable(font, ch) == ch \in Displays[font]

(* The faces fontdb may find.  A broken one cannot be loaded; the same font *)
(* may be found under two families.                                         *)
Face(font, family, monospaced, upright) ==
  [font |-> font, family |-> family, monospaced |-> monospaced, upright |-> upright]

Database ==
  << Face("cjk", "CJK 1", FALSE, TRUE), Face("cjkMono", "CJK 1", TRUE, TRUE),
     Face("broken", "CJK 1", TRUE, TRUE), Face("cjkMono", "CJK 2", TRUE, TRUE),
     Face("cjk", "CJK 2", FALSE, FALSE), Face("emoji", "Emoji 1", FALSE, TRUE),
     Face("colour", "Emoji 2", FALSE, TRUE) >>

Machines == {SelectSeq(Database, LAMBDA face : face \in faces) : faces \in SUBSET ToSet(Database)}

CjkFamilies == <<"CJK 1", "CJK 2">>
EmojiFamilies == <<"Emoji 1", "Emoji 2">>

(* load_system_fallback_family_group: of each family the first upright      *)
(* face, for CJK the first monospaced one if there is one; what cannot be   *)
(* loaded is skipped, and what has been loaded.                             *)
loadFamilyGroup(machine, families, kind, before) ==
  LET Upright(family) == SelectSeq(machine, LAMBDA face : face.upright /\ face.family = family)
      Preferred(family) ==
        SelectSeq(Upright(family), LAMBDA face : kind = "Cjk" => face.monospaced) \o Upright(family)
      Load(loaded, family) ==
        IF Preferred(family) = <<>> THEN loaded
        ELSE LET font == Preferred(family)[1].font
             IN IF font = "broken" \/ \E i \in DOMAIN loaded : loaded[i].font = font THEN loaded
                ELSE Append(loaded, [font |-> font, kind |-> kind])
  IN FoldLeft(Load, before, families)

discoverSystemFallbackFonts(machine) ==
  loadFamilyGroup(machine, EmojiFamilies, "Emoji",
                  loadFamilyGroup(machine, CjkFamilies, "Cjk", <<>>))

----------------------------------------------------------------------------
(* Rasterizing.                                                             *)

(* What the 8x8 bitmaps of the program draw.                                *)
font8x8(ch) == IF ch = " " THEN <<>> ELSE <<<<"font8x8", ch>>>>
Basic8x8 == {"?", "A", " "}

isBoxBlock(g, ch) == g.is8x16 /\ ch = "box"

(* A font without a glyph for the character draws its ".notdef".            *)
rasterizeWith(font, ch) ==
  CASE displayable(font, ch)  -> <<<<font, ch>>>>
    [] ch \in HasBlank[font]  -> <<>>
    [] OTHER                  -> <<<<font, ".notdef">>>>

selectFontFor(fonts, ch) ==
  LET able == SelectSeq(fonts, LAMBDA font : displayable(font, ch))
  IN IF able = <<>> THEN fonts[1] ELSE able[1]

rasterizeChar(g, ch) ==
  CASE isBoxBlock(g, ch) -> font8x8(ch)
    [] ~isBoxBlock(g, ch) /\ g.fonts = <<>> -> font8x8(IF ch \in Basic8x8 THEN ch ELSE "?")
    [] OTHER -> rasterizeWith(selectFontFor(g.fonts, ch), ch)

(* A cluster is drawn from the fonts, even where its characters alone are   *)
(* drawn from the 8x8 bitmaps.                                              *)
rasterizeText(g, text) ==
  CASE text = <<>>      -> <<>>
    [] Len(text) = 1    -> rasterizeChar(g, text[1])
    [] Len(text) > 1 /\ g.fonts = <<>> -> rasterizeChar(g, "?")
    [] OTHER -> FlattenSeq([i \in DOMAIN text |-> rasterizeWith(selectFontFor(g.fonts, text[i]), text[i])])

hasGlyph(g, ch) ==
  \/ isBoxBlock(g, ch)
  \/ g.fonts = <<>> /\ ch \in Basic8x8
  \/ \E i \in DOMAIN g.fonts : displayable(g.fonts[i], ch)

----------------------------------------------------------------------------
(* The cache: `cached` maps the keys in it to their drawings, `queue` is    *)
(* eviction_queue, and `system` what the machine's fonts were found to be.  *)
VARIABLE glyphs

NoGlyphs == [system |-> <<>>, fonts |-> <<>>, is8x16 |-> FALSE, limit |-> 0,
             cached |-> <<>>, queue |-> <<>>]

withGlyph(cached, key, drawing) ==
  [k \in DOMAIN cached \cup {key} |-> IF k = key THEN drawing ELSE cached[k]]

onlyFallback(g) == [g EXCEPT !.cached = (FallbackKey :> rasterizeText(g, FallbackKey))]

(* Mutated form: what was drawn with the old chain stays in the cache.      *)
resetKeepingGlyphs(g) ==
  [g EXCEPT !.cached = withGlyph(g.cached, FallbackKey, rasterizeText(g, FallbackKey))]

resetAfterFontChainChange(g) == [onlyFallback(g) EXCEPT !.queue = <<>>]

newCache(system, bundled, is8x16, limit) ==
  onlyFallback([system |-> system, fonts |-> IF bundled THEN <<BundledFont>> ELSE <<>>,
                is8x16 |-> is8x16, limit |-> IF limit = 0 THEN 1 ELSE limit,
                cached |-> <<>>, queue |-> <<>>])

addFallbackFont(g, font) ==
  IF font = "broken" THEN g ELSE resetAfterFontChainChange([g EXCEPT !.fonts = Append(@, font)])

(* Of the emoji fonts only those that display one.                          *)
addSystemFallbacks(g) ==
  LET wanted == SelectSeq(g.system, LAMBDA f : (f.kind = "Emoji" => displayable(f.font, "emoji"))
                                                 /\ f.font \notin ToSet(g.fonts))
  IN IF wanted = <<>> THEN g
     ELSE resetAfterFontChainChange([g EXCEPT !.fonts = @ \o [i \in DOMAIN wanted |-> wanted[i].font]])

(* The keys at the front of the queue are dropped up to and with the first  *)
(* that is in the cache.                                                    *)
evictOne(g) ==
  LET here == {i \in DOMAIN g.queue : g.queue[i] \in DOMAIN g.cached}
      last == IF here = {} THEN Len(g.queue) ELSE CHOOSE i \in here : \A j \in here : i <= j
      gone == {g.queue[i] : i \in 1 .. last}
  IN [g EXCEPT !.queue = SubSeq(@, last + 1, Len(@)),
               !.cached = [k \in DOMAIN @ \ gone |-> @[k]]]

isFull(g) == Cardinality(DOMAIN g.cached) >= g.limit

(* get: the cache afterwards and the drawing returned.  When nothing can be *)
(* evicted "?" is returned for whatever was asked.                          *)
get(g, key) ==
  LET room == IF isFull(g) THEN evictOne(g) ELSE g
      kept == IF key = FallbackKey THEN room ELSE [room EXCEPT !.queue = Append(@, key)]
      shown == IF isFull(room) THEN FallbackKey ELSE key
      filled == [IF isFull(room) THEN room ELSE kept
                   EXCEPT !.cached = IF shown \in DOMAIN @ THEN @
                                     ELSE withGlyph(@, shown, rasterizeText(g, shown))]
  IN IF key \in DOMAIN g.cached THEN [after |-> g, drawing |-> g.cached[key]]
     ELSE [after |-> filled, drawing |-> filled.cached[shown]]

----------------------------------------------------------------------------
InitGlyphs == glyphs = NoGlyphs

NewCache ==
  /\ glyphs = NoGlyphs
  /\ \E machine \in Machines, bundled, is8x16, policy \in BOOLEAN, limit \in 0 .. MaxEntries :
       LET g == newCache(discoverSystemFallbackFonts(machine), bundled, is8x16, limit)
       IN glyphs' = IF policy THEN addSystemFallbacks(g) ELSE g

AddFallbackFont ==
  /\ glyphs # NoGlyphs /\ Len(glyphs.fonts) < MaxFonts
  /\ \E font \in {BundledFont, "cjk", "broken"} : glyphs' = addFallbackFont(glyphs, font)

AddSystemFallbacks ==
  /\ glyphs # NoGlyphs
  /\ glyphs' = addSystemFallbacks(glyphs)

GetGlyph == glyphs # NoGlyphs /\ \E key \in AskedKeys : glyphs' = get(glyphs, key).after

NextGlyphs == NewCache \/ AddFallbackFont \/ AddSystemFallbacks \/ GetGlyph
===============================================================================
