------------------------------- MODULE Atlas -------------------------------
(***************************************************************************)
(* The glyph atlas of the GPU renderer (render_gpu/src/atlas.rs): a texture *)
(* with a fixed number of slots, the two maps between glyphs and slots, and *)
(* the intrusive doubly linked list that orders the slots by their last     *)
(* use.  Slot 0 is the blank and is never in the list.                      *)
(*                                                                          *)
(* A glyph is a model value; what the texture holds in a slot is the glyph  *)
(* that was uploaded to it last, which is what glyphAt names.               *)
(***************************************************************************)
EXTENDS Naturals, FiniteSets, Sequences, Functions

CONSTANTS
  None,    \* no slot, no glyph
  Blank,   \* the glyph of a space
  Slots    \* ATLAS_SLOTS: 8192 in the code

ASSUME SlotsAssumption == Slots \in Nat \ {0, 1} /\ None \notin Nat /\ None # Blank

SlotIds == 0 .. Slots - 1

----------------------------------------------------------------------------
(* AtlasLru: head is the slot used last, tail the one used longest ago.     *)

NewLru == [head |-> None, tail |-> None, linked |-> {},
           prev |-> [s \in SlotIds |-> None], next |-> [s \in SlotIds |-> None]]

LinkFront(l, s) ==
  [head   |-> s,
   tail   |-> IF l.head = None THEN s ELSE l.tail,
   linked |-> l.linked \cup {s},
   prev   |-> IF l.head = None THEN [l.prev EXCEPT ![s] = None]
              ELSE [l.prev EXCEPT ![s] = None, ![l.head] = s],
   next   |-> [l.next EXCEPT ![s] = l.head]]

Unlink(l, s) ==
  LET p == l.prev[s]
      n == l.next[s]
  IN [head   |-> IF p = None THEN n ELSE l.head,
      tail   |-> IF n = None THEN p ELSE l.tail,
      linked |-> l.linked \ {s},
      prev   |-> IF n = None THEN [l.prev EXCEPT ![s] = None]
                 ELSE [l.prev EXCEPT ![n] = p, ![s] = None],
      next   |-> IF p = None THEN [l.next EXCEPT ![s] = None]
                 ELSE [l.next EXCEPT ![p] = n, ![s] = None]]

Touch(l, s) ==
  CASE s = 0 -> l
    [] s # 0 /\ s \in l.linked -> LinkFront(Unlink(l, s), s)
    [] OTHER -> LinkFront(l, s)

\* evict_lru().unwrap_or(1): a list without slots gives the first slot up.
EvictedSlot(l) == IF l.tail = None THEN 1 ELSE l.tail
EvictLru(l) == IF l.tail = None THEN l ELSE Unlink(l, l.tail)

----------------------------------------------------------------------------
(* The atlas.  The code fills it with the printable ASCII characters and    *)
(* the box drawing ones at the start; here it starts with the blank alone.  *)
(* evicted is history: a glyph has lost its slot since this frame began.    *)

NewAtlas == [slotOf |-> [g \in {Blank} |-> 0],
             glyphAt |-> [s \in SlotIds |-> IF s = 0 THEN Blank ELSE None],
             lru |-> NewLru, next |-> 1, evicted |-> FALSE]

Known(a) == DOMAIN a.slotOf

\* The glyph that lives in the slot no longer has one.
Forget(a, s) ==
  [a EXCEPT !.slotOf = Restrict(@, Known(a) \ {a.glyphAt[s]})]

\* The slot a new glyph gets, and the atlas after it was made free.
FreeSlot(a) ==
  IF a.next < Slots
  THEN [slot |-> a.next, atlas |-> [a EXCEPT !.next = @ + 1]]
  ELSE [slot |-> EvictedSlot(a.lru),
        atlas |-> Forget([a EXCEPT !.lru = EvictLru(@), !.evicted = TRUE], EvictedSlot(a.lru))]

Insert(slotOf, g, s) == [x \in DOMAIN slotOf \cup {g} |-> IF x = g THEN s ELSE slotOf[x]]

\* ensure_glyph_in_atlas: the slot of a glyph that is drawn, which it is given if it has none.
EnsureGlyph(a, g) ==
  IF g \in Known(a)
  THEN [slot |-> a.slotOf[g], atlas |-> [a EXCEPT !.lru = Touch(@, a.slotOf[g])]]
  ELSE LET free == FreeSlot(a)
       IN [slot |-> free.slot,
           atlas |-> [free.atlas EXCEPT !.slotOf = Insert(@, g, free.slot),
                                        !.glyphAt[free.slot] = g,
                                        !.lru = Touch(@, free.slot)]]

----------------------------------------------------------------------------
(* The list as a sequence, read from either end; a walk longer than the     *)
(* number of slots has met a cycle.                                         *)

Walk(from, step) ==
  LET upTo[n \in 0 .. Slots] ==
        IF n = 0 THEN <<>>
        ELSE LET w == upTo[n - 1]
                 s == IF n = 1 THEN from
                      ELSE IF Len(w) < n - 1 THEN None ELSE step[w[n - 1]]
             IN IF s = None THEN w ELSE Append(w, s)
  IN upTo[Slots]

Forward(l) == Walk(l.head, l.next)
Backward(l) == Walk(l.tail, l.prev)

IsAtlas(a) ==
  /\ a.next \in 1 .. Slots
  /\ \A s \in SlotIds : a.glyphAt[s] # None => a.glyphAt[s] \in Known(a) /\ a.slotOf[a.glyphAt[s]] = s
  /\ \A g \in Known(a) : a.glyphAt[a.slotOf[g]] = g
  /\ LET used == Forward(a.lru)
         back == Backward(a.lru)
     IN /\ Len(used) = a.next - 1 /\ Len(back) = Len(used)
        /\ \A i \in DOMAIN used : back[i] = used[Len(used) + 1 - i]
        /\ {used[i] : i \in DOMAIN used} = a.lru.linked
        /\ a.lru.linked = 1 .. a.next - 1
=============================================================================
