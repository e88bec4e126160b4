------------------------------ MODULE Frames -------------------------------
(***************************************************************************)
(* What a frame shows against what the terminal holds: the damage that the *)
(* grid records (core/src/grid), the two renderers that redraw no more     *)
(* than the damage (render_gpu/src/frame.rs, render_cpu/src/rasterize.rs), *)
(* and draw_frame (app/src/gui_runtime_render.rs), which chooses between   *)
(* them and marks the rows clean afterwards.                               *)
(*                                                                         *)
(* A row is one glyph.  Columns, colours and attributes are left to the    *)
(* module CellPaint; the sizes of the cell buffers are counted in rows.    *)
(* cell_instances, the copy of the buffer on the CPU, is not kept: each    *)
(* upload sends rows that were written to it just before.  What a failure  *)
(* does to the render path is RenderControl's; here it either leaves the   *)
(* GPU in charge or does not.                                              *)
(***************************************************************************)
EXTENDS Atlas

CONSTANTS
  Texts,              \* what a row of the grid can hold beside the blank
  Find,               \* what the search bar shows
  MaxRows,            \* bound: rows of the window
  ScrollbackCap,      \* lines of history
  InitialCapacity,    \* INITIAL_CELL_BUFFER_CAPACITY, in rows
  ShrinkDivisor,      \* CELL_BUFFER_SHRINK_UTILIZATION_DIVISOR: 4
  ShrinkStreak,       \* CELL_BUFFER_SHRINK_FRAME_STREAK_THRESHOLD: 120
  AcquireBudget,      \* DEFAULT_SURFACE_RETRY_BUDGET: 3
  ReconfigureBudget,  \* DEFAULT_SURFACE_RECONFIGURE_RETRY_BUDGET: 2
  MaxChanges,         \* bound: changes of what is to be shown
  MaxFaults           \* bound: surface errors

ASSUME FramesAssumption ==
  /\ None \notin Texts \cup {Find}
  /\ MaxRows \in Nat \ {0} /\ ScrollbackCap \in Nat
  /\ InitialCapacity \in Nat \ {0} /\ ShrinkDivisor \in Nat \ {0} /\ ShrinkStreak \in Nat \ {0}
  /\ AcquireBudget \in Nat /\ ReconfigureBudget \in Nat

VARIABLES
  term,     \* rows, scrollback (oldest first), cursor (row), visible
  view,     \* offset into the scrollback; the search bar is open
  damage,   \* dirty_rows, as a set, and scroll_count
  lane,     \* "starting" the GPU, "gpu", or "cpu" for good
  backend,  \* of the GPU: front and back buffer, streak, the cursor drawn last, the atlas
  surface,  \* SurfaceRuntimeState
  cpu,      \* the softbuffer surface: its last two buffers, its size, the damage history
  window,   \* the frame in the window, by whom, and whether it was drawn just now
  suspect,  \* history: the GPU's rows may be wrong (see GpuFrameShowsTerminal)
  changes, faults

frameVars == <<term, view, damage, lane, backend, surface, cpu, window, suspect, changes, faults>>

AtMost(n, m) == IF n < m THEN n ELSE m
SaturatingSub(n, m) == IF n < m THEN 0 ELSE n - m

Height == Len(term.rows)
AllRows == 1 .. Height

----------------------------------------------------------------------------
(* What is to be seen: history above the grid when the view is scrolled     *)
(* back, the search bar in the last row, a cursor in the live view alone.   *)

ContentRows == IF view.search THEN SaturatingSub(Height, 1) ELSE Height
EffectiveOffset == AtMost(view.offset, Len(term.scrollback))
HistoryRows == AtMost(EffectiveOffset, ContentRows)

DisplayText(i) ==
  CASE view.search /\ i = Height -> Find
    [] ~(view.search /\ i = Height) /\ i <= HistoryRows ->
         term.scrollback[Len(term.scrollback) - EffectiveOffset + i]
    [] OTHER -> term.rows[i - HistoryRows]

CursorIsIn(i) == view.offset = 0 /\ term.visible /\ i = term.cursor /\ i <= ContentRows

Display == [i \in AllRows |-> [text |-> DisplayText(i), cursor |-> CursorIsIn(i)]]

----------------------------------------------------------------------------
(* The damage.                                                              *)

MarkRow(r) == [damage EXCEPT !.dirty = @ \cup {r}]
MarkAll(d) == [d EXCEPT !.dirty = AllRows]
Clean == [dirty |-> {}, scrolled |-> 0]

\* scroll_up_discard: one line leaves; a grid of one row is cleared instead.
ScrollDamage ==
  [dirty |-> AllRows,
   scrolled |-> IF Height = 1 THEN 0 ELSE AtMost(damage.scrolled + 1, Height - 1)]

----------------------------------------------------------------------------
(* Changes.                                                                 *)

Change ==
  /\ changes < MaxChanges /\ changes' = changes + 1
  /\ window' = [window EXCEPT !.now = FALSE]
  /\ UNCHANGED <<lane, backend, surface, cpu, suspect, faults>>

(* restore_live_view_after_output: before output is fed, unless a search is open. *)
RestoreLiveView ==
  /\ ~view.search /\ view.offset > 0
  /\ view' = [view EXCEPT !.offset = 0] /\ damage' = MarkAll(damage)
  /\ UNCHANGED term /\ Change

(* Output is fed.  The view is live or under a search; a notice of the      *)
(* runtime is fed to a view that is scrolled back, too.                     *)
Feed == Change /\ UNCHANGED view

PrintRow(t) ==
  /\ term.rows[term.cursor] # t
  /\ term' = [term EXCEPT !.rows[term.cursor] = t]
  /\ damage' = MarkRow(term.cursor)
  /\ Feed

MoveCursor(r, v) ==
  /\ <<r, v>> # <<term.cursor, term.visible>>
  /\ term' = [term EXCEPT !.cursor = r, !.visible = v]
  /\ UNCHANGED damage
  /\ Feed

Scroll ==
  /\ term' = [term EXCEPT
       !.rows = Append(Tail(@), Blank),
       !.scrollback = LET all == Append(@, Head(term.rows))
                      IN IF Len(all) > ScrollbackCap THEN Tail(all) ELSE all]
  /\ damage' = ScrollDamage
  /\ Feed

\* Erase in display, a scroll of a part of the screen, lines put in or taken out: all marked.
Rewrite(rows) ==
  /\ rows # term.rows
  /\ term' = [term EXCEPT !.rows = rows]
  /\ damage' = [dirty |-> AllRows, scrolled |-> 0]
  /\ Feed

\* Lines of the wheel or of the page keys.
ScrollView(n) ==
  /\ n <= Len(term.scrollback) /\ n # view.offset
  /\ view' = [view EXCEPT !.offset = n] /\ damage' = MarkAll(damage)
  /\ UNCHANGED term /\ Change

\* enter_search_mode and exit_search_mode
ToggleSearch ==
  /\ view' = [view EXCEPT !.search = ~@] /\ damage' = MarkAll(damage)
  /\ UNCHANGED term /\ Change

(* The window gets another number of rows.  The rows of the grid are cut or *)
(* filled up at the end: reflow is TerminalScreen's.  The surface of the    *)
(* GPU is configured anew (GpuRenderer::resize), that of the CPU at its     *)
(* next frame.                                                              *)
Resize(h) ==
  /\ h # Height
  /\ term' = [term EXCEPT
       !.rows = [i \in 1 .. h |-> IF i <= Height THEN @[i] ELSE Blank],
       !.cursor = AtMost(@, h)]
  /\ damage' = [dirty |-> 1 .. h, scrolled |-> 0]
  /\ surface' = IF lane = "gpu" THEN [acquire |-> 0, reconfigure |-> 0] ELSE surface
  /\ changes < MaxChanges /\ changes' = changes + 1
  /\ window' = [window EXCEPT !.now = FALSE]
  /\ UNCHANGED <<view, lane, backend, cpu, suspect, faults>>

(* Mutated form: the row of the cursor alone is marked. *)
BlinkCursorRow ==
  /\ term.cursor \notin damage.dirty
  /\ damage' = MarkRow(term.cursor) /\ window' = [window EXCEPT !.now = FALSE]
  /\ UNCHANGED <<term, view, lane, backend, surface, cpu, suspect, changes, faults>>

\* about_to_wait, once in BLINK_TOGGLE_INTERVAL: marks all, and leaves scroll_count.
Blink ==
  /\ damage.dirty # AllRows
  /\ damage' = MarkAll(damage) /\ window' = [window EXCEPT !.now = FALSE]
  /\ UNCHANGED <<term, view, lane, backend, surface, cpu, suspect, changes, faults>>

----------------------------------------------------------------------------
(* The CPU renderer.                                                        *)

(* Mutated form: the row the cursor has left is not repainted. *)
DamagedRowsOfCursorNow(d) ==
  d.dirty \cup (IF view.offset = 0 THEN {term.cursor} \cap AllRows ELSE {})

\* collect_current_damage_rows: the cursor's row, and the one it was drawn in last.
DamagedRows(d) ==
  d.dirty \cup (IF view.offset = 0 THEN {term.cursor, cpu.cursor} \cap AllRows ELSE {})

\* build_rows_to_repaint
RowsToRepaint(d, age) ==
  CASE age = 1 -> DamagedRows(d)
    [] age = 2 -> DamagedRows(d) \cup (cpu.history \cap AllRows)
    [] OTHER -> AllRows

\* The buffers the platform may hand out, by age; of a new surface or size nothing is kept.
Ages == {0} \cup IF cpu.size # Height THEN {}
                 ELSE {1 : b \in {cpu.recent} \ {None}} \cup {2 : b \in {cpu.older} \ {None}}

Buffer(age) ==
  CASE age = 1 -> cpu.recent
    [] age = 2 -> cpu.older
    [] OTHER -> [i \in AllRows |-> [text |-> None, cursor |-> FALSE]]

\* render_terminal_buffer: the rows to repaint, then the cursor.
Painted(repaint, buffer) ==
  [i \in AllRows |->
     [text   |-> IF i \in repaint THEN DisplayText(i) ELSE buffer[i].text,
      cursor |-> CursorIsIn(i) \/ (i \notin repaint /\ buffer[i].cursor)]]

(* draw_cpu_frame on the damage d: rows and history are those of this       *)
(* frame, the grid is clean, and the buffer becomes the most recent one.    *)
PaintCpuFrame(d) ==
  \E age \in Ages :
    LET repaint == RowsToRepaint(d, age)
        frame   == Painted(repaint, Buffer(age))
    IN /\ cpu' = [recent |-> frame, older |-> IF cpu.size = Height THEN cpu.recent ELSE None,
                  size |-> Height, history |-> repaint, cursor |-> term.cursor]
       /\ damage' = Clean
       /\ window' = [rows |-> frame, by |-> "cpu", now |-> TRUE]

----------------------------------------------------------------------------
(* The GPU renderer: the capacity of the cell buffers.                      *)

Capacity(g) == Len(g.front)

\* Doubled while it is too small, which takes fewer turns than what is required.
DoubledUntil(capacity, required) ==
  LET after[n \in 0 .. required] ==
        IF n = 0 THEN capacity
        ELSE IF after[n - 1] < required THEN 2 * after[n - 1] ELSE after[n - 1]
  IN after[required]

\* next_cell_buffer_capacity; the growth by saturation is out of reach here.
NextCapacity(capacity, required) ==
  IF required <= capacity THEN capacity
  ELSE DoubledUntil(IF capacity = 0 THEN 1 ELSE capacity, required)

\* shrink_cell_buffer_capacity: None when the buffers are small or used enough.
ShrunkCapacity(capacity, required, initial) ==
  LET threshold == IF capacity \div ShrinkDivisor = 0 THEN 1 ELSE capacity \div ShrinkDivisor
      target    == NextCapacity(initial, IF required = 0 THEN 1 ELSE required)
  IN IF capacity <= initial \/ required > threshold \/ target >= capacity THEN None ELSE target

NewBuffer(capacity) == [i \in 1 .. capacity |-> None]

\* resize_cell_buffers: two new buffers with nothing in them.
Resized(g, capacity) ==
  IF capacity = Capacity(g) THEN g
  ELSE [g EXCEPT !.front = NewBuffer(capacity), !.back = NewBuffer(capacity), !.streak = 0]

(* Mutated form: buffers that shrank are taken to hold what they held. *)
ReconcileKeepingRows(g) ==
  LET target  == ShrunkCapacity(Capacity(g), Height, NextCapacity(InitialCapacity, Height))
      counted == [g EXCEPT !.streak = IF target = None THEN 0 ELSE @ + 1]
      shrunk  == IF target # None /\ counted.streak >= ShrinkStreak
                 THEN Resized(counted, target) ELSE counted
      grown   == Resized(shrunk, NextCapacity(Capacity(shrunk), Height))
  IN [gpu |-> grown, full |-> Capacity(grown) # Capacity(shrunk)]

(* reconcile_cell_buffer_capacity: buffers far too large for many frames    *)
(* shrink, buffers too small grow; either way all must be uploaded again.   *)
Reconcile(g) ==
  LET target  == ShrunkCapacity(Capacity(g), Height, NextCapacity(InitialCapacity, Height))
      counted == [g EXCEPT !.streak = IF target = None THEN 0 ELSE @ + 1]
      shrunk  == IF target # None /\ counted.streak >= ShrinkStreak
                 THEN Resized(counted, target) ELSE counted
      grown   == Resized(shrunk, NextCapacity(Capacity(shrunk), Height))
  IN [gpu |-> grown, full |-> Capacity(grown) # Capacity(g)]

----------------------------------------------------------------------------
(* The GPU renderer: the rows of a frame.                                   *)

\* write_row_instances and write_scrollback_row_instances, on the cells of a buffer.
WriteText(w, i, text) ==
  LET e == IF text = Blank THEN [slot |-> 0, atlas |-> w.atlas] ELSE EnsureGlyph(w.atlas, text)
  IN [cells |-> [w.cells EXCEPT ![i] = e.slot], atlas |-> e.atlas]

\* In the order of the rows: the atlas may give up a slot for each.
WriteRows(cells, atlas, rows, texts) ==
  LET upTo[i \in 0 .. Height] ==
        IF i = 0 THEN [cells |-> cells, atlas |-> atlas]
        ELSE IF i \in rows THEN WriteText(upTo[i - 1], i, texts[i]) ELSE upTo[i - 1]
  IN upTo[Height]

WriteFront(g, rows, texts) ==
  LET w == WriteRows(g.front, g.atlas, rows, texts)
  IN [g EXCEPT !.front = w.cells, !.atlas = w.atlas]

\* The whole display, for a view scrolled back or with the search bar.
ComposeView(g) == WriteFront(g, AllRows, [i \in AllRows |-> DisplayText(i)])

(* The rows that scrolled in are uploaded to the back buffer, the buffers   *)
(* are exchanged, and the rest is copied on the GPU once the frame is       *)
(* acquired (CopyScrolled).                                                 *)
ScrollBuffers(g) ==
  LET w == WriteRows(g.back, g.atlas, (Height - damage.scrolled + 1) .. Height, term.rows)
  IN [g EXCEPT !.front = w.cells, !.back = g.front, !.atlas = w.atlas]

CopyScrolled(g) ==
  LET n == damage.scrolled
  IN [g EXCEPT !.front = [i \in DOMAIN @ |-> IF i <= Height - n THEN g.back[i + n] ELSE @[i]]]

ComposesView == view.offset > 0 \/ view.search
TakesScrollPath(full) ==
  view.offset = 0 /\ ~full /\ damage.scrolled > 0 /\ damage.scrolled < Height

\* prepare_and_upload_dirty_rows
UploadDirtyRows(g) == WriteFront(g, damage.dirty, term.rows)

(* What render_frame does to the buffers before it asks for a texture.      *)
PrepareFrame(r) ==
  LET base == CASE ComposesView -> ComposeView(r.gpu)
                [] ~ComposesView /\ r.full -> WriteFront(r.gpu, AllRows, term.rows)
                [] OTHER -> r.gpu
  IN CASE TakesScrollPath(r.full) -> ScrollBuffers(base)
       [] view.offset = 0 /\ ~r.full /\ ~TakesScrollPath(r.full) -> UploadDirtyRows(base)
       [] OTHER -> base

UniformCursor == [row |-> term.cursor, visible |-> view.offset = 0 /\ term.visible]

NothingToDraw == ~ComposesView /\ damage.dirty = {} /\ backend.cursor = UniformCursor

(* What the window shows: each row the glyph that its slot holds now.       *)
GpuPicture(g) ==
  [i \in AllRows |-> [text |-> IF g.front[i] = None THEN None ELSE g.atlas.glyphAt[g.front[i]],
                      cursor |-> CursorIsIn(i)]]

\* All rows were written, and nothing was put over them.
RepaintsAll(full) ==
  /\ ~TakesScrollPath(full)
  /\ ComposesView => view.offset > 0 \/ full \/ Height \notin damage.dirty
  /\ ComposesView \/ full \/ damage.dirty = AllRows

Prepared == LET r == Reconcile([backend EXCEPT !.cursor = UniformCursor, !.atlas.evicted = FALSE])
            IN [gpu |-> PrepareFrame(r), full |-> r.full]

SuspectAfter(p) ==
  \/ TakesScrollPath(p.full)
  \/ p.gpu.atlas.evicted
  \/ ~RepaintsAll(p.full) /\ (suspect \/ ComposesView)

----------------------------------------------------------------------------
(* The surface: SurfaceRecoveryPolicy.                                      *)

SurfaceErrors == {"Timeout", "Outdated", "Lost", "OutOfMemory", "Other"}

ErrorCategory(e) ==
  CASE e = "Timeout" -> "Retryable"
    [] e \in {"Outdated", "Lost"} -> "ReconfigureRequired"
    [] OTHER -> "DegradeRequired"

Recovery(e) ==
  CASE ErrorCategory(e) = "Retryable" /\ surface.acquire < AcquireBudget -> "RetryAcquire"
    [] ErrorCategory(e) = "ReconfigureRequired" /\ surface.reconfigure < ReconfigureBudget ->
         "ReconfigureSurface"
    [] OTHER -> "DegradeToCpu"

NoFailures == [acquire |-> 0, reconfigure |-> 0]

SurfaceAfter(e) ==
  CASE Recovery(e) = "RetryAcquire" -> [acquire |-> surface.acquire + 1, reconfigure |-> 0]
    [] Recovery(e) = "ReconfigureSurface" -> [acquire |-> 0, reconfigure |-> surface.reconfigure + 1]
    [] OTHER -> NoFailures

\* isImmediateFallback of the failure kind (RenderControl): no retry is scheduled.
FallsBackAtOnce(e) == e = "OutOfMemory"

----------------------------------------------------------------------------
(* draw_frame.                                                              *)

Idle == UNCHANGED <<term, view, changes>>

\* clear_dirty_rows follows every frame that render_frame calls a success.
PresentGpu(p) ==
  LET g == IF TakesScrollPath(p.full) THEN CopyScrolled(p.gpu) ELSE p.gpu
  IN /\ backend' = g
     /\ damage' = Clean
     /\ window' = [rows |-> GpuPicture(g), by |-> "gpu", now |-> TRUE]
     /\ suspect' = SuspectAfter(p)

DrawGpu ==
  /\ lane = "gpu" /\ ~NothingToDraw
  /\ PresentGpu(Prepared)
  /\ surface' = NoFailures
  /\ UNCHANGED <<cpu, lane, faults>> /\ Idle

\* The acquire fails once; the surface is configured again and the second try succeeds.
DrawGpuReconfigured(e) ==
  /\ lane = "gpu" /\ ~NothingToDraw
  /\ faults < MaxFaults /\ faults' = faults + 1
  /\ Recovery(e) = "ReconfigureSurface"
  /\ PresentGpu(Prepared)
  /\ surface' = NoFailures
  /\ UNCHANGED <<cpu, lane>> /\ Idle

\* apply_gpu_auto_fallback: the CPU has nothing it can build on.
DamageOfFallback == MarkAll(damage)

NoBackend == [front |-> <<>>, back |-> <<>>, streak |-> 0,
              cursor |-> [row |-> 0, visible |-> FALSE], atlas |-> NewAtlas]

(* The frame is lost: buffers and last_cursor are as if it had been drawn,  *)
(* the copy of the scrolled rows is never submitted.  The CPU draws in its  *)
(* stead, on the damage of this frame, and marks it clean; the GPU is tried *)
(* again, or given up.                                                      *)
DrawGpuFails(e) ==
  /\ lane = "gpu" /\ ~NothingToDraw
  /\ faults < MaxFaults /\ faults' = faults + 1
  /\ \/ /\ ~FallsBackAtOnce(e)
        /\ backend' = Prepared.gpu /\ surface' = SurfaceAfter(e) /\ suspect' = TRUE
        /\ PaintCpuFrame(damage) /\ UNCHANGED lane
     \/ /\ lane' = "cpu" /\ backend' = NoBackend /\ surface' = NoFailures /\ suspect' = FALSE
        /\ PaintCpuFrame(DamageOfFallback)
  /\ Idle

DrawCpu ==
  /\ lane # "gpu"
  /\ PaintCpuFrame(damage)
  /\ UNCHANGED <<backend, surface, suspect, lane, faults>> /\ Idle

\* try_deferred_gpu_init: the softbuffer surface is dropped, the backend is new, all is dirty.
NewGpu == [front |-> NewBuffer(NextCapacity(InitialCapacity, Height)),
           back |-> NewBuffer(NextCapacity(InitialCapacity, Height)),
           streak |-> 0, cursor |-> [row |-> 0, visible |-> FALSE], atlas |-> NewAtlas]

GpuReady ==
  /\ lane = "starting" /\ lane' = "gpu"
  /\ backend' = NewGpu /\ surface' = NoFailures /\ suspect' = FALSE
  /\ cpu' = [cpu EXCEPT !.recent = None, !.older = None, !.size = 0]
  /\ damage' = MarkAll(damage) /\ window' = [window EXCEPT !.now = FALSE]
  /\ UNCHANGED faults /\ Idle

GpuGivenUp ==
  /\ lane = "starting" /\ lane' = "cpu"
  /\ damage' = MarkAll(damage) /\ window' = [window EXCEPT !.now = FALSE]
  /\ UNCHANGED <<backend, surface, cpu, suspect, faults>> /\ Idle

----------------------------------------------------------------------------
FramesInit ==
  /\ term = [rows |-> [i \in 1 .. MaxRows |-> Blank], scrollback |-> <<>>, cursor |-> 1,
             visible |-> TRUE]
  /\ view = [offset |-> 0, search |-> FALSE]
  /\ damage = [dirty |-> AllRows, scrolled |-> 0]
  /\ lane = "starting"
  /\ backend = NoBackend /\ surface = NoFailures
  /\ cpu = [recent |-> None, older |-> None, size |-> 0, history |-> {}, cursor |-> 0]
  /\ window = [rows |-> <<>>, by |-> "none", now |-> FALSE]
  /\ suspect = FALSE /\ changes = 0 /\ faults = 0

Output ==
  \/ \E t \in Texts \cup {Blank} : PrintRow(t)
  \/ \E r \in AllRows, v \in BOOLEAN : MoveCursor(r, v)
  \/ Scroll
  \/ \E t \in Texts \cup {Blank} : Rewrite([i \in AllRows |-> t])

UserView ==
  \/ RestoreLiveView
  \/ \E n \in 0 .. ScrollbackCap : ScrollView(n)
  \/ ToggleSearch
  \/ \E h \in 1 .. MaxRows : Resize(h)

Draw ==
  \/ DrawCpu
  \/ DrawGpu
  \/ \E e \in SurfaceErrors : DrawGpuReconfigured(e) \/ DrawGpuFails(e)

FramesNext == Output \/ UserView \/ Blink \/ Draw \/ GpuReady \/ GpuGivenUp

(* The event loop comes back to a frame again and again: rows that are      *)
(* dirty have a redraw under way (RenderControl), and the blink timer is    *)
(* looked at on every turn of the loop.                                     *)
FramesFairness == []<>(window.now) /\ WF_frameVars(Blink)

FramesSpec == FramesInit /\ [][FramesNext]_frameVars /\ FramesFairness

----------------------------------------------------------------------------
(* The state is one the code can be in: rows and marks lie in the grid, a   *)
(* scroll is shorter than the screen, both cell buffers have one size, and  *)
(* the atlas is whole: the maps between glyphs and slots agree, and its     *)
(* list is the same from both ends and holds each used slot once.           *)
FrameTypes ==
  /\ Height \in 1 .. MaxRows /\ \A i \in AllRows : term.rows[i] \in Texts \cup {Blank}
  /\ Len(term.scrollback) <= ScrollbackCap /\ term.cursor \in AllRows
  /\ damage.dirty \subseteq AllRows
  /\ damage.scrolled < Height /\ (damage.scrolled > 0 => damage.dirty = AllRows)
  /\ Len(backend.front) = Len(backend.back) /\ backend.streak < ShrinkStreak
  /\ IsAtlas(backend.atlas)
  /\ surface.acquire <= AcquireBudget /\ surface.reconfigure <= ReconfigureBudget

(* As long as no GPU frame came between (a lane that is still starting, or  *)
(* has fallen back), a frame of the CPU shows the live view of the terminal *)
(* and its cursor in every row, whichever buffer the platform hands out:    *)
(* the rows not repainted are those that have not changed since.            *)
CpuFrameShowsTerminal ==
  window.now /\ window.by = "cpu" /\ lane # "gpu" /\ view.offset = 0 => window.rows = Display

(* A GPU frame shows the terminal in every row, except after a frame that   *)
(* took the scroll path, was lost, had the search bar overwritten or gave a *)
(* glyph's slot away, and then only until a frame repaints all rows.        *)
GpuFrameShowsTerminal ==
  window.now /\ window.by = "gpu" /\ ~suspect => window.rows = Display

(* The buffers and the atlas of the GPU are whole, and show the terminal.   *)
GpuFramesAreSound == FrameTypes /\ GpuFrameShowsTerminal
=============================================================================
