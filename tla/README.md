# rldyourterm: a verification project in TLA+

rldyourterm is a terminal emulator in Rust: it spawns a shell on a PTY, interprets its output
as terminal control sequences, and shows the resulting grid of cells in a window, through the GPU
or the CPU, or passes it through to the terminal it was started in. This directory holds TLA+
models of its core, the TLC configurations that check them on small instances, and theorems that
TLAPS proves for every value of the constants. Definitions carry the names the source uses;
`PROJECT.json` maps each one to the lines it models.

Contents: 1 the system, 2 the hard parts, 3 the modules, 4 the runs, 5 the proofs, 6 what is
not modelled, 7 the plan.

## 1. The system

Crates are under `src/crates/`; `app` is the program, the rest are libraries it composes.

| Component | State it keeps | Operations | Talks to |
|---|---|---|---|
| GUI output path (`app/src/gui_runtime_output.rs`, `gui_runtime_lifecycle.rs`, `gui_runtime_app_handler.rs`) | bounded channel of 256 chunks, `output_event_pending`, back-pressure counters, the batch, the child-exit drain | reader pump (read, count, send, swap the flag, wake the loop), wait pump, `drain_output_queue`, `child_exit_drain_complete`, `about_to_wait` | reader of the PTY, event loop, terminal, session policy |
| PTY handle (`foundation-platform/src/pty`) | `PtyInner` under one mutex, the child under another: exit code or sentinel, closed, reader, writer, last size | `spawn`, `take_reader`, `take_writer`, `resize`, `kill`, `wait`, `try_wait`, `close`, `Drop` | the operating system; all threads of a runtime |
| GUI runtime life cycle (`gui_runtime.rs`, `gui_runtime_lifecycle.rs`, `runtime_shared/shutdown.rs`) | `exit_code`, `fatal_error`, the two join handles | spawn, pumps, `run_app`, `shutdown` with timed joins | PTY handle, pumps |
| Session policy (`services/src/session.rs`, `ui/src/commands.rs`, `runtime_shared/pty_boundary.rs`) | session state, shell, failures counted against a budget | recoverable and fatal boundary, running, stop | called on every failure of the PTY and after every success |
| Render mode, surfaces, redraw scheduling (`services/src/render_mode`, `app/src/gui_runtime_backend.rs`, `gui_runtime_render.rs`, `gui_runtime_window.rs`) | mode, active path, failure streak and its window, deferred GPU start with retries, the two surfaces, `redraw_pending`, `redraw_in_flight` | GPU failure, frame presented, deferred start, `draw_frame`, release of the window, request and dispatch of a redraw | GPU renderer, CPU renderer, window host, event loop |
| Frame production (`features/render_gpu`, `features/render_cpu`, dirty rows of `core/src/grid`) | dirty rows, `scroll_count`, two GPU cell buffers, atlas and its eviction list, buffer age history | upload, scroll swap, present; rasterize, repaint by age; pack and shade a cell | terminal grid, surfaces, fonts |
| Fonts (`features/font`) | chain of fonts, bounded glyph cache with its queue | discover, rasterize, get | both renderers, the atlas |
| TTY runtime (`app/src/pty_runtime*.rs`) | verdict, pump, flush deadline, poll wait of the mode | read pump, main loop, resize, close and join | PTY handle, standard streams |
| Terminal interpreter (`core/src/parser`, `core/src/state`, `core/src/grid`) | parser state, modes, pen, cursor with pending wrap, scroll region, primary and alternate screens, scrollback ring | feed in calls of any length, resize with reflow, replies | output path, renderers, interaction |
| Interaction (`features/interaction`, `core/src/search`, `core/src/input`, `gui_runtime_mouse.rs`, `gui_runtime_terminal_io.rs`) | viewport offset, selection, search, palette, buttons held | scroll, select, find, encode keys and mouse reports, paste | terminal, PTY writer, clipboard |
| Settings (`features/settings`) and UI runtime (`ui/src`) | mode, shell, auto-init, cadence, font, theme, profile, debug | parse, apply, export; each command with what it does to session and renderer | the entry, harness, palettes |
| Shell integration (`features/shell_integration`) | none | choice of the shell, launch plan | the entry |
| Clipboard (`foundation-platform/src/clipboard.rs`) | the system's clipboard, its health and retries, a fallback text | set, get | interaction |
| Entry and harness (`app/src/main.rs`, `app_harness.rs`) | none that outlives a run | plan, bootstrap, run, fall back from the GUI to the TTY, exit | all |
| Observability, errors, window host, benchmark, scripts | a counter of event identities; types | emit | every component |

How a session runs: `run_interactive_gui_pty` spawns the PTY, takes its reader and writer, starts
the *reader pump* (blocking reads, one chunk at a time into the channel) and the *wait pump*
(blocks in `PtyIo::wait`), and runs the winit event loop on the main thread. The pumps talk to the
loop through three events, `OutputReady`, `Exited` and `PtyFailure`, and through the channel and
one atomic flag. The main thread alone owns the terminal, the renderers and the writer. The PTY
handle is the one object that two threads call. When the loop ends `shutdown()` joins both pumps,
each for 750 ms at most, and closes the handle.

### What makes each component correct

* Output path: every byte read is applied once and in order; the loop is never asleep while
  output waits; one drain never holds the loop for ever; an exit reported as drained left no
  output behind; the exit of the child ends the loop even when output never ends.
* PTY handle: no deadlock between its mutexes; the real exit code is cached once and never
  replaced by the sentinel of a kill; nothing is handed out of a closed session; a child is
  never left unsignalled; teardown does not depend on the child.
* GUI life cycle: whichever way the loop ended, the handle is closed, the child signalled, and
  shutdown ends; the shell of the fall back is the only one.
* Session policy: the budget bounds consecutive failures; a session that is stopping does not
  come back; the runtime never asks for a transition that is refused.
* Render mode: mode, path, backend and deferred start agree; the GPU is given up neither too early
  nor too late; a change of the grid always has a redraw on its way.
* Frames: what the window shows is the terminal, from either renderer, with the same colours, and
  from glyphs that belong to the fonts of now.
* TTY runtime: it ends with an honest result, with the child signalled and all output shown.
* Interpreter: cursor inside the screen, no half of a wide character, reflow keeps the text; the
  cuts between reads do not show; the alternate screen leaves the primary one and its modes alone.
* Interaction: matches, view and selection follow the lines; the program knows which buttons are
  down; a key has the same bytes in both runtimes, apart from those of any other key.
* Settings, shell, clipboard: no contradiction is reachable; the launched shell exists; a paste is
  the last copy.

## 2. The hard parts

Concurrency of three threads around two mutexes, a channel and a flag (lost wake-ups, a counter
that drifts, a check against a flag that another thread sets); the exit of the child in a race
with its last output; teardown while another thread blocks in a wait that may never end; an exit
code that is cached by several paths; failures counted and forgiven by different boundaries;
GPU failures that arrive between the upload and the present of a frame; buffers of the window
system that come back with an old picture, an atlas and a glyph cache at their limit; retries with
deadlines; the many legal orders of control sequences and resizes, in which a deferred wrap,
margins, a saved cursor or a screen put aside outlives what it was made for; sequences cut
anywhere by a read; positions of matches, of a view and of a selection in a grid that scrolls
beneath them; a press whose release another mode answers; a clipboard that fails between a copy
and a paste. `PROJECT.json` lists each hazard at its line
with the property that covers it, or why none does yet.


## 3. The modules

Every definition that models code is named after it and listed with its lines in `PROJECT.json`
under "map". Beside some of them stands a *mutated form*: the same step with a plausible mistake
in it. It is used by no specification; a run in which it takes the place of its original must find
the property it is listed with violated, which shows that the property depends on that code.

| Module | Models | Abstracts |
|---|---|---|
| `OutputPump` | the reader pump, the wait pump, the channel, the flag, `drain_output_queue`, `child_exit_drain_complete` and the handlers that call them | a chunk is its number in the order of the PTY; sizes are counted in chunks; the recycling pool is left out |
| `OutputStream` | nothing in the code: the abstract promise of the output path, an ordered stream that ends complete or abandoned | |
| `PtyIo` | `PlatformPtyIo`: every call, the factory with its clean-up, `Clone` and `Drop` of the handle | a size is a number of which 0 is degenerate; an exit code is *final* (the child's) or *unknown* (the sentinel) |
| `GuiShutdown` | the threads of the GUI runtime that call the handle; EXTENDS `PtyIo` and composes its steps with `run_interactive_gui_pty`, the handlers and `shutdown()` | what is drawn and read |
| `RenderControl` | `RenderModeController`, the deferred start of the GPU, `draw_frame`, the two surfaces, the redraw flags, `about_to_wait` | the grid is whether it has dirty rows; the cursor is whether it is where it was drawn |
| `SessionController` | `SessionController` of `services`, each method as an operator from a controller to what it leaves and answers | the transition's number |
| `UiSession` | the session commands of `UiRuntime`, in any order | the render commands, which are in `RenderControl` and `Program` |
| `TtyRuntime` | `run_interactive_pty`: start, main loop, read pump, close and join; uses `SessionController` | one call of the PTY handle is one step; keys are what they do to the loop |
| `Grid` | `core/src/grid` and the ring of `scrollback.rs`: cells, scrolls, edits, both resizes, as operators | a cell is a character and its width; colours, dirty rows, the cap in bytes are left out |
| `TerminalScreen` | `TerminalState`: every parser action and resize that changes the cursor, the cells, margins, tab stops or the screen shown; uses `Grid` | two characters, a narrow and a wide one; see below |
| `Parser` | `core/src/parser`: bytes to actions, with the caps of sequences and strings | a byte is one of some thirty classes; the text of unsupported sequences |
| `TerminalModes` | the rest of `TerminalState`: pen, modes, titles, palette, hyperlink, kitty flags, replies, and `feed_into`; uses `Parser` | the screen is a log of the actions that would change it |
| `Frames` | damage, both renderers' choice of rows, `draw_frame`; uses `Atlas` | a row is one glyph |
| `Atlas` | the slots of the glyph atlas and their eviction list | a glyph is a model value |
| `CellPaint` | how both renderers colour the cells of a line | a cell is up to four zones; the pixels |
| `GlyphCache` | `features/font`: discovery and chain of fonts, choice of a font, the bounded cache | a bitmap is the marks in it; metrics and kerning |
| `Keys` | the key encoder and both front ends | the bytes are the fields they encode |
| `Interaction` | view, search, palette, selection, mouse reports, paste, resize and notices of the GUI runtime | a line is its characters, the width is fixed |
| `ShellLaunch` | the choice of the shell and the launch plan | what is on the PATH is three booleans |
| `Settings` | reading of commands, what they change | an input is its words |
| `Clipboard` | the platform clipboard of the GUI runtime | a text is its author, length and bytes per character |
| `Program` | `main`, the harness and the UI runtime; EXTENDS `UiSession`, `Settings`, `ShellLaunch`, `Clipboard` | the GUI and the TTY runtime are what they send to the UI runtime |
| `*_proofs` | the theorems about the module they are named after; `GuiShutdown_proofs` has those about `PtyIo` too, `Program_proofs` those about `UiSession` | |
| `SequenceLemmas` | induction and recursion for the proofs | |
| `MC*` | constants for the runs | |

### OutputPump

Threads are `readerPc`, `waitPump` and `mainPc`; a step is one access to what the others can see:
the counter (`queuedChunks`), the channel (`queue`), the flag (`pending`, a `swap` and two
`store`s) and the event queue (`events`). The drain is split where the code's order matters:
`DrainRecv` takes chunks until the budget of the moment is spent or the channel is empty;
`DrainSeesEmpty`, `DrainRelease`, `DrainRecheck` and `DrainRetake` are the release of the flag
and the second look at the channel; `DrainFlush` applies the batch and, when the budget ran out,
posts the continuation event. The clock's part of the budget is a free choice after every chunk.
`ApplyFails` is the error return of a drain: a prefix of the batch reached the terminal, the batch
is kept, the loop was asked to exit. A write that fails with a disconnect polls the child first
(`handle_pty_io_error`), wherever the write was: a terminal response in the middle of a drain
(`WriteFails`, `PollOfDrain`, place "polling") or the user's input (`InputWriteFails`,
`PollOfInput`); a failed read does so too (`HandleReadFailure`). The poll needs the child's mutex,
which the wait pump holds while the child lives, so it may wait (`pollAnswers`): the event loop then
stands still with a chunk in its hand. The model keeps what the terminal was given before the poll
for its answer, since no other thread sees the terminal. The handlers are those of `gui_runtime_app_handler.rs` and
`gui_runtime_lifecycle.rs`; `LeaveLoop` and `DropApp` are the ends of the event loop and of the
receiver, after which the reader's send fails.

### PtyIo and GuiShutdown

`innerLock` and `childLock` hold the thread that owns each mutex. A call is a walk through
`pc[t]`: `EnterRefresh` locks the state, `Refresh...` polls the child beneath it, `WaitLocksChild`
to `WaitRelocks` is the second half of `wait`, which has let go of the state; `EnterTerminate`,
`Signal` and `Reap` are `terminate_child` as `kill`, `close` and `Drop` call it. `process` is what
the system knows of the child, "lost" when something else in the program reaped it, and `exitCode`
what the handle caches. `GuiShutdown` gives one thread the calls of the event loop in their order
(`phase` is where it is between two calls) and the other one the wait, and adds the handlers that end
the loop, the timed joins, the drop of the app and what `main` does after it (`FallBack`): a GUI
that ended with an error, whenever that was, is followed by a shell in the TTY ("shell after" a
shutdown, "shell beside" one that was skipped because the app or the event loop itself failed).

### RenderControl

One thread, a handler a step. winit calls `about_to_wait` after the handlers of an iteration;
it takes two steps (`TryDeferredInit`, then one of the ways it returns, with `loop` at "settling"
between them) because the retry deadline is compared twice and time passes between. `gpu`,
`host` and `cpuSurface` are the resources, `path`, `streak` and `windowOpen` the controller,
`pending`, `failures` and `retry` the deferred start; `requested` is what the window system owes.
After `exit()` the iteration that is under way is the last one (`inIteration`).
A redraw with nothing to draw counts as a presented frame (`RedrawUnchanged`, `frame.rs:101`), and so
forgives the GPU failures before it; failures that alternate with such frames never add up to the
fallback. No document says which frames should forgive, so that no run asks.

### SessionController, UiSession and TtyRuntime

`SessionController` has no variables: `markRunning(session)`, `applyRecoverable(session)` and the
others return a record of the session they leave and the outcome. `UiSession` applies them in the order of
arbitrary commands, as `UiRuntime::handle_command` does; `survived` is a history variable that
counts failures independently of the controller. `TtyRuntime` makes the calls the TTY runtime
makes, and so shows that it never asks for a transition the policy refuses. Its main thread is
`pc`; the pump is a thread with its own steps; `child` distinguishes a child that closed its
terminal ("gone") from one that can be reaped ("exited"), because the system does these in that
order. The raw-mode guard spans the whole call and is left out. An exit code that is the
sentinel is turned into 1 by `main` (`main.rs:311`), so the runtime's own "unknown" is visible here.

### Grid and TerminalScreen

The code has one `TerminalState` behind `&mut self`, whose handlers call each other, so `term` is
one record and a handler an operator from a terminal to a terminal: `ApplyPrint`, `ApplyLineFeed`,
`ApplyResize` and so on, named after the `apply_*` they stand for. An action is one parser action
(an arm of `apply_action_into`) or one resize, and sets `term` to the result; `PrintText` is a
sequence of `PrintChar`. A grid is its rows, each its cells and its soft-wrap flag; a wide
character is a cell of width 2 with a continuation cell of width 0 behind it, as in the code.
`Relaid` is `resize_with_reflow` with its phases as LET definitions: the logical lines, the line
and offset of the cursor, the rows each line is laid into, those pushed into the scrollback.
`spent` and `steps` have no counterpart in the code: they name the kind of a step for the
properties, and bound the behaviours.

Left out: colours and attributes (a blank is the default blank), zero-width characters, which
replace a character in place, titles, replies and events, and the modes other parts read, for
which `TerminalModes` exists; `autoWrap` stands for those that an alternate screen captures.
`dirty_rows` and `scroll_count` are in `Frames`.

What the model shows of the code beside its properties:

* Leaving the alternate screen after a resize gives back margins that may lie beyond the screen,
  and with them origin mode puts the cursor below it. The handlers that write clamp it, so that no
  cell is written outside. `OnlyStaleMarginsMoveCursorOut` says that this is the only way.
* In origin mode `CursorHorizontalAbsolute` passes the cursor's row to `apply_cursor_position`,
  which adds the top margin to it once more, so that CHA moves the cursor down.
* A line that wraps below the bottom margin scrolls the region and continues inside it (`>=` in
  `apply_print`); a line feed there goes down (`==` in `apply_line_feed`).
* The home of DECSTBM and of origin mode leaves a deferred wrap pending (cf. `cursor.rs:9-12`).
* Reflow looks up the cursor before it ends a full row: a cursor on the first cell of a new row
  lands on the last column of the row above.
* A resize while the alternate screen is shown reflows the alternate screen and cuts the primary
  one, which is then in `alternate_screen` (`state/mod.rs:444`; the comments at :423 and :443 mean
  it the other way round). `TextIsKept` speaks of resizes on the primary screen only.

### Parser and TerminalModes

A parser is a record and a handler an operator from a parser and a byte to a parser, as in the
code; `FeedInto` cuts a call into chunks of its own and drops what is beyond the cap of a call. An
input is fed in calls of the sizes of `CallSizes`; `ParserIsUncut` says that parser and terminal are
what one `Feed` of all the bytes leaves (`since`, those behind the last call that was too long).
The caps are small, so that each is exceeded by some input. Known of the code: ESC
inside a CSI is kept as a parameter byte; `38;5;300` leaves 5 to be read as blink; an OSC that is
too long is acted on when it ends with ST and dropped when it ends with BEL (`handlers.rs:148`);
the status string of a pen may have more parameters than the parser accepts.

### Frames, Atlas and CellPaint

`term` is what the terminal holds and `damage` what the grid recorded of it, `backend` the two cell
buffers with what was uploaded to each and the atlas, `cpu` the buffers the window system may hand
back, each with the picture and the age it has, `window` what the window shows, and `lane` who
draws. `RowsToRepaint` is that of `rasterize.rs`, by the age of the buffer; the GPU's `Prepared` is
the upload and the swap, `CopyScrolled` the copy of the rows that scrolled, `DrawGpuFails` an acquire
that failed between the two. `suspect` is a history variable: it is set by the four ways in which a row
of the GPU can go wrong, and cleared by a frame that repaints all rows, so that
`GpuFramesAreSound` says that there is no fifth way. The four, and three of the CPU's:

* a frame that scrolled uploads the new rows only, not a row above that changed (`frame.rs:168`);
* a frame whose surface could not be acquired has swapped the buffers already, and its copy between
  them is never submitted (`frame.rs:237`); the CPU frame that stands in clears the dirty rows;
* the search bar at the live view is overwritten (`frame.rs:198`);
* a slot that the atlas gives away may still be in a row that is not uploaded again (`evicted` of
  the atlas remembers that it happened during this frame);
* a CPU stand-in with a buffer of age 1 after GPU frames shows what the CPU drew last;
* in the history, the CPU takes rows of the grid for rows of the window;
* the colours of OSC 4 and 104, DECSCNM and the shape of the cursor mark no row.

Each heals with the next blink of the cursor, which marks all rows (`PictureSettles`).
`CellPaint` has the two painters next to each other; `KnownDifferences` names in what they differ
(dim and reverse are applied twice by the GPU, for one), and `RenderersAgree` says that this is all.

### GlyphCache

`glyphs` has the fields of the struct; `get` answers with the cache afterwards and the drawing. The
fonts of the machine are the sublists of seven faces, among them one that cannot be loaded, one that
is slanted, one that is found twice and a colour font that displays nothing. The atlas asks
`has_glyph` before it draws, which `HasGlyphIsDrawn` relates to what is drawn. A family whose first
face cannot be loaded is given up although another one of it could be.

### Keys

An encoding is a record of the fields the bytes have. Both front ends describe the same stroke,
crossterm in the TTY runtime and winit in the GUI; `MCFunctions` names where they differ: the GUI
sends the text of the platform first, so that Backspace, Shift+Tab, Alt+Enter and Alt+Escape depend
on it, and does not know the release of the space bar. With flags of kitty but without "report all
keys" the repeats of text keys are dropped (`core/src/input.rs:217`) and function keys change form.

### Interaction

`term` is the lines, `ui` the `InteractionState` with view, selection, search and buttons, `modes` and
`told` what the program set and was told, `sizes` and `term.rows` the sizes that have to agree. An action is a
handler of the GUI runtime or an output of the program; a session (`MCInteraction`) is a choice of
alphabets, because all of them at once are too many: a search with notices and resizes, a drag with
scrolls and changes of the mouse mode, and the reports of two buttons with writes that fail.
Known of the code, and excepted where a property would meet it: a selection is anchored to places of
the grid while output scrolls; a drag during which the view scrolls or the program takes the mouse
ends neither in a copy nor in a cleared selection (`gui_runtime_mouse.rs:54`); a press before the
program reads the mouse is released into it; the Normal format reports a release like a press; a
match in the last row is under the search bar; a paste whose write failed leaves the program inside a
bracketed paste; a resize that the PTY refused is not repeated when the window returns to the old
size; results are stale after a resize until the next output. The active match is kept by its place in
the list: when a match before it is evicted, erased or rewritten, the next one becomes active, and
`ActiveMatchKept` says exactly that (as many matches come before it as before).

### Program, Settings, ShellLaunch and Clipboard

`phase` follows `main`: planning, the commands of the command line, then one of harness, GUI, TTY.
The three send their commands to one UI runtime, whose session is that of `UiSession` and whose
render mode controller has its clock here (`failed` is a history of the failures since the last
success or reset). The commands `shell` and `mode` of the command line's palette come after the
plan and change neither shell nor mode of the run; the TTY runtime does not read the settings
(`pty_runtime.rs:124`); the first command that fails ends the harness. `recordFailure` in time: the window
starts with the first failure, so that up to twice the budget may lie in one window; times that go
backwards, which only the harness can give, count as within it.
`Clipboard` is a part of the GUI. `drift` is a history variable: where the system's clipboard and
the last copy went apart. A copy that could not be set is dropped by the next read that works and
returns the older text (`clipboard.rs:296`, although the log says it is retained).

## 4. The runs

States are the distinct ones; every bound is a constant of the `.cfg`.

| Run | States | Question |
|---|---|---|
| `output_pump` | 663 531 | Is output kept, in order, without a lost wake-up, through every end of the session? Does the pump implement `OutputStream`? Does what was read arrive, and does the exit of the child end the loop? |
| `pty_calls` | 74 897 | Are the calls of the handle free of deadlock, and exit codes, handles and the child's signal right? |
| `gui_shutdown` | 39 067 | Does every end of the event loop leave the session closed and the child signalled, and no second shell beside a living one? Do teardown calls return? |
| `render_control` | 27 043 | Do mode, path, backend and deferred start agree; is every change drawn; does the start of the GPU end? |
| `terminal_screen` | 701 305 | Do cursor, margins, tab stops and both screens stay consistent through every order of control sequences and resizes, and is text kept whole? |
| `terminal_modes` | 97 014 | Do the cuts between reads show? Does the primary screen keep its modes, and does a pen survive its status string? |
| `frames` | 257 699 | Does the window show the terminal, whoever draws, and does it come back to it where it does not? |
| `functions` | 124 685 | Do the renderers colour a line alike; has each key its bytes; is the shell that is launched there; are commands read as they are meant; is a glyph drawn by a font that has it? |
| `interaction` | 498 830 | Are matches, view and selection true to the lines, is the program told of buttons and pastes, do the sizes agree? |
| `program` | 1 113 287 | Does the session keep its policy and the runtime its settings, is the GPU given up when it should be, is a paste the last copy? |
| `tty_runtime` | 560 608 | Does the TTY runtime end with an honest result, no child left, and all output shown? |
| `gui_shutdown_hang` | violation | Does every `shutdown()` end? |

**Bounds.** *Output:* three chunks through a channel of one make the reader block, and with
batches of one every chunk but the first flushes; the three budgets are 1, 2, 2 at queue lengths
0, 1, 2, so that a drain is cut short, continues by event and changes its budget. *PTY:* two
threads, as every runtime of the program has; the main one makes three calls of any kind, which is
enough for kill, poll, close and for a resize between two of them; two reap attempts distinguish
the last one from the others. *GUI shutdown:* one resize, beside the calls the life cycle
prescribes. *Render:* the budgets of the code, 2 and 3; there is no other bound, the state is
finite. *TTY:* two chunks, so that one may be shown while the other waits; a session budget of 1,
so that a failure after a survived one is fatal; waits of 1 to 2, with a mode whose longest is 1 so
that a change of mode matters. *Screen:* it starts with two columns and two rows and is given sizes
from none to three by three, so that a resize cuts, reflows, pushes rows out and leaves margins
behind; a narrow and a wide character; five steps, of which three may print, two feed lines, change
modes, save or restore the cursor, switch screens or resize, and one each of the others; counts of 1
and 3 are below and beyond every size; a scrollback of six lines does not fill up within them, so
that the properties about text are not vacuous. *Modes:* 3286 inputs of two fragments of any kind,
or three of those that change modes and pens; the caps are 14, 10 and 12 bytes, which a fragment
each exceeds; reads of 1, 2 and 5 bytes, within which a chunk of 3 cuts once more, and of the rest,
which a cap of 8 a call cuts off. *Frames:* two rows, as a scroll copy needs, a line of history, two glyphs in an
atlas of three slots (one is the blank, the search bar brings a third glyph, so that one is given
up), three changes, two surface errors with budgets of one, so that a retry and a giving up occur.
*Functions:* all combinations of up to five deviations from the plain cell and screen; any chain of
at most two added fonts with a cache of none to three glyphs, fewer than the five that are asked for.
*Interaction:* a line of two columns, with up to two matches, and a history of two lines that
fills up; queries of up to two characters. There is no bound on the number of steps. *Program:* the
budgets of the code (3, 2, 5); four failures at the seconds 0, 1, 3, 4 and 7 with a window of 3 make
two windows in which the budget is just kept, reached or passed; texts of one author or another
above and below a cap of five bytes.

**Deadlock** is checked in `output_pump`, `pty_calls`, `gui_shutdown` and `program`, whose only
terminal states are named steps (`Finished`, `GuiFinished`, `Ended`), and in `frames` and
`interaction`, which always go on. `RenderControl` and `TtyRuntime` end when the program does, so
the check is off there; that they end where they should is what their liveness properties say.
`TerminalScreen` ends at the bound on its steps, `TerminalModes` at the end of the input, and
`MCFunctions` is a choice of arguments.

**Fairness** and why the code has it:

* `OutputPump`: the system schedules the event loop thread (`Drain`, `Handlers`), the reader once it
  holds a chunk, the wait pump, and the clock advances. Not assumed: that the PTY produces, fails or
  ends, that the child exits, that the user acts.
* `PtyIo`: each thread goes on inside its call (`Progress`), which a mutex may keep it from; no
  thread need call. Where two threads compete for a mutex weak fairness is enough, since nothing
  takes one for ever but the wait of the other thread.
* `GuiShutdown`: also the event loop thread between its calls in the teardown, and both pumps. The
  child need not exit, and the wait need not fail.
* `RenderControl`: winit calls `resumed`, `about_to_wait` after the events of an iteration and
  `exiting`; the deadline passes and the timer fires. `Redraw` is strongly fair: a redraw that is
  owed is dispatched in *some* iteration, while other iterations go on, so that it is not enabled all
  the time. `RedrawServed` assumes that the user does not change the mode for ever: each change begins
  a deferred start, and no redraw is requested while one waits for its deadline.
* `Frames`: a frame is drawn again and again, which is what `RenderProgresses` says of the scheduling
  of redraws that `Frames` leaves out, and the blink timer is looked at on every turn of the loop.
* `TtyRuntime`: the main thread, the pump while it can read (not its failures), the flush interval,
  and that a child which closed its terminal can be reaped. Nothing of what processes do.

**The polls of the event loop.** `LoopProgresses` excepts one thing besides a loop that was asked to
end: an event loop that stays for ever inside a poll of the child, behind a wait pump that holds the
child's mutex. The code has three such polls while the loop runs: after a failed read of the PTY
(`gui_runtime_app_handler.rs:46`), after a terminal response and after input of the user that could
not be written (`gui_runtime_terminal_io.rs:347`). With a PTY that has failed under a child that
lives on, the window stops until the child exits. What is checked is that nothing else keeps output
from the screen, and that the loop ends once the child has exited, poll or no poll. No comment or
document of the repository says that the poll does not block, so no run asks for it; the same poll
inside `shutdown` is the next paragraph's.

**What the violation shows.** `shutdown()` polls the child before it closes the PTY unless the exit
is known. After a fatal failure with a live child the poll waits for the child's mutex, which the
wait pump holds until the child exits; the timed joins meant to avoid a hang come later. The run
asks for what the comment on those joins says.

**Known divergences that no run asks about.** They are modelled as they are in the code:

* A GPU failure that is to be retried leaves the backend in place, and the same frame is drawn with
  the CPU, which creates a softbuffer surface beside the live one (`gui_runtime_render.rs:360`; the
  comments at :48 and :374 say that it is not done).
* The resize on the alternate screen that cuts the primary one (see `TerminalScreen`).
* The flush interval of the TTY runtime is looked at only after a read
  (`pty_runtime_output.rs:39`): a prompt that follows a flush within 4 ms waits for more output.
* The flush after the loop of its read pump (`pty_runtime_output.rs:63`) may fail, and nobody is told:
  the end of the output is lost, and the call ends as if it had been shown. `NothingIsLeft` counts it
  as one of the failures it excepts (`broken`).
* A child closes its terminal before it can be reaped; a pump that is seen finished in between makes
  an ordinary exit the loss of the reader of a running child (`pty_runtime.rs:186`, :194).

## 5. The proofs

Every theorem holds for every value of the constants that satisfies the named assumptions
(`PumpConstants`, `PtyConstants`, `GuiThreads`, `BudgetAssumption`, `RecoverableBudgetAssumption`,
`ClipboardAssumption`, `ProgramAssumption`, `TtyAssumption`, `SessionsAssumption`, `SlotsAssumption`,
`FramesAssumption` and the two `ScreenAssumption`s), which TLC evaluates in the runs. They follow one plan: an inductive invariant
(`IInv`, `SearchInv`, `FramesInv`, `Inv`) that was first checked with TLC, a lemma for the start and one per group
of actions that preserves it, then the invariance theorem, from which each property follows.

* **`OutputPump_proofs`**: `QueueIsServed` (with its parts `NoLostWakeup`, `QueueAccounting`,
  `DrainBounded`), `InOrder`, `DrainedExitIsComplete` and `ImplementsStream`. `NoLostWakeup` speaks
  only of a sleeping loop; its strengthening says where the wake-up is at every other place of the
  two threads: a raised flag has its event in flight, or a drain that has yet to look at the channel,
  or one that will post a continuation (`FlagHasWakeUp`), and a chunk in the channel has its flag, or
  a reader about to raise it, or a drain about to look again (`QueueHasFlag`).
  `DrainedExitIsComplete` needs that the reader was done when the flag was read (`Places`). The
  refinement maps `applied` to the delivered prefix; each step of the event loop that applies a
  batch is a `Deliver`, all others stutter, read or end the stream.
* **`GuiShutdown_proofs`**, about `PtyIo`: `LocksHeldByCallers` (mutual exclusion), `ExitIsHonest` (`ExitClosesHandles`,
  `SentinelOnlyWhenLost` and the action property `FinalExitStands`) and `NoOrphan`, for any number of
  threads and calls. The strengthening: a thread inside the state entered it before a final code
  was cached (`InsideBeforeFinal`), codes on their way are true of the process (`CodesAreReal`),
  and a live unsignalled child has a holder or a drop under way (`LiveChildHasOwner`).
* **`GuiShutdown_proofs`**, about itself: `GuiSpec` implements the specification of `PtyIo`, so that the handle's
  invariant holds of it; on top of it `ShutdownSignals` and `OneShell`. The invariant follows the
  close of `shutdown()` through the steps of the call (`CloseUnderWay`, then `ClosedForGood`) while
  the wait pump may take its own between them, and the event loop thread's handle through the phases.
* **`Rendering_proofs`**, about `RenderControl`: `PathsAgree` (`ForcedModeHonoured`, `CpuPathHoldsNoGpu`,
  `GpuPathIsPursued`) and `RedrawIsComing` (`DirtyIsScheduled`, `QueuedRedrawWakes`), for all
  budgets. The strengthening: the last attempt is counted only on the way out (`AttemptsCounted`),
  and a redraw in flight is one the window system owes (`FlightIsOwed`), without which the test of
  `redraw_in_flight` could swallow a request.
* **`Rendering_proofs`**, about `Frames` and `Atlas`: `CpuFrameShowsTerminal` and `GpuFramesAreSound`,
  for any window, history, number of slots, buffers, budgets and number of changes. Four layers. The
  eviction list is a sequence `q` of slots (`Ordered`): linking puts a slot in front of it, unlinking
  leaves one out, and the walks from either end are `q` and its reverse (`WalkIsChain`), which is what
  `IsAtlas` asks. `Whole` adds the two maps, which agree while a slot is free and again once it is
  given away; `GlyphEnsured` says that the glyph asked for is in the slot returned, and that as long
  as `evicted` is not set no slot has changed its glyph (`KeepsGlyphs`). Hence, by induction over the
  rows, what was written to a buffer is still there at the end of the frame (`RowsAreWritten`); and
  buffers that were not replaced keep the rest (`CapacityReconciled`). The invariant `FramesInv` says what
  the damage is good for: outside it the front buffer holds the grid, unless the frame is suspect
  (`Uploaded`), and the last buffer of the CPU holds the live view with the cursor where it was drawn
  last, the one before it outside what was repainted since, too (`CpuKept`).
* **`Program_proofs`**, about `UiSession`: `BudgetBoundsFailures`, `RefusedOnlyWhenStopped`, `StoppingStays`,
  `ShellIsSettled`, for every budget and every order of commands. The controller's methods are
  reduced to five kinds of step first (started, survived, stops, has stopped, unchanged);
  `ShellFollowsState` says when a session has a shell.
* **`Program_proofs`**, about the program: `ProgramSpec` implements `UiSession`'s specification, so that
  `SessionKeepsPolicy` holds of the program; `SettingsHold` by `SettingsInv` (every command leaves
  settings that are consistent, and the modes follow each other through the phases);
  `PasteIsTheLastCopy` by `ClipboardInv`, for any texts and any cap; `FallbackIsEarned` by
  `FallbackInv`, for any budget, window and times: the streak counts the failures since the window
  began (`Counts`), each window in the history is short of twice the budget (`WindowsAreShort`), and a
  path given up has its failures in one window (`IsEarned`).
* **`TtyRuntime_proofs`**: `LoopKeepsPolicy` (`LoopEndsWithVerdict`, `PolicyObeyed`),
  `ResultIsHonest`, `NothingIsLeft` (`ChildNotLeft`, `JoinedPumpShowedAll`), for any number of chunks,
  any budget and any waits. `IInv` has a part for the stream, the handle, the verdict and the session;
  every step of the loop is shown to be of one kind, it goes on with a live session or ends with a
  verdict, and the parts are preserved by the kinds. `LoopEndsWithVerdict` is why the `wait` after the
  loop (`pty_runtime.rs:379`) is dead code.
* **`Interaction_proofs`**: `SearchIsSound`, `ActiveMatchKept`, `SelectionFollowsDrag`, `SizesAgree`
  and `ProgramIsTold`, for any width, history, texts and queries. `SearchInv` (the types, the matches
  are those of the query in the lines, the view is on the lines) is inductive by itself and the
  others are inductive beside it. That `FoundIn` finds columns in ascending order, within the line
  and apart, is an induction over the columns. `ActiveMatchKept` then needs that in an ascending list
  the place of an element is its rank (`PlaceIsRank`): output that rewrites, evicts or renumbers lines
  leaves the active match with as many matches before it as it had, or as the last one left. That it
  stays on its characters while it and those before it stay is a consequence. `ProgramIsTold` and
  `SelectionFollowsDrag` rest
  on what each handler leaves of buttons and selection, one lemma a handler.
* **`TerminalScreen_proofs`**: `ScreenIsInBounds` (with `TypeOK` and
  `OnlyStaleMarginsMoveCursorOut`), `RegionsAreKept` (`PrimaryUntouched`, `MarginsProtectRows`) and
  `PrintKeepsPairs`, for any size, any characters, any counts and any number of steps, every resize
  and reflow included. The invariant is that `term` is in `Terminals(w, h)` for some size: all
  fields typed, a grid of exactly that size, the cursor's column on it, the same of the screen put
  aside. `TypeOK` is not inductive: it says nothing of the cells, of a saved cursor or of the margins
  and the scrollback that are put aside, which all come back. Each operator is shown to keep it and
  one of three relations: `Steady`, with nothing but grid, cursor, scrollback and last character
  changed and the cursor no further out; `Guarded`, with the characters out of the margins kept and
  wide characters whole as well; `Sound`, which is what `ScreenIsInBounds` and `PrimaryUntouched` ask.
  They compose, so that a handler which calls others (NEL, CNL, a print that wraps and scrolls, REP)
  is proved from what those keep. `RegionStale` is an exception in `Steady` because the proof fails
  without it: with margins beyond the screen a line wrap puts the cursor there.
* **`TerminalScreen_proofs`**, about text: `TextIsKept` (`ReflowKeepsText`, `ScrollKeepsText`), for any
  size before and after, any text and any cap of the scrollback. What the characters of a line, of lines
  and of rows are is stated one element at a time (`TextAppended`, `TextsAppended`, `JoinAppended`), so
  that what holds of a text follows by induction over the sequence. On that stand the stages of a
  reflow: the rows joined have the text of the rows (`JoinedText`); trimming the end of a line and the
  blank lines below the cursor drops no character (`KeptText`); a line laid on another width gives rows
  with its text, in order (`LineLaidText`), whose first starts a line and whose others continue it, so
  that joining them gives the line back (`BlockJoined`, `RewrapText`); and the rows pushed out and those
  shown are all of them (`ShownText`). `ReflowText` puts them together, `ResizeText` adds the
  scrollback, which keeps what it stores less the blanks at its end (`RowsStored`). `Keeps` is that
  relation for the handlers: a line feed and a wrap have it, and a character put into the fresh last row
  comes after all others (`PutText`, `PrintText`). "While the scrollback has room" is needed: a full one
  drops its first line.
* **`SequenceLemmas`**: the induction theorems of the library take an operator, which the provers
  cannot instantiate. Here the hypothesis is a set of numbers (`NatSetInduction`,
  `IntervalInduction`), and a recursive function is one that starts at a base and goes on by a
  function of steps (`Iterations`, which `IterationsExist` shows to be there), so that what it
  computes can be proved by giving its steps. `AppendInduction` is the same for sequences: a set that
  holds the empty one and what one more element makes of its members holds all. The loops of the code
  that these proofs are about (the search in a line, REP, the reflow of a line, the text of a line, the
  rows pushed) are written in the modules as recursive functions for that reason.

The type invariants of `OutputPump`, `PtyIo`, `RenderControl`, `UiSession` and `TtyRuntime` and
`LocksHeldByCallers` are theorems that no run repeats: what is proved for every value of the
constants needs no small instance.

Model-checked only:

* `TerminalModes` with `Parser`: `ParserIsUncut`, `PrimaryKeepsModes`, `StatusStringRestoresPen`.
  `Parser` has a recursive operator (a passthrough holds a string of its own), and a module that
  reaches one cannot be proved about.
* `CellPaint`, `Keys`, `GlyphCache` and the readings of commands are functions without steps; `MCFunctions` evaluates
  `CellsArePainted`, `KeysAreSent`, `RequestsAreUnderstood` and `GlyphsAreDrawn` over all their
  bounded arguments.
* Liveness: `LoopProgresses`, `CallsReturn`, `ShutdownReturns`, `RenderProgresses`, `PictureSettles`
  and `TtyReturns`. TLAPS does not reason about fairness and ENABLED.

## 6. What is not modelled

* Observability: one atomic counter of event identities and the logging of records; nothing reads
  them back. Errors and contracts: types and formatting.
* The benchmark and the release scripts, which measure and package the program.
* The window host, which hands values to winit; the inside of winit, wgpu, softbuffer and
  portable-pty, which appear only as what they may answer.
* The generations of a frame schedule (`services/src/frame_cadence`): only tests use them. The
  cadence itself is in `Program`.
* The scrollback's cap in bytes, and characters of width zero, which change a cell in place.
* The wording of replies and of mouse reports; pixels, shaders, rasterization and font metrics; theme
  tables; the parsing of the command line.
* The kernel's buffers of the PTY. A write is a step that ends, so that the deadlock of a large paste
  with a child that waits for its own output to be read (`gui_runtime_terminal_io.rs:541`) cannot
  happen in the models; the code knows nothing of the capacity that decides it.
* A poisoned mutex, as no call panics with one held.
* What a short-lived child should leave behind: one that exits before its reader is taken closes the
  handle, and its output is lost (`pty/mod.rs:240`). The models follow the code; nothing says what
  should happen.

## 7. The plan

1. `PtyFlow`: the buffers between a paste and the child, with a capacity, and the event loop that is
   both the writer and the only reader of what the child answers.
2. The composition of `OutputPump` and `Interaction`: a drain that is cut between two chunks with a
   search open, and the end of the session with a paste under way.
3. Proofs: `Parser` with its strings bounded instead of recursive, and then `PrimaryKeepsModes`; `TextIsKept`
   with a full scrollback, which keeps the last of the text.
4. The scrollback's cap in bytes, which evicts by the width of lines and not by their number.

A type invariant that is proved leaves its run, which makes room for the properties of new modules;
runs over the same module and constants are merged.
