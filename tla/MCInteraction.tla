---------------------------- MODULE MCInteraction -----------------------------
(***************************************************************************)
(* Three sessions, each with many choices of one kind and few of the       *)
(* others: a search, a drag and the reports of the buttons.                *)
(***************************************************************************)
EXTENDS Interaction

MouseModes(mouse, format, alternateScroll, bracketedPaste) ==
  [mouse |-> mouse, format |-> format, alternateScroll |-> alternateScroll,
   bracketedPaste |-> bracketedPaste]
Off == MouseModes("Off", "Sgr", FALSE, FALSE)
OffScroll == MouseModes("Off", "Sgr", TRUE, TRUE)
X10 == MouseModes("X10", "Normal", FALSE, FALSE)
Normal == MouseModes("Basic", "Normal", FALSE, FALSE)
Sgr == MouseModes("ButtonTrack", "Sgr", FALSE, TRUE)
AnyMotion == MouseModes("AnyEvent", "Sgr", FALSE, FALSE)

Searching == [rows |-> 2, sizes |-> {1, 2}, texts |-> {<<>>, <<"a", "a">>},
              modes |-> {Off}, cells |-> {<<0, 0>>}, buttons |-> {0}, chars |-> {"a", "["},
              overlays |-> {"search", "notice"}, fails |-> {}]
Dragging == [rows |-> 1, sizes |-> {1}, texts |-> {<<"a", "a">>},
             modes |-> {Off, OffScroll, AnyMotion}, cells |-> {<<0, 0>>, <<0, 1>>}, buttons |-> {0},
             chars |-> {}, overlays |-> {"search", "palette"}, fails |-> {}]
Reported == [rows |-> 1, sizes |-> {1, 2}, texts |-> {},
             modes |-> {Off, X10, Normal, Sgr}, cells |-> {<<0, 0>>},
             buttons |-> {0, 2}, chars |-> {}, overlays |-> {}, fails |-> {FALSE}]

MCSessions == {Searching, Dragging, Reported}
MCNotice == <<"a">>
=============================================================================
