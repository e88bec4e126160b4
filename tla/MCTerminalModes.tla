--------------------------- MODULE MCTerminalModes ---------------------------
(* Inputs of two or three fragments, cut at every place the sizes of the calls allow. *)
EXTENDS TerminalModes

\* Text: one byte a character, and characters of two and three bytes, whole and broken.
Texts == {<<"a", "b">>, <<"lead2", "cont">>, <<"lead3", "cont", "cont">>, <<"lead3", "cont">>, <<"bad">>, <<"cont">>}
Controls == {<<"LF">>, <<"ESC">>, <<"ESC", "[", "1">>, <<"ESC", "]", "2">>, <<"ESC", "P">>, <<"CAN">>, <<"BEL">>,
             <<"ESC", "\\">>}
Private(mode, final) == <<"ESC", "[", "?">> \o mode \o <<final>>
Modes == {Private(m, f) : m \in {<<"6">>, <<"1", "0", "4", "9">>}, f \in {"h", "l"}}
         \cup {Private(<<"1", "0", "0", "0", ";", "7">>, "h"), Private(<<"4", "7", ";", "6">>, "h"),
               <<"ESC", "7">>, <<"ESC", "8">>, <<"ESC", "[", ">", "1", "u">>, <<"ESC", "[", "<", "u">>}
Pens  == {<<"ESC", "[", "1", ";", "4", ":", "3", "m">>, <<"ESC", "[", "3", "8", ";", "5", ";", "9", "m">>,
          <<"ESC", "[", "5", "8", ":", "2", ":", ":", "1", ":", "2", ":", "3", "m">>}
Strings == {<<"ESC", "]", "2", ";", "a", "BEL">>, <<"ESC", "]", "4", ";", "1", ";", "#", "f", "0", "f", "ESC", "\\">>,
            <<"ESC", "P", "t", "m", "u", "x", ";", "ESC", "ESC", "[", "?", "6", "h", "ESC", "\\">>,
            <<"ESC", "P", "$", "q", "m", "ESC", "\\">>, <<"ESC", "]", "2", ";", "a", "a", "a", "a", "a", "a", "a", "a", "a", "BEL">>,
            <<"ESC", "[", "1", "2", "3", "4", "5", "6", "7", "8", "9", "1", "2", "m">>}
Fragments == Texts \cup Controls \cup Modes \cup Pens \cup Strings

MCInputs == {f \o g : f, g \in Fragments} \cup {f \o g \o h : f, g, h \in Modes \cup Pens}
=============================================================================
