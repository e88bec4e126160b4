-------------------------- MODULE MCTerminalScreen --------------------------
(* The screen on a few rows and columns, with a bound on each kind of step. *)
EXTENDS TerminalScreen

CONSTANTS MaxPrint, MaxLine, MaxMode, MaxSwitch, MaxResize, MaxOther

MCStartSize == <<2, 2>>
MCSizes == {<<1, 2>>, <<3, 1>>, <<2, 1>>, <<3, 3>>, <<0, 2>>}
MCMargins == {<<0, 0>>, <<1, 1>>, <<1, 0>>}
MCLimit == [kind \in Kinds |->
              CASE kind = "print"  -> MaxPrint
                [] kind = "line"   -> MaxLine
                [] kind = "mode"   -> MaxMode
                [] kind \in {"save", "switch"} -> MaxSwitch
                [] kind = "resize" -> MaxResize
                [] OTHER -> MaxOther]
=============================================================================
