------------------------------- MODULE MCProgram -------------------------------
(* The program with the budgets of the code.  The inputs of the palette are *)
(* the commands of the fields that depend on each other, and one that is    *)
(* rejected.                                                                *)
EXTENDS Program

MCTexts ==
  {[by |-> author, length |-> text[1], width |-> text[2]] :
     author \in {"program", "others"}, text \in {<<1, 1>>, <<4, 2>>}}

MCInputs == {<<"mode", "cpu">>, <<"shell", "zsh">>, <<"shell", "fish">>,
             <<"shell", "auto-init", "on">>, <<"shell", "auto-init", "off">>, <<"debug", "on">>, <<"debug">>}
=============================================================================
