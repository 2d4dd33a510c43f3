------------------------------ MODULE MCTerminal -----------------------------
(* The user interface on a small screen, and the serial console's input.   *)
EXTENDS Ui, SerialInput

VARIABLE part   \* which of the two a behaviour is about
vars == <<part, uiVars, lineVars>>

MCEntries ==
  "menu" :> <<[type |-> "menu", label |-> <<"1">>], [type |-> "menu", label |-> <<"2">>]>>
  @@ "config" :> <<[type |-> "checkbox", label |-> <<"k">>], [type |-> "textbox", label |-> <<"t">>],
                   [type |-> "label", label |-> <<>>], [type |-> "label", label |-> <<"section">>],
                   [type |-> "chooser", label |-> <<"v">>]>>
  @@ "choices" :> <<[type |-> "choice", label |-> <<"lo">>], [type |-> "choice", label |-> <<"h", "i", "g", "h", "!">>]>>
MCBoxValues == {<<"a">>, [i \in 1 .. 7 |-> "a"]}
(* A full circular buffer: a line that wraps around its end, an empty one, *)
(* one of just the width and a longer one.                                 *)
MCLog ==
  [buf |-> 0 :> "z" @@ 1 :> "\n" @@ 2 :> "\n" @@ [i \in 3 .. 10 |-> "p"] @@ 11 :> "\n" @@ [i \in 12 .. 21 |-> "q"]
           @@ 22 :> "\n" @@ 23 :> "y",
   start |-> 23, length |-> 24]
MCTypedKeys == {"up", "F9", "delete", "escape", "enter", "a"}

Init == part \in {"ui", "line"} /\ UiInit /\ LineInit
UiStep == part = "ui" /\ UiNext /\ UNCHANGED <<part, lineVars>>
LineStep == part = "line" /\ LineNext /\ UNCHANGED <<part, uiVars>>
Spec == Init /\ [][LineStep \/ UiStep]_vars /\ LineFairness
=============================================================================
