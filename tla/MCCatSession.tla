----------------------------- MODULE MCCatSession ------------------------------
(* The values of CatSession's runs: commands of up to four characters.  A       *)
(* client sends queries, a control and a command that the radio does not know, *)
(* commands that are too short or too long, and six characters without an end.  *)
EXTENDS CatSession

MCLetters == {"F", "A", "M", "D", "I", "X"}
MCJunk    == <<"X", "X", "X", "X", "X", "X">>
MCSet     == <<"M", "D", "X", ";">>
MCControls == {MCSet}
MCPieces  ==
  { <<"M", "D", ";">>, <<"I", "F", ";">>, MCSet, <<"X", "X", ";">>, <<"F", ";">>,
    <<"F", "A", "X", "X", ";">>, MCJunk }
================================================================================
