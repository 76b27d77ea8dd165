---------------------------- MODULE MCTextBlocks -----------------------------
(* Texts that share lines, with a line that occurs twice, and no lines.     *)
(*                                                                          *)
(* Beside them contents of up to MaxTokens tokens. A word has 20 bytes, so  *)
(* that one more byte is less than 5 percent and two are more; two words    *)
(* make a line too long, and three lines with a word each a file too large. *)
EXTENDS TextBlocks, TextContent, TLC

SharedLines == {<<>>, <<"x", "x">>, <<"x", "y">>}
Interchangeable == Permutations(Writers) \cup Permutations(Slots)

\* The modules share no state, and every property is about one of them: it is
\* enough that each moves while the other is as it was at first.
BothInit == Init /\ ContentInit

BothNext ==
    \/ Next /\ ContentInit /\ UNCHANGED contentVars
    \/ ContentNext /\ Init /\ UNCHANGED vars

BothSpec == BothInit /\ [][BothNext]_<<vars, contentVars>>
==============================================================================
