---------------------------- MODULE MCFileStore ------------------------------
(* Small contents for FileStore: an empty text (a truncated file), an LF    *)
(* and a CRLF text, and a binary of two blocks. The passing run takes two   *)
(* texts with nothing in common, so that a stale one is told from a fresh   *)
(* one; the empty text is for the runs on what follows a truncation.        *)
EXTENDS FileStore, TLC

EmptyText == [lines |-> <<>>, eol |-> "LF", trailing |-> FALSE]
LfText == [lines |-> <<"x", "y">>, eol |-> "LF", trailing |-> TRUE]
CrlfText == [lines |-> <<"z">>, eol |-> "CRLF", trailing |-> FALSE]
TwoBlocks == [chunks |-> <<"q", "r">>]

EmptyAndLf == {EmptyText, LfText}
LfAndCrlf == {LfText, CrlfText}
SomeBinaries == {TwoBlocks}
Interchangeable == Permutations(Writers)
==============================================================================
