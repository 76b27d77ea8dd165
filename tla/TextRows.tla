------------------------------- MODULE TextRows ------------------------------
(***************************************************************************)
(* What the tables of texts promise together, whatever writers, cascades   *)
(* and cleanups do: a slot, which is a file in a layer, has metadata or    *)
(* not, and shows no lines or the lines of one whole text. A text is never *)
(* changed in place: it has to go before another one is shown.             *)
(***************************************************************************)
CONSTANTS Slots,
          Texts,      \* the texts that are written: sequences of lines
          Together    \* the sets of slots that one statement deletes

VARIABLES present,    \* slots with a row of text_file_metadata
          shown       \* the lines that the line map of a slot leads to

rowsVars == <<present, shown>>

RowsInit ==
    /\ present = {}
    /\ shown = [s \in Slots |-> <<>>]

\* create_metadata, for a slot that has none
AddMeta(s) ==
    /\ s \notin present
    /\ present' = present \cup {s}
    /\ UNCHANGED shown

\* create_line_mappings, all lines at once and over nothing older
ShowText(s, t) ==
    /\ s \in present
    /\ shown[s] = <<>>
    /\ t # <<>>
    /\ shown' = [shown EXCEPT ![s] = t]
    /\ UNCHANGED present

\* write_text_file deletes the lines of what it overwrites.
HideText(s) ==
    /\ shown' = [shown EXCEPT ![s] = <<>>]
    /\ UNCHANGED present

\* Metadata is deleted alone, or with its file or its layer; the lines go with it.
RemoveMeta(S) ==
    /\ present' = present \ S
    /\ shown' = [s \in Slots |-> IF s \in S THEN <<>> ELSE shown[s]]

RowsNext ==
    \/ \E s \in Slots :
        \/ HideText(s)
        \/ AddMeta(s)
        \/ \E t \in Texts : ShowText(s, t)
    \/ \E S \in Together : RemoveMeta(S)

RowsSpec == RowsInit /\ [][RowsNext]_rowsVars
==============================================================================
