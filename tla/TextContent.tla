----------------------------- MODULE TextContent -----------------------------
(***************************************************************************)
(* What becomes of the bytes of a file: the detection of texts             *)
(* (src/layer/detection.rs), how a text is cut into stored lines and a     *)
(* binary into blocks, and how they are put together again on reading      *)
(* (src/layer/cow.rs, src/fs/operations.rs).                               *)
(*                                                                         *)
(* Clients write whole files, and copy what they read into new ones. Each  *)
(* write is to a file without older rows; FileStore is about the others.   *)
(***************************************************************************)
EXTENDS Integers, Sequences, FiniteSets, SequencesExt, FiniteSetsExt

CONSTANTS WordSize,          \* bytes of the token "word"
          MaxTextFileSize,   \* DetectionConfig
          MaxLineLength,
          BlockSize,         \* tokens in a block of a binary file
          MaxTokens          \* bound: tokens in a file

ASSUME ContentAssumption ==
    {WordSize, MaxTextFileSize, MaxLineLength, BlockSize, MaxTokens} \subseteq Nat \ {0}

\* A word is printable ASCII, "CTL" a control character. "LEAD" and "CONT" are
\* the bytes of a two-byte UTF-8 character, invalid alone; the second is one of
\* A0 to BF, which Latin-1 prints. "REPL" is the replacement character. A byte
\* order mark is a character like others here: it is skipped for the detection
\* and stored.
Tokens == {"word", "LF", "CR", "NUL", "CTL", "LEAD", "CONT", "REPL"}

VARIABLES written,   \* the bytes of the last write
          storedAs   \* the rows they were stored as

contentVars == <<written, storedAs>>

Total(s, Size(_)) == FoldLeft(LAMBDA n, t : n + Size(t), 0, s)
Count(s, S) == Len(SelectSeq(s, LAMBDA t : t \in S))

-----------------------------------------------------------------------------
(* FileTypeDetector                                                        *)

Bytes(t) == CASE t = "word" -> WordSize [] t = "REPL" -> 3 [] OTHER -> 1

\* The bytes of Latin-1 that are not ASCII take two in the decoded string.
Latin1Bytes(t) == IF t \in {"LEAD", "CONT", "REPL"} THEN 2 * Bytes(t) ELSE Bytes(t)

\* Half of a two-byte character without the other half
Alone(s, i) ==
    \/ s[i] = "LEAD" /\ ~(i < Len(s) /\ s[i + 1] = "CONT")
    \/ s[i] = "CONT" /\ ~(i > 1 /\ s[i - 1] = "LEAD")

Utf8(s) == \A i \in DOMAIN s : ~Alone(s, i)

\* detect_encoding: what is not UTF-8 passes for Latin-1 when more than nine
\* tenths of the decoded string are printable.
Decodes(s) ==
    Utf8(s) \/ 10 * (Total(s, Bytes) - Count(s, {"CTL"})) > 9 * Total(s, Latin1Bytes)

\* count_non_printable: at most 5 percent
PrintableEnough(s) == 100 * Count(s, {"CTL"}) <= 5 * Total(s, Bytes)

\* analyze_lines: LF, CRLF and CR alone end a line; the longest one counts.
LongestLine(s) ==
    LET size(t) == IF Utf8(s) THEN Bytes(t) ELSE Latin1Bytes(t)
        Span(w) == SubSeq(s, w[1], w[2])
    IN  Max({Total(Span(w), size) : w \in
                {v \in (1..Len(s) + 1) \X (0..Len(s)) : Count(Span(v), {"LF", "CR"}) = 0}})

\* detect
DetectText(s) ==
    \/ s = <<>>
    \/ /\ Total(s, Bytes) <= MaxTextFileSize
       /\ "NUL" \notin Range(s)
       /\ Decodes(s)
       /\ PrintableEnough(s)
       /\ LongestLine(s) <= MaxLineLength

-----------------------------------------------------------------------------
(* Storing and reading                                                     *)

LossyByteByByte(s) == [i \in DOMAIN s |-> IF s[i] \in {"LEAD", "CONT"} THEN "REPL" ELSE s[i]]

\* String::from_utf8_lossy, for a text that passed as Latin-1 too
Lossy(s) == [i \in DOMAIN s |-> IF Alone(s, i) THEN "REPL" ELSE s[i]]

\* str::lines: LF ends a line, with the CR before it; a CR elsewhere does not,
\* and there is no empty line after the last LF.
WithoutCr(line) == IF line # <<>> /\ Last(line) = "CR" THEN Front(line) ELSE line

ScanToken(sofar, t) ==
    IF t = "LF" THEN [done |-> Append(sofar.done, WithoutCr(sofar.open)), open |-> <<>>]
    ELSE [done |-> sofar.done, open |-> Append(sofar.open, t)]

Scan(s) ==
    LET scanned[n \in 0..Len(s)] ==
            IF n = 0 THEN [done |-> <<>>, open |-> <<>>]
            ELSE ScanToken(scanned[n - 1], s[n])
    IN  scanned[Len(s)]

LinesBySplit(s) == Append(Scan(s).done, Scan(s).open)

LinesOf(s) ==
    LET end == Scan(s)
    IN  IF end.open = <<>> THEN end.done ELSE Append(end.done, end.open)

\* write_binary_file
Chunks(s) ==
    [k \in 1..((Len(s) + BlockSize - 1) \div BlockSize) |->
        SubSeq(s, (k - 1) * BlockSize + 1, Min({k * BlockSize, Len(s)}))]

\* write_file: the rows of the content
Store(s) ==
    IF DetectText(s)
    THEN [kind |-> "text", parts |-> LinesOf(Lossy(s)),
          trailing |-> s # <<>> /\ Last(s) = "LF"]
    ELSE [kind |-> "binary", parts |-> Chunks(s), trailing |-> FALSE]

\* The parts one after the other, with a separator between two of them
Join(parts, sep) ==
    LET joined[k \in 0..Len(parts)] ==
            IF k = 0 THEN <<>>
            ELSE joined[k - 1] \o (IF k = 1 THEN <<>> ELSE sep) \o parts[k]
    IN  joined[Len(parts)]

\* read_text_file: the style of line ending is stored in capitals and looked for
\* in small letters, so that it is always LF; an empty result gets none.
JoinLines(parts, trailing) ==
    LET joined == Join(parts, <<"LF">>)
    IN  IF trailing /\ joined # <<>> THEN Append(joined, "LF") ELSE joined

\* read_file
ReadFile(rows) ==
    IF rows.kind = "text" THEN JoinLines(rows.parts, rows.trailing)
    ELSE Join(rows.parts, <<>>)

ContentInit == written = <<>> /\ storedAs = Store(<<>>)

WriteFile(s) == written' = s /\ storedAs' = Store(s)

\* A longer content, and a copy of the file
Extend(t) == Len(written) < MaxTokens /\ WriteFile(Append(written, t))
Copy == WriteFile(ReadFile(storedAs))

ContentNext == (\E t \in Tokens : Extend(t)) \/ Copy

ContentSpec == ContentInit /\ [][ContentNext]_contentVars

-----------------------------------------------------------------------------
(* Properties                                                              *)

Occurs(pattern, s) == \E i \in DOMAIN s : IsPrefix(pattern, SubSeq(s, i, Len(s)))

\* What is stored in blocks, and valid UTF-8 other than a lone newline. A CRLF is
\* left out: its CR is taken away with the line and not put back on reading.
Lossless(s) ==
    DetectText(s) => Utf8(s) /\ ~Occurs(<<"CR", "LF">>, s) /\ s # <<"LF">>

\* Whatever the detection takes for text, and wherever lines, limits and blocks
\* end, such a content reads back exactly as it was written.
ReadsBack == Lossless(written) => ReadFile(storedAs) = written

\* What has been read once is not changed by reading it again: a copy of a copy
\* is like the copy, unless a CR stands before a CRLF, of which each copy takes
\* one character away.
CopyStable ==
    ~Occurs(<<"CR", "CR", "LF">>, written)
        => ReadFile(Store(ReadFile(storedAs))) = ReadFile(storedAs)
==============================================================================
