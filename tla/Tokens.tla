------------------------------- MODULE Tokens -------------------------------
(***************************************************************************)
(* The tokenizers of internal/pkg/utils/preprocessing.  A text is a        *)
(* sequence of characters, of which a few kinds matter; a token is a text. *)
(***************************************************************************)
EXTENDS Integers, SequencesExt

CONSTANTS StopWords,      \* tokens that are left out
          Excluded,       \* characters whose words TokenizerDefault leaves out
          LongestToken    \* the 16 bytes of TokenizeAscii

ASSUME TokensAssumption == LongestToken \in Nat

\* An ASCII letter, small and capital; one that is neither letter nor separator;
\* a space; the byte order mark; the letter whose number is the first byte of
\* wideComma; the letter 255; a character above 255, and a separator there.
\* blank and star are what CombineToken and the chains write themselves.
Characters == {"a", "A", "1", "space", "bom", "latin", "y255", "wide", "wideComma"}

Wide(c)   == c \in {"wide", "wideComma", "bom"}
Letter(c) == c \in {"a", "A", "latin"}        \* a letter below 255
Small(c)  == IF c = "A" THEN "a" ELSE c

\* Bytes of a token.
Bytes(token) ==
    LET bytes[i \in 0..Len(token)] ==
            IF i = 0 THEN 0
            ELSE bytes[i - 1] + CASE token[i] \in {"latin", "y255"} -> 2
                                  [] Wide(token[i]) -> 3
                                  [] OTHER -> 1
    IN  bytes[Len(token)]

\* A sequence without some of its elements.
Drop(seq, values) ==
    LET left[i \in 0..Len(seq)] ==
            IF i = 0 THEN <<>>
            ELSE IF seq[i] \in values THEN left[i - 1] ELSE Append(left[i - 1], seq[i])
    IN  left[Len(seq)]

\* The pieces of a text, one character after the other: each begins a piece at a
\* cut, or goes to the end of the last piece; a mark is left out of the piece it begins.
Pieces(text, marks, cuts) ==
    LET pieces[i \in 0..Len(text)] ==
            IF i = 0 THEN << <<>> >>
            ELSE IF text[i] \in marks THEN Append(pieces[i - 1], <<>>)
            ELSE IF i \in cuts THEN Append(pieces[i - 1], <<text[i]>>)
            ELSE [pieces[i - 1] EXCEPT ![Len(pieces[i - 1])] = Append(@, text[i])]
    IN  pieces[Len(text)]

\* strings.TrimRight.
TrimRight(text, mark) ==
    LET last == {0} \cup {i \in DOMAIN text : text[i] # mark}
    IN  SubSeq(text, 1, CHOOSE i \in last : \A j \in last : j <= i)

NoStopWords(tokens) == Drop(tokens, StopWords)
-----------------------------------------------------------------------------
(* TokenizerBasic. *)

\* NewTokenizerBasic keys a separator by its first byte: that of the wide comma
\* is the number of another character.
FirstByte == [space |-> "space", wideComma |-> "latin"]
Separators == {FirstByte[s] : s \in {"space", "wideComma"}}

\* Faulty: the text after the last wide character is not cut off.
CutsForgotten(text) == {i \in 2..Len(text) : text[i] \in Separators \/ Wide(text[i])}

\* Where the text is cut: before a separator, around a wide character.
Cuts(text) == {i \in 2..Len(text) : text[i] \in Separators \/ Wide(text[i]) \/ Wide(text[i - 1])}

BasicCut(src) ==
    LET text == Drop(src, {"bom"})
    IN  Drop(Pieces(text, Separators, Cuts(text)), {<<>>})
-----------------------------------------------------------------------------
(* TokenizerChain. *)

\* Where n elements in a row begin.
Places(s, n) == {i \in DOMAIN s : i + n - 1 <= Len(s)}

NGrams(s, n) == [i \in Places(s, n) |-> SubSeq(s, i, i + n - 1)]

\* getMultibyte: runs of wide characters, the characters between them ignored.
\* Nothing joined and split is one empty token.
Multibyte(text, use) ==
    LET wide   == Drop(text, {c \in Characters : ~Wide(c)})
        chains == [i \in Places(wide, 3) |-> <<wide[i], "star", wide[i + 2]>>]
        tokens == (IF use.unitary THEN NGrams(wide, 1) ELSE <<>>)
                  \o (IF use.binary THEN NGrams(wide, 2) ELSE <<>>)
                  \o (IF use.ternary THEN NGrams(wide, 3) ELSE <<>>)
                  \o (IF use.ternary /\ use.fuzzy THEN chains ELSE <<>>)
    IN  IF tokens = <<>> THEN <<<<>>>> ELSE tokens

\* Faulty: what is no letter is left out instead.
AsciiWordsMerged(text) == <<SelectSeq([i \in DOMAIN text |-> Small(text[i])], Letter)>>

\* The words of TokenizeAscii: what is no letter separates two of them, and two
\* separators in a row have an empty word between them.
AsciiWords(text) ==
    Pieces(TrimRight([i \in DOMAIN text |-> IF Letter(text[i]) THEN Small(text[i]) ELSE "bar"],
                     "bar"), {"bar"}, {})

\* Words joined by blanks, if those that the code looks at are long enough.
Joined(words, n) ==
    LET Long(i) == \A j \in i..i + n - 1 : Bytes(words[j]) > 1
        tokens  == [i \in Places(words, n) |->
                       IF Long(i) THEN FlattenSeq([j \in 1..2 * n - 1 |->
                                           IF j % 2 = 0 THEN <<"blank">> ELSE words[i + j \div 2]])
                                  ELSE <<>>]
    IN  Drop(tokens, {<<>>})

\* The chain asks for the length of the word it leaves out, not of the last.
AsciiChains(words) ==
    Drop([i \in Places(words, 3) |->
             IF Bytes(words[i]) > 1 /\ Bytes(words[i + 1]) > 1
             THEN words[i] \o <<"blank", "star", "blank">> \o words[i + 2] ELSE <<>>], {<<>>})

TokenizeAscii(text, use) ==
    LET words == AsciiWords(text)
        single == Drop(NoStopWords(words), {w \in Range(words) : Bytes(w) \notin 2..LongestToken})
    IN  (IF use.unitary THEN single ELSE <<>>)
        \o (IF use.binary THEN Joined(words, 2) ELSE <<>>)
        \o (IF use.ternary THEN Joined(words, 3) ELSE <<>>)
        \o (IF use.ternary /\ use.fuzzy THEN AsciiChains(words) ELSE <<>>)

ChainCut(text, use) ==
    LET ascii == TokenizeAscii(text, use)
    IN  Drop(ascii, {t \in Range(ascii) : Bytes(t) <= 1})
        \o Drop(NoStopWords(Multibyte(text, use)), {<<>>})
-----------------------------------------------------------------------------
(* TokenizerDefault. *)

\* Faulty: the last word starts no window.
CombineTokenShort(src, step, chain) ==
    [i \in Places(src, step) |->
        FlattenSeq([j \in 1..2 * step - 1 |-> IF j % 2 = 0 THEN <<"blank">> ELSE src[i + j \div 2]])]

\* Windows of step words, the one from the last word but one on cut short and
\* ended by a blank; nothing joined and split is one empty token.
CombineToken(src, step, chain) ==
    LET Word(i, j) == IF step > 2 /\ chain /\ j # 0 /\ j # step - 1 THEN <<"star">> ELSE src[i + j]
        Part(i, j) == Word(i, j) \o (IF j + 1 < step THEN <<"blank">> ELSE <<>>)
        End(i)     == IF i + step - 1 <= Len(src) THEN step ELSE Len(src) - i + 1
    IN  IF Len(src) < 2 THEN <<<<>>>>
        ELSE [i \in 1..Len(src) - 1 |-> FlattenSeq([j \in 1..End(i) |-> Part(i, j - 1)])]

\* The segmenter (external): wide characters and runs of others, apart from spaces.
Segments(text) ==
    Pieces(text, {"space"}, {i \in 2..Len(text) : Wide(text[i]) \/ Wide(text[i - 1])})

\* The segments that count: trimmed, not empty, beginning with an ASCII letter or
\* a character that is not below 255, without an excluded character.
Words(text) ==
    LET segments == Segments(Drop(text, {"bom"}))
    IN  Drop(segments, {s \in Range(segments) : \/ s = <<>>
                                               \/ s[1] \in {"1", "latin", "space"}
                                               \/ Range(s) \cap Excluded # {}})

DefaultCut(text, use) ==
    LET data == Words(text)
    IN  NoStopWords((IF use.binary THEN CombineToken(data, 2, use.fuzzy) ELSE <<>>)
                    \o (IF use.ternary THEN CombineToken(data, 3, use.fuzzy) ELSE <<>>)
                    \o (IF use.unitary THEN data ELSE <<>>))
=============================================================================
