----------------------------- MODULE Algorithms -----------------------------
(***************************************************************************)
(* The pure parts of the program, on inputs that grow: a clock that the    *)
(* keys of the metrics are made at, a text that the tokenizers cut, and    *)
(* the body of a mail that html2text reads.                                *)
(***************************************************************************)
EXTENDS MetricKey, Tokens, HtmlText

CONSTANTS Clocks,        \* [unit, interval, zone, now, until, tick]: stretches of time
          Alphabet,      \* the characters of texts, some of Characters
          MaxText,       \* bound on the length of a text
          MaxElements    \* bound on the elements of a document

ASSUME AlgorithmsAssumption == Alphabet \subseteq Characters /\ MaxElements \in Nat

\* Stretches of time, in steps of some minutes, with any interval, in a zone that
\* is less than a day off.
Zones == {z \in [offset : Int, shift : Int, at : Nat] :
             -1440 <= z.offset /\ z.offset <= 1440 /\ -1440 <= z.shift /\ z.shift <= 1440}
Stretches == [unit : Units, interval : Nat \ {0}, zone : Zones, now : Nat, until : Nat,
              tick : Nat \ {0}]
ASSUME ClocksAssumption == Clocks \subseteq Stretches

VARIABLE input

InputInit ==
    \/ input \in Clocks
    \/ input = [text |-> <<>>]
    \/ input = [doc |-> <<>>]

Of(kind) == kind \in DOMAIN input

\* Time goes on.
Tick == Of("now") /\ input.now < input.until /\ input' = [input EXCEPT !.now = @ + input.tick]

\* One more character.
Type(c) == Of("text") /\ Len(input.text) < MaxText /\ input' = [text |-> Append(input.text, c)]

\* The elements n is written in, itself among them.
WrittenAround(doc, n) ==
    LET in[m \in 0..Len(doc)] == IF m = 0 THEN {} ELSE {m} \cup in[doc[m].parent]
    IN  in[n]

\* One more element, in one that is not at its end yet.  A heading that is going
\* to stay open is in a block: the parser closes one at the end of that.
Add(e) ==
    LET doc == input.doc IN
    /\ Of("doc") /\ Len(doc) < MaxElements
    /\ e.parent \in {0} \cup (IF doc = <<>> THEN {} ELSE WrittenAround(doc, Len(doc)))
    /\ \A m \in {e.parent} \ {0} : doc[m].tag # "script" /\ (Open(e) => doc[m].tag = "div")
    /\ input' = [doc |-> Append(doc, e)]

NewElements == [parent : 0..MaxElements, tag : Tags, style : Styles, attr : Attributes]

InputNext == Tick \/ (\E c \in Alphabet : Type(c)) \/ (\E e \in NewElements : Add(e))

InputSpec == InputInit /\ [][InputNext]_input
-----------------------------------------------------------------------------
(* The keys of the metrics. *)

Key(t) == MakeFilterMetricKey(input.unit, input.interval, t, input.zone)

\* Where the windows follow one another.  Minutes: the interval divides the hour,
\* and the clock is never set back, nor forward by part of an hour.  Hours: the
\* interval is one and the clock is set back by an hour at most, or it divides the
\* day and the zone is whole hours off for ever.  Longer units: the interval is one.
Even(unit, interval, zone) ==
    CASE unit = "minute" -> 60 % interval = 0 /\ zone.shift >= 0 /\ zone.shift % 60 = 0
      [] unit = "hour"   -> \/ interval = 1 /\ zone.shift >= -60
                            \/ 24 % interval = 0 /\ zone.shift = 0 /\ zone.offset % 60 = 0
      [] OTHER           -> interval = 1 \/ unit = "unknown"

\* Whatever the interval: two minutes of one hour, and two times of one day in a
\* zone that is whole hours off.
TogetherIn(unit, zone, t, u) ==
    /\ zone.shift = 0
    /\ \/ unit = "minute" /\ Local(zone, t) \div 60 = Local(zone, u) \div 60
       \/ unit = "hour" /\ zone.offset % 60 = 0 /\ LocalDay(zone, t) = LocalDay(zone, u)

\* A later time has the same key or a later one, so that no count is taken up
\* again that was left for that of the next window: for an even interval, and for
\* any other within the hour of the minutes and the day of the hours.  Elsewhere
\* keys do go back, and nothing in the code keeps an interval from it: of 7
\* minutes where the hour ends, 5 hours where the day ends, 3 hours in a zone that
\* is nine hours and a half off, 2 days or 3 weeks in America, 2 months or years
\* anywhere, and minutes where daylight saving ends.
KeysNeverGoBack ==
    Of("now") =>
        LET next == input.now + input.tick IN
        \/ Even(input.unit, input.interval, input.zone)
        \/ TogetherIn(input.unit, input.zone, input.now, next)
        => Key(input.now) <= Key(next)

\* The timeout of a counter outlives its window, for an even interval and a clock
\* that is not set back: a window is over before the counter that was made at its
\* beginning expires.  Months have 31 days and years 366 at times, which the
\* timeout does not know, and an unknown unit has one key for ever: these are left
\* out.  Where daylight saving ends one hour of the clock lasts two, and a counter
\* of an hour expires inside it; and many intervals that are not even have windows
\* that are longer than the timeout.
WindowFitsTimeout ==
    /\ Of("now")
    /\ input.unit \in {"minute", "hour", "day", "week"} /\ input.zone.shift >= 0
    /\ Even(input.unit, input.interval, input.zone)
    => Key(input.now + MakeFilterMetricTimeout(input.unit, input.interval)) # Key(input.now)
-----------------------------------------------------------------------------
(* The tokenizers. *)

Uses == [unitary : BOOLEAN, binary : BOOLEAN, ternary : BOOLEAN, fuzzy : BOOLEAN]

\* TokenizerBasic neither loses nor invents a character, apart from separators
\* and byte order marks, and a wide character is a token of its own.
BasicCutIsExact ==
    Of("text") =>
        /\ FlattenSeq(BasicCut(input.text)) = Drop(input.text, Separators \cup {"bom"})
        /\ \A t \in Range(BasicCut(input.text)) : (\E c \in Range(t) : Wide(c)) => Len(t) = 1

\* A token of whole words of the text, with the one character that is no letter
\* between two of them.
InText(token, text) ==
    \E i \in DOMAIN text : LET j == i + Len(token) - 1 IN
        /\ j \in DOMAIN text
        /\ \A k \in DOMAIN token : IF token[k] = "blank" THEN ~Letter(text[i + k - 1])
                                   ELSE Small(text[i + k - 1]) = token[k]
        /\ (i = 1 \/ ~Letter(text[i - 1])) /\ (j = Len(text) \/ ~Letter(text[j + 1]))

\* Part of TokensTellTheText: what TokenizerChain makes of the letters without
\* chains is whole words that stand next to each other in the text, and no wide
\* character gets lost on the way but a stop word.  Words of letters may be left
\* out: which ones is not looked at.
ChainTellsWords ==
    Of("text") =>
        \A use \in Uses :
            /\ ~use.fuzzy => \A t \in Range(TokenizeAscii(input.text, use)) : InText(t, input.text)
            /\ use.unitary => \A c \in Range(input.text) :
                  Wide(c) /\ <<c>> \notin StopWords => <<c>> \in Range(ChainCut(input.text, use))

\* Part of TokensTellTheText: TokenizerDefault combines every word with the one
\* after it, in windows of two and of three, apart from stop words, and makes an
\* empty token only of a text of fewer than two words.
CombinesWords ==
    Of("text") =>
        \A use \in Uses : LET words == Words(input.text)
                              tokens == Range(DefaultCut(input.text, use)) IN
            /\ use.binary \/ (use.ternary /\ ~use.fuzzy) =>
                  \A i \in 1..Len(words) - 1 :
                      LET pair == words[i] \o <<"blank">> \o words[i + 1] IN
                      \E t \in tokens \cup StopWords : IsPrefix(pair, t)
            /\ <<>> \in tokens => Len(words) < 2

\* The tokens a text is learned and judged by are words of it that stand next to
\* each other there: the whole words of TokenizerChain, which keeps every wide
\* character but stop words, and the overlapping windows of TokenizerDefault, which
\* loses no pair of neighbours but stop words.  Fuzzy tokens are left out, and what
\* separates words is what the code takes for separators, by their first byte.
TokensTellTheText == ChainTellsWords /\ CombinesWords
-----------------------------------------------------------------------------
(* The body of a mail. *)

\* A reader sees what is in the element, as far as that goes.
Shows(e) == e.tag # "script" /\ e.style \in {"plain", "fraction"}

\* The code removes what shows: sizes that begin with 0, elements it does not know,
\* headings with attributes, and what is written after one of these in the same
\* element.
Lost(doc, n) ==
    \/ doc[n].style = "fraction" \/ doc[n].tag = "unknown" \/ Open(doc[n])
    \/ \E h \in 1..n - 1 : doc[h].parent = doc[n].parent /\ Open(doc[h])

\* The code leaves what does not show: display:none with !important after it, other
\* than in the one spelling and the two elements that it looks for.
Kept(e) == /\ e.tag # "script"
           /\ e.style = "blank" \/ (e.style = "important" /\ e.tag \notin {"span", "div"})

\* The text that Parse hands to the tokenizers is what a reader of the mail sees,
\* apart from what Lost and Kept name, however elements nest, headings are replaced
\* and the parser moves what it finds; and so are the links, whose texts are theirs.
TextIsWhatShows ==
    Of("doc") =>
        LET doc == input.doc
            out == Parse(doc) IN
        \A n \in DOMAIN doc :
            /\ n \in out.body <=> \A m \in WrittenAround(doc, n) :
                                     (Shows(doc[m]) \/ Kept(doc[m])) /\ ~Lost(doc, m)
            /\ n \in out.body /\ doc[n].attr = "href" =>
                   \E l \in out.links : l.link = n /\ n \in l.text
            /\ (\E m \in WrittenAround(doc, n) : ~Shows(doc[m]) /\ ~Kept(doc[m])) =>
                   /\ n \notin out.alts \cup out.url
                   /\ \A l \in out.links : n \notin l.text \cup {l.link}
=============================================================================
