------------------------------ MODULE HtmlText ------------------------------
(***************************************************************************)
(* What Html2Text.Parse (internal/pkg/utils/preprocessing/html2text.go)    *)
(* takes from the body of a mail.                                          *)
(*                                                                         *)
(* A document is the sequence of the elements of the body as they are      *)
(* written, each with the index of the element it is written in (0 is the  *)
(* body), and a text and perhaps a link of its own; texts are named by     *)
(* their elements.  All elements are written with their end tags.  The     *)
(* parser and the selections are goquery's (external); what is left out    *)
(* are title, meta, video and input elements, which are looked up          *)
(* anywhere and hide nothing.                                              *)
(***************************************************************************)
EXTENDS Integers, Sequences

CONSTANTS Attributes   \* what an element carries besides its style

ASSUME HtmlAssumption == "none" \in Attributes

\* script stands for the elements that are removed anywhere.  Of the styles plain
\* is one that shows; hidden is one that the code finds the value of, a width, a
\* height or a font size of 0 or less, or display:none; fraction is a width, a
\* height or a font size that begins with 0 and shows, 0.9em; important is
\* "display:none !important" and blank is "display: none !important".
Tags     == {"span", "div", "h1", "unknown", "script"}
Styles   == {"plain", "hidden", "fraction", "important", "blank"}
Elements == [parent : Nat, tag : Tags, style : Styles, attr : Attributes]

\* defaultHtmlTags: no heading is among them, "h1," is.
KnownTags == {"span", "div", "script"}
-----------------------------------------------------------------------------
(* Faulty variants of some definitions stand before them, each with a bug  *)
(* easily made in that code; they are no part of the specification.        *)

\* Headings without attributes become spans, headings with them stay, but their
\* end tags become those of spans, which the parser ignores: they stay open.
Plain(e) == e.style = "plain" /\ e.attr = "none"
Tag(e)   == IF e.tag = "h1" /\ Plain(e) THEN "span" ELSE e.tag
Open(e)  == e.tag = "h1" /\ ~Plain(e)

\* The parser: an open heading takes in what is written after it in the same
\* element, up to the next one, which ends it.
Takers(doc, n) == {h \in 1..n - 1 : doc[h].parent = doc[n].parent /\ Open(doc[h])}
Parent(doc, n) ==
    IF Open(doc[n]) \/ Takers(doc, n) = {} THEN doc[n].parent
    ELSE CHOOSE h \in Takers(doc, n) : \A g \in Takers(doc, n) : g <= h

\* The elements that n is in, itself among them.
Around(doc, n) ==
    LET in[m \in 0..Len(doc)] == IF m = 0 THEN {} ELSE {m} \cup in[Parent(doc, m)]
    IN  in[n]

\* Faulty: only the spelling of the style is looked at.
RemovedBySpelling(e) == Tag(e) = "script" \/ (e.style = "important" /\ Tag(e) \in {"span", "div"})

\* The elements that are removed: by their tags, by the spelling of their style,
\* by the values in their style, which are looked at for a 0 or a - in front.
Removed(e) ==
    \/ Tag(e) = "script"
    \/ e.style = "important" /\ Tag(e) \in {"span", "div"}
    \/ e.style \in {"hidden", "fraction"}

\* Faulty: headings are looked up before they become spans.
EmptiedUnreplaced(e) == e.tag \notin KnownTags

\* The elements whose contents are removed.
Emptied(e) == Tag(e) \notin KnownTags

Left(doc) ==
    {n \in DOMAIN doc : /\ \A m \in Around(doc, n) : ~Removed(doc[m])
                        /\ \A m \in Around(doc, n) \ {n} : ~Emptied(doc[m])}

\* The text that is left in element n, what Selection.Text returns.
TextOf(doc, n) == {m \in Left(doc) : n \in Around(doc, m) /\ ~Emptied(doc[m])}

\* Parse: the texts of the links, the alternatives of images, the text of the
\* body; and the links.  An address of an image is no link but where "data:" is
\* in it, and not at its beginning.
Parse(doc) ==
    [links |-> {[link |-> n, text |-> TextOf(doc, n)] :
                    n \in {m \in Left(doc) : doc[m].attr = "href"}},
     alts  |-> {n \in Left(doc) : doc[n].attr \in {"image", "datainside"}},
     body  |-> {n \in Left(doc) : ~Emptied(doc[n])},
     url   |-> {n \in Left(doc) : doc[n].attr \in {"href", "datainside"}}]
=============================================================================
