------------------------------- MODULE Privacy -------------------------------
(* What happens to the text of an event on its way into the store.  The shim  *)
(* first cuts a body that is too long (shim/shared/index.ts, truncateBody);   *)
(* the collector then replaces every private span by a marker                 *)
(* (collector/pipeline/index.ts, scrubPrivateSpans).  The cut knows nothing   *)
(* of the spans, and may fall into one, or into a tag.                        *)
(*                                                                            *)
(* A text is a sequence of atoms.  A tag is two atoms, so that a cut can take *)
(* it apart.  The size of a text is its number of atoms.                      *)
EXTENDS Integers, SequencesExt

OpenTag == <<"<priv", "ate>">>
CloseTag == <<"</priv", "ate>">>
Replacement == <<"[REDACTED]">>
TruncationMarker == <<"[truncated]">>
FieldName == <<"field">>

Tags == ToSet(OpenTag \o CloseTag \o Replacement \o TruncationMarker \o FieldName)

\* ------------------------------------------------------- the scrub stage ---
\* input.indexOf(tag, pos): 0 when there is none.
IndexOf(tag, text, pos) ==
  LET found == {i \in pos..Len(text) - 1 : SubSeq(text, i, i + 1) = tag}
  IN IF found = {} THEN 0 ELSE Min(found)

\* Mutated form: the first closing tag ends the span, nested or not.
SpanAfterFirstClose(text, open) ==
  LET close == IndexOf(CloseTag, text, open + 2)
  IN IF close = 0 THEN Len(text) + 1 ELSE close + 2

\* The position after the span that is opened at start; depth counts the tags that are open.
SpanAfter(text, start) ==
  LET end[at \in Nat \X (1..Len(text) + 1)] ==
        LET depth == at[1]
            pos == at[2]
            open == IndexOf(OpenTag, text, pos)
            close == IndexOf(CloseTag, text, pos)
        IN IF depth = 0 \/ pos > Len(text) THEN pos
           ELSE IF close = 0 THEN Len(text) + 1
           ELSE IF open # 0 /\ open < close THEN end[<<depth + 1, open + 2>>]
           ELSE end[<<depth - 1, close + 2>>]
  IN end[<<1, start + 2>>]

ScrubPrivateSpans(text) ==
  LET from[pos \in 1..Len(text) + 1] ==
        LET open == IndexOf(OpenTag, text, pos)
        IN IF open = 0 THEN SubSeq(text, pos, Len(text))
           ELSE SubSeq(text, pos, open - 1) \o Replacement \o from[SpanAfter(text, open)]
  IN from[1]

\* The stage scrubs every string of a body on its own: the content, each
\* turn, each leaf of the JSON value.
Scrub(body) == [body EXCEPT !.texts = [i \in DOMAIN @ |-> ScrubPrivateSpans(@[i])]]

\* ---------------------------------------------------- the cut in the shim ---
\* A body is its kind and its texts: one for "text", the turns for "message",
\* the leaves in order for "json" (the last one tool_response.result) and for
\* "object" (json without such a result).
Size(body) ==
  LET upTo[n \in 0..Len(body.texts)] == IF n = 0 THEN 0 ELSE upTo[n - 1] + Len(body.texts[n])
  IN upTo[Len(body.texts)]

\* A text is cut to nine tenths of its length until it fits what is left, or is empty.
Cut(text, left) ==
  LET kept[n \in 0..Len(text)] == IF n <= left \/ n = 0 THEN n ELSE kept[(n * 9) \div 10]
  IN SubSeq(text, 1, kept[Len(text)])

TrimText(body, i, maxBytes) ==
  [body EXCEPT !.texts[i] = Cut(@, maxBytes - (Size(body) - Len(@)))]

\* The turns are cut from the last one on; a body that fits is not cut further.
TrimMessage(body, maxBytes) ==
  LET from[i \in 1..Len(body.texts) + 1] ==
        IF i > Len(body.texts) THEN body ELSE TrimText(from[i + 1], i, maxBytes)
  IN from[1]

Marked(body) == [body EXCEPT !.texts[Len(body.texts)] = @ \o TruncationMarker]

\* A JSON value without a result is turned into one string, field names and
\* all, and that string is cut with its marker counted.
Stringified(body) ==
  [body EXCEPT !.texts = <<FlattenSeq([i \in DOMAIN @ |-> FieldName \o @[i]])>>]

TruncateBody(body, maxBytes) ==
  IF Size(body) <= maxBytes THEN body
  ELSE CASE body.kind \in {"text", "json"} -> Marked(TrimText(body, Len(body.texts), maxBytes))
         [] body.kind = "message" -> Marked(TrimMessage(body, maxBytes))
         [] body.kind = "object" ->
              LET text == Stringified(body).texts[1]
              IN [body EXCEPT !.texts = <<Cut(text, maxBytes - Len(TruncationMarker)) \o TruncationMarker>>]

\* ------------------------------------------------------------- properties ---
\* How many spans are open at position i, for a reader who counts the tags before it.
Depth(text, i) ==
  LET open[n \in 1..Len(text) + 1] ==
        LET tag == SubSeq(text, n - 2, n - 1)
        IN CASE n <= 2 -> 0
             [] n > 2 /\ tag = OpenTag -> open[n - 1] + 1
             [] n > 2 /\ tag = CloseTag /\ open[n - 1] > 0 -> open[n - 1] - 1
             [] OTHER -> open[n - 1]
  IN open[i]

Private(text) == {i \in DOMAIN text : Depth(text, i) > 0}
Words(text, places) == {text[i] : i \in places} \ Tags
BodyWords(body) == UNION {Words(t, DOMAIN t) : t \in ToSet(body.texts)}
PrivateWords(body) == UNION {Words(t, Private(t)) : t \in ToSet(body.texts)}
PublicWords(body) == UNION {Words(t, DOMAIN t \ Private(t)) : t \in ToSet(body.texts)}

\* Whatever the cut takes away, and wherever it falls, no word of a private
\* span reaches the store, nested, unclosed or split over several strings.
HidesPrivateWords(given, stored) == BodyWords(stored) \cap PrivateWords(given) = {}

\* A body that fits loses nothing but its private words.
KeepsPublicWords(given, stored, maxBytes) ==
  Size(given) <= maxBytes => BodyWords(stored) = BodyWords(given) \ PrivateWords(given)

\* The cut body weighs no more than allowed, but for the marker that is added
\* after it was weighed; what cannot be cut (the leaves beside a result) aside.
FitsWithMarker(sent, maxBytes) ==
  sent.kind # "json" => Size(sent) <= maxBytes + Len(TruncationMarker)
=============================================================================
