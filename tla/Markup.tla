-------------------------------- MODULE Markup -------------------------------
(* The XML the collector speaks with its agents.  It frames events and        *)
(* candidates by putting escaped text between tags (pipeline/xml-framer.ts,   *)
(* ingestion/judge-xml.ts), and reads answers with regular expressions that   *)
(* look for the tags, trim what lies between and unescape it                  *)
(* (pipeline/xml-parser.ts, ingestion/judge-xml.ts).  Whatever an event or a  *)
(* record says must come out on the other side as it went in, but for the     *)
(* space around it and the length the parser cuts it to.                      *)
(*                                                                            *)
(* A text is a sequence of atoms: the characters that matter, white space     *)
(* among them, the names of the entities and of the tags, and others.         *)
EXTENDS Integers, SequencesExt, Orders

CONSTANTS MaxTitle,    \* slice(0, 200)
          MaxSummary,  \* slice(0, 4000)
          RecordTypes  \* OBSERVATION_TYPES

ASSUME MarkupAssumption == MaxTitle \in Nat /\ MaxSummary \in Nat

\* --------------------------------------------------------------- escaping ---
Occurrences(sub, text) ==
  {i \in 1..Len(text) - Len(sub) + 1 : SubSeq(text, i, i + Len(sub) - 1) = sub}

\* Every occurrence of old becomes new; no two occurrences of what is replaced here overlap.
Replace(text, old, new) ==
  LET found == Occurrences(old, text)
      rest == UNION {i + 1..i + Len(old) - 1 : i \in found}
  IN FlattenSeq([i \in DOMAIN text |-> IF i \in found THEN new
                                       ELSE IF i \in rest THEN <<>> ELSE <<text[i]>>])

Amp == <<"&", "amp;">>
Lt == <<"&", "lt;">>

\* Mutated form: the ampersand is replaced last.
EscapeAmpLast(text) == Replace(Replace(text, <<"<">>, Lt), <<"&">>, Amp)

EscapeXml(text) == Replace(Replace(text, <<"&">>, Amp), <<"<">>, Lt)

UnescapeXml(text) == Replace(Replace(text, Lt, <<"<">>), Amp, <<"&">>)

\* -------------------------------------------------------------------- tags ---
OpenOf(tag) == <<"<", tag>>
CloseOf(tag) == <<"<", "/", tag>>
Element(tag, text) == OpenOf(tag) \o EscapeXml(text) \o CloseOf(tag)
Elements(tag, texts) == FlattenSeq([i \in DOMAIN texts |-> Element(tag, texts[i])])

\* The position of the first occurrence from pos on, 0 when there is none.
Find(sub, text, pos) ==
  LET found == {i \in Occurrences(sub, text) : i >= pos}
  IN IF found = {} THEN 0 ELSE Min(found)

\* /<tag>([\s\S]*?)<\/tag>/g: what lies between the tags, as it stands.
Between(tag, text) ==
  LET from[pos \in 1..Len(text) + 1] ==
        LET open == Find(OpenOf(tag), text, pos)
            close == IF open = 0 THEN 0 ELSE Find(CloseOf(tag), text, open + 2)
        IN IF close = 0 THEN <<>> ELSE <<SubSeq(text, open + 2, close - 1)>> \o from[close + 3]
  IN from[1]

\* The elements of s at some places, in their order.
Chosen(s, places) == LET order == Ascending(places) IN [k \in DOMAIN order |-> s[order[k]]]
NotEmpty(texts) == Chosen(texts, {i \in DOMAIN texts : texts[i] # <<>>})

\* trim(): without the white space, "space", at both ends.
Trim(text) ==
  LET kept == {i \in DOMAIN text : text[i] # "space"}
  IN IF kept = {} THEN <<>> ELSE SubSeq(text, Min(kept), Max(kept))

Trimmed(texts) == [i \in DOMAIN texts |-> Trim(texts[i])]

\* What is left of each element, trimmed first; one that is blank is skipped.
ExtractAll(text, tag) ==
  LET full == NotEmpty(Trimmed(Between(tag, text))) IN [i \in DOMAIN full |-> UnescapeXml(full[i])]

\* The first occurrence, trimmed, or <<>>.
ExtractOne(text, tag) ==
  LET found == Between(tag, text) IN IF found = <<>> THEN <<>> ELSE UnescapeXml(Trim(found[1]))

\* ----------------------------------------------------------- the compressor ---
\* An event is its input and its output; an empty output has no element.
FrameEvent(event) ==
  OpenOf("observation") \o Element("input", event.input) \o
  (IF event.output = <<>> THEN <<>> ELSE Element("output", event.output)) \o CloseOf("observation")

FrameBatch(entries) == FlattenSeq([i \in DOMAIN entries |-> FrameEvent(entries[i])])

\* The type is an attribute of the opening tag, the atom stands for it trimmed.
RecordXml(record) ==
  OpenOf("record") \o <<record.type>> \o Element("title", record.title) \o
  Element("summary", record.summary) \o CloseOf("record")

CutTo(text, max) == SubSeq(text, 1, IF Len(text) < max THEN Len(text) ELSE max)

\* Blocks of an unknown type, or without a title or a summary, are skipped.
ParseMemoryXml(text) ==
  LET found == Between("record", text)
      blocks == Chosen(found, {i \in DOMAIN found : /\ found[i] # <<>> /\ found[i][1] \in RecordTypes
                                                /\ ExtractOne(found[i], "title") # <<>>
                                                /\ ExtractOne(found[i], "summary") # <<>>})
  IN [i \in DOMAIN blocks |-> [type |-> blocks[i][1],
                               title |-> CutTo(ExtractOne(blocks[i], "title"), MaxTitle),
                               summary |-> CutTo(ExtractOne(blocks[i], "summary"), MaxSummary)]]

\* ---------------------------------------------------------------- the judge ---
FrameJudgePrompt(members, neighbors) ==
  OpenOf("cluster") \o
  FlattenSeq([i \in DOMAIN members |-> OpenOf("candidate") \o Element("title", members[i].title) \o
                                       Elements("fact", members[i].facts) \o CloseOf("candidate")]) \o
  CloseOf("cluster") \o OpenOf("pool") \o
  FlattenSeq([i \in DOMAIN neighbors |-> OpenOf("neighbor") \o Element("title", neighbors[i].title) \o
                                         Elements("fact", neighbors[i].facts) \o CloseOf("neighbor")]) \o
  CloseOf("pool")

NoAnswer == [kind |-> "none"]
KeepSeparate == [kind |-> "keep_separate"]

\* keep_separate anywhere in the answer wins over a merge beside it.
ParseJudgeResponse(xml) ==
  LET merge == Between("merge", xml)
      body == merge[1]
  IN IF Find(OpenOf("keep_separate"), xml, 1) # 0 THEN KeepSeparate
     ELSE IF merge = <<>> \/ ExtractAll(body, "id") = <<>> THEN NoAnswer
     ELSE IF ExtractOne(body, "title") = <<>> \/ ExtractOne(body, "summary") = <<>> THEN NoAnswer
     ELSE [kind |-> "merge", ids |-> ExtractAll(body, "id"), title |-> ExtractOne(body, "title"),
           summary |-> ExtractOne(body, "summary"), facts |-> ExtractAll(body, "fact")]

\* ------------------------------------------------------------- properties ---
\* An agent that keeps to the grammar and escapes its text answers like this.
MergeXml(answer) ==
  OpenOf("merge") \o Elements("id", answer.ids) \o Element("title", answer.title) \o
  Element("summary", answer.summary) \o Elements("fact", answer.facts) \o CloseOf("merge")

\* What a reader of the XML finds in the elements of a tag, white space and all.
TextsIn(text, tag) ==
  LET found == Between(tag, text) IN [i \in DOMAIN found |-> UnescapeXml(found[i])]

\* In the first of them, or <<>>.
TextIn(text, tag) ==
  LET found == Between(tag, text) IN IF found = <<>> THEN <<>> ELSE UnescapeXml(found[1])

\* Whatever the events say, the batch has one observation for each of them, and
\* none of their text reads as a tag: it unescapes to what it was.
EventsStaySeparate(entries, xml) ==
  LET observations == Between("observation", xml)
  IN /\ Len(observations) = Len(entries)
     /\ \A i \in DOMAIN entries : /\ TextIn(observations[i], "input") = entries[i].input
                                  /\ TextIn(observations[i], "output") = entries[i].output

\* The judge finds every candidate and every neighbour with its own facts.
PromptIsComplete(members, neighbors, xml) ==
  LET titles(tag) == [i \in DOMAIN Between(tag, xml) |-> TextIn(Between(tag, xml)[i], "title")]
      facts(tag) == [i \in DOMAIN Between(tag, xml) |-> TextsIn(Between(tag, xml)[i], "fact")]
  IN /\ titles("candidate") = [i \in DOMAIN members |-> members[i].title]
     /\ facts("candidate") = [i \in DOMAIN members |-> members[i].facts]
     /\ titles("neighbor") = [i \in DOMAIN neighbors |-> neighbors[i].title]
     /\ facts("neighbor") = [i \in DOMAIN neighbors |-> neighbors[i].facts]

\* Of what an obedient compressor answers every record that has a known type,
\* and a title and a summary that are not blank, is taken, the others are not;
\* title and summary are trimmed, then cut, and are otherwise what they were.
RecordsComeThrough(records, read) ==
  LET good == Chosen(records, {i \in DOMAIN records : /\ records[i].type \in RecordTypes
                                                  /\ Trim(records[i].title) # <<>>
                                                  /\ Trim(records[i].summary) # <<>>})
  IN read = [i \in DOMAIN good |-> [type |-> good[i].type,
                                     title |-> CutTo(Trim(good[i].title), MaxTitle),
                                     summary |-> CutTo(Trim(good[i].summary), MaxSummary)]]

\* A merge an obedient judge asks for is read as that merge, trimmed and never
\* cut, also when its title quotes the tag that would mean the opposite.
MergesAreUnderstood(answer, read) ==
  LET ids == NotEmpty(Trimmed(answer.ids))
      title == Trim(answer.title)
      summary == Trim(answer.summary)
  IN IF ids = <<>> \/ title = <<>> \/ summary = <<>> THEN read = NoAnswer
     ELSE read = [kind |-> "merge", ids |-> ids, title |-> title, summary |-> summary,
                  facts |-> NotEmpty(Trimmed(answer.facts))]
=============================================================================
