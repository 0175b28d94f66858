-------------------------- MODULE MCTransformations --------------------------
EXTENDS Transformations

\* All sequences of at most n tokens, of which the i-th may be a word of its own.
TokenTexts(n, word) ==
  {FlattenSeq([i \in DOMAIN s |-> CASE s[i] = "open" -> OpenTag
                                    [] s[i] = "close" -> CloseTag
                                    [] s[i] = "word" -> <<word[i]>>]) :
     s \in SeqOf({"open", "close", "word"}, n)}

MCBodies ==
  [kind : {"text"}, texts : {<<t>> : t \in TokenTexts(5, <<"a1", "a2", "a3", "a4", "a5">>)}] \cup
  [kind : {"message", "json", "object"},
   texts : TokenTexts(3, <<"a1", "a2", "a3">>) \X TokenTexts(3, <<"b1", "b2", "b3">>)]

MCRankings == {r \in SeqOf(1..3, 3) : IsInjective(r)}

\* Characters, entities and every tag the text could be taken for.
Nasty == {<<>>, <<"x">>, <<"<">>, <<"&">>, <<"&", "lt;">>, <<"&", "amp;">>, <<"&", "amp;", "lt;">>, <<"amp;", "<">>,
          <<"space">>, <<"space", "<", "space", "x", "space">>}
Ends(tag) == {OpenOf(tag), CloseOf(tag), CloseOf(tag) \o OpenOf(tag), OpenOf(tag) \o <<"x">> \o CloseOf(tag)}

EventTexts == Nasty \cup Ends("input") \cup Ends("output") \cup Ends("observation")
Event(input, output) == [input |-> input, output |-> output]
MCBatches == {<<Event(i, o)>> : i, o \in EventTexts} \cup
             {<<Event(i, <<"x">>), Event(j, <<>>)>> : i, j \in EventTexts}

RecordTexts == Nasty \cup Ends("record") \cup Ends("title") \cup Ends("summary")
Record(type, title, summary) == [type |-> type, title |-> title, summary |-> summary]
MCAnswers == {<<Record(y, t, s)>> : y \in {"known", "unknown"}, t, s \in RecordTexts} \cup
             {<<Record("known", t, <<"x">>), Record("known", <<"x">>, s)>> : t, s \in RecordTexts}

JudgeTexts == {<<>>, <<"space", "x">>, <<"&", "lt;">>, OpenOf("fact"), CloseOf("fact") \o OpenOf("fact"), CloseOf("candidate") \o CloseOf("pool"),
               OpenOf("neighbor") \o OpenOf("title")}
MCCandidates == {<<>>} \cup
  {<<[title |-> <<"x">>, facts |-> <<f>>], [title |-> <<"y">>, facts |-> <<g, f>>]>> : f, g \in JudgeTexts}

MergeTexts == {<<>>, <<"space">>, <<"space", "x">>, <<"&", "lt;", "space">>, OpenOf("keep_separate")} \cup Ends("merge") \cup Ends("title")
MCMergeAnswers == [ids : {<<>>, <<<<"space">>>>, <<<<"r1", "space">>, <<"space">>, <<"r2">>>>}, title : MergeTexts,
                   summary : MergeTexts, facts : {<<>>} \cup {<<t>> : t \in MergeTexts}]

h == <<"h">>
h2 == <<"h", "2">>
a == <<"a">>
b == <<"b">>
\* A home, a directory with a longer name beside it, and a link to the home.
MCHomes == <<<<h>>, <<b>>>>
MCDirectories == {<<>>, <<h>>, <<h, a>>, <<h, a, b>>, <<h2>>, <<h2, a>>, <<b>>, <<b, a>>}

n1 == <<"actor1", "project1">>
n2 == <<"actor1/project2">>
MCEventRows == {[id |-> 1, ns |-> n1, kind |-> "prompt", path |-> NoPath],
                [id |-> 2, ns |-> n2, kind |-> "prompt", path |-> "there"]}
Row(id, ns, concepts) == [id |-> id, ns |-> ns, type |-> "decision", concepts |-> concepts, embedded |-> FALSE]
\* A concept of one project, of both, twice in a record, and with a colon.
MCRecordRows == {Row(1, n1, <<<<"c">>>>), Row(2, n2, <<<<"c">>>>),
                 Row(2, n1, <<<<"d">>, <<"d">>, <<"c", "d">>>>)}
=============================================================================
