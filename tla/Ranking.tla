------------------------------- MODULE Ranking -------------------------------
(* The order in which a hybrid search returns what it found.  The lexical     *)
(* search and the vector search each rank up to limit * multiplier records;   *)
(* reciprocal rank fusion (collector/embedding/rrf.ts) adds 1 / (k + rank)    *)
(* over both rankings, sorts, and keeps twice the limit; the query layer      *)
(* (collector/query/index.ts) joins the records, sorts again with their age   *)
(* as a tie-break, and keeps the limit.                                       *)
(*                                                                            *)
(* A ranking is a sequence of record ids, the best first; the similarities    *)
(* that order the vector ranking are abstracted to that order.  Scores are    *)
(* exact: a share is a common multiple of the k + rank divided by it.         *)
EXTENDS Orders, SequencesExt

CONSTANTS RrfK,    \* the constant k of the fusion
          MaxRank  \* no ranking is longer

ASSUME RankingAssumption == RrfK \in Nat \ {0} /\ MaxRank \in Nat

RankOf(id, ranking) == CHOOSE r \in DOMAIN ranking : ranking[r] = id
Ranked(id, ranking) == id \in ToSet(ranking)

FirstOf(seq, n) == SubSeq(seq, 1, IF Len(seq) <= n THEN Len(seq) ELSE n)

\* A multiple of every k + rank up to the m-th.
Multiple[m \in Nat] == IF m = 0 THEN 1 ELSE (RrfK + m) * Multiple[m - 1]

Share(rank) == Multiple[MaxRank] \div (RrfK + rank)
ShareIn(id, ranking) == IF Ranked(id, ranking) THEN Share(RankOf(id, ranking)) ELSE 0

FusedScore(lexical, vector, id) == ShareIn(id, lexical) + ShareIn(id, vector)

\* The order by score, then by id.
ByScore(lexical, vector, ids) ==
  LET score(id) == FusedScore(lexical, vector, id)
  IN {p \in ids \X ids : \/ score(p[1]) > score(p[2])
                         \/ score(p[1]) = score(p[2]) /\ p[1] < p[2]}

\* The first limit ids of those found.
RrfFuse(lexical, vector, limit) ==
  LET all == ToSet(lexical) \cup ToSet(vector)
  IN FirstOf(Ordered(all, ByScore(lexical, vector, all)), limit)

\* Mutated form: the fusion keeps no more than what is returned.
FusionDepthOnce(limit) == limit

FusionDepth(limit) == limit * 2

\* The order by score, then the newer, then by id: created gives the age.
ByScoreAndAge(lexical, vector, created, ids) ==
  LET score(id) == FusedScore(lexical, vector, id)
  IN {p \in ids \X ids :
        \/ score(p[1]) > score(p[2])
        \/ score(p[1]) = score(p[2]) /\ created[p[1]] > created[p[2]]
        \/ score(p[1]) = score(p[2]) /\ created[p[1]] = created[p[2]] /\ p[1] < p[2]}

\* The last steps of search().
HybridResult(fused, lexical, vector, created, limit) ==
  FirstOf(Ordered(ToSet(fused), ByScoreAndAge(lexical, vector, created, ToSet(fused))), limit)

\* ------------------------------------------------------------- properties ---
\* Where a ranking puts a record; last when it does not hold it.
Place(id, ranking) == IF Ranked(id, ranking) THEN RankOf(id, ranking) ELSE Len(ranking) + 1

\* A record that both searches rank above another one is not returned below
\* it, and never left out for it: the two cuts and the two sorts included.
RespectsAgreement(lexical, vector, result) ==
  \A a, b \in ToSet(lexical) \cup ToSet(vector) :
    (/\ Place(a, lexical) < Place(b, lexical) \/ Place(a, vector) < Place(b, vector)
     /\ Place(a, lexical) <= Place(b, lexical)
     /\ Place(a, vector) <= Place(b, vector)
     /\ Ranked(b, result))
      => Ranked(a, result) /\ RankOf(a, result) < RankOf(b, result)

\* Of two records that mirror each other in the rankings the newer is the one
\* that is returned first, and the older is never returned without it.
NewerFirst(lexical, vector, created, result) ==
  \A a, b \in ToSet(lexical) \cup ToSet(vector) :
    (/\ ShareIn(a, lexical) = ShareIn(b, vector)
     /\ ShareIn(b, lexical) = ShareIn(a, vector)
     /\ created[a] > created[b]
     /\ Ranked(b, result))
      => Ranked(a, result) /\ RankOf(a, result) < RankOf(b, result)
=============================================================================
