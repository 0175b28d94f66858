------------------------------ MODULE Clustering -----------------------------
(* How the candidates of one batch are put together before the judge is asked *)
(* (collector/ingestion/clustering.ts, intraBatchCluster): a union-find over  *)
(* every pair whose embeddings are similar enough, with union by rank and     *)
(* path compression, and the clusters in the order of their first member.     *)
(*                                                                            *)
(* Candidates are 1..n.  "near" is the set of pairs <<i, j>>, i < j, whose    *)
(* cosine reaches the threshold; a candidate without an embedding is in none. *)
(* The forest of the union-find is a record of parent and rank.               *)
EXTENDS Orders, SequencesExt

NoUnions(n) == [parent |-> [i \in 1..n |-> i], rank |-> [i \in 1..n |-> 0]]

\* Where find() ends from every node.
Roots(parent) ==
  LET root[x \in DOMAIN parent] == IF parent[x] = x THEN x ELSE root[parent[x]] IN root

Root(parent, x) == Roots(parent)[x]

\* The nodes find() walks over and hangs below the root, from every node.
Paths(parent) ==
  LET path[x \in DOMAIN parent] == IF parent[x] = x THEN {} ELSE {x} \cup path[parent[x]] IN path

Path(parent, x) == Paths(parent)[x]

Compressed(parent, x) ==
  [y \in DOMAIN parent |-> IF y \in Path(parent, x) THEN Root(parent, x) ELSE parent[y]]

\* Mutated form: the candidate itself, not its root, is hung below the other.
LinkNodes(forest, ra, rb, a, b) == [forest EXCEPT !.parent[b] = ra]

Link(forest, ra, rb, a, b) ==
  CASE forest.rank[ra] < forest.rank[rb] -> [forest EXCEPT !.parent[ra] = rb]
    [] forest.rank[ra] > forest.rank[rb] -> [forest EXCEPT !.parent[rb] = ra]
    [] forest.rank[ra] = forest.rank[rb] -> [forest EXCEPT !.parent[rb] = ra, !.rank[ra] = @ + 1]

Union(forest, a, b) ==
  LET found == [forest EXCEPT !.parent = Compressed(Compressed(@, a), b)]
      ra == Root(forest.parent, a)
      rb == Root(forest.parent, b)
  IN IF ra = rb THEN found ELSE Link(found, ra, rb, a, b)

\* The next pair of the scan: the row i, the column j.
NextPair(n, pair) == IF pair[2] < n THEN <<pair[1], pair[2] + 1>> ELSE <<pair[1] + 1, pair[1] + 2>>
ScanEnds(n, pair) == pair[1] >= n

\* One step of the scan over the pairs.
Scan(forest, near, pair) == IF pair \in near THEN Union(forest, pair[1], pair[2]) ELSE forest

\* The walk over the candidates: the members of every cluster in ascending
\* order, the clusters by their first member.
Clusters(forest) ==
  LET nodes == DOMAIN forest.parent
      root == Roots(forest.parent)
      first == Ascending({i \in nodes : \A j \in nodes : j < i => root[j] # root[i]})
  IN [k \in DOMAIN first |-> Ascending({i \in nodes : root[i] = root[first[k]]})]

\* The taint rule of computeCentroid: one member without an embedding and the
\* cluster has no centroid.
HasCentroid(cluster, embedded) == ToSet(cluster) \subseteq embedded

\* ------------------------------------------------------------- properties ---
\* No pair of near leads out of the set.
Closed(set, near) == \A p \in near : p[1] \in set <=> p[2] \in set

\* What a chain of pairs joins with a: no set that is closed separates it from a.
Reach(near, nodes, a) ==
  {b \in nodes : \A set \in SUBSET nodes : a \in set /\ Closed(set, near) => b \in set}

\* What is scanned so far decides the forest: two candidates have the same
\* root exactly when a chain of similar pairs seen so far joins them.
ChainsShareRoots(forest, seen) ==
  LET nodes == DOMAIN forest.parent
      root == Roots(forest.parent)
  IN \A a \in nodes : Reach(seen, nodes, a) = {b \in nodes : root[b] = root[a]}

\* The judge is asked about every candidate once, with all its likes; a
\* cluster of two or more has the centroid its neighbours are found by.
ClustersAreChains(clusters, near, n, embedded) ==
  /\ UNION {ToSet(c) : c \in ToSet(clusters)} = 1..n
  /\ \A c \in ToSet(clusters) : /\ \A i \in ToSet(c) : ToSet(c) = Reach(near, 1..n, i)
                                /\ Len(c) > 1 => HasCentroid(c, embedded)
  /\ \A k \in 1..Len(clusters) - 1 : clusters[k][1] < clusters[k + 1][1]
=============================================================================
