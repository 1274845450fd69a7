----------------------------- MODULE Retrieval -----------------------------
(***************************************************************************)
(* What an agent is shown of a graph: retrieve_context, search_graph and   *)
(* suggest_connections (mcp/tools.py), with the ranking, the expansion and *)
(* the serialization behind them (retrieval/, scoring/).                   *)
(*                                                                         *)
(* A graph is any that the other calls leave behind: in particular the     *)
(* links of a deleted item stay, and a link keeps its latest verdict.      *)
(* What the text search, the embeddings and the words of a cluster answer  *)
(* is an input of the question.  Scores are scaled to whole numbers.       *)
(***************************************************************************)
EXTENDS Naturals, Sequences, FiniteSets, SequencesExt, Ordering

CONSTANTS
    Item,         \* node ids, in the order ids sort
    Link,         \* edges: [id, source, target, weight]
    Group,        \* clusters: [id, anchor, members, confidence], anchor 0 if none
    Question,     \* questions of retrieve_context
    Search,       \* questions of search_graph: the two ranked lists
    Wish,         \* questions of suggest_connections
    Kinship,      \* of two items: [mapped, label, shared, lexical, evidence]
    Sparse,       \* items without grounding
    Sections,     \* size of the card sections of each item
    MAX_ANCHORS, DEPTH_MAX, ROUTE_MEMBER_LIMIT,
    MAX_PAYLOAD, SENTINEL,
    MIN_SHARED_TOKENS,
    Verdict,      \* bound: the verdicts edges may have
    Standing,     \* bound: the statuses clusters may have
    MaxDeleted    \* bound: items deleted

\* The text search and the embeddings name a node once; an edge is between two
\* nodes that are or were there; no two edges or clusters have one id.
Unrepeated(s) == \A i, j \in DOMAIN s : i # j => s[i] # s[j]
IsList(s) == s \in Seq(Item) /\ Unrepeated(s)

ASSUME RetrievalAssumption ==
    /\ IsFiniteSet(Item) /\ Item \subseteq Nat \ {0}
    /\ IsFiniteSet(Link) /\ IsFiniteSet(Group)
    /\ \A l \in Link : {l.source, l.target} \subseteq Item /\ {l.id, l.weight} \subseteq Nat
    /\ \A k, l \in Link : k.id = l.id => k = l
    /\ \A g \in Group : /\ {g.id, g.confidence} \subseteq Nat
                        /\ g.anchor \in Item \union {0} /\ IsList(g.members)
    /\ \A g, h \in Group : g.id = h.id => g = h
    /\ Sections \in [Item -> Nat]
    /\ MAX_ANCHORS \in Nat \ {0} /\ DEPTH_MAX \in {1, 2}
    /\ {ROUTE_MEMBER_LIMIT, MIN_SHARED_TOKENS, SENTINEL, MAX_PAYLOAD} \subseteq Nat
    /\ Verdict \subseteq {"none", "confirmed", "inferred", "needs-confirmation",
                          "abstain", "invalidated"}
    /\ Standing \subseteq {"confirmed", "proposed", "needs-source", "archived", "rejected"}

\* What may be asked.
ASSUME QuestionAssumption ==
    /\ \A q \in Question :
          /\ q.focal \in Item \union {0} /\ q.asked \in BOOLEAN
          /\ q.depth \in {1, 2} /\ q.limit \in Nat
          /\ IsList(q.lexical)
          /\ \A h \in ToSet(q.dense) : h.id \in Item /\ h.score \in Nat
          /\ \A h, k \in ToSet(q.dense) : h.id = k.id => h = k
          /\ \A g \in Group : q.hits[g.id] \in Nat
    /\ \A q \in Search : IsList(q.lexical) /\ IsList(q.dense)
    /\ Wish \subseteq [focus : Item, embedded : BOOLEAN, dense : Seq([id : Item, cosine : Nat]),
                      threshold : Nat, limit : Nat]
    /\ \A a, b \in Item : a # b =>
          {Kinship[{a, b}].shared, Kinship[{a, b}].lexical, Kinship[{a, b}].evidence} \subseteq Nat

VARIABLES
    items,        \* the nodes there are
    links,        \* the edges there are, with ends that may be gone
    verdict,      \* latest ledger status of each edge
    standing,     \* status of each cluster
    reply         \* the last answer

retrievalVars == <<items, links, verdict, standing, reply>>

NoReply == [tool |-> "none"]

Least(a, b) == IF a <= b THEN a ELSE b
Prefix(s, n) == SubSeq(s, 1, Least(n, Len(s)))
Position(s, x) == CHOOSE i \in DOMAIN s : s[i] = x

\* Best first: by falling score, then by id.
Ranked(score) ==
    LET Before(a, b) == score[a] > score[b] \/ (score[a] = score[b] /\ a < b)
    IN  Sorted(DOMAIN score, Before)

\* What is left of a list, in its order.
Among(s, S) ==
    LET Before(a, b) == Position(s, a) < Position(s, b)
    IN  Sorted(ToSet(s) \intersect S, Before)

Present(s) == Among(s, items)

-----------------------------------------------------------------------------
\* Search: reciprocal rank fusion of a lexical and a dense list.

\* Scaled so finely that no two ranks come out alike.
Reciprocal(rank, ranks) == (100000 * (60 + ranks) * (60 + ranks)) \div (60 + rank)

\* A node that is missing from the lexical list ranks after its last one.
Fused(lexical, dense, n) ==
    LET ranks == Len(lexical) + Len(dense) + 1
    IN  Reciprocal(IF Contains(lexical, n) THEN Position(lexical, n) ELSE Len(lexical) + 1, ranks)
        + IF Contains(dense, n) THEN Reciprocal(Position(dense, n), ranks) ELSE 0

FuseSearchRows(lexical, dense) ==
    IF lexical = <<>> /\ dense = <<>> THEN lexical
    ELSE Ranked([n \in ToSet(lexical) \union ToSet(dense) |-> Fused(lexical, dense, n)])

\* With no model, no vector or no neighbour, the lexical rows as they come.
SearchGraph(q) ==
    LET lexical == Present(q.lexical)
        dense == Present(q.dense)
    IN  IF dense = <<>> THEN lexical ELSE FuseSearchRows(lexical, dense)

-----------------------------------------------------------------------------
\* Anchors.

\* 0.35 of the place in the lexical list, 0.25 of the similarity (in halves),
\* and the same governance for every candidate.
AnchorScore(lexical, dense, n) ==
    LET count == Cardinality(ToSet(lexical) \union {h.id : h \in dense})
        place == IF Contains(lexical, n) THEN count + 1 - Position(lexical, n) ELSE 0
        near == IF \E h \in dense : h.id = n THEN (CHOOSE h \in dense : h.id = n).score ELSE 0
    IN  70 * place + count * (25 * near + 50)

\* The router's anchors; every score is positive.
HybridRetrieve(score) == Prefix(Ranked(score), MAX_ANCHORS)

RankAnchors(lexical, dense) ==
    HybridRetrieve([n \in ToSet(lexical) \union {h.id : h \in dense} |->
                        AnchorScore(lexical, dense, n)])

LexicalCandidates(q) == Prefix(Present(q.lexical), 3 * MAX_ANCHORS)
DenseHits(q) == {h \in ToSet(q.dense) : h.id \in items}

QueryAnchors(q) == RankAnchors(LexicalCandidates(q), DenseHits(q))

\* The focal node, if any, then what the query finds.
DirectAnchors(q) ==
    LET found == IF q.asked THEN QueryAnchors(q) ELSE <<>>
    IN  IF q.focal = 0 THEN found
        ELSE Prefix(<<q.focal>> \o Among(found, items \ {q.focal}), MAX_ANCHORS)

RouteMembers(g) == Present(g.members)

\* 0 if the cluster has none.
RouteAnchor(g) ==
    CASE g.anchor \in items -> g.anchor
      [] g.anchor \notin items /\ RouteMembers(g) # <<>> -> RouteMembers(g)[1]
      [] OTHER -> 0

StatusWeight(s) == CASE s = "confirmed" -> 1000 [] s = "proposed" -> 650 [] OTHER -> 800

\* Clusters whose words the query hits, best first.
ClusterRoutes(q) ==
    LET open == {g \in Group : /\ standing[g.id] \notin {"archived", "rejected"}
                               /\ RouteAnchor(g) # 0
                               /\ q.hits[g.id] > 0}
        Score(g) == 1000 * q.hits[g.id] + StatusWeight(standing[g.id]) + g.confidence
        Before(g, h) == Score(g) > Score(h) \/ (Score(g) = Score(h) /\ g.id < h.id)
    IN  IF q.asked THEN Prefix(Sorted(open, Before), MAX_ANCHORS) ELSE <<>>

\* Routes replace the anchors, the focal node included.
Anchors(q, routes) ==
    LET First(n) == CHOOSE i \in DOMAIN routes :
                        /\ RouteAnchor(routes[i]) = n
                        /\ \A j \in DOMAIN routes : RouteAnchor(routes[j]) = n => i <= j
        Before(m, n) == First(m) < First(n)
        routed == Sorted({RouteAnchor(routes[i]) : i \in DOMAIN routes}, Before)
    IN  IF routes # <<>> THEN Prefix(routed, MAX_ANCHORS) ELSE DirectAnchors(q)

-----------------------------------------------------------------------------
\* Expansion.

\* Edges count in both directions, whatever their verdict and whether or not
\* their other end is still there.
Neighbours(n) == {l.target : l \in {k \in links : k.source = n}}
                     \union {l.source : l \in {k \in links : k.target = n}}

\* One level of the breadth-first search.
Level(depths, d) ==
    LET next == (UNION {Neighbours(n) : n \in {m \in DOMAIN depths : depths[m] = d}})
                    \ DOMAIN depths
    IN  [n \in DOMAIN depths \union next |-> IF n \in next THEN d + 1 ELSE depths[n]]

ExpandNeighborhood(anchors, depth) ==
    LET start == [n \in ToSet(anchors) |-> 0]
    IN  IF Least(depth, DEPTH_MAX) = 1 THEN Level(start, 0) ELSE Level(Level(start, 0), 1)

\* The members of a route are neighbours of its anchor.
Reach(q, routes, anchors) ==
    LET depths == ExpandNeighborhood(anchors, q.depth)
        members == UNION {ToSet(Prefix(RouteMembers(routes[i]),
                                       Least(q.limit, ROUTE_MEMBER_LIMIT))) : i \in DOMAIN routes}
    IN  [n \in DOMAIN depths \union members |-> IF n \in DOMAIN depths THEN depths[n] ELSE 1]

\* At most limit of them: anchors first, then the nearest.
CapDepthMap(depths, anchors, limit) ==
    LET Nearer(a, b) == depths[a] < depths[b] \/ (depths[a] = depths[b] /\ a < b)
        room == IF Len(anchors) < limit THEN limit - Len(anchors) ELSE 0
    IN  ToSet(Prefix(anchors, limit))
            \union ToSet(Prefix(Sorted(DOMAIN depths \ ToSet(anchors), Nearer), room))

\* The status of the latest ledger row about an edge.
LatestStatus(l) == verdict[l.id]

Tier(l) ==
    CASE LatestStatus(l) = "confirmed" -> 1
      [] LatestStatus(l) \in {"none", "inferred"} -> 2
      [] LatestStatus(l) = "needs-confirmation" -> 3
      [] LatestStatus(l) = "abstain" -> 4
      [] OTHER -> 0

Sooner(k, l) == \/ Tier(k) < Tier(l)
                \/ Tier(k) = Tier(l) /\ k.weight > l.weight
                \/ Tier(k) = Tier(l) /\ k.weight = l.weight /\ k.id < l.id

\* Mutant: what the ledger has invalidated stays in.
EdgesWhateverTheVerdict(capped) ==
    Sorted({l \in links : l.source \in capped /\ l.target \in capped}, Sooner)

\* Edges among the nodes of the map, the most reliable first; an invalidated
\* edge has no tier and is left out.
EdgesByReliability(capped) ==
    Sorted({l \in links : l.source \in capped /\ l.target \in capped /\ Tier(l) # 0}, Sooner)

-----------------------------------------------------------------------------
\* The answer as text.

\* The bytes of the card sections.
Total(S) == Cardinality(UNION {{n} \X (1 .. Sections[n]) : n \in S})

\* Each anchor's block repeats the details of every node.
TextSize(anchors, shown) == Cardinality(anchors) * (1 + Total(shown))

\* Card sections are dropped, the farthest and then the longest first, until
\* the bytes of the text are enough fewer; each section is counted once.
Suppressed(anchors, shown, depth) ==
    LET written == {n \in shown : Sections[n] > 0}
        Dropped(a, b) == \/ depth[a] > depth[b]
                         \/ depth[a] = depth[b] /\ Sections[a] > Sections[b]
                         \/ depth[a] = depth[b] /\ Sections[a] = Sections[b] /\ a < b
        order == Sorted(written, Dropped)
        needed == TextSize(anchors, shown) - (MAX_PAYLOAD - SENTINEL)
        Freed(k) == Total(ToSet(Prefix(order, k)))
        enough == {k \in DOMAIN order : Freed(k) >= needed}
        count == IF enough = {} THEN Len(order) ELSE CHOOSE k \in enough : \A j \in enough : k <= j
    IN  IF TextSize(anchors, shown) <= MAX_PAYLOAD THEN {} ELSE ToSet(Prefix(order, count))

-----------------------------------------------------------------------------
\* Suggestions.

MinDense == 58
SharedWithMinTokens == 3
SharedWithMinScore == 4200

Related(a, b) == Kinship[{a, b}]

\* The weights of the parts, in six-thousandths: type rule 0.40, lexical and
\* evidence 0.40 and 0.10 (0.10 and 0.40 for a label of high impact),
\* neighbours 0.10.  Lexical similarity is in halves.
PairScore(f, o) ==
    LET k == Related(f, o)
        high == k.label = "high-impact"
        shared == Cardinality(Neighbours(f) \intersect Neighbours(o))
    IN  (IF k.mapped THEN 2400 ELSE 840)
        + (IF high THEN 300 ELSE 1200) * k.lexical
        + (IF high THEN 480 ELSE 120) * k.evidence
        + 200 * Least(shared, 3)

Unconnected(f) == (items \ {f}) \ Neighbours(f)

DenseHit(w, o) == \E h \in ToSet(w.dense) : h.id = o
DenseAdmitted(w, o) == \E h \in ToSet(w.dense) : h.id = o /\ h.cosine >= MinDense

\* The three gates a pair must pass; similarity opens the last two.
IsCandidate(w, o) ==
    LET k == Related(w.focus, o)
        score == PairScore(w.focus, o)
    IN  /\ k.label = "shared-with" =>
               score >= SharedWithMinScore /\ k.shared >= SharedWithMinTokens
        /\ score >= w.threshold \/ DenseAdmitted(w, o)
        /\ k.mapped \/ k.shared >= MIN_SHARED_TOKENS \/ DenseAdmitted(w, o)

SuggestedLabel(f, o) ==
    LET k == Related(f, o)
    IN  CASE f \in Sparse \/ o \in Sparse -> "review-needed"
          [] k.mapped /\ {f, o} \intersect Sparse = {} -> k.label
          [] ~k.mapped /\ {f, o} \intersect Sparse = {} ->
                IF PairScore(f, o) > SharedWithMinScore /\ k.shared >= SharedWithMinTokens
                THEN "shared-with" ELSE "review-needed"

\* By score; with embeddings, by score and the two ranks.
LexicalRank(w, o) ==
    LET score == PairScore(w.focus, o)
    IN  1 + Cardinality({p \in Unconnected(w.focus) :
                            LET other == PairScore(w.focus, p)
                            IN  other > score \/ (other = score /\ p < o)})

SuggestionScore(w, o) ==
    LET Near(n) == CHOOSE i \in DOMAIN w.dense : w.dense[i].id = n
    IN  IF ~w.embedded THEN PairScore(w.focus, o)
        ELSE 1000 * PairScore(w.focus, o) + 900000 \div (60 + LexicalRank(w, o))
             + IF DenseHit(w, o) THEN 900000 \div (60 + Near(o)) ELSE 0

Candidates(w) == {o \in Unconnected(w.focus) : IsCandidate(w, o)}

SuggestConnections(w) ==
    Prefix(Ranked([o \in Candidates(w) |-> SuggestionScore(w, o)]), w.limit)

-----------------------------------------------------------------------------
\* The links of a deleted item stay; those of items never added do not exist.
RetrievalInit ==
    /\ items \in {S \in SUBSET Item : Cardinality(Item \ S) <= MaxDeleted}
    /\ links \in SUBSET Link
    /\ verdict \in [{l.id : l \in Link} -> Verdict]
    /\ \A l \in Link : l \notin links => verdict[l.id] = "none"
    /\ standing \in [{g.id : g \in Group} -> Standing]
    /\ reply = NoReply

Answered(r) ==
    /\ reply' = r
    /\ UNCHANGED <<items, links, verdict, standing>>

RetrieveContext(q) ==
    /\ q.asked \/ q.focal # 0
    /\ q.focal # 0 => q.focal \in items
    /\ \E routes \in {ClusterRoutes(q)} :
       \E anchors \in {Anchors(q, routes)} :
       \E depths \in {Reach(q, routes, anchors)} :
       \E capped \in {CapDepthMap(depths, anchors, q.limit)} :
          LET kept == ToSet(anchors) \union (capped \intersect items)
              depth == [n \in kept |-> IF n \in capped THEN depths[n] ELSE 0]
          IN  Answered([tool |-> "context", question |-> q,
                        anchors |-> anchors,
                        routed |-> routes # <<>>,
                        depth |-> depth,
                        \* the structured answer and the text list different edges
                        edges |-> EdgesByReliability(capped \intersect kept),
                        prose |-> Reverse(EdgesByReliability(capped)),
                        suppressed |-> Suppressed(ToSet(anchors), kept, depth),
                        \* not part of the answer: what the cap has cut
                        cut |-> DOMAIN depths \ capped, gone |-> capped \ items,
                        reach |-> depths])

SearchNodes(q) == Answered([tool |-> "search", question |-> q, rows |-> SearchGraph(q)])

Suggest(w) ==
    /\ w.focus \in items
    /\ Answered([tool |-> "suggest", question |-> w, rows |-> SuggestConnections(w)])

\* One answer is looked at: it changes nothing the next one depends on.
RetrievalNext ==
    /\ reply = NoReply
    /\ \/ \E q \in Question : RetrieveContext(q)
       \/ \E q \in Search : SearchNodes(q)
       \/ \E w \in Wish : Suggest(w)

RetrievalSpec == RetrievalInit /\ [][RetrievalNext]_retrievalVars

-----------------------------------------------------------------------------
\* Two hops, or one, from any of the anchors.
Distance(S, n) ==
    CASE n \in S -> 0
      [] n \notin S /\ (\E a \in S : a \in Neighbours(n)) -> 1
      [] OTHER -> 2

Contextual == reply.tool = "context"

\* The anchors are there, the focal node is the first of them unless a cluster
\* routes the question, and a node that both the text search, as far as its hits
\* are taken, and the embeddings put before another one is not ranked after it.
AnchorsAreRight ==
    Contextual =>
        LET q == reply.question
            a == reply.anchors
            lexical == LexicalCandidates(q)
            Near(n) == {h \in ToSet(q.dense) : h.id = n}
        IN  /\ ToSet(a) \subseteq items /\ Len(a) <= MAX_ANCHORS
            /\ q.focal # 0 /\ ~reply.routed => a[1] = q.focal
            /\ q.focal = 0 /\ ~reply.routed =>
                  \A i, j \in DOMAIN a :
                      (/\ Contains(lexical, a[i])
                       /\ Contains(lexical, a[j]) => Position(lexical, a[i]) < Position(lexical, a[j])
                       /\ \A h \in Near(a[j]) : \E g \in Near(a[i]) : g.score >= h.score)
                      => i < j

\* Every node shown is an anchor, a member of a route or as far from an anchor
\* as it says; nothing nearer was left out, and nothing at all while there was
\* room, ends of edges that are gone taking room as well.
NearestAreShown ==
    Contextual =>
        LET anchors == ToSet(reply.anchors)
        IN  /\ \A n \in DOMAIN reply.depth :
                   \/ reply.depth[n] = Distance(anchors, n)
                   \/ reply.routed /\ reply.depth[n] = 1
            /\ \A n \in DOMAIN reply.depth, m \in reply.cut :
                   reply.depth[n] <= reply.reach[m]
            /\ reply.cut # {} =>
                   Cardinality(DOMAIN reply.depth \union reply.gone) >= reply.question.limit
            /\ Cardinality(DOMAIN reply.depth \ anchors) <= reply.question.limit

\* An invalidated edge is never shown; the others among the nodes shown are, by
\* reliability; the text lists the same edges and, besides, edges with an end
\* that is gone.
EdgesAreReliable ==
    Contextual =>
        LET e == reply.edges
            shown == DOMAIN reply.depth
        IN  /\ \A i \in DOMAIN e : verdict[e[i].id] # "invalidated"
            /\ \A i, j \in DOMAIN e : i < j =>
                   \/ Tier(e[i]) < Tier(e[j])
                   \/ Tier(e[i]) = Tier(e[j]) /\ e[i].weight >= e[j].weight
            /\ \A l \in links :
                   (l.source \in shown /\ l.target \in shown /\ verdict[l.id] # "invalidated")
                       => l \in ToSet(e) \/ Cardinality(ToSet(reply.anchors)) > reply.question.limit
            /\ \A l \in ToSet(reply.prose) \ ToSet(e) : ~({l.source, l.target} \subseteq items)
            /\ ToSet(e) \subseteq ToSet(reply.prose)

\* What is dropped of a long text is never nearer than what is kept, and enough
\* of it is dropped if there is enough to drop.
TextIsCutFromAfar ==
    Contextual =>
        LET anchors == ToSet(reply.anchors)
            kept == {n \in DOMAIN reply.depth \ reply.suppressed : Sections[n] > 0}
        IN  /\ \A n \in kept, m \in reply.suppressed : reply.depth[n] <= reply.depth[m]
            /\ kept # {} => TextSize(anchors, kept) <= MAX_PAYLOAD

\* Search loses no lexical hit, repeats none, and never puts a node after
\* another that both lists put behind it.
SearchKeepsOrder ==
    reply.tool = "search" =>
        LET q == reply.question
            r == reply.rows
        IN  /\ \A n \in ToSet(q.lexical) \intersect items : Contains(r, n)
            /\ Cardinality(ToSet(r)) = Len(r)
            /\ \A i, j \in DOMAIN r :
                   (/\ Contains(q.lexical, r[i]) /\ Contains(q.lexical, r[j])
                    /\ Contains(q.dense, r[i]) /\ Contains(q.dense, r[j])
                    /\ Position(q.lexical, r[i]) < Position(q.lexical, r[j])
                    /\ Position(q.dense, r[i]) < Position(q.dense, r[j])) => i < j

\* Nothing connected is suggested; a label that could become an edge is never
\* given to an item without grounding nor to a pair with neither a rule nor
\* three shared words; embeddings add candidates and take none away; what the
\* limit cuts scores no better than what is returned.
SuggestionsAreEarned ==
    reply.tool = "suggest" =>
        LET w == reply.question
            r == reply.rows
            MayJoin(o) == SuggestedLabel(w.focus, o) # "review-needed"
        IN  /\ \A i \in DOMAIN r : r[i] \in items \ Neighbours(w.focus)
            /\ \A i \in DOMAIN r : MayJoin(r[i]) =>
                   /\ {w.focus, r[i]} \intersect Sparse = {}
                   /\ Related(w.focus, r[i]).mapped
                      \/ Related(w.focus, r[i]).shared >= SharedWithMinTokens
            /\ Candidates([w EXCEPT !.dense = <<>>]) \subseteq Candidates(w)
            /\ \A o \in Candidates(w) \ ToSet(r) :
                   /\ Len(r) = w.limit
                   /\ \A i \in DOMAIN r : SuggestionScore(w, o) <= SuggestionScore(w, r[i])

RetrievalIsFaithful ==
    /\ AnchorsAreRight /\ NearestAreShown /\ EdgesAreReliable /\ TextIsCutFromAfar
    /\ SearchKeepsOrder /\ SuggestionsAreEarned
=============================================================================
