------------------------------ MODULE Retrieval ------------------------------
(***************************************************************************)
(* What one grounded question finds and cites: the query is rewritten      *)
(* (src/application/rewrite_and_retrieve.py), chunks are ranked by the     *)
(* vector store, by BM25 or by both (retrieve_knowledge.py,                *)
(* hybrid_fusion.py), those that are not close enough are dropped, and the *)
(* answer is the model's only if something is left (ask_knowledge.py), or, *)
(* when an agent searches, if its searches found anything                  *)
(* (retrieve_knowledge_tool.py, ask_knowledge_with_agent.py).              *)
(*                                                                         *)
(* Scores are small integers instead of cosines and BM25 values; fused     *)
(* scores are compared over their common denominator.                      *)
(***************************************************************************)
EXTENDS Integers, FiniteSets, FiniteSetsExt, SequencesExt

CONSTANTS Corpus,        \* integers, in the order of their keys
          Cosines, Matches,
          Absent,        \* the BM25 "score" of a chunk without a query word
          Limits, Thresholds,
          MaxSearches

ASSUME RetrievalAssumption ==
  /\ Corpus \subseteq Int /\ IsFiniteSet(Corpus)
  /\ Cosines \subseteq Int /\ IsFiniteSet(Cosines) /\ Cosines # {}
  /\ Matches \subseteq Int /\ Absent \in Int
  /\ Thresholds \subseteq Int /\ Limits \subseteq Nat

VARIABLES config, vector, lexical, hits, cited, searches, answer

searchVars == <<config, vector, lexical, hits, cited, searches, answer>>

\* alpha is 0, 1/2 or 1, in halves.
Configs == [hybrid : BOOLEAN, alpha : 0..2, threshold : Thresholds,
            limit : Limits, agent : BOOLEAN]

SearchInit ==
  /\ config \in Configs /\ (~config.hybrid => config.alpha = 0)
  /\ vector = [c \in Corpus |-> Min(Cosines)]
  /\ lexical = [c \in Corpus |-> Absent]
  /\ hits = <<>> /\ cited = {} /\ searches = 0 /\ answer = "none"

-----------------------------------------------------------------------------
\* The n best of S; between equals either may come.
Best(S, score, n) ==
  {T \in SUBSET S : /\ Cardinality(T) = Min({n, Cardinality(S)})
                    /\ \A t \in T, u \in S \ T : score[t] >= score[u]}

Matching == {c \in Corpus : lexical[c] # Absent}
Eligible(S) == {c \in S : vector[c] >= config.threshold}

\* normalize_scores over the candidates a channel has, in units of 1/Span:
\* the least is 0, the greatest 1, and equal scores are 1; one without a score
\* gets nothing.
Span(channel, score) ==
  LET values == {score[c] : c \in channel} IN
  IF Cardinality(values) <= 1 THEN 1 ELSE Max(values) - Min(values)

\* Mutant of Share: a candidate without a score counts as a raw 0.
Share_RawZero(channel, score, c) ==
  (IF c \in channel THEN score[c] ELSE 0)
  - Min({score[d] : d \in channel} \union {0})
Share(channel, score, c) ==
  LET values == {score[d] : d \in channel} IN
  IF c \notin channel THEN 0
  ELSE IF Cardinality(values) = 1 THEN 1
  ELSE score[c] - Min(values)

\* alpha of the BM25 share and the rest of the cosine's.
Fused(near, words, c) ==
  config.alpha * Share(words, lexical, c) * Span(near, vector)
  + (2 - config.alpha) * Share(near, vector, c) * Span(words, lexical)

\* The elements of S, each before those that R puts after it.
InOrder(S, R) ==
  [i \in 1..Cardinality(S) |->
     CHOOSE c \in S : Cardinality({d \in S : <<d, c>> \in R}) = i - 1]

\* The best fused scores first, equals by key.
Precedes(near, words, c, d) ==
  \/ Fused(near, words, c) > Fused(near, words, d)
  \/ Fused(near, words, c) = Fused(near, words, d) /\ c < d
Ranked(near, words) ==
  LET found == near \union words
  IN InOrder(found, {p \in found \X found : Precedes(near, words, p[1], p[2])})

Cut(s, n) == IF Len(s) <= n THEN s ELSE SubSeq(s, 1, n)

\* AskKnowledge drops what is not close enough, unless fusion did before.
Relevant(found) ==
  LET close == {i \in DOMAIN found : found[i] \in Eligible(Corpus)}
      places == InOrder(close, {p \in close \X close : p[1] < p[2]})
  IN IF config.hybrid THEN found ELSE [i \in DOMAIN places |-> found[places[i]]]

\* RetrieveKnowledge.execute: both channels at twice the limit, or only the
\* one that counts; without hybrid the threshold comes last.
Found ==
  LET k == config.limit IN
  IF ~config.hybrid
  THEN {Relevant(Ranked(near, {})) : near \in Best(Corpus, vector, k)}
  ELSE IF config.alpha = 0
  THEN {Ranked(Eligible(near), {}) : near \in Best(Corpus, vector, k)}
  ELSE IF config.alpha = 2
  THEN {Ranked({}, words) : words \in Best(Matching, lexical, k)}
  ELSE {Cut(Ranked(Eligible(near), words), k) :
          near \in Best(Corpus, vector, 2 * k), words \in Best(Matching, lexical, 2 * k)}

-----------------------------------------------------------------------------
\* The rewritten query has its own scores; an agent may search again.
Search ==
  /\ answer = "none"
  /\ searches < IF config.agent THEN MaxSearches ELSE 1
  /\ searches' = searches + 1
  /\ vector' \in [Corpus -> Cosines]
  /\ lexical' \in [Corpus -> Matches \union {Absent}]
  /\ hits' = <<>>
  /\ answer' = "searching"
  /\ UNCHANGED <<config, cited>>

\* The citation channel keeps what every search of the turn has found.
Recorded(found) == cited \union ToSet(found)

Find ==
  /\ answer = "searching"
  /\ hits' \in Found
  /\ cited' = Recorded(hits')
  /\ answer' = "none"
  /\ UNCHANGED <<config, vector, lexical, searches>>

\* Without evidence the model's words are not used.
Answered == IF cited = {} THEN "insufficient" ELSE "model"

Reply ==
  /\ ~config.agent /\ answer = "none" /\ searches > 0
  /\ answer' = Answered
  /\ UNCHANGED <<config, vector, lexical, hits, cited, searches>>

\* The agent may answer without a search, and drains the channel.
AgentReply ==
  /\ config.agent /\ answer = "none"
  /\ answer' = Answered
  /\ cited' = {}
  /\ UNCHANGED <<config, vector, lexical, hits, searches>>

\* Rewriting, embedding, searching or the model fails.
SearchFails ==
  /\ answer \in {"none", "searching"}
  /\ answer' = "failed"
  /\ UNCHANGED <<config, vector, lexical, hits, cited, searches>>

SearchNext == Search \/ Find \/ Reply \/ AgentReply \/ SearchFails
SearchSpec == SearchInit /\ [][SearchNext]_searchVars

-----------------------------------------------------------------------------
(* A chunk that beats another in both channels never comes after it, nor   *)
(* is left out when the other is found, whatever is normalized, cut or     *)
(* dropped in between; and every hit is close enough, or has a word of the *)
(* query where BM25 counts (hybrid_fusion.py, retrieve_knowledge.py).      *)
Beats(c, d) ==
  /\ vector[c] > vector[d]
  /\ lexical[d] # Absent => lexical[c] # Absent /\ lexical[c] > lexical[d]

RankedByEvidence ==
  \A j \in DOMAIN hits :
    /\ \A c \in Corpus : Beats(c, hits[j]) =>
         \E i \in 1..j - 1 : hits[i] = c
    /\ \/ vector[hits[j]] >= config.threshold /\ config.alpha < 2
       \/ config.hybrid /\ config.alpha > 0 /\ hits[j] \in Matching
=============================================================================
