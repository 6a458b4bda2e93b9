------------------------------- MODULE Resolver --------------------------------
(***************************************************************************)
(* resolver/src/resolver.ts: ranking lexicon entries for an intent.  A     *)
(* query is a sequence of words; an entry is a record [strong, intent] of  *)
(* the words of its name and tags, and of its intent.  Scores are in       *)
(* tenths of a token; all scores of one query share its token count as     *)
(* denominator, so the numerators are compared.                            *)
(***************************************************************************)
EXTENDS Orders, SequencesExt

STOPWORDS == {"the", "of"}

(* The positions of the words that count.  A query of nothing but          *)
(* stopwords keeps them.                                                   *)
queryTokens(query) ==
  LET meaningful == {k \in DOMAIN query : query[k] \notin STOPWORDS}
  IN IF meaningful = {} THEN DOMAIN query ELSE meaningful

Hits(query, words) == {k \in queryTokens(query) : query[k] \in words}

(* LexicalScorer.rank: a token in the name or tags counts 1, else in the   *)
(* intent 0.6.  An empty query scores every entry 0.                       *)
rank(query, entries) ==
  [i \in DOMAIN entries |->
     10 * Cardinality(Hits(query, entries[i].strong))
       + 6 * Cardinality(Hits(query, entries[i].intent \ entries[i].strong))]

Threshold(query, minScore) ==
  minScore * IF query = <<>> THEN 1 ELSE Cardinality(queryTokens(query))

Kept(query, entries, minScore) ==
  {i \in DOMAIN entries : rank(query, entries)[i] >= Threshold(query, minScore)}

(* The sort by descending score is stable. *)
Better(query, entries) ==
  LET score == rank(query, entries)
  IN {p \in (DOMAIN entries) \X (DOMAIN entries) :
        \/ score[p[1]] > score[p[2]]
        \/ score[p[1]] = score[p[2]] /\ p[1] < p[2]}

slice(s, limit) == SubSeq(s, 1, IF limit < Len(s) THEN limit ELSE Len(s))

(* Faulty variant: cuts to the limit before it sorts. *)
resolve_CutsFirst(query, entries, limit, minScore) ==
  LET listed == {p \in (DOMAIN entries) \X (DOMAIN entries) : p[1] < p[2]}
  IN Sorted(ToSet(slice(Sorted(Kept(query, entries, minScore), listed), limit)),
            Better(query, entries))

(* Indices of the entries returned. *)
resolve(query, entries, limit, minScore) ==
  slice(Sorted(Kept(query, entries, minScore), Better(query, entries)), limit)

(* resolve() returns as many matches as there are and fit, best first; no  *)
(* entry left out beats one returned, and an entry whose name or tags hold *)
(* every token of the query is never behind one that misses a token.       *)
ResolvesBest(query, entries, limit, minScore) ==
  LET result == resolve(query, entries, limit, minScore)
      score  == rank(query, entries)
      words  == {query[k] : k \in queryTokens(query)}
      full(i) == words \subseteq entries[i].strong
      misses(i) == ~ words \subseteq entries[i].strong \cup entries[i].intent
  IN /\ \A p, q \in DOMAIN result :
          p < q => /\ score[result[p]] >= score[result[q]]
                   /\ result[p] # result[q]
     /\ \A i \in DOMAIN entries \ ToSet(result) :
          \/ score[i] < Threshold(query, minScore)
          \/ /\ Len(result) = limit
             /\ \A p \in DOMAIN result : score[result[p]] >= score[i]
     /\ \A p, q \in DOMAIN result :
          full(result[q]) /\ misses(result[p]) => q < p
==============================================================================
