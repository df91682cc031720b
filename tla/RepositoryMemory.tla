-------------------------- MODULE RepositoryMemory --------------------------
(* What an agent remembers of a repository (memory.rs): the documents with an  *)
(* inverted index over them, the episodes and the decisions, the queries over  *)
(* all three and the packing of what they answer into a budget. A text is the  *)
(* sequence of its terms, times are numbers.                                   *)
EXTENDS Naturals, Sequences, SequencesExt, FiniteSetsExt

CONSTANTS Documents,       \* [id, repo, path, symbol, content, size]
          Runs,            \* episodes: [task, outcome, at, size]
          Designs,         \* decisions: [id, repo, text, at, size]
          Short,           \* terms of one character, which no text is split into
          Queries,         \* [terms, repo, prefixes, limit, min]
          Budgets,         \* [max, reserved, documents, episodes, decisions]
          Anywhere,        \* no repository given
          MaxEpisodes      \* bound on the episodes recorded

IsText(x) == Len(x) \in Nat /\ x = [i \in 1 .. Len(x) |-> x[i]]
ASSUME MemoriesAssumption ==
    /\ \A d \in Documents : /\ IsText(d.path) /\ IsText(d.symbol) /\ IsText(d.content)
                             /\ d.id \in Nat /\ d.size \in Nat
    /\ \A e \in Runs : e.at \in Nat /\ e.size \in Nat
    /\ \A m \in Designs : IsText(m.text) /\ m.at \in Nat /\ m.size \in Nat
    /\ \A q \in Queries : IsText(q.terms) /\ q.limit \in Nat /\ q.min \in Nat
    /\ \A b \in Budgets : {b.max, b.reserved, b.documents, b.episodes, b.decisions} \subseteq Nat

VARIABLES documents,  \* the vector of documents
          inverted,   \* term -> positions in documents
          episodes, decisions

memoryVars == <<documents, inverted, episodes, decisions>>

MemoryInit == documents = <<>> /\ inverted = <<>> /\ episodes = <<>> /\ decisions = <<>>

\* A set in an order that is linear on it: the k-th has k - 1 before it.
Ordered(S, before) ==
    [k \in 1 .. Cardinality(S) |->
       CHOOSE x \in S : Cardinality({y \in S : <<y, x>> \in before}) = k - 1]

\* What a sequence has at some of its places.
Picked(seq, places) ==
    LET place == Ordered(places, {p \in places \X places : p[1] < p[2]})
    IN  [k \in DOMAIN place |-> seq[place[k]]]

Tokenize(text) == Picked(text, {i \in DOMAIN text : text[i] \notin Short})
Terms(d) == ToSet(Tokenize(d.content)) \cup ToSet(Tokenize(d.path)) \cup ToSet(Tokenize(d.symbol))

-----------------------------------------------------------------------------
(* RepositoryIndex *)

\* The index with a document of these terms at position idx.
WithPosition(index, terms, idx) ==
    [t \in DOMAIN index \cup terms |->
       (IF t \in DOMAIN index THEN index[t] ELSE {}) \cup (IF t \in terms THEN {idx} ELSE {})]

RebuildInvertedIndex(docs) ==
    [t \in UNION {Terms(docs[i]) : i \in DOMAIN docs} |-> {i \in DOMAIN docs : t \in Terms(docs[i])}]

PositionOf(id) == {i \in DOMAIN documents : documents[i].id = id}

\* Mutant: the entries of the document are taken out, the others stay put.
WithoutInPlace(id) ==
    LET at == PositionOf(id)
    IN  IF at = {} THEN [docs |-> documents, index |-> inverted]
        ELSE [docs |-> RemoveAt(documents, Min(at)),
              index |-> [t \in DOMAIN inverted |-> inverted[t] \ at]]

\* remove_document: the documents behind it move up, so the index is rebuilt.
Without(id) ==
    LET at == PositionOf(id)
    IN  IF at = {} THEN [docs |-> documents, index |-> inverted]
        ELSE LET docs == RemoveAt(documents, Min(at))
             IN  [docs |-> docs, index |-> RebuildInvertedIndex(docs)]

RemoveDocument(id) ==
    /\ documents' = Without(id).docs /\ inverted' = Without(id).index
    /\ UNCHANGED <<episodes, decisions>>

\* index_document: a document of the same id is replaced, and goes to the end.
IndexDocument(d) ==
    LET rest == Without(d.id)
    IN  /\ documents' = Append(rest.docs, d)
        /\ inverted' = WithPosition(rest.index, Terms(d), Len(rest.docs) + 1)
        /\ UNCHANGED <<episodes, decisions>>

MatchesRepo(d, q) == q.repo = Anywhere \/ d.repo = q.repo
MatchesPath(d, q) == q.prefixes = {} \/ \E p \in q.prefixes : IsPrefix(p, d.path)

\* score_document: 3 for a term of the path, 4 for one of the symbol, 1 for one of
\* the content and 1 each time it is there. A term asked for twice counts twice.
Score(d, terms) ==
    LET content == Tokenize(d.content)
        In(text) == Cardinality({k \in DOMAIN terms : terms[k] \in ToSet(text)})
    IN  3 * In(Tokenize(d.path)) + 4 * In(Tokenize(d.symbol)) + In(content)
        + Cardinality({p \in (DOMAIN terms) \X (DOMAIN content) : terms[p[1]] = content[p[2]]})

\* A stable sort, and the first n.
Ranked(seq, before) ==
    LET order == Ordered(DOMAIN seq, {p \in (DOMAIN seq) \X (DOMAIN seq) :
                    \/ <<seq[p[1]], seq[p[2]]>> \in before
                    \/ <<seq[p[2]], seq[p[1]]>> \notin before /\ p[1] < p[2]})
    IN  [k \in DOMAIN order |-> seq[order[k]]]
Truncated(seq, n) == SubSeq(seq, 1, Min({n, Len(seq)}))

Outranks(terms, d, e) ==
    \/ Score(d, terms) > Score(e, terms)
    \/ (Score(d, terms) = Score(e, terms) /\ d.id < e.id)

Query(q) ==
    LET terms == Tokenize(q.terms)
        candidates == UNION {inverted[t] : t \in ToSet(terms) \cap DOMAIN inverted}
        hits == {d \in {documents[i] : i \in candidates \cap DOMAIN documents} :
                   MatchesRepo(d, q) /\ MatchesPath(d, q)
                   /\ Score(d, terms) > 0 /\ Score(d, terms) >= q.min}
    IN  IF q.limit = 0 \/ terms = <<>> THEN <<>>
        ELSE Truncated(Ordered(hits, {p \in hits \X hits : Outranks(terms, p[1], p[2])}), q.limit)

-----------------------------------------------------------------------------
(* AgentMemoryStore *)

RecordEpisode(e) ==
    /\ Len(episodes) < MaxEpisodes /\ episodes' = Append(episodes, e)
    /\ UNCHANGED <<documents, inverted, decisions>>

\* A decision of the same id is replaced.
RecordDecision(m) ==
    /\ decisions' = Append(Picked(decisions, {j \in DOMAIN decisions : decisions[j].id # m.id}), m)
    /\ UNCHANGED <<documents, inverted, episodes>>

Newer(memories) == {p \in memories \X memories : p[1].at > p[2].at}
EpisodesForTask(task) ==
    Ranked(Picked(episodes, {j \in DOMAIN episodes : episodes[j].task = task}), Newer(Runs))
FailedAttemptsForTask(task) ==
    LET found == EpisodesForTask(task)
    IN  Picked(found, {j \in DOMAIN found : found[j].outcome \in {"failure", "blocked"}})
DecisionsForRepo(repo) ==
    Ranked(Picked(decisions, {j \in DOMAIN decisions : decisions[j].repo = repo}), Newer(Designs))

\* query_decisions ranks by the number of terms found, then by age.
QueryDecisions(query, limit) ==
    LET terms == Tokenize(query)
        Found(d) == Cardinality({k \in DOMAIN terms : terms[k] \in ToSet(Tokenize(d.text))})
    IN  IF terms = <<>> \/ limit = 0 THEN <<>>
        ELSE Truncated(Ranked(Picked(decisions, {j \in DOMAIN decisions : Found(decisions[j]) > 0}),
                              {p \in Designs \X Designs :
                                 \/ Found(p[1]) > Found(p[2])
                                 \/ Found(p[1]) = Found(p[2]) /\ p \in Newer(Designs)}), limit)

-----------------------------------------------------------------------------
(* ContextPacker *)

\* append_section: a section that does not fit is passed over, and a smaller
\* one behind it may still fit.
AppendSection(packed, section, budget) ==
    IF packed.tokens + section.size > budget THEN [packed EXCEPT !.truncated = TRUE]
    ELSE [packed EXCEPT !.sections = Append(@, section), !.tokens = @ + section.size]

\* What pack is offered: so many of each, documents first.
Offered(b, retrieval, eps, decs) ==
    Truncated(retrieval, b.documents) \o Truncated(eps, b.episodes) \o Truncated(decs, b.decisions)
Budget(b) == IF b.max > b.reserved THEN b.max - b.reserved ELSE 0

Pack(b, retrieval, eps, decs) ==
    LET offered == Offered(b, retrieval, eps, decs)
        packed[n \in 0 .. Len(offered)] ==
          IF n = 0 THEN [sections |-> <<>>, tokens |-> 0, truncated |-> FALSE]
          ELSE AppendSection(packed[n - 1], offered[n], Budget(b))
    IN  packed[Len(offered)]

-----------------------------------------------------------------------------
MemoryNext ==
    \/ \E d \in Documents : IndexDocument(d) \/ RemoveDocument(d.id)
    \/ \E e \in Runs : RecordEpisode(e)
    \/ \E m \in Designs : RecordDecision(m)

MemorySpec == MemoryInit /\ [][MemoryNext]_memoryVars

-----------------------------------------------------------------------------
\* A query answers with the best of the documents indexed, each once, ranked:
\* what it leaves out does not match or is outranked by all it answers.
QueryIsExact(q) ==
    LET terms   == Tokenize(q.terms)
        answer  == Query(q)
        matches == {d \in ToSet(documents) : MatchesRepo(d, q) /\ MatchesPath(d, q)
                                              /\ Score(d, terms) >= Max({q.min, 1})}
    IN  /\ Len(answer) = Min({q.limit, Cardinality(matches)})
        /\ ToSet(answer) \subseteq matches
        /\ \A i \in DOMAIN answer : \A d \in matches \ {answer[j] : j \in 1 .. i} :
             Outranks(terms, answer[i], d)

\* The size of some sections, token by token.
Tokens(sections) == Cardinality(UNION {{k} \X (1 .. sections[k].size) : k \in DOMAIN sections})

\* A packed context keeps to its budget, leaves a part out only if it says so,
\* and no part that it leaves out would have fitted behind the others.
PackIsExact(b, q, task) ==
    LET found   == Query(q)
        failed  == FailedAttemptsForTask(task)
        decided == QueryDecisions(q.terms, q.limit)
        offered == Offered(b, found, failed, decided)
        packed  == Pack(b, found, failed, decided)
    IN  /\ packed.tokens <= Budget(b)
        /\ packed.tokens = Tokens(packed.sections)
        /\ packed.truncated <=> Len(packed.sections) < Len(offered)
        /\ \A s \in ToSet(offered) \ ToSet(packed.sections) : packed.tokens + s.size > Budget(b)

\* What is remembered of a repository is found again: by queries over an index
\* whose positions shift with every replacement, by age among episodes and
\* decisions, one decision per id, and within the budget of a prompt.
RetrievalIsExact ==
    /\ \A q \in Queries : QueryIsExact(q)
    /\ \A j, k \in DOMAIN decisions : decisions[j].id = decisions[k].id => j = k
    /\ \A task \in {e.task : e \in Runs} :
         LET failed == FailedAttemptsForTask(task)
         IN  \A j, k \in DOMAIN failed : j < k => failed[j].at >= failed[k].at
    /\ \A q \in Queries, task \in {e.task : e \in Runs}, b \in Budgets : PackIsExact(b, q, task)
=============================================================================
