----------------------------- MODULE Confluence -----------------------------
(***************************************************************************)
(* What the Confluence clients compute without suspending: the sections of *)
(* a page, the CQL queries of an intent, page ids of URLs, and the merges  *)
(* of page lists.  A page is a series of headed chunks; a chunk and a      *)
(* title are sets of words, issue keys among them.  A page's versions are  *)
(* numbered by their last-modified dates.                                  *)
(***************************************************************************)
EXTENDS Arrangements, SequencesExt

CONSTANTS
  Pages,    \* page ids
  Spaces,   \* space keys
  Keys,     \* issue keys
  Words,    \* words of titles and texts, "Review", "blocker" and Keys included
  Headings, \* headings of chunks
  Targets,  \* _TARGET_HEADINGS
  Versions, \* 1..n: versions a page can have
  Recent,   \* the first version inside the recency window
  SpaceOf,  \* page -> space
  Title,    \* page -> words
  Text,     \* page -> version -> sequence of chunks
  Read,     \* page -> words of its sections -> the keys the LLM says they mention
  NoPage, NoWord

Chunk == [heading : Headings, words : SUBSET Words]

ASSUME ConfluenceAssumption ==
  /\ Keys \cup {"Review", "blocker"} \subseteq Words /\ NoWord \notin Words
  /\ Targets \subseteq Headings
  /\ IsFiniteSet(Versions) /\ Versions # {} /\ Versions = 1..Cardinality(Versions)
  /\ Recent \in Nat
  /\ SpaceOf \in [Pages -> Spaces] /\ Title \in [Pages -> SUBSET Words]
  /\ \A p \in Pages, v \in Versions : Text[p][v] \in Seq(Chunk)
  /\ Read \in [Pages -> [SUBSET Words -> SUBSET Keys]]
  /\ IsFiniteSet(Pages) /\ NoPage \notin Pages

-----------------------------------------------------------------------------
(* Sections and extraction.                                                *)

\* extract_sections: target heading -> words.  Of two chunks under one heading
\* the later one replaces the earlier one.
SectionsOf(p, v) ==
  [h \in {x.heading : x \in ToSet(Text[p][v])} \cap Targets |->
     Text[p][v][SelectLastInSeq(Text[p][v], LAMBDA x : x.heading = h)].words]

\* jira_keys_mentioned: what the LLM returns when it is shown the sections, the first
\* 2000 characters of each.  Nobody compares it with the text.
Mentions(p, v) == Read[p][UNION Range(SectionsOf(p, v))]

WordsOf(p, v) == UNION {Text[p][v][i].words : i \in DOMAIN Text[p][v]}

-----------------------------------------------------------------------------
\* s[:n].
UpTo(n, s) == SubSeq(s, 1, IF n < Len(s) THEN n ELSE Len(s))

(* CQL.                                                                    *)

\* A query: words of the title, alternatives for the text ({} for no clause),
\* spaces ({} for any), and whether it asks for recent pages only.
Matches(q, p, v) ==
  /\ q.title \subseteq Title[p]
  /\ q.text \subseteq WordsOf(p, v)
  /\ q.anyOf = {} \/ q.anyOf \cap WordsOf(p, v) # {}
  /\ q.spaces = {} \/ SpaceOf[p] \in q.spaces
  /\ q.recent => v >= Recent

Query(spaces) == [title |-> {}, text |-> {}, anyOf |-> {}, spaces |-> spaces, recent |-> FALSE]

\* A version reference: its part after the last "_", and that up to its first ".".
Version == [short : Words \cup {NoWord}, abbrev : Words \cup {NoWord}]

Intent == [general : BOOLEAN, refs : Seq(Version), keywords : Seq(Words)]

GeneralIntent == [general |-> TRUE, refs |-> <<>>, keywords |-> <<>>]

Subject(intent) ==
  IF intent.refs # <<>> THEN intent.refs[1]
  ELSE IF intent.keywords # <<>>
       THEN [short |-> intent.keywords[1], abbrev |-> intent.keywords[1]]
       ELSE [short |-> NoWord, abbrev |-> NoWord]

TitleReview(spaces) == [Query(spaces) EXCEPT !.title = {"Review"}, !.recent = TRUE]

\* Mutant: the space filter is forgotten.
TitleVersionAnywhere(intent, spaces) ==
  [Query({}) EXCEPT !.title = {Subject(intent).abbrev} \ {NoWord}, !.text = {"blocker"}]

TitleVersion(intent, spaces) ==
  [Query(spaces) EXCEPT !.title = {Subject(intent).abbrev} \ {NoWord}, !.text = {"blocker"}]

TextVersion(intent, spaces) ==
  LET keywords == ToSet(UpTo(3, intent.keywords))
  IN  CASE Subject(intent).short # NoWord ->
             [Query(spaces) EXCEPT !.text = {Subject(intent).short}, !.recent = TRUE]
        [] Subject(intent).short = NoWord /\ keywords # {} ->
             [Query(spaces) EXCEPT !.anyOf = keywords]
        [] OTHER -> TitleReview(spaces)

\* build_cql_variants.
Variants(intent, spaces) ==
  <<TitleReview(spaces), TitleVersion(intent, spaces), TextVersion(intent, spaces)>>

\* The query of find_pages_mentioning_keys for one key.
KeyQuery(key, spaces) == [Query(spaces) EXCEPT !.text = {key}]

\* What a search may return while pages have the given versions: its hits in any
\* order, or nothing because it fails.
Answers(q, at) ==
  SetToSeqs({[page |-> p, stamp |-> at[p]] : p \in {p \in Pages : Matches(q, p, at[p])}})
    \cup {<<>>}

-----------------------------------------------------------------------------
(* Page lists.                                                             *)

\* The first entry of each page.
Deduped(hits) ==
  Picked(hits, {i \in DOMAIN hits : \A n \in 1..i - 1 : hits[n].page # hits[i].page})

\* search_pages_multi: the variants run in parallel, those that fail are skipped.
Found(intent, spaces, at) ==
  LET q == Variants(intent, spaces)
      Both(A, B) == {Deduped(a \o b) : a \in A, b \in B}
  IN  Both(Both(Answers(q[1], at), Answers(q[2], at)), Answers(q[3], at))

\* extract_page_id: the two forms that carry an id.
PageId(url) == IF url.form \in {"cloud", "viewpage"} THEN url.page ELSE NoPage

\* The distinct page ids of the URLs, in order.
PinsOf(urls) ==
  LET ids == [i \in DOMAIN urls |-> PageId(urls[i])]
  IN  Picked(ids, {i \in DOMAIN ids : ids[i] # NoPage /\ \A n \in 1..i - 1 : ids[n] # ids[i]})

\* Mutant: hits first.
MergedHitsFirst(pinned, hits, limit) == UpTo(limit, Deduped(hits \o pinned))

\* Pinned pages, then the hits that are not among them.
Merged(pinned, hits, limit) ==
  UpTo(limit, pinned \o
    Picked(hits, {i \in DOMAIN hits : \A n \in DOMAIN pinned : pinned[n].page # hits[i].page}))
=============================================================================
