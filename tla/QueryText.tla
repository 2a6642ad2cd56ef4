------------------------------- MODULE QueryText -------------------------------
(***************************************************************************)
(* How the text of a search finds documents: the tokenizer that documents   *)
(* and queries share, the synonyms a query is expanded with, the tsquery    *)
(* it becomes, and the match and phrase clauses of a search.                *)
(*                                                                         *)
(* A text is a sequence of runes that stand for their class: of the runes   *)
(* that are equal for the code one is enough, two letters tell words apart. *)
(* Letters are lower-case and stand for the digits too. A tsquery is the    *)
(* set of its groups, all of which a document must satisfy; a group is the  *)
(* set of its alternatives, an alternative the set of tokens it requires.   *)
(*                                                                         *)
(* PostgreSQL parses the tokens again, those of a document and those of a   *)
(* query, with a parser of its own for which '.', '-' and '_' differ: what  *)
(* it makes of a token is a constant, of which nothing is assumed but that  *)
(* it is the same wherever the token stands.                                *)
(***************************************************************************)
EXTENDS Integers, Sequences

CONSTANTS
  Han,           \* runes of the Han script, each a word
  HanSymbols,    \* those that are neither letter nor digit: the zero, radicals
  Letters,       \* other letters and digits
  Marks,         \* combining marks
  Trailing,      \* '.', '-' and '_'
  Space,         \* ' '
  Slash,         \* '/'
  Others,        \* every other rune
  Texts,         \* texts that are searched for
  Documents,     \* texts that are indexed
  Dictionaries,  \* contents of query.synonyms: sets of texts by key
  Lexemes(_)     \* the lexemes, in order, that PostgreSQL makes of a token; perhaps none

Runes == Han \cup Letters \cup Marks \cup Trailing \cup Others \cup {Space, Slash}

\* The classes of the code, each rune in the first of its own.
ASSUME ClassesAssumption ==
  /\ HanSymbols \subseteq Han
  /\ Han \cap (Letters \cup Marks \cup Trailing) = {}
  /\ Letters \cap (Marks \cup Trailing) = {}
  /\ (Others \cup {Space, Slash}) \cap (Han \cup Letters \cup Marks \cup Trailing) = {}
  /\ Slash \notin Others \cup {Space} /\ Space \notin Others

ASSUME TextsAssumption ==
  /\ Texts \subseteq Seq(Runes) /\ Documents \subseteq Seq(Runes)
  /\ \A dictionary \in Dictionaries :
       /\ DOMAIN dictionary \subseteq Seq(Runes)
       /\ \A key \in DOMAIN dictionary : dictionary[key] \subseteq Seq(Runes)

VARIABLES
  raw,         \* the text of the request
  synonyms,    \* the dictionary of its snapshot
  phase,       \* "received", "built", "refused", "answered" or "failed"
  tsquery,     \* what Build makes of the text
  answer       \* the documents found

textVars == <<raw, synonyms, phase, tsquery, answer>>

TokenSet(tokens) == {tokens[i] : i \in DOMAIN tokens}

-------------------------------------------------------------------------------
(***************************************************************************)
(* The tokenizer.                                                          *)
(***************************************************************************)
IsSearchWordRune(r) == r \in Letters \cup Marks \cup Trailing

\* What is neither letter, digit or mark nor one of '.', '-', '_' and '/' becomes a blank.
Blanked(text) ==
  [i \in DOMAIN text |-> IF text[i] \in Others \cup HanSymbols THEN Space ELSE text[i]]

\* Of blanks in a row the first is kept, if it stands between other runes.
Kept(text, i) ==
  \/ Blanked(text)[i] # Space
  \/ /\ i > 1 /\ Blanked(text)[i - 1] # Space
     /\ \E j \in (i + 1)..Len(text) : Blanked(text)[j] # Space

\* What normalization has written after each rune.
NormalizedUpTo(text) ==
  LET upTo[i \in 0..Len(text)] ==
        IF i = 0 THEN <<>>
        ELSE IF Kept(text, i) THEN Append(upTo[i - 1], Blanked(text)[i]) ELSE upTo[i - 1]
  IN  upTo

NormalizeQueryText(text) == NormalizedUpTo(text)[Len(text)]

OnBoundary(text, i) == i \in {1, Len(text) + 1} \/ ~IsSearchWordRune(text[i - 1])

StandsAt(text, key, i) ==
  /\ i + Len(key) <= Len(text) + 1
  /\ key = SubSeq(text, i, i + Len(key) - 1)

\* A key matches at i if it is not cut out of a word; Han runes need no boundary.
MatchesAt(text, key, i) ==
  /\ StandsAt(text, key, i)
  /\ key[1] \in Han \/ OnBoundary(text, i)
  /\ \/ key[Len(key)] \in Han
     \/ i + Len(key) = Len(text) + 1
     \/ ~IsSearchWordRune(text[i + Len(key)])

ShortestFirst(keys) ==    \* mutant: the shortest key that matches
  CHOOSE key \in keys : \A other \in keys : Len(key) <= Len(other)

\* Keys are tried from the longest to the shortest.
Longest(keys) == CHOOSE key \in keys : \A other \in keys : Len(other) <= Len(key)

MatchingAt(text, keys, i) == {key \in keys : MatchesAt(text, key, i)}

\* The first position after i where the word that starts at i ends.
WordEnd(text, i) ==
  CHOOSE e \in (i + 1)..(Len(text) + 1) :
    /\ \A j \in (i + 1)..(e - 1) : IsSearchWordRune(text[j])
    /\ e <= Len(text) => ~IsSearchWordRune(text[e])

\* The runes from i to before e, without '.', '-' and '_' at their end.
TrimRight(text, i, e) ==
  LET last == CHOOSE l \in i..(e - 1) :
                text[l] \notin Trailing /\ \A j \in (l + 1)..(e - 1) : text[j] \in Trailing
  IN  SubSeq(text, i, last)

\* The token that begins at i, if one does.
TokenAt(text, keys, i) ==
  CASE MatchingAt(text, keys, i) # {} -> <<Longest(MatchingAt(text, keys, i))>>
    [] MatchingAt(text, keys, i) = {} /\ text[i] \in Han -> <<<<text[i]>>>>
    [] MatchingAt(text, keys, i) = {} /\ text[i] \in Letters ->
         <<TrimRight(text, i, WordEnd(text, i))>>
    [] OTHER -> <<>>

\* Where the tokenizer goes on.
NextAt(text, keys, i) ==
  CASE MatchingAt(text, keys, i) # {} -> i + Len(Longest(MatchingAt(text, keys, i)))
    [] MatchingAt(text, keys, i) = {} /\ text[i] \in Letters -> WordEnd(text, i)
    [] OTHER -> i + 1

\* The tokens from each position on.
TokensFrom(text, keys) ==
  LET from[i \in 1..(Len(text) + 1)] ==
        IF i = Len(text) + 1 THEN <<>>
        ELSE TokenAt(text, keys, i) \o from[NextAt(text, keys, i)]
  IN  from

TokenizeWithDictionary(text, keys) == TokensFrom(text, keys)[1]

TokenizeForSearch(text) == TokenizeWithDictionary(text, {})

\* FtsText: the tokens of a document, in order, each at a position of its search_vector.
EachTokenOnce(text) ==    \* mutant: a repeated word keeps its first position only
  LET tokens == TokenizeForSearch(text)
  IN  SelectSeq([i \in DOMAIN tokens |->
                   IF \E j \in 1..(i - 1) : tokens[j] = tokens[i] THEN <<>> ELSE tokens[i]],
                LAMBDA token : token # <<>>)

FtsText(text) == TokenizeForSearch(text)

\* The lexemes of the first tokens, in order: tokens are set apart by blanks.
LexemesUpTo(tokens) ==
  LET upTo[i \in 0..Len(tokens)] == IF i = 0 THEN <<>> ELSE upTo[i - 1] \o Lexemes(tokens[i])
  IN  upTo

LexemesOf(tokens) == LexemesUpTo(tokens)[Len(tokens)]

\* to_tsvector: what the documents are indexed with, each lexeme at its position.
SearchVector == [d \in Documents |-> LexemesOf(FtsText(d))]

-------------------------------------------------------------------------------
(***************************************************************************)
(* The query.                                                              *)
(***************************************************************************)
\* Empty keys are left out.
Keys(dictionary) == DOMAIN dictionary \ {<<>>}

SynonymsOf(dictionary, term) == IF term \in Keys(dictionary) THEN dictionary[term] ELSE {}

AnyToken(dictionary, term) ==    \* mutant: one word of a synonym is enough
  {TokenSet(TokenizeForSearch(term))}
    \cup {{token} : token \in UNION {TokenSet(TokenizeForSearch(s)) : s \in SynonymsOf(dictionary, term)}}

EmptyToo(dictionary, term) ==    \* mutant: a synonym without tokens is an alternative
  {TokenSet(TokenizeForSearch(term))}
    \cup {TokenSet(TokenizeForSearch(s)) : s \in SynonymsOf(dictionary, term)}

\* The tokens of a term, or those of one of its synonyms that has any.
Alternatives(dictionary, term) ==
  {TokenSet(TokenizeForSearch(term))}
    \cup ({TokenSet(TokenizeForSearch(s)) : s \in SynonymsOf(dictionary, term)} \ {{}})

\* Build: a group for each term; one without tokens and without synonyms is left out.
Build(text, dictionary) ==
  {Alternatives(dictionary, term) :
     term \in TokenSet(TokenizeWithDictionary(NormalizeQueryText(text), Keys(dictionary)))} \ {{{}}}

\* An empty alternative: to_tsquery refuses "( | 'x')".
Malformed(query) == \E group \in query : {} \in group

\* The lexemes of a token follow each other in a document.
Occurs(run, vector) ==
  \E i \in 0..(Len(vector) - Len(run)) : \A j \in 1..Len(run) : vector[i + j] = run[j]

\* to_tsquery: a token becomes the run of its lexemes. Tokens without one are dropped, and
\* alternatives and groups that are left without any.
Runs(alternative) == {Lexemes(token) : token \in alternative} \ {<<>>}

Parsed(query) == {{Runs(alternative) : alternative \in group} \ {{}} : group \in query} \ {{}}

\* search_vector @@ to_tsquery(query): of a query that is dropped altogether nothing is found.
Finds(query, vector) ==
  /\ Parsed(query) # {}
  /\ \A group \in Parsed(query) :
       \E runs \in group : \A run \in runs : Occurs(run, vector)

\* search_vector @@ phraseto_tsquery: the lexemes of the phrase stand one after the other.
FindsPhrase(phrase, vector) ==
  LexemesOf(phrase) # <<>> /\ Occurs(LexemesOf(phrase), vector)

\* A clause of a search is refused when its value has no token.
ClauseRefused(value) == TokenizeForSearch(value) = <<>>

-------------------------------------------------------------------------------
TextInit ==
  /\ raw \in Texts
  /\ synonyms \in Dictionaries
  /\ phase = "received"
  /\ tsquery = {}
  /\ answer = {}

\* Search builds the tsquery and refuses a text that has nothing to search for; an empty
\* text is no condition.
BuildQuery ==
  /\ phase = "received"
  /\ tsquery' = Build(raw, synonyms)
  /\ phase' = IF raw # <<>> /\ tsquery' = {} THEN "refused" ELSE "built"
  /\ UNCHANGED <<raw, synonyms, answer>>

\* The database answers a tsquery it can parse; with another one the search fails. Without
\* a tsquery every document answers.
Answer ==
  /\ phase = "built"
  /\ IF Malformed(tsquery)
       THEN phase' = "failed" /\ UNCHANGED answer
       ELSE /\ phase' = "answered"
            /\ answer' = {d \in Documents : tsquery = {} \/ Finds(tsquery, SearchVector[d])}
  /\ UNCHANGED <<raw, synonyms, tsquery>>

TextNext == BuildQuery \/ Answer

TextSpec == TextInit /\ [][TextNext]_textVars

-------------------------------------------------------------------------------
(***************************************************************************)
(* The words of a text, said without a tokenizer: each Han rune, and each  *)
(* stretch of word runes from its first letter to its last rune that is    *)
(* not '.', '-' or '_'.                                                     *)
(***************************************************************************)
AllWord(text, i, j) == \A k \in i..j : IsSearchWordRune(text[k])

IsWord(text, i, j) ==
  /\ AllWord(text, i, j) /\ text[i] \in Letters /\ text[j] \notin Trailing
  /\ \A k \in 1..(i - 1) : AllWord(text, k, i - 1) => text[k] \notin Letters
  /\ \A k \in (j + 1)..Len(text) : AllWord(text, j + 1, k) => text[k] \in Trailing

Words(text) ==
  {<<text[i]>> : i \in {j \in DOMAIN text : text[j] \in Han}}
    \cup {SubSeq(text, p[1], p[2]) :
            p \in {q \in (1..Len(text)) \X (1..Len(text)) :
                    q[1] <= q[2] /\ IsWord(text, q[1], q[2])}}

\* The words of a query that normalization leaves.
SoughtWords(text) == Words(text) \ {<<r>> : r \in HanSymbols}

DocumentWords == [d \in Documents |-> Words(d)]

\* What PostgreSQL keeps of words.
LexemeSet(words) == UNION {TokenSet(Lexemes(w)) : w \in words}

\* The words of everything that is parsed have lexemes that can be told.
ParsedTexts ==
  Texts \cup Documents
    \cup UNION {UNION {dictionary[key] : key \in DOMAIN dictionary} : dictionary \in Dictionaries}

ASSUME LexemesAssumption ==
  \A text \in ParsedTexts : \A w \in Words(text) : Lexemes(w) \in Seq(Seq(Runes))

\* No word reaches over the end of the first i runes.
NoWordAcross(text, i) ==
  i \in {0, Len(text)} \/ ~IsSearchWordRune(text[i]) \/ ~IsSearchWordRune(text[i + 1])

(***************************************************************************)
(* Properties.                                                             *)
(***************************************************************************)
\* A document that has the words of a query is found, under any dictionary: synonyms and
\* the keys they are written with never take a document away, though the query is cut at
\* the keys and the document is not (query_pipeline.go, tokenizeWithDictionary). A word
\* PostgreSQL makes no lexeme of can be looked for by its synonyms only.
FoundByItsWords ==
  phase = "answered" /\ (\A w \in SoughtWords(raw) : Lexemes(w) # <<>>) =>
    \A d \in Documents : SoughtWords(raw) \subseteq DocumentWords[d] => d \in answer

\* A document that is found has every lexeme of the words of the query, but for Han symbols,
\* or every lexeme of one synonym of a key: a synonym of several words is not met by one of
\* them, nor a word of several lexemes (query_pipeline.go, Build; service.go, Search).
FoundForAReason ==
  phase = "answered" =>
    \A d \in answer :
      \/ LexemeSet(SoughtWords(raw)) \subseteq LexemeSet(DocumentWords[d])
      \/ \E key \in Keys(synonyms) : \E s \in synonyms[key] :
           /\ LexemeSet(Words(s)) # {}
           /\ LexemeSet(Words(s)) \subseteq LexemeSet(DocumentWords[d])

\* A text without words is refused before it reaches the database, and no other; the query
\* of any other text can be parsed, as long as each key of the dictionary has a word. A
\* clause is refused on the same terms as the query, but for words that are Han symbols.
SearchableOrRefused ==
  /\ (ClauseRefused(raw) <=> Words(raw) = {})
  /\ (phase # "received" /\ \A key \in Keys(synonyms) : Words(key) # {}) =>
       /\ ~Malformed(tsquery)
       /\ tsquery = {} <=> SoughtWords(raw) = {}

\* Who searches for a key finds what its synonyms name: a shorter key does not take its place.
KeysAreExpanded ==
  phase = "answered" /\ NormalizeQueryText(raw) \in Keys(synonyms) =>
    \A d \in Documents : \A s \in synonyms[NormalizeQueryText(raw)] :
      LexemeSet(Words(s)) # {} /\ Words(s) \subseteq DocumentWords[d] => d \in answer

\* A phrase that stands in a document as whole words is found there by a phrase clause, if
\* PostgreSQL makes a lexeme of any of its words.
PhrasesAreFound ==
  LexemeSet(Words(raw)) # {} =>
    \A d \in Documents : \A i \in 0..(Len(d) - Len(raw)) :
      /\ raw = SubSeq(d, i + 1, i + Len(raw))
      /\ NoWordAcross(d, i) /\ NoWordAcross(d, i + Len(raw))
      => FindsPhrase(TokenizeForSearch(raw), SearchVector[d])
===============================================================================
