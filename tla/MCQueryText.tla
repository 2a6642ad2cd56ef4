------------------------------ MODULE MCQueryText ------------------------------
(***************************************************************************)
(* An instance of QueryText: every query of up to MaxLength runes over one *)
(* rune of each kind and two letters, dictionaries whose keys overlap, are  *)
(* parts of each other or have no word, and documents that repeat words.   *)
(* The lexemes of a token are those of PostgreSQL's parser: '_' sets words  *)
(* apart, a word with '-' counts as a whole and in parts, '.' is part of a  *)
(* word, and the zero, a symbol, is nothing to it.                          *)
(***************************************************************************)
EXTENDS QueryText, FiniteSets, TLC

LOCAL INSTANCE SequencesExt

CONSTANTS h, zero, a, b, mark, dot, dash, under, slash, blank, bang, MaxLength

\* The stretches of a word between the runes equal to cut.
Pieces(word, cut) ==
  LET starts == SelectSeq([i \in DOMAIN word |-> i],
                          LAMBDA i : word[i] # cut /\ (i = 1 \/ word[i - 1] = cut))
      LastOf(i) == CHOOSE j \in i..Len(word) : /\ \A k \in i..j : word[k] # cut
                                               /\ j < Len(word) => word[j + 1] = cut
  IN  [n \in DOMAIN starts |-> SubSeq(word, starts[n], LastOf(starts[n]))]

Compound(piece) ==
  LET parts == Pieces(piece, dash)
  IN  IF Len(parts) > 1 THEN <<piece>> \o parts ELSE parts

MCTexts ==
  UNION {[1..n -> {h, zero, a, b, mark, dash, slash, bang}] : n \in 0..MaxLength}
    \cup [1..3 -> {a, b, dot, dash, under}]

MCDocuments ==
  {<<a>>, <<b, bang, a>>, <<h, a>>, <<a, b>>, <<dash, a, dash, b, zero, h>>, <<h, h, h, b>>,
   <<a, mark, slash, b>>, <<a, bang, b, bang, a, bang, a, b>>, <<slash, dash, bang>>,
   <<b, under, a>>, <<a, dot, b>>}

\* keys of one word and of several, cut by '-', '/' and blanks, or without any word
MCKeys == {<<a>>, <<a, b>>, <<h>>, <<h, h>>, <<h, a>>, <<b, slash, a>>, <<a, blank, b>>,
           <<b, dash>>, <<slash>>, <<dash, blank, h>>}

\* each key with a synonym of one or of two words, or with one that has none
MCSynonyms == <<a>> :> {<<b>>, <<h, h>>} @@ <<a, b>> :> {<<b, dash, a>>} @@ <<h>> :> {<<a>>}
           @@ <<h, h>> :> {<<a, b>>} @@ <<h, a>> :> {<<dash>>} @@ <<b, slash, a>> :> {<<h>>, <<zero>>}
           @@ <<a, blank, b>> :> {<<h, b>>} @@ <<b, dash>> :> {}
           @@ <<slash>> :> {<<a, b>>} @@ <<dash, blank, h>> :> {<<b>>}

MCDictionaries ==
  {[key \in keys |-> MCSynonyms[key]] :
     keys \in {{}} \cup {{k, l} : k \in MCKeys, l \in MCKeys}}

\* The lexemes of every word, reckoned once.
MCWords ==
  UNION {Words(text) : text \in MCTexts \cup MCDocuments \cup UNION {MCSynonyms[k] : k \in MCKeys}}

LexemesByWord ==
  [w \in MCWords |->
     IF w = <<zero>> THEN <<>>
     ELSE LET pieces == Pieces(w, under)
          IN  FlattenSeq([n \in DOMAIN pieces |-> Compound(pieces[n])])]

MCLexemes(token) == LexemesByWord[token]
===============================================================================
