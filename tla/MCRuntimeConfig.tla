---------------------------- MODULE MCRuntimeConfig ----------------------------
(***************************************************************************)
(* An instance of RuntimeConfig: two scoring weights, one of which the      *)
(* environment fixes, and one term that can be written in two ways.      *)
(***************************************************************************)
EXTENDS RuntimeConfigProofs, TLC

CONSTANTS title, tags, lower, upper, term, few, many

MCSettings == {title, tags}
MCLow == title :> 0 @@ tags :> 0
MCHigh == title :> 3 @@ tags :> 3
MCSpellings == {lower, upper}
MCTermOf == lower :> term @@ upper :> term
MCDefault == [values |-> title :> 1 @@ tags :> 1, synonyms |-> term :> None]
MCEnvironment == title :> None @@ tags :> NaN

Values(x, y) == title :> x @@ tags :> y
Synonyms(x, y) == lower :> x @@ upper :> y

\* a plain file and one that writes the term twice
MCFiles == {[values |-> Values(3, 0), synonyms |-> Synonyms(few, None)],
            [values |-> Values(None, 2), synonyms |-> Synonyms(few, many)]}

\* a weight above its limit, and the other weight with a term
MCPatches == {[values |-> Values(4, None), synonyms |-> Synonyms(None, None)],
              [values |-> Values(None, 3), synonyms |-> Synonyms(None, many)]}

MCSymmetry == Permutations(Replicas) \cup Permutations(Admins)
===============================================================================
