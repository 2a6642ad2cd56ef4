----------------------------- MODULE CacheContract -----------------------------
(***************************************************************************)
(* What a search relies on when it uses the cache, whatever it is made of:  *)
(* a value is found only under the key it was stored under and only until   *)
(* its lifetime ends; the end is fixed once the value is stored; and what   *)
(* the cache has lost does not come back.                                  *)
(***************************************************************************)
EXTENDS Integers

CONSTANTS
  Keys,
  Values   \* each stored at most once

VARIABLES
  clock,
  fresh,    \* values that were not stored yet
  storing,  \* values that are being stored
  held,     \* the pairs of key and value of which the cache has a copy
  ends,     \* when the lifetime of a value ends
  found     \* the pairs that a lookup which begins now may find

vars == <<clock, fresh, storing, held, ends, found>>

Init ==
  /\ clock = 0
  /\ fresh = Values
  /\ storing = {}
  /\ held = {}
  /\ ends = [v \in Values |-> 0]
  /\ found = {}

Honest == found \subseteq {p \in held : clock < ends[p[2]]}

Pass ==
  /\ clock' = clock + 1
  /\ UNCHANGED <<fresh, storing, ends, held>>
  /\ Honest'

(* Copies are made, lost or found; values become stored.                    *)
Work ==
  /\ UNCHANGED <<clock, fresh, ends>>
  /\ storing' \subseteq storing
  /\ held' \subseteq held
  /\ Honest'

(* A value that is being stored is given a lifetime, or a longer one.       *)
Prolong(v) ==
  /\ v \in storing
  /\ UNCHANGED <<clock, fresh, storing>>
  /\ ends[v] <= ends'[v]
  /\ \A w \in Values \ {v} : ends'[w] = ends[w]
  /\ held' \subseteq held
  /\ Honest'

(* Fresh values come, each under one key; they are not found yet.           *)
Put(S) ==
  /\ S \subseteq fresh
  /\ UNCHANGED <<clock, ends, found>>
  /\ fresh' = fresh \ S
  /\ storing' = storing \cup S
  /\ \E key \in [S -> Keys] : held' = held \cup {<<key[v], v>> : v \in S}

Next == Pass \/ Work \/ (\E v \in Values : Prolong(v)) \/ (\E S \in SUBSET Values : Put(S))

Spec == Init /\ [][Next]_vars
===============================================================================
