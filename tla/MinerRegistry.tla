--------------------------- MODULE MinerRegistry ---------------------------
(***************************************************************************)
(* The insertion-ordered map of miner_registry.rs, as operators on the     *)
(* sequence of its keys: which wallets are registered, in which order, and *)
(* whom the round-robin hands the next request to.  The channel stored     *)
(* under each key is kept by the module that uses these operators.         *)
(***************************************************************************)
EXTENDS Naturals, SequencesExt

\* IndexMap::insert: a known key keeps its place, a new one goes to the end.
register(keys, w) == IF w \in ToSet(keys) THEN keys ELSE Append(keys, w)

\* IndexMap::shift_remove: the order of the other keys is preserved.
unregister(keys, w) ==
    IF w \in ToSet(keys)
    THEN RemoveAt(keys, CHOOSE i \in DOMAIN keys : keys[i] = w)
    ELSE keys

\* Mutant of StartIndex: the search starts at `last` itself.
StartAtLast(keys, last) ==
    IF last \in ToSet(keys)
    THEN (CHOOSE i \in DOMAIN keys : keys[i] = last) - 1
    ELSE 0

\* Where the round-robin starts looking, counted from 0: after `last`, or at
\* the first key when `last` is unknown or gone.
StartIndex(keys, last) ==
    IF last \in ToSet(keys)
    THEN (CHOOSE i \in DOMAIN keys : keys[i] = last) % Len(keys)
    ELSE 0

\* The key the search looks at after `offset` misses.
Probe(keys, last, offset) ==
    keys[((StartIndex(keys, last) + offset) % Len(keys)) + 1]

\* pick_next returns Some(w): the first key from StartIndex on, wrapping
\* around, that is not banned.
PicksNext(keys, last, banned, w) ==
    \E offset \in 0 .. Len(keys) - 1 :
        /\ Probe(keys, last, offset) = w
        /\ w \notin banned
        /\ \A before \in 0 .. offset - 1 : Probe(keys, last, before) \in banned

\* pick_next returns None: nothing is registered, or all of it is banned.
PicksNobody(keys, banned) == ToSet(keys) \subseteq banned
=============================================================================
