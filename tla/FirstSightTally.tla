--------------------------- MODULE FirstSightTally ---------------------------
(* The tally of first sights both registries keep (pending[] in               *)
(* ble_registry.c and bredr_registry.c): how often a key without a            *)
(* connection was heard, for at most "cap" keys, the one heard last at the    *)
(* end.  The seq numbers of the rows only say this order.                     *)
EXTENDS Integers, Sequences, SequencesExt

RowsOf(ps, key) == {i \in DOMAIN ps : ps[i].key = key}
PlaceOf(ps, key) == CHOOSE i \in RowsOf(ps, key) : TRUE

CountOf(ps, key) ==
  IF RowsOf(ps, key) = {} THEN 0 ELSE ps[PlaceOf(ps, key)].count

Untallied(ps, key) ==
  IF RowsOf(ps, key) = {} THEN ps ELSE RemoveAt(ps, PlaceOf(ps, key))

\* Mutant: a key heard again keeps its place, next to be forgotten.
Bumped_InPlace(ps, key, cap) ==
  IF CountOf(ps, key) > 0
  THEN [i \in DOMAIN ps |->
          IF ps[i].key = key THEN [ps[i] EXCEPT !.count = @ + 1] ELSE ps[i]]
  ELSE Append(IF Len(ps) >= cap THEN Tail(ps) ELSE ps, [key |-> key, count |-> 1])

Bumped(ps, key, cap) ==
  LET room == IF CountOf(ps, key) = 0 /\ Len(ps) >= cap
              THEN Tail(ps) ELSE Untallied(ps, key) IN
  Append(room, [key |-> key, count |-> CountOf(ps, key) + 1])
=============================================================================
