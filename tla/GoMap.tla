------------------------------- MODULE GoMap -------------------------------
(***************************************************************************)
(* Go maps as functions whose DOMAIN is the set of keys present, and the   *)
(* fixed-width integers of the counters kept in them.                      *)
(***************************************************************************)
EXTENDS Integers

\* m[k] = v
Put(m, k, v) == [x \in DOMAIN m \cup {k} |-> IF x = k THEN v ELSE m[x]]

\* delete(m, k): removing an absent key is a no-op
Del(m, k) == [x \in DOMAIN m \ {k} |-> m[x]]

\* m[k] read as an integer: an absent key reads as the zero value
Get(m, k) == IF k \in DOMAIN m THEN m[k] ELSE 0

EmptyMap == [x \in {} |-> 0]

\* m is a map from keys in K to values in V
IsMap(m, K, V) == m \in [DOMAIN m -> V] /\ DOMAIN m \subseteq K

Uint16(n) == n % 65536

Int16(n) == ((n + 32768) % 65536) - 32768
=============================================================================
