------------------------------ MODULE HashMap ------------------------------
(***************************************************************************)
(* What the code does with a std::unordered_map: f[k] = v, f.erase(k),     *)
(* and, for maps to sets, the set that operator[] finds or default-        *)
(* constructs, and the removal of one member from several of the sets.     *)
(***************************************************************************)

Put(f, k, v) == [x \in DOMAIN f \cup {k} |-> IF x = k THEN v ELSE f[x]]
Erase(f, k) == [x \in DOMAIN f \ {k} |-> f[x]]
SetAt(f, k) == IF k \in DOMAIN f THEN f[k] ELSE {}
EmptyMap == [x \in {} |-> {}]

\* f without the member v in the sets of keys; a set that becomes empty is
\* erased.
Discard(f, keys, v) ==
  [x \in {k \in DOMAIN f : k \notin keys \/ f[k] \ {v} # {}} |->
     IF x \in keys THEN f[x] \ {v} ELSE f[x]]

\* A map from some of the members of S to members of T.
IsMap(f, S, T) ==
  /\ f = [x \in DOMAIN f |-> f[x]]
  /\ DOMAIN f \subseteq S
  /\ \A x \in DOMAIN f : f[x] \in T
=============================================================================
