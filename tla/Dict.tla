--------------------------------- MODULE Dict ---------------------------------
(***************************************************************************)
(* Partial functions used the way the services use dictionaries and keyed  *)
(* tables: an absent key is one outside the domain.                        *)
(***************************************************************************)

\* A dictionary whose keys are in S and whose values are in T.
IsDict(f, S, T) == DOMAIN f \subseteq S /\ f \in [DOMAIN f -> T]

Empty == [x \in {} |-> x]

Put(f, x, v) == [y \in DOMAIN f \cup {x} |-> IF y = x THEN v ELSE f[y]]

Drop(f, x) == [y \in DOMAIN f \ {x} |-> f[y]]
=============================================================================
