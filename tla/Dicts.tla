-------------------------------- MODULE Dicts --------------------------------
(***************************************************************************)
(* The three dictionary updates the managers make: d[k] = v, del d[k] and  *)
(* the empty dict.  A Python dict is a function whose domain is its keys.  *)
(***************************************************************************)
LOCAL INSTANCE Functions

\* {}
EmptyDict == [k \in {} |-> {}]

\* d[k] = v
Put(d, k, v) == [x \in DOMAIN d \cup {k} |-> IF x = k THEN v ELSE d[x]]

\* del d[k], d.pop(k, None)
Drop(d, k) == Restrict(d, DOMAIN d \ {k})

\* the dicts with keys in K and values in V
Dict(K, V) == UNION {[S -> V] : S \in SUBSET K}
==============================================================================
