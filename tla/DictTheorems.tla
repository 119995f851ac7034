---------------------------- MODULE DictTheorems ----------------------------
(***************************************************************************)
(* What Put and Drop return, for the proofs about the managers.            *)
(***************************************************************************)
EXTENDS Dicts, TLAPS
LOCAL INSTANCE Functions

\* A dict is a function whose keys and values have the right types.
LEMMA DictDef ==
    ASSUME NEW K, NEW V, NEW d
    PROVE  d \in Dict(K, V) <=>
              d \in [DOMAIN d -> V] /\ DOMAIN d \subseteq K
<1>1. ASSUME d \in Dict(K, V)
      PROVE  d \in [DOMAIN d -> V] /\ DOMAIN d \subseteq K
  <2>1. PICK S \in SUBSET K : d \in [S -> V]
    BY <1>1 DEF Dict
  <2>2. DOMAIN d = S
    BY <2>1
  <2> QED
    BY <2>1, <2>2
<1>2. ASSUME d \in [DOMAIN d -> V], DOMAIN d \subseteq K
      PROVE  d \in Dict(K, V)
  BY <1>2 DEF Dict
<1> QED
  BY <1>1, <1>2

\* d[k] = v keeps the type, adds at most the key k and changes only its value.
LEMMA PutProperties ==
    ASSUME NEW K, NEW V, NEW d \in Dict(K, V), NEW k \in K, NEW v \in V
    PROVE  /\ Put(d, k, v) \in Dict(K, V)
           /\ DOMAIN Put(d, k, v) = DOMAIN d \cup {k}
           /\ Put(d, k, v)[k] = v
           /\ \A x \in DOMAIN d \ {k} : Put(d, k, v)[x] = d[x]
<1>1. d \in [DOMAIN d -> V] /\ DOMAIN d \subseteq K
  BY DictDef
<1>2. Put(d, k, v) \in [DOMAIN d \cup {k} -> V]
  BY <1>1 DEF Put
<1>3. DOMAIN Put(d, k, v) = DOMAIN d \cup {k}
  BY DEF Put
<1>4. Put(d, k, v) \in Dict(K, V)
  BY <1>1, <1>2, <1>3, DictDef
<1> QED
  BY <1>3, <1>4 DEF Put

\* del d[k] keeps the type, removes at most the key k and changes no value.
LEMMA DropProperties ==
    ASSUME NEW K, NEW V, NEW d \in Dict(K, V), NEW k \in K
    PROVE  /\ Drop(d, k) \in Dict(K, V)
           /\ DOMAIN Drop(d, k) = DOMAIN d \ {k}
           /\ \A x \in DOMAIN d \ {k} : Drop(d, k)[x] = d[x]
<1>1. d \in [DOMAIN d -> V] /\ DOMAIN d \subseteq K
  BY DictDef
<1>2. Drop(d, k) \in [DOMAIN d \ {k} -> V]
  BY <1>1 DEF Drop, Restrict
<1>3. DOMAIN Drop(d, k) = DOMAIN d \ {k}
  BY DEF Drop, Restrict
<1>4. Drop(d, k) \in Dict(K, V)
  BY <1>1, <1>2, <1>3, DictDef
<1> QED
  BY <1>3, <1>4 DEF Drop, Restrict

\* What del d[k] leaves, whatever the type.
LEMMA DropValues ==
    ASSUME NEW d, NEW k
    PROVE  /\ DOMAIN Drop(d, k) = DOMAIN d \ {k}
           /\ \A x \in DOMAIN d \ {k} : Drop(d, k)[x] = d[x]
BY DEF Drop, Restrict

\* del d[k] keeps the type, whatever k is.
LEMMA DropType ==
    ASSUME NEW K, NEW V, NEW d \in Dict(K, V), NEW k
    PROVE  Drop(d, k) \in Dict(K, V)
<1>1. d \in [DOMAIN d -> V] /\ DOMAIN d \subseteq K
  BY DictDef
<1>2. Drop(d, k) \in [DOMAIN d \ {k} -> V]
  BY <1>1 DEF Drop, Restrict
<1>3. DOMAIN Drop(d, k) = DOMAIN d \ {k}
  BY DropValues
<1> QED
  BY <1>1, <1>2, <1>3, DictDef

\* An attribute of d[k] is assigned: nothing happens if k is not there.
LEMMA ExceptProperties ==
    ASSUME NEW K, NEW V, NEW d \in Dict(K, V), NEW k, NEW v, k \in DOMAIN d => v \in V
    PROVE  /\ [d EXCEPT ![k] = v] \in Dict(K, V)
           /\ DOMAIN [d EXCEPT ![k] = v] = DOMAIN d
           /\ \A x \in DOMAIN d \ {k} : [d EXCEPT ![k] = v][x] = d[x]
<1>1. d \in [DOMAIN d -> V] /\ DOMAIN d \subseteq K
  BY DictDef
<1>2. [d EXCEPT ![k] = v] \in [DOMAIN d -> V]
  BY <1>1
<1>3. DOMAIN [d EXCEPT ![k] = v] = DOMAIN d
  BY <1>1
<1>4. [d EXCEPT ![k] = v] \in Dict(K, V)
  BY <1>1, <1>2, <1>3, DictDef
<1> QED
  BY <1>1, <1>3, <1>4

\* A dict whose values are in a smaller set.
LEMMA DictValues ==
    ASSUME NEW K, NEW V, NEW W, NEW d \in Dict(K, V), \A k \in DOMAIN d : d[k] \in W
    PROVE  d \in Dict(K, W)
<1>1. d \in [DOMAIN d -> V] /\ DOMAIN d \subseteq K
  BY DictDef
<1>2. d \in [DOMAIN d -> W]
  BY <1>1
<1> QED
  BY <1>1, <1>2, DictDef

\* A value of a dict.
LEMMA DictValue ==
    ASSUME NEW K, NEW V, NEW d \in Dict(K, V), NEW k \in DOMAIN d
    PROVE  k \in K /\ d[k] \in V
<1>1. d \in [DOMAIN d -> V] /\ DOMAIN d \subseteq K
  BY DictDef
<1> QED
  BY <1>1

\* The empty dict has every type.
LEMMA EmptyDictProperties ==
    ASSUME NEW K, NEW V
    PROVE  EmptyDict \in Dict(K, V) /\ DOMAIN EmptyDict = {}
<1>1. DOMAIN EmptyDict = {}
  BY DEF EmptyDict
<1>2. EmptyDict \in [{} -> V]
  BY DEF EmptyDict
<1> QED
  BY <1>1, <1>2, DictDef
==============================================================================
