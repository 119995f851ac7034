------------------------- MODULE PolicyEngineProofs -------------------------
(***************************************************************************)
(* Proofs about PolicyEngine for any policy names, client groups and VLAN  *)
(* ids.                                                                    *)
(*                                                                         *)
(* IndexSound and InSync are not inductive: a restart takes the policies   *)
(* from the table and rebuilds the index from them.  EngineInv adds what   *)
(* the table must satisfy for that to give a sound engine again.           *)
(***************************************************************************)
EXTENDS PolicyEngine, DictTheorems
LOCAL INSTANCE Functions

-----------------------------------------------------------------------------
(* Saving and loading *)

\* Of policies with distinct groups the UNIQUE constraint drops none.
LEMMA AllRowsInserted ==
    ASSUME NEW ps \in Dict(PolicyNames, Policy), DistinctGroups(ps),
           NEW rows \in InsertedRows(ps)
    PROVE  rows = ps
<1>1. PICK S \in SUBSET DOMAIN ps :
        /\ \A n \in DOMAIN ps : \E m \in S : ps[m].group = ps[n].group
        /\ rows = Restrict(ps, S)
  BY DEF InsertedRows
<1>2. S = DOMAIN ps
  BY <1>1 DEF DistinctGroups
<1>3. ps \in [DOMAIN ps -> Policy]
  BY DictDef
<1> QED
  BY <1>1, <1>2, <1>3 DEF Restrict

\* The index rebuilt from policies with distinct groups names, for each of
\* them, the policy itself.
LEMMA IndexOfSound ==
    ASSUME NEW ps \in Dict(PolicyNames, Policy), DistinctGroups(ps)
    PROVE  /\ IndexOf(ps) \in Dict(ClientGroups, PolicyNames)
           /\ DOMAIN IndexOf(ps) = {ps[n].group : n \in DOMAIN ps}
           /\ \A n \in DOMAIN ps : /\ ps[n].group \in DOMAIN IndexOf(ps)
                                   /\ IndexOf(ps)[ps[n].group] = n
<1> DEFINE G == {ps[n].group : n \in DOMAIN ps}
           Who(g) == CHOOSE n \in DOMAIN ps : ps[n].group = g
<1>1. ps \in [DOMAIN ps -> Policy] /\ DOMAIN ps \subseteq PolicyNames
  BY DictDef
<1>2. IndexOf(ps) = [g \in G |-> Who(g)]
  BY DEF IndexOf
<1>3. ASSUME NEW n \in DOMAIN ps
      PROVE  ps[n].group \in G /\ Who(ps[n].group) = n
  <2>1. Who(ps[n].group) \in DOMAIN ps /\ ps[Who(ps[n].group)].group = ps[n].group
    OBVIOUS
  <2> QED
    BY <2>1 DEF DistinctGroups
<1>4. G \subseteq ClientGroups
  BY <1>1 DEF Policy
<1>5. \A g \in G : Who(g) \in PolicyNames
  BY <1>1, <1>3
<1> HIDE DEF Who, G
<1>6. DOMAIN IndexOf(ps) = G /\ IndexOf(ps) \in [G -> PolicyNames]
  BY <1>2, <1>5
<1>7. IndexOf(ps) \in Dict(ClientGroups, PolicyNames)
  BY <1>4, <1>6, DictDef
<1>8. \A n \in DOMAIN ps : ps[n].group \in DOMAIN IndexOf(ps)
                           /\ IndexOf(ps)[ps[n].group] = n
  BY <1>2, <1>3, <1>6
<1> QED
  BY <1>6, <1>7, <1>8 DEF G

\* In a sound engine no two policies share a group.
LEMMA SoundIsDistinct ==
    IndexSound => DistinctGroups(policies)
BY DEF IndexSound, DistinctGroups

\* A save, after an operation that left the engine sound, keeps the invariant.
LEMMA SaveKeepsInv ==
    ASSUME EngineInv, SaveData,
           policies' \in Dict(PolicyNames, Policy),
           groupIndex' \in Dict(ClientGroups, PolicyNames),
           IndexSound',
           VlansConsistent(policies)'
    PROVE  EngineInv'
<1>1. DistinctGroups(policies)'
  BY DEF IndexSound, DistinctGroups
<1>2. CASE table' \in InsertedRows(policies') /\ saved' = TRUE
  <2>1. table' = policies'
    BY <1>1, <1>2, AllRowsInserted DEF DistinctGroups
  <2> QED
    BY <1>1, <1>2, <2>1 DEF EngineInv, TypeOK, InSync, DistinctGroups, VlansConsistent
<1>3. CASE saved' = FALSE /\ UNCHANGED table
  BY <1>3 DEF EngineInv, TypeOK, InSync, DistinctGroups, VlansConsistent
<1> QED
  BY <1>2, <1>3 DEF SaveData

-----------------------------------------------------------------------------
(* The operations keep the invariant *)

LEMMA ValidatedVlanIsStored ==
    ASSUME NEW d \in Decisions, NEW v \in VlanInputs \cup {None}, ValidateVlan(d, v)
    PROVE  /\ StoredVlan(d, v) \in StoredVlans
           /\ d = "accept_with_vlan" <=> StoredVlan(d, v) # None
<1>1. CASE d = "accept_with_vlan"
  <2>1. v \in VlanInputs /\ v \in Int
    BY <1>1, VlanInputsAreIntegers DEF ValidateVlan
  <2> QED
    BY <1>1, <2>1 DEF ValidateVlan, StoredVlan, StoredVlans
<1>2. CASE d # "accept_with_vlan"
  BY <1>2 DEF StoredVlan, StoredVlans
<1> QED
  BY <1>1, <1>2

LEMMA CreateKeepsInv ==
    ASSUME EngineInv,
           NEW n \in PolicyNames, NEW g \in ClientGroups, NEW d \in Decisions,
           NEW v \in VlanInputs \cup {None}, CreatePolicy(n, g, d, v)
    PROVE  EngineInv'
<1> DEFINE p == [group |-> g, decision |-> d, vlan |-> StoredVlan(d, v)]
<1>1. p \in Policy /\ (d = "accept_with_vlan" <=> p.vlan # None)
  <2>1. ValidateVlan(d, v)
    BY DEF CreatePolicy
  <2>2. /\ StoredVlan(d, v) \in StoredVlans
        /\ d = "accept_with_vlan" <=> StoredVlan(d, v) # None
    BY <2>1, ValidatedVlanIsStored
  <2> QED
    BY <2>2 DEF Policy
<1>2. /\ policies' = Put(policies, n, p)
      /\ groupIndex' = Put(groupIndex, g, n)
      /\ g \notin DOMAIN groupIndex
      /\ SaveData
  BY DEF CreatePolicy
<1> HIDE DEF p
<1>0. TypeOK /\ IndexSound /\ VlansConsistent(policies)
  BY DEF EngineInv
<1>3. /\ policies' \in Dict(PolicyNames, Policy)
      /\ DOMAIN policies' = DOMAIN policies \cup {n}
      /\ policies'[n] = p
      /\ \A m \in DOMAIN policies \ {n} : policies'[m] = policies[m]
  BY <1>1, <1>2, <1>0, PutProperties DEF TypeOK
<1>4. /\ groupIndex' \in Dict(ClientGroups, PolicyNames)
      /\ DOMAIN groupIndex' = DOMAIN groupIndex \cup {g}
      /\ groupIndex'[g] = n
      /\ \A h \in DOMAIN groupIndex \ {g} : groupIndex'[h] = groupIndex[h]
  BY <1>2, <1>0, PutProperties DEF TypeOK
<1>5. IndexSound'
  BY <1>2, <1>3, <1>4, <1>0 DEF IndexSound, p
<1>6. VlansConsistent(policies)'
  BY <1>1, <1>3, <1>0 DEF VlansConsistent, p
<1> QED
  BY <1>2, <1>3, <1>4, <1>5, <1>6, SaveKeepsInv

LEMMA UpdateKeepsInv ==
    ASSUME EngineInv,
           NEW n \in PolicyNames, NEW d \in Decisions \cup {None},
           NEW v \in VlanInputs \cup {None}, UpdatePolicy(n, d, v)
    PROVE  EngineInv'
<1> DEFINE newD == OrElse(d, policies[n].decision)
           newV == OrElse(v, policies[n].vlan)
<1> USE DEF EngineInv
<1>1. policies \in [DOMAIN policies -> Policy] /\ DOMAIN policies \subseteq PolicyNames
  BY DictDef DEF TypeOK
<1>2. /\ n \in DOMAIN policies
      /\ ValidateVlan(newD, newV)
      /\ policies' = [policies EXCEPT ![n].decision = newD,
                                      ![n].vlan = StoredVlan(newD, newV)]
      /\ groupIndex' = groupIndex
      /\ SaveData
  BY DEF UpdatePolicy
<1>3. newD \in Decisions /\ newV \in VlanInputs \cup {None}
  BY <1>1, <1>2 DEF OrElse, Policy, StoredVlans
<1>4. /\ StoredVlan(newD, newV) \in StoredVlans
      /\ newD = "accept_with_vlan" <=> StoredVlan(newD, newV) # None
  BY <1>2, <1>3, ValidatedVlanIsStored
<1> HIDE DEF newD, newV
<1>5. /\ policies' \in [DOMAIN policies -> Policy]
      /\ DOMAIN policies' = DOMAIN policies
      /\ \A m \in DOMAIN policies : policies'[m].group = policies[m].group
      /\ policies'[n].decision = newD
      /\ policies'[n].vlan = StoredVlan(newD, newV)
      /\ \A m \in DOMAIN policies \ {n} : policies'[m] = policies[m]
  BY <1>1, <1>2, <1>3, <1>4 DEF Policy
<1>6. policies' \in Dict(PolicyNames, Policy)
  BY <1>1, <1>5, DictDef
<1>7. groupIndex' \in Dict(ClientGroups, PolicyNames)
  BY <1>2 DEF TypeOK
<1>8. IndexSound'
  BY <1>2, <1>5 DEF IndexSound
<1>9. VlansConsistent(policies)'
  BY <1>4, <1>5 DEF VlansConsistent
<1> QED
  BY <1>2, <1>6, <1>7, <1>8, <1>9, SaveKeepsInv

LEMMA DeleteKeepsInv ==
    ASSUME EngineInv, NEW n \in PolicyNames, DeletePolicy(n)
    PROVE  EngineInv'
<1> USE DEF EngineInv
<1>0. policies[n].group \in ClientGroups
  <2>1. policies \in [DOMAIN policies -> Policy] /\ n \in DOMAIN policies
    BY DictDef DEF DeletePolicy, TypeOK
  <2> QED
    BY <2>1 DEF Policy
<1> DEFINE g == policies[n].group
<1>1. /\ n \in DOMAIN policies
      /\ policies' = Drop(policies, n)
      /\ groupIndex' = Drop(groupIndex, g)
      /\ SaveData
  BY DEF DeletePolicy
<1>2. /\ policies' \in Dict(PolicyNames, Policy)
      /\ DOMAIN policies' = DOMAIN policies \ {n}
      /\ \A m \in DOMAIN policies \ {n} : policies'[m] = policies[m]
  <2>1. policies \in Dict(PolicyNames, Policy)
    BY DEF TypeOK
  <2> HIDE DEF g, EngineInv
  <2> QED
    BY <1>1, <2>1, DropProperties
<1>3. /\ groupIndex' \in Dict(ClientGroups, PolicyNames)
      /\ DOMAIN groupIndex' = DOMAIN groupIndex \ {g}
      /\ \A h \in DOMAIN groupIndex \ {g} : groupIndex'[h] = groupIndex[h]
  <2>1. groupIndex \in Dict(ClientGroups, PolicyNames) /\ g \in ClientGroups
    BY <1>0 DEF TypeOK
  <2> HIDE DEF g
  <2> QED
    BY <1>1, <2>1, DropProperties
<1>4. IndexSound'
  BY <1>1, <1>2, <1>3 DEF IndexSound
<1>5. VlansConsistent(policies)'
  BY <1>2 DEF VlansConsistent
<1> QED
  BY <1>1, <1>2, <1>3, <1>4, <1>5, SaveKeepsInv

LEMMA RestartKeepsInv ==
    ASSUME EngineInv, Restart
    PROVE  EngineInv'
<1> USE DEF EngineInv
<1>1. policies' = table /\ table' = table /\ groupIndex' = IndexOf(table)
      /\ saved' = TRUE
  BY DEF Restart
<1>2. /\ IndexOf(table) \in Dict(ClientGroups, PolicyNames)
      /\ \A n \in DOMAIN table : /\ table[n].group \in DOMAIN IndexOf(table)
                                 /\ IndexOf(table)[table[n].group] = n
  BY IndexOfSound DEF TypeOK
<1>3. TypeOK'
  BY <1>1, <1>2 DEF TypeOK
<1>4. IndexSound'
  BY <1>1, <1>2 DEF IndexSound
<1> QED
  BY <1>1, <1>3, <1>4 DEF InSync, DistinctGroups, VlansConsistent

LEMMA RestartUnreadableKeepsInv ==
    ASSUME EngineInv, RestartUnreadable
    PROVE  EngineInv'
<1> USE DEF EngineInv
<1>1. policies' = EmptyDict /\ groupIndex' = EmptyDict /\ saved' = FALSE
      /\ table' = table
  BY DEF RestartUnreadable
<1>2. TypeOK'
  BY <1>1, EmptyDictProperties DEF TypeOK
<1>3. IndexSound' /\ VlansConsistent(policies)'
  BY <1>1, EmptyDictProperties DEF IndexSound, VlansConsistent
<1> QED
  BY <1>1, <1>2, <1>3 DEF InSync, DistinctGroups, VlansConsistent

-----------------------------------------------------------------------------
(* The invariant, and what follows from it *)

LEMMA InitInv == Init => EngineInv
<1> SUFFICES ASSUME Init PROVE EngineInv
  OBVIOUS
<1>1. TypeOK
  BY EmptyDictProperties DEF Init, TypeOK
<1> QED
  BY <1>1, EmptyDictProperties
     DEF Init, EngineInv, IndexSound, InSync, DistinctGroups, VlansConsistent

LEMMA NextKeepsInv == EngineInv /\ [Next]_vars => EngineInv'
<1> SUFFICES ASSUME EngineInv, [Next]_vars PROVE EngineInv'
  OBVIOUS
<1>1. CASE \E n \in PolicyNames, g \in ClientGroups, d \in Decisions,
              v \in VlanInputs \cup {None} : CreatePolicy(n, g, d, v)
  BY <1>1, CreateKeepsInv
<1>2. CASE \E n \in PolicyNames, d \in Decisions \cup {None},
              v \in VlanInputs \cup {None} : UpdatePolicy(n, d, v)
  BY <1>2, UpdateKeepsInv
<1>3. CASE \E n \in PolicyNames : DeletePolicy(n)
  BY <1>3, DeleteKeepsInv
<1>4. CASE Restart
  BY <1>4, RestartKeepsInv
<1>5. CASE RestartUnreadable
  BY <1>5, RestartUnreadableKeepsInv
<1>6. CASE UNCHANGED vars
  BY <1>6 DEF vars, EngineInv, TypeOK, IndexSound, InSync, DistinctGroups, VlansConsistent
<1> QED
  BY <1>1, <1>2, <1>3, <1>4, <1>5, <1>6 DEF Next, OtherStep

\* Whatever operations, failed saves and restarts, the engine keeps its
\* inductive invariant.
THEOREM EngineInvariant == Spec => []EngineInv
<1> QED
  BY InitInv, NextKeepsInv, PTL DEF Spec

\* The types are kept; no stored VLAN is outside 1-4094.
THEOREM TypeCorrect == Spec => []TypeOK
<1>1. EngineInv => TypeOK
  BY DEF EngineInv
<1> QED
  BY <1>1, EngineInvariant, PTL

\* One policy per client group, and the index finds it.
THEOREM OnePolicyPerGroup == Spec => []IndexSound
<1>1. EngineInv => IndexSound
  BY DEF EngineInv
<1> QED
  BY <1>1, EngineInvariant, PTL

\* A save that succeeded loses no policy.
THEOREM SavesAreComplete == Spec => []InSync
<1>1. EngineInv => InSync
  BY DEF EngineInv
<1> QED
  BY <1>1, EngineInvariant, PTL

\* A verdict carries a VLAN exactly when its decision assigns one.
THEOREM VerdictVlan == Spec => []VlanMatchesDecision
<1>1. EngineInv => VlanMatchesDecision
  BY DEF EngineInv, VlansConsistent, VlanMatchesDecision, Evaluate, EvaluateWith
<1> QED
  BY <1>1, EngineInvariant, PTL

-----------------------------------------------------------------------------
(***************************************************************************)
(* Proofs about the engine whose administrators do not reuse names         *)
(* (FreshSpec): its index is exactly what a restart rebuilds, so no        *)
(* verdict comes from another group's policy, no group is refused as a     *)
(* duplicate without having a policy, and the engine implements            *)
(* PolicyStore.                                                            *)
(***************************************************************************)

-----------------------------------------------------------------------------
(* The index of a fresh engine *)

\* A sound and exact index is the one that loading the policies builds.
LEMMA ExactIndexIsRebuilt ==
    ASSUME NEW ps \in Dict(PolicyNames, Policy),
           NEW index \in Dict(ClientGroups, PolicyNames),
           \A n \in DOMAIN ps : /\ ps[n].group \in DOMAIN index
                                /\ index[ps[n].group] = n,
           \A g \in DOMAIN index : /\ index[g] \in DOMAIN ps
                                   /\ ps[index[g]].group = g
    PROVE  IndexOf(ps) = index
<1>1. DistinctGroups(ps)
  BY DEF DistinctGroups
<1>2. /\ IndexOf(ps) \in Dict(ClientGroups, PolicyNames)
      /\ DOMAIN IndexOf(ps) = {ps[n].group : n \in DOMAIN ps}
      /\ \A n \in DOMAIN ps : IndexOf(ps)[ps[n].group] = n
  BY <1>1, IndexOfSound
<1>3. DOMAIN IndexOf(ps) = DOMAIN index
  BY <1>2
<1>4. \A g \in DOMAIN index : IndexOf(ps)[g] = index[g]
  BY <1>2
<1>5. /\ IndexOf(ps) \in [DOMAIN index -> PolicyNames]
      /\ index \in [DOMAIN index -> PolicyNames]
  BY <1>2, <1>3, DictDef
<1> QED
  BY <1>4, <1>5

\* What loading builds is exact.
LEMMA IndexOfExact ==
    ASSUME NEW ps \in Dict(PolicyNames, Policy), DistinctGroups(ps),
           NEW g \in DOMAIN IndexOf(ps)
    PROVE  IndexOf(ps)[g] \in DOMAIN ps /\ ps[IndexOf(ps)[g]].group = g
<1>1. /\ DOMAIN IndexOf(ps) = {ps[n].group : n \in DOMAIN ps}
      /\ \A n \in DOMAIN ps : IndexOf(ps)[ps[n].group] = n
  BY IndexOfSound
<1>2. PICK n \in DOMAIN ps : g = ps[n].group
  BY <1>1
<1> QED
  BY <1>1, <1>2

\* The operations keep the exact index, and change the verdict of one group at
\* most.
LEMMA FreshCreateKeepsInv ==
    ASSUME FreshInv,
           NEW n \in PolicyNames \ DOMAIN policies, NEW g \in ClientGroups,
           NEW d \in Decisions, NEW v \in VlanInputs \cup {None},
           CreatePolicy(n, g, d, v)
    PROVE  /\ FreshInv'
           /\ SaveData
           /\ \A h \in ClientGroups \ {g} : Evaluate(h)' = Evaluate(h)
<1> DEFINE p == [group |-> g, decision |-> d, vlan |-> StoredVlan(d, v)]
<1>1. /\ policies' = Put(policies, n, p)
      /\ groupIndex' = Put(groupIndex, g, n)
      /\ SaveData
  BY DEF CreatePolicy
<1>2. EngineInv'
  BY CreateKeepsInv DEF FreshInv
<1>3. p.group = g
  OBVIOUS
<1> HIDE DEF p
<1>4. /\ DOMAIN policies' = DOMAIN policies \cup {n}
      /\ policies'[n] = p
      /\ \A m \in DOMAIN policies \ {n} : policies'[m] = policies[m]
  BY <1>1 DEF Put
<1>5. /\ DOMAIN groupIndex' = DOMAIN groupIndex \cup {g}
      /\ groupIndex'[g] = n
      /\ \A h \in DOMAIN groupIndex \ {g} : groupIndex'[h] = groupIndex[h]
  BY <1>1 DEF Put
<1>6. IndexExact
  BY DEF FreshInv
<1>7. IndexExact'
  BY <1>3, <1>4, <1>5, <1>6 DEF IndexExact
<1>8. ASSUME NEW h \in ClientGroups \ {g} PROVE Evaluate(h)' = Evaluate(h)
  <2>1. CASE h \in DOMAIN groupIndex
    <3>1. /\ groupIndex[h] \in DOMAIN policies
          /\ groupIndex'[h] = groupIndex[h] /\ h \in DOMAIN groupIndex'
          /\ policies'[groupIndex[h]] = policies[groupIndex[h]]
          /\ groupIndex[h] \in DOMAIN policies'
      BY <1>4, <1>5, <1>6, <2>1 DEF IndexExact
    <3> QED
      BY <2>1, <3>1 DEF Evaluate, EvaluateWith
  <2>2. CASE h \notin DOMAIN groupIndex
    BY <1>5, <2>2 DEF Evaluate, EvaluateWith
  <2> QED
    BY <2>1, <2>2
<1> QED
  BY <1>1, <1>2, <1>7, <1>8 DEF FreshInv

LEMMA FreshUpdateKeepsInv ==
    ASSUME FreshInv,
           NEW n \in PolicyNames, NEW d \in Decisions \cup {None},
           NEW v \in VlanInputs \cup {None}, UpdatePolicy(n, d, v)
    PROVE  /\ FreshInv'
           /\ SaveData
           /\ n \in DOMAIN policies
           /\ \A h \in ClientGroups \ {policies[n].group} :
                  Evaluate(h)' = Evaluate(h)
<1>1. EngineInv'
  BY UpdateKeepsInv DEF FreshInv
<1>2. /\ n \in DOMAIN policies
      /\ groupIndex' = groupIndex
      /\ SaveData
  BY DEF UpdatePolicy
<1>3. /\ DOMAIN policies' = DOMAIN policies
      /\ policies'[n].group = policies[n].group
      /\ \A m \in DOMAIN policies \ {n} : policies'[m] = policies[m]
  <2>1. policies \in [DOMAIN policies -> Policy]
    BY DictDef DEF FreshInv, EngineInv, TypeOK
  <2> QED
    BY <2>1, <1>2 DEF UpdatePolicy, Policy
<1>4. IndexExact
  BY DEF FreshInv
<1>5. IndexExact'
  BY <1>2, <1>3, <1>4 DEF IndexExact
<1>6. ASSUME NEW h \in ClientGroups \ {policies[n].group}
      PROVE  Evaluate(h)' = Evaluate(h)
  BY <1>2, <1>3, <1>4 DEF IndexExact, Evaluate, EvaluateWith
<1> QED
  BY <1>1, <1>2, <1>5, <1>6 DEF FreshInv

LEMMA FreshDeleteKeepsInv ==
    ASSUME FreshInv, NEW n \in PolicyNames, DeletePolicy(n)
    PROVE  /\ FreshInv'
           /\ SaveData
           /\ n \in DOMAIN policies
           /\ \A h \in ClientGroups \ {policies[n].group} :
                  Evaluate(h)' = Evaluate(h)
<1> DEFINE g == policies[n].group
<1>1. /\ n \in DOMAIN policies
      /\ policies' = Drop(policies, n)
      /\ groupIndex' = Drop(groupIndex, g)
      /\ SaveData
  BY DEF DeletePolicy
<1>2. EngineInv'
  BY DeleteKeepsInv DEF FreshInv
<1>3. /\ DOMAIN policies' = DOMAIN policies \ {n}
      /\ \A m \in DOMAIN policies \ {n} : policies'[m] = policies[m]
  BY <1>1 DEF Drop, Restrict
<1>4. /\ DOMAIN groupIndex' = DOMAIN groupIndex \ {g}
      /\ \A h \in DOMAIN groupIndex \ {g} : groupIndex'[h] = groupIndex[h]
  BY <1>1 DEF Drop, Restrict
<1>5. IndexExact /\ groupIndex[g] = n
  BY <1>1 DEF FreshInv, EngineInv, IndexSound
<1> HIDE DEF g
<1>6. IndexExact'
  <2> SUFFICES ASSUME NEW h \in DOMAIN groupIndex'
               PROVE  groupIndex'[h] \in DOMAIN policies'
                      /\ policies'[groupIndex'[h]].group = h
    BY DEF IndexExact
  <2>1. h \in DOMAIN groupIndex /\ h # g /\ groupIndex'[h] = groupIndex[h]
    BY <1>4
  <2>2. groupIndex[h] \in DOMAIN policies /\ policies[groupIndex[h]].group = h
    BY <1>5, <2>1 DEF IndexExact
  <2>3. groupIndex[h] # n
    BY <2>1, <2>2 DEF g
  <2> QED
    BY <1>3, <2>1, <2>2, <2>3
<1>7. ASSUME NEW h \in ClientGroups \ {g} PROVE Evaluate(h)' = Evaluate(h)
  <2>1. CASE h \in DOMAIN groupIndex
    <3>1. groupIndex[h] \in DOMAIN policies /\ policies[groupIndex[h]].group = h
      BY <1>5, <2>1 DEF IndexExact
    <3>2. groupIndex[h] # n
      BY <3>1 DEF g
    <3> QED
      BY <1>3, <1>4, <2>1, <3>1, <3>2 DEF Evaluate, EvaluateWith
  <2>2. CASE h \notin DOMAIN groupIndex
    BY <1>4, <2>2 DEF Evaluate, EvaluateWith
  <2> QED
    BY <2>1, <2>2
<1> QED
  BY <1>1, <1>2, <1>6, <1>7 DEF FreshInv, g

\* A restart rebuilds an exact index, or an empty one.
LEMMA FreshRestartKeepsInv ==
    ASSUME FreshInv, Restart
    PROVE  FreshInv'
<1>1. EngineInv'
  BY RestartKeepsInv DEF FreshInv
<1>2. policies' = table /\ groupIndex' = IndexOf(table)
  BY DEF Restart
<1>3. table \in Dict(PolicyNames, Policy) /\ DistinctGroups(table)
  BY DEF FreshInv, EngineInv, TypeOK
<1>4. IndexExact'
  BY <1>2, <1>3, IndexOfExact DEF IndexExact
<1> QED
  BY <1>1, <1>4 DEF FreshInv

LEMMA FreshRestartUnreadableKeepsInv ==
    ASSUME FreshInv, RestartUnreadable
    PROVE  FreshInv'
<1>1. EngineInv'
  BY RestartUnreadableKeepsInv DEF FreshInv
<1>2. DOMAIN groupIndex' = {}
  BY DEF RestartUnreadable, EmptyDict
<1>3. IndexExact'
  BY <1>2 DEF IndexExact
<1> QED
  BY <1>1, <1>3 DEF FreshInv

-----------------------------------------------------------------------------
(* The invariant of the fresh engine, and what follows from it *)

LEMMA FreshInitInv == Init => FreshInv
<1>1. Init => IndexExact
  BY DEF Init, IndexExact, EmptyDict
<1> QED
  BY <1>1, InitInv DEF FreshInv

LEMMA FreshNextKeepsInv == FreshInv /\ [FreshNext]_vars => FreshInv'
<1> SUFFICES ASSUME FreshInv, [FreshNext]_vars PROVE FreshInv'
  OBVIOUS
<1>1. CASE \E n \in PolicyNames \ DOMAIN policies, g \in ClientGroups,
              d \in Decisions, v \in VlanInputs \cup {None} : CreatePolicy(n, g, d, v)
  BY <1>1, FreshCreateKeepsInv
<1>2. CASE \E n \in PolicyNames, d \in Decisions \cup {None},
              v \in VlanInputs \cup {None} : UpdatePolicy(n, d, v)
  BY <1>2, FreshUpdateKeepsInv
<1>3. CASE \E n \in PolicyNames : DeletePolicy(n)
  BY <1>3, FreshDeleteKeepsInv
<1>4. CASE Restart
  BY <1>4, FreshRestartKeepsInv
<1>5. CASE RestartUnreadable
  BY <1>5, FreshRestartUnreadableKeepsInv
<1>6. CASE UNCHANGED vars
  BY <1>6 DEF vars, FreshInv, EngineInv, TypeOK, IndexSound, InSync,
              DistinctGroups, VlansConsistent, IndexExact
<1> QED
  BY <1>1, <1>2, <1>3, <1>4, <1>5, <1>6 DEF FreshNext, OtherStep

\* With distinct names the engine also keeps its index exact.
THEOREM FreshInvariant == FreshSpec => []FreshInv
<1> QED
  BY FreshInitInv, FreshNextKeepsInv, PTL DEF FreshSpec

\* While names are not reused, a verdict comes from a policy of its own group.
THEOREM OwnVerdict == FreshSpec => []VerdictOfOwnGroup
<1>1. FreshInv => VerdictOfOwnGroup
  BY DEF FreshInv, IndexExact, VerdictOfOwnGroup, Evaluate, EvaluateWith
<1> QED
  BY <1>1, FreshInvariant, PTL

\* While names are not reused, a group refused as a duplicate has a policy.
THEOREM NoPhantomDuplicate == FreshSpec => []DuplicateHasPolicy
<1>1. FreshInv => DuplicateHasPolicy
  BY DEF FreshInv, IndexExact, DuplicateHasPolicy
<1> QED
  BY <1>1, FreshInvariant, PTL

\* The index a restart would build from the policies is the index in use.
LEMMA IndexIsRebuilt ==
    ASSUME FreshInv
    PROVE  IndexOf(policies) = groupIndex
<1>1. /\ policies \in Dict(PolicyNames, Policy)
      /\ groupIndex \in Dict(ClientGroups, PolicyNames)
      /\ \A n \in DOMAIN policies : /\ policies[n].group \in DOMAIN groupIndex
                                    /\ groupIndex[policies[n].group] = n
      /\ \A g \in DOMAIN groupIndex : /\ groupIndex[g] \in DOMAIN policies
                                      /\ policies[groupIndex[g]].group = g
  BY DEF FreshInv, EngineInv, TypeOK, IndexSound, IndexExact
<1> QED
  BY <1>1, ExactIndexIsRebuilt

\* While names are not reused, a restart after a save that succeeded changes
\* no verdict.
THEOREM SavedVerdictsSurvive == FreshSpec => []RestartKeepsVerdicts
<1>1. FreshInv => RestartKeepsVerdicts
  BY IndexIsRebuilt
     DEF FreshInv, EngineInv, InSync, RestartKeepsVerdicts, Evaluate, EvaluateReloaded
<1> QED
  BY <1>1, FreshInvariant, PTL

-----------------------------------------------------------------------------
(* The refinement *)

\* Every answer of evaluate_policy is a verdict of the store.
LEMMA EvaluateIsVerdict ==
    ASSUME NEW ps \in Dict(PolicyNames, Policy), NEW index, NEW g
    PROVE  EvaluateWith(ps, index, g) \in
               [decision : Decisions, vlan : StoredVlans,
                policy : PolicyNames \cup {None}]
<1>1. ps \in [DOMAIN ps -> Policy] /\ DOMAIN ps \subseteq PolicyNames
  BY DictDef
<1>2. CASE g \in DOMAIN index /\ index[g] \in DOMAIN ps
  BY <1>1, <1>2 DEF EvaluateWith, Policy
<1>3. CASE ~(g \in DOMAIN index /\ index[g] \in DOMAIN ps)
  <2>1. EvaluateWith(ps, index, g) =
            [decision |-> "reject", vlan |-> None, policy |-> None]
    BY <1>3 DEF EvaluateWith
  <2>2. "reject" \in Decisions /\ None \in StoredVlans
    BY DEF Decisions, StoredVlans
  <2> QED
    BY <2>1, <2>2
<1> QED
  BY <1>2, <1>3

\* An operation that changes the answer of one group at most and ends with a
\* save is a change of the store.
LEMMA OperationIsChange ==
    ASSUME FreshInv, FreshInv', SaveData, NEW g \in ClientGroups,
           \A h \in ClientGroups \ {g} : Evaluate(h)' = Evaluate(h)
    PROVE  Store!Next
<1> DEFINE applied == [h \in ClientGroups |-> Evaluate(h)]
           durable == [h \in ClientGroups |-> EvaluateReloaded(h)]
<1>1. applied' = [applied EXCEPT ![g] = Evaluate(g)']
  OBVIOUS
<1>2. Evaluate(g)' \in [decision : Decisions, vlan : StoredVlans,
                        policy : PolicyNames \cup {None}]
  BY EvaluateIsVerdict DEF FreshInv, EngineInv, TypeOK, Evaluate
<1>3. durable' \in {applied', durable}
  <2>1. CASE table' \in InsertedRows(policies') /\ saved' = TRUE
    <3>1. table' = policies'
      BY <2>1 DEF FreshInv, EngineInv, InSync
    <3>2. IndexOf(policies') = groupIndex'
      <4>1. /\ policies' \in Dict(PolicyNames, Policy)
            /\ groupIndex' \in Dict(ClientGroups, PolicyNames)
            /\ \A n \in DOMAIN policies' :
                  /\ policies'[n].group \in DOMAIN groupIndex'
                  /\ groupIndex'[policies'[n].group] = n
            /\ \A h \in DOMAIN groupIndex' :
                  /\ groupIndex'[h] \in DOMAIN policies'
                  /\ policies'[groupIndex'[h]].group = h
        BY DEF FreshInv, EngineInv, TypeOK, IndexSound, IndexExact
      <4> QED
        BY <4>1, ExactIndexIsRebuilt
    <3>3. durable' = applied'
      BY <3>1, <3>2 DEF Evaluate, EvaluateReloaded
    <3> QED
      BY <3>3
  <2>2. CASE saved' = FALSE /\ UNCHANGED table
    <3>1. durable' = durable
      BY <2>2 DEF EvaluateReloaded
    <3> QED
      BY <3>1
  <2> QED
    BY <2>1, <2>2 DEF SaveData
<1> QED
  BY <1>1, <1>2, <1>3 DEF Store!Next, Store!Change

\* A restart that reads the table brings back the durable verdicts; one that
\* cannot leaves no group a policy.
LEMMA RestartIsReload ==
    ASSUME Restart \/ RestartUnreadable
    PROVE  Store!Next
<1> DEFINE applied == [h \in ClientGroups |-> Evaluate(h)]
           durable == [h \in ClientGroups |-> EvaluateReloaded(h)]
<1>1. durable' = durable
  BY DEF EvaluateReloaded, Restart, RestartUnreadable
<1>2. CASE Restart
  <2>1. applied' = durable
    BY <1>2 DEF Restart, Evaluate, EvaluateReloaded
  <2> QED
    BY <1>1, <2>1 DEF Store!Next, Store!Reload
<1>3. CASE RestartUnreadable
  <2>1. applied' = Store!NoPolicies
    BY <1>3 DEF RestartUnreadable, Evaluate, EvaluateWith, EmptyDict, Store!NoPolicies
  <2> QED
    BY <1>1, <2>1 DEF Store!Next, Store!Reload
<1> QED
  BY <1>2, <1>3

LEMMA InitIsStoreInit == Init => Store!Init
BY DEF Init, Evaluate, EvaluateReloaded, EvaluateWith, EmptyDict, IndexOf,
       Store!Init, Store!NoPolicies

LEMMA StepIsStoreStep ==
    FreshInv /\ FreshInv' /\ [FreshNext]_vars => [Store!Next]_(Store!vars)
<1> SUFFICES ASSUME FreshInv, FreshInv', [FreshNext]_vars
             PROVE  [Store!Next]_(Store!vars)
  OBVIOUS
<1>1. ASSUME NEW n \in PolicyNames \ DOMAIN policies, NEW g \in ClientGroups,
             NEW d \in Decisions, NEW v \in VlanInputs \cup {None},
             CreatePolicy(n, g, d, v)
      PROVE  Store!Next
  BY <1>1, FreshCreateKeepsInv, OperationIsChange
<1>2. \A n \in DOMAIN policies : policies[n].group \in ClientGroups
  <2>1. policies \in Dict(PolicyNames, Policy)
    BY DEF FreshInv, EngineInv, TypeOK
  <2>2. policies \in [DOMAIN policies -> Policy]
    BY <2>1, DictDef
  <2> QED
    BY <2>2 DEF Policy
<1>3. ASSUME NEW n \in PolicyNames, NEW d \in Decisions \cup {None},
             NEW v \in VlanInputs \cup {None}, UpdatePolicy(n, d, v)
      PROVE  Store!Next
  BY <1>2, <1>3, FreshUpdateKeepsInv, OperationIsChange
<1>4. ASSUME NEW n \in PolicyNames, DeletePolicy(n)
      PROVE  Store!Next
  BY <1>2, <1>4, FreshDeleteKeepsInv, OperationIsChange
<1>5. CASE UNCHANGED vars
  <2>1. UNCHANGED Store!vars
    BY <1>5 DEF vars, Store!vars, Evaluate, EvaluateReloaded
  <2> QED
    BY <2>1
<1> QED
  BY <1>1, <1>3, <1>4, <1>5, RestartIsReload DEF FreshNext, OtherStep

\* While names are not reused, each operation changes the verdict of one group
\* at most, in memory and (if the save succeeds) in the table, and a restart
\* brings back the durable verdicts or rejects every group.
THEOREM EngineImplementsStore == FreshSpec => ImplementsStore
<1>1. Init => Store!Init
  BY InitIsStoreInit
<1>2. FreshInv /\ FreshInv' /\ [FreshNext]_vars => [Store!Next]_(Store!vars)
  BY StepIsStoreStep
<1> QED
  BY <1>1, <1>2, FreshInvariant, PTL DEF FreshSpec, ImplementsStore, Store!Spec
=============================================================================
