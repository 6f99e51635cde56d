------------------------- MODULE VolumeSizes_proofs -------------------------
(***************************************************************************)
(* What TotalSize is for every finite set of volumes, however the fold it  *)
(* is defined by goes through them.                                        *)
(*                                                                         *)
(* Induction is by a least counterexample: a non-empty set of subsets of a *)
(* finite set has a member none of whose proper subsets is in it.          *)
(***************************************************************************)
EXTENDS VolumeSizes, Integers, FiniteSetTheorems, TLAPS

LEMMA LeastSubset ==
    ASSUME NEW S, IsFiniteSet(S), NEW Bad, Bad \subseteq SUBSET S, Bad # {}
    PROVE  \E s \in Bad : \A t \in SUBSET s : t # s => t \notin Bad
<1>1. IsWellFoundedOn(StrictSubsetOrdering(S), SUBSET S)
  BY FS_StrictSubsetOrderingWellFounded, FS_FiniteSubsetsOfFinite
<1>2. PICK s \in Bad : \A t \in Bad : ~(<< t, s >> \in StrictSubsetOrdering(S))
  BY <1>1, WFMin
<1>3. \A t \in SUBSET s : t # s => << t, s >> \in StrictSubsetOrdering(S)
  BY DEF StrictSubsetOrdering
<1>4. ASSUME NEW t \in SUBSET s, t # s, t \in Bad
      PROVE  FALSE
  <2>1. << t, s >> \in StrictSubsetOrdering(S)
    BY <1>3, <1>4
  <2>q. QED  BY <1>2, <1>4, <2>1
<1>q. QED  BY <1>4

----------------------------------------------------------------------------
(* The function that the fold is the value of at the whole set. *)

Pick(s) == CHOOSE x \in s : TRUE

Sums(g, S) ==
    g = [s \in SUBSET S |-> IF s = {} THEN 0 ELSE Pick(s).size + g[s \ {Pick(s)}]]

LEMMA TotalSizeDef == \A S : TotalSize(S) = (CHOOSE g : Sums(g, S))[S]
BY DEF TotalSize, MapThenSumSet, MapThenFoldSet, Sums, Pick

LEMMA PickIn == \A s : s # {} => Pick(s) \in s
BY DEF Pick

LEMMA SumsAt ==
    ASSUME NEW S, NEW g, Sums(g, S), NEW s \in SUBSET S
    PROVE  g[s] = IF s = {} THEN 0 ELSE Pick(s).size + g[s \ {Pick(s)}]
BY DEF Sums

LEMMA SumsAgree ==
    ASSUME NEW T, NEW S \in SUBSET T, IsFiniteSet(S), NEW g, NEW h, Sums(g, S), Sums(h, T)
    PROVE  \A s \in SUBSET S : g[s] = h[s]
<1> DEFINE Bad == {s \in SUBSET S : g[s] # h[s]}
<1>1. SUFFICES ASSUME Bad # {} PROVE FALSE
  OBVIOUS
<1>2. PICK s \in Bad : \A t \in SUBSET s : t # s => t \notin Bad
  <2>1. Bad \subseteq SUBSET S
    OBVIOUS
  <2> HIDE DEF Bad
  <2>q. QED  BY <1>1, <2>1, LeastSubset
<1>3. /\ g[s] = IF s = {} THEN 0 ELSE Pick(s).size + g[s \ {Pick(s)}]
      /\ h[s] = IF s = {} THEN 0 ELSE Pick(s).size + h[s \ {Pick(s)}]
  BY SumsAt
<1>4. s # {}
  BY <1>3
<1>5. s \ {Pick(s)} \in SUBSET s /\ s \ {Pick(s)} # s
  BY <1>4, PickIn
<1>6. g[s \ {Pick(s)}] = h[s \ {Pick(s)}]
  BY <1>2, <1>5
<1>q. QED  BY <1>3, <1>6

LEMMA SumsExist == ASSUME NEW S, IsFiniteSet(S) PROVE \E g : Sums(g, S)
<1> DEFINE Bad == {s \in SUBSET S : ~ \E g : Sums(g, s)}
<1>1. SUFFICES ASSUME Bad # {} PROVE FALSE
  OBVIOUS
<1>2. PICK s \in Bad : \A t \in SUBSET s : t # s => t \notin Bad
  <2>1. Bad \subseteq SUBSET S
    OBVIOUS
  <2> HIDE DEF Bad
  <2>q. QED  BY <1>1, <2>1, LeastSubset
<1>3. \A t \in SUBSET s : t # s => Sums(CHOOSE g : Sums(g, t), t)
  BY <1>2
<1>4. \A t \in SUBSET s : IsFiniteSet(t)
  BY FS_Subset
<1>5. ASSUME NEW t \in SUBSET s, t # s
      PROVE  TotalSize(t) = IF t = {} THEN 0 ELSE Pick(t).size + TotalSize(t \ {Pick(t)})
  <2> DEFINE k == CHOOSE g : Sums(g, t)
             u == t \ {Pick(t)}
             m == CHOOSE g : Sums(g, u)
  <2>1. k[t] = IF t = {} THEN 0 ELSE Pick(t).size + k[u]
    BY <1>3, <1>5, SumsAt
  <2>2. Sums(k, t)
    BY <1>3, <1>5
  <2>3. u \in SUBSET t /\ IsFiniteSet(u)
    BY <1>4
  <2>4. Sums(m, u)
    <3>1. u \in SUBSET s /\ u # s
      BY <1>5
    <3>q. QED  BY <1>3, <3>1
  <2>5. k[u] = m[u]
    <3> HIDE DEF k, u, m, Bad
    <3>1. \A r \in SUBSET u : m[r] = k[r]
      BY <2>2, <2>3, <2>4, SumsAgree
    <3>q. QED  BY <3>1
  <2>6. TotalSize(t) = k[t] /\ TotalSize(u) = m[u]
    BY TotalSizeDef
  <2>q. QED  BY <2>1, <2>5, <2>6
<1> DEFINE G == [t \in SUBSET s |->
                   IF t = {} THEN 0 ELSE Pick(t).size + TotalSize(t \ {Pick(t)})]
<1>6. ASSUME NEW t \in SUBSET s, t # {}
      PROVE  G[t \ {Pick(t)}] = TotalSize(t \ {Pick(t)})
  <2>1. t \ {Pick(t)} \in SUBSET s /\ t \ {Pick(t)} # s
    BY <1>6, PickIn
  <2>q. QED  BY <1>5, <2>1
<1>7. G = [t \in SUBSET s |-> IF t = {} THEN 0 ELSE Pick(t).size + G[t \ {Pick(t)}]]
  BY <1>6
<1>8. Sums(G, s)
  BY <1>7 DEF Sums
<1>q. QED  BY <1>8

LEMMA TotalSizeStep ==
    ASSUME NEW S, IsFiniteSet(S)
    PROVE  TotalSize(S) = IF S = {} THEN 0 ELSE Pick(S).size + TotalSize(S \ {Pick(S)})
<1> DEFINE k == CHOOSE g : Sums(g, S)
           u == S \ {Pick(S)}
           m == CHOOSE g : Sums(g, u)
<1>1. Sums(k, S)
  BY SumsExist
<1>2. u \in SUBSET S /\ IsFiniteSet(u)
  BY FS_Subset
<1>3. Sums(m, u)
  BY <1>2, SumsExist
<1>4. k[S] = IF S = {} THEN 0 ELSE Pick(S).size + k[u]
  BY <1>1, SumsAt
<1>5. k[u] = m[u]
  <2> HIDE DEF k, u, m
  <2>q. QED  BY <1>1, <1>2, <1>3, SumsAgree
<1>6. TotalSize(S) = k[S] /\ TotalSize(u) = m[u]
  BY TotalSizeDef
<1>q. QED  BY <1>4, <1>5, <1>6

----------------------------------------------------------------------------
(* The total of no volumes, and with one volume more or less. *)

LEMMA TotalSizeEmpty == TotalSize({}) = 0
BY TotalSizeStep, FS_EmptySet

LEMMA TotalSizeType ==
    ASSUME NEW S, IsFiniteSet(S), \A v \in S : v.size \in Nat
    PROVE  TotalSize(S) \in Nat
<1> DEFINE Bad == {s \in SUBSET S : TotalSize(s) \notin Nat}
<1>1. SUFFICES ASSUME Bad # {} PROVE FALSE
  OBVIOUS
<1>2. PICK s \in Bad : \A t \in SUBSET s : t # s => t \notin Bad
  <2>1. Bad \subseteq SUBSET S
    OBVIOUS
  <2> HIDE DEF Bad
  <2>q. QED  BY <1>1, <2>1, LeastSubset
<1>3. TotalSize(s) = IF s = {} THEN 0 ELSE Pick(s).size + TotalSize(s \ {Pick(s)})
  BY TotalSizeStep, FS_Subset
<1>4. s # {}
  BY <1>3
<1>5. s \ {Pick(s)} \in SUBSET s /\ s \ {Pick(s)} # s
  BY <1>4, PickIn
<1>6. TotalSize(s \ {Pick(s)}) \in Nat /\ Pick(s).size \in Nat
  BY <1>2, <1>4, <1>5, PickIn
<1>q. QED  BY <1>3, <1>4, <1>6

(* What DeleteVolume gives back is the volume's part of the total, whatever *)
(* else is listed.                                                          *)
THEOREM TotalSizeRemove ==
    ASSUME NEW S, IsFiniteSet(S), \A v \in S : v.size \in Nat, NEW x \in S
    PROVE  TotalSize(S) = x.size + TotalSize(S \ {x})
<1> DEFINE Bad == {s \in SUBSET S : \E y \in s : TotalSize(s) # y.size + TotalSize(s \ {y})}
<1>1. SUFFICES ASSUME Bad # {} PROVE FALSE
  OBVIOUS
<1>2. PICK s \in Bad : \A t \in SUBSET s : t # s => t \notin Bad
  <2>1. Bad \subseteq SUBSET S
    OBVIOUS
  <2> HIDE DEF Bad
  <2>q. QED  BY <1>1, <2>1, LeastSubset
<1>3. PICK y \in s : TotalSize(s) # y.size + TotalSize(s \ {y})
  OBVIOUS
<1> DEFINE p == Pick(s)
           r == (s \ {p}) \ {y}
<1>4. p \in s /\ IsFiniteSet(s) /\ IsFiniteSet(s \ {p})
  BY <1>3, PickIn, FS_Subset
<1>5. TotalSize(s) = p.size + TotalSize(s \ {p})
  BY <1>3, <1>4, TotalSizeStep
<1>6. y # p
  BY <1>3, <1>5
<1>7. s \ {p} \in SUBSET S /\ s \ {p} \in SUBSET s /\ s \ {p} # s /\ y \in s \ {p}
  BY <1>4, <1>6
<1>8. TotalSize(s \ {p}) = y.size + TotalSize(r)
  BY <1>2, <1>7
<1>9. s \ {y} \in SUBSET S /\ s \ {y} \in SUBSET s /\ s \ {y} # s /\ p \in s \ {y}
  BY <1>3, <1>4, <1>6
<1>10. TotalSize(s \ {y}) = p.size + TotalSize((s \ {y}) \ {p})
  BY <1>2, <1>9
<1>11. TotalSize(s \ {y}) = p.size + TotalSize(r)
  <2>1. (s \ {y}) \ {p} = r
    OBVIOUS
  <2>q. QED  BY <1>10, <2>1
<1>12. TotalSize(r) \in Nat /\ p.size \in Nat /\ y.size \in Nat
  <2>1. r \in SUBSET S /\ IsFiniteSet(r)
    BY FS_Subset
  <2>2. TotalSize(r) \in Nat
    BY <2>1, TotalSizeType
  <2>q. QED  BY <1>4, <2>2
<1>13. TotalSize(s) = y.size + TotalSize(s \ {y})
  <2> DEFINE rest == TotalSize(r)
             ps == p.size
             ys == y.size
  <2>1. TotalSize(s) = ps + (ys + rest) /\ TotalSize(s \ {y}) = ps + rest
    BY <1>5, <1>8, <1>11
  <2>2. rest \in Nat /\ ps \in Nat /\ ys \in Nat
    BY <1>12
  <2> HIDE DEF rest, ps, ys
  <2>3. TotalSize(s) = ys + TotalSize(s \ {y})
    BY <2>1, <2>2
  <2>q. QED  BY <2>3 DEF ys
<1>q. QED  BY <1>3, <1>13

(* What CreateVolume takes is added to the total of what was listed.        *)
THEOREM TotalSizeAdd ==
    ASSUME NEW S, IsFiniteSet(S), \A v \in S : v.size \in Nat,
           NEW x, x \notin S, x.size \in Nat
    PROVE  TotalSize(S \cup {x}) = x.size + TotalSize(S)
<1>1. IsFiniteSet(S \cup {x})
  BY FS_AddElement
<1>2. (S \cup {x}) \ {x} = S
  OBVIOUS
<1>q. QED  BY <1>1, <1>2, TotalSizeRemove

(* A part of the volumes takes no more than all of them.                    *)
THEOREM TotalSizeSubset ==
    ASSUME NEW S, IsFiniteSet(S), \A v \in S : v.size \in Nat, NEW T \in SUBSET S
    PROVE  TotalSize(T) <= TotalSize(S)
<1> DEFINE Bad == {s \in SUBSET S : T \subseteq s /\ ~(TotalSize(T) <= TotalSize(s))}
<1>0. \A s \in SUBSET S : IsFiniteSet(s) /\ TotalSize(s) \in Nat
  BY FS_Subset, TotalSizeType
<1>1. SUFFICES ASSUME Bad # {} PROVE FALSE
  OBVIOUS
<1>2. PICK s \in Bad : \A t \in SUBSET s : t # s => t \notin Bad
  <2>1. Bad \subseteq SUBSET S
    OBVIOUS
  <2> HIDE DEF Bad
  <2>q. QED  BY <1>1, <2>1, LeastSubset
<1>3. s \in SUBSET S /\ T \subseteq s /\ ~(TotalSize(T) <= TotalSize(s))
  OBVIOUS
<1>4. T # s
  <2>1. TotalSize(s) \in Nat
    BY <1>0, <1>3
  <2>q. QED  BY <1>3, <2>1
<1>5. PICK y \in s : y \notin T
  BY <1>3, <1>4
<1>6. s \ {y} \in SUBSET S /\ T \subseteq s \ {y} /\ s \ {y} # s /\ s \ {y} \in SUBSET s
  BY <1>3, <1>5
<1>7. TotalSize(T) <= TotalSize(s \ {y})
  BY <1>2, <1>6
<1>8. TotalSize(s) = y.size + TotalSize(s \ {y}) /\ y.size \in Nat
  BY <1>0, <1>3, TotalSizeRemove
<1>9. TotalSize(T) \in Nat /\ TotalSize(s \ {y}) \in Nat
  BY <1>0, <1>6
<1>q. QED  BY <1>3, <1>7, <1>8, <1>9
=============================================================================
