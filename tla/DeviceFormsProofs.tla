-------------------------- MODULE DeviceFormsProofs --------------------------
(* Proofs about the forms on a device, for any accounts, tenants, published
   revisions, assignments and tasks at a time, and any number of events. *)
EXTENDS DeviceForms, SequenceTheorems, FiniteSetTheorems, TLAPS

-----------------------------------------------------------------------------
(* The least of some numbers, and induction over them.                      *)

(* Some numbers have a least one. *)
LEMMA LeastNumber ==
  ASSUME NEW S \in SUBSET Nat, S # {}
  PROVE  \E n \in S : \A m \in S : n <= m
<1> DEFINE Less == {pair \in Nat \X Nat : pair[1] < pair[2]}
<1>1. IsWellFoundedOn(Less, Nat)
  BY NatLessThanWellFounded DEF OpToRel
<1>2. PICK n \in S : \A m \in S : <<m, n>> \notin Less
  <2> HIDE DEF Less
  <2> QED BY <1>1, WFMin
<1>3. ASSUME NEW m \in S PROVE ~(m < n)
  BY <1>2
<1> QED BY <1>3

(* Induction over the numbers, for a given set. *)
LEMMA AllNumbers ==
  ASSUME NEW B \in SUBSET Nat, 0 \in B, \A n \in B : n + 1 \in B
  PROVE  \A n \in Nat : n \in B
<1> SUFFICES ASSUME Nat \ B # {} PROVE FALSE
  OBVIOUS
<1>1. PICK n \in Nat \ B : \A m \in Nat \ B : n <= m
  BY LeastNumber
<1>2. n > 0 /\ n - 1 \in Nat
  BY <1>1
<1>3. n - 1 \in B
  BY <1>1, <1>2
<1> QED BY <1>1, <1>2, <1>3

-----------------------------------------------------------------------------
(* Keep: the recursive function is there, and what it returns.              *)

KeptStep(s, K, g, n) ==
  IF n = 0 THEN << >> ELSE IF s[n] \in K THEN Append(g[n - 1], s[n]) ELSE g[n - 1]

(* The function that Keep chooses exists. *)
LEMMA KeptExists ==
  ASSUME NEW S, NEW s \in Seq(S), NEW K
  PROVE  \E g : g = [n \in 0 .. Len(s) |-> KeptStep(s, K, g, n)]
<1> DEFINE B == {m \in Nat : \E g : g = [n \in 0 .. m |-> KeptStep(s, K, g, n)]}
<1>1. 0 \in B
  <2> DEFINE g == [n \in 0 .. 0 |-> << >>]
  <2>1. g = [n \in 0 .. 0 |-> KeptStep(s, K, g, n)]
    BY DEF KeptStep
  <2> HIDE DEF g
  <2> QED BY <2>1
<1>2. ASSUME NEW m \in B PROVE m + 1 \in B
  <2>1. PICK g : g = [n \in 0 .. m |-> KeptStep(s, K, g, n)]
    BY <1>2
  <2> DEFINE h == [n \in 0 .. m + 1 |-> IF n = m + 1 THEN KeptStep(s, K, g, n) ELSE g[n]]
  <2>2. \A n \in 0 .. m + 1 : h[n] = KeptStep(s, K, h, n)
    <3> SUFFICES ASSUME NEW n \in 0 .. m + 1 PROVE h[n] = KeptStep(s, K, h, n)
      OBVIOUS
    <3>1. n # 0 => n - 1 \in 0 .. m /\ h[n - 1] = g[n - 1]
      BY <1>2
    <3>2. h[n] = KeptStep(s, K, g, n)
      <4>1. CASE n = m + 1
        BY <4>1
      <4>2. CASE n # m + 1
        <5>1. n \in 0 .. m
          BY <1>2, <4>2
        <5>2. g[n] = KeptStep(s, K, g, n)
          BY <2>1, <5>1
        <5>3. h[n] = g[n]
          BY <4>2
        <5> QED BY <5>2, <5>3
      <4> QED BY <4>1, <4>2
    <3> QED BY <3>1, <3>2 DEF KeptStep
  <2>3. h = [n \in 0 .. m + 1 |-> KeptStep(s, K, h, n)]
    <3>1. h = [n \in 0 .. m + 1 |-> h[n]]
      OBVIOUS
    <3> HIDE DEF h
    <3> QED BY <2>2, <3>1
  <2> HIDE DEF h
  <2> QED BY <1>2, <2>3
<1>3. Len(s) \in Nat
  BY LenProperties
<1> HIDE DEF B
<1>4. Len(s) \in B
  BY <1>1, <1>2, <1>3, AllNumbers DEF B
<1> QED BY <1>4 DEF B

(* Keep leaves the elements of a sequence that are in a set, in their order. *)
LEMMA KeptFacts ==
  ASSUME NEW S, NEW s \in Seq(S), NEW K
  PROVE  /\ Keep(s, K) \in Seq(S)
         /\ ToSet(Keep(s, K)) = ToSet(s) \cap K
         /\ \A p, q \in 1 .. Len(Keep(s, K)) : p < q =>
              \E i, j \in 1 .. Len(s) : i < j /\ Keep(s, K)[p] = s[i] /\ Keep(s, K)[q] = s[j]
<1> DEFINE IsKept(g) == g = [n \in 0 .. Len(s) |-> KeptStep(s, K, g, n)]
           kept == CHOOSE g : IsKept(g)
<1>1. IsKept(kept)
  BY KeptExists
<1>2. Keep(s, K) = kept[Len(s)]
  BY DEF Keep, KeptStep
<1>3. \A n \in 0 .. Len(s) : kept[n] = KeptStep(s, K, kept, n)
  <2> HIDE DEF kept
  <2> QED BY <1>1
<1>0. Len(s) \in Nat /\ DOMAIN s = 1 .. Len(s) /\ \A n \in 1 .. Len(s) : s[n] \in S
  BY LenProperties, ElementOfSeq
<1> HIDE DEF kept, IsKept
<1> DEFINE Good(r, n) ==
      /\ r \in Seq(S)
      /\ {r[i] : i \in 1 .. Len(r)} = {s[i] : i \in 1 .. n} \cap K
      /\ \A p, q \in 1 .. Len(r) : p < q =>
           \E i, j \in 1 .. n : i < j /\ r[p] = s[i] /\ r[q] = s[j]
           B == {n \in Nat : n <= Len(s) => Good(kept[n], n)}
<1>4. 0 \in B
  <2>1. kept[0] = << >>
    BY <1>0, <1>3 DEF KeptStep
  <2>2. << >> \in Seq(S) /\ Len(<< >>) = 0
    BY EmptySeq
  <2>3. Good(kept[0], 0)
    BY <2>1, <2>2
  <2> HIDE DEF Good
  <2> QED BY <2>3
<1>5. ASSUME NEW m \in B PROVE m + 1 \in B
  <2> SUFFICES ASSUME m + 1 <= Len(s) PROVE Good(kept[m + 1], m + 1)
    <3> HIDE DEF Good
    <3> QED BY <1>5
  <2>0. m \in Nat /\ m + 1 \in 0 .. Len(s) /\ m + 1 # 0 /\ (m + 1) - 1 = m
    BY <1>0, <1>5
  <2>1. Good(kept[m], m)
    <3> HIDE DEF Good
    <3> QED BY <1>0, <1>5
  <2>2. s[m + 1] \in S
    BY <1>0, <2>0
  <2>3. kept[m + 1] = IF s[m + 1] \in K THEN Append(kept[m], s[m + 1]) ELSE kept[m]
    BY <1>3, <2>0 DEF KeptStep
  <2>4. {s[i] : i \in 1 .. m + 1} = {s[i] : i \in 1 .. m} \cup {s[m + 1]}
    BY <2>0
  <2>5. CASE s[m + 1] \notin K
    <3>1. kept[m + 1] = kept[m]
      BY <2>3, <2>5
    <3>2. 1 .. m \subseteq 1 .. m + 1
      BY <2>0
    <3>3. {kept[m + 1][i] : i \in 1 .. Len(kept[m + 1])} = {s[i] : i \in 1 .. m + 1} \cap K
      BY <2>1, <2>4, <2>5, <3>1
    <3>4. \A p, q \in 1 .. Len(kept[m + 1]) : p < q =>
            \E i, j \in 1 .. m + 1 : i < j /\ kept[m + 1][p] = s[i] /\ kept[m + 1][q] = s[j]
      BY <2>1, <3>1, <3>2
    <3> QED BY <2>1, <3>1, <3>3, <3>4
  <2>6. CASE s[m + 1] \in K
    <3> DEFINE a == kept[m]
               b == kept[m + 1]
               L == Len(a)
    <3>1. /\ a \in Seq(S) /\ b = Append(a, s[m + 1])
          /\ L \in Nat /\ b \in Seq(S) /\ Len(b) = L + 1
          /\ \A i \in 1 .. L : b[i] = a[i]
          /\ b[L + 1] = s[m + 1]
      BY <2>1, <2>2, <2>3, <2>6, AppendProperties, LenProperties
    <3> HIDE DEF a, b, L
    <3>2. {b[i] : i \in 1 .. Len(b)} = {a[i] : i \in 1 .. L} \cup {s[m + 1]}
      BY <3>1
    <3>3. {a[i] : i \in 1 .. L} = {s[i] : i \in 1 .. m} \cap K
      BY <2>1 DEF a, L
    <3>4. \A p, q \in 1 .. Len(b) : p < q =>
            \E i, j \in 1 .. m + 1 : i < j /\ b[p] = s[i] /\ b[q] = s[j]
      <4> SUFFICES ASSUME NEW p \in 1 .. Len(b), NEW q \in 1 .. Len(b), p < q
                   PROVE  \E i, j \in 1 .. m + 1 : i < j /\ b[p] = s[i] /\ b[q] = s[j]
        OBVIOUS
      <4>1. p \in 1 .. L /\ b[p] = a[p]
        BY <3>1 
      <4>2. CASE q = L + 1
        <5>0. a[p] \in {s[i] : i \in 1 .. m} \cap K
          BY <3>3, <4>1
        <5>1. PICK i \in 1 .. m : a[p] = s[i]
          BY <5>0
        <5>2. i \in 1 .. m + 1 /\ m + 1 \in 1 .. m + 1 /\ i < m + 1
          BY <2>0
        <5> QED BY <3>1, <4>1, <4>2, <5>1, <5>2
      <4>3. CASE q # L + 1
        <5>1. q \in 1 .. L /\ b[q] = a[q]
          BY <3>1, <4>3
        <5>2. PICK i \in 1 .. m, j \in 1 .. m : i < j /\ a[p] = s[i] /\ a[q] = s[j]
          BY <2>1, <4>1, <5>1 DEF a, L
        <5>3. i \in 1 .. m + 1 /\ j \in 1 .. m + 1
          BY <2>0
        <5> QED BY <4>1, <5>1, <5>2, <5>3
      <4> QED BY <4>2, <4>3
    <3>5. {b[i] : i \in 1 .. Len(b)} = {s[i] : i \in 1 .. m + 1} \cap K
      BY <2>4, <2>6, <3>2, <3>3
    <3> QED BY <3>1, <3>4, <3>5 DEF b
  <2> QED BY <2>5, <2>6
<1> HIDE DEF B, Good
<1>6. Len(s) \in B
  BY <1>0, <1>4, <1>5, AllNumbers DEF B
<1>7. Good(kept[Len(s)], Len(s))
  BY <1>0, <1>6 DEF B
<1> DEFINE r == Keep(s, K)
<1>8. Good(r, Len(s))
  BY <1>2, <1>7
<1> HIDE DEF r
<1>9. /\ r \in Seq(S)
      /\ {r[i] : i \in 1 .. Len(r)} = {s[i] : i \in 1 .. Len(s)} \cap K
      /\ \A p, q \in 1 .. Len(r) : p < q =>
           \E i, j \in 1 .. Len(s) : i < j /\ r[p] = s[i] /\ r[q] = s[j]
  BY <1>8 DEF Good
<1>10. DOMAIN r = 1 .. Len(r)
  BY <1>9, LenProperties
<1>11. ToSet(r) = ToSet(s) \cap K
  BY <1>0, <1>9, <1>10 DEF ToSet
<1> QED BY <1>9, <1>11 DEF r

(* Keep repeats nothing that was not repeated. *)
LEMMA KeepIsInjective ==
  ASSUME NEW S, NEW s \in Seq(S), NEW K, IsInjective(s)
  PROVE  IsInjective(Keep(s, K))
<1> DEFINE r == Keep(s, K)
<1>1. /\ r \in Seq(S)
      /\ \A p, q \in 1 .. Len(r) : p < q =>
           \E i, j \in 1 .. Len(s) : i < j /\ r[p] = s[i] /\ r[q] = s[j]
  BY KeptFacts
<1> HIDE DEF r
<1>2. /\ Len(r) \in Nat /\ DOMAIN r = 1 .. Len(r)
      /\ Len(s) \in Nat /\ DOMAIN s = 1 .. Len(s)
  BY <1>1, LenProperties
<1>3. ASSUME NEW p \in 1 .. Len(r), NEW q \in 1 .. Len(r), p < q PROVE r[p] # r[q]
  <2>1. PICK i \in 1 .. Len(s), j \in 1 .. Len(s) : i < j /\ r[p] = s[i] /\ r[q] = s[j]
    BY <1>1, <1>3
  <2>2. i # j
    BY <1>2, <2>1
  <2> QED BY <1>2, <2>1, <2>2 DEF IsInjective
<1>4. IsInjective(r)
  <2> SUFFICES ASSUME NEW p \in 1 .. Len(r), NEW q \in 1 .. Len(r), p # q PROVE r[p] # r[q]
    BY <1>2 DEF IsInjective
  <2>1. p < q \/ q < p
    BY <1>2
  <2> QED BY <1>3, <2>1
<1> QED BY <1>4 DEF r

(* A workbook put behind others that do not have it. *)
LEMMA AppendFacts ==
  ASSUME NEW S, NEW s \in Seq(S), NEW f \in S
  PROVE  /\ Append(s, f) \in Seq(S)
         /\ ToSet(Append(s, f)) = ToSet(s) \cup {f}
         /\ IsInjective(s) /\ f \notin ToSet(s) => IsInjective(Append(s, f))
<1> DEFINE r == Append(s, f)
<1>1. /\ r \in Seq(S) /\ Len(s) \in Nat /\ Len(r) = Len(s) + 1
      /\ DOMAIN s = 1 .. Len(s) /\ DOMAIN r = 1 .. Len(r)
      /\ \A i \in 1 .. Len(s) : r[i] = s[i]
      /\ r[Len(s) + 1] = f
  BY AppendProperties, LenProperties
<1> HIDE DEF r
<1>2. ToSet(r) = ToSet(s) \cup {f}
  BY <1>1 DEF ToSet
<1>3. ASSUME IsInjective(s), f \notin ToSet(s) PROVE IsInjective(r)
  <2> SUFFICES ASSUME NEW p \in 1 .. Len(r), NEW q \in 1 .. Len(r), r[p] = r[q] PROVE p = q
    BY <1>1 DEF IsInjective
  <2>1. \A i \in 1 .. Len(s) : s[i] # f
    BY <1>1, <1>3 DEF ToSet
  <2>2. \A i, j \in 1 .. Len(s) : s[i] = s[j] => i = j
    BY <1>1, <1>3 DEF IsInjective
  <2> QED BY <1>1, <2>1, <2>2
<1> QED BY <1>1, <1>2, <1>3 DEF r

-----------------------------------------------------------------------------
(* The newest of some forms, and their order.                               *)

(* Of some forms, one is the newest. *)
LEMMA NewestIsOne ==
  ASSUME NEW S \in SUBSET Form, S # {}
  PROVE  Newest(S) \in S
<1>1. IsFiniteSet(S)
  BY FormsAssumption, FS_Subset
<1> DEFINE B == {n \in Nat : \A T \in SUBSET Form :
                   T # {} /\ IsFiniteSet(T) /\ Cardinality(T) = n =>
                     \E f \in T : \A g \in T : FormOrder[g] <= FormOrder[f]}
<1>2. 0 \in B
  BY FS_EmptySet
<1>3. ASSUME NEW n \in B PROVE n + 1 \in B
  <2> SUFFICES ASSUME NEW T \in SUBSET Form, T # {}, IsFiniteSet(T), Cardinality(T) = n + 1
               PROVE  \E f \in T : \A g \in T : FormOrder[g] <= FormOrder[f]
    BY <1>3
  <2>1. PICK h \in T : TRUE
    OBVIOUS
  <2>2. IsFiniteSet(T \ {h}) /\ Cardinality(T \ {h}) = n
    BY <1>3, FS_RemoveElement
  <2>3. CASE T \ {h} = {}
    BY <2>1, <2>3, FormsAssumption
  <2>4. CASE T \ {h} # {}
    <3>1. PICK f \in T \ {h} : \A g \in T \ {h} : FormOrder[g] <= FormOrder[f]
      BY <1>3, <2>2, <2>4
    <3>2. FormOrder[f] \in Nat /\ FormOrder[h] \in Nat /\ \A g \in T : FormOrder[g] \in Nat
      BY <2>1, FormsAssumption
    <3>3. CASE FormOrder[h] <= FormOrder[f]
      BY <3>1, <3>3
    <3>4. CASE FormOrder[f] < FormOrder[h]
      <4>1. \A g \in T : FormOrder[g] <= FormOrder[h]
        BY <3>1, <3>2, <3>4
      <4> QED BY <2>1, <4>1
    <3> QED BY <3>2, <3>3, <3>4
  <2> QED BY <2>3, <2>4
<1>4. Cardinality(S) \in Nat
  BY <1>1, FS_CardinalityType
<1> HIDE DEF B
<1>5. Cardinality(S) \in B
  BY <1>2, <1>3, <1>4, AllNumbers DEF B
<1>6. \E f \in S : \A g \in S : FormOrder[g] <= FormOrder[f]
  BY <1>1, <1>5 DEF B
<1> QED BY <1>6 DEF Newest

(* The forms in their order of publication are a sequence. *)
LEMMA BySequenceIsSeq ==
  ASSUME NEW S \in SUBSET Form
  PROVE  BySequence(S) \in Seq(S)
<1>1. IsFiniteSet(S)
  BY FormsAssumption, FS_Subset
<1> DEFINE c == Cardinality(S)
           rank == [f \in S |-> Cardinality(Later(f, S)) + 1]
<1>2. c \in Nat
  BY <1>1, FS_CardinalityType
<1>3. \A f \in S : /\ IsFiniteSet(Later(f, S)) /\ Cardinality(Later(f, S)) \in Nat
                   /\ Cardinality(Later(f, S)) < c
  <2> TAKE f \in S
  <2>1. Later(f, S) \subseteq S /\ f \notin Later(f, S)
    BY FormsAssumption DEF Later
  <2> QED BY <1>1, <2>1, FS_Subset, FS_CardinalityType
<1>4. rank \in [S -> 1 .. c]
  <2> HIDE DEF c
  <2> QED BY <1>2, <1>3 DEF c
<1>5. ASSUME NEW f \in S, NEW g \in S, FormOrder[f] < FormOrder[g]
      PROVE  rank[g] < rank[f]
  <2>1. FormOrder[f] \in Nat /\ FormOrder[g] \in Nat
    BY FormsAssumption
  <2>2. Later(g, S) \subseteq Later(f, S)
    BY <1>5, <2>1, FormsAssumption DEF Later
  <2>3. g \in Later(f, S) /\ g \notin Later(g, S)
    BY <1>5, <2>1 DEF Later
  <2>4. Cardinality(Later(g, S)) < Cardinality(Later(f, S))
    BY <1>3, <2>2, <2>3, FS_Subset
  <2> QED BY <1>3, <2>4
<1>6. \A f, g \in S : rank[f] = rank[g] => f = g
  <2> SUFFICES ASSUME NEW f \in S, NEW g \in S, f # g PROVE rank[f] # rank[g]
    OBVIOUS
  <2>1. FormOrder[f] \in Nat /\ FormOrder[g] \in Nat /\ FormOrder[f] # FormOrder[g]
    BY FormsAssumption
  <2>2. rank[f] \in Nat /\ rank[g] \in Nat
    BY <1>3
  <2>3. rank[f] < rank[g] \/ rank[g] < rank[f]
    <3> HIDE DEF rank
    <3> QED BY <1>5, <2>1
  <2> HIDE DEF rank
  <2> QED BY <2>2, <2>3
<1> HIDE DEF rank
<1>7. \A n \in 1 .. c : \E f \in S : rank[f] = n
  <2>1. IsFiniteSet(1 .. c) /\ Cardinality(1 .. c) = c
    BY <1>2, FS_Interval
  <2>2. rank \in Injection(S, 1 .. c)
    BY <1>4, <1>6 DEF Injection, IsInjective
  <2>3. rank \in Surjection(S, 1 .. c)
    BY <2>1, <2>2, FS_Injection
  <2> QED BY <2>3 DEF Surjection
<1>8. \A n \in 1 .. c : \E f \in S : Cardinality(Later(f, S)) = n - 1
  <2> TAKE n \in 1 .. c
  <2>1. PICK f \in S : rank[f] = n
    BY <1>7
  <2>2. Cardinality(Later(f, S)) + 1 = n
    BY <2>1 DEF rank
  <2> QED BY <1>2, <1>3, <2>2
<1>9. \A n \in 1 .. c : (CHOOSE f \in S : Cardinality(Later(f, S)) = n - 1) \in S
  BY <1>8
<1>10. BySequence(S) \in [1 .. c -> S]
  BY <1>9 DEF BySequence
<1> QED BY <1>2, <1>10, SeqDef

(* The originals to download are a sequence of forms. *)
LEMMA ToDownloadIsSeq ==
  ASSUME NEW wanted \in SUBSET Form, NEW cached, NEW active \in Form \cup {Nobody}
  PROVE  ToDownload(wanted, cached, active) \in Seq(Form)
<1> DEFINE missing == wanted \ cached
           first == IF active \in missing THEN <<active>> ELSE << >>
           queue == first \o BySequence(missing \ {active})
           last == IF Len(queue) < PerPass THEN Len(queue) ELSE PerPass
<1>1. first \in Seq(Form)
  BY EmptySeq
<1>2. BySequence(missing \ {active}) \in Seq(Form)
  <2>1. BySequence(missing \ {active}) \in Seq(missing \ {active})
    BY BySequenceIsSeq
  <2> HIDE DEF missing
  <2>2. \A i \in 1 .. Len(BySequence(missing \ {active})) :
          BySequence(missing \ {active})[i] \in missing \ {active}
    BY <2>1, ElementOfSeq
  <2> QED BY <2>1, <2>2, SeqDef, LenProperties DEF missing
<1> HIDE DEF first
<1>3. queue \in Seq(Form)
  BY <1>1, <1>2, ConcatProperties
<1> HIDE DEF queue
<1>4. Len(queue) \in Nat /\ \A i \in 1 .. Len(queue) : queue[i] \in Form
  BY <1>3, LenProperties, ElementOfSeq
<1>5. last \in 0 .. Len(queue)
  BY <1>4, FormsAssumption
<1>6. \A i \in 1 .. last : queue[i] \in Form
  BY <1>4, <1>5
<1> HIDE DEF last
<1>7. SubSeq(queue, 1, last) \in Seq(Form)
  BY <1>3, <1>4, <1>5, <1>6, SubSeqProperties
<1> QED BY <1>7 DEF ToDownload, last, queue, first

-----------------------------------------------------------------------------
(* The bytes of some forms are a number.                                    *)

BytesStep(g, T) ==
  IF T = {} THEN 0 ELSE LET f == CHOOSE f \in T : TRUE IN g[T \ {f}] + Size[f]

(* The function that Bytes chooses exists. *)
LEMMA BytesExist ==
  ASSUME NEW S \in SUBSET Form
  PROVE  \E g : g = [T \in SUBSET S |-> BytesStep(g, T)]
<1>1. \A T \in SUBSET S : IsFiniteSet(T) /\ Cardinality(T) \in Nat
  BY FormsAssumption, FS_Subset, FS_CardinalityType
<1> DEFINE Upto(n) == {T \in SUBSET S : Cardinality(T) <= n}
           B == {n \in Nat : \E g : g = [T \in Upto(n) |-> BytesStep(g, T)]}
<1>2. \A n \in Nat : \A T \in Upto(n + 1) : T # {} =>
        T \ {CHOOSE f \in T : TRUE} \in Upto(n)
  <2> TAKE n \in Nat
  <2> TAKE T \in Upto(n + 1)
  <2> HAVE T # {}
  <2>1. (CHOOSE f \in T : TRUE) \in T
    OBVIOUS
  <2> DEFINE f == CHOOSE f \in T : TRUE
  <2> HIDE DEF f
  <2>2. Cardinality(T \ {f}) = Cardinality(T) - 1
    BY <1>1, <2>1, FS_RemoveElement DEF f
  <2>3. Cardinality(T \ {f}) <= n
    BY <1>1, <2>2
  <2> QED BY <2>3 DEF f
<1>3. 0 \in B
  <2>1. \A T \in Upto(0) : T = {}
    BY <1>1, FS_EmptySet
  <2> DEFINE g == [T \in Upto(0) |-> 0]
  <2>2. g = [T \in Upto(0) |-> BytesStep(g, T)]
    BY <2>1 DEF BytesStep
  <2> HIDE DEF g
  <2> QED BY <2>2
<1>4. ASSUME NEW n \in B PROVE n + 1 \in B
  <2>1. PICK g : g = [T \in Upto(n) |-> BytesStep(g, T)]
    BY <1>4
  <2> HIDE DEF Upto
  <2> DEFINE h == [T \in Upto(n + 1) |-> BytesStep(g, T)]
  <2>2. Upto(n) \subseteq Upto(n + 1)
    BY <1>1, <1>4 DEF Upto
  <2>3. \A T \in Upto(n) : h[T] = g[T]
    BY <2>1, <2>2
  <2>4. \A T \in Upto(n + 1) : BytesStep(g, T) = BytesStep(h, T)
    <3> TAKE T \in Upto(n + 1)
    <3>1. CASE T = {}
      BY <3>1 DEF BytesStep
    <3>2. CASE T # {}
      <4>1. h[T \ {CHOOSE f \in T : TRUE}] = g[T \ {CHOOSE f \in T : TRUE}]
        BY <1>2, <1>4, <2>3, <3>2
      <4> HIDE DEF h
      <4> QED BY <3>2, <4>1 DEF BytesStep
    <3> QED BY <3>1, <3>2
  <2>5. h = [T \in Upto(n + 1) |-> BytesStep(h, T)]
    BY <2>4
  <2> HIDE DEF h
  <2> QED BY <1>4, <2>5
<1>5. IsFiniteSet(S) /\ Cardinality(S) \in Nat
  BY <1>1
<1>6. Cardinality(S) \in B
  <2> HIDE DEF B
  <2> QED BY <1>3, <1>4, <1>5, AllNumbers DEF B
<1>7. Upto(Cardinality(S)) = SUBSET S
  BY <1>5, FS_Subset
<1> HIDE DEF Upto
<1> QED BY <1>6, <1>7

(* The size of some originals is a number. *)
LEMMA BytesIsNat ==
  ASSUME NEW S \in SUBSET Form
  PROVE  Bytes(S) \in Nat
<1> DEFINE IsSum(g) == g = [T \in SUBSET S |-> BytesStep(g, T)]
           sum == CHOOSE g : IsSum(g)
<1>1. IsSum(sum)
  BY BytesExist
<1>2. Bytes(S) = sum[S]
  BY DEF Bytes, FoldSet, MapThenFoldSet, BytesStep
<1> HIDE DEF sum
<1>3. \A T \in SUBSET S : sum[T] = BytesStep(sum, T)
  BY <1>1
<1> HIDE DEF IsSum
<1>4. \A T \in SUBSET S : IsFiniteSet(T) /\ Cardinality(T) \in Nat
  BY FormsAssumption, FS_Subset, FS_CardinalityType
<1> DEFINE B == {n \in Nat : \A T \in SUBSET S : Cardinality(T) = n => sum[T] \in Nat}
<1>5. 0 \in B
  BY <1>3, <1>4, FS_EmptySet DEF BytesStep
<1>6. ASSUME NEW n \in B PROVE n + 1 \in B
  <2> SUFFICES ASSUME NEW T \in SUBSET S, Cardinality(T) = n + 1 PROVE sum[T] \in Nat
    BY <1>6
  <2>1. T # {}
    BY <1>6, FS_EmptySet
  <2>2. PICK f \in T : f = CHOOSE x \in T : TRUE
    BY <2>1
  <2>3. Cardinality(T \ {f}) = n
    BY <1>4, <1>6, FS_RemoveElement
  <2>4. sum[T \ {f}] \in Nat
    BY <1>6, <2>3
  <2>5. sum[T] = sum[T \ {f}] + Size[f]
    BY <1>3, <2>1, <2>2 DEF BytesStep
  <2> QED BY <2>4, <2>5, FormsAssumption
<1> HIDE DEF B
<1>7. Cardinality(S) \in B
  BY <1>4, <1>5, <1>6, AllNumbers DEF B
<1> QED BY <1>2, <1>7 DEF B

-----------------------------------------------------------------------------
(* The plan of a purge.                                                     *)

Orphans(seen, active, wanted) == {f \in ToSet(seen) : f \notin wanted /\ f # active}
Living(seen, active, wanted) == Keep(seen, Form \ (Orphans(seen, active, wanted) \cup {active}))
Without(seen, active, wanted, n) ==
  ToSet(seen) \ (Orphans(seen, active, wanted)
                   \cup ToSet(SubSeq(Living(seen, active, wanted), 1, n)))

(* The plan takes the orphans and the first of the living ones, enough of them
   or all, and no more than are needed. *)
LEMMA PlanCuts ==
  ASSUME NEW seen \in Seq(Form), NEW active, NEW wanted
  PROVE  \E cut \in 0 .. Len(Living(seen, active, wanted)) :
           /\ Plan(seen, active, wanted) =
                Orphans(seen, active, wanted)
                  \cup ToSet(SubSeq(Living(seen, active, wanted), 1, cut))
           /\ \/ Bytes(Without(seen, active, wanted, cut)) <= Budget
              \/ cut = Len(Living(seen, active, wanted))
           /\ \A n \in 0 .. cut - 1 : Bytes(Without(seen, active, wanted, n)) > Budget
<1> DEFINE living == Living(seen, active, wanted)
           left(n) == Bytes(Without(seen, active, wanted, n))
           enough == {n \in 0 .. Len(living) : left(n) <= Budget}
           cut == IF enough = {} THEN Len(living)
                  ELSE CHOOSE n \in enough : \A m \in enough : n <= m
<1>1. Plan(seen, active, wanted) =
        Orphans(seen, active, wanted) \cup ToSet(SubSeq(living, 1, cut))
  BY DEF Plan, Orphans, Living, Without
<1>2. Len(living) \in Nat
  BY KeptFacts, LenProperties DEF Living
<1>3. \A n \in Nat : left(n) \in Nat
  <2> TAKE n \in Nat
  <2>1. Without(seen, active, wanted, n) \in SUBSET Form
    BY ElementOfSeq, LenProperties DEF Without, ToSet
  <2> QED BY <2>1, BytesIsNat
<1> HIDE DEF living, left
<1>4. CASE enough = {}
  <2>1. cut = Len(living)
    BY <1>4
  <2> HIDE DEF cut
  <2>2. \A n \in 0 .. cut - 1 : left(n) > Budget
    <3> TAKE n \in 0 .. cut - 1
    <3>1. n \in 0 .. Len(living) /\ n \in Nat
      BY <1>2, <2>1
    <3>3. left(n) \in Nat
      BY <1>3, <3>1
    <3>2. ~(left(n) <= Budget)
      BY <1>4, <3>1
    <3> QED BY <3>2, <3>3, FormsAssumption
  <2> QED BY <1>1, <1>2, <2>1, <2>2 DEF living, left
<1>5. CASE enough # {}
  <2>1. enough \in SUBSET Nat
    BY <1>2
  <2>2. \E n \in enough : \A m \in enough : n <= m
    <3> HIDE DEF enough
    <3> QED BY <1>5, <2>1, LeastNumber
  <2>3. cut \in enough /\ \A m \in enough : cut <= m
    <3> HIDE DEF enough
    <3> QED BY <1>5, <2>2
  <2> HIDE DEF cut
  <2>4. cut \in 0 .. Len(living) /\ left(cut) <= Budget
    BY <2>3
  <2>5. \A n \in 0 .. cut - 1 : left(n) > Budget
    <3> TAKE n \in 0 .. cut - 1
    <3>0. cut \in 0 .. Len(living)
      BY <2>4
    <3>1. n \in 0 .. Len(living) /\ n \in Nat /\ ~(cut <= n)
      BY <1>2, <3>0
    <3>3. left(n) \in Nat
      BY <1>3, <3>1
    <3>2. ~(left(n) <= Budget)
      BY <2>3, <3>1
    <3> QED BY <3>2, <3>3, FormsAssumption
  <2> QED BY <1>1, <2>4, <2>5 DEF living, left
<1> QED BY <1>4, <1>5

(* FR-018 of the plan itself: what PurgeIsLeast says of a purge. *)
PlanIsLeast(seen, active, wanted, plan) ==
  LET kept == ToSet(seen) \ plan IN
  /\ active \notin plan
  /\ kept \subseteq wanted \cup {active}
  /\ Bytes(kept) <= Budget \/ kept \subseteq {active}
  /\ \A n \in DOMAIN seen :
       seen[n] \in plan \cap wanted =>
         Bytes(kept \cup (ToSet(SubSeq(seen, n, Len(seen))) \cap wanted)) > Budget

(* planificarPurga plans the least it may: nothing that is wanted or still fits. *)
LEMMA PlanFacts ==
  ASSUME NEW seen \in Seq(Form), IsInjective(seen), NEW active, NEW wanted
  PROVE  /\ Plan(seen, active, wanted) \subseteq Form
         /\ PlanIsLeast(seen, active, wanted, Plan(seen, active, wanted))
<1> DEFINE living == Living(seen, active, wanted)
           orphans == Orphans(seen, active, wanted)
           plan == Plan(seen, active, wanted)
           kept == ToSet(seen) \ plan
           first(n) == ToSet(SubSeq(living, 1, n))
<1>1. PICK cut \in 0 .. Len(living) :
        /\ plan = orphans \cup first(cut)
        /\ Bytes(Without(seen, active, wanted, cut)) <= Budget \/ cut = Len(living)
        /\ \A n \in 0 .. cut - 1 : Bytes(Without(seen, active, wanted, n)) > Budget
  BY PlanCuts
<1>2. /\ Len(seen) \in Nat /\ DOMAIN seen = 1 .. Len(seen)
      /\ \A i \in 1 .. Len(seen) : seen[i] \in Form
      /\ ToSet(seen) = {seen[i] : i \in 1 .. Len(seen)}
  BY LenProperties, ElementOfSeq DEF ToSet
<1>3. /\ living \in Seq(Form)
      /\ ToSet(living) = ToSet(seen) \cap (Form \ (orphans \cup {active}))
      /\ \A p, q \in 1 .. Len(living) : p < q =>
           \E i, j \in 1 .. Len(seen) : i < j /\ living[p] = seen[i] /\ living[q] = seen[j]
  <2> DEFINE K == Form \ (orphans \cup {active})
  <2>1. living = Keep(seen, K)
    BY DEF Living
  <2> HIDE DEF living, K
  <2>2. living \in Seq(Form) /\ ToSet(living) = ToSet(seen) \cap K
    BY <2>1, KeptFacts
  <2>3. \A p, q \in 1 .. Len(living) : p < q =>
           \E i, j \in 1 .. Len(seen) : i < j /\ living[p] = seen[i] /\ living[q] = seen[j]
    BY <2>1, KeptFacts
  <2> QED BY <2>2, <2>3 DEF K
<1> HIDE DEF living
<1>4. Len(living) \in Nat /\ DOMAIN living = 1 .. Len(living)
  BY <1>3, LenProperties
<1>5. \A n \in 0 .. Len(living) : first(n) = {living[i] : i \in 1 .. n}
  <2> TAKE n \in 0 .. Len(living)
  <2>1. \A i \in 1 .. n : living[i] \in Form
    BY <1>3, <1>4, ElementOfSeq
  <2> DEFINE sub == SubSeq(living, 1, n)
  <2>2. /\ sub \in Seq(Form)
        /\ Len(sub) = n
        /\ \A i \in 1 .. n : sub[i] = living[i]
    BY <1>4, <2>1, SubSeqProperties
  <2> HIDE DEF sub
  <2>3. DOMAIN sub = 1 .. n
    BY <2>2, LenProperties
  <2> QED BY <2>2, <2>3 DEF sub, ToSet
<1>6. ToSet(living) = {living[i] : i \in 1 .. Len(living)}
  BY <1>4 DEF ToSet
<1>7. orphans = {f \in ToSet(seen) : f \notin wanted /\ f # active}
  BY DEF Orphans
<1> HIDE DEF orphans, first, plan
<1>8. first(cut) \subseteq ToSet(living)
  <2>0. cut \in 0 .. Len(living)
    BY <1>1
  <2>1. 1 .. cut \subseteq 1 .. Len(living)
    BY <1>4, <2>0
  <2>2. first(cut) = {living[i] : i \in 1 .. cut}
    BY <1>1, <1>5
  <2> QED BY <1>6, <2>1, <2>2
<1>9. plan \subseteq Form
  BY <1>1, <1>2, <1>3, <1>7, <1>8
<1>10. active \notin plan
  BY <1>1, <1>3, <1>7, <1>8
<1>11. kept \subseteq wanted \cup {active}
  BY <1>1, <1>7
<1>12. Bytes(kept) <= Budget \/ kept \subseteq {active}
  <2>1. kept = Without(seen, active, wanted, cut)
    BY <1>1 DEF Without, orphans, first, living
  <2>2. CASE cut = Len(living)
    <3>1. first(cut) = ToSet(living)
      BY <1>4, <1>5, <1>6, <2>2
    <3>2. \A f \in ToSet(seen) : f \in Form
      BY <1>2
    <3> QED BY <1>1, <1>3, <3>1, <3>2
  <2> HIDE DEF kept
  <2> QED BY <1>1, <2>1, <2>2
<1>13. ASSUME NEW n \in DOMAIN seen, seen[n] \in plan \cap wanted
       PROVE  Bytes(kept \cup (ToSet(SubSeq(seen, n, Len(seen))) \cap wanted)) > Budget
  <2> DEFINE rest == ToSet(SubSeq(seen, n, Len(seen)))
  <2>1. rest = {seen[i] : i \in n .. Len(seen)}
    <3> DEFINE sub == SubSeq(seen, n, Len(seen))
    <3>1. /\ sub \in Seq(Form)
          /\ Len(sub) = Len(seen) - n + 1
          /\ \A i \in 1 .. Len(seen) - n + 1 : sub[i] = seen[n + i - 1]
      BY <1>2, <1>13, SubSeqProperties
    <3> HIDE DEF sub
    <3>2. ToSet(sub) = {sub[i] : i \in 1 .. Len(seen) - n + 1}
      BY <3>1, LenProperties DEF ToSet
    <3>3. \A i \in n .. Len(seen) : i - n + 1 \in 1 .. Len(seen) - n + 1 /\ n + (i - n + 1) - 1 = i
      BY <1>2, <1>13
    <3>4. \A i \in n .. Len(seen) : seen[i] = sub[i - n + 1]
      BY <3>1, <3>3
    <3>5. \A i \in 1 .. Len(seen) - n + 1 : n + i - 1 \in n .. Len(seen)
      BY <1>2, <1>13
    <3>6. {sub[i] : i \in 1 .. Len(seen) - n + 1} \subseteq {seen[i] : i \in n .. Len(seen)}
      BY <3>1, <3>5
    <3>7. {seen[i] : i \in n .. Len(seen)} \subseteq {sub[i] : i \in 1 .. Len(seen) - n + 1}
      BY <3>3, <3>4
    <3> QED BY <3>2, <3>6, <3>7 DEF sub
  <2> HIDE DEF rest
  <2>2. PICK p \in 1 .. cut : seen[n] = living[p]
    <3>1. seen[n] \in first(cut)
      BY <1>1, <1>7, <1>13
    <3> QED BY <1>1, <1>5, <3>1
  <2>3. p \in 1 .. Len(living) /\ p - 1 \in 0 .. Len(living) /\ p - 1 \in 0 .. cut - 1
    <3>1. cut \in 0 .. Len(living) /\ p \in 1 .. cut
      BY <1>1, <2>2
    <3> QED BY <1>4, <3>1
  <2>4. Bytes(Without(seen, active, wanted, p - 1)) > Budget
    BY <1>1, <2>3
  <2>5. \A i, j \in 1 .. Len(seen) : seen[i] = seen[j] => i = j
    BY <1>2 DEF IsInjective
  (* The living ones before it were seen before it, those from it on after. *)
  <2>6. \A q \in 1 .. Len(living) : \A i \in 1 .. Len(seen) :
          living[q] = seen[i] => (q < p <=> i < n)
    <3> TAKE q \in 1 .. Len(living)
    <3> TAKE i \in 1 .. Len(seen)
    <3> HAVE living[q] = seen[i]
    <3>0. q \in Nat /\ p \in Nat /\ i \in Nat /\ n \in Nat /\ n \in 1 .. Len(seen)
      BY <1>2, <1>4, <1>13, <2>3
    <3>1. CASE q < p
      <4>1. PICK a \in 1 .. Len(seen), b \in 1 .. Len(seen) :
              a < b /\ living[q] = seen[a] /\ living[p] = seen[b]
        BY <1>3, <2>3, <3>1
      <4>2. a = i /\ b = n
        BY <2>2, <2>5, <3>0, <4>1
      <4> QED BY <3>1, <4>1, <4>2
    <3>2. CASE p < q
      <4>1. PICK a \in 1 .. Len(seen), b \in 1 .. Len(seen) :
              a < b /\ living[p] = seen[a] /\ living[q] = seen[b]
        BY <1>3, <2>3, <3>2
      <4>2. a = n /\ b = i
        BY <2>2, <2>5, <3>0, <4>1
      <4>3. ~(q < p) /\ ~(i < n)
        BY <3>0, <3>2, <4>1, <4>2
      <4> QED BY <4>3
    <3>3. CASE p = q
      <4>1. i = n
        BY <2>2, <2>5, <3>0, <3>3
      <4> QED BY <3>0, <3>3, <4>1
    <3> QED BY <3>0, <3>1, <3>2, <3>3
  <2>7. Without(seen, active, wanted, p - 1) = ToSet(seen) \ (orphans \cup first(p - 1))
    BY DEF Without, orphans, first, living
  <2>8. first(p - 1) = {living[i] : i \in 1 .. p - 1} /\ first(cut) = {living[i] : i \in 1 .. cut}
    BY <1>1, <1>5, <2>3
  <2>9. ASSUME NEW f \in kept \cup (rest \cap wanted)
        PROVE  f \in ToSet(seen) \ (orphans \cup first(p - 1))
    <3>1. 1 .. p - 1 \subseteq 1 .. cut
      BY <1>1, <1>4, <2>2
    <3>2. CASE f \in kept
      BY <1>1, <2>8, <3>1, <3>2
    <3>3. CASE f \in rest \cap wanted
      <4>1. PICK i \in n .. Len(seen) : f = seen[i]
        BY <2>1, <3>3
      <4>2. i \in 1 .. Len(seen) /\ ~(i < n)
        BY <1>2, <1>13, <4>1
      <4>3. f \in ToSet(seen) /\ f \notin orphans
        BY <1>2, <1>7, <3>3, <4>1, <4>2
      <4>4. f \notin first(p - 1)
        <5> SUFFICES ASSUME NEW q \in 1 .. p - 1, f = living[q] PROVE FALSE
          BY <2>8
        <5>1. q \in 1 .. Len(living) /\ q < p
          BY <1>4, <2>3
        <5> QED BY <2>6, <4>1, <4>2, <5>1
      <4> QED BY <4>3, <4>4
    <3> QED BY <2>9, <3>2, <3>3
  <2>10. ASSUME NEW f \in ToSet(seen) \ (orphans \cup first(p - 1))
         PROVE  f \in kept \cup (rest \cap wanted)
    <3> SUFFICES ASSUME f \notin kept PROVE f \in rest /\ f \in wanted
      OBVIOUS
    <3>1. f \in first(cut)
      BY <1>1, <2>10
    <3>2. PICK q \in 1 .. cut : f = living[q]
      BY <2>8, <3>1
    <3>3. q \in 1 .. Len(living) /\ ~(q < p)
      <4>1. q \notin 1 .. p - 1
        BY <2>8, <2>10, <3>2
      <4>2. cut \in 0 .. Len(living) /\ q \in 1 .. cut /\ p \in 1 .. cut
        BY <1>1, <2>2, <3>2
      <4> QED BY <1>4, <4>1, <4>2
    <3>4. PICK i \in 1 .. Len(seen) : f = seen[i]
      BY <1>2, <2>10
    <3>5. i \in n .. Len(seen)
      <4>1. ~(i < n)
        BY <2>6, <3>2, <3>3, <3>4
      <4> QED BY <1>2, <1>13, <4>1
    <3>6. f # active
      BY <1>3, <1>8, <3>1
    <3> QED BY <1>7, <2>1, <2>10, <3>4, <3>5, <3>6
  <2>11. kept \cup (rest \cap wanted) = Without(seen, active, wanted, p - 1)
    <3> HIDE DEF kept
    <3> QED BY <2>7, <2>9, <2>10
  <2> QED BY <2>4, <2>11 DEF rest
<1> QED BY <1>9, <1>10, <1>11, <1>12, <1>13 DEF PlanIsLeast, plan

-----------------------------------------------------------------------------
(* One step of the device, by action.                                       *)

SessionOf(k) ==
  \/ Boot(k) \/ BootAsks(k) \/ BootWithoutToken(k) \/ BootRefused(k) \/ BootOffline(k)
  \/ LoginEnters(k) \/ LoginFailsAfterToken(k)

UserOf(k) == SelectShow(k) \/ DiscardDraft(k) \/ ResetLocalData(k)

Alone == BeginCapture \/ OpenDraft \/ SubmitDraft \/ Logout

(* The steps of the module, by what they do to the tasks. *)
LEMMA FormsCases ==
  ASSUME [FormsNext]_formsVars
  PROVE  \/ \E k \in Task : SessionOf(k) \/ Load(k) \/ UserOf(k)
         \/ \E k \in Task : \E J \in SUBSET Task : SignalChanges(k, J)
         \/ \E k \in Task : \E a \in Account : LoginAnswered(k, a)
         \/ \E k \in Task : \E f \in Form : SelectRead(k, f)
         \/ Alone \/ Reopen \/ UNCHANGED formsVars
<1>1. CASE Worker
  BY <1>1 DEF Worker, UserOf, Alone
<1>2. ASSUME NEW k \in Task, Session(k)
      PROVE  \/ SessionOf(k) \/ \E J \in SUBSET Task : SignalChanges(k, J)
             \/ \E a \in Account : LoginAnswered(k, a)
  BY <1>2 DEF Session, SessionOf
<1> QED BY <1>1, <1>2 DEF FormsNext

-----------------------------------------------------------------------------
(* Types, with what a task knows at each of its steps.                      *)

TaskRecord ==
  [pc : {"idle", "restore", "me", "sites", "load", "asked", "missing", "download", "purge",
         "list", "frame", "choose", "enter", "select"},
   kind : {"none", "boot", "reload", "login"}, account : Account \cup {Nobody},
   alive : BOOLEAN, bearer : Account \cup {Nobody}, items : SUBSET Form,
   pending : Seq(Form), seen : Seq(Form), plan : SUBSET Form, preferred : Form \cup {Nobody},
   form : Form \cup {Nobody}]

WellFormedTask(t) ==
  /\ t.pc \in {"idle", "restore"} => t.account = Nobody /\ t.items = {}
  /\ t.pc \notin {"idle", "restore", "me"} => t.account \in Account
  /\ t.kind \in {"login", "reload"} => t.account \in Account
  /\ t.pc = "asked" => t.bearer \in Account
  /\ t.pc = "select" => t.form \in Form
  /\ t.pc = "purge" => IsInjective(t.seen) /\ t.plan = Plan(t.seen, t.form, t.items)

TaskTypes ==
  /\ task \in [Task -> TaskRecord]
  /\ \A k \in Task : WellFormedTask(task[k])

DiskTypes ==
  /\ token \in Account \cup {Nobody} /\ saved \in Account \cup {Nobody}
  /\ catalogue \in [Account -> SUBSET Form] /\ rows \subseteq Form
  /\ selected \in [Tenant -> Form \cup {Nobody}]
  /\ draft \in Form \cup {Nobody}

OriginalTypes == originals \in Seq(Form) /\ IsInjective(originals)

ScreenTypes ==
  /\ usuario \in Account \cup {Nobody} /\ hidratando \in BOOLEAN
  /\ plantilla \in [form : Form \cup {Nobody}, ok : BOOLEAN]
  /\ plantilla.ok => plantilla.form \in Form
  /\ formularios \subseteq Form /\ frame \in Form \cup {Nobody}

HistoryTypes == events \in 0 .. MaxEvents /\ crossed \subseteq Account /\ reframed \in BOOLEAN

TypeInv == TaskTypes /\ DiskTypes /\ OriginalTypes /\ ScreenTypes /\ HistoryTypes

(* The tasks as they begin and as they rest are well formed. *)
LEMMA RestIsTask ==
  /\ Rest \in TaskRecord /\ WellFormedTask(Rest)
  /\ BootTask \in TaskRecord /\ WellFormedTask(BootTask)
  /\ \A a \in Account : Reload(a) \in TaskRecord /\ WellFormedTask(Reload(a))
<1>1. Rest \in TaskRecord /\ Rest.items = {} /\ Rest.account = Nobody
      /\ Rest.pc = "idle" /\ Rest.kind = "none"
  BY EmptySeq DEF Rest, TaskRecord
<1>2. BootTask = [Rest EXCEPT !.pc = "restore", !.kind = "boot"]
  BY DEF BootTask
<1>3. \A a \in Account : Reload(a) = [Rest EXCEPT !.pc = "load", !.kind = "reload", !.account = a]
  BY DEF Reload
<1>4. BootTask \in TaskRecord
  BY <1>1, <1>2 DEF TaskRecord
<1>5. WellFormedTask(Rest) /\ WellFormedTask(BootTask)
  BY <1>1, <1>2 DEF WellFormedTask, TaskRecord
<1>6. ASSUME NEW a \in Account PROVE Reload(a) \in TaskRecord /\ WellFormedTask(Reload(a))
  <2>1. Reload(a) = [Rest EXCEPT !.pc = "load", !.kind = "reload", !.account = a]
    BY <1>3
  <2>2. Reload(a) \in TaskRecord
    BY <1>1, <2>1 DEF TaskRecord
  <2>3. Reload(a).pc = "load" /\ Reload(a).account = a
    BY <1>1, <2>1 DEF TaskRecord
  <2> QED BY <2>2, <2>3 DEF WellFormedTask
<1> QED BY <1>1, <1>4, <1>5, <1>6

(* The device begins with nothing stored and nobody in. *)
LEMMA TypeInvInit == FormsInit => TypeInv
<1> SUFFICES ASSUME FormsInit PROVE TypeInv
  OBVIOUS
<1>1. TaskTypes
  BY RestIsTask DEF FormsInit, TaskTypes
<1>2. DiskTypes
  BY DEF FormsInit, DiskTypes
<1>3. OriginalTypes
  BY EmptySeq DEF FormsInit, OriginalTypes, IsInjective
<1>4. ScreenTypes
  BY DEF FormsInit, ScreenTypes, NoForm
<1>5. HistoryTypes
  <2>1. events \in 0 .. MaxEvents /\ crossed \subseteq Account
    BY FormsAssumption DEF FormsInit
  <2>2. reframed \in BOOLEAN
    BY DEF FormsInit
  <2> QED BY <2>1, <2>2 DEF HistoryTypes
<1> QED BY <1>1, <1>2, <1>3, <1>4, <1>5 DEF TypeInv

(* What one task leaves. *)
LEMMA TaskWritten ==
  ASSUME TaskTypes, NEW k \in Task, NEW t \in TaskRecord, WellFormedTask(t),
         task' = [task EXCEPT ![k] = t]
  PROVE  TaskTypes'
BY DEF TaskTypes

(* A change of some fields that keeps what a task knows. *)
LEMMA SessionTasks ==
  ASSUME TypeInv, NEW k \in Task, SessionOf(k)
  PROVE  TaskTypes'
<1>0. task \in [Task -> TaskRecord] /\ task[k] \in TaskRecord /\ WellFormedTask(task[k])
  BY DEF TypeInv, TaskTypes
<1> DEFINE t == task[k]
<1>1. CASE task' = [task EXCEPT ![k] = Rest] \/ task' = [task EXCEPT ![k] = BootTask]
  BY <1>1, RestIsTask, TaskWritten DEF TypeInv
<1>2. CASE BootAsks(k)
  <2> DEFINE u == [t EXCEPT !.pc = "me", !.account = saved]
  <2>1. task' = [task EXCEPT ![k] = u] /\ saved \in Account \cup {Nobody} /\ t.pc = "restore"
    BY <1>0, <1>2 DEF BootAsks, In, TypeInv, DiskTypes
  <2>2. u \in TaskRecord
    BY <1>0, <2>1 DEF TaskRecord
  <2>3. t.kind \notin {"login", "reload"}
    BY <1>0, <2>1, FormsAssumption DEF WellFormedTask
  <2>4. WellFormedTask(u)
    BY <1>0, <2>1, <2>3 DEF WellFormedTask, TaskRecord
  <2> HIDE DEF u
  <2> QED BY <2>1, <2>2, <2>4, TaskWritten DEF TypeInv
<1>3. ASSUME task' = [task EXCEPT ![k].pc = "load"], t.account \in Account PROVE TaskTypes'
  <2> DEFINE u == [t EXCEPT !.pc = "load"]
  <2>1. task' = [task EXCEPT ![k] = u]
    BY <1>0, <1>3
  <2>2. u \in TaskRecord /\ WellFormedTask(u)
    BY <1>0, <1>3 DEF TaskRecord, WellFormedTask
  <2> HIDE DEF u
  <2> QED BY <2>1, <2>2, TaskWritten DEF TypeInv
<1>4. CASE Boot(k) \/ BootWithoutToken(k) \/ BootRefused(k) \/ LoginFailsAfterToken(k)
  BY <1>1, <1>4 DEF Boot, BootWithoutToken, BootRefused, LoginFailsAfterToken, EndBoot, Finish
<1>5. CASE BootOffline(k)
  <2>1. t.account \in Account
    BY <1>0, <1>5 DEF BootOffline, TaskRecord
  <2> QED BY <1>1, <1>3, <1>5, <2>1 DEF BootOffline, To, Finish
<1>6. CASE LoginEnters(k)
  <2>1. t.account \in Account
    BY <1>0, <1>6 DEF LoginEnters, In, WellFormedTask
  <2> QED BY <1>3, <1>6, <2>1 DEF LoginEnters, To
<1> QED BY <1>2, <1>4, <1>5, <1>6 DEF SessionOf

(* What a task that is past the profile has. *)
LEMMA TaskFacts ==
  ASSUME TypeInv, NEW k \in Task
  PROVE  /\ task \in [Task -> TaskRecord] /\ task[k] \in TaskRecord /\ WellFormedTask(task[k])
         /\ task[k].items \subseteq Form /\ task[k].form \in Form \cup {Nobody}
         /\ task[k].pc \notin {"idle", "restore", "me"} =>
              task[k].account \in Account /\ AccountTenant[task[k].account] \in Tenant
         /\ task[k].pc = "asked" => task[k].bearer \in Account
<1>1. task[k] \in TaskRecord /\ WellFormedTask(task[k])
  BY DEF TypeInv, TaskTypes
<1> QED BY <1>1, FormsAssumption DEF TypeInv, TaskTypes, TaskRecord, WellFormedTask

(* The originals a task sees are some of those stored, once each. *)
LEMMA OfTenantFacts ==
  ASSUME TypeInv, NEW k \in Task
  PROVE  /\ OfTenant(k, originals) \in Seq(Form)
         /\ IsInjective(OfTenant(k, originals))
         /\ ToSet(OfTenant(k, originals)) \subseteq ToSet(originals)
BY KeptFacts, KeepIsInjective DEF OfTenant, TypeInv, OriginalTypes

(* The steps of loading a form leave every task well formed. *)
LEMMA LoadTasks ==
  ASSUME TypeInv, NEW k \in Task, Load(k)
  PROVE  TaskTypes'
<1> DEFINE t == task[k]
<1>0. task \in [Task -> TaskRecord] /\ t \in TaskRecord /\ WellFormedTask(t)
  BY TaskFacts
<1>1. ASSUME NEW u \in TaskRecord, WellFormedTask(u), task' = [task EXCEPT ![k] = u]
      PROVE  TaskTypes'
  BY <1>1, TaskWritten DEF TypeInv
<1>2. CASE AskCatalogue(k)
  <2> DEFINE pc == IF token = Nobody THEN "missing" ELSE "asked"
             read == ReadCatalogue(t.account)
             u == [t EXCEPT !.pc = pc, !.items = read, !.bearer = token]
  <2>1. task' = [task EXCEPT ![k] = u] /\ t.pc = "load" /\ t.account \in Account
    BY <1>0, <1>2, TaskFacts DEF AskCatalogue, In
  <2>2. read \in SUBSET Form /\ token \in Account \cup {Nobody}
    BY <2>1 DEF ReadCatalogue, TypeInv, DiskTypes
  <2>3. pc \in {"missing", "asked"} /\ (pc = "asked" => token \in Account)
    BY <2>2
  <2> HIDE DEF pc, read
  <2>4. u \in TaskRecord
    BY <1>0, <2>2, <2>3 DEF TaskRecord
  <2>5. WellFormedTask(u)
    BY <1>0, <2>1, <2>3 DEF WellFormedTask, TaskRecord
  <2> HIDE DEF u
  <2> QED BY <1>1, <2>1, <2>4, <2>5
<1>3. ASSUME task' = [task EXCEPT ![k].pc = "missing"], t.account \in Account PROVE TaskTypes'
  <2> DEFINE u == [t EXCEPT !.pc = "missing"]
  <2>1. task' = [task EXCEPT ![k] = u]
    BY <1>0, <1>3
  <2>2. u \in TaskRecord /\ WellFormedTask(u)
    BY <1>0, <1>3 DEF TaskRecord, WellFormedTask
  <2> HIDE DEF u
  <2> QED BY <1>1, <2>1, <2>2
<1>4. CASE KeepCatalogue(k) \/ CatalogueRefused(k)
  <2>1. t.account \in Account
    BY <1>4, TaskFacts DEF KeepCatalogue, CatalogueRefused, In
  <2> QED BY <1>3, <1>4, <2>1 DEF KeepCatalogue, CatalogueRefused, To
<1>5. CASE RefreshCatalogue(k)
  <2>1. t.pc = "asked" /\ t.account \in Account /\ t.bearer \in Account
    BY <1>5, TaskFacts DEF RefreshCatalogue, In
  <2>2. PICK visible \in SUBSET Form :
          task' = [task EXCEPT ![k].pc = "missing", ![k].items = visible]
    BY <1>5, <2>1, FormsAssumption DEF RefreshCatalogue
  <2> DEFINE u == [t EXCEPT !.pc = "missing", !.items = visible]
  <2>3. task' = [task EXCEPT ![k] = u]
    BY <1>0, <2>2
  <2>4. u \in TaskRecord /\ WellFormedTask(u)
    BY <1>0, <2>1 DEF TaskRecord, WellFormedTask
  <2> HIDE DEF u
  <2> QED BY <1>1, <2>3, <2>4
<1>6. CASE FindMissing(k)
  <2> DEFINE wanted == ToDownload(t.items, ToSet(OfTenant(k, originals)), draft)
             u == [t EXCEPT !.pc = "download", !.bearer = Nobody, !.pending = wanted]
  <2>1. task' = [task EXCEPT ![k] = u] /\ t.account \in Account
    BY <1>0, <1>6, TaskFacts DEF FindMissing, In
  <2>2. wanted \in Seq(Form)
    BY TaskFacts, ToDownloadIsSeq DEF TypeInv, DiskTypes
  <2> HIDE DEF wanted
  <2>3. u \in TaskRecord /\ WellFormedTask(u)
    BY <1>0, <2>1, <2>2 DEF TaskRecord, WellFormedTask
  <2> HIDE DEF u
  <2> QED BY <1>1, <2>1, <2>3
<1>7. CASE Download(k) \/ DownloadRefused(k)
  <2>1. t.pc = "download" /\ t.account \in Account /\ t.pending \in Seq(Form)
        /\ t.pending # << >>
    BY <1>0, <1>7, TaskFacts DEF Download, DownloadRefused, In, TaskRecord
  <2>2. PICK rest \in Seq(Form) : task' = [task EXCEPT ![k].pending = rest]
    BY <1>0, <1>7, <2>1, HeadTailProperties, EmptySeq DEF Download, DownloadRefused
  <2> DEFINE u == [t EXCEPT !.pending = rest]
  <2>3. task' = [task EXCEPT ![k] = u]
    BY <1>0, <2>2
  <2>4. u \in TaskRecord /\ WellFormedTask(u)
    BY <1>0, <2>1 DEF TaskRecord, WellFormedTask
  <2> HIDE DEF u
  <2> QED BY <1>1, <2>3, <2>4
<1>8. CASE PlanPurge(k)
  <2> DEFINE seen == OfTenant(k, originals)
             plan == Plan(seen, draft, t.items)
             u == [t EXCEPT !.pc = "purge", !.pending = << >>, !.form = draft,
                            !.seen = seen, !.plan = plan]
  <2>1. task' = [task EXCEPT ![k] = u] /\ t.account \in Account
    BY <1>0, <1>8, TaskFacts DEF PlanPurge, In
  <2>2. seen \in Seq(Form) /\ IsInjective(seen) /\ draft \in Form \cup {Nobody}
    BY OfTenantFacts DEF TypeInv, DiskTypes
  <2> HIDE DEF seen
  <2>3. plan \in SUBSET Form
    BY <2>2, PlanFacts
  <2>4. plan = Plan(seen, draft, t.items)
    OBVIOUS
  <2> HIDE DEF plan
  <2>5. u \in TaskRecord
    BY <1>0, <2>2, <2>3, EmptySeq DEF TaskRecord
  <2>6. /\ u.pc = "purge" /\ u.account = t.account /\ u.items = t.items
        /\ u.form = draft /\ u.seen = seen /\ u.plan = plan
    BY <1>0 DEF TaskRecord
  <2> HIDE DEF u
  <2>7. WellFormedTask(u)
    BY <2>1, <2>2, <2>4, <2>6 DEF WellFormedTask
  <2> QED BY <1>1, <2>1, <2>5, <2>7
<1>9. CASE Purge(k)
  <2> DEFINE u == [t EXCEPT !.pc = "list", !.plan = {}, !.seen = << >>, !.form = Nobody]
  <2>1. task' = [task EXCEPT ![k] = u] /\ t.account \in Account
    BY <1>0, <1>9, TaskFacts DEF Purge, In
  <2>2. u \in TaskRecord /\ WellFormedTask(u)
    BY <1>0, <2>1, EmptySeq DEF TaskRecord, WellFormedTask
  <2> HIDE DEF u
  <2> QED BY <1>1, <2>1, <2>2
<1>10. CASE ShowList(k)
  <2> DEFINE preferred == selected[AccountTenant[t.account]]
             u == [t EXCEPT !.pc = "frame", !.preferred = preferred]
  <2>1. task' = [task EXCEPT ![k] = u] /\ t.account \in Account
    BY <1>0, <1>10, TaskFacts DEF ShowList, In
  <2>2. preferred \in Form \cup {Nobody}
    BY <1>10, TaskFacts DEF ShowList, In, TypeInv, DiskTypes
  <2> HIDE DEF preferred
  <2>3. u \in TaskRecord /\ WellFormedTask(u)
    BY <1>0, <2>1, <2>2 DEF TaskRecord, WellFormedTask
  <2> HIDE DEF u
  <2> QED BY <1>1, <2>1, <2>3
<1>13. CASE ReadFrame(k)
  <2> DEFINE u == [t EXCEPT !.pc = "choose", !.form = draft]
  <2>1. task' = [task EXCEPT ![k] = u] /\ t.account \in Account
    BY <1>0, <1>13, TaskFacts DEF ReadFrame, In
  <2>2. u \in TaskRecord /\ WellFormedTask(u)
    BY <1>0, <2>1 DEF TaskRecord, WellFormedTask, TypeInv, DiskTypes
  <2> HIDE DEF u
  <2> QED BY <1>1, <2>1, <2>2
<1>14. CASE SyncFails(k)
  <2> DEFINE read == ReadCatalogue(t.account)
             u == [Rest EXCEPT !.pc = "list", !.kind = t.kind, !.account = t.account,
                               !.items = read]
  <2>1. task' = [task EXCEPT ![k] = u] /\ t.account \in Account
    BY <1>0, <1>14, TaskFacts DEF SyncFails
  <2>2. read \in SUBSET Form
    BY <2>1 DEF ReadCatalogue, TypeInv, DiskTypes
  <2> HIDE DEF read
  <2>3. u \in TaskRecord
    BY <1>0, <2>1, <2>2, RestIsTask DEF TaskRecord
  <2>4. u.pc = "list" /\ u.account = t.account
    BY RestIsTask DEF TaskRecord
  <2> HIDE DEF u
  <2> QED BY <1>1, <2>1, <2>3, <2>4 DEF WellFormedTask
<1>11. CASE ShowForm(k)
  <2> DEFINE u == [t EXCEPT !.pc = "enter", !.items = {}, !.preferred = Nobody, !.form = Nobody]
  <2>1. t.account \in Account
    BY <1>11, TaskFacts DEF ShowForm, In
  <2>2. u \in TaskRecord /\ WellFormedTask(u)
    BY <1>0, <2>1 DEF TaskRecord, WellFormedTask
  <2>3. task' = [task EXCEPT ![k] = Rest] \/ task' = [task EXCEPT ![k] = u]
    BY <1>0, <1>11 DEF ShowForm
  <2> HIDE DEF u
  <2> QED BY <1>1, <2>2, <2>3, RestIsTask
<1>12. CASE Enter(k)
  <2>1. t.account \in Account
    BY <1>12, TaskFacts DEF Enter, In
  <2>2. task' = [task EXCEPT ![k] = Rest] \/ task' = [task EXCEPT ![k] = Reload(t.account)]
    BY <1>12 DEF Enter, Finish
  <2> QED BY <1>1, <2>1, <2>2, RestIsTask
<1> QED BY <1>2, <1>4, <1>5, <1>6, <1>7, <1>8, <1>9, <1>10, <1>11, <1>12, <1>13, <1>14 DEF Load

(* Any step leaves every task well formed. *)
LEMMA TaskTypesStep ==
  ASSUME TypeInv, [FormsNext]_formsVars
  PROVE  TaskTypes'
<1>0. task \in [Task -> TaskRecord] /\ TaskTypes
  BY DEF TypeInv, TaskTypes
<1>1. ASSUME NEW k \in Task, NEW u \in TaskRecord, WellFormedTask(u),
             task' = [task EXCEPT ![k] = u]
      PROVE  TaskTypes'
  BY <1>0, <1>1, TaskWritten
<1>2. ASSUME NEW k \in Task, UserOf(k) PROVE TaskTypes'
  <2>1. \/ task' = [task EXCEPT ![k] = Rest]
        \/ usuario \in Account /\ task' = [task EXCEPT ![k] = Reload(usuario)]
    BY <1>2 DEF UserOf, SelectShow, DiscardDraft, ResetLocalData, Finish, TypeInv, ScreenTypes
  <2> QED BY <1>1, <2>1, RestIsTask
<1>3. ASSUME NEW k \in Task, NEW J \in SUBSET Task, SignalChanges(k, J) PROVE TaskTypes'
  <2>1. /\ J = {} \/ usuario # Nobody
        /\ task' = [i \in Task |-> IF i = k THEN BootTask
                                   ELSE IF i \in J THEN Reload(usuario)
                                   ELSE [task[i] EXCEPT !.alive = @ /\ task[i].kind # "boot"]]
    BY <1>3 DEF SignalChanges
  <2>2. ASSUME NEW i \in Task PROVE task'[i] \in TaskRecord /\ WellFormedTask(task'[i])
    <3>1. CASE i = k
      BY <2>1, <3>1, RestIsTask
    <3>2. CASE i # k /\ i \in J
      <4>1. usuario \in Account
        BY <2>1, <3>2 DEF TypeInv, ScreenTypes
      <4> QED BY <2>1, <3>2, <4>1, RestIsTask
    <3>3. CASE i # k /\ i \notin J
      <4> DEFINE alive == task[i].alive /\ task[i].kind # "boot"
      <4>1. alive \in BOOLEAN
        OBVIOUS
      <4>2. task'[i] = [task[i] EXCEPT !.alive = alive]
        BY <2>1, <3>3
      <4> HIDE DEF alive
      <4>3. task[i] \in TaskRecord /\ WellFormedTask(task[i])
        BY TaskFacts
      <4>4. \A b \in BOOLEAN : /\ [task[i] EXCEPT !.alive = b] \in TaskRecord
                               /\ WellFormedTask([task[i] EXCEPT !.alive = b])
        BY <4>3 DEF TaskRecord, WellFormedTask
      <4> QED BY <4>1, <4>2, <4>4
    <3> QED BY <3>1, <3>2, <3>3
  <2>3. task' = [i \in Task |-> task'[i]]
    BY <2>1
  <2> QED BY <2>2, <2>3 DEF TaskTypes
<1>4. ASSUME NEW k \in Task, NEW a \in Account, LoginAnswered(k, a) PROVE TaskTypes'
  <2> DEFINE u == [Rest EXCEPT !.pc = "sites", !.kind = "login", !.account = a]
  <2>1. task' = [task EXCEPT ![k] = u]
    BY <1>4 DEF LoginAnswered
  <2>2. u \in TaskRecord
    BY RestIsTask DEF TaskRecord
  <2>3. u.pc = "sites" /\ u.account = a
    BY RestIsTask DEF TaskRecord
  <2> HIDE DEF u
  <2>4. WellFormedTask(u)
    BY <2>3 DEF WellFormedTask
  <2> QED BY <1>1, <2>1, <2>2, <2>4
<1>5. ASSUME NEW k \in Task, NEW f \in Form, SelectRead(k, f) PROVE TaskTypes'
  <2> DEFINE u == [Rest EXCEPT !.pc = "select", !.account = usuario, !.form = f]
  <2>1. task' = [task EXCEPT ![k] = u] /\ usuario \in Account
    BY <1>5 DEF SelectRead, TypeInv, ScreenTypes
  <2>2. u \in TaskRecord
    BY <2>1, RestIsTask DEF TaskRecord
  <2>3. u.pc = "select" /\ u.account = usuario /\ u.form = f
    BY RestIsTask DEF TaskRecord
  <2> HIDE DEF u
  <2>4. WellFormedTask(u)
    BY <2>1, <2>3 DEF WellFormedTask
  <2> QED BY <1>1, <2>1, <2>2, <2>4
<1>6. CASE Reopen
  BY <1>6, RestIsTask DEF Reopen, TaskTypes
<1>7. CASE Alone \/ UNCHANGED formsVars
  <2>1. task' = task
    BY <1>7 DEF Alone, BeginCapture, OpenDraft, SubmitDraft, Logout, formsVars
  <2> QED BY <1>0, <2>1 DEF TaskTypes
<1>8. ASSUME NEW k \in Task, SessionOf(k) \/ Load(k) PROVE TaskTypes'
  BY <1>8, SessionTasks, LoadTasks
<1> QED BY <1>2, <1>3, <1>4, <1>5, <1>6, <1>7, <1>8, FormsCases

(* What is stored of sessions, catalogues and revisions keeps its types. *)
LEMMA DiskTypesStep ==
  ASSUME TypeInv, [FormsNext]_formsVars
  PROVE  DiskTypes'
<1>0. DiskTypes /\ usuario \in Account \cup {Nobody} /\ frame \in Form \cup {Nobody}
  BY DEF TypeInv, ScreenTypes
<1>1. ASSUME UNCHANGED <<catalogue, rows, selected, draft>>,
             token' \in Account \cup {Nobody}, saved' \in Account \cup {Nobody}
      PROVE  DiskTypes'
  BY <1>0, <1>1 DEF DiskTypes
<1>2. ASSUME NEW k \in Task, SessionOf(k) PROVE DiskTypes'
  <2>1. CASE LoginEnters(k)
    <3>1. task[k].account \in Account
      BY <2>1, TaskFacts DEF LoginEnters, In
    <3> QED BY <1>0, <1>1, <2>1, <3>1 DEF LoginEnters, catalogueVars, DiskTypes
  <2>2. CASE Boot(k) \/ BootAsks(k) \/ BootWithoutToken(k) \/ BootRefused(k) \/ BootOffline(k)
    BY <1>0, <1>1, <2>2 DEF Boot, BootAsks, BootWithoutToken, BootRefused, BootOffline,
                            diskVars, catalogueVars, DiskTypes
  <2>3. CASE LoginFailsAfterToken(k)
    BY <1>0, <1>1, <2>3 DEF LoginFailsAfterToken, Leave, diskVars, catalogueVars, DiskTypes
  <2> QED BY <1>2, <2>1, <2>2, <2>3 DEF SessionOf
<1>3. ASSUME NEW k \in Task, Load(k) PROVE DiskTypes'
  <2>1. CASE RefreshCatalogue(k)
    <3>1. task[k].account \in Account /\ task[k].bearer \in Account
      BY <2>1, TaskFacts DEF RefreshCatalogue, In
    <3>2. PICK visible \in SUBSET Form :
            rows' = rows \cup visible /\ catalogue' = [catalogue EXCEPT ![task[k].account] = visible]
      BY <2>1, <3>1, FormsAssumption DEF RefreshCatalogue, KeepAnswer
    <3>3. UNCHANGED <<token, saved, selected, draft>>
      BY <2>1 DEF RefreshCatalogue
    <3> QED BY <1>0, <3>1, <3>2, <3>3 DEF DiskTypes
  <2>2. CASE CatalogueRefused(k) \/ DownloadRefused(k)
    BY <1>1, <2>2 DEF CatalogueRefused, DownloadRefused, Leave, catalogueVars
  <2>3. CASE AskCatalogue(k) \/ KeepCatalogue(k) \/ FindMissing(k) \/ PlanPurge(k)
    BY <1>0, <1>1, <2>3 DEF AskCatalogue, KeepCatalogue, FindMissing, PlanPurge,
                            diskVars, catalogueVars, DiskTypes
  <2>4. CASE Download(k) \/ Purge(k)
    BY <1>0, <1>1, <2>4 DEF Download, Purge, catalogueVars, DiskTypes
  <2>5. CASE ShowList(k) \/ ReadFrame(k) \/ SyncFails(k) \/ ShowForm(k) \/ Enter(k)
    BY <1>0, <1>1, <2>5 DEF ShowList, ReadFrame, SyncFails, ShowForm, Enter, diskVars, catalogueVars, DiskTypes
  <2> QED BY <1>3, <2>1, <2>2, <2>3, <2>4, <2>5 DEF Load
<1>4. ASSUME NEW k \in Task, UserOf(k) PROVE DiskTypes'
  <2>1. CASE SelectShow(k)
    BY <1>0, <2>1, TaskFacts, FormsAssumption DEF SelectShow, catalogueVars, DiskTypes
  <2>2. CASE DiscardDraft(k)
    BY <1>0, <2>2 DEF DiscardDraft, catalogueVars, DiskTypes
  <2>3. CASE ResetLocalData(k)
    BY <1>0, <2>3 DEF ResetLocalData, DiskTypes
  <2> QED BY <1>4, <2>1, <2>2, <2>3 DEF UserOf
<1>5. ASSUME NEW k \in Task, NEW J \in SUBSET Task, SignalChanges(k, J) PROVE DiskTypes'
  BY <1>0, <1>1, <1>5 DEF SignalChanges, diskVars, catalogueVars, DiskTypes
<1>6. ASSUME NEW k \in Task, NEW a \in Account, LoginAnswered(k, a) PROVE DiskTypes'
  BY <1>0, <1>1, <1>6 DEF LoginAnswered, diskVars, catalogueVars, DiskTypes
<1>7. ASSUME NEW k \in Task, NEW f \in Form, SelectRead(k, f) PROVE DiskTypes'
  BY <1>0, <1>1, <1>7 DEF SelectRead, diskVars, catalogueVars, DiskTypes
<1>8. CASE Alone
  BY <1>0, <1>8 DEF Alone, BeginCapture, OpenDraft, SubmitDraft, Logout, Leave,
                    diskVars, catalogueVars, DiskTypes
<1>9. CASE Reopen \/ UNCHANGED formsVars
  BY <1>0, <1>1, <1>9 DEF Reopen, formsVars, diskVars, catalogueVars, DiskTypes
<1> QED BY <1>2, <1>3, <1>4, <1>5, <1>6, <1>7, <1>8, <1>9, FormsCases

(* Who writes the originals. *)
LEMMA WhoWritesOriginals ==
  ASSUME [FormsNext]_formsVars
  PROVE  \/ UNCHANGED originals
         \/ \E k \in Task : Download(k) \/ Purge(k) \/ ResetLocalData(k)
<1>1. ASSUME NEW k \in Task, SessionOf(k) PROVE UNCHANGED originals
  BY <1>1 DEF SessionOf, Boot, BootAsks, BootWithoutToken, BootRefused, BootOffline, LoginEnters,
              LoginFailsAfterToken, Leave, diskVars
<1>2. ASSUME NEW k \in Task, Load(k), ~Download(k), ~Purge(k) PROVE UNCHANGED originals
  BY <1>2 DEF Load, AskCatalogue, KeepCatalogue, RefreshCatalogue, CatalogueRefused, FindMissing,
              DownloadRefused, PlanPurge, ShowList, ReadFrame, SyncFails, ShowForm, Enter, Leave, diskVars
<1>3. ASSUME NEW k \in Task, SelectShow(k) \/ DiscardDraft(k) PROVE UNCHANGED originals
  BY <1>3 DEF SelectShow, DiscardDraft
<1>4. ASSUME NEW k \in Task, NEW J \in SUBSET Task, SignalChanges(k, J) PROVE UNCHANGED originals
  BY <1>4 DEF SignalChanges, diskVars
<1>5. ASSUME NEW k \in Task, NEW a \in Account, LoginAnswered(k, a) PROVE UNCHANGED originals
  BY <1>5 DEF LoginAnswered, diskVars
<1>6. ASSUME NEW k \in Task, NEW f \in Form, SelectRead(k, f) PROVE UNCHANGED originals
  BY <1>6 DEF SelectRead, diskVars
<1>7. CASE Alone \/ Reopen \/ UNCHANGED formsVars
  BY <1>7 DEF Alone, BeginCapture, OpenDraft, SubmitDraft, Logout, Leave, Reopen, formsVars,
              diskVars
<1> QED BY <1>1, <1>2, <1>3, <1>4, <1>5, <1>6, <1>7, FormsCases DEF UserOf

(* A workbook that is stored takes the place of the one of its revision. *)
LEMMA StoredFacts ==
  ASSUME TypeInv, NEW f \in Form
  PROVE  /\ WithOriginal(f) \in Seq(Form) /\ IsInjective(WithOriginal(f))
         /\ ToSet(WithOriginal(f)) = ToSet(originals) \cup {f}
<1> DEFINE others == Keep(originals, Form \ {f})
<1>0. originals \in Seq(Form) /\ IsInjective(originals) /\ ToSet(originals) \subseteq Form
  BY LenProperties, ElementOfSeq DEF TypeInv, OriginalTypes, ToSet
<1>1. others \in Seq(Form) /\ ToSet(others) = ToSet(originals) \cap (Form \ {f})
  BY <1>0, KeptFacts
<1>2. IsInjective(others)
  BY <1>0, KeepIsInjective
<1>3. WithOriginal(f) = Append(others, f)
  BY DEF WithOriginal
<1> HIDE DEF others
<1>4. f \notin ToSet(others) /\ ToSet(others) \cup {f} = ToSet(originals) \cup {f}
  BY <1>0, <1>1
<1>5. /\ Append(others, f) \in Seq(Form) /\ IsInjective(Append(others, f))
      /\ ToSet(Append(others, f)) = ToSet(others) \cup {f}
  BY <1>1, <1>2, <1>4, AppendFacts
<1> QED BY <1>3, <1>4, <1>5

(* No original is stored twice. *)
LEMMA OriginalTypesStep ==
  ASSUME TypeInv, [FormsNext]_formsVars
  PROVE  OriginalTypes'
<1>0. originals \in Seq(Form) /\ IsInjective(originals)
  BY DEF TypeInv, OriginalTypes
<1>1. ASSUME NEW k \in Task, Download(k) PROVE OriginalTypes'
  <2>1. Head(task[k].pending) \in Form
    BY <1>1, TaskFacts, HeadTailProperties DEF Download, TaskRecord
  <2>2. originals' = WithOriginal(Head(task[k].pending)) \/ originals' = originals
    BY <1>1 DEF Download
  <2> QED BY <1>0, <2>1, <2>2, StoredFacts DEF OriginalTypes
<1>2. ASSUME NEW k \in Task, Purge(k) \/ ResetLocalData(k) PROVE OriginalTypes'
  <2>1. PICK K : originals' = Keep(originals, K)
    BY <1>2 DEF Purge, ResetLocalData
  <2> QED BY <1>0, <2>1, KeptFacts, KeepIsInjective DEF OriginalTypes
<1> QED BY <1>0, <1>1, <1>2, WhoWritesOriginals DEF OriginalTypes

(* The form that is chosen is one of the list, or the block. *)
LEMMA ChooseFacts ==
  ASSUME NEW wanted \in SUBSET Form, NEW marco \in Form \cup {Nobody}, NEW preferred
  PROVE  /\ Choose(wanted, marco, preferred) \in [form : Form \cup {Nobody}, ok : BOOLEAN]
         /\ Choose(wanted, marco, preferred).ok =>
              Choose(wanted, marco, preferred).form \in wanted
         /\ marco # Nobody => Choose(wanted, marco, preferred).form = marco
<1>1. CASE marco # Nobody
  <2> DEFINE ok == marco \in wanted
  <2>1. Choose(wanted, marco, preferred) = [form |-> marco, ok |-> ok] /\ ok \in BOOLEAN
    BY <1>1 DEF Choose
  <2>2. ok => marco \in wanted
    OBVIOUS
  <2> HIDE DEF ok
  <2> QED BY <2>1, <2>2
<1>2. CASE marco = Nobody /\ wanted = {}
  BY <1>2 DEF Choose, NoForm
<1>3. CASE marco = Nobody /\ wanted # {}
  BY <1>3, NewestIsOne DEF Choose
<1> QED BY <1>1, <1>2, <1>3

(* What the screen shows keeps its types. *)
LEMMA ScreenTypesStep ==
  ASSUME TypeInv, [FormsNext]_formsVars
  PROVE  ScreenTypes'
<1>0. ScreenTypes
  BY DEF TypeInv
<1>1. ASSUME UNCHANGED <<plantilla, formularios, frame>>,
             usuario' \in Account \cup {Nobody}, hidratando' \in BOOLEAN
      PROVE  ScreenTypes'
  BY <1>0, <1>1 DEF ScreenTypes
<1>2. ASSUME NEW k \in Task, SessionOf(k) PROVE ScreenTypes'
  <2>1. CASE Boot(k) \/ BootAsks(k) \/ BootOffline(k) \/ LoginEnters(k)
    BY <1>0, <2>1 DEF Boot, BootAsks, BootOffline, LoginEnters, screenVars, ScreenTypes
  <2>2. CASE BootWithoutToken(k) \/ BootRefused(k)
    <3>1. hidratando' \in BOOLEAN
      BY <2>2 DEF BootWithoutToken, BootRefused, EndBoot
    <3> QED BY <1>0, <1>1, <2>2, <3>1 DEF BootWithoutToken, BootRefused, ScreenTypes
  <2>3. CASE LoginFailsAfterToken(k)
    BY <1>0, <1>1, <2>3 DEF LoginFailsAfterToken, Leave, screenVars, ScreenTypes
  <2> QED BY <1>2, <2>1, <2>2, <2>3 DEF SessionOf
<1>3. ASSUME NEW k \in Task, Load(k) PROVE ScreenTypes'
  <2>1. CASE AskCatalogue(k) \/ KeepCatalogue(k) \/ RefreshCatalogue(k) \/ FindMissing(k)
             \/ Download(k) \/ PlanPurge(k) \/ Purge(k) \/ ReadFrame(k) \/ SyncFails(k)
    BY <1>0, <2>1 DEF AskCatalogue, KeepCatalogue, RefreshCatalogue, FindMissing, Download,
                      PlanPurge, Purge, ReadFrame, SyncFails, screenVars, ScreenTypes
  <2>2. CASE CatalogueRefused(k) \/ DownloadRefused(k)
    BY <1>0, <1>1, <2>2 DEF CatalogueRefused, DownloadRefused, Leave, ScreenTypes
  <2>3. CASE ShowList(k)
    BY <1>0, <2>3, TaskFacts DEF ShowList, ScreenTypes
  <2>4. CASE ShowForm(k)
    <3> DEFINE shown == Choose(task[k].items, task[k].form, task[k].preferred)
    <3>1. plantilla' = shown /\ UNCHANGED <<usuario, hidratando, formularios, frame>>
      BY <2>4 DEF ShowForm
    <3>2. task[k].items \in SUBSET Form /\ task[k].form \in Form \cup {Nobody}
      BY TaskFacts
    <3>3. shown \in [form : Form \cup {Nobody}, ok : BOOLEAN] /\ (shown.ok => shown.form \in Form)
      BY <3>2, ChooseFacts
    <3> HIDE DEF shown
    <3> QED BY <1>0, <3>1, <3>3 DEF ScreenTypes
  <2>5. CASE Enter(k)
    <3>1. task[k].account \in Account
      BY <2>5, TaskFacts DEF Enter, In
    <3> QED BY <1>1, <2>5, <3>1 DEF Enter
  <2> QED BY <1>3, <2>1, <2>2, <2>3, <2>4, <2>5 DEF Load
<1>4. ASSUME NEW k \in Task, UserOf(k) PROVE ScreenTypes'
  <2>1. CASE SelectShow(k)
    <3>1. task[k].form \in Form
      BY <2>1, TaskFacts DEF SelectShow, In, WellFormedTask
    <3>2. plantilla' = [form |-> task[k].form, ok |-> TRUE]
          /\ UNCHANGED <<usuario, hidratando, formularios, frame>>
      BY <2>1 DEF SelectShow
    <3>3. plantilla' \in [form : Form \cup {Nobody}, ok : BOOLEAN] /\ plantilla'.form \in Form
      BY <3>1, <3>2
    <3> QED BY <1>0, <3>2, <3>3 DEF ScreenTypes
  <2>2. CASE DiscardDraft(k) \/ ResetLocalData(k)
    BY <1>0, <2>2 DEF DiscardDraft, ResetLocalData, screenVars, ScreenTypes
  <2> QED BY <1>4, <2>1, <2>2 DEF UserOf
<1>5. ASSUME NEW k \in Task, NEW J \in SUBSET Task, SignalChanges(k, J) PROVE ScreenTypes'
  BY <1>0, <1>5 DEF SignalChanges, screenVars, ScreenTypes
<1>6. ASSUME NEW k \in Task, NEW a \in Account, LoginAnswered(k, a) PROVE ScreenTypes'
  BY <1>0, <1>6 DEF LoginAnswered, screenVars, ScreenTypes
<1>7. ASSUME NEW k \in Task, NEW f \in Form, SelectRead(k, f) PROVE ScreenTypes'
  BY <1>0, <1>7 DEF SelectRead, screenVars, ScreenTypes
<1>8. CASE Alone
  <2>1. CASE BeginCapture
    BY <1>0, <2>1 DEF BeginCapture, screenVars, ScreenTypes
  <2>2. CASE OpenDraft \/ SubmitDraft
    BY <1>0, <2>2 DEF OpenDraft, SubmitDraft, screenVars, ScreenTypes
  <2>3. CASE Logout
    BY <1>0, <1>1, <2>3 DEF Logout, Leave, ScreenTypes
  <2> QED BY <1>8, <2>1, <2>2, <2>3 DEF Alone
<1>9. CASE Reopen
  <2>1. plantilla' \in [form : Form \cup {Nobody}, ok : BOOLEAN] /\ ~plantilla'.ok
    BY <1>9 DEF Reopen, NoForm
  <2> QED BY <1>9, <2>1 DEF Reopen, ScreenTypes
<1>10. CASE UNCHANGED formsVars
  BY <1>0, <1>10 DEF formsVars, screenVars, ScreenTypes
<1> QED BY <1>2, <1>3, <1>4, <1>5, <1>6, <1>7, <1>8, <1>9, <1>10, FormsCases

(* Accounts are only ever added to those that crossed. *)
LEMMA CrossedGrows ==
  ASSUME TypeInv, [FormsNext]_formsVars
  PROVE  crossed \subseteq crossed' /\ crossed' \subseteq Account
<1>0. crossed \subseteq Account
  BY DEF TypeInv, HistoryTypes
<1>1. ASSUME NEW k \in Task, SessionOf(k), ~BootAsks(k) PROVE crossed' = crossed
  BY <1>1 DEF SessionOf, Boot, BootWithoutToken, BootRefused, BootOffline, LoginEnters,
              LoginFailsAfterToken, Leave
<1>2. ASSUME NEW k \in Task, BootAsks(k)
      PROVE  crossed \subseteq crossed' /\ crossed' \subseteq Account
  BY <1>0, <1>2 DEF BootAsks, TypeInv, DiskTypes
<1>3. ASSUME NEW k \in Task, Load(k) PROVE crossed' = crossed
  BY <1>3 DEF Load, AskCatalogue, KeepCatalogue, RefreshCatalogue, CatalogueRefused, FindMissing,
              Download, DownloadRefused, PlanPurge, Purge, ShowList, ReadFrame, SyncFails, ShowForm, Enter, Leave
<1>4. ASSUME NEW k \in Task, UserOf(k) PROVE crossed' = crossed
  BY <1>4 DEF UserOf, SelectShow, DiscardDraft, ResetLocalData
<1>5. ASSUME NEW k \in Task, NEW a \in Account, LoginAnswered(k, a)
      PROVE  crossed \subseteq crossed' /\ crossed' \subseteq Account
  <2> DEFINE others == {task[j].account : j \in Task} \ {a, Nobody}
  <2>1. others \subseteq Account
    BY TaskFacts DEF TaskRecord
  <2>2. crossed' = IF others = {} THEN crossed ELSE crossed \cup others \cup {a}
    BY <1>5 DEF LoginAnswered
  <2> HIDE DEF others
  <2> QED BY <1>0, <2>1, <2>2
<1>6. ASSUME NEW k \in Task, NEW J \in SUBSET Task, SignalChanges(k, J) PROVE crossed' = crossed
  BY <1>6 DEF SignalChanges
<1>7. ASSUME NEW k \in Task, NEW f \in Form, SelectRead(k, f) PROVE crossed' = crossed
  BY <1>7 DEF SelectRead
<1>8. ASSUME Alone \/ Reopen \/ UNCHANGED formsVars PROVE crossed' = crossed
  BY <1>8 DEF Alone, BeginCapture, OpenDraft, SubmitDraft, Logout, Leave, Reopen, formsVars
<1> QED BY <1>0, <1>1, <1>2, <1>3, <1>4, <1>5, <1>6, <1>7, <1>8, FormsCases

(* No more events than the model allows. *)
LEMMA EventsBounded ==
  ASSUME TypeInv, [FormsNext]_formsVars
  PROVE  events' \in 0 .. MaxEvents
<1>0. events \in 0 .. MaxEvents
  BY DEF TypeInv, HistoryTypes
<1>1. Event => events' \in 0 .. MaxEvents
  BY <1>0, FormsAssumption DEF Event
<1>2. ASSUME NEW k \in Task, SessionOf(k) \/ Load(k) PROVE events' = events
  BY <1>2 DEF SessionOf, Boot, BootAsks, BootWithoutToken, BootRefused, BootOffline, LoginEnters,
              LoginFailsAfterToken, Load, AskCatalogue, KeepCatalogue, RefreshCatalogue,
              CatalogueRefused, FindMissing, Download, DownloadRefused, PlanPurge, Purge, ShowList,
              ReadFrame, SyncFails, ShowForm, Enter
<1>3. ASSUME NEW k \in Task, UserOf(k) PROVE events' = events \/ Event
  BY <1>3 DEF UserOf, SelectShow, DiscardDraft, ResetLocalData
<1>4. ASSUME NEW k \in Task, NEW J \in SUBSET Task, SignalChanges(k, J) PROVE Event
  BY <1>4 DEF SignalChanges
<1>5. ASSUME NEW k \in Task, NEW a \in Account, LoginAnswered(k, a) PROVE Event
  BY <1>5 DEF LoginAnswered
<1>6. ASSUME NEW k \in Task, NEW f \in Form, SelectRead(k, f) PROVE Event
  BY <1>6 DEF SelectRead
<1>7. Alone \/ Reopen \/ UNCHANGED formsVars => events' = events \/ Event
  BY DEF Alone, BeginCapture, OpenDraft, SubmitDraft, Logout, Reopen, formsVars
<1> QED BY <1>0, <1>1, <1>2, <1>3, <1>4, <1>5, <1>6, <1>7, FormsCases

(* The mark of a draft opened during a choice keeps its type. *)
LEMMA ReframedIsBoolean ==
  ASSUME TypeInv, [FormsNext]_formsVars
  PROVE  reframed' \in BOOLEAN
<1>0. reframed \in BOOLEAN
  BY DEF TypeInv, HistoryTypes
<1>1. ASSUME NEW k \in Task, SessionOf(k) PROVE reframed' = reframed
  BY <1>1 DEF SessionOf, Boot, BootAsks, BootWithoutToken, BootRefused, BootOffline, LoginEnters,
              LoginFailsAfterToken, Leave
<1>2. ASSUME NEW k \in Task, Load(k) PROVE reframed' = reframed
  BY <1>2 DEF Load, AskCatalogue, KeepCatalogue, RefreshCatalogue, CatalogueRefused, FindMissing,
              Download, DownloadRefused, PlanPurge, Purge, ShowList, ReadFrame, SyncFails, ShowForm, Enter, Leave
<1>3. ASSUME NEW k \in Task, SelectShow(k) PROVE reframed' = reframed
  BY <1>3 DEF SelectShow
<1>4. ASSUME NEW k \in Task, DiscardDraft(k) PROVE reframed' \in BOOLEAN
  BY <1>4 DEF DiscardDraft
<1>5. ASSUME NEW k \in Task, ResetLocalData(k) PROVE reframed' \in BOOLEAN
  BY <1>5 DEF ResetLocalData
<1>6. ASSUME NEW k \in Task, NEW J \in SUBSET Task, SignalChanges(k, J) PROVE reframed' = reframed
  BY <1>6 DEF SignalChanges
<1>7. ASSUME NEW k \in Task, NEW a \in Account, LoginAnswered(k, a) PROVE reframed' = reframed
  BY <1>7 DEF LoginAnswered
<1>8. ASSUME NEW k \in Task, NEW f \in Form, SelectRead(k, f) PROVE reframed' = reframed
  BY <1>8 DEF SelectRead
<1>9. CASE OpenDraft
  BY <1>9 DEF OpenDraft
<1>10. CASE SubmitDraft
  BY <1>10 DEF SubmitDraft
<1>11. ASSUME BeginCapture \/ Logout \/ Reopen \/ UNCHANGED formsVars
       PROVE  reframed' = reframed
  BY <1>11 DEF BeginCapture, Logout, Leave, Reopen, formsVars
<1>12. Alone => OpenDraft \/ SubmitDraft \/ BeginCapture \/ Logout
  BY DEF Alone
<1>13. ASSUME NEW k \in Task, UserOf(k) PROVE SelectShow(k) \/ DiscardDraft(k) \/ ResetLocalData(k)
  BY <1>13 DEF UserOf
<1>14. reframed' = reframed => reframed' \in BOOLEAN
  BY <1>0
<1> QED
  BY <1>1, <1>2, <1>3, <1>4, <1>5, <1>6, <1>7, <1>8, <1>9, <1>10, <1>11, <1>12, <1>13, <1>14,
     FormsCases

(* The type invariant is inductive. *)
LEMMA TypeInvStep == TypeInv /\ [FormsNext]_formsVars => TypeInv'
<1> SUFFICES ASSUME TypeInv, [FormsNext]_formsVars PROVE TypeInv'
  OBVIOUS
<1>1. HistoryTypes'
  BY CrossedGrows, EventsBounded, ReframedIsBoolean DEF HistoryTypes
<1> QED BY <1>1, TaskTypesStep, DiskTypesStep, OriginalTypesStep, ScreenTypesStep DEF TypeInv

(* Every task, table and screen is well formed in every state. *)
THEOREM TypeInvHolds == FormsSpec => []TypeInv
BY TypeInvInit, TypeInvStep, PTL DEF FormsSpec

(* FormsTypeOK: the types of the database, of the screen and of every task; a
   revision has one original workbook kept, whatever loads overlap
   (guardarOriginalPlantilla). *)
THEOREM FormsTypeCorrect == FormsSpec => []FormsTypeOK
<1>1. TypeInv => FormsTypeOK
  <2> SUFFICES ASSUME TypeInv PROVE FormsTypeOK
    OBVIOUS
  <2>1. \A k \in Task :
          /\ task[k].account \in Account \cup {Nobody} /\ task[k].bearer \in Account \cup {Nobody}
          /\ task[k].items \subseteq Form /\ task[k].plan \subseteq Form
          /\ {task[k].form, task[k].preferred} \subseteq Form \cup {Nobody}
          /\ task[k].kind \in {"login", "reload"} => task[k].account # Nobody
    BY TaskFacts, FormsAssumption DEF TaskRecord, WellFormedTask
  <2> QED BY <2>1 DEF FormsTypeOK, TypeInv, DiskTypes, OriginalTypes, ScreenTypes, HistoryTypes
<1> QED BY <1>1, TypeInvHolds, PTL

(* PurgeIsLeast: what planificarPurga decides, of what the task saw when it
   planned, still holds when it deletes. *)
THEOREM PurgesAreLeast == FormsSpec => []PurgeIsLeast
<1>1. TypeInv => PurgeIsLeast
  <2> SUFFICES ASSUME TypeInv, NEW k \in Task, In(k, "purge")
               PROVE  PlanIsLeast(task[k].seen, task[k].form, task[k].items, task[k].plan)
    BY DEF PurgeIsLeast, PlanIsLeast
  <2>1. /\ task[k].seen \in Seq(Form) /\ IsInjective(task[k].seen)
        /\ task[k].plan = Plan(task[k].seen, task[k].form, task[k].items)
    BY TaskFacts DEF In, TaskRecord, WellFormedTask
  <2> QED BY <2>1, PlanFacts
<1> QED BY <1>1, TypeInvHolds, PTL

-----------------------------------------------------------------------------
(* What a step does to the tasks, for the invariants that relate them to the
   rest of the device.                                                      *)

(* A task that begins, ends or goes on without the answer of the server, the
   list or a form. *)
Plain(u, t) ==
  /\ u.pc \notin {"asked", "frame", "choose", "enter", "select"}
  /\ u.items = {} \/ (u.account = t.account /\ u.items = t.items)

PlainStep(k) ==
  \/ SessionOf(k) \/ DiscardDraft(k) \/ ResetLocalData(k)
  \/ KeepCatalogue(k) \/ CatalogueRefused(k) \/ FindMissing(k) \/ Download(k)
  \/ DownloadRefused(k) \/ PlanPurge(k) \/ Purge(k) \/ Enter(k)

(* A task that begins or rests carries no catalogue. *)
LEMMA RestIsPlain ==
  /\ Rest.pc = "idle" /\ Rest.account = Nobody /\ Rest.items = {}
  /\ BootTask.pc = "restore" /\ BootTask.account = Nobody /\ BootTask.items = {}
  /\ \A a : Reload(a).pc = "load" /\ Reload(a).account = a /\ Reload(a).items = {}
BY DEF Rest, BootTask, Reload

(* A step of this kind leaves a task with the account and the catalogue it had. *)
LEMMA PlainTasks ==
  ASSUME TypeInv, NEW k \in Task, PlainStep(k)
  PROVE  /\ Plain(task'[k], task[k])
         /\ task'[k].account \in {task[k].account, Nobody, usuario} \/ BootAsks(k)
         /\ \A j \in Task : j # k => task'[j] = task[j]
         /\ UNCHANGED <<formularios, plantilla>>
<1> DEFINE t == task[k]
<1>0. /\ task \in [Task -> TaskRecord] /\ t \in TaskRecord /\ WellFormedTask(t)
  BY TaskFacts
<1>1. CASE SessionOf(k)
  <2>1. CASE Boot(k)
    BY <1>0, <2>1, RestIsPlain DEF Boot, Plain, screenVars
  <2>2. CASE BootWithoutToken(k) \/ BootRefused(k)
    BY <1>0, <2>2, RestIsPlain DEF BootWithoutToken, BootRefused, EndBoot, Finish, Plain
  <2>3. CASE BootAsks(k)
    <3>1. task' = [task EXCEPT ![k] = [t EXCEPT !.pc = "me", !.account = saved]]
          /\ UNCHANGED <<formularios, plantilla>> /\ t.pc = "restore"
      BY <1>0, <2>3 DEF BootAsks, In, screenVars
    <3>2. t.items = {}
      BY <1>0, <3>1 DEF WellFormedTask
    <3>3. [t EXCEPT !.pc = "me", !.account = saved].pc = "me"
          /\ [t EXCEPT !.pc = "me", !.account = saved].items = t.items
      BY <1>0 DEF TaskRecord
    <3> QED BY <1>0, <2>3, <3>1, <3>2, <3>3 DEF Plain
  <2>4. CASE BootOffline(k)
    <3>1. task' = [task EXCEPT ![k] = Rest] \/ task' = [task EXCEPT ![k] = [t EXCEPT !.pc = "load"]]
      BY <1>0, <2>4 DEF BootOffline, To, Finish
    <3> QED BY <1>0, <2>4, <3>1, RestIsPlain DEF BootOffline, Plain, screenVars, TaskRecord
  <2>5. CASE LoginEnters(k)
    <3>1. task' = [task EXCEPT ![k] = [t EXCEPT !.pc = "load"]]
      BY <1>0, <2>5 DEF LoginEnters, To
    <3> QED BY <1>0, <2>5, <3>1 DEF LoginEnters, Plain, screenVars, TaskRecord
  <2>6. CASE LoginFailsAfterToken(k)
    BY <1>0, <2>6, RestIsPlain DEF LoginFailsAfterToken, Finish, Leave, Plain, screenVars
  <2> QED BY <1>1, <2>1, <2>2, <2>3, <2>4, <2>5, <2>6 DEF SessionOf
<1>2. CASE DiscardDraft(k) \/ ResetLocalData(k)
  BY <1>0, <1>2, RestIsPlain DEF DiscardDraft, ResetLocalData, Plain, screenVars
<1>3. CASE KeepCatalogue(k) \/ CatalogueRefused(k)
  <2>1. task' = [task EXCEPT ![k] = [t EXCEPT !.pc = "missing"]]
    BY <1>0, <1>3 DEF KeepCatalogue, CatalogueRefused, To
  <2>2. UNCHANGED <<formularios, plantilla>>
    BY <1>3 DEF KeepCatalogue, CatalogueRefused, Leave, screenVars
  <2> QED BY <1>0, <2>1, <2>2 DEF Plain, TaskRecord
<1>4. CASE FindMissing(k)
  <2> DEFINE wanted == ToDownload(t.items, ToSet(OfTenant(k, originals)), draft)
             u == [t EXCEPT !.pc = "download", !.bearer = Nobody, !.pending = wanted]
  <2>1. task' = [task EXCEPT ![k] = u] /\ UNCHANGED <<formularios, plantilla>>
    BY <1>0, <1>4 DEF FindMissing, screenVars
  <2> HIDE DEF wanted
  <2>2. u.pc = "download" /\ u.items = t.items /\ u.account = t.account
    BY <1>0 DEF TaskRecord
  <2> HIDE DEF u
  <2> QED BY <1>0, <2>1, <2>2 DEF Plain
<1>5. CASE Download(k) \/ DownloadRefused(k)
  <2>1. PICK rest : task' = [task EXCEPT ![k] = [t EXCEPT !.pending = rest]]
    BY <1>0, <1>5 DEF Download, DownloadRefused
  <2>2. t.pc = "download" /\ UNCHANGED <<formularios, plantilla>>
    BY <1>5 DEF Download, DownloadRefused, In, Leave, screenVars
  <2>3. [t EXCEPT !.pending = rest].pc = t.pc /\ [t EXCEPT !.pending = rest].items = t.items
        /\ [t EXCEPT !.pending = rest].account = t.account
    BY <1>0 DEF TaskRecord
  <2> QED BY <1>0, <2>1, <2>2, <2>3 DEF Plain
<1>6. CASE PlanPurge(k)
  <2> DEFINE seen == OfTenant(k, originals)
             plan == Plan(seen, draft, t.items)
             u == [t EXCEPT !.pc = "purge", !.pending = << >>, !.form = draft,
                            !.seen = seen, !.plan = plan]
  <2>1. task' = [task EXCEPT ![k] = u] /\ UNCHANGED <<formularios, plantilla>>
    BY <1>0, <1>6 DEF PlanPurge, screenVars
  <2> HIDE DEF seen, plan
  <2>2. u.pc = "purge" /\ u.items = t.items /\ u.account = t.account
    BY <1>0 DEF TaskRecord
  <2> HIDE DEF u
  <2> QED BY <1>0, <2>1, <2>2 DEF Plain
<1>7. CASE Purge(k)
  <2> DEFINE u == [t EXCEPT !.pc = "list", !.plan = {}, !.seen = << >>, !.form = Nobody]
  <2>1. task' = [task EXCEPT ![k] = u] /\ UNCHANGED <<formularios, plantilla>>
    BY <1>0, <1>7 DEF Purge, screenVars
  <2>2. u.pc = "list" /\ u.items = t.items /\ u.account = t.account
    BY <1>0 DEF TaskRecord
  <2> HIDE DEF u
  <2> QED BY <1>0, <2>1, <2>2 DEF Plain
<1>8. CASE Enter(k)
  BY <1>0, <1>8, RestIsPlain DEF Enter, Finish, Plain
<1> QED BY <1>1, <1>2, <1>3, <1>4, <1>5, <1>6, <1>7, <1>8 DEF PlainStep

(* The steps of a task that are not plain, field by field. *)
LEMMA OtherTasks ==
  ASSUME TypeInv, NEW k \in Task,
         AskCatalogue(k) \/ SyncFails(k) \/ RefreshCatalogue(k) \/ ShowList(k) \/ ReadFrame(k)
           \/ ShowForm(k)
  PROVE  /\ task'[k].account \in {task[k].account, Nobody}
         /\ AskCatalogue(k) \/ SyncFails(k) =>
              /\ task'[k].account = task[k].account
              /\ task'[k].items = ReadCatalogue(task[k].account)
              /\ task'[k].pc \in {"missing", "asked", "list"}
              /\ task'[k].pc = "asked" => token # Nobody /\ task'[k].bearer = token
         /\ RefreshCatalogue(k) =>
              /\ task'[k].account = task[k].account /\ task'[k].pc = "missing"
              /\ \E answer \in Assignment[task[k].bearer] : task'[k].items \subseteq answer
         /\ ShowList(k) =>
              /\ task'[k].account = task[k].account /\ task'[k].items = task[k].items
              /\ task'[k].pc = "frame"
         /\ ReadFrame(k) =>
              /\ task'[k].account = task[k].account /\ task'[k].items = task[k].items
              /\ task'[k].pc = "choose" /\ task'[k].form = draft
         /\ ShowForm(k) =>
              task'[k].pc \in {"idle", "enter"} /\ task'[k].items = {}
         /\ \A j \in Task : j # k => task'[j] = task[j]
<1> DEFINE t == task[k]
<1>0. /\ task \in [Task -> TaskRecord] /\ t \in TaskRecord /\ WellFormedTask(t)
  BY TaskFacts
<1>00. /\ AskCatalogue(k) => t.pc = "load"
       /\ RefreshCatalogue(k) => t.pc = "asked"
       /\ ShowList(k) => t.pc = "list"
       /\ ReadFrame(k) => t.pc = "frame"
       /\ ShowForm(k) => t.pc = "choose"
       /\ SyncFails(k) => t.pc \in {"load", "missing", "download", "purge"}
  BY DEF AskCatalogue, SyncFails, RefreshCatalogue, ShowList, ReadFrame, ShowForm, In
<1>1. CASE AskCatalogue(k)
  <2> DEFINE pc == IF token = Nobody THEN "missing" ELSE "asked"
             read == ReadCatalogue(t.account)
             u == [t EXCEPT !.pc = pc, !.items = read, !.bearer = token]
  <2>1. task' = [task EXCEPT ![k] = u]
    BY <1>0, <1>1 DEF AskCatalogue
  <2>2. pc \in {"missing", "asked"} /\ (pc = "asked" => token # Nobody)
    OBVIOUS
  <2> HIDE DEF pc, read
  <2>3. u.pc = pc /\ u.items = read /\ u.bearer = token /\ u.account = t.account
    BY <1>0 DEF TaskRecord
  <2> HIDE DEF u
  <2> QED BY <1>0, <1>00, <1>1, <2>1, <2>2, <2>3 DEF read
<1>2. CASE RefreshCatalogue(k)
  <2>0. PICK answer \in Assignment[t.bearer] : \E visible \in SUBSET answer :
          task' = [task EXCEPT ![k] = [t EXCEPT !.pc = "missing", !.items = visible]]
    BY <1>0, <1>2 DEF RefreshCatalogue
  <2>1. PICK visible \in SUBSET answer :
          task' = [task EXCEPT ![k] = [t EXCEPT !.pc = "missing", !.items = visible]]
    BY <2>0
  <2> DEFINE u == [t EXCEPT !.pc = "missing", !.items = visible]
  <2>2. u.pc = "missing" /\ u.items = visible /\ u.account = t.account
    BY <1>0 DEF TaskRecord
  <2> HIDE DEF u
  <2> QED BY <1>0, <1>00, <1>2, <2>1, <2>2 DEF u
<1>3. CASE ShowList(k)
  <2> DEFINE preferred == selected[AccountTenant[t.account]]
             u == [t EXCEPT !.pc = "frame", !.preferred = preferred]
  <2>1. task' = [task EXCEPT ![k] = u]
    BY <1>0, <1>3 DEF ShowList
  <2> HIDE DEF preferred
  <2>2. u.pc = "frame" /\ u.items = t.items /\ u.account = t.account
    BY <1>0 DEF TaskRecord
  <2> HIDE DEF u
  <2>3. ~AskCatalogue(k) /\ ~SyncFails(k) /\ ~RefreshCatalogue(k) /\ ~ReadFrame(k) /\ ~ShowForm(k)
    BY <1>00, <1>3
  <2> QED BY <1>0, <1>3, <2>1, <2>2, <2>3
<1>5. CASE ReadFrame(k)
  <2> DEFINE u == [t EXCEPT !.pc = "choose", !.form = draft]
  <2>1. task' = [task EXCEPT ![k] = u]
    BY <1>0, <1>5 DEF ReadFrame
  <2>2. u.pc = "choose" /\ u.form = draft /\ u.items = t.items /\ u.account = t.account
    BY <1>0 DEF TaskRecord
  <2> HIDE DEF u
  <2>3. ~AskCatalogue(k) /\ ~SyncFails(k) /\ ~RefreshCatalogue(k) /\ ~ShowList(k) /\ ~ShowForm(k)
    BY <1>00, <1>5
  <2> QED BY <1>0, <1>5, <2>1, <2>2, <2>3
<1>6. CASE SyncFails(k)
  <2> DEFINE read == ReadCatalogue(t.account)
             u == [Rest EXCEPT !.pc = "list", !.kind = t.kind, !.account = t.account,
                               !.items = read]
  <2>1. task' = [task EXCEPT ![k] = u]
    BY <1>0, <1>6 DEF SyncFails
  <2> HIDE DEF read
  <2>2. u.pc = "list" /\ u.items = read /\ u.account = t.account
    BY RestIsTask DEF TaskRecord
  <2> HIDE DEF u
  <2>3. ~RefreshCatalogue(k) /\ ~ShowList(k) /\ ~ReadFrame(k) /\ ~ShowForm(k)
    BY <1>00, <1>6
  <2> QED BY <1>0, <1>6, <2>1, <2>2, <2>3 DEF read
<1>4. CASE ShowForm(k)
  <2> DEFINE u == [t EXCEPT !.pc = "enter", !.items = {}, !.preferred = Nobody,
                            !.form = Nobody]
  <2>1. task' = [task EXCEPT ![k] = Rest] \/ task' = [task EXCEPT ![k] = u]
    BY <1>0, <1>4 DEF ShowForm
  <2>2. u.pc = "enter" /\ u.items = {} /\ u.account = t.account
    BY <1>0 DEF TaskRecord
  <2> HIDE DEF u
  <2> QED BY <1>0, <1>00, <1>4, <2>1, <2>2, RestIsPlain
<1> QED BY <1>1, <1>2, <1>3, <1>4, <1>5, <1>6

(* What a change of signal does to each task: start again, reload, or go on. *)
LEMMA SignalTasks ==
  ASSUME TypeInv, NEW k \in Task, NEW J \in SUBSET Task, SignalChanges(k, J), NEW i \in Task
  PROVE  \/ task'[i] = BootTask
         \/ usuario # Nobody /\ task'[i] = Reload(usuario)
         \/ /\ task'[i].pc = task[i].pc /\ task'[i].account = task[i].account
            /\ task'[i].bearer = task[i].bearer /\ task'[i].items = task[i].items
            /\ task'[i].form = task[i].form
<1>1. /\ J = {} \/ usuario # Nobody
      /\ task' = [h \in Task |-> IF h = k THEN BootTask
                                 ELSE IF h \in J THEN Reload(usuario)
                                 ELSE [task[h] EXCEPT !.alive = @ /\ task[h].kind # "boot"]]
  BY DEF SignalChanges
<1>2. task[i] \in TaskRecord
  BY TaskFacts
<1>3. CASE i # k /\ i \notin J
  <2> DEFINE alive == task[i].alive /\ task[i].kind # "boot"
  <2>1. task'[i] = [task[i] EXCEPT !.alive = alive]
    BY <1>1, <1>3
  <2> HIDE DEF alive
  <2> QED BY <1>2, <2>1 DEF TaskRecord
<1> QED BY <1>1, <1>3

(* What a login and a choice of a form begin with. *)
LEMMA UserTasks ==
  ASSUME TypeInv
  PROVE  /\ \A k \in Task, a \in Account : LoginAnswered(k, a) =>
              /\ task'[k].pc = "sites" /\ task'[k].account = a /\ task'[k].items = {}
              /\ \A j \in Task : j # k => task'[j] = task[j]
         /\ \A k \in Task, f \in Form : SelectRead(k, f) =>
              /\ task'[k].pc = "select" /\ task'[k].account = usuario /\ task'[k].items = {}
              /\ task'[k].form = f
              /\ \A j \in Task : j # k => task'[j] = task[j]
         /\ \A k \in Task : SelectShow(k) =>
              /\ task'[k] = Rest /\ task[k].form \in Form /\ task[k].account \in Account
              /\ \A j \in Task : j # k => task'[j] = task[j]
         /\ Alone \/ UNCHANGED formsVars => task' = task
<1>0. task \in [Task -> TaskRecord]
  BY DEF TypeInv, TaskTypes
<1>1. ASSUME NEW k \in Task, NEW a \in Account, LoginAnswered(k, a)
      PROVE  /\ task'[k].pc = "sites" /\ task'[k].account = a /\ task'[k].items = {}
             /\ \A j \in Task : j # k => task'[j] = task[j]
  <2>1. task' = [task EXCEPT ![k] = [Rest EXCEPT !.pc = "sites", !.kind = "login", !.account = a]]
    BY <1>1 DEF LoginAnswered
  <2> QED BY <1>0, <2>1, RestIsPlain, RestIsTask DEF TaskRecord
<1>2. ASSUME NEW k \in Task, NEW f \in Form, SelectRead(k, f)
      PROVE  /\ task'[k].pc = "select" /\ task'[k].account = usuario /\ task'[k].items = {}
             /\ task'[k].form = f
             /\ \A j \in Task : j # k => task'[j] = task[j]
  <2>1. task' = [task EXCEPT ![k] = [Rest EXCEPT !.pc = "select", !.account = usuario, !.form = f]]
    BY <1>2 DEF SelectRead
  <2> QED BY <1>0, <2>1, RestIsPlain, RestIsTask DEF TaskRecord
<1>3. ASSUME NEW k \in Task, SelectShow(k)
      PROVE  /\ task'[k] = Rest /\ task[k].form \in Form /\ task[k].account \in Account
             /\ \A j \in Task : j # k => task'[j] = task[j]
  BY <1>0, <1>3, TaskFacts DEF SelectShow, Finish, In, WellFormedTask
<1>4. Alone \/ UNCHANGED formsVars => task' = task
  BY DEF Alone, BeginCapture, OpenDraft, SubmitDraft, Logout, formsVars
<1> QED BY <1>1, <1>2, <1>3, <1>4

-----------------------------------------------------------------------------
(* The draft and the form.                                                  *)

(* Without a session too: the form shown is the one of the draft, and whoever
   chose a form has read the draft as it is. *)
DraftInv ==
  draft # Nobody /\ ~reframed =>
    /\ plantilla.ok => plantilla.form = draft
    /\ \A k \in Task : Choosing(k) => task[k].form = draft

(* A choice of a form under way is of the form of the open draft. *)
LEMMA DraftInvStep ==
  ASSUME TypeInv, DraftInv, [FormsNext]_formsVars
  PROVE  DraftInv'
<1>1. ASSUME draft' = draft, reframed' = reframed, plantilla' = plantilla,
             NEW k \in Task,
             \A j \in Task : j # k => task'[j] = task[j],
             Choosing(k)' => (Choosing(k) /\ task'[k].form = task[k].form) \/ task'[k].form = draft
      PROVE  DraftInv'
  BY <1>1 DEF DraftInv, Choosing, In
<1>2. ASSUME NEW k \in Task, PlainStep(k) PROVE DraftInv'
  <2>1. ~Choosing(k)' /\ \A j \in Task : j # k => task'[j] = task[j]
    BY <1>2, PlainTasks DEF Plain, Choosing, In
  <2>2. plantilla' = plantilla
    BY <1>2, PlainTasks
  <2>3. draft' = Nobody \/ (draft' = draft /\ (reframed' <=> reframed))
    <3>1. CASE SessionOf(k)
      BY <3>1 DEF SessionOf, Boot, BootAsks, BootWithoutToken, BootRefused, BootOffline,
                  LoginEnters, LoginFailsAfterToken, Leave, diskVars
    <3>2. CASE DiscardDraft(k)
      BY <3>2 DEF DiscardDraft
    <3>3. CASE ResetLocalData(k)
      BY <3>3 DEF ResetLocalData
    <3>4. CASE KeepCatalogue(k) \/ CatalogueRefused(k) \/ FindMissing(k) \/ Download(k)
               \/ DownloadRefused(k) \/ PlanPurge(k) \/ Purge(k) \/ Enter(k)
      BY <3>4 DEF KeepCatalogue, CatalogueRefused, FindMissing, Download, DownloadRefused,
                  PlanPurge, Purge, Enter, Leave, diskVars
    <3> QED BY <1>2, <3>1, <3>2, <3>3, <3>4 DEF PlainStep
  <2> QED BY <2>1, <2>2, <2>3 DEF DraftInv, Choosing, In
<1>3. ASSUME NEW k \in Task, AskCatalogue(k) \/ SyncFails(k) \/ RefreshCatalogue(k) \/ ShowList(k)
      PROVE  DraftInv'
  <2>1. ~Choosing(k)' /\ \A j \in Task : j # k => task'[j] = task[j]
    BY <1>3, OtherTasks DEF Choosing, In
  <2>2. draft' = draft /\ reframed' = reframed /\ plantilla' = plantilla
    BY <1>3 DEF AskCatalogue, SyncFails, RefreshCatalogue, ShowList, diskVars, screenVars
  <2> QED BY <1>1, <2>1, <2>2
<1>4. ASSUME NEW k \in Task, ReadFrame(k) PROVE DraftInv'
  <2>1. task'[k].form = draft /\ \A j \in Task : j # k => task'[j] = task[j]
    BY <1>4, OtherTasks
  <2>2. draft' = draft /\ reframed' = reframed /\ plantilla' = plantilla
    BY <1>4 DEF ReadFrame, diskVars, screenVars
  <2> QED BY <1>1, <2>1, <2>2
<1>5. ASSUME NEW k \in Task, ShowForm(k) PROVE DraftInv'
  <2>1. ~Choosing(k)' /\ \A j \in Task : j # k => task'[j] = task[j]
    BY <1>5, OtherTasks DEF Choosing, In
  <2>2. /\ draft' = draft /\ reframed' = reframed
        /\ plantilla' = Choose(task[k].items, task[k].form, task[k].preferred)
    BY <1>5 DEF ShowForm, diskVars
  <2>3. draft # Nobody /\ ~reframed => task[k].form = draft
    BY <1>5 DEF DraftInv, Choosing, ShowForm
  <2>4. draft # Nobody /\ ~reframed => plantilla'.form = draft
    BY <2>2, <2>3, TaskFacts, ChooseFacts
  <2> QED BY <2>1, <2>2, <2>4 DEF DraftInv, Choosing, In
<1>6. ASSUME NEW k \in Task, NEW f \in Form, SelectRead(k, f) PROVE DraftInv'
  <2>1. task'[k].form = f /\ \A j \in Task : j # k => task'[j] = task[j]
    BY <1>6, UserTasks
  <2>2. draft' = draft /\ reframed' = reframed /\ plantilla' = plantilla /\ draft \in {Nobody, f}
    BY <1>6 DEF SelectRead, diskVars, screenVars
  <2> QED BY <2>1, <2>2 DEF DraftInv, Choosing, In
<1>7. ASSUME NEW k \in Task, SelectShow(k) PROVE DraftInv'
  <2>1. task'[k] = Rest /\ \A j \in Task : j # k => task'[j] = task[j]
    BY <1>7, UserTasks
  <2>2. draft' = draft /\ reframed' = reframed /\ plantilla' = [form |-> task[k].form, ok |-> TRUE]
    BY <1>7 DEF SelectShow
  <2>3. draft # Nobody /\ ~reframed => task[k].form = draft
    BY <1>7 DEF DraftInv, Choosing, SelectShow
  <2> QED BY <2>1, <2>2, <2>3, RestIsPlain DEF DraftInv, Choosing, In
<1>8. ASSUME NEW k \in Task, NEW J \in SUBSET Task, SignalChanges(k, J) PROVE DraftInv'
  <2>1. \A i \in Task : Choosing(i)' => Choosing(i) /\ task'[i].form = task[i].form
    <3> TAKE i \in Task
    <3> QED BY <1>8, SignalTasks, RestIsPlain DEF Choosing, In
  <2>2. draft' = draft /\ reframed' = reframed /\ plantilla' = plantilla
    BY <1>8 DEF SignalChanges, diskVars, screenVars
  <2> QED BY <2>1, <2>2 DEF DraftInv
<1>9. ASSUME NEW k \in Task, NEW a \in Account, LoginAnswered(k, a) PROVE DraftInv'
  <2>1. ~Choosing(k)' /\ \A j \in Task : j # k => task'[j] = task[j]
    BY <1>9, UserTasks DEF Choosing, In
  <2>2. draft' = draft /\ reframed' = reframed /\ plantilla' = plantilla
    BY <1>9 DEF LoginAnswered, diskVars, screenVars
  <2> QED BY <1>1, <2>1, <2>2
<1>10. ASSUME OpenDraft PROVE DraftInv'
  <2>1. plantilla' = plantilla /\ task' = task
    BY <1>10 DEF OpenDraft, screenVars
  <2>2. reframed' <=> (reframed \/ plantilla.form # draft'
                       \/ \E k \in Task : Choosing(k) /\ task[k].form # draft')
    BY <1>10 DEF OpenDraft
  <2> QED BY <2>1, <2>2 DEF DraftInv, Choosing, In
<1>11. ASSUME SubmitDraft PROVE DraftInv'
  BY <1>11 DEF SubmitDraft, DraftInv
<1>12. ASSUME BeginCapture \/ Logout \/ UNCHANGED formsVars PROVE DraftInv'
  <2>1. task' = task
    BY <1>12, UserTasks DEF Alone
  <2>2. draft' = draft /\ reframed' = reframed /\ plantilla' = plantilla
    BY <1>12 DEF BeginCapture, Logout, Leave, formsVars, diskVars, screenVars
  <2> QED BY <2>1, <2>2 DEF DraftInv, Choosing, In
<1>13. ASSUME Reopen PROVE DraftInv'
  <2>1. ~plantilla'.ok /\ \A k \in Task : ~Choosing(k)'
    BY <1>13, RestIsPlain DEF Reopen, NoForm, Choosing, In
  <2> QED BY <2>1 DEF DraftInv
<1>14. Alone => BeginCapture \/ OpenDraft \/ SubmitDraft \/ Logout
  BY DEF Alone
<1>15. ASSUME NEW k \in Task, SessionOf(k) \/ Load(k) \/ UserOf(k)
       PROVE  PlainStep(k) \/ AskCatalogue(k) \/ SyncFails(k) \/ RefreshCatalogue(k)
              \/ ShowList(k) \/ ReadFrame(k) \/ ShowForm(k) \/ SelectShow(k)
  BY <1>15 DEF Load, UserOf, PlainStep
<1> QED BY <1>2, <1>3, <1>4, <1>5, <1>6, <1>7, <1>8, <1>9, <1>10, <1>11, <1>12, <1>13, <1>14,
           <1>15, FormsCases

(* DraftIsNotReframed (FR-028): with a draft open the form shown is the frozen
   one or the block, through loads, selections, sessions and resets. *)
THEOREM DraftsAreNotReframed == FormsSpec => []DraftIsNotReframed
<1>1. FormsInit => DraftInv
  BY DEF FormsInit, DraftInv
<1>2. TypeInv /\ DraftInv /\ [FormsNext]_formsVars => DraftInv'
  BY DraftInvStep
<1>3. DraftInv => DraftIsNotReframed
  BY DEF DraftInv, DraftIsNotReframed
<1> QED BY <1>1, <1>2, <1>3, TypeInvHolds, PTL DEF FormsSpec

(* The original of a draft leaves only by a purge of a task for another form. *)
LEMMA OriginalOfDraftStep ==
  ASSUME TypeInv, [FormsNext]_formsVars, draft # Nobody, draft' = draft,
         draft \in ToSet(originals)
  PROVE  \/ draft \in ToSet(originals')
         \/ \E k \in Task : In(k, "purge") /\ task[k].form # draft
<1>0. originals \in Seq(Form) /\ draft \in Form
  BY DEF TypeInv, OriginalTypes, DiskTypes
<1>1. ASSUME NEW k \in Task, Download(k) PROVE draft \in ToSet(originals')
  <2>1. Head(task[k].pending) \in Form
    BY <1>1, TaskFacts, HeadTailProperties DEF Download, TaskRecord
  <2>2. originals' = WithOriginal(Head(task[k].pending)) \/ originals' = originals
    BY <1>1 DEF Download
  <2> QED BY <2>1, <2>2, StoredFacts
<1>2. ASSUME NEW k \in Task, Purge(k), task[k].form = draft PROVE draft \in ToSet(originals')
  <2>1. /\ task[k].seen \in Seq(Form) /\ IsInjective(task[k].seen)
        /\ task[k].plan = Plan(task[k].seen, draft, task[k].items)
    BY <1>2, TaskFacts DEF Purge, In, TaskRecord, WellFormedTask
  <2>2. draft \notin task[k].plan
    <3>1. PlanIsLeast(task[k].seen, draft, task[k].items, task[k].plan)
      BY <2>1, PlanFacts
    <3> QED BY <3>1 DEF PlanIsLeast
  <2>3. ToSet(Keep(originals, Form \ task[k].plan)) = ToSet(originals) \cap (Form \ task[k].plan)
    BY <1>0, KeptFacts
  <2> QED BY <1>0, <1>2, <2>2, <2>3 DEF Purge
<1>3. ASSUME NEW k \in Task, ResetLocalData(k) PROVE draft \in ToSet(originals')
  <2> DEFINE mine == {f \in Form : FormTenant[f] = AccountTenant[usuario]}
  <2>1. originals' = Keep(originals, Form \ mine) /\ draft \notin mine
    BY <1>0, <1>3 DEF ResetLocalData
  <2> HIDE DEF mine
  <2>2. ToSet(Keep(originals, Form \ mine)) = ToSet(originals) \cap (Form \ mine)
    BY <1>0, KeptFacts
  <2> QED BY <1>0, <2>1, <2>2
<1>4. ASSUME NEW k \in Task, Purge(k) PROVE In(k, "purge")
  BY <1>4 DEF Purge
<1> QED BY <1>1, <1>2, <1>3, <1>4, WhoWritesOriginals

(* DraftKeepsItsOriginal (FR-018, FR-019): no download, purge or reset takes the
   original of an open draft, unless a purge planned before the draft was. *)
THEOREM DraftsKeepTheirOriginal == FormsSpec => DraftKeepsItsOriginal
<1>1. TypeInv /\ [FormsNext]_formsVars =>
        [draft # Nobody /\ draft' = draft /\ draft \in ToSet(originals) =>
          \/ draft \in ToSet(originals')
          \/ \E k \in Task : In(k, "purge") /\ task[k].form # draft ]_formsVars
  BY OriginalOfDraftStep
<1> QED BY <1>1, TypeInvHolds, PTL DEF FormsSpec, DraftKeepsItsOriginal

-----------------------------------------------------------------------------
(* What an account is shown is its own.                                     *)

(* Two accounts are never on the device at a time, as the owner of the token,
   on the screen or of a task, unless both have crossed. *)
Present == ({token, usuario} \cup {task[k].account : k \in Task}) \ {Nobody}
OneOrCrossed == \A a, b \in Present : a = b \/ (a \in crossed /\ b \in crossed)

(* Nobody is present on a new device. *)
LEMMA PresentInit == FormsInit => OneOrCrossed
BY RestIsPlain DEF FormsInit, OneOrCrossed, Present

(* Two accounts are present at once only where both are marked as crossed. *)
LEMMA PresentStep ==
  ASSUME TypeInv, OneOrCrossed, [FormsNext]_formsVars
  PROVE  OneOrCrossed'
<1>0. crossed \subseteq crossed'
  BY CrossedGrows
<1>1. ASSUME token' \in {token, Nobody},
             usuario' \in {usuario, Nobody} \cup {task[k].account : k \in Task},
             \A j \in Task : task'[j].account \in {task[j].account, Nobody, usuario}
      PROVE  OneOrCrossed'
  <2>1. Present' \subseteq Present
    BY <1>1 DEF Present
  <2> QED BY <1>0, <2>1 DEF OneOrCrossed
<1>2. ASSUME NEW k \in Task, PlainStep(k), ~BootAsks(k) PROVE OneOrCrossed'
  <2>1. \A j \in Task : task'[j].account \in {task[j].account, Nobody, usuario}
    BY <1>2, PlainTasks
  <2>2. token' \in {token, Nobody} /\ usuario' \in {usuario, Nobody, task[k].account}
    <3>1. CASE SessionOf(k)
      BY <1>2, <3>1 DEF SessionOf, Boot, BootWithoutToken, BootRefused, BootOffline,
                  LoginEnters, LoginFailsAfterToken, Leave, screenVars
    <3>2. CASE DiscardDraft(k) \/ ResetLocalData(k)
      BY <3>2 DEF DiscardDraft, ResetLocalData, screenVars
    <3>3. CASE KeepCatalogue(k) \/ CatalogueRefused(k) \/ FindMissing(k) \/ Download(k)
      BY <3>3 DEF KeepCatalogue, CatalogueRefused, FindMissing, Download, Leave, screenVars
    <3>4. CASE DownloadRefused(k) \/ PlanPurge(k) \/ Purge(k) \/ Enter(k)
      BY <3>4 DEF DownloadRefused, PlanPurge, Purge, Enter, Leave, screenVars
    <3> QED BY <1>2, <3>1, <3>2, <3>3, <3>4 DEF PlainStep
  <2> QED BY <1>1, <2>1, <2>2
<1>3. ASSUME NEW k \in Task, BootAsks(k) PROVE OneOrCrossed'
  <2>1. task' = [task EXCEPT ![k] = [task[k] EXCEPT !.pc = "me", !.account = saved]]
    BY <1>3, TaskFacts DEF BootAsks
  <2>2. task'[k].account = saved /\ \A j \in Task : j # k => task'[j] = task[j]
    BY <2>1, TaskFacts DEF TaskRecord
  <2>3. token' = token /\ usuario' = usuario /\ token # Nobody
        /\ crossed' = IF saved \in {Nobody, token} THEN crossed ELSE crossed \cup {saved, token}
    BY <1>3 DEF BootAsks, screenVars
  <2>4. Present' \subseteq Present \cup ({saved} \ {Nobody}) /\ token \in Present
    BY <2>2, <2>3 DEF Present
  <2>5. CASE saved \in {Nobody, token}
    <3>1. Present' \subseteq Present
      BY <2>4, <2>5
    <3> QED BY <1>0, <3>1 DEF OneOrCrossed
  <2>6. CASE saved \notin {Nobody, token}
    <3>1. saved \in crossed' /\ token \in crossed'
      BY <2>3, <2>6
    <3>2. \A a \in Present : a = token \/ a \in crossed'
      BY <1>0, <2>4 DEF OneOrCrossed
    <3> QED BY <2>4, <3>1, <3>2 DEF OneOrCrossed
  <2> QED BY <2>5, <2>6
<1>4. ASSUME NEW k \in Task,
             AskCatalogue(k) \/ SyncFails(k) \/ RefreshCatalogue(k) \/ ShowList(k) \/ ReadFrame(k)
               \/ ShowForm(k)
      PROVE  OneOrCrossed'
  <2>1. \A j \in Task : task'[j].account \in {task[j].account, Nobody, usuario}
    BY <1>4, OtherTasks
  <2>2. token' = token /\ usuario' = usuario
    BY <1>4 DEF AskCatalogue, SyncFails, RefreshCatalogue, ShowList, ReadFrame, ShowForm,
                diskVars, screenVars
  <2> QED BY <1>1, <2>1, <2>2
<1>5. ASSUME NEW k \in Task, NEW a \in Account, LoginAnswered(k, a) PROVE OneOrCrossed'
  <2> DEFINE others == {task[j].account : j \in Task} \ {a, Nobody}
  <2>1. task'[k].account = a /\ \A j \in Task : j # k => task'[j] = task[j]
    BY <1>5, UserTasks
  <2>2. /\ token' = a /\ usuario' = Nobody
        /\ crossed' = IF others = {} THEN crossed ELSE crossed \cup others \cup {a}
    BY <1>5 DEF LoginAnswered, screenVars
  <2>3. Present' \subseteq others \cup {a}
    BY <2>1, <2>2 DEF Present
  <2> HIDE DEF others
  <2> QED BY <2>2, <2>3 DEF OneOrCrossed
<1>6. ASSUME NEW k \in Task, NEW f \in Form, SelectRead(k, f) PROVE OneOrCrossed'
  <2>1. \A j \in Task : task'[j].account \in {task[j].account, Nobody, usuario}
    BY <1>6, UserTasks
  <2>2. token' = token /\ usuario' = usuario
    BY <1>6 DEF SelectRead, screenVars
  <2> QED BY <1>1, <2>1, <2>2
<1>7. ASSUME NEW k \in Task, SelectShow(k) PROVE OneOrCrossed'
  <2>1. \A j \in Task : task'[j].account \in {task[j].account, Nobody, usuario}
    BY <1>7, UserTasks, RestIsPlain
  <2>2. token' = token /\ usuario' = usuario
    BY <1>7 DEF SelectShow
  <2> QED BY <1>1, <2>1, <2>2
<1>8. ASSUME NEW k \in Task, NEW J \in SUBSET Task, SignalChanges(k, J) PROVE OneOrCrossed'
  <2>1. \A i \in Task : task'[i].account \in {task[i].account, Nobody, usuario}
    <3> TAKE i \in Task
    <3> QED BY <1>8, SignalTasks, RestIsPlain
  <2>2. token' = token /\ usuario' = usuario
    BY <1>8 DEF SignalChanges, screenVars
  <2> QED BY <1>1, <2>1, <2>2
<1>9. ASSUME Alone \/ UNCHANGED formsVars PROVE OneOrCrossed'
  <2>1. task' = task
    BY <1>9, UserTasks
  <2>2. token' \in {token, Nobody} /\ usuario' \in {usuario, Nobody}
    BY <1>9 DEF Alone, BeginCapture, OpenDraft, SubmitDraft, Logout, Leave, formsVars, screenVars
  <2> QED BY <1>1, <2>1, <2>2
<1>10. ASSUME Reopen PROVE OneOrCrossed'
  <2>1. \A i \in Task : task'[i] = Rest
    BY <1>10 DEF Reopen
  <2>2. token' \in {token, Nobody} /\ usuario' \in {usuario, Nobody}
    BY <1>10 DEF Reopen
  <2> QED BY <1>1, <2>1, <2>2, RestIsPlain
<1>11. ASSUME NEW k \in Task, SessionOf(k) \/ Load(k) \/ UserOf(k)
       PROVE  PlainStep(k) \/ AskCatalogue(k) \/ SyncFails(k) \/ RefreshCatalogue(k)
              \/ ShowList(k) \/ ReadFrame(k) \/ ShowForm(k) \/ SelectShow(k)
  BY <1>11 DEF Load, UserOf, PlainStep
<1> QED BY <1>2, <1>3, <1>4, <1>5, <1>6, <1>7, <1>8, <1>9, <1>10, <1>11, FormsCases

(* What an account has kept, what its tasks carry and what it is shown. *)
ScreenOwn(a) == formularios \subseteq Own(a)
FormOwn(a) == plantilla.ok => plantilla.form \in Own(a)

TaskOwn(k) ==
  task[k].account \notin crossed \cup {Nobody} =>
    /\ task[k].items \subseteq Own(task[k].account)
    /\ task[k].pc = "asked" => task[k].bearer = task[k].account
    /\ task[k].pc \in {"frame", "choose", "enter"} => ScreenOwn(task[k].account)
    /\ task[k].pc = "enter" => FormOwn(task[k].account)
    /\ task[k].pc = "select" => task[k].form \in Own(task[k].account)

OwnInv ==
  /\ \A a \in Account \ crossed : catalogue[a] \subseteq Own(a)
  /\ \A k \in Task : TaskOwn(k)
  /\ usuario \notin crossed \cup {Nobody} => ScreenOwn(usuario) /\ FormOwn(usuario)

(* A new device shows nothing of anybody. *)
LEMMA OwnInit == FormsInit => OwnInv
BY RestIsPlain DEF FormsInit, OwnInv, TaskOwn

(* The catalogue that is kept is the answer to the account that it is kept for. *)
LEMMA CatalogueOwnStep ==
  ASSUME TypeInv, OwnInv, [FormsNext]_formsVars
  PROVE  \A a \in Account \ crossed' : catalogue'[a] \subseteq Own(a)
<1>0. crossed \subseteq crossed' /\ \A a \in Account \ crossed : catalogue[a] \subseteq Own(a)
  BY CrossedGrows DEF OwnInv
<1>1. ASSUME NEW k \in Task, RefreshCatalogue(k)
      PROVE  \A a \in Account \ crossed' : catalogue'[a] \subseteq Own(a)
  <2> DEFINE b == task[k].account
  <2>1. PICK answer \in Assignment[task[k].bearer] : \E visible \in SUBSET answer :
          catalogue' = [catalogue EXCEPT ![b] = visible]
    BY <1>1 DEF RefreshCatalogue, KeepAnswer
  <2>2. b \in Account /\ task[k].pc = "asked" /\ catalogue \in [Account -> SUBSET Form]
    BY <1>1, TaskFacts DEF RefreshCatalogue, In, TypeInv, DiskTypes
  <2>3. b \notin crossed => answer \subseteq Own(b)
    <3> SUFFICES ASSUME b \notin crossed PROVE answer \subseteq Own(b)
      OBVIOUS
    <3>1. b # Nobody
      BY <2>2, FormsAssumption
    <3>2. task[k].bearer = b
      BY <2>2, <3>1 DEF OwnInv, TaskOwn
    <3> QED BY <2>1, <3>2 DEF Own
  <2> QED BY <1>0, <2>1, <2>2, <2>3
<1>2. ASSUME ~\E k \in Task : RefreshCatalogue(k) PROVE catalogue' = catalogue
  <2>1. ASSUME NEW k \in Task, SessionOf(k) PROVE catalogue' = catalogue
    BY <2>1 DEF SessionOf, Boot, BootAsks, BootWithoutToken, BootRefused, BootOffline, LoginEnters,
                LoginFailsAfterToken, Leave, diskVars, catalogueVars
  <2>2. ASSUME NEW k \in Task, Load(k) PROVE catalogue' = catalogue
    BY <1>2, <2>2 DEF Load, AskCatalogue, KeepCatalogue, CatalogueRefused, FindMissing, Download,
                DownloadRefused, PlanPurge, Purge, ShowList, ReadFrame, SyncFails, ShowForm, Enter, Leave, diskVars,
                catalogueVars
  <2>3. ASSUME NEW k \in Task, UserOf(k) PROVE catalogue' = catalogue
    BY <2>3 DEF UserOf, SelectShow, DiscardDraft, ResetLocalData, catalogueVars
  <2>4. ASSUME NEW k \in Task, NEW J \in SUBSET Task, SignalChanges(k, J) PROVE catalogue' = catalogue
    BY <2>4 DEF SignalChanges, diskVars, catalogueVars
  <2>5. ASSUME NEW k \in Task, NEW a \in Account, LoginAnswered(k, a) PROVE catalogue' = catalogue
    BY <2>5 DEF LoginAnswered, diskVars, catalogueVars
  <2>6. ASSUME NEW k \in Task, NEW f \in Form, SelectRead(k, f) PROVE catalogue' = catalogue
    BY <2>6 DEF SelectRead, diskVars, catalogueVars
  <2>7. ASSUME Alone \/ Reopen \/ UNCHANGED formsVars PROVE catalogue' = catalogue
    BY <2>7 DEF Alone, BeginCapture, OpenDraft, SubmitDraft, Logout, Leave, Reopen, formsVars,
                diskVars, catalogueVars
  <2> QED BY <2>1, <2>2, <2>3, <2>4, <2>5, <2>6, <2>7, FormsCases
<1> QED BY <1>0, <1>1, <1>2

(* Two tasks with an account, and the one on the screen, share it or crossed. *)
LEMMA SameAccount ==
  ASSUME TypeInv, OneOrCrossed
  PROVE  /\ \A k, j \in Task :
              task[k].account \notin crossed \cup {Nobody} /\ task[j].account # Nobody =>
                task[j].account = task[k].account
         /\ \A k \in Task :
              usuario \notin crossed \cup {Nobody} /\ task[k].account # Nobody =>
                task[k].account = usuario
         /\ \A k \in Task :
              task[k].account \notin crossed \cup {Nobody} /\ token # Nobody =>
                token = task[k].account
BY DEF OneOrCrossed, Present

(* What is left to a task that a step does not touch, and what a form that is
   shown needs of the list it was chosen from. *)
LEMMA TaskOwnKept ==
  ASSUME NEW i \in Task, TaskOwn(i), crossed \subseteq crossed',
         task'[i].pc = task[i].pc, task'[i].account = task[i].account,
         task'[i].bearer = task[i].bearer, task'[i].items = task[i].items,
         task'[i].form = task[i].form, UNCHANGED <<formularios, plantilla>>
  PROVE  TaskOwn(i)'
BY DEF TaskOwn, ScreenOwn, FormOwn, Own

(* A task of an account that nobody crossed carries that account's own forms. *)
LEMMA TaskOwnStep ==
  ASSUME TypeInv, OneOrCrossed, OwnInv, [FormsNext]_formsVars, NEW i \in Task
  PROVE  TaskOwn(i)'
<1>0. crossed \subseteq crossed' /\ \A j \in Task : TaskOwn(j)
  BY CrossedGrows DEF OwnInv
<1>1. ASSUME task'[i] = task[i], UNCHANGED <<formularios, plantilla>> PROVE TaskOwn(i)'
  BY <1>0, <1>1, TaskOwnKept
<1>2. ASSUME NEW k \in Task, PlainStep(k) PROVE TaskOwn(i)'
  <2>1. Plain(task'[k], task[k]) /\ (i # k => task'[i] = task[i])
        /\ UNCHANGED <<formularios, plantilla>>
    BY <1>2, PlainTasks
  <2>2. CASE i = k
    BY <1>0, <2>1, <2>2 DEF Plain, TaskOwn, Own
  <2> QED BY <1>1, <2>1, <2>2
<1>3. ASSUME NEW k \in Task, AskCatalogue(k) \/ SyncFails(k) PROVE TaskOwn(i)'
  <2>1. /\ task'[k].account = task[k].account
        /\ task'[k].items = ReadCatalogue(task[k].account)
        /\ task'[k].pc \in {"missing", "asked", "list"}
        /\ task'[k].pc = "asked" => token # Nobody /\ task'[k].bearer = token
        /\ i # k => task'[i] = task[i]
    BY <1>3, OtherTasks
  <2>2. UNCHANGED <<formularios, plantilla>>
    BY <1>3 DEF AskCatalogue, SyncFails, screenVars
  <2>3. CASE i = k
    <3> SUFFICES ASSUME task[k].account \notin crossed \cup {Nobody} PROVE TaskOwn(i)'
      BY <1>0, <2>1, <2>3 DEF TaskOwn
    <3>1. task[k].account \in Account
      BY <1>3, TaskFacts DEF AskCatalogue, SyncFails, In
    <3>2. ReadCatalogue(task[k].account) \subseteq Own(task[k].account)
      BY <3>1 DEF OwnInv, ReadCatalogue
    <3>3. token # Nobody => token = task[k].account
      BY SameAccount
    <3> QED BY <2>1, <2>3, <3>2, <3>3 DEF TaskOwn, Own
  <2> QED BY <1>1, <2>1, <2>2, <2>3
<1>4. ASSUME NEW k \in Task, RefreshCatalogue(k) PROVE TaskOwn(i)'
  <2>1. /\ task'[k].account = task[k].account /\ task'[k].pc = "missing"
        /\ \E answer \in Assignment[task[k].bearer] : task'[k].items \subseteq answer
        /\ i # k => task'[i] = task[i]
    BY <1>4, OtherTasks
  <2>2. UNCHANGED <<formularios, plantilla>> /\ task[k].pc = "asked"
    BY <1>4 DEF RefreshCatalogue, screenVars, In
  <2>3. CASE i = k
    <3> SUFFICES ASSUME task[k].account \notin crossed \cup {Nobody} PROVE TaskOwn(i)'
      BY <1>0, <2>1, <2>3 DEF TaskOwn
    <3>1. task[k].bearer = task[k].account
      BY <1>0, <2>2 DEF TaskOwn
    <3>2. task'[k].items \subseteq Own(task[k].account)
      BY <2>1, <3>1 DEF Own
    <3> QED BY <2>1, <2>3, <3>2 DEF TaskOwn, Own
  <2> QED BY <1>1, <2>1, <2>2, <2>3
<1>5. ASSUME NEW k \in Task, ShowList(k) PROVE TaskOwn(i)'
  <2>1. /\ task'[k].account = task[k].account /\ task'[k].items = task[k].items
        /\ task'[k].pc = "frame" /\ (i # k => task'[i] = task[i])
    BY <1>5, OtherTasks
  <2>2. /\ formularios' = task[k].items /\ plantilla' = plantilla /\ task[k].pc = "list"
        /\ crossed' = crossed
    BY <1>5 DEF ShowList, In
  <2>3. task'[i].account = task[i].account
    BY <2>1
  <2> SUFFICES ASSUME task[i].account \notin crossed \cup {Nobody} PROVE TaskOwn(i)'
    BY <2>2, <2>3 DEF TaskOwn
  <2>4. task[k].account # Nobody
    BY <2>2, TaskFacts, FormsAssumption
  <2>5. task[k].account = task[i].account
    BY <2>4, SameAccount
  <2>6. task[k].items \subseteq Own(task[i].account) /\ TaskOwn(i)
    BY <1>0, <2>5 DEF TaskOwn
  <2>7. CASE i = k
    BY <2>1, <2>2, <2>6, <2>7 DEF TaskOwn, ScreenOwn, FormOwn, Own
  <2>8. CASE i # k
    BY <2>1, <2>2, <2>6, <2>8 DEF TaskOwn, ScreenOwn, FormOwn, Own
  <2> QED BY <2>7, <2>8
<1>14. ASSUME NEW k \in Task, ReadFrame(k) PROVE TaskOwn(i)'
  <2>1. /\ task'[k].account = task[k].account /\ task'[k].items = task[k].items
        /\ task'[k].pc = "choose" /\ (i # k => task'[i] = task[i])
    BY <1>14, OtherTasks
  <2>2. UNCHANGED <<formularios, plantilla, crossed>> /\ task[k].pc = "frame"
    BY <1>14 DEF ReadFrame, screenVars, In
  <2>3. CASE i = k
    BY <1>0, <2>1, <2>2, <2>3 DEF TaskOwn, ScreenOwn, Own
  <2> QED BY <1>1, <2>1, <2>2, <2>3
<1>6. ASSUME NEW k \in Task, ShowForm(k) PROVE TaskOwn(i)'
  <2>1. /\ task'[k].account \in {task[k].account, Nobody}
        /\ task'[k].pc \in {"idle", "enter"} /\ task'[k].items = {}
        /\ i # k => task'[i] = task[i]
    BY <1>6, OtherTasks
  <2>2. /\ formularios' = formularios /\ crossed' = crossed /\ task[k].pc = "choose"
        /\ plantilla' = Choose(task[k].items, task[k].form, task[k].preferred)
    BY <1>6 DEF ShowForm, In
  <2>3. plantilla'.ok => plantilla'.form \in task[k].items
    BY <2>2, TaskFacts, ChooseFacts
  <2> SUFFICES ASSUME task[i].account \notin crossed \cup {Nobody} PROVE TaskOwn(i)'
    BY <2>1, <2>2 DEF TaskOwn
  <2>4. task[k].account # Nobody
    BY <2>2, TaskFacts, FormsAssumption
  <2>5. task[k].account = task[i].account
    BY <2>4, SameAccount
  <2>6. task[k].items \subseteq Own(task[i].account) /\ ScreenOwn(task[i].account) /\ TaskOwn(i)
    BY <1>0, <2>2, <2>5 DEF TaskOwn
  <2>7. CASE i = k
    BY <2>1, <2>2, <2>3, <2>6, <2>7 DEF TaskOwn, ScreenOwn, FormOwn, Own
  <2>8. CASE i # k
    BY <2>1, <2>2, <2>3, <2>6, <2>8 DEF TaskOwn, ScreenOwn, FormOwn, Own
  <2> QED BY <2>7, <2>8
<1>7. ASSUME NEW k \in Task, SelectShow(k) PROVE TaskOwn(i)'
  <2>1. /\ task'[k] = Rest /\ task[k].account \in Account
        /\ i # k => task'[i] = task[i]
    BY <1>7, UserTasks
  <2>2. /\ formularios' = formularios /\ crossed' = crossed /\ task[k].pc = "select"
        /\ plantilla' = [form |-> task[k].form, ok |-> TRUE]
    BY <1>7 DEF SelectShow, In
  <2>3. CASE i = k
    BY <2>1, <2>3, RestIsPlain DEF TaskOwn
  <2>4. CASE i # k
    <3> SUFFICES ASSUME task[i].account \notin crossed \cup {Nobody} PROVE TaskOwn(i)'
      BY <2>1, <2>2, <2>4 DEF TaskOwn
    <3>1. task[k].account = task[i].account
      BY <2>1, SameAccount, FormsAssumption
    <3>2. task[k].form \in Own(task[i].account) /\ TaskOwn(i)
      BY <1>0, <2>2, <3>1 DEF TaskOwn
    <3> QED BY <2>1, <2>2, <2>4, <3>2 DEF TaskOwn, ScreenOwn, FormOwn, Own
  <2> QED BY <2>3, <2>4
<1>8. ASSUME NEW k \in Task, NEW f \in Form, SelectRead(k, f) PROVE TaskOwn(i)'
  <2>1. /\ task'[k].pc = "select" /\ task'[k].account = usuario /\ task'[k].items = {}
        /\ task'[k].form = f /\ (i # k => task'[i] = task[i])
    BY <1>8, UserTasks
  <2>2. UNCHANGED <<formularios, plantilla>> /\ f \in formularios /\ crossed' = crossed
    BY <1>8 DEF SelectRead, screenVars
  <2>3. usuario \notin crossed \cup {Nobody} => f \in Own(usuario)
    BY <2>2 DEF OwnInv, ScreenOwn
  <2>4. CASE i = k
    BY <2>1, <2>2, <2>3, <2>4 DEF TaskOwn, Own
  <2> QED BY <1>1, <2>1, <2>2, <2>4
<1>9. ASSUME NEW k \in Task, NEW J \in SUBSET Task, SignalChanges(k, J) PROVE TaskOwn(i)'
  <2>1. UNCHANGED <<formularios, plantilla>>
    BY <1>9 DEF SignalChanges, screenVars
  <2>2. CASE task'[i] = BootTask \/ task'[i] = Reload(usuario)
    BY <2>2, RestIsPlain DEF TaskOwn
  <2> QED BY <1>0, <1>9, <2>1, <2>2, SignalTasks, TaskOwnKept
<1>10. ASSUME NEW k \in Task, NEW a \in Account, LoginAnswered(k, a) PROVE TaskOwn(i)'
  <2>1. /\ task'[k].pc = "sites" /\ task'[k].items = {}
        /\ i # k => task'[i] = task[i]
    BY <1>10, UserTasks
  <2>2. UNCHANGED <<formularios, plantilla>>
    BY <1>10 DEF LoginAnswered, screenVars
  <2>3. CASE i = k
    BY <2>1, <2>3 DEF TaskOwn
  <2> QED BY <1>1, <2>1, <2>2, <2>3
<1>11. ASSUME Alone \/ UNCHANGED formsVars PROVE TaskOwn(i)'
  <2>1. task' = task
    BY <1>11, UserTasks
  <2>2. UNCHANGED <<formularios, plantilla>>
    BY <1>11 DEF Alone, BeginCapture, OpenDraft, SubmitDraft, Logout, Leave, formsVars, screenVars
  <2> QED BY <1>1, <2>1, <2>2
<1>12. ASSUME Reopen PROVE TaskOwn(i)'
  BY <1>12, RestIsPlain DEF Reopen, TaskOwn
<1>13. ASSUME NEW k \in Task, SessionOf(k) \/ Load(k) \/ UserOf(k)
       PROVE  PlainStep(k) \/ AskCatalogue(k) \/ SyncFails(k) \/ RefreshCatalogue(k)
              \/ ShowList(k) \/ ReadFrame(k) \/ ShowForm(k) \/ SelectShow(k)
  BY <1>13 DEF Load, UserOf, PlainStep
<1> QED BY <1>2, <1>3, <1>4, <1>5, <1>6, <1>7, <1>8, <1>9, <1>10, <1>11, <1>12, <1>13, <1>14,
           FormsCases

(* The screen of an account that nobody crossed shows its own forms. *)
LEMMA ScreenOwnStep ==
  ASSUME TypeInv, OneOrCrossed, OwnInv, [FormsNext]_formsVars,
         usuario' \notin crossed' \cup {Nobody}
  PROVE  ScreenOwn(usuario)' /\ FormOwn(usuario)'
<1>0. /\ crossed \subseteq crossed' /\ \A j \in Task : TaskOwn(j)
      /\ usuario \notin crossed \cup {Nobody} => ScreenOwn(usuario) /\ FormOwn(usuario)
  BY CrossedGrows DEF OwnInv
<1>1. ASSUME usuario' = usuario, UNCHANGED <<formularios, plantilla>>
      PROVE  ScreenOwn(usuario)' /\ FormOwn(usuario)'
  BY <1>0, <1>1 DEF ScreenOwn, FormOwn, Own
<1>2. ASSUME NEW k \in Task, Enter(k) PROVE ScreenOwn(usuario)' /\ FormOwn(usuario)'
  <2>1. /\ usuario' = task[k].account /\ task[k].pc = "enter"
        /\ UNCHANGED <<formularios, plantilla, crossed>>
    BY <1>2 DEF Enter, In
  <2>2. ScreenOwn(task[k].account) /\ FormOwn(task[k].account)
    BY <1>0, <2>1 DEF TaskOwn
  <2> QED BY <2>1, <2>2 DEF ScreenOwn, FormOwn, Own
<1>3. ASSUME NEW k \in Task, PlainStep(k), ~Enter(k)
      PROVE  ScreenOwn(usuario)' /\ FormOwn(usuario)'
  <2>1. usuario' \in {usuario, Nobody}
    <3>1. CASE SessionOf(k)
      BY <1>3, <3>1 DEF SessionOf, Boot, BootAsks, BootWithoutToken, BootRefused, BootOffline,
                  LoginEnters, LoginFailsAfterToken, Leave, screenVars
    <3>2. CASE DiscardDraft(k) \/ ResetLocalData(k)
      BY <3>2 DEF DiscardDraft, ResetLocalData, screenVars
    <3>3. CASE KeepCatalogue(k) \/ CatalogueRefused(k) \/ FindMissing(k) \/ Download(k)
      BY <3>3 DEF KeepCatalogue, CatalogueRefused, FindMissing, Download, Leave, screenVars
    <3>4. CASE DownloadRefused(k) \/ PlanPurge(k) \/ Purge(k)
      BY <3>4 DEF DownloadRefused, PlanPurge, Purge, Leave, screenVars
    <3> QED BY <1>3, <3>1, <3>2, <3>3, <3>4 DEF PlainStep
  <2>2. UNCHANGED <<formularios, plantilla>>
    BY <1>3, PlainTasks
  <2> QED BY <1>1, <2>1, <2>2
<1>4. ASSUME NEW k \in Task, AskCatalogue(k) \/ SyncFails(k) \/ RefreshCatalogue(k) \/ ReadFrame(k)
      PROVE  ScreenOwn(usuario)' /\ FormOwn(usuario)'
  BY <1>1, <1>4 DEF AskCatalogue, SyncFails, RefreshCatalogue, ReadFrame, screenVars
<1>5. ASSUME NEW k \in Task, ShowList(k) PROVE ScreenOwn(usuario)' /\ FormOwn(usuario)'
  <2>1. /\ formularios' = task[k].items /\ UNCHANGED <<usuario, plantilla, crossed>>
        /\ task[k].pc = "list"
    BY <1>5 DEF ShowList, In
  <2>2. task[k].account # Nobody
    BY <2>1, TaskFacts, FormsAssumption
  <2>3. task[k].account = usuario
    BY <2>1, <2>2, SameAccount
  <2>4. task[k].items \subseteq Own(usuario)
    BY <1>0, <2>1, <2>3 DEF TaskOwn
  <2> QED BY <1>0, <2>1, <2>4 DEF ScreenOwn, FormOwn, Own
<1>6. ASSUME NEW k \in Task, ShowForm(k) PROVE ScreenOwn(usuario)' /\ FormOwn(usuario)'
  <2>1. /\ UNCHANGED <<usuario, formularios, crossed>> /\ task[k].pc = "choose"
        /\ plantilla' = Choose(task[k].items, task[k].form, task[k].preferred)
    BY <1>6 DEF ShowForm, In
  <2>2. plantilla'.ok => plantilla'.form \in task[k].items
    BY <2>1, TaskFacts, ChooseFacts
  <2>3. task[k].account # Nobody
    BY <2>1, TaskFacts, FormsAssumption
  <2>4. task[k].account = usuario
    BY <2>1, <2>3, SameAccount
  <2>5. task[k].items \subseteq Own(usuario)
    BY <1>0, <2>1, <2>4 DEF TaskOwn
  <2> QED BY <1>0, <2>1, <2>2, <2>5 DEF ScreenOwn, FormOwn, Own
<1>7. ASSUME NEW k \in Task, SelectShow(k) PROVE ScreenOwn(usuario)' /\ FormOwn(usuario)'
  <2>1. /\ UNCHANGED <<usuario, formularios, crossed>> /\ task[k].pc = "select"
        /\ plantilla' = [form |-> task[k].form, ok |-> TRUE]
    BY <1>7 DEF SelectShow, In
  <2>2. task[k].account = usuario
    BY <1>7, <2>1, UserTasks, SameAccount, FormsAssumption
  <2>3. task[k].form \in Own(usuario)
    BY <1>0, <2>1, <2>2 DEF TaskOwn
  <2> QED BY <1>0, <2>1, <2>3 DEF ScreenOwn, FormOwn, Own
<1>8. ASSUME NEW k \in Task, NEW f \in Form, SelectRead(k, f)
      PROVE  ScreenOwn(usuario)' /\ FormOwn(usuario)'
  BY <1>1, <1>8 DEF SelectRead, screenVars
<1>9. ASSUME NEW k \in Task, NEW J \in SUBSET Task, SignalChanges(k, J)
      PROVE  ScreenOwn(usuario)' /\ FormOwn(usuario)'
  BY <1>1, <1>9 DEF SignalChanges, screenVars
<1>10. ASSUME NEW k \in Task, NEW a \in Account, LoginAnswered(k, a)
       PROVE  ScreenOwn(usuario)' /\ FormOwn(usuario)'
  BY <1>1, <1>10 DEF LoginAnswered, screenVars
<1>11. ASSUME Alone \/ UNCHANGED formsVars PROVE ScreenOwn(usuario)' /\ FormOwn(usuario)'
  BY <1>1, <1>11 DEF Alone, BeginCapture, OpenDraft, SubmitDraft, Logout, Leave, formsVars, screenVars
<1>12. ~Reopen
  BY DEF Reopen
<1>13. ASSUME NEW k \in Task, SessionOf(k) \/ Load(k) \/ UserOf(k)
       PROVE  PlainStep(k) \/ AskCatalogue(k) \/ SyncFails(k) \/ RefreshCatalogue(k)
              \/ ShowList(k) \/ ReadFrame(k) \/ ShowForm(k) \/ SelectShow(k)
  BY <1>13 DEF Load, UserOf, PlainStep
<1> QED BY <1>2, <1>3, <1>4, <1>5, <1>6, <1>7, <1>8, <1>9, <1>10, <1>11, <1>12, <1>13, FormsCases

(* What is stored, carried and shown of an account is its own: inductive. *)
LEMMA OwnStep == TypeInv /\ OneOrCrossed /\ OwnInv /\ [FormsNext]_formsVars => OwnInv'
<1> SUFFICES ASSUME TypeInv, OneOrCrossed, OwnInv, [FormsNext]_formsVars PROVE OwnInv'
  OBVIOUS
<1>1. \A k \in Task : TaskOwn(k)'
  BY TaskOwnStep
<1>2. \A a \in Account \ crossed' : catalogue'[a] \subseteq Own(a)
  BY CatalogueOwnStep
<1> QED BY <1>1, <1>2, ScreenOwnStep DEF OwnInv, Own

(* FormsAreOwn: on a shared device an account keeps and is shown only what the
   server assigned to it, whatever loads outlive the session that began them,
   unless it crossed with another account (store.tsx, catalogo-formularios.ts). *)
THEOREM FormsStayOwn == FormsSpec => []FormsAreOwn
<1>1. OneOrCrossed /\ TypeInv /\ [FormsNext]_formsVars => OneOrCrossed'
  BY PresentStep
<1>2. FormsSpec => []OneOrCrossed
  BY <1>1, PresentInit, TypeInvHolds, PTL DEF FormsSpec
<1>3. FormsSpec => []OwnInv
  BY <1>2, OwnInit, OwnStep, TypeInvHolds, PTL DEF FormsSpec
<1>4. OwnInv => FormsAreOwn
  BY DEF OwnInv, ScreenOwn, FormOwn, FormsAreOwn, ReadCatalogue
<1> QED BY <1>3, <1>4, PTL
=============================================================================
