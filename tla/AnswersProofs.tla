--------------------------- MODULE AnswersProofs ---------------------------
(***************************************************************************)
(* Proofs about the way of an answer, for any replies of the schema's      *)
(* types, any evidence and any number of blocks, citations and indexes.    *)
(***************************************************************************)
EXTENDS Answers, FiniteSetTheorems, SequenceTheorems, TLAPS

USE AnswersAssumption

(***************************************************************************)
(* What a loop keeps.                                                      *)
(***************************************************************************)

LEMMA IntervalFacts ==
    ASSUME NEW m \in Nat
    PROVE  /\ IsFiniteSet(1 .. m) /\ Cardinality(1 .. m) = m
           /\ \A K \in SUBSET (1 .. m) : IsFiniteSet(K) /\ Cardinality(K) \in Nat
<1>1. 1 \in Int /\ m \in Int /\ (IF 1 > m THEN 0 ELSE m - 1 + 1) = m
  OBVIOUS
<1>2. IsFiniteSet(1 .. m) /\ Cardinality(1 .. m) = IF 1 > m THEN 0 ELSE m - 1 + 1
  BY <1>1, FS_Interval
<1>3. ASSUME NEW K \in SUBSET (1 .. m) PROVE IsFiniteSet(K) /\ Cardinality(K) \in Nat
  BY <1>2, FS_Subset, FS_CardinalityType
<1> QED
  BY <1>1, <1>2, <1>3

\* A position has a place of its own among those kept.
LEMMA RankInjective ==
    ASSUME NEW m \in Nat, NEW K \in SUBSET (1 .. m)
    PROVE  /\ \A k \in K : Rank(k, K) \in 1 .. Cardinality(K)
           /\ \A k, l \in K : k < l => Rank(k, K) # Rank(l, K)
<1>1. IsFiniteSet(K) /\ Cardinality(K) \in Nat
  BY IntervalFacts
<1>2. ASSUME NEW k \in K PROVE Rank(k, K) \in 1 .. Cardinality(K)
  <2> DEFINE U == {j \in K : j <= k}
  <2>1. U \in SUBSET K /\ k \in U
    OBVIOUS
  <2> HIDE DEF U
  <2>2. IsFiniteSet(U) /\ Cardinality(U) \in Nat /\ Cardinality(U) <= Cardinality(K)
    BY <1>1, <2>1, FS_Subset, FS_CardinalityType
  <2>3. Cardinality(U) # 0
    BY <2>1, <2>2, FS_EmptySet
  <2>4. Rank(k, K) = Cardinality(U)
    BY DEF Rank, U
  <2> QED
    BY <1>1, <2>2, <2>3, <2>4
<1>3. ASSUME NEW k \in K, NEW l \in K, k < l PROVE Rank(k, K) # Rank(l, K)
  <2> DEFINE U == {j \in K : j <= k}
             V == {j \in K : j <= l}
  <2>1. U \in SUBSET V /\ V \in SUBSET K /\ l \in V /\ l \notin U
    BY <1>3
  <2> HIDE DEF U, V
  <2>2. IsFiniteSet(V)
    BY <1>1, <2>1, FS_Subset
  <2>3. Cardinality(U) # Cardinality(V)
    BY <2>1, <2>2, FS_Subset
  <2>4. Rank(k, K) = Cardinality(U) /\ Rank(l, K) = Cardinality(V)
    BY DEF Rank, U, V
  <2> QED
    BY <2>3, <2>4
<1> QED
  BY <1>2, <1>3

\* Every place up to their number is taken by one of the positions kept.
LEMMA RankOnto ==
    ASSUME NEW m \in Nat, NEW K \in SUBSET (1 .. m), NEW n \in 1 .. Cardinality(K)
    PROVE  \E k \in K : Rank(k, K) = n
<1> DEFINE r == [k \in K |-> Rank(k, K)]
           N == 1 .. Cardinality(K)
<1>1. Cardinality(K) \in Nat
  BY IntervalFacts
<1>2. IsFiniteSet(N) /\ Cardinality(N) = Cardinality(K)
  BY <1>1, IntervalFacts
<1>3. r \in Injection(K, N)
  <2>1. r \in [K -> N]
    BY RankInjective
  <2>2. ASSUME NEW k \in K, NEW l \in K, r[k] = r[l] PROVE k = l
    <3>1. k \in Int /\ l \in Int /\ Rank(k, K) = Rank(l, K)
      BY <2>2
    <3> QED
      BY <3>1, RankInjective
  <2> QED
    BY <2>1, <2>2 DEF Injection, IsInjective
<1>4. r \in Surjection(K, N)
  BY <1>2, <1>3, FS_Injection
<1>5. \E k \in K : r[k] = n
  BY <1>4 DEF Surjection
<1> QED
  BY <1>5

\* What is kept comes from the positions kept, and from each of the places.
LEMMA KeptElements ==
    ASSUME NEW T, NEW s \in Seq(T), NEW K \in SUBSET DOMAIN s
    PROVE  /\ Kept(s, K) \in Seq(T)
           /\ \A n \in DOMAIN Kept(s, K) : \E k \in K : Kept(s, K)[n] = s[k]
           /\ Kept(s, K) = << >> <=> K = {}
           /\ K = DOMAIN s => Kept(s, K) = s
<1> DEFINE place(n) == CHOOSE k \in K : Rank(k, K) = n
<1>1. DOMAIN s = 1 .. Len(s) /\ Len(s) \in Nat
  OBVIOUS
<1>2. IsFiniteSet(K) /\ Cardinality(K) \in Nat
  BY <1>1, IntervalFacts
<1>3. \A n \in 1 .. Cardinality(K) : place(n) \in K /\ Rank(place(n), K) = n
  <2> SUFFICES ASSUME NEW n \in 1 .. Cardinality(K)
               PROVE  place(n) \in K /\ Rank(place(n), K) = n
    OBVIOUS
  <2>1. \E k \in K : Rank(k, K) = n
    BY <1>1, RankOnto
  <2> QED
    BY <2>1
<1>4. Kept(s, K) = [n \in 1 .. Cardinality(K) |-> s[place(n)]]
  BY DEF Kept
<1> HIDE DEF place
<1>5. \A n \in 1 .. Cardinality(K) : s[place(n)] \in T
  <2> SUFFICES ASSUME NEW n \in 1 .. Cardinality(K) PROVE s[place(n)] \in T
    OBVIOUS
  <2>1. place(n) \in DOMAIN s
    BY <1>3
  <2> QED
    BY <2>1, <1>1, ElementOfSeq
<1>6. Kept(s, K) \in Seq(T) /\ DOMAIN Kept(s, K) = 1 .. Cardinality(K) /\ Len(Kept(s, K)) = Cardinality(K)
  BY <1>2, <1>4, <1>5, IsASeq
<1>7. \A n \in DOMAIN Kept(s, K) : \E k \in K : Kept(s, K)[n] = s[k]
  BY <1>3, <1>4, <1>6
<1>8. Kept(s, K) = << >> <=> K = {}
  <2>1. Kept(s, K) = << >> <=> Cardinality(K) = 0
    BY <1>2, <1>6
  <2> QED
    BY <1>2, <2>1, FS_EmptySet
<1>9. ASSUME K = DOMAIN s PROVE Kept(s, K) = s
  <2>1. Cardinality(K) = Len(s)
    BY <1>1, <1>9, IntervalFacts
  <2>2. \A n \in 1 .. Len(s) : place(n) = n
    <3> SUFFICES ASSUME NEW n \in 1 .. Len(s) PROVE place(n) = n
      OBVIOUS
    <3>1. place(n) \in 1 .. Len(s) /\ Rank(place(n), K) = n
      BY <1>1, <1>3, <1>9, <2>1
    <3>2. {j \in K : j <= place(n)} = 1 .. place(n)
      BY <1>1, <1>9, <3>1
    <3>3. Cardinality(1 .. place(n)) = place(n)
      BY <3>1, IntervalFacts
    <3> QED
      BY <3>1, <3>2, <3>3 DEF Rank
  <2> QED
    BY <1>1, <1>4, <1>6, <2>1, <2>2
<1> QED
  BY <1>6, <1>7, <1>8, <1>9

(***************************************************************************)
(* The adapter.                                                            *)
(***************************************************************************)

LEMMA CleanIndexesFacts ==
    ASSUME NEW indexes \in Seq(Int), NEW count \in Nat
    PROVE  LET c == CleanIndexes(indexes, count) IN
           /\ c \in Seq(Int) /\ c # << >>
           /\ \A n \in ToSet(c) : 0 <= n /\ (count > 0 => n < count)
           /\ (indexes # << >> /\ \A n \in ToSet(indexes) : 0 <= n /\ n < count) => c = indexes
<1> DEFINE K == {k \in DOMAIN indexes : InRange(indexes[k], count)}
           valid == Kept(indexes, K)
           all == [k \in 1 .. count |-> k - 1]
           c == CleanIndexes(indexes, count)
<1>1. K \in SUBSET DOMAIN indexes /\ \A k \in K : 0 <= indexes[k] /\ indexes[k] < count
  BY DEF InRange
<1>2. c = IF valid # << >> THEN valid ELSE IF count > 0 THEN all ELSE <<0>>
  BY DEF CleanIndexes
<1> HIDE DEF c
<1>3. (\A n \in ToSet(indexes) : 0 <= n /\ n < count) => K = DOMAIN indexes
  BY DEF ToSet, InRange
<1> HIDE DEF K
<1>4. /\ valid \in Seq(Int)
      /\ \A n \in DOMAIN valid : \E k \in K : valid[n] = indexes[k]
      /\ valid = << >> <=> K = {}
      /\ K = DOMAIN indexes => valid = indexes
  BY <1>1, KeptElements
<1> HIDE DEF valid
<1>5. CASE valid # << >>
  <2>1. c = valid
    BY <1>2, <1>5
  <2>2. \A n \in ToSet(c) : 0 <= n /\ n < count
    BY <1>1, <1>4, <2>1 DEF ToSet
  <2> QED
    BY <1>3, <1>4, <1>5, <2>1, <2>2 DEF c
<1>6. CASE valid = << >>
  <2>1. (indexes # << >> /\ \A n \in ToSet(indexes) : 0 <= n /\ n < count) => FALSE
    BY <1>3, <1>4, <1>6
  <2>2. CASE count > 0
    <3>1. c = all
      BY <1>2, <1>6, <2>2
    <3>2. all \in Seq(Int) /\ DOMAIN all = 1 .. count /\ Len(all) = count
      BY <2>2, IsASeq
    <3>3. c # << >>
      BY <2>2, <3>1, <3>2
    <3>4. \A n \in ToSet(c) : 0 <= n /\ n < count
      BY <3>1, <3>2 DEF ToSet
    <3> QED
      BY <2>1, <3>1, <3>2, <3>3, <3>4 DEF c
  <2>3. CASE ~ count > 0
    <3>1. c = <<0>>
      BY <1>2, <1>6, <2>3
    <3>2. \A n \in ToSet(c) : 0 <= n
      BY <3>1 DEF ToSet
    <3> QED
      BY <2>1, <2>3, <3>1, <3>2 DEF c
  <2> QED
    BY <2>2, <2>3
<1> QED
  BY <1>5, <1>6

LEMMA CleanBlockFacts ==
    ASSUME NEW b \in AnyBlock, NEW count \in Nat
    PROVE  LET c == CleanBlock(b, count) IN
           /\ c \in AnyBlock /\ c.type = b.type
           /\ b.form = "exact" => c.form = "exact"
           /\ c.type = "sources" => c.indexes # << >>
           /\ \A n \in ToSet(c.indexes) : 0 <= n /\ (count > 0 => n < count)
           /\ c.type # "sources" => c.indexes = << >>
           /\ WellFormed(b) /\ (\A n \in ToSet(b.indexes) : 0 <= n /\ n < count) => c = b
<1> DEFINE c == CleanBlock(b, count)
           form == IF b.form = "untidy" THEN "exact" ELSE b.form
           indexes == IF b.type = "sources" THEN CleanIndexes(b.indexes, count) ELSE b.indexes
<1>1. /\ b \in [type : Known \cup {"stray"}, form : {"exact", "untidy", "broken"}, indexes : Seq(Int)]
      /\ b.type # "sources" => b.indexes = << >>
  BY DEF AnyBlock
<1>2. c = [b EXCEPT !.form = form, !.indexes = indexes]
  BY DEF CleanBlock
<1>3. indexes \in Seq(Int) /\ (b.type = "sources" => indexes # << >>)
  BY <1>1, CleanIndexesFacts
<1>4. \A n \in ToSet(indexes) : 0 <= n /\ (count > 0 => n < count)
  <2>1. CASE b.type = "sources"
    BY <1>1, <2>1, CleanIndexesFacts
  <2>2. CASE b.type # "sources"
    BY <1>1, <2>2 DEF ToSet
  <2> QED
    BY <2>1, <2>2
<1>5. WellFormed(b) /\ (\A n \in ToSet(b.indexes) : 0 <= n /\ n < count) => indexes = b.indexes
  BY <1>1, CleanIndexesFacts DEF WellFormed
<1> HIDE DEF indexes
<1>6. c.type = b.type /\ c.form = form /\ c.indexes = indexes
  BY <1>1, <1>2
<1>7. c \in [type : Known \cup {"stray"}, form : {"exact", "untidy", "broken"}, indexes : Seq(Int)]
  BY <1>1, <1>2, <1>3
<1>8. c.type # "sources" => c.indexes = << >>
  BY <1>1, <1>6 DEF indexes
<1>9. c \in AnyBlock
  BY <1>7, <1>8 DEF AnyBlock
<1>10. WellFormed(b) /\ (\A n \in ToSet(b.indexes) : 0 <= n /\ n < count) => c = b
  <2> SUFFICES ASSUME WellFormed(b), \A n \in ToSet(b.indexes) : 0 <= n /\ n < count PROVE c = b
    OBVIOUS
  <2>1. form = b.form /\ indexes = b.indexes
    BY <1>5 DEF WellFormed
  <2> QED
    BY <1>1, <1>2, <2>1
<1>11. b.form = "exact" => c.form = "exact"
  BY <1>6
<1> HIDE DEF c
<1> QED
  BY <1>3, <1>4, <1>6, <1>8, <1>9, <1>10, <1>11 DEF c

\* Without citations there is no block of sources that keeps the contract.
LEMMA SourcesNeedCitations ==
    ASSUME NEW i \in AnyIntervention, Coherent(i), i.citations = << >>, NEW b \in ToSet(i.blocks)
    PROVE  b.type # "sources"
<1>1. i.blocks \in Seq(AnyBlock) /\ i.situation \in {"insufficient_evidence", "ambiguous"} /\ Fits(i)
  BY DEF Coherent, Fits, AnyIntervention
<1>2. CASE i.situation = "insufficient_evidence"
  BY <1>1, <1>2 DEF Fits
<1>3. CASE i.situation = "ambiguous"
  <2>1. Len(i.blocks) = 1 /\ i.blocks[1].type = "question"
    BY <1>1, <1>3 DEF Fits
  <2>2. b = i.blocks[1]
    BY <1>1, <2>1 DEF ToSet
  <2> QED
    BY <2>1, <2>2
<1> QED
  BY <1>1, <1>2, <1>3

\* Whatever was sent, no index of what was cleaned is negative.
LEMMA CleanedFacts ==
    ASSUME NEW i \in AnyIntervention
    PROVE  LET c == Cleaned(i) IN
           /\ c \in AnyIntervention
           /\ \A b \in ToSet(c.blocks) : \A n \in ToSet(b.indexes) : 0 <= n
           /\ WebAccepts(i) => c = i
           /\ Coherent(i) => Coherent(c)
<1> DEFINE c == Cleaned(i)
           count == Len(i.citations)
           K == {k \in DOMAIN i.blocks : i.blocks[k].type \in Known}
           kept == Kept(i.blocks, K)
           clean == [k \in DOMAIN kept |-> CleanBlock(kept[k], count)]
<1>1. i.blocks \in Seq(AnyBlock) /\ i.citations \in Seq(AnyCitation) /\ count \in Nat
  BY DEF AnyIntervention
<1>2. kept \in Seq(AnyBlock) /\ (K = DOMAIN i.blocks => kept = i.blocks)
  BY <1>1, KeptElements
<1>3. c = [i EXCEPT !.blocks = clean]
  BY DEF Cleaned
<1>4. (\A k \in DOMAIN i.blocks : i.blocks[k].type \in Known) => kept = i.blocks
  BY <1>2
<1> HIDE DEF K, kept, c
<1>5. \A k \in DOMAIN kept : kept[k] \in AnyBlock
  BY <1>2
<1>6. \A k \in DOMAIN kept : CleanBlock(kept[k], count) \in AnyBlock
  BY <1>1, <1>5, CleanBlockFacts
<1>7. clean \in Seq(AnyBlock) /\ DOMAIN clean = DOMAIN kept /\ Len(clean) = Len(kept)
  BY <1>2, <1>6, IsASeq
<1> HIDE DEF count
<1>8. \A k \in DOMAIN clean : clean[k] = CleanBlock(kept[k], count)
  OBVIOUS
<1> HIDE DEF clean
<1>9. /\ c \in AnyIntervention /\ c.blocks = clean /\ c.citations = i.citations
      /\ c.situation = i.situation /\ c.grounded = i.grounded /\ c.version = i.version
  BY <1>3, <1>7 DEF AnyIntervention
<1>10. \A b \in ToSet(clean) : \A n \in ToSet(b.indexes) : 0 <= n
  <2> SUFFICES ASSUME NEW k \in DOMAIN clean, NEW n \in ToSet(clean[k].indexes) PROVE 0 <= n
    BY DEF ToSet
  <2>1. kept[k] \in AnyBlock /\ clean[k] = CleanBlock(kept[k], count)
    BY <1>5, <1>7, <1>8
  <2> QED
    BY <1>1, <2>1, CleanBlockFacts
<1>11. ASSUME Coherent(i)
       PROVE  /\ \A b \in ToSet(i.blocks) : WellFormed(b) /\ \A n \in ToSet(b.indexes) : n < count
              /\ kept = i.blocks
  <2>1. \A b \in ToSet(i.blocks) : WellFormed(b) /\ \A n \in ToSet(b.indexes) : n < count
    BY <1>11 DEF Coherent, count
  <2>2. \A k \in DOMAIN i.blocks : i.blocks[k].type \in Known
    BY <2>1 DEF ToSet, WellFormed
  <2> QED
    BY <1>4, <2>1, <2>2
<1>12. ASSUME WebAccepts(i) PROVE c = i
  <2>1. Coherent(i) /\ \A b \in ToSet(i.blocks) : \A n \in ToSet(b.indexes) : n >= 0
    BY <1>12 DEF WebAccepts
  <2>2. ASSUME NEW k \in DOMAIN i.blocks PROVE clean[k] = i.blocks[k]
    <3> DEFINE b == i.blocks[k]
    <3>1. b \in ToSet(i.blocks) /\ b \in AnyBlock
      BY <1>1 DEF ToSet
    <3>2. WellFormed(b) /\ \A n \in ToSet(b.indexes) : 0 <= n /\ n < count
      <4>1. \A n \in ToSet(b.indexes) : n \in Int
        BY <3>1 DEF ToSet, AnyBlock
      <4> QED
        BY <1>11, <2>1, <3>1, <4>1
    <3>3. clean[k] = CleanBlock(b, count)
      BY <1>7, <1>8, <1>11, <2>1
    <3> HIDE DEF b
    <3>4. clean[k] = b
      BY <1>1, <3>1, <3>2, <3>3, CleanBlockFacts
    <3> QED
      BY <3>4 DEF b
  <2>3. clean = i.blocks
    BY <1>1, <1>7, <1>11, <2>1, <2>2
  <2> QED
    BY <1>3, <2>3 DEF AnyIntervention
<1>13. ASSUME Coherent(i) PROVE Coherent(c)
  <2>1. kept = i.blocks /\ Len(clean) = Len(i.blocks) /\ DOMAIN clean = DOMAIN i.blocks
    BY <1>7, <1>11, <1>13
  <2>2. ASSUME NEW k \in DOMAIN clean
        PROVE  /\ clean[k].type = i.blocks[k].type
               /\ WellFormed(clean[k])
               /\ \A n \in ToSet(clean[k].indexes) : n < count
    <3> DEFINE b == i.blocks[k]
               d == clean[k]
    <3>1. b \in ToSet(i.blocks) /\ b \in AnyBlock /\ d = CleanBlock(b, count)
      BY <1>1, <1>8, <2>1 DEF ToSet
    <3>2. WellFormed(b)
      BY <1>11, <1>13, <3>1
    <3> HIDE DEF b, d
    <3>3. /\ d.type = b.type
          /\ b.form = "exact" => d.form = "exact"
          /\ d.type = "sources" => d.indexes # << >>
          /\ \A n \in ToSet(d.indexes) : 0 <= n /\ (count > 0 => n < count)
          /\ d.type # "sources" => d.indexes = << >>
      BY <1>1, <3>1, CleanBlockFacts
    <3>4. WellFormed(d)
      BY <3>2, <3>3 DEF WellFormed
    <3>5. ASSUME NEW n \in ToSet(d.indexes) PROVE n < count
      <4>1. CASE count > 0
        BY <3>3, <3>5, <4>1
      <4>2. CASE ~ count > 0
        <5>1. i.citations = << >>
          BY <1>1, <4>2 DEF count
        <5>2. d.type # "sources"
          BY <1>13, <3>1, <3>3, <5>1, SourcesNeedCitations
        <5> QED
          BY <3>3, <3>5, <5>2 DEF ToSet
      <4> QED
        BY <4>1, <4>2
    <3> QED
      BY <3>3, <3>4, <3>5 DEF b, d
  <2>3. Fits(i) /\ Len(i.blocks) \in 1 .. MaxBlocks /\ Len(i.citations) <= MaxCitations
    BY <1>13 DEF Coherent
  <2>4. Fits(c)
    <3>1. Uncited(c) = Uncited(i)
      BY <1>9 DEF Uncited
    <3>2. CASE i.situation = "insufficient_evidence"
      <4>1. Uncited(i) /\ \A b \in ToSet(i.blocks) : b.type \in {"question", "explanation"}
        BY <2>3, <3>2 DEF Fits
      <4>2. \A b \in ToSet(clean) : b.type \in {"question", "explanation"}
        BY <2>1, <2>2, <4>1 DEF ToSet
      <4> QED
        BY <1>9, <3>1, <3>2, <4>1, <4>2 DEF Fits
    <3>3. CASE i.situation = "ambiguous"
      <4>1. Uncited(i) /\ Len(i.blocks) = 1 /\ i.blocks[1].type = "question"
        BY <2>3, <3>3 DEF Fits
      <4>2. Len(clean) = 1 /\ clean[1].type = "question"
        BY <1>1, <2>1, <2>2, <4>1
      <4> QED
        BY <1>9, <3>1, <3>3, <4>1, <4>2 DEF Fits
    <3>4. CASE i.situation \notin {"insufficient_evidence", "ambiguous"}
      BY <1>9, <2>3, <3>4 DEF Fits
    <3> QED
      BY <3>2, <3>3, <3>4
  <2>5. \A b \in ToSet(clean) :
          /\ WellFormed(b)
          /\ i.version = "v1" => b.type # "activity"
          /\ \A n \in ToSet(b.indexes) : n < count
    <3>1. \A k \in DOMAIN i.blocks : i.version = "v1" => i.blocks[k].type # "activity"
      BY <1>13 DEF Coherent, ToSet
    <3> QED
      BY <2>1, <2>2, <3>1 DEF ToSet
  <2>6. \A j, k \in DOMAIN clean : IsTask(clean[j]) /\ IsTask(clean[k]) => j = k
    <3>1. \A j, k \in DOMAIN i.blocks : IsTask(i.blocks[j]) /\ IsTask(i.blocks[k]) => j = k
      BY <1>13 DEF Coherent
    <3> QED
      BY <2>1, <2>2, <3>1 DEF IsTask
  <2> QED
    BY <1>9, <2>1, <2>3, <2>4, <2>5, <2>6 DEF Coherent, count
<1> QED
  BY <1>9, <1>10, <1>12, <1>13 DEF c

LEMMA MergedType ==
    ASSUME NEW i \in AnyIntervention
    PROVE  Merged(i) \in AnyIntervention
<1> DEFINE of(type) == Kept(i.blocks, {k \in DOMAIN i.blocks : i.blocks[k].type = type})
           blocks == of("explanation") \o of("hint") \o of("diagram") \o of("question")
                     \o of("activity") \o of("sources")
<1>1. i.blocks \in Seq(AnyBlock)
  BY DEF AnyIntervention
<1>2. ASSUME NEW type PROVE of(type) \in Seq(AnyBlock)
  BY <1>1, KeptElements
<1>3. Merged(i) = [i EXCEPT !.version = "v2", !.blocks = blocks]
  BY DEF Merged
<1> HIDE DEF of
<1>4. blocks \in Seq(AnyBlock)
  BY <1>2
<1> HIDE DEF blocks
<1> QED
  BY <1>3, <1>4 DEF AnyIntervention

LEMMA DraftFacts ==
    ASSUME NEW i \in AnyIntervention
    PROVE  LET d == DraftFromIntervention(i) IN
           /\ d \in AnyDraft /\ d # None /\ i # None
           /\ d.intervention = i /\ d.citations = i.citations /\ d.mode = ModeFor(i)
           /\ d.mode = "abstain" <=> i.situation = "insufficient_evidence"
           /\ d.mode = "clarify" <=> i.situation = "ambiguous"
<1> DEFINE d == DraftFromIntervention(i)
<1>1. ModeFor(i) \in Modes
  BY DEF ModeFor, HelpOf, Modes
<1>2. /\ ModeFor(i) = "abstain" <=> i.situation = "insufficient_evidence"
      /\ ModeFor(i) = "clarify" <=> i.situation = "ambiguous"
  BY DEF ModeFor, HelpOf
<1>3. EquivalentText(i) \in [made : {"derived", "canonical", "prose", "blank"}, of : Seq(AnyBlock)]
  BY DEF EquivalentText, AnyIntervention
<1>4. d = [mode |-> ModeFor(i), answer |-> EquivalentText(i), citations |-> i.citations,
           grounded |-> i.grounded, intervention |-> i]
  BY DEF DraftFromIntervention, Draft
<1>5. i.citations \in Seq(AnyCitation) /\ i.grounded \in BOOLEAN
  BY DEF AnyIntervention
<1>6. d \in AnyDraft
  BY <1>1, <1>3, <1>4, <1>5 DEF AnyDraft
<1> QED
  BY <1>2, <1>4, <1>6

\* No index of a card is negative.
Nonnegative(i) == \A b \in ToSet(i.blocks) : \A n \in ToSet(b.indexes) : 0 <= n

\* What a reply is parsed to keeps the contract; where it was cleaned, every
\* card can be placed, and what both contracts accept was left as it was.
LEMMA ParsedFacts ==
    ASSUME reply \in Replies, Parsed # None
    PROVE  /\ Parsed \in AnyDraft
           /\ Parsed.intervention # None => Coherent(Parsed.intervention)
           /\ Structured /\ Parsed.intervention # None => Nonnegative(Parsed.intervention)
           /\ reply.form = "blocks" /\ WebAccepts(reply.content) => Parsed.intervention = reply.content
<1> DEFINE coherent == {k \in DOMAIN Tried : Coherent(Tried[k])}
           first == Min(coherent)
<1>1. /\ reply.form \in {"blocks", "lists", "draft"}
      /\ reply.content \in IF reply.form = "draft" THEN AnyDraft ELSE AnyIntervention
  BY DEF AnswersAssumption
<1>2. Structured => reply.form \in {"blocks", "lists"}
  BY DEF Structured
<1>3. CASE Structured /\ coherent # {}
  <2>1. Parsed = DraftFromIntervention(Tried[first])
    BY <1>2, <1>3 DEF Parsed
  <2>2. DOMAIN Tried \in SUBSET {1, 2}
    BY DEF Tried
  <2>3. first \in coherent /\ (1 \in coherent => first = 1)
    BY <1>3, <2>2 DEF Min
  <2>4. Coherent(Tried[first])
    BY <2>3
  <2> HIDE DEF coherent, first
  <2>5. /\ Tried[first] \in AnyIntervention
        /\ Coherent(Tried[first])
        /\ Nonnegative(Tried[first])
        /\ reply.form = "blocks" /\ WebAccepts(reply.content) => Tried[first] = reply.content
    <3>1. CASE reply.form = "lists"
      <4>1. Tried[first] = Cleaned(Merged(reply.content))
        BY <2>3, <3>1 DEF Tried, coherent
      <4>2. Merged(reply.content) \in AnyIntervention
        BY <1>1, <3>1, MergedType
      <4> QED
        BY <2>4, <3>1, <4>1, <4>2, CleanedFacts DEF Nonnegative
    <3>2. CASE reply.form = "blocks"
      <4>1. Tried = <<Cleaned(reply.content), reply.content>>
        BY <3>2 DEF Tried
      <4>2. reply.content \in AnyIntervention
        BY <1>1, <3>2
      <4>3. Coherent(Tried[2]) => Coherent(Tried[1])
        BY <4>1, <4>2, CleanedFacts
      <4>4. first = 1
        BY <2>3, <4>1, <4>3 DEF coherent
      <4>5. Tried[first] = Cleaned(reply.content)
        BY <4>1, <4>4
      <4> QED
        BY <2>4, <4>2, <4>5, CleanedFacts DEF Nonnegative
    <3> QED
      BY <1>2, <1>3, <3>1, <3>2
  <2> QED
    BY <2>1, <2>5, DraftFacts
<1>4. CASE reply.form = "draft" /\ ValidDraft(reply.content)
  <2>1. Parsed = reply.content
    BY <1>2, <1>4 DEF Parsed
  <2> QED
    BY <1>1, <1>2, <1>4, <2>1 DEF ValidDraft
<1>5. CASE ~ (Structured /\ coherent # {}) /\ ~ (reply.form = "draft" /\ ValidDraft(reply.content))
  <2>1. Parsed = None
    BY <1>5 DEF Parsed
  <2> QED
    BY <2>1
<1> QED
  BY <1>3, <1>4, <1>5

(***************************************************************************)
(* The validator.                                                          *)
(***************************************************************************)

LEMMA RepairedFacts ==
    ASSUME NEW citations \in Seq(AnyCitation)
    PROVE  LET r == Repaired(citations) IN
           /\ r \in Seq(AnyCitation)
           /\ citations # << >> => r # << >>
           /\ \A c \in ToSet(r) : \E d \in ToSet(citations) : c = Verbatim(d)
           /\ Distinct(citations) => Len(r) = Len(citations)
<1> DEFINE seen(k) == \E j \in 1 .. k - 1 : citations[j].chunk = citations[k].chunk
           K == {k \in DOMAIN citations : ~ seen(k)}
           kept == Kept(citations, K)
           r == Repaired(citations)
<1>1. K \in SUBSET DOMAIN citations /\ (citations # << >> => 1 \in K)
  OBVIOUS
<1>2. Distinct(citations) => K = DOMAIN citations
  <2> SUFFICES ASSUME Distinct(citations), NEW k \in DOMAIN citations, NEW j \in 1 .. k - 1,
                      citations[j].chunk = citations[k].chunk
               PROVE  FALSE
    OBVIOUS
  <2>1. j \in DOMAIN citations /\ j # k
    OBVIOUS
  <2> QED
    BY <2>1 DEF Distinct
<1>3. r = [k \in DOMAIN kept |-> Verbatim(kept[k])]
  BY DEF Repaired
<1> HIDE DEF K
<1>4. /\ kept \in Seq(AnyCitation)
      /\ \A n \in DOMAIN kept : \E k \in K : kept[n] = citations[k]
      /\ kept = << >> <=> K = {}
      /\ K = DOMAIN citations => kept = citations
  BY <1>1, KeptElements
<1> HIDE DEF kept, r
<1>5. \A k \in DOMAIN kept : Verbatim(kept[k]) \in AnyCitation
  <2>1. \A k \in DOMAIN kept : kept[k] \in AnyCitation
    BY <1>4
  <2> QED
    BY <2>1 DEF Verbatim, AnyCitation
<1>6. r \in Seq(AnyCitation) /\ Len(r) = Len(kept) /\ DOMAIN r = DOMAIN kept
  BY <1>3, <1>4, <1>5, IsASeq
<1>7. citations # << >> => r # << >>
  BY <1>1, <1>4, <1>6
<1>8. \A c \in ToSet(r) : \E d \in ToSet(citations) : c = Verbatim(d)
  <2> SUFFICES ASSUME NEW n \in DOMAIN kept PROVE \E d \in ToSet(citations) : r[n] = Verbatim(d)
    BY <1>6 DEF ToSet
  <2>1. PICK k \in K : kept[n] = citations[k]
    BY <1>4
  <2> QED
    BY <1>1, <1>3, <2>1 DEF ToSet
<1> QED
  BY <1>2, <1>4, <1>6, <1>7, <1>8 DEF r

\* What has passed the validator: it agrees with the intervention it was made
\* from, which keeps the contract, and is grounded in the evidence e.
Sealed(d, e) ==
    /\ d \in AnyDraft
    /\ d.intervention # None =>
         Coherent(d.intervention) /\ d = DraftFromIntervention(d.intervention)
    /\ \A c \in ToSet(d.citations) : c.chunk \in e /\ c.quote = "verbatim"
    /\ d.citations = << >> =>
         \/ d = Abstention
         \/ d.intervention # None /\ Len(d.intervention.blocks) = 1 /\ d.mode = "clarify"

\* The citations are replaced by theirs word for word, as many as before, so
\* the indexes of the cards and the demands of the situation still hold.
LEMMA AcceptedSealed ==
    ASSUME NEW d \in AnyDraft, d.intervention # None => Coherent(d.intervention),
           Agrees(d), ~ Clarifies(d), d.mode # "abstain", Answerable(d)
    PROVE  /\ Sealed(Accepted(d), evidence)
           /\ Accepted(d).intervention # None =>
                d.intervention # None /\ Accepted(d).intervention.blocks = d.intervention.blocks
<1> DEFINE r == Repaired(d.citations)
<1>1. d.citations \in Seq(AnyCitation)
  BY DEF AnyDraft
<1>2. r \in Seq(AnyCitation) /\ r # << >> /\ (Distinct(d.citations) => Len(r) = Len(d.citations))
  BY <1>1, RepairedFacts DEF Answerable
<1>3. \A c \in ToSet(r) : c.chunk \in evidence /\ c.quote = "verbatim"
  <2> SUFFICES ASSUME NEW c \in ToSet(r) PROVE c.chunk \in evidence /\ c.quote = "verbatim"
    OBVIOUS
  <2>1. PICK b \in ToSet(d.citations) : c = Verbatim(b)
    BY <1>1, RepairedFacts
  <2>2. b \in AnyCitation /\ Supported(b)
    BY <1>1 DEF Answerable, ToSet
  <2> QED
    BY <2>1, <2>2 DEF Supported, Verbatim, AnyCitation
<1> HIDE DEF r
<1>4. CASE d.intervention = None
  <2>1. Accepted(d) = [d EXCEPT !.citations = r]
    BY <1>4 DEF Accepted, r
  <2>2. Accepted(d) \in AnyDraft
    BY <1>2, <2>1 DEF AnyDraft
  <2>3. Accepted(d).citations = r /\ Accepted(d).intervention = None
    BY <1>4, <2>1 DEF AnyDraft
  <2> QED
    BY <1>2, <1>3, <1>4, <2>2, <2>3 DEF Sealed
<1>5. CASE d.intervention # None
  <2> DEFINE i == d.intervention
             j == [i EXCEPT !.citations = r]
  <2>1. i \in AnyIntervention /\ Coherent(i) /\ d = DraftFromIntervention(i) /\ Distinct(i.citations)
    BY <1>5 DEF AnyDraft, Agrees
  <2>2. d.citations = i.citations /\ i.situation # "insufficient_evidence"
    BY <2>1, DraftFacts
  <2>3. i.situation # "ambiguous"
    BY <1>5 DEF Clarifies
  <2>4. Accepted(d) = DraftFromIntervention(j)
    BY <1>5 DEF Accepted, r
  <2> HIDE DEF i
  <2>5. /\ j \in AnyIntervention /\ j.citations = r /\ j.blocks = i.blocks
        /\ j.situation = i.situation /\ j.version = i.version /\ j.grounded = i.grounded
    BY <1>2, <2>1 DEF AnyIntervention
  <2> HIDE DEF j
  <2>6. Len(r) = Len(i.citations) /\ r # << >>
    BY <1>2, <2>1, <2>2
  <2>7. Fits(j)
    BY <2>1, <2>2, <2>3, <2>5, <2>6 DEF Coherent, Fits
  <2>8. Coherent(j)
    BY <2>1, <2>5, <2>6, <2>7 DEF Coherent
  <2>9. /\ Accepted(d) \in AnyDraft /\ j # None
        /\ Accepted(d).intervention = j /\ Accepted(d).citations = r
    BY <2>4, <2>5, DraftFacts
  <2>10. Sealed(Accepted(d), evidence)
    BY <1>3, <2>4, <2>6, <2>8, <2>9 DEF Sealed
  <2> QED
    BY <1>5, <2>5, <2>9, <2>10 DEF i
<1> QED
  BY <1>4, <1>5

LEMMA ValidatedSealed ==
    ASSUME NEW d \in AnyDraft, d.intervention # None => Coherent(d.intervention),
           Validated(d) # None
    PROVE  /\ Sealed(Validated(d), evidence)
           /\ Validated(d).intervention # None =>
                d.intervention # None /\ Validated(d).intervention.blocks = d.intervention.blocks
<1>1. Agrees(d)
  BY DEF Validated
<1>2. CASE Clarifies(d)
  <2> DEFINE i == d.intervention
  <2>1. Validated(d) = d
    BY <1>1, <1>2 DEF Validated
  <2>2. /\ i # None /\ i \in AnyIntervention /\ Coherent(i) /\ i.situation = "ambiguous"
        /\ d = DraftFromIntervention(i)
    BY <1>1, <1>2 DEF Clarifies, Agrees, AnyDraft
  <2>3. Uncited(i) /\ Len(i.blocks) = 1
    BY <2>2 DEF Coherent, Fits
  <2> HIDE DEF i
  <2>4. d.mode = "clarify" /\ d.citations = i.citations
    BY <2>2, DraftFacts
  <2>5. d.citations = << >>
    BY <2>3, <2>4 DEF Uncited
  <2> QED
    BY <2>1, <2>2, <2>3, <2>4, <2>5 DEF Sealed, ToSet, i
<1>3. CASE ~ Clarifies(d) /\ d.mode = "abstain"
  <2>1. Validated(d) = Abstention
    BY <1>1, <1>3 DEF Validated, AbstentionOf
  <2>2. /\ Abstention = [mode |-> "abstain", answer |-> [made |-> "canonical", of |-> << >>],
                         citations |-> << >>, grounded |-> FALSE, intervention |-> None]
    BY DEF Abstention, Draft, Canonical
  <2>3. Abstention \in AnyDraft
    BY <2>2 DEF AnyDraft, Modes
  <2> QED
    BY <2>1, <2>2, <2>3 DEF Sealed, ToSet
<1>4. CASE ~ Clarifies(d) /\ d.mode # "abstain"
  <2>1. Validated(d) = Accepted(d) /\ Answerable(d)
    BY <1>1, <1>4 DEF Validated
  <2> QED
    BY <1>1, <1>4, <2>1, AcceptedSealed
<1> QED
  BY <1>2, <1>3, <1>4

(***************************************************************************)
(* The way of an answer.                                                   *)
(***************************************************************************)

\* The inductive invariant: what each stage hands to the next.  Neither the
\* indexes of the cards nor the contract is looked at again once a draft is
\* parsed, so both have to be carried along from there.
AnswerInv ==
    /\ reply \in Replies
    /\ stage = "generated" =>
         draft \in AnyDraft /\ (draft.intervention # None => Coherent(draft.intervention))
    /\ stage = "validated" => Sealed(draft, evidence)
    /\ stage \in {"generated", "validated"} /\ Structured /\ draft.intervention # None =>
         Nonnegative(draft.intervention)
    /\ stage = "stored" => row # None
    /\ row # None => Sealed(row, evidence)
    /\ row # None /\ Structured /\ row.intervention # None => Nonnegative(row.intervention)
    /\ CleaningFaithful
    /\ ShownWhole

LEMMA InitAnswerInv == AnswerInit => AnswerInv
BY DEF AnswerInit, Asked, AnswerInv, CleaningFaithful, ShownWhole

LEMMA ReplyStep ==
    ASSUME AnswerInv, Reply
    PROVE  AnswerInv'
<1>1. /\ Parsed \in AnyDraft
      /\ Parsed.intervention # None => Coherent(Parsed.intervention)
      /\ Structured /\ Parsed.intervention # None => Nonnegative(Parsed.intervention)
      /\ reply.form = "blocks" /\ WebAccepts(reply.content) => Parsed.intervention = reply.content
  BY ParsedFacts DEF AnswerInv, Reply
<1>2. draft' = Parsed /\ stage' = "generated" /\ UNCHANGED <<reply, evidence, row, screen>>
  BY DEF Reply
<1> HIDE DEF Parsed
<1> QED
  BY <1>1, <1>2 DEF AnswerInv, CleaningFaithful, ShownWhole, Structured

LEMMA ValidateStep ==
    ASSUME AnswerInv, Validate
    PROVE  AnswerInv'
<1>1. /\ Sealed(Validated(draft), evidence)
      /\ Validated(draft).intervention # None =>
           /\ draft.intervention # None
           /\ Validated(draft).intervention.blocks = draft.intervention.blocks
  <2> SUFFICES ASSUME NEW d, d = draft
               PROVE  /\ Sealed(Validated(d), evidence)
                      /\ Validated(d).intervention # None =>
                           /\ d.intervention # None
                           /\ Validated(d).intervention.blocks = d.intervention.blocks
    OBVIOUS
  <2> QED
    BY ValidatedSealed DEF AnswerInv, Validate
<1>2. draft' = Validated(draft) /\ stage' = "validated" /\ UNCHANGED <<reply, evidence, row, screen>>
  BY DEF Validate
<1>3. Structured /\ draft'.intervention # None => Nonnegative(draft'.intervention)
  BY <1>1, <1>2 DEF AnswerInv, Validate, Nonnegative
<1> QED
  BY <1>1, <1>2, <1>3 DEF AnswerInv, CleaningFaithful, ShownWhole, Structured

\* A refusal, or the row of what passed.
LEMMA EndStep ==
    ASSUME AnswerInv, ReplyInvalid \/ Reject \/ Complete
    PROVE  AnswerInv'
<1>1. CASE stage = "validated" /\ Store
  <2>1. draft # None
    BY <1>1 DEF AnswerInv, Sealed
  <2> QED
    BY <1>1, <2>1 DEF AnswerInv, Store, CleaningFaithful, ShownWhole, Structured
<1>2. CASE \E code \in {"MODEL_OUTPUT_INVALID", "PERSISTENCE_UNAVAILABLE"} : Fail(code)
  BY <1>2 DEF AnswerInv, Fail, CleaningFaithful, ShownWhole, Structured
<1> QED
  BY <1>1, <1>2 DEF ReplyInvalid, Reject, Complete

LEMMA ShowStep ==
    ASSUME AnswerInv, Show
    PROVE  AnswerInv'
<1>1. row # None /\ Sealed(row, evidence) /\ stage' = "shown" /\ UNCHANGED <<reply, evidence, draft, row>>
  BY DEF AnswerInv, Show
<1>2. ShownWhole'
  <2>1. PICK rich \in BOOLEAN :
          screen' = IF row.intervention = None THEN ShowAnswer(rich)
                    ELSE ShowIntervention(row.intervention, rich)
    BY DEF Show
  <2>2. CASE row.intervention = None
    BY <1>1, <2>1, <2>2 DEF ShownWhole, ShowAnswer
  <2>3. CASE row.intervention # None
    <3> SUFFICES ASSUME NEW i, i = row.intervention
                 PROVE  ShownWhole'
      OBVIOUS
    <3> DEFINE kind == IF rich /\ Presentable(i) THEN "rich" ELSE "text"
    <3>1. screen' = [wanted |-> rich, kind |-> kind, sources |-> HasSources(i, kind),
                     actions |-> AllowedActions(i)]
      BY <2>1, <2>3 DEF ShowIntervention
    <3>2. /\ i \in AnyIntervention /\ Coherent(i)
          /\ row.citations = i.citations
          /\ \A c \in ToSet(i.citations) : c.chunk \in evidence
      BY <1>1, <2>3 DEF Sealed, AnyDraft, DraftFromIntervention, Draft
    <3>3. Structured => Presentable(i)
      <4> SUFFICES ASSUME Structured, NEW b \in ToSet(i.blocks), NEW n \in ToSet(b.indexes)
                   PROVE  0 <= n /\ n < Len(i.citations) /\ i.citations[n + 1].chunk \in Viewed
        BY DEF Presentable
      <4>1. 0 <= n /\ n < Len(i.citations)
        BY <1>1, <2>3, <3>2 DEF AnswerInv, Nonnegative, Coherent
      <4>2. n \in Int
        BY <3>2 DEF AnyIntervention, AnyBlock, ToSet
      <4>3. i.citations[n + 1] \in ToSet(i.citations)
        BY <3>2, <4>1, <4>2 DEF AnyIntervention, ToSet
      <4> QED
        BY <3>2, <4>1, <4>3 DEF Viewed
    <3>4. "view_source" \in AllowedActions(i) => i.citations # << >>
      BY DEF AllowedActions
    <3>5. i.citations # << >> => HasSources(i, kind)
      BY DEF HasSources, Listed
    <3>6. rich /\ Structured => kind = "rich"
      BY <3>3
    <3> HIDE DEF kind
    <3> QED
      BY <1>1, <3>1, <3>4, <3>5, <3>6 DEF ShownWhole, Structured
  <2> QED
    BY <2>2, <2>3
<1> QED
  BY <1>1, <1>2 DEF AnswerInv, CleaningFaithful, Structured

LEMMA NextAnswerInv == AnswerInv /\ [AnswerNext]_answerVars => AnswerInv'
<1>1. ASSUME AnswerInv, UNCHANGED answerVars PROVE AnswerInv'
  BY <1>1 DEF AnswerInv, answerVars, CleaningFaithful, ShownWhole, Structured
<1> QED
  BY <1>1, ReplyStep, ValidateStep, EndStep, ShowStep DEF AnswerNext

LEMMA InductiveAnswerInv == AnswerSpec => []AnswerInv
BY InitAnswerInv, NextAnswerInv, PTL DEF AnswerSpec

\* Cleaning a reply changes nothing of what both contracts accept, for any
\* reply (ChatCompletionsTutorModel.generate).
THEOREM CleaningFaithfulHolds == AnswerSpec => []CleaningFaithful
<1>1. AnswerInv => CleaningFaithful
  BY DEF AnswerInv
<1> QED
  BY <1>1, InductiveAnswerInv, PTL

\* The validator replaces citations without parsing the intervention again,
\* and what is stored still keeps the contract, for any reply and evidence
\* (EvidenceResponseValidator.validate, ConversationService.complete).
THEOREM StoredCoherentHolds == AnswerSpec => []StoredCoherent
<1>1. AnswerInv => StoredCoherent
  BY DEF AnswerInv, StoredCoherent, Sealed
<1> QED
  BY <1>1, InductiveAnswerInv, PTL

\* Every quote that is stored stands word for word in a chunk that was
\* retrieved, and nothing is claimed without one, for any reply and evidence
\* (EvidenceResponseValidator.validate).
THEOREM AnswerGroundedHolds == AnswerSpec => []AnswerGrounded
<1>1. AnswerInv => AnswerGrounded
  BY DEF AnswerInv, AnswerGrounded, Sealed
<1> QED
  BY <1>1, InductiveAnswerInv, PTL

\* What was cleaned is shown as blocks and cards, and "Ver fuente" has
\* something to open, for any reply and evidence (toOpenUiLang, RichResponse).
THEOREM ShownWholeHolds == AnswerSpec => []ShownWhole
<1>1. AnswerInv => ShownWhole
  BY DEF AnswerInv
<1> QED
  BY <1>1, InductiveAnswerInv, PTL
=============================================================================
